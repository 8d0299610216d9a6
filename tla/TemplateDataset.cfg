SPECIFICATION ReadSpec
CONSTANTS
    BasicTypes <- MCBasicTypes
    NoType = NoType
    Prefixes <- MCPrefixes
    LocalNames <- MCLocalNames
    Predefined <- MCPredefined
    Composite <- MCComposite
    Unparsed = Unparsed
    Undefined = Undefined
    SourceLists <- MCSourceLists
    DocumentLists <- MCDocumentLists
    IRIs <- MCIRIs
    Names <- MCIRIs
    Variables <- MCVariables
    OTTR_TRIPLE <- MCTriple
    AnyURI <- MCAnyURI
    Constant = Constant
    Candidates <- MCCandidates
INVARIANTS LeastTyping IncompatibleMeansUntypable PrefixesAgree NamesMeanTheSame
PROPERTY InferenceEnds
CHECK_DEADLOCK FALSE
