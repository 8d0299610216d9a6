SPECIFICATION Spec
CONSTANTS
    Predicates <- MCPredicates
    SlashPredicates = {"ex/q"}
    Datatypes <- MCDatatypes
    XsdString = "xsd:string"
    Rows = {"a", "b", "n"}
    Dtype <- MCDtype
    NullRow = NullRow
    FrameIds = {1, 2, 3, 4, 5, 6, 7}
    NoFrame = NoFrame
    NoTable = NoTable
    Caching = FALSE
    Faults = {}
    Inputs <- OverlapInputs
    Templates <- OneTemplate
    PartsBound = 1
    MaxCalls = 4
INVARIANT AnswersWithoutDuplicates
