SPECIFICATION Spec
CONSTANTS
    Predicates <- MCPredicates
    SlashPredicates = {"ex/q"}
    Datatypes <- MCDatatypes
    XsdString = "xsd:string"
    Rows = {"a", "b", "n"}
    Dtype <- MCDtype
    NullRow = NullRow
    FrameIds = {1, 2, 3, 4, 5, 6}
    NoFrame = NoFrame
    NoTable = NoTable
    Caching = TRUE
    Faults = {"create", "read", "remove"}
    Inputs <- FolderInputs
    Templates <- OneTemplate
    PartsBound = 2
    MaxCalls = 2
INVARIANTS TypeOK DeduplicatedMeansUnique AnswersComplete
PROPERTIES LossIsNeverHidden RowsAreLostOnlyByFailure
