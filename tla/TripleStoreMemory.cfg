SPECIFICATION WriterSpec
CONSTANTS
    Predicates <- MCPredicates
    SlashPredicates = {"ex/q"}
    Datatypes <- MCDatatypes
    XsdString = "xsd:string"
    Rows = {"a", "b", "n"}
    Dtype <- MCDtype
    NullRow = NullRow
    Alphanumerics <- MCAlphanumerics
    Threads = 2
    FrameIds = {1, 2, 3, 4, 5, 6, 7}
    NoFrame = NoFrame
    NoTable = NoTable
    Caching = FALSE
    Faults = {"create"}
    Inputs <- AllInputs
    Templates <- MCTemplates
    PartsBound = 1
    MaxCalls = 3
INVARIANTS AnswersWithoutDuplicates ToTriplesComplete FolderHoldsTheStore FolderInventsNothing
PROPERTIES RowsAreLostOnlyByFailure ImplementsAbstractStore
