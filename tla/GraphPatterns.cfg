SPECIFICATION Spec
CONSTANTS
    Null = Null
    RowNumber = "exists"
    AList = AList
    U32 = 8
    a = a
    b = b
    Nodes <- MCNodes
    Variables <- MCVariables
    Predicates <- MCPredicates
    Graphs <- MCGraphs
    Queries <- MCQueries
INVARIANTS AnswersAreExact MultiplicitiesAreExact SafeQueriesAreAnswered TypeOK
CHECK_DEADLOCK FALSE
