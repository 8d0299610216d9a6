SPECIFICATION Spec
CONSTANTS
    Nodes <- MCNodes
    Predicates <- MCPredicates
    Graphs <- MCGraphs
    Paths <- MCPaths
    Depth <- MCDepth
    Queries <- MCQueries
    Variable = Variable
INVARIANTS SparseIsExact SparseInventsNothing FramesMissOnlyTheLast
CHECK_DEADLOCK FALSE
