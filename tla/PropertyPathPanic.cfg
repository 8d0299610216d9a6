SPECIFICATION Spec
CONSTANTS
    Nodes <- MCNodes
    Predicates <- MCPredicates
    Graphs <- MCGraphs
    Paths <- MCPaths
    Depth <- MCDepth
    Queries <- PanicQueries
    Variable = Variable
INVARIANT NeverPanics
CHECK_DEADLOCK FALSE
