SPECIFICATION LoopSpec
CONSTANTS
    Nodes <- MCNodes
    Inputs <- Counts
INVARIANT ClosureOfAll
CHECK_DEADLOCK FALSE
