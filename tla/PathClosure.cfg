SPECIFICATION LoopSpec
CONSTANTS
    Nodes <- MCNodes
    Inputs <- MCInputs
INVARIANTS NothingInvented ClosureOfOnes
PROPERTY LoopEnds
CHECK_DEADLOCK FALSE
