SPECIFICATION Spec
CONSTANTS
    Heights <- MCHeights
    PartCounts <- MCPartCounts
INVARIANTS EveryRowTaken OffsetsAsInClosedForm TwoChunksAreTakenOnce
PROPERTY LoopReturns
CHECK_DEADLOCK FALSE
