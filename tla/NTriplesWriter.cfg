SPECIFICATION FairSpec
CONSTANTS
    Frames <- MCFrames
    ThreadCounts = {1, 2, 3}
    ChunkSizes = {1, 2}
    ShortWrites = TRUE
INVARIANTS LinesInOrder OnlyShortWritesLose PoolsSuffice
PROPERTY WriterReturns
