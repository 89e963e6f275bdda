CONSTANTS
    Chunks = 3
    PipeCapacity = 1
    ReaderLimit = 1
    HighWater = 1
    MaxCancels = 2
SPECIFICATION FairSpec
CHECK_DEADLOCK FALSE
INVARIANT WorkerOwnsDescriptors
INVARIANT NothingLost
PROPERTY HopEnds
