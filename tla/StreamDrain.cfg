CONSTANTS
    MaxLine = 2
    EchoMax = 4
    MarkerStep = 5
    TailMax = 3
    Runs <- SmallRuns
    MaxBytes = 5
    MaxChunk = 3
    MaxCancels = 2
SPECIFICATION DrainSpec
CHECK_DEADLOCK FALSE
INVARIANT CompleteUnlessReported
INVARIANT SpillReclaimed
INVARIANT TextExact
