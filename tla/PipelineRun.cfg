SPECIFICATION FairSpec
CONSTANTS
    N = 2
    MaxCancels = 2
INVARIANTS
    RunReclaimed
    FirstFailureNamed
PROPERTY RunEnds
CHECK_DEADLOCK FALSE
INVARIANT RunAccounted
