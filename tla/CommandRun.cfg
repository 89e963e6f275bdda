SPECIFICATION CommandFairSpec
CONSTANT MaxCancels = 2
INVARIANTS
    NothingLeftBehind
    OutcomeTruthful
PROPERTY RunEnds
CHECK_DEADLOCK FALSE
