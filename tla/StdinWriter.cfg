SPECIFICATION Spec
CONSTANTS
    CloseGrace = 2
    SettleGrace = 1
    Slack = 1
    MaxReclaims = 2
INVARIANTS
    WriterReclaimed
    FailureNamed
PROPERTY
    RunReleased
CHECK_DEADLOCK FALSE
