CONSTANTS
    Callers = {c1, c2}
    Task = task
    Nobody = nobody
    Ops = {"wait", "deadline", "elapsed", "kill", "leaveFailing"}
    OwnsGroup = TRUE
    Refusable = FALSE
SPECIFICATION FairSpec
CHECK_DEADLOCK FALSE
PROPERTY ImplementsOneOutcome
PROPERTY EveryCallerAnswered
INVARIANT RunSettledOnce
