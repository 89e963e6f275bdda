SPECIFICATION Spec
CONSTANTS
    Requests <- MCRequests
    Environ <- MCEnviron
    Numbers = {3, 4, 5, 6}
    Own = 2
    MaxClock = 4
INVARIANTS NothingLeaked RunAsTold InputsHonoured LogHonest
PROPERTY EveryRunAnswered
CHECK_DEADLOCK FALSE
