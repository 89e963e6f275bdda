CONSTANTS
    Codes = {Code0, Code1}
    Placeholder = Minus1
    NoCode = None
SPECIFICATION FairSpec
INVARIANT NoStrangerSignalled
INVARIANT ExitKnownOnce
PROPERTY CallsComplete
