CONSTANTS
    Full = Full
    Half = Half
    Other = Other
    Empty = Empty
    NoItem = NoItem
    Items <- MCItems
    Size <- MCSize
    Capacity <- MCCapacity
SPECIFICATION FairSpec
CHECK_DEADLOCK FALSE
INVARIANT DeliveryAccounted
PROPERTY ReportIsFinal
PROPERTY TeardownEnds
INVARIANT QueueDiscipline
