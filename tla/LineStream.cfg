SPECIFICATION LineFairSpec
CONSTANTS
    Streams <- StreamNames
    MaxLines <- LineBound
    Capacity = 1
    MaxCancels = 1
INVARIANT NothingLeftBehind
PROPERTIES
    ImplementsLineDelivery
    StreamEnds
CHECK_DEADLOCK FALSE
