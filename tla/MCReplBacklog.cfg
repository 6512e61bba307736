SPECIFICATION Spec
CONSTANTS
    Bytes = {b1, b2}
    NoByte = NoByte
    MinSize = 2
    MaxSize = 4
    MaxFeed = 5
    MaxOffset = 8
INVARIANTS
    TypeOK
    HistoryInPlace
    ServedBytesExact
CHECK_DEADLOCK FALSE
