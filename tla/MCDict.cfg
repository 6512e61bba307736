SPECIFICATION Spec
CONSTANTS
    k1 = k1
    k2 = k2
    k3 = k3
    k4 = k4
    Keys = {k1, k2, k3, k4}
    Hash <- MCHash
    TableSizes = {2, 4, 8}
    InitialSize = 2
    ForceRatio = 1
    MinFill = 30
    CursorBits = 3
    Iters = {i1}
INVARIANTS
    TypeOK
    FindExact
    RehashSafe
    ScanCompleteUncut
    IterExact
