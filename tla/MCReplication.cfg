SPECIFICATION Spec
CONSTANTS
    Slaves = {s1, s2}
    Conns = {c1, c2}
    NoConn = NoConn
    Dbs = {0, 1}
    BacklogSize = 2
    DisklessModes = {FALSE}
    MaxFeeds = 2
    MaxEvents = 1
    MaxForkFails = 0
SYMMETRY Symmetry
INVARIANTS
    TypeOK
    SyncExact
    OffsetNamesData
    AssertionsHold
CHECK_DEADLOCK FALSE
