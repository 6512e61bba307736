SPECIFICATION FairSpec
CONSTANTS
    Slaves = {s1}
    Conns = {c1, c2}
    NoConn = NoConn
    Dbs = {0, 1}
    BacklogSize = 1
    DisklessModes = {TRUE, FALSE}
    MaxFeeds = 2
    MaxEvents = 1
    MaxForkFails = 0
INVARIANTS
    SyncExact
PROPERTIES
    EventuallyInSync
CHECK_DEADLOCK FALSE
