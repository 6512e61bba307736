SPECIFICATION Spec
CONSTANTS
    k1 = k1
    k2 = k2
    k3 = k3
    c1 = c1
    c2 = c2
    c3 = c3
    ch = ch
    p = p
    None = None
    Link = Link
    Keys = {k1, k2, k3}
    Clients = {c1, c2, c3}
    Channels = {ch}
    Patterns = {p}
    Scripts <- MCScripts
    CacheSize = 1
    Workloads <- MCWorkloads
    MaxWrites = 3
    MaxQueue = 2
    MaxDirty = 1
INVARIANTS Indexes ReplicaExact BlockedServed WatchedUnchanged DeliveredOnce
PROPERTY ServedInOrder
CHECK_DEADLOCK FALSE
