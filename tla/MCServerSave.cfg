SPECIFICATION Spec
CONSTANTS
    k1 = k1
    k2 = k2
    k3 = k3
    c1 = c1
    c2 = c2
    c3 = c3
    ch = ch
    p = p
    None = None
    Link = Link
    Keys = {k1, k2, k3}
    Clients = {c1, c2, c3}
    Channels = {ch}
    Patterns = {p}
    Scripts <- MCScripts
    CacheSize = 1
    Workloads <- MCSaving
    MaxWrites = 3
    MaxQueue = 2
    MaxDirty = 1
INVARIANT ReplicaExact
CHECK_DEADLOCK FALSE
