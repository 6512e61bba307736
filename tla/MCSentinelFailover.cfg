SPECIFICATION Spec
CONSTANTS
    s1 = s1
    s2 = s2
    s3 = s3
    m = m
    a = a
    b = b
    c = c
    d = d
    NoOne = NoOne
    FirstMaster = m
    ParallelSyncs = 2
    Quorum = 1
    Sentinels = {s1, s2}
    Instances = {m, a, b, c, d}
    MaxEpoch = 1
    MaxEvents = 2
    MaxInFlight = 0
    MaxCommands = 1
    MinSlaves = 3
    MaxForced = 6
SYMMETRY Symmetry
INVARIANTS
    TypeOK
    AnnouncedIsSaved
    PromotedSafe
    SyncsBounded
CHECK_DEADLOCK FALSE
