SPECIFICATION Spec
CONSTANTS
    s1 = s1
    s2 = s2
    s3 = s3
    m = m
    a = a
    b = b
    c = c
    NoOne = NoOne
    FirstMaster = m
    ParallelSyncs = 1
    Quorum = 1
    Sentinels = {s1, s2, s3}
    Instances = {m}
    MaxEpoch = 1
    MaxEvents = 1
    MaxInFlight = 1
    MaxCommands = 0
    MinSlaves = 0
    MaxForced = 0
SYMMETRY Symmetry
INVARIANTS
    OneVotePerEpoch
    ElectionSafety
CHECK_DEADLOCK FALSE
