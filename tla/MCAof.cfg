SPECIFICATION FairSpec
CONSTANTS
    DbNum = 2
    Policies = {"always", "everysec", "no"}
    Sizes = {1}
    PipeSize = 1
    MaxWrites = 2
    MaxEvents = 2
    MaxCrashes = 1
INVARIANTS
    TypeOK
    ReplayExact
    CrashSafe
PROPERTIES
    BufferDrains
    StartCompletes
CHECK_DEADLOCK FALSE
