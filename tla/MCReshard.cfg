SPECIFICATION ReshardSpec
CONSTANTS
    m1 = m1
    m2 = m2
    Null = Null
    Nodes = {m1, m2}
    Slots = {1, 2, 3}
    Name <- MCName
    Layouts <- MCLayouts
    LateVotes = FALSE
    MaxEvents = 2
    MaxInFlight = 1
    Slot = 1
    Keys = {k1, k2}
    Source = m1
    Target = m2
    ErrorLimit = 2
    MaxWrites = 2
INVARIANTS NothingLost ReadsLatest
CHECK_DEADLOCK FALSE
