SPECIFICATION Spec
CONSTANTS
    m1 = m1
    m2 = m2
    m3 = m3
    a = a
    b = b
    Null = Null
    Nodes = {m1, m2, m3, a, b}
    Slots = {1, 2, 3}
    Name <- MCName
    Layouts <- MCLayouts
    LateVotes = FALSE
    MaxEvents = 2
    MaxInFlight = 2
INVARIANTS ElectionSafety SlotEpochUnique SlaveHasNoSlots SettledAgree
CHECK_DEADLOCK FALSE
