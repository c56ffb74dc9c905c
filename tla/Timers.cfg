SPECIFICATION Spec
CONSTANTS
    TimersIdx = 4
    MaxWait = 2
    BYTE = 2
    PitSlot = 1
    Slot0 = 0
    Blocks = {0, 1}
    HpetSlot <- SlotOf
    Routes = {5}
    Sessions <- GuestSessions
    Passes = {1}
INVARIANTS TimersConsistent DiesUnloadedOrWide
PROPERTIES
    LatchedCountKept
    PendingRaises
    SlotsFire
CHECK_DEADLOCK FALSE
