SPECIFICATION Spec
CONSTANTS
    Lines = {5, 6}
    Selects = {26, 27, 28}
    RteLows <- OddEntries
    RteHighs <- Bit0
    TaskPriorities = {}
    LogicalIds <- Bit0
    Models = {"flat"}
    SpuriousWrites <- FocusOff
    IpiDestinations <- NoValues
    Ipis <- NoValues
    TimerEntries <- NoValues
    InitialCounts = {}
    ErrorAccesses = {}
INVARIANTS ServiceIsLoop
