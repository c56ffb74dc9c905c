SPECIFICATION Spec
CONSTANTS
    Lines = {5, 6}
    Selects = {26, 28}
    RteLows <- Entries
    RteHighs <- PhysicalZero
    TaskPriorities = {0, 3, 4}
    LogicalIds <- NoValues
    Models <- NoValues
    SpuriousWrites <- NoValues
    IpiDestinations <- NoValues
    Ipis <- SelfIpi
    TimerEntries <- NoValues
    InitialCounts = {}
    ErrorAccesses = {}
INVARIANTS LapicSignalled RequestOutranks
PROPERTIES NestsByPriority
