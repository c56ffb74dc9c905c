SPECIFICATION FairSpec
CONSTANTS
    Lines = {}
    Selects = {}
    RteLows <- NoValues
    RteHighs <- PhysicalZero
    TaskPriorities = {0, 4}
    LogicalIds <- NoValues
    Models <- NoValues
    SpuriousWrites <- Svrs
    IpiDestinations <- SomeDestinations
    Ipis <- OddIpis
    TimerEntries <- Lvts
    InitialCounts = {TRUE, FALSE}
    ErrorAccesses = {"ESR", "ILLEGAL"}
PROPERTIES HighestAcknowledged
