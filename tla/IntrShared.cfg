SPECIFICATION SystemSpec
CONSTANTS
    Lines = {1}
    MasterOffsets = {8}
    SlaveOffsets = {112}
    Masks <- OpenOrClosed
    LevelLines <- NoValues
    Icw1Values = {TRUE}
    Icw3Values <- CascadeOn
    Icw4Values <- Intel
    Ocw2Commands = {"nonspecific_eoi"}
    Ocw3Commands = {}
    GvmAccepts <- AllAccepted
    Selects = {18}
    RteLows <- Entries
    RteHighs <- PhysicalZero
    TaskPriorities = {0, 4}
    LogicalIds <- NoValues
    Models <- NoValues
    SpuriousWrites <- NoValues
    IpiDestinations <- NoValues
    Ipis <- SelfIpi
    TimerEntries <- NoValues
    InitialCounts = {}
    ErrorAccesses = {}
INVARIANTS PicNotStarved
PROPERTIES
    LapicNests
