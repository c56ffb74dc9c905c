SPECIFICATION FairSpec
CONSTANTS
    Lines = {1, 9}
    MasterOffsets = {254}
    SlaveOffsets = {112}
    Masks <- OpenOrClosed
    LevelLines <- SomeLevels
    Icw1Values = {TRUE}
    Icw3Values <- CascadeOn
    Icw4Values <- Intel
    Ocw2Commands = {"nonspecific_eoi"}
    Ocw3Commands = {"special_mask"}
    GvmAccepts <- AllButOne
INVARIANTS CascadeLatched MasterSignalled SlaveSignalled PriorityReleased
PROPERTIES
    HighestServed
