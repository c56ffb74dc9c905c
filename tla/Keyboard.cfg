SPECIFICATION FairSpec
CHECK_DEADLOCK FALSE
CONSTANTS
    KBD_CONTROLLER_QSIZE = 1
    KEYBOARD_MEMORY_SIZE = 2
    DataBytes <- SomeData
    Commands <- SomeCommands
    CodeLengths = {2}
    CmosAddresses = {}
    CmosBytes = {}
    PitUpdates = {}
    LegacyChanges = {}
INVARIANTS KeyboardNotStranded
PROPERTIES OnlyResetConfuses KeyboardDrains
