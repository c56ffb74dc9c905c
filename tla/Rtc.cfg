SPECIFICATION Spec
CONSTANTS
    KBD_CONTROLLER_QSIZE = 5
    KEYBOARD_MEMORY_SIZE = 16
    DataBytes = {}
    Commands <- MouseCommands
    CodeLengths = {}
    CmosAddresses <- SomeRegisters
    CmosBytes <- SomeCmosBytes
    PitUpdates = {TRUE, FALSE}
    LegacyChanges = {TRUE, FALSE}
PROPERTIES
    OnlyTrespassDisturbs
INVARIANTS
    RtcLineHasReason
