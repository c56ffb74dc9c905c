SPECIFICATION Spec
CONSTANTS
    WORD = 32
    DWORD = 256
    Fixed <- FixedPorts
    Bars <- AllBars
    Size <- SizeOf
    Mask <- MaskOf
    HandlerOf <- DeviceOf
    PmSpan = 8
    SmSpan = 4
    PmRegister <- PmRegisterAt
    SmRegister <- SmRegisterAt
    SmData = 2
    RamSize = 64
    Targets <- AllTargets
    Areas = {0, 1}
    Rows = {"ROW"}
    DMA_BYTE = 2
    Channels = {0, 1}
    BX_BIOS_MESSAGE_SIZE = 3
    Sessions <- GuestSessions
INVARIANTS ChipsetConsistent PortsLead RestoreIsTransparent SciFollows SmramHidden HoldFollows
CHECK_DEADLOCK FALSE
