SPECIFICATION Spec
CONSTANTS
    HARDDISK_SECTOR_SIZE = 2
    MAX_MULTIPLE_SECTORS = 2
    HARDDISK_HEADS = 2
    HARDDISK_SECTORS = 3
    Cylinders = 2
    Capacity = 9
    Allocated <- AllButLast
    REGISTER = 8
    DWORD = 128
    TransferModes <- ModeOf
    PACKET_SIZE = 2
    CDROM_FRAMESIZE = 4
    CDROM_RAWSIZE = 5
    CdCapacity = 0
    ReplyLength <- Replies
    IDE_BUFFER_SIZE = 2
    PrdTable <- OneTable
    Sessions <- GuestSessions
    Lengths = {1, 2}
    IndexBound = 5
INVARIANTS DrivesConsistent DrqHasCommand BufferHasRoom ReadsAsAsked ReplyConserved
CHECK_DEADLOCK FALSE
