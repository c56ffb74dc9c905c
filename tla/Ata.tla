-------------------------------- MODULE Ata --------------------------------
(***************************************************************************)
(* The ATA channels of SVMM (harddisk.c): the task file, the registers and *)
(* the data port, without the packet commands, which are in Atapi.  The    *)
(* handlers are operators on machine records with the fields               *)
(*     ata     the two channels with their two drives each                 *)
(*     bm      the bus masters, one for each channel                       *)
(*     lines   the interrupt lines that are up                             *)
(*     exited  whether the monitor gave up, or read outside the image      *)
(* Sizes are in accesses of the smallest width the guest uses.  Of the     *)
(* data it is left out what it is; of the status register the bits no code *)
(* looks at; the high order bytes of a 48-bit address are zero, as the     *)
(* image has no more than 2^24 sectors.                                    *)
(***************************************************************************)
EXTENDS Integers, FiniteSets

CONSTANTS
    HARDDISK_SECTOR_SIZE,   \* accesses per sector (512 bytes)
    MAX_MULTIPLE_SECTORS,   \* sectors the buffer has room for, 16
    HARDDISK_HEADS,         \* 16
    HARDDISK_SECTORS,       \* sectors per track, 63
    Cylinders,              \* cylinders of the image
    Capacity,               \* sectors of the image
    Allocated,              \* those in blocks the image has room for
    REGISTER,               \* values of a byte register, 256
    DWORD,                  \* values of a counter, 2^32
    TransferModes           \* what SectorCount selects in SET FEATURES

ASSUME AtaAssumption ==
    /\ {HARDDISK_SECTOR_SIZE, MAX_MULTIPLE_SECTORS, HARDDISK_HEADS, HARDDISK_SECTORS, Cylinders,
        Capacity} \subseteq Nat \ {0}
    /\ Allocated \subseteq 0..(Capacity - 1)
    /\ REGISTER \in Nat /\ REGISTER % 4 = 0 /\ REGISTER > HARDDISK_SECTORS
    /\ Capacity <= REGISTER * REGISTER * REGISTER
    /\ DWORD \in Nat /\ DWORD > REGISTER * REGISTER
    /\ TransferModes \in [0..(REGISTER - 1) -> {"PIO", "MDMA", "UDMA", "none"}]

Channel == 0..1
Drive == 0..1

\* Channel 0 has a disk, channel 1 a CD-ROM drive, as first drive.
DriveType(ch, d) ==
    IF d = 1 THEN "NONE" ELSE IF ch = 0 THEN "DISK" ELSE "CDROM"
Irq(ch) == IF ch = 0 THEN 14 ELSE 15

STATUS == {"BSY", "RDY", "DRQ", "ERR"}

\* The codes of command register writes.
Reads == {"READ", "READ_MULTIPLE", "READ_EXT", "READ_MULTIPLE_EXT"}
Writes == {"WRITE", "WRITE_MULTIPLE", "WRITE_EXT", "WRITE_MULTIPLE_EXT"}
Multiples == {"READ_MULTIPLE", "READ_MULTIPLE_EXT",
              "WRITE_MULTIPLE", "WRITE_MULTIPLE_EXT"}
ReadDmas == {"READ_DMA", "READ_DMA_EXT"}
WriteDmas == {"WRITE_DMA", "WRITE_DMA_EXT"}
Ext(cmd) ==
    cmd \in {"READ_EXT", "READ_MULTIPLE_EXT", "WRITE_EXT", "WRITE_MULTIPLE_EXT",
             "READ_DMA_EXT", "WRITE_DMA_EXT", "VERIFY_EXT", "READ_NATIVE_EXT"}
Transfers == Reads \cup Writes \cup WriteDmas
             \cup {"IDENTIFY", "ATAPI_PACKET", "ATAPI_IDENTIFY"}
NoCommand == "none"

\* The values of the features register that SET FEATURES knows: the transfer
\* mode; and the caches and the power-on defaults, which have no effect.
Feature == 0..255
TransferMode == 3
NoEffect == {2, 130, 170, 85, 204, 102}
Commands ==
    Transfers \cup ReadDmas \cup
    {"RECALIBRATE", "VERIFY", "VERIFY_EXT", "DIAGNOSTIC", "SET_PARAMETERS",
     "SET_FEATURE", "SET_MULTIPLE", "ATAPI_RESET", "ATAPI_SERVICE",
     "CHECK_POWER", "FLUSH_CACHE", "SEEK", "READ_NATIVE", "READ_NATIVE_EXT",
     "UNKNOWN"}

\* struct CONTROLLER and struct DRIVE.  Mode stands for MdmaMode and UdmaMode,
\* DriveId for the DMA modes recorded in the identity.
DRIVE ==
    [Status : SUBSET STATUS,
     CurrentCommand : Commands \cup {NoCommand},
     Features : Feature,
     SectorCount : 0..(REGISTER - 1),
     SectorNumber : 0..(REGISTER - 1),
     CylinderNumber : 0..(REGISTER * REGISTER - 1),
     HeadNumber : 0..(REGISTER - 1),
     Lba : BOOLEAN,
     Lba48 : BOOLEAN,
     NumberOfSectors : 0..(DWORD - 1),
     MultipleSectors : 0..(REGISTER - 1),
     BufferSize : Nat,
     BufferIndex : Nat,
     DisableIrq : BOOLEAN,
     Reset : BOOLEAN,
     ResetInProgress : BOOLEAN,
     Mode : {"PIO", "MDMA", "UDMA"},
     DriveId : SUBSET {"MDMA", "UDMA"},
     IdentifySet : BOOLEAN,
     PacketDma : BOOLEAN,
     AtapiCommand : {"none", "REPLY", "READ"},
     DrqIndex : Nat,
     DrqBytes : Nat,
     TotalBytesRemaining : 0..(DWORD - 1),
     RemainingBlocks : Nat,
     LbAddress : Nat]
ATA_CHANNEL == [DriveSelect : Drive, Drive : [Drive -> DRIVE]]

\* HardDiskInitialize; a drive that is not there is all zeros.
Absent ==
    [Status |-> {}, CurrentCommand |-> NoCommand, Features |-> 0,
     SectorCount |-> 0, SectorNumber |-> 0, CylinderNumber |-> 0,
     HeadNumber |-> 0, Lba |-> FALSE, Lba48 |-> FALSE, NumberOfSectors |-> 0,
     MultipleSectors |-> 0, BufferSize |-> 0, BufferIndex |-> 0,
     DisableIrq |-> FALSE, Reset |-> FALSE, ResetInProgress |-> FALSE,
     Mode |-> "PIO", DriveId |-> {}, IdentifySet |-> FALSE,
     PacketDma |-> FALSE, AtapiCommand |-> "none", DrqIndex |-> 0,
     DrqBytes |-> 0, TotalBytesRemaining |-> 0, RemainingBlocks |-> 0,
     LbAddress |-> 0]
Present == [Absent EXCEPT !.Status = {"RDY"}, !.SectorCount = 1, !.SectorNumber = 1]
HardDiskInitialize ==
    [ch \in Channel |->
        [DriveSelect |-> 0, Drive |-> [d \in Drive |->
            IF DriveType(ch, d) = "NONE" THEN Absent ELSE Present]]]

\* The drive the channel's handlers work on, and its replacement.
Dnum(m, ch) == m.ata[ch].DriveSelect
Sel(m, ch) == m.ata[ch].Drive[Dnum(m, ch)]
Put(m, ch, c) == [m EXCEPT !.ata[ch].Drive[Dnum(m, ch)] = c]
PutBoth(m, ch, F(_)) ==
    [m EXCEPT !.ata[ch].Drive = [d \in Drive |-> F(@[d])]]
Exit(m) == [m EXCEPT !.exited = TRUE]
Minimum(a, b) == IF a < b THEN a ELSE b
Minus1(n, width) == (n + width - 1) % width

-----------------------------------------------------------------------------
(***************************************************************************)
(* Completion.                                                             *)
(***************************************************************************)

PicLowerIrq(m, ch) == [m EXCEPT !.lines = @ \ {Irq(ch)}]
HardDiskRaiseInterrupt(m, ch) ==
    IF Sel(m, ch).DisableIrq THEN m
    ELSE [m EXCEPT !.bm[ch].Status = @ \cup {"IRQ"},
                   !.lines = @ \cup {Irq(ch)}]

\* Bits taken from and put into the status register.
Turn(c, off, on) == [c EXCEPT !.Status = (@ \ off) \cup on]
Idle(c) == Turn(c, {"BSY", "DRQ"}, {"RDY"})

\* interrupt_reason shares its byte with SectorCount: c_d is bit 0, i_o bit 1.
Reason(c, c_d, i_o) ==
    [c EXCEPT !.SectorCount = @ - (@ % 4) + c_d + 2 * i_o]

HardDiskCommandNop(m, ch) ==
    Put(m, ch, Reason(Turn(Sel(m, ch), {"BSY", "DRQ", "ERR"}, {"RDY"}), 1, 1))

\* Mutant: the data request survives the abort.
HardDiskCommandAbortedKeepsDrq(m, ch) ==
    HardDiskRaiseInterrupt(
        Put(m, ch, [Turn(Sel(m, ch), {"BSY"}, {"RDY", "ERR"})
                       EXCEPT !.CurrentCommand = NoCommand,
                              !.BufferIndex = 0]),
        ch)

HardDiskCommandAborted(m, ch) ==
    HardDiskRaiseInterrupt(
        Put(m, ch, [Turn(Sel(m, ch), {"BSY", "DRQ"}, {"RDY", "ERR"})
                       EXCEPT !.CurrentCommand = NoCommand,
                              !.BufferIndex = 0]),
        ch)

\* A command without data that ends at once.
Done(m, ch, c) == HardDiskRaiseInterrupt(Put(m, ch, c), ch)

HardDiskSetSignature(m, ch, d) ==
    LET type == DriveType(ch, d)
        cylinder == CASE type = "DISK" -> 0
                      [] type = "CDROM" -> REGISTER * REGISTER - 2
                      [] type = "NONE" -> REGISTER * REGISTER - 1
        c == [m.ata[ch].Drive[d] EXCEPT
                 !.HeadNumber = 0, !.SectorCount = 1, !.SectorNumber = 1,
                 !.CylinderNumber = cylinder]
    IN  [m EXCEPT !.ata[ch].Drive[d] = c,
                  !.ata[ch].DriveSelect = IF type = "DISK" THEN 0 ELSE @]

-----------------------------------------------------------------------------
(***************************************************************************)
(* Addresses.                                                              *)
(***************************************************************************)

OutOfRange == -1

\* A sector count of zero asks for as many sectors as the register has values.
HardDiskLba48Transform(c, lba48) ==
    [c EXCEPT !.Lba48 = lba48,
              !.NumberOfSectors =
                  IF c.SectorCount # 0 THEN c.SectorCount
                  ELSE IF lba48 THEN REGISTER * REGISTER ELSE REGISTER]

LbaOf(c) ==
    c.CylinderNumber * REGISTER + c.SectorNumber
    + (IF c.Lba48 THEN 0 ELSE c.HeadNumber * REGISTER * REGISTER * REGISTER)
ChsOf(c) ==
    (c.CylinderNumber * HARDDISK_HEADS + c.HeadNumber) * HARDDISK_SECTORS
    + c.SectorNumber - 1

\* The subtraction is unsigned, so an address below zero is out of range too.
HardDiskCalculateLogicalAddress(c) ==
    LET sector == IF c.Lba THEN LbaOf(c) ELSE ChsOf(c)
    IN  IF sector \in 0..(Capacity - 1) THEN sector ELSE OutOfRange

\* Mutant: the carry out of the sector register is lost.
LbaWrittenNoCarry(c, sector) ==
    [c EXCEPT !.SectorNumber = sector % REGISTER]

\* An address written back to the registers.
LbaWritten(c, sector) ==
    [c EXCEPT !.SectorNumber = sector % REGISTER,
              !.CylinderNumber = (sector \div REGISTER) % (REGISTER * REGISTER),
              !.HeadNumber =
                  IF c.Lba48 THEN @
                  ELSE (sector \div (REGISTER * REGISTER * REGISTER)) % REGISTER]

\* The head is counted but it is the sector that is compared with the number of
\* heads, and set to zero.
ChsNext(c) ==
    LET next == (c.SectorNumber + 1) % REGISTER
        cylinder == Minimum((c.CylinderNumber + 1) % (REGISTER * REGISTER),
                            Cylinders - 1)
    IN  IF next <= HARDDISK_SECTORS THEN [c EXCEPT !.SectorNumber = next]
        ELSE IF 1 < HARDDISK_HEADS
        THEN [c EXCEPT !.SectorNumber = 1, !.HeadNumber = (@ + 1) % REGISTER]
        ELSE [c EXCEPT !.SectorNumber = 0, !.HeadNumber = (@ + 1) % REGISTER,
                       !.CylinderNumber = cylinder]

\* The sector after sector; after OutOfRange (all ones) comes 0.
HardDiskIncrementAddress(c, sector) ==
    LET counted == [c EXCEPT !.SectorCount = Minus1(@, REGISTER),
                             !.NumberOfSectors = Minus1(@, DWORD)]
    IN  IF c.Lba THEN LbaWritten(counted, sector + 1) ELSE ChsNext(counted)

-----------------------------------------------------------------------------
(***************************************************************************)
(* Sectors.  The image is never changed: VhdWrite has an empty body, and   *)
(* what it returns is whatever the register holds, so how many sectors of  *)
(* a call it takes before it reports failure is arbitrary (taken).  A read *)
(* of a block that is not allocated ends the monitor; one outside the      *)
(* image indexes the block table out of range: the monitor dies or goes on *)
(* (dies).                                                                 *)
(***************************************************************************)

SectorsOf(c) == (c.BufferSize + HARDDISK_SECTOR_SIZE - 1) \div HARDDISK_SECTOR_SIZE

\* The registers after one sector of a transfer, and after n.
NextSector(c) == HardDiskIncrementAddress(c, HardDiskCalculateLogicalAddress(c))
After(c, n) ==
    LET f[i \in 0..n] == IF i = 0 THEN c ELSE NextSector(f[i - 1])
    IN  f[n]

\* What is left of a write that stops at the first sector out of range or the
\* first that VhdWrite refuses, and whether all of the buffer was taken.
Written(c, taken) ==
    LET bad == {i \in 0..(SectorsOf(c) - 1) :
                   \/ i = taken
                   \/ HardDiskCalculateLogicalAddress(After(c, i)) = OutOfRange}
    IN  IF bad = {} THEN [c |-> After(c, SectorsOf(c)), all |-> TRUE]
        ELSE [c |-> After(c, CHOOSE i \in bad : \A j \in bad : i <= j),
              all |-> FALSE]
HardDiskWriteSector(m, ch, taken) ==
    LET w == Written(Sel(m, ch), taken)
    IN  IF w.all THEN Put(m, ch, w.c)
        ELSE HardDiskCommandAborted(Put(m, ch, w.c), ch)
WriteSectorFails(m, ch, taken) ==
    LET w == Written(Sel(m, ch), taken)
    IN  ~w.all \/ SectorsOf(Sel(m, ch)) = 0

VhdReadExits(sector, dies) ==
    IF sector = OutOfRange THEN dies ELSE sector \notin Allocated
HardDiskReadSector(m, ch, dies) ==
    LET c == Sel(m, ch)
        exits == \E i \in 0..(SectorsOf(c) - 1) :
                     VhdReadExits(HardDiskCalculateLogicalAddress(After(c, i)), dies)
        n == Put(m, ch, After(c, SectorsOf(c)))
    IN  IF exits THEN Exit(n) ELSE n

-----------------------------------------------------------------------------
(***************************************************************************)
(* Registers.  Ports 1 to 6 reach both drives of the channel.              *)
(***************************************************************************)

WriteFeatures(m, ch, v) ==
    LET set(c) == [c EXCEPT !.Features = v] IN PutBoth(m, ch, set)
WriteSectorCount(m, ch, v) ==
    LET set(c) == [c EXCEPT !.SectorCount = v] IN PutBoth(m, ch, set)
WriteSectorNumber(m, ch, v) ==
    LET set(c) == [c EXCEPT !.SectorNumber = v] IN PutBoth(m, ch, set)
WriteCylinderLow(m, ch, v) ==
    LET set(c) == [c EXCEPT !.CylinderNumber = @ - (@ % REGISTER) + v]
    IN  PutBoth(m, ch, set)
WriteCylinderHigh(m, ch, v) ==
    LET set(c) == [c EXCEPT !.CylinderNumber = v * REGISTER + (@ % REGISTER)]
    IN  PutBoth(m, ch, set)
WriteDriveHead(m, ch, d, lba, head) ==
    LET set(c) == [c EXCEPT !.Lba = lba, !.HeadNumber = head]
    IN  [PutBoth(m, ch, set) EXCEPT !.ata[ch].DriveSelect = d]

\* A reset holds both drives busy until the bit is taken back; only the drive
\* selected gets its signature, twice.
ResetStart(c) ==
    [Turn(c, {"RDY", "DRQ", "ERR"}, {"BSY"}) EXCEPT
        !.ResetInProgress = TRUE, !.CurrentCommand = NoCommand,
        !.BufferIndex = 0, !.MultipleSectors = 0, !.Lba = FALSE,
        !.DisableIrq = FALSE]
ResetEnd(c) ==
    [Turn(c, {"BSY"}, {"RDY"}) EXCEPT !.ResetInProgress = FALSE]
WriteControl(m, ch, reset, disable) ==
    LET control(c) == [c EXCEPT !.Reset = reset, !.DisableIrq = disable]
        n == PutBoth(m, ch, control)
        c == Sel(m, ch)
    IN  IF ~c.Reset /\ reset
        THEN PicLowerIrq(PutBoth(n, ch, ResetStart), ch)
        ELSE IF c.ResetInProgress /\ ~reset
        THEN HardDiskSetSignature(PutBoth(n, ch, ResetEnd), ch, Dnum(m, ch))
        ELSE n

\* Port 7: the status of a drive that is there, and its interrupt goes away.
ReadStatus(m, ch) ==
    IF DriveType(ch, Dnum(m, ch)) = "NONE" THEN m ELSE PicLowerIrq(m, ch)

-----------------------------------------------------------------------------
(***************************************************************************)
(* The command register.                                                   *)
(***************************************************************************)

\* The room of the buffer, and the part of it that the next block of a transfer
\* takes.
BufferTotalSize == MAX_MULTIPLE_SECTORS * HARDDISK_SECTOR_SIZE
BlockSize(c, cmd) ==
    HARDDISK_SECTOR_SIZE *
        (IF cmd \in Multiples THEN Minimum(c.NumberOfSectors, c.MultipleSectors)
         ELSE 1)

\* The registers when a read or write is accepted.
Sized(c, cmd) ==
    LET t == HardDiskLba48Transform(c, Ext(cmd))
    IN  [t EXCEPT !.BufferSize = BlockSize(t, cmd)]
NoMultiple(c, cmd) == cmd \in Multiples /\ c.MultipleSectors = 0
Refused(c, cmd) ==
    \/ NoMultiple(c, cmd)
    \/ HardDiskCalculateLogicalAddress(Sized(c, cmd)) = OutOfRange

\* The first block of a read is there at once; no interrupt announces it.
ReadCommand(m, ch, cmd, dies) ==
    LET c == Sel(m, ch)
        s == Sized(c, cmd)
        nowhere == ~c.Lba /\ c.HeadNumber = 0 /\ c.CylinderNumber = 0
                   /\ c.SectorNumber = 0
        started == [Turn(s, {"DRQ"}, {"BSY", "RDY"}) EXCEPT
                       !.CurrentCommand = cmd, !.BufferIndex = 0]
        n == HardDiskReadSector(Put(m, ch, started), ch, dies)
    IN  CASE nowhere -> HardDiskCommandAborted(m, ch)
          [] ~nowhere /\ Refused(c, cmd) ->
                 HardDiskCommandAborted(
                     Put(m, ch, IF NoMultiple(c, cmd)
                                THEN HardDiskLba48Transform(c, Ext(cmd)) ELSE s),
                     ch)
          [] OTHER -> Put(n, ch, Turn(Sel(n, ch), {"BSY"}, {"DRQ"}))

\* A write sends the buffer as the last command left it before the guest has
\* filled it, and so starts a block further on.
WriteCommand(m, ch, cmd, taken) ==
    LET c == Sel(m, ch)
        s == Sized(c, cmd)
        started == [Turn(s, {"BSY"}, {"DRQ"}) EXCEPT
                       !.CurrentCommand = cmd, !.BufferIndex = 0]
    IN  IF Refused(c, cmd)
        THEN HardDiskCommandAborted(
                 Put(m, ch, IF NoMultiple(c, cmd)
                            THEN HardDiskLba48Transform(c, Ext(cmd)) ELSE s),
                 ch)
        ELSE HardDiskWriteSector(Put(m, ch, started), ch, taken)

\* The seek timer that would end a seek or start a DMA read is not registered.
SeekCommand(m, ch) ==
    LET c == Sel(m, ch)
    IN  IF HardDiskCalculateLogicalAddress(c) = OutOfRange
        THEN HardDiskCommandAborted(m, ch)
        ELSE Put(m, ch, [Turn(c, {"DRQ"}, {"BSY", "RDY"}) EXCEPT
                            !.CurrentCommand = "SEEK"])
DmaCommand(m, ch, cmd, present) ==
    LET c == HardDiskLba48Transform(Sel(m, ch), Ext(cmd))
        started == IF cmd \in ReadDmas THEN Turn(c, {"DRQ"}, {"BSY", "RDY"})
                   ELSE Turn(c, {}, {"RDY", "DRQ"})
    IN  CASE ~present -> HardDiskCommandAborted(m, ch)
          [] present /\ HardDiskCalculateLogicalAddress(c) = OutOfRange ->
                 HardDiskCommandAborted(Put(m, ch, c), ch)
          [] OTHER -> Put(m, ch, [started EXCEPT !.CurrentCommand = cmd])

\* Mutant: a change of mode leaves the identity that is on record.
SetFeatureKeepsIdentity(m, ch) ==
    LET c == Sel(m, ch)
        mode == TransferModes[c.SectorCount]
    IN  CASE c.Features = TransferMode /\ mode # "none" ->
                 Done(m, ch, [Turn(c, {}, {"RDY"}) EXCEPT !.Mode = mode])
          [] c.Features = TransferMode /\ mode = "none" ->
                 HardDiskCommandAborted(m, ch)
          [] c.Features \in NoEffect -> Done(m, ch, Turn(c, {}, {"RDY"}))
          [] OTHER -> m

\* SET FEATURES: a feature it does not know is neither done nor refused.
SetFeature(m, ch) ==
    LET c == [Sel(m, ch) EXCEPT !.IdentifySet = FALSE]
        mode == TransferModes[c.SectorCount]
    IN  CASE c.Features = TransferMode /\ mode # "none" ->
                 Done(m, ch, [Turn(c, {}, {"RDY"}) EXCEPT !.Mode = mode])
          [] c.Features = TransferMode /\ mode = "none" ->
                 HardDiskCommandAborted(Put(m, ch, c), ch)
          [] c.Features \in NoEffect ->
                 Done(m, ch, Turn(Sel(m, ch), {}, {"RDY"}))
          [] OTHER -> m

\* The number of sectors of a block is compared with those of a track, not with
\* those that the buffer has room for.
SetMultiple(m, ch) ==
    LET c == Sel(m, ch)
    IN  IF c.SectorCount > HARDDISK_SECTORS \/ c.SectorCount = 0
        THEN HardDiskCommandAborted(m, ch)
        ELSE Done(m, ch, [Idle(c) EXCEPT !.MultipleSectors = c.SectorCount])
SetDriveParameters(m, ch) ==
    LET c == Sel(m, ch)
    IN  CASE c.SectorCount # HARDDISK_SECTORS -> HardDiskCommandAborted(m, ch)
          [] c.SectorCount = HARDDISK_SECTORS /\ c.HeadNumber = 0 -> Exit(m)
          [] c.SectorCount = HARDDISK_SECTORS
             /\ c.HeadNumber \notin {0, HARDDISK_HEADS - 1} ->
                 HardDiskCommandAborted(m, ch)
          [] OTHER -> Done(m, ch, Idle(c))

\* The identity is put together once and after every change of mode: words 63
\* and 88 name the DMA mode in force.  The CD-ROM drive has no word 88.
Word63(c) == {c.Mode} \cap {"MDMA"}
Word88(c) == {c.Mode} \cap {"UDMA"}
DriveIdentity(c) == Word63(c) \cup Word88(c)
CdRomIdentity(c) == Word63(c)
Identified(c, cmd, id) ==
    [Turn(c, {"BSY"}, {"RDY", "DRQ"}) EXCEPT
        !.CurrentCommand = cmd, !.IdentifySet = TRUE,
        !.DriveId = IF c.IdentifySet THEN @ ELSE id]
Identify(m, ch) ==
    LET c == Sel(m, ch)
    IN  IF DriveType(ch, 0) = "DISK"
        THEN Done(m, ch, Identified(c, "IDENTIFY", DriveIdentity(c)))
        ELSE HardDiskSetSignature(HardDiskCommandAborted(m, ch), ch, 0)
AtapiIdentify(m, ch) ==
    LET c == [Sel(m, ch) EXCEPT !.BufferIndex = 0]
    IN  Done(m, ch, Identified(c, "ATAPI_IDENTIFY", CdRomIdentity(c)))

\* Bit 1 of Features cannot be set in what was masked with bit 0, so no packet
\* is refused for it.
AtapiPacket(m, ch) ==
    LET c == Sel(m, ch)
    IN  Put(m, ch, [Turn(c, {"BSY"}, {"DRQ"}) EXCEPT
                       !.PacketDma = (c.Features % 2 = 1),
                       !.SectorCount = 1,
                       !.CurrentCommand = "ATAPI_PACKET",
                       !.BufferIndex = 0])
AtapiReset(m, ch) ==
    LET n == HardDiskSetSignature(m, ch, 0)
    IN  Put(n, ch, Turn(Sel(n, ch), {"BSY", "DRQ"}, {}))
Diagnostic(m, ch) ==
    LET n == HardDiskSetSignature(m, ch, 0)
    IN  Done(n, ch, Turn(Sel(n, ch), {"DRQ"}, {}))
ReadNative(m, ch, cmd) ==
    LET c == HardDiskLba48Transform(Sel(m, ch), Ext(cmd))
    IN  IF ~c.Lba THEN HardDiskCommandAborted(m, ch)
        ELSE Done(m, ch, Turn(LbaWritten(c, Capacity - 1), {}, {"RDY"}))

DiskOnly(cmd) ==
    cmd \in Reads \cup Writes \cup ReadDmas \cup WriteDmas
            \cup {"RECALIBRATE", "VERIFY", "VERIFY_EXT", "SET_PARAMETERS",
                  "SET_MULTIPLE", "SEEK", "READ_NATIVE", "READ_NATIVE_EXT"}
CdRomOnly(cmd) == cmd \in {"ATAPI_PACKET", "ATAPI_IDENTIFY", "ATAPI_RESET"}
Foreign(ch, cmd) ==
    \/ DiskOnly(cmd) /\ DriveType(ch, 0) # "DISK"
    \/ CdRomOnly(cmd) /\ DriveType(ch, 0) # "CDROM"

\* The command of a drive that is not busy.
Execute(m, ch, cmd, present, taken, dies) ==
    LET c == Sel(m, ch)
    IN  CASE Foreign(ch, cmd) -> HardDiskCommandAborted(m, ch)
          [] ~Foreign(ch, cmd) /\ cmd \in Reads -> ReadCommand(m, ch, cmd, dies)
          [] ~Foreign(ch, cmd) /\ cmd \in Writes -> WriteCommand(m, ch, cmd, taken)
          [] ~Foreign(ch, cmd) /\ cmd \in ReadDmas \cup WriteDmas ->
                 DmaCommand(m, ch, cmd, present)
          [] ~Foreign(ch, cmd) /\ cmd = "RECALIBRATE" ->
                 Done(m, ch, [Idle(c) EXCEPT !.CylinderNumber = 0])
          [] ~Foreign(ch, cmd) /\ cmd \in {"VERIFY", "VERIFY_EXT"} ->
                 Done(m, ch, Idle(HardDiskLba48Transform(c, Ext(cmd))))
          [] ~Foreign(ch, cmd) /\ cmd = "SEEK" -> SeekCommand(m, ch)
          [] ~Foreign(ch, cmd) /\ cmd \in {"READ_NATIVE", "READ_NATIVE_EXT"} ->
                 ReadNative(m, ch, cmd)
          [] ~Foreign(ch, cmd) /\ cmd = "SET_MULTIPLE" -> SetMultiple(m, ch)
          [] ~Foreign(ch, cmd) /\ cmd = "SET_PARAMETERS" -> SetDriveParameters(m, ch)
          [] ~Foreign(ch, cmd) /\ cmd = "ATAPI_PACKET" -> AtapiPacket(m, ch)
          [] ~Foreign(ch, cmd) /\ cmd = "ATAPI_IDENTIFY" -> AtapiIdentify(m, ch)
          [] ~Foreign(ch, cmd) /\ cmd = "ATAPI_RESET" -> AtapiReset(m, ch)
          [] cmd = "IDENTIFY" -> Identify(m, ch)
          [] cmd = "SET_FEATURE" -> SetFeature(m, ch)
          [] cmd = "DIAGNOSTIC" -> Diagnostic(m, ch)
          [] cmd = "CHECK_POWER" ->
                 Done(m, ch, [Idle(c) EXCEPT !.SectorCount = REGISTER - 1])
          [] cmd = "FLUSH_CACHE" -> Done(m, ch, Idle(c))
          [] cmd \in {"ATAPI_SERVICE", "UNKNOWN"} -> HardDiskCommandAborted(m, ch)

\* Port 7.  The second drive takes no commands.
WriteCommandRegister(m, ch, cmd, present, taken, dies) ==
    LET n == PicLowerIrq(m, ch)
    IN  CASE Dnum(m, ch) = 1 -> m
          [] Dnum(m, ch) = 0 /\ "BSY" \in Sel(n, ch).Status -> n
          [] OTHER -> Execute(Put(n, ch, Turn(Sel(n, ch), {"ERR"}, {})), ch, cmd,
                              present, taken, dies)

-----------------------------------------------------------------------------
(***************************************************************************)
(* The data port.                                                          *)
(***************************************************************************)

\* The buffer of a multiple transfer follows what is left of it.
Resized(c) ==
    IF c.CurrentCommand \in Multiples
    THEN [c EXCEPT !.BufferSize = BlockSize(c, c.CurrentCommand)] ELSE c

\* Mutant: the index stays at the end of the block that was written.
WriteBlockKeepsIndex(m, ch, taken) ==
    LET n == HardDiskWriteSector(m, ch, taken)
        c == Resized(Sel(n, ch))
    IN  IF WriteSectorFails(m, ch, taken) THEN n
        ELSE Done(n, ch, IF c.NumberOfSectors # 0
                         THEN Turn(c, {"BSY", "ERR"}, {"RDY", "DRQ"})
                         ELSE Turn(c, {"BSY", "DRQ", "ERR"}, {"RDY"}))

\* The guest has filled the buffer of a write.
WriteBlock(m, ch, taken) ==
    LET n == HardDiskWriteSector(m, ch, taken)
        c == [Resized(Sel(n, ch)) EXCEPT !.BufferIndex = 0]
    IN  IF WriteSectorFails(m, ch, taken) THEN n
        ELSE Done(n, ch, IF c.NumberOfSectors # 0
                         THEN Turn(c, {"BSY", "ERR"}, {"RDY", "DRQ"})
                         ELSE Turn(c, {"BSY", "DRQ", "ERR"}, {"RDY"}))
WriteData(m, ch, Length, taken) ==
    LET c == Sel(m, ch)
        moved == [c EXCEPT !.BufferIndex = @ + Length]
    IN  CASE c.BufferIndex >= c.BufferSize -> Exit(m)
          [] c.BufferIndex < c.BufferSize /\ c.BufferSize > moved.BufferIndex ->
                 Put(m, ch, moved)
          [] OTHER -> WriteBlock(Put(m, ch, moved), ch, taken)

\* Mutant: the last block of a read leaves the data request on.
ReadBlockKeepsDrq(m, ch, dies) ==
    LET c == Turn(Resized(Sel(m, ch)), {"BSY", "ERR"}, {"RDY"})
        n == HardDiskReadSector(Put(m, ch, Turn(c, {}, {"DRQ"})), ch, dies)
    IN  IF c.NumberOfSectors # 0
        THEN Done(n, ch, [Sel(n, ch) EXCEPT !.BufferIndex = 0])
        ELSE Put(m, ch, c)

\* The guest has emptied the buffer of a read.
ReadBlock(m, ch, dies) ==
    LET c == Turn(Resized(Sel(m, ch)), {"BSY", "ERR"}, {"RDY"})
        n == HardDiskReadSector(Put(m, ch, Turn(c, {}, {"DRQ"})), ch, dies)
    IN  IF c.NumberOfSectors # 0
        THEN Done(n, ch, [Sel(n, ch) EXCEPT !.BufferIndex = 0])
        ELSE Put(m, ch, Turn(c, {"DRQ"}, {}))
ReadData(m, ch, Length, dies) ==
    LET c == Sel(m, ch)
        moved == [c EXCEPT !.BufferIndex = @ + Length]
    IN  CASE c.BufferIndex >= c.BufferSize -> Exit(m)
          [] c.BufferIndex < c.BufferSize /\ c.BufferSize < moved.BufferIndex -> m
          [] c.BufferSize > moved.BufferIndex -> Put(m, ch, moved)
          [] c.BufferSize = moved.BufferIndex -> ReadBlock(Put(m, ch, moved), ch, dies)

\* The identity is read from wherever the index was left.
ReadIdentity(m, ch, Length) ==
    LET c == Turn(Sel(m, ch), {"BSY", "ERR"}, {"RDY"})
        over == c.BufferIndex + Length >= HARDDISK_SECTOR_SIZE
    IN  Put(m, ch, [Turn(c, IF over THEN {"DRQ"} ELSE {}, {}) EXCEPT
                       !.BufferIndex = @ + Length])
=============================================================================
