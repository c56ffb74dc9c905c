------------------------------- MODULE Atapi -------------------------------
(***************************************************************************)
(* The packet commands of the CD-ROM drive of SVMM (harddisk.c, cdrom.c)   *)
(* as operators on the machine records of Ata.  What a reply says is left  *)
(* out, with the sense data and the lock of the tray; a packet is what     *)
(* decides what happens to it.                                             *)
(***************************************************************************)
EXTENDS Ata

CONSTANTS
    PACKET_SIZE,       \* accesses of a packet (12 bytes)
    CDROM_FRAMESIZE,   \* accesses of a block (2048 bytes)
    CDROM_RAWSIZE,     \* accesses of a raw block (2352 bytes)
    CdCapacity,        \* blocks of the image: 0, as none is opened
    ReplyLength        \* accesses of the replies of fixed length

ASSUME AtapiAssumption ==
    /\ {PACKET_SIZE, CDROM_FRAMESIZE} \subseteq Nat \ {0}
    /\ CDROM_RAWSIZE \in Nat /\ CDROM_RAWSIZE > CDROM_FRAMESIZE
    /\ PACKET_SIZE < CDROM_FRAMESIZE
    /\ CdCapacity \in Nat
    /\ ReplyLength \in [{"MECHANISM_STATUS", "error recovery", "capabilities",
                          "INQUIRY", "REQUEST_SENSE", "READ_CAPACITY",
                          "EVENT_HEADER", "MEDIA_EVENT"} -> 1..(DWORD - 1)]

\* A comparison with CdRomGetCapacity() - 1, which wraps when the capacity is 0.
BeyondLast(n) == CdCapacity > 0 /\ n > CdCapacity - 1
CdRomReadBlock(lba) == IF lba < CdCapacity THEN CDROM_FRAMESIZE ELSE 0

\* The packets.  field is what a command looks at beyond the length the guest
\* allows (or the number of blocks) and the address.
PacketOp == {"NOP", "START_STOP_UNIT", "MECHANISM_STATUS", "MODE_SENSE", "INQUIRY",
             "REQUEST_SENSE", "READ_CAPACITY", "READ", "READ_CD", "READ_TOC", "SEEK",
             "MEDIUM_REMOVAL", "READ_SUB_CHANNEL", "READ_DISK_INFORMATION",
             "GET_EVENT_STATUS", "ILLEGAL"}
Field == {"none", "error recovery", "capabilities", "user data", "raw", "raw lba",
          "media", "other event"}
Packet(p) == /\ p.op \in PacketOp
             /\ p.field \in Field
             /\ {p.len, p.lba} \subseteq 0..(DWORD - 1)

-----------------------------------------------------------------------------

HardDiskAtapiError(m, ch) ==
    Done(m, ch, Reason(Turn(Sel(m, ch), {"BSY", "DRQ"}, {"RDY", "ERR"}), 1, 1))
AtapiNop(m, ch) == HardDiskRaiseInterrupt(HardDiskCommandNop(m, ch), ch)

HardDiskReadySendAtapi(m, ch) ==
    LET c == Reason(Turn(Sel(m, ch), {"BSY", "ERR"}, {"DRQ"}), 0, 1)
    IN  IF c.PacketDma
        THEN [Put(m, ch, c) EXCEPT !.bm[ch].DataReady = TRUE]
        ELSE Done(m, ch, c)

\* The limit of a chunk is even unless it is not below what is allocated.
EvenLimit(c, alloc) ==
    IF c.CylinderNumber % 2 = 1 /\ alloc > c.CylinderNumber
    THEN c.CylinderNumber - 1 ELSE c.CylinderNumber

\* Mutant: the limit of a chunk is not cut to what is left.
HardDiskInitAtapiCommandUncut(c, command, req, alloc) ==
    LET limit == EvenLimit(c, alloc)
        room == IF alloc = 0 THEN limit ELSE alloc
    IN  IF ~c.PacketDma /\ limit = 0 THEN [c EXCEPT !.CylinderNumber = limit]
        ELSE [Turn(c, {"DRQ", "ERR"}, {"BSY", "RDY"}) EXCEPT
                 !.BufferIndex = 0, !.DrqIndex = 0,
                 !.CylinderNumber = limit,
                 !.AtapiCommand = command,
                 !.DrqBytes = limit,
                 !.TotalBytesRemaining = Minimum(req, room)]

\* Without DMA and with a limit of zero nothing is set up.
HardDiskInitAtapiCommand(c, command, req, alloc) ==
    LET limit == EvenLimit(c, alloc)
        room == IF alloc = 0 THEN limit ELSE alloc
        chunk == Minimum(Minimum(limit, req), room)
    IN  IF ~c.PacketDma /\ limit = 0 THEN [c EXCEPT !.CylinderNumber = limit]
        ELSE [Turn(c, {"DRQ", "ERR"}, {"BSY", "RDY"}) EXCEPT
                 !.BufferIndex = 0, !.DrqIndex = 0,
                 !.CylinderNumber = chunk,
                 !.AtapiCommand = command,
                 !.DrqBytes = chunk,
                 !.TotalBytesRemaining = Minimum(req, room)]

Reply(m, ch, req, alloc) ==
    HardDiskReadySendAtapi(
        Put(m, ch, HardDiskInitAtapiCommand(Sel(m, ch), "REPLY", req, alloc)), ch)

\* A read leaves the drive busy for the seek timer, which is not registered.
\* Its length in bytes is computed with the width of a counter.
Bytes(blocks, size) == (blocks * size) % DWORD
ReadSetUp(m, ch, lba, blocks, size) ==
    LET bytes == Bytes(blocks, size)
        c == HardDiskInitAtapiCommand(Sel(m, ch), "READ", bytes, bytes)
    IN  Put(m, ch, [c EXCEPT !.BufferIndex = size, !.BufferSize = size,
                             !.RemainingBlocks = blocks, !.LbAddress = lba])

\* An error or an empty read is announced, and the read set up all the same.
ReadWrong(p) ==
    LET bytes == Bytes(p.len, CDROM_FRAMESIZE)
    IN  \/ bytes < p.len \/ BeyondLast(bytes) \/ BeyondLast(p.lba)
        \/ \E n \in {p.len, p.len - 1, bytes} : (p.lba + n) % DWORD < p.lba
ReadLength(p) ==
    IF \/ BeyondLast(p.lba + p.len - 1)
       \/ CdCapacity > 0 /\ p.lba + p.len = 0
    THEN (CdCapacity - p.lba) % DWORD ELSE p.len
ReadPacket(m, ch, p) ==
    LET blocks == ReadLength(p)
        e == IF ReadWrong(p) THEN HardDiskAtapiError(m, ch) ELSE m
        n == IF blocks = 0 \/ BeyondLast(blocks) THEN AtapiNop(e, ch) ELSE e
    IN  ReadSetUp(n, ch, p.lba, blocks, CDROM_FRAMESIZE)

ReadCd(m, ch, p) ==
    CASE p.len = 0 \/ p.field = "none" -> AtapiNop(m, ch)
      [] p.len > 0 /\ p.field = "user data" ->
             ReadSetUp(m, ch, p.lba, p.len, CDROM_FRAMESIZE)
      [] p.len > 0 /\ p.field = "raw" ->
             ReadSetUp(m, ch, p.lba, p.len, CDROM_RAWSIZE)
      [] OTHER -> HardDiskAtapiError(m, ch)

MechanismStatus(m, ch, p) ==
    IF p.len = 0 THEN m ELSE Reply(m, ch, ReplyLength["MECHANISM_STATUS"], p.len)
ModeSense(m, ch, p) ==
    IF p.field \in {"error recovery", "capabilities"}
    THEN Reply(m, ch, ReplyLength[p.field], p.len)
    ELSE HardDiskAtapiError(m, ch)
Inquiry(m, ch, p) == Reply(m, ch, ReplyLength["INQUIRY"], p.len)
RequestSense(m, ch, p) == Reply(m, ch, ReplyLength["REQUEST_SENSE"], p.len)
ReadCapacity(m, ch) ==
    Reply(m, ch, ReplyLength["READ_CAPACITY"], ReplyLength["READ_CAPACITY"])

\* A table of contents is as long as the guest allows, whatever is in it; the
\* raw one without minutes and seconds ends the monitor.
CdRomReadToc(p) == IF p.field = "none" THEN 0 ELSE p.len
ReadToc(m, ch, p) ==
    CASE p.field = "raw lba" -> Exit(m)
      [] p.field # "raw lba" /\ CdRomReadToc(p) = 0 -> HardDiskAtapiError(m, ch)
      [] OTHER -> Reply(m, ch, CdRomReadToc(p), p.len)

\* The bit that asks for more is cleared before it is looked at.
ReadSubChannel(m, ch, p) == Reply(m, ch, ReplyLength["EVENT_HEADER"], p.len)
GetEventStatus(m, ch, p) ==
    LET length == IF p.field = "media" /\ p.len > ReplyLength["EVENT_HEADER"]
                  THEN ReplyLength["MEDIA_EVENT"] ELSE ReplyLength["EVENT_HEADER"]
    IN  IF p.field \in {"media", "other event"} THEN Reply(m, ch, length, length)
        ELSE HardDiskAtapiError(m, ch)
SeekPacket(m, ch, p) ==
    IF BeyondLast(p.lba) THEN HardDiskAtapiError(m, ch)
    ELSE AtapiNop(Put(m, ch, [Sel(m, ch) EXCEPT !.LbAddress = p.lba]), ch)

\* The packet is complete.
Perform(m, ch, p) ==
    CASE p.op \in {"NOP", "START_STOP_UNIT", "MEDIUM_REMOVAL"} -> AtapiNop(m, ch)
      [] p.op = "MECHANISM_STATUS" -> MechanismStatus(m, ch, p)
      [] p.op = "MODE_SENSE" -> ModeSense(m, ch, p)
      [] p.op = "INQUIRY" -> Inquiry(m, ch, p)
      [] p.op = "REQUEST_SENSE" -> RequestSense(m, ch, p)
      [] p.op = "READ_CAPACITY" -> ReadCapacity(m, ch)
      [] p.op = "READ" -> ReadPacket(m, ch, p)
      [] p.op = "READ_CD" -> ReadCd(m, ch, p)
      [] p.op = "READ_TOC" -> ReadToc(m, ch, p)
      [] p.op = "SEEK" -> SeekPacket(m, ch, p)
      [] p.op = "READ_SUB_CHANNEL" -> ReadSubChannel(m, ch, p)
      [] p.op = "GET_EVENT_STATUS" -> GetEventStatus(m, ch, p)
      [] p.op \in {"READ_DISK_INFORMATION", "ILLEGAL"} -> HardDiskAtapiError(m, ch)

\* A write to the data port while a packet is wanted.  The access that follows
\* a packet that moved no index performs what the buffer holds again.
WritePacket(m, ch, Length, p) ==
    LET c == Sel(m, ch)
        moved == [c EXCEPT !.BufferIndex = @ + Length]
    IN  CASE c.BufferIndex > PACKET_SIZE -> m
          [] c.BufferIndex <= PACKET_SIZE /\ moved.BufferIndex < PACKET_SIZE ->
                 Put(m, ch, moved)
          [] OTHER ->
                 Perform(Put(m, ch, [moved EXCEPT !.BufferSize = CDROM_FRAMESIZE]),
                         ch, p)

-----------------------------------------------------------------------------

\* A chunk has been read: the next one, or the end.
Chunk(c) ==
    LET left == (c.TotalBytesRemaining + DWORD - c.DrqBytes) % DWORD
        next == Minimum(left, c.CylinderNumber)
        d == [c EXCEPT !.DrqIndex = 0, !.TotalBytesRemaining = left]
    IN  IF left > 0
        THEN [Reason(Turn(d, {"BSY"}, {"DRQ"}), 0, 1) EXCEPT
                 !.CylinderNumber = next, !.DrqBytes = next]
        ELSE Reason(Turn(d, {"BSY", "DRQ", "ERR"}, {"RDY"}), 1, 1)

\* A read of the data port in a packet command.
ReadPacketData(m, ch, Length) ==
    LET c == Sel(m, ch)
        loads == c.BufferIndex = c.BufferSize /\ c.AtapiCommand = "READ"
        filled == IF loads THEN [c EXCEPT !.BufferIndex = 0,
                                          !.LbAddress = @ + 1,
                                          !.RemainingBlocks = Minus1(@, DWORD)]
                  ELSE c
        moved == [filled EXCEPT !.BufferIndex = @ + Length, !.DrqIndex = @ + Length]
    IN  CASE loads /\ CdRomReadBlock(c.LbAddress) # c.BufferSize -> Exit(m)
          [] ~loads /\ c.BufferIndex > c.BufferSize -> m
          [] OTHER -> IF moved.DrqIndex >= moved.DrqBytes
                      THEN Done(m, ch, Chunk(moved)) ELSE Put(m, ch, moved)

\* Port 0, by the command the drive is in.
PortIoWrite0(m, ch, Length, taken, p) ==
    LET cmd == Sel(m, ch).CurrentCommand
    IN  CASE cmd \in Writes -> WriteData(m, ch, Length, taken)
          [] cmd = "ATAPI_PACKET" -> WritePacket(m, ch, Length, p)
          [] OTHER -> m
PortIoRead0(m, ch, Length, dies) ==
    LET c == Sel(m, ch)
        cmd == c.CurrentCommand
    IN  CASE "DRQ" \notin c.Status -> m
          [] "DRQ" \in c.Status /\ cmd \in Reads -> ReadData(m, ch, Length, dies)
          [] "DRQ" \in c.Status /\ cmd \in {"IDENTIFY", "ATAPI_IDENTIFY"} ->
                 ReadIdentity(m, ch, Length)
          [] "DRQ" \in c.Status /\ cmd = "ATAPI_PACKET" ->
                 ReadPacketData(m, ch, Length)
          [] OTHER -> m
=============================================================================
