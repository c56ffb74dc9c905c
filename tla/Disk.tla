-------------------------------- MODULE Disk --------------------------------
(***************************************************************************)
(* The drives of SVMM with their bus master: a guest that works on one of  *)
(* the two channels through its ports, and the timer of the monitor.       *)
(*                                                                         *)
(* The handlers are operators on a machine record; an action takes the     *)
(* machine to what its handler makes of it.  In a behaviour the guest      *)
(* keeps to one of the Sessions: a channel, the commands and packets it    *)
(* gives, the task files it gives them with, what it writes to the control *)
(* register, and whether it uses the bus master.                           *)
(***************************************************************************)
EXTENDS Ide

CONSTANTS
    Sessions,   \* what the guest is at
    Lengths,    \* of its accesses to the data port
    IndexBound  \* the guest reads no further into the buffer than this

\* The values of the registers that the guest fills before a command.
TaskFile ==
    [features : Feature,
     count : 0..(REGISTER - 1), number : 0..(REGISTER - 1),
     cylinder : 0..(REGISTER * REGISTER - 1), head : 0..(REGISTER - 1),
     lba : BOOLEAN, drive : Drive]

ASSUME DiskAssumption ==
    /\ \A s \in Sessions : /\ s.channel \in Channel
                          /\ s.dma \in BOOLEAN
                          /\ s.controls \subseteq BOOLEAN
                          /\ s.commands \subseteq Commands
                          /\ s.taskFiles \subseteq TaskFile
                          /\ \A p \in s.packets : Packet(p)
    /\ Lengths \subseteq Nat \ {0}
    /\ IndexBound \in Nat

VARIABLES
    ata,      \* AtaChannel
    bm,       \* Ide.bmdma
    lines,    \* the interrupt lines that are up
    exited,   \* the monitor is gone
    session,  \* of the guest
    request,  \* of the read the disk is in: its first sector and their number
    proper    \* the guest has kept to the protocol of the data port

vars == <<ata, bm, lines, exited, session, request, proper>>
Machine == [ata |-> ata, bm |-> bm, lines |-> lines, exited |-> exited]
Become(m) ==
    /\ ata' = m.ata
    /\ bm' = m.bm
    /\ lines' = m.lines
    /\ exited' = m.exited

NoRequest == [first |-> -1, count |-> 0]
Selected(ch) == Sel(Machine, ch)
Status(ch) == Selected(ch).Status

Init ==
    /\ ata = HardDiskInitialize
    /\ bm = IdeInitialize
    /\ lines = {}
    /\ exited = FALSE
    /\ session \in Sessions
    /\ request = NoRequest
    /\ proper = TRUE

-----------------------------------------------------------------------------
(***************************************************************************)
(* Ports of the channel in use.                                            *)
(***************************************************************************)

\* The guest fills the registers of the task file, ports 1 to 6, one after the
\* other; nothing looks at them in between.  The request is not what was asked
\* for any more once the registers that count it down are written.
FillTaskFile(m, ch, t) ==
    LET f == WriteFeatures(m, ch, t.features)
        c == WriteSectorCount(f, ch, t.count)
        n == WriteSectorNumber(c, ch, t.number)
        l == WriteCylinderLow(n, ch, t.cylinder % REGISTER)
        h == WriteCylinderHigh(l, ch, t.cylinder \div REGISTER)
    IN  WriteDriveHead(h, ch, t.drive, t.lba, t.head)
WriteTaskFile(ch) ==
    /\ \E t \in session.taskFiles : Become(FillTaskFile(Machine, ch, t))
    /\ request' = NoRequest
    /\ proper' = (proper /\ "DRQ" \notin Status(ch))
    /\ UNCHANGED session

\* What VhdWrite takes of a write: no sector, one, or all there are; and what
\* comes of a read outside the image.
Takings(cmd) == IF cmd \in Writes THEN {0, 1, DWORD} ELSE {DWORD}
Deaths(cmd) == IF cmd \in Reads THEN BOOLEAN ELSE {FALSE}

\* A read that is accepted is on record until anything else is asked for.
Accepted(m, ch, cmd) ==
    LET c == HardDiskLba48Transform(Selected(ch), Ext(cmd))
    IN  IF /\ cmd \in Reads
           /\ m.ata[ch].Drive[0].CurrentCommand = cmd
           /\ "DRQ" \in m.ata[ch].Drive[0].Status
           /\ c.Lba
        THEN [first |-> HardDiskCalculateLogicalAddress(c),
              count |-> c.NumberOfSectors]
        ELSE NoRequest
\* The identity says, in words 47 and 59, how many sectors a block may have.
Honours(c, cmd) ==
    cmd = "SET_MULTIPLE" =>
        c.SectorCount \notin (MAX_MULTIPLE_SECTORS + 1)..HARDDISK_SECTORS
Command(ch) ==
    /\ \E cmd \in {cmd \in session.commands : Honours(Selected(ch), cmd)} :
           \E present \in {session.dma}, taken \in Takings(cmd), dies \in Deaths(cmd) :
               LET m == WriteCommandRegister(Machine, ch, cmd, present, taken, dies)
               IN  /\ Become(m)
                   /\ request' = IF m.ata = ata THEN request ELSE Accepted(m, ch, cmd)
    /\ UNCHANGED <<session, proper>>

\* The guest keeps to the protocol if it moves data only while the drive asks
\* for it, in the direction the packet phase calls for, and gives the replies
\* of a packet a limit.
Wants(ch, direction) ==
    /\ "DRQ" \in Status(ch)
    /\ Selected(ch).CurrentCommand = "ATAPI_PACKET" =>
           (Selected(ch).SectorCount % 4 >= 2) = (direction = "in")
Limited(ch) ==
    Selected(ch).CurrentCommand = "ATAPI_PACKET" => Selected(ch).CylinderNumber > 1
ReadPort0(ch) ==
    /\ Selected(ch).BufferIndex < IndexBound
    /\ \E Length \in Lengths, dies \in Deaths(Selected(ch).CurrentCommand) :
           Become(PortIoRead0(Machine, ch, Length, dies))
    /\ proper' = (proper /\ Wants(ch, "in"))
    /\ UNCHANGED <<session, request>>
WritePort0(ch) ==
    /\ Selected(ch).CurrentCommand \in Writes \cup {"ATAPI_PACKET"}
    /\ \E Length \in Lengths, taken \in Takings(Selected(ch).CurrentCommand),
          p \in session.packets :
           Become(PortIoWrite0(Machine, ch, Length, taken, p))
    /\ proper' = (proper /\ Wants(ch, "out") /\ Limited(ch))
    /\ UNCHANGED <<session, request>>

ReadStatusRegister(ch) ==
    /\ Become(ReadStatus(Machine, ch))
    /\ UNCHANGED <<session, request, proper>>
Control(ch) ==
    /\ \E reset, disable \in session.controls :
           /\ Become(WriteControl(Machine, ch, reset, disable))
           /\ request' = IF reset = Selected(ch).Reset THEN request ELSE NoRequest
    /\ UNCHANGED <<session, proper>>

-----------------------------------------------------------------------------
(***************************************************************************)
(* The bus master.                                                         *)
(***************************************************************************)

BusMaster(ch) ==
    /\ session.dma
    /\ \/ \E start, write \in BOOLEAN :
              Become(WriteBmCommand(WriteBmTable(Machine, ch, 1), ch, start, write))
       \/ Become(WriteBmStatus(Machine, ch, TRUE))
    /\ UNCHANGED <<session, request, proper>>

\* A bus master that is active while the disk is read moves the registers too.
IdeTimer ==
    /\ \E dies \in BOOLEAN, taken \in {0, 1, DWORD} :
           Become(IdeTimerHandler(Machine, taken, dies))
    /\ request' = IF ata' = ata THEN request ELSE NoRequest
    /\ UNCHANGED <<session, proper>>

\* A behaviour is followed to the first breach of the protocol.
Next ==
    /\ ~exited
    /\ proper
    /\ \/ WriteTaskFile(session.channel)
       \/ Command(session.channel)
       \/ ReadPort0(session.channel)
       \/ WritePort0(session.channel)
       \/ ReadStatusRegister(session.channel)
       \/ Control(session.channel)
       \/ BusMaster(session.channel)
       \/ IdeTimer
Spec == Init /\ [][Next]_vars

-----------------------------------------------------------------------------
(***************************************************************************)
(* Properties.                                                             *)
(***************************************************************************)

\* The state stays in the ranges of the code's structures.
TypeOK ==
    /\ ata \in [Channel -> ATA_CHANNEL]
    /\ bm \in [Channel -> BMDMA]
    /\ lines \subseteq {14, 15}
    /\ exited \in BOOLEAN
    /\ session \in Sessions
    /\ proper \in BOOLEAN

\* A drive asks for data only in a command that moves data: whatever ends the
\* command takes the request back with it.
DrqHasCommand ==
    \A ch \in Channel, d \in Drive :
        LET c == ata[ch].Drive[d]
        IN  "DRQ" \in c.Status => c.CurrentCommand \in Transfers

\* While the disk asks for data of a read or write, the index is inside the
\* block and the block inside the buffer (harddisk.c:2195): a guest that waits for
\* the request, and sets no more sectors per block than the identity allows, never
\* meets the exit(-1) of the data port or the end of the buffer.
BufferHasRoom ==
    LET c == ata[0].Drive[0]
    IN  "DRQ" \in c.Status /\ c.CurrentCommand \in Reads \cup Writes
            => c.BufferIndex < c.BufferSize /\ c.BufferSize <= BufferTotalSize

\* A read in LBA mode runs through the sectors asked for, one after the other:
\* what the registers say, with what is left, is the request.
ReadsInOrder ==
    LET c == ata[0].Drive[0]
        done == request.count - c.NumberOfSectors
    IN  request # NoRequest /\ request.first + done < Capacity
            => HardDiskCalculateLogicalAddress(c) = request.first + done

\* The request of a read ends exactly when the last sector has been handed over.
ReadsAll ==
    LET c == ata[0].Drive[0]
    IN  request # NoRequest /\ "DRQ" \notin c.Status => c.NumberOfSectors = 0

\* A read hands over the sectors asked for: all of them, in their order and no
\* others (HardDiskReadSector, HardDiskIncrementAddress and the data port).
ReadsAsAsked == ReadsInOrder /\ ReadsAll

\* The drive that is not there is in no command and asks for nothing, whatever
\* is written to the ports it shares.  It reports an error only when the bus
\* master was made to read from it, for which the other drive must have had data
\* ready before: DataReady is never taken back.
AbsentDriveSilent ==
    \A ch \in Channel :
        LET c == ata[ch].Drive[1]
        IN  /\ c.CurrentCommand = NoCommand
            /\ "DRQ" \notin c.Status
            /\ "ERR" \in c.Status => bm[ch].DataReady

\* The identity on record names the transfer mode in force.
IdentityCurrent ==
    \A ch \in Channel :
        LET c == ata[ch].Drive[0]
            words == IF DriveType(ch, 0) = "DISK" THEN {"MDMA", "UDMA"} ELSE {"MDMA"}
        IN  c.IdentifySet => c.DriveId = {c.Mode} \cap words

\* A reply of a packet is handed over in chunks that do not exceed what is left
\* of it, as long as the guest keeps to the protocol.
ReplyConserved ==
    LET c == ata[1].Drive[0]
        replying == /\ "DRQ" \in c.Status
                    /\ c.CurrentCommand = "ATAPI_PACKET"
                    /\ c.SectorCount % 4 = 2
    IN  proper /\ replying => /\ c.DrqIndex < c.DrqBytes
                              /\ c.DrqBytes <= c.TotalBytesRemaining

\* What a drive keeps twice agrees, whatever the guest has in hand: the identity
\* with the transfer mode (SET FEATURES, IdentifySet); and a drive that is not
\* there stays silent (HardDiskWriteHandler writes its registers, too), up to
\* the error of a bus master transfer (HardDiskBmdmaReadSector).
DrivesConsistent == TypeOK /\ AbsentDriveSilent /\ IdentityCurrent
=============================================================================
