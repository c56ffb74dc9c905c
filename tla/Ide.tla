-------------------------------- MODULE Ide --------------------------------
(***************************************************************************)
(* The bus master of SVMM (ide.c): it moves sectors between a drive and    *)
(* the regions a table in guest memory names, on the timer of the monitor. *)
(* The data is left out.                                                   *)
(***************************************************************************)
EXTENDS Atapi, Sequences

CONSTANTS
    IDE_BUFFER_SIZE,   \* sectors the bus master's buffer holds (20000h bytes)
    PrdTable           \* the table: for each entry its sectors, and is it last

ASSUME IdeAssumption ==
    /\ IDE_BUFFER_SIZE \in Nat
    /\ PrdTable \in Seq([size : 1..IDE_BUFFER_SIZE, last : BOOLEAN])
    /\ PrdTable # <<>> /\ PrdTable[Len(PrdTable)].last

\* struct BMDMA.  PrdCurrent is the entry in turn, 0 when there is none.
BMDMA ==
    [Start : BOOLEAN,
     Write : BOOLEAN,
     Status : SUBSET {"ACTIVE", "IRQ"},
     PrdTable : 0..1,
     PrdCurrent : 0..Len(PrdTable),
     DataReady : BOOLEAN,
     BufferOffset : 0..IDE_BUFFER_SIZE]
IdeInitialize ==
    [ch \in Channel |->
        [Start |-> FALSE, Write |-> FALSE, Status |-> {}, PrdTable |-> 0,
         PrdCurrent |-> 0, DataReady |-> FALSE, BufferOffset |-> 0]]

\* Only the edges of the start bit do anything; the direction goes with them.
WriteBmCommand(m, ch, start, write) ==
    LET b == m.bm[ch]
    IN  CASE start /\ ~b.Start ->
                 [m EXCEPT !.bm[ch] =
                     [b EXCEPT !.Start = TRUE, !.Write = write,
                               !.Status = @ \cup {"ACTIVE"},
                               !.PrdCurrent = b.PrdTable, !.BufferOffset = 0]]
          [] ~start /\ b.Start ->
                 [m EXCEPT !.bm[ch] =
                     [b EXCEPT !.Start = FALSE, !.Write = write,
                               !.Status = @ \ {"ACTIVE"}]]
          [] OTHER -> m
WriteBmStatus(m, ch, clear) ==
    [m EXCEPT !.bm[ch].Status = IF clear THEN @ \ {"IRQ"} ELSE @]
WriteBmTable(m, ch, table) == [m EXCEPT !.bm[ch].PrdTable = table]

HardDiskBdmaComplete(m, ch) ==
    LET c == Turn(Sel(m, ch), {"BSY", "DRQ", "ERR"}, {"RDY"})
    IN  Done(m, ch, IF DriveType(ch, Dnum(m, ch)) = "CDROM" THEN Reason(c, 1, 1)
                    ELSE c)

\* One sector.  A result has the machine, and whether the call returned a value
\* other than zero.
Result(m, ok) == [m |-> m, ok |-> ok]
HardDiskBmdmaWriteSector(m, ch, taken) ==
    LET c == Sel(m, ch)
    IN  CASE c.CurrentCommand \in WriteDmas ->
                 Result(HardDiskCommandAborted(m, ch), FALSE)
          [] c.CurrentCommand \notin WriteDmas /\ c.NumberOfSectors = 0 ->
                 Result(m, FALSE)
          [] OTHER -> Result(HardDiskWriteSector(m, ch, taken),
                             ~WriteSectorFails(m, ch, taken))
HardDiskBmdmaReadSector(m, ch, dies) ==
    LET c == Sel(m, ch)
        packet == c.CurrentCommand = "ATAPI_PACKET"
    IN  CASE c.CurrentCommand \in ReadDmas ->
                 IF c.NumberOfSectors = 0 THEN Result(m, FALSE)
                 ELSE Result(HardDiskReadSector(m, ch, dies), SectorsOf(c) > 0)
          [] packet /\ c.PacketDma /\ c.AtapiCommand = "READ" ->
                 IF CdRomReadBlock(c.LbAddress) = 0 THEN Result(m, FALSE)
                 ELSE Result(Put(m, ch, [c EXCEPT
                     !.LbAddress = @ + 1,
                     !.RemainingBlocks = Minus1(@, DWORD)]), TRUE)
          [] packet /\ c.PacketDma /\ c.AtapiCommand # "READ" -> Result(m, TRUE)
          [] OTHER -> Result(HardDiskCommandAborted(m, ch), FALSE)

\* The sectors of an entry, up to the first that succeeds.
SectorRound(r, ch, taken, dies) ==
    IF r.ok THEN r
    ELSE IF r.m.bm[ch].Write THEN HardDiskBmdmaReadSector(r.m, ch, dies)
    ELSE HardDiskBmdmaWriteSector(r.m, ch, taken)
Sectors(m, ch, n, taken, dies) ==
    LET f[i \in 0..n] == IF i = 0 THEN Result(m, FALSE)
                         ELSE SectorRound(f[i - 1], ch, taken, dies)
    IN  f[n]

\* The first channel that is active and has an entry is served; that a sector
\* succeeded is taken for an error, which ends the tick and not the transfer.
Serves(m) == {ch \in Channel : "ACTIVE" \in m.bm[ch].Status /\ m.bm[ch].PrdCurrent # 0}
Served(m) == CHOOSE ch \in Serves(m) : \A other \in Serves(m) : ch <= other
NextEntry(b, size) ==
    [b EXCEPT !.PrdCurrent = @ + 1, !.BufferOffset = @ + size]

LastEntry(b) ==
    [b EXCEPT !.Status = @ \ {"ACTIVE"}, !.PrdCurrent = 0, !.BufferOffset = 0]
IdeTimerHandler(m, taken, dies) ==
    LET ch == Served(m)
        b == m.bm[ch]
        entry == PrdTable[b.PrdCurrent]
        from == IF b.BufferOffset + entry.size > IDE_BUFFER_SIZE THEN 0
                ELSE b.BufferOffset
        n == [m EXCEPT !.bm[ch].BufferOffset = from]
        r == Sectors(n, ch, entry.size, taken, dies)
    IN  CASE Serves(m) = {} -> m
          [] Serves(m) # {} /\ ~b.DataReady /\ b.Write -> m
          [] OTHER ->
                 IF r.ok THEN HardDiskBdmaComplete(r.m, ch)
                 ELSE IF entry.last
                 THEN HardDiskBdmaComplete(
                          [r.m EXCEPT !.bm[ch] = LastEntry(@)], ch)
                 ELSE [r.m EXCEPT !.bm[ch] = NextEntry(@, entry.size)]
=============================================================================
