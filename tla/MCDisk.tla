------------------------------- MODULE MCDisk -------------------------------
(***************************************************************************)
(* Disk with sectors of two accesses, registers of four values and an      *)
(* image of six sectors.                                                   *)
(***************************************************************************)
EXTENDS Disk

ModeOf == [v \in 0..7 |-> CASE v = 0 -> "PIO" [] v = 1 -> "MDMA"
                             [] v = 2 -> "UDMA" [] OTHER -> "none"]
OneTable == <<[size |-> 2, last |-> FALSE], [size |-> 1, last |-> TRUE]>>

Task(f, lba, n, cylinder, number, head, d) ==
    [features |-> f, lba |-> lba, count |-> n, cylinder |-> cylinder,
     number |-> number, head |-> head, drive |-> d]
NoPacket == {[op |-> "NOP", field |-> "none", len |-> 0, lba |-> 0]}
Session(ch, dma, controls, commands, taskFiles, packets) ==
    [channel |-> ch, dma |-> dma, controls |-> controls, commands |-> commands,
     taskFiles |-> taskFiles, packets |-> packets]
Disk0(dma, controls, commands, taskFiles) ==
    Session(0, dma, controls, commands, taskFiles, NoPacket)
Some(ops, fields, len) ==
    {[op |-> op, field |-> f, len |-> len, lba |-> 0] : op \in ops, f \in fields}
Replies == [r \in {"MECHANISM_STATUS", "error recovery", "capabilities", "INQUIRY",
                   "REQUEST_SENSE", "READ_CAPACITY", "EVENT_HEADER", "MEDIA_EVENT"} |->
               IF r \in {"INQUIRY", "capabilities"} THEN 3 ELSE 2]
AllButLast == 0..7

\* Across a register, zero sectors and past the end, sector zero, across a track.
Carry == Task(2, TRUE, 2, 0, 7, 0, 0)
Many == Task(0, TRUE, 0, 0, 1, 0, 0)
Zero == Task(0, FALSE, 1, 0, 0, 0, 0)
Track == Task(0, FALSE, 3, 0, 3, 1, 0)
Mode(v) == Task(3, TRUE, v, 0, 1, 0, 0)
Missing == Task(0, FALSE, 1, 1, 1, 0, 1)
Chunks(f, limit) == Task(f, FALSE, 1, limit, 1, 0, 0)

GuestSessions ==
    {Disk0(FALSE, BOOLEAN,
           {"READ", "READ_MULTIPLE", "SET_MULTIPLE", "SEEK", "UNKNOWN"},
           {Carry, Many, Missing}),
     Disk0(FALSE, {FALSE}, {"WRITE", "WRITE_MULTIPLE", "SET_MULTIPLE"}, {Carry, Many}),
     Disk0(FALSE, {FALSE},
           {"READ", "READ_MULTIPLE_EXT", "VERIFY", "RECALIBRATE", "READ_NATIVE",
            "SET_PARAMETERS", "DIAGNOSTIC", "READ_DMA"},
           {Zero, Track, Carry}),
     Disk0(FALSE, {FALSE},
           {"IDENTIFY", "SET_FEATURE", "CHECK_POWER", "FLUSH_CACHE", "READ"},
           {Mode(v) : v \in 0..3} \cup {Carry}),
     Disk0(TRUE, {FALSE}, {"READ_DMA", "WRITE_DMA", "READ"}, {Carry}),
     Session(1, TRUE, {FALSE}, {"ATAPI_PACKET"}, {Chunks(1, 3), Missing},
             Some({"INQUIRY", "READ"}, {"none"}, 2)),
     Session(1, FALSE, {FALSE},
             {"ATAPI_PACKET", "ATAPI_IDENTIFY", "IDENTIFY", "SET_FEATURE", "READ"},
             {Chunks(0, 3), Mode(1), Missing},
             Some({"INQUIRY", "ILLEGAL"}, {"none"}, 4)
             \cup Some({"MODE_SENSE"}, {"capabilities", "none"}, 1)),
     Session(1, FALSE, BOOLEAN, {"ATAPI_PACKET", "ATAPI_RESET"},
             {Chunks(0, 0), Chunks(0, 2)},
             Some({"NOP", "SEEK", "REQUEST_SENSE", "READ_CAPACITY", "READ_SUB_CHANNEL",
                   "READ", "MECHANISM_STATUS"}, {"none"}, 1)
             \cup Some({"READ", "MECHANISM_STATUS"}, {"none"}, 0)
             \cup Some({"READ_CD"}, {"none", "user data", "raw", "media"}, 1)
             \cup Some({"READ_TOC"}, {"none", "user data", "raw lba"}, 1)
             \cup Some({"GET_EVENT_STATUS"}, {"none", "media", "other event"}, 3))}
=============================================================================
