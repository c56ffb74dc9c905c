-------------------------------- MODULE Bios --------------------------------
(***************************************************************************)
(* What the firmware has to itself: its flash memory (flash.c) and the     *)
(* ports it and the video firmware print their messages to (bios.c).  The  *)
(* machine m has the fields flash and bios.                                *)
(***************************************************************************)
EXTENDS Integers

CONSTANT BX_BIOS_MESSAGE_SIZE

ASSUME BiosAssumption == BX_BIOS_MESSAGE_SIZE \in Nat \ {0, 1}

\* The commands: 0 reads the array, 16 and 64 program, 96 locks, 152 queries,
\* 112 and 144 show registers, 232 fills a buffer, 32 and 40 erase, 80 clears.
Command == {0, 16, 32, 40, 64, 80, 96, 112, 144, 152, 208, 232, 255}
FLASH ==
    [Cmd : Command, Wcycle : 0..3, Ready : BOOLEAN, Storage : {"ROM", "WRITTEN"}]
FlashInitialize == [Cmd |-> 0, Wcycle |-> 0, Ready |-> FALSE, Storage |-> "ROM"]

ReadArray(f) == [f EXCEPT !.Wcycle = 0, !.Cmd = 0]
Ready(f) == [f EXCEPT !.Wcycle = 0, !.Ready = TRUE]
Program(f, fits) == IF fits THEN [f EXCEPT !.Storage = "WRITTEN", !.Ready = TRUE] ELSE f

\* The first cycle looks at the command that is in force.
FlashFirstCycle(f, data) ==
    CASE f.Cmd \in {16, 64, 96, 152} -> [f EXCEPT !.Wcycle = 1, !.Cmd = data]
      [] f.Cmd \in {112, 144} -> [f EXCEPT !.Cmd = data]
      [] f.Cmd = 232 -> [f EXCEPT !.Ready = TRUE, !.Wcycle = 1, !.Cmd = data]
      [] f.Cmd = 32 -> f
      [] f.Cmd = 80 -> [FlashInitialize EXCEPT !.Storage = f.Storage]
      [] OTHER -> ReadArray(f)
FlashSecondCycle(f, data, fits) ==
    CASE f.Cmd \in {16, 64} ->
             IF fits THEN [Program(f, fits) EXCEPT !.Wcycle = 0] ELSE f
      [] f.Cmd \in {32, 40} -> IF data = 208 THEN Ready(f) ELSE ReadArray(f)
      [] f.Cmd = 232 -> [f EXCEPT !.Wcycle = 2]
      [] f.Cmd = 96 -> IF data \in {1, 208} THEN Ready(f) ELSE ReadArray(f)
      [] f.Cmd = 152 -> IF data = 255 THEN ReadArray(f) ELSE f
      [] OTHER -> ReadArray(f)
FlashThirdCycle(f, fits) == IF f.Cmd = 232 THEN Program(f, fits) ELSE ReadArray(f)
FlashFourthCycle(f, data) ==
    IF f.Cmd = 232 /\ data = 208 THEN Ready(f) ELSE ReadArray(f)
FlashWriteMmioHandler(m, data, fits) ==
    LET f == m.flash
    IN  [m EXCEPT !.flash =
            CASE f.Wcycle = 0 -> FlashFirstCycle(f, data)
              [] f.Wcycle = 1 -> FlashSecondCycle(f, data, fits)
              [] f.Wcycle = 2 -> FlashThirdCycle(f, fits)
              [] OTHER -> FlashFourthCycle(f, data)]

\* A read in any other command is that of the array again.
Readable == {0, 16, 32, 40, 64, 80, 96, 112, 144, 152, 232}
FlashReadMmioHandler(m) ==
    IF m.flash.Cmd \in Readable THEN m
    ELSE [m EXCEPT !.flash = ReadArray(@)]
ReadsArray(f) == f.Cmd \in {0, 208, 255}

-----------------------------------------------------------------------------
Firmware == {"BIOS", "VGABIOS"}
MESSAGE == [i : 0..(BX_BIOS_MESSAGE_SIZE - 1), panic : BOOLEAN]
BiosInitialize == [b \in Firmware |-> [i |-> 0, panic |-> FALSE]]

\* A value on the panic port announces a message, or ends the one under way.
BiosWritePanic(m, b, zero) ==
    [m EXCEPT !.bios[b] = IF zero THEN [@ EXCEPT !.panic = TRUE]
                          ELSE [@ EXCEPT !.i = 0]]

BiosWriteByte(m, b, newline) ==
    LET i == m.bios[b].i + 1
    IN  [m EXCEPT !.bios[b] =
            CASE i >= BX_BIOS_MESSAGE_SIZE -> [@ EXCEPT !.i = 0]
              [] i < BX_BIOS_MESSAGE_SIZE /\ newline -> [i |-> 0, panic |-> FALSE]
              [] OTHER -> [@ EXCEPT !.i = i]]
=============================================================================
