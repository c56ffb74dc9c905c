------------------------------- MODULE I440fx -------------------------------
(***************************************************************************)
(* The host bridge of SVMM (i440fx.c): the window into configuration       *)
(* space, the memory attributes and system management memory.  The machine *)
(* m has the fields i440fx, slots, smbase.                                 *)
(***************************************************************************)
EXTENDS Gvm

CONSTANTS
    Targets,   \* the configuration registers the guest uses
    Areas,     \* the memory areas of the attribute register in use
    Rows       \* the rows of memory in use

ASSUME I440fxAssumption == Targets # {}

SMM_RAM_SIZE == 2
Bit == 0..7

\* An attribute register and the attributes read from it: of each area, is it
\* read and is it written in memory.
I440FX ==
    [confAddress : Targets,
     pam : SUBSET Bit,
     memory_type : [Areas -> [0..1 -> BOOLEAN]],
     row : [Rows -> 0..1],       \* conf[0x60 + row], 1 for the size there is
     dramDetect : SUBSET Rows,
     smram : BOOLEAN,            \* conf[0x72] & 0x40
     a20 : BOOLEAN]
I440fxInitialize(target) ==
    [confAddress |-> target, pam |-> {},
     memory_type |-> [a \in Areas |-> [b \in 0..1 |-> FALSE]],
     row |-> [r \in Rows |-> 1], dramDetect |-> {},
     smram |-> FALSE, a20 |-> FALSE]

\* The areas of the register at 0x5A + n are 2n and 2n + 1.  The attributes are
\* bits of the value written, the register is a byte of it.
I440fxWritePam(m, value, i) ==
    LET byte == {b \in Bit : b + i \in value}
    IN  IF byte = m.i440fx.pam THEN m
        ELSE [m EXCEPT
                !.i440fx.pam = byte,
                !.i440fx.memory_type =
                    [a \in Areas |-> [b \in 0..1 |-> 4 * (a % 2) + b \in value]]]
I440fxWriteRow(m, r, value) ==
    [m EXCEPT !.i440fx.row[r] = value,
              !.i440fx.dramDetect = IF value # 1 THEN @ \cup {r} ELSE @ \ {r}]

I440fxOpenSmram(m) ==
    LET s1 == gvm_unmap_memory(m.slots, m.smbase, SMM_RAM_SIZE)
        s2 == gvm_map_memory(s1, m.smbase, SMM_RAM_SIZE, "SMRAM")
        s3 == gvm_map_memory(s2, VgaWindow, SMM_RAM_SIZE, "SMRAM")
    IN  [m EXCEPT !.slots = s3]

\* Mutant: the window is given back to the display before the memory below it
\* is mapped again.
I440fxCloseSmramEarly(m) ==
    LET s1 == gvm_unmap_memory(m.slots, m.smbase, SMM_RAM_SIZE)
        s2 == gvm_register_mmio(s1, VgaWindow, SMM_RAM_SIZE)
        s3 == gvm_map_memory(s2, m.smbase, SMM_RAM_SIZE, "RAM")
    IN  [m EXCEPT !.slots = s3, !.smbase = VgaWindow]
I440fxCloseSmram(m) ==
    LET s1 == gvm_unmap_memory(m.slots, m.smbase, SMM_RAM_SIZE)
        s2 == gvm_map_memory(s1, m.smbase, SMM_RAM_SIZE, "RAM")
        s3 == gvm_register_mmio(s2, VgaWindow, SMM_RAM_SIZE)
    IN  [m EXCEPT !.slots = s3, !.smbase = VgaWindow]
I440fxWriteSmram(m, open) ==
    LET n == IF open THEN I440fxOpenSmram(m) ELSE I440fxCloseSmram(m)
    IN  [n EXCEPT !.i440fx.smram = open]

\* The address line 20 is never turned off again.
I440fxWritePort92(m, a20) == [m EXCEPT !.i440fx.a20 = @ \/ a20]
I440fxWriteAddress(m, target) == [m EXCEPT !.i440fx.confAddress = target]
=============================================================================
