-------------------------------- MODULE Pic --------------------------------
(***************************************************************************)
(* The pair of cascaded 8259 interrupt controllers of SVMM (pic.c) and the *)
(* interrupt-window exit of the main loop (SVMM.c) that drains them.       *)
(*                                                                         *)
(* A chip's byte-wide registers are sets of line numbers 0..7.  A handler  *)
(* that calls other handlers is an operator from machine records to        *)
(* machine records, so that an action is the whole handler, nested calls   *)
(* included.  The operators only touch the fields pic, events, window and  *)
(* accepts, and can be used on any record that has them.                   *)
(***************************************************************************)
EXTENDS Naturals, FiniteSets

CONSTANTS
    Lines,          \* the lines 0..15 that devices raise and lower
    MasterOffsets,  \* the ICW2 values the guest programs, per chip
    SlaveOffsets,
    Masks,          \* the IMR values the guest writes
    LevelLines,     \* the ELCR values the guest writes, before the port's mask
    Icw1Values,     \* whether the guest's ICW1 asks for an ICW4
    Icw3Values,     \* the ICW3 values the guest writes to the master
    Icw4Values,     \* the ICW4 bits the guest sets
    Ocw2Commands,   \* the OCW2 commands the guest uses
    Ocw3Commands,   \* the OCW3 commands the guest uses
    GvmAccepts      \* for which lines the GVM_INTERRUPT call may succeed

Irq == 0..7
Byte == 0..255
CascadeLine == 2
Chips == {0, 1}

MODES == {"FULLY_NESTED", "SPECIAL_FULLY_NESTED", "SPECIAL_MASK", "POLL",
          "AUTO_EOI", "NORMAL_EOI"}
ICW4 == {"intel", "auto_eoi"}
OCW2 == {"normal_mode", "auto_mode", "nonspecific_eoi", "specific_eoi",
         "set_priority", "rotate_specific_eoi"}
OCW3 == {"read_irr", "read_isr", "special_mask", "special_nested", "poll",
         "none"}

ASSUME PicAssumption ==
    /\ Lines \subseteq (0..15) \ {CascadeLine}
    /\ MasterOffsets \subseteq Byte
    /\ SlaveOffsets \subseteq Byte
    /\ Masks \subseteq SUBSET Irq
    /\ LevelLines \subseteq SUBSET Irq
    /\ Icw1Values \subseteq BOOLEAN
    /\ Icw3Values \subseteq SUBSET Irq
    /\ Icw4Values \subseteq SUBSET ICW4
    /\ Ocw2Commands \subseteq OCW2
    /\ Ocw3Commands \subseteq OCW3
    /\ GvmAccepts \subseteq SUBSET Irq

VARIABLES
    pic,      \* Pic[2], the two chips
    events,   \* svmm_events: the pending interrupt sources
    window,   \* kvm_run->request_interrupt_window
    wire,     \* environment: the level each device last drove its line to
    settled   \* history: settled[i], chip i has been serviced since the last
              \* write that changes what is deliverable without a service

picVars == <<pic, events, window>>
vars == <<pic, events, window, wire, settled>>

\* typedef struct _PIC
PIC == [RequestIcw4 : BOOLEAN, Cascade : BOOLEAN, ReadSelect : 0..3,
        EdgeLevel : SUBSET Irq, InterruptMask : SUBSET Irq,
        InterruptInService : SUBSET Irq, InterruptRequest : SUBSET Irq,
        InterruptPin : SUBSET Irq, InterruptNumber : Byte,
        CurrentPriority : Byte, CurrentOffset : Byte, Raised : BOOLEAN,
        State : 0..4, Mode : SUBSET MODES]

(***************************************************************************)
(* The state at power on (PicInitialize).                                  *)
(***************************************************************************)
PicReset(offset) ==
    [RequestIcw4 |-> FALSE, Cascade |-> FALSE, ReadSelect |-> 0,
     EdgeLevel |-> {}, InterruptMask |-> Irq, InterruptInService |-> {},
     InterruptRequest |-> {}, InterruptPin |-> {}, InterruptNumber |-> 0,
     CurrentPriority |-> 7, CurrentOffset |-> offset, Raised |-> FALSE,
     State |-> 0, Mode |-> {"FULLY_NESTED"}]

PicInitialize == [i \in Chips |-> PicReset(IF i = 0 THEN 8 ELSE 112)]

-----------------------------------------------------------------------------
(***************************************************************************)
(* PicService: choose what the chip asks for next.                         *)
(***************************************************************************)

\* The machine as the handlers see it, and the step to a new machine.
Machine(accepts) ==
    [pic |-> pic, events |-> events, window |-> window, accepts |-> accepts]

Become(m) ==
    /\ pic' = m.pic
    /\ events' = m.events
    /\ window' = m.window

Lowest(S) == CHOOSE i \in S : \A j \in S : i <= j
Highest(S) == CHOOSE i \in S : \A j \in S : j <= i

\* Requests the fully nested scan would find.
Deliverable(c) ==
    {irq \in c.InterruptRequest \ (c.InterruptMask \cup c.InterruptInService) :
        irq <= c.CurrentPriority}

\* Requests the special-mask scan finds.  The test at pic.c:93 skips the lines
\* whose mask bit is clear.
MaskedRequests(c) ==
    (c.InterruptRequest \cap c.InterruptMask) \ c.InterruptInService

\* PicService scans in the fully nested order.
Nested(c) == "FULLY_NESTED" \in c.Mode /\ "SPECIAL_MASK" \notin c.Mode

\* BYTE arithmetic.
ByteAdd(a, b) == IF a + b < 256 THEN a + b ELSE a + b - 256
ByteSub(a, b) == IF a >= b THEN a - b ELSE a + 256 - b

Number(c, irq) == ByteAdd(irq, c.CurrentOffset)

\* The chip asks for this line.
Chosen(c, irq) ==
    [c EXCEPT !.Raised = TRUE, !.InterruptNumber = Number(c, irq)]

\* A rising edge at this line.
Latched(c, irq) ==
    [c EXCEPT !.InterruptPin = @ \cup {irq},
              !.InterruptRequest = @ \cup {irq}]

Put(m, i, c) == [m EXCEPT !.pic = [@ EXCEPT ![i] = c]]
Signal(m) == [m EXCEPT !.events = @ \cup {"INTR"}]
RequestWindow(m) == [m EXCEPT !.window = TRUE]
CloseWindow(m) == [m EXCEPT !.window = FALSE]

\* The special-mask branch injects each line it finds, lowest first, until
\* the hypervisor refuses one.
Tried(c, accepts) ==
    {irq \in MaskedRequests(c) :
        \A j \in MaskedRequests(c) : j < irq => j \in accepts}

InjectMasked(m, i) ==
    LET c == m.pic[i]
        tried == Tried(c, m.accepts)
        chosen == Put(m, i, Chosen(c, Highest(tried)))
    IN  IF tried = {} THEN m
        ELSE IF tried \cap m.accepts = {} THEN chosen ELSE Signal(chosen)

\* Mutant: the event is recorded but no window is requested.
AskMasterNoWindow(m) ==
    Signal(Put(m, 0, Chosen(m.pic[0], Lowest(Deliverable(m.pic[0])))))

\* The fully nested branch of PicService(&Pic[0]).  A master without the
\* cascade bit of ICW3 takes the slave's branch and raises its own line 2.
AskMaster(m) ==
    LET c == m.pic[0]
        l == Latched(c, CascadeLine)
        next == IF c.Cascade \/ CascadeLine \in c.InterruptPin THEN c ELSE l
        chosen == Put(m, 0, Chosen(next, Lowest(Deliverable(next))))
    IN  IF c.Cascade THEN RequestWindow(Signal(chosen)) ELSE chosen

ServiceMaster(m) ==
    IF "SPECIAL_MASK" \in m.pic[0].Mode THEN InjectMasked(m, 0)
    ELSE IF Nested(m.pic[0]) /\ Deliverable(m.pic[0]) # {} THEN AskMaster(m)
    ELSE m

\* PicRaiseIrq(2), as the slave calls it.
RaiseCascade(m) ==
    IF CascadeLine \in m.pic[0].InterruptPin THEN m
    ELSE ServiceMaster(Put(m, 0, Latched(m.pic[0], CascadeLine)))

\* The fully nested branch of PicService(&Pic[1]).
AskSlave(m) ==
    LET c == m.pic[1]
    IN  RaiseCascade(Put(m, 1, Chosen(c, Lowest(Deliverable(c)))))

ServiceSlave(m) ==
    IF "SPECIAL_MASK" \in m.pic[1].Mode THEN InjectMasked(m, 1)
    ELSE IF Nested(m.pic[1]) /\ Deliverable(m.pic[1]) # {} THEN AskSlave(m)
    ELSE m

PicService(m, i) == IF i = 0 THEN ServiceMaster(m) ELSE ServiceSlave(m)

-----------------------------------------------------------------------------
(***************************************************************************)
(* PicIAC: the interrupt acknowledge cycle.                                *)
(***************************************************************************)

\* The line an acknowledge computes back from the vector, a BYTE.
AckedIrq(c) == ByteSub(c.InterruptNumber, c.CurrentOffset)

\* (BYTE)(1 << irq): the x86 shift takes its count modulo 32, and a bit above
\* the byte is lost.
Bit(irq) == {irq % 32} \cap Irq

\* Drop the request (an edge one) and note that nothing is raised.
Consumed(c) ==
    [c EXCEPT !.Raised = FALSE,
              !.InterruptRequest = @ \ (Bit(AckedIrq(c)) \ c.EdgeLevel)]

\* Put the acknowledged line in service.
Entered(c) ==
    [c EXCEPT !.CurrentPriority = AckedIrq(c),
              !.InterruptInService = @ \cup Bit(AckedIrq(c))]

AckMaster(m) == Put(m, 0, Entered(Consumed(m.pic[0])))

\* Mutant: pin 2 of the master stays high.
AckSlavePinHigh(m) ==
    ServiceSlave(Put(Put(m, 0, Consumed(m.pic[0])), 1,
                     Entered(Consumed(m.pic[1]))))

\* The slave's half of the cycle; the master's line 2 is lowered, not served.
AckSlave(m) ==
    LET c == Consumed(m.pic[0])
        m0 == Put(m, 0, [c EXCEPT !.InterruptPin = @ \ {CascadeLine}])
    IN  ServiceSlave(Put(m0, 1, Entered(Consumed(m.pic[1]))))

PicIAC(m) ==
    LET n == [m EXCEPT !.events = @ \ {"INTR"}]
    IN  ServiceMaster(IF AckedIrq(m.pic[0]) = CascadeLine
                      THEN AckSlave(n) ELSE AckMaster(n))

\* The vector PicIAC returns, which the main loop injects.
PicIACVector(m) ==
    IF AckedIrq(m.pic[0]) # CascadeLine
    THEN m.pic[0].InterruptNumber ELSE m.pic[1].InterruptNumber

(***************************************************************************)
(* The lines devices drive.                                                *)
(***************************************************************************)
PicRaiseIrq(m, n) ==
    LET i == n \div 8
        irq == n % 8
    IN  IF irq \in m.pic[i].InterruptPin THEN m
        ELSE PicService(Put(m, i, Latched(m.pic[i], irq)), i)

\* The guard at pic.c:211 lets only the master's lines go low.
Lowered(c, irq) ==
    [c EXCEPT !.InterruptPin = @ \ {irq}, !.InterruptRequest = @ \ {irq}]
PicLowerIrq(m, n) ==
    IF n > 7 \/ n \notin m.pic[0].InterruptPin THEN m
    ELSE Put(m, 0, Lowered(m.pic[0], n))

\* PicSetMode, behind the masks of the ELCR ports 0x4d0 and 0x4d1.
ElcrMask(i) == IF i = 0 THEN 3..7 ELSE {1, 2, 3, 4, 6, 7}
PicSetMode(m, i, level) ==
    Put(m, i, [m.pic[i] EXCEPT !.EdgeLevel = level \cap ElcrMask(i)])

-----------------------------------------------------------------------------
(***************************************************************************)
(* PicPortIoWriteHandler: the command port.                                *)
(***************************************************************************)
Cleared(c) ==
    [c EXCEPT !.InterruptRequest = {}, !.InterruptMask = {},
              !.CurrentPriority = 7, !.Raised = FALSE]
Restarted(c, icw4) ==
    [Cleared(c) EXCEPT !.RequestIcw4 = icw4, !.State = 1, !.Mode = {}]

WriteIcw1(m, i, icw4) ==
    [Put(m, i, Restarted(m.pic[i], icw4)) EXCEPT !.events = @ \ {"INTR"}]

Ocw3Mode(cmd) == CASE cmd = "special_mask" -> {"SPECIAL_MASK"}
                   [] cmd = "special_nested" -> {"SPECIAL_FULLY_NESTED"}
                   [] cmd = "poll" -> {"POLL"}

Moded(c, mode) == [c EXCEPT !.ReadSelect = 0, !.Mode = mode]

WriteOcw3(m, i, cmd) ==
    LET c == m.pic[i]
        read(sel) == Put(m, i, [c EXCEPT !.ReadSelect = sel])
        moded == Put(m, i, Moded(c, Ocw3Mode(cmd)))
    IN  CASE cmd = "read_irr" -> read(2)
          [] cmd = "read_isr" -> read(3)
          [] cmd = "none" -> read(0)
          [] cmd = "special_mask" -> PicService(moded, i)
          [] OTHER -> moded

\* The lines a non-specific EOI looks at, from the current priority downwards.
\* The loop variable is a CHAR, negative above 127, and 1 << irq repeats every
\* 32 steps: a stale vector can leave a priority that is not a line.
EoiCandidates(c) ==
    LET below == {irq \in c.InterruptInService : irq <= c.CurrentPriority % 32}
    IN  IF c.CurrentPriority > 127 THEN {}
        ELSE IF c.CurrentPriority > 31 /\ below = {} THEN c.InterruptInService
        ELSE below

\* Mutant: the priority is not given back.
NonspecificEoiKeepsPriority(c) ==
    IF EoiCandidates(c) = {} THEN c
    ELSE [c EXCEPT !.InterruptInService = @ \ {Highest(EoiCandidates(c))}]

NonspecificEoi(c) ==
    IF EoiCandidates(c) = {} THEN c
    ELSE [c EXCEPT !.InterruptInService = @ \ {Highest(EoiCandidates(c))},
                   !.CurrentPriority = 7]

SpecificEoi(c, irq) == [c EXCEPT !.InterruptInService = @ \ {irq}]
SetPriority(c, irq) == [c EXCEPT !.CurrentPriority = irq]

WriteOcw2(m, i, cmd, irq) ==
    LET c == m.pic[i]
        served(d) == PicService(Put(m, i, d), i)
    IN  CASE cmd = "normal_mode" -> Put(m, i, [c EXCEPT !.Mode = {"NORMAL_EOI"}])
          [] cmd = "auto_mode" -> Put(m, i, [c EXCEPT !.Mode = {"AUTO_EOI"}])
          [] cmd = "nonspecific_eoi" -> served(NonspecificEoi(c))
          [] cmd = "specific_eoi" -> served(SpecificEoi(c, irq))
          [] cmd = "set_priority" -> Put(m, i, SetPriority(c, irq))
          [] OTHER -> served(SetPriority(SpecificEoi(c, irq), irq))

(***************************************************************************)
(* PicPortIoWriteHandler: the data port, whose meaning State selects.      *)
(***************************************************************************)
Offset(c, offset) == [c EXCEPT !.State = 2, !.CurrentOffset = offset]
WriteIcw2(m, i, offset) == Put(m, i, Offset(m.pic[i], offset))

\* "Disable PIN connecting to PIC2": the pins in the value go low.
Cascaded(c, enable, value) ==
    [c EXCEPT !.State = 3, !.Cascade = enable, !.InterruptPin = @ \ value]
WriteIcw3(m, i, value) ==
    Put(m, i, Cascaded(m.pic[i], i = 0 /\ CascadeLine \in value, value))

\* ICW4_MASK drops the special-fully-nested bit before it is tested.
Icw4Mode(bits) ==
    {mode \in {"FULLY_NESTED"} : "intel" \in bits}
    \cup {IF "auto_eoi" \in bits THEN "AUTO_EOI" ELSE "NORMAL_EOI"}

Arched(c, mode) == [c EXCEPT !.State = 4, !.Mode = @ \cup mode]
WriteIcw4(m, i, bits) == Put(m, i, Arched(m.pic[i], Icw4Mode(bits)))

\* Mutant: unmasking a pending line does not service the chip.
WriteImrNoService(m, i, mask) ==
    Put(m, i, [m.pic[i] EXCEPT !.InterruptMask = mask])

WriteImr(m, i, mask) ==
    PicService(Put(m, i, [m.pic[i] EXCEPT !.InterruptMask = mask]), i)

\* PicPortIoReadHandler at the command port.  Any read select, that of the IRR
\* included, passes the first test (pic.c:259).
PicRead(c) ==
    IF c.ReadSelect \in {1, 2, 3} THEN c.InterruptInService ELSE {}

-----------------------------------------------------------------------------
(***************************************************************************)
(* The actions.                                                            *)
(***************************************************************************)
Init ==
    /\ pic = PicInitialize
    /\ events = {}
    /\ window = FALSE
    /\ wire = [n \in Lines |-> FALSE]
    /\ settled = [i \in Chips |-> FALSE]

\* An initialised chip is serviced; the slave's request survives only if the
\* master is past its ICW3, which drops line 2.
Settle(i) ==
    settled' = [settled EXCEPT
                    ![i] = pic[i].State = 4 /\ pic[0].State \notin {1, 2}]

DeviceRaise(n, a) ==
    /\ Become(PicRaiseIrq(Machine(a), n))
    /\ wire' = [wire EXCEPT ![n] = TRUE]
    /\ UNCHANGED settled

DeviceLower(n) ==
    /\ Become(PicLowerIrq(Machine({}), n))
    /\ wire' = [wire EXCEPT ![n] = FALSE]
    /\ UNCHANGED settled

GuestElcr(i, level) ==
    /\ Become(PicSetMode(Machine({}), i, level))
    /\ UNCHANGED <<wire, settled>>

GuestIcw1(i, icw4) ==
    /\ Become(WriteIcw1(Machine({}), i, icw4))
    /\ settled' = [j \in Chips |-> FALSE]
    /\ UNCHANGED wire

GuestOcw3(i, cmd, a) ==
    /\ Become(WriteOcw3(Machine(a), i, cmd))
    /\ UNCHANGED <<wire, settled>>

GuestOcw2(i, cmd, irq, a) ==
    /\ Become(WriteOcw2(Machine(a), i, cmd, irq))
    /\ CASE cmd \in {"normal_mode", "auto_mode"} -> UNCHANGED settled
         [] cmd = "set_priority" -> settled' = [settled EXCEPT ![i] = FALSE]
         [] OTHER -> Settle(i)
    /\ UNCHANGED wire

GuestIcw2(i, offset) ==
    /\ pic[i].State = 1
    /\ Become(WriteIcw2(Machine({}), i, offset))
    /\ UNCHANGED <<wire, settled>>

GuestIcw3(i, value) ==
    /\ pic[i].State = 2
    /\ Become(WriteIcw3(Machine({}), i, value))
    /\ UNCHANGED <<wire, settled>>

GuestIcw4(i, bits) ==
    /\ pic[i].State = 3
    /\ pic[i].RequestIcw4
    /\ Become(WriteIcw4(Machine({}), i, bits))
    /\ UNCHANGED <<wire, settled>>

GuestImr(i, mask, a) ==
    /\ pic[i].State = 4
    /\ Become(WriteImr(Machine(a), i, mask))
    /\ Settle(i)
    /\ UNCHANGED wire

\* GVM_EXIT_IRQ_WINDOW_OPEN, with the local APIC out of the picture.
WindowOpen(a) ==
    /\ window
    /\ LET m == CloseWindow(Machine(a))
       IN  Become(IF "INTR" \in events THEN PicIAC(m) ELSE m)
    /\ UNCHANGED <<wire, settled>>

Offsets(i) == IF i = 0 THEN MasterOffsets ELSE SlaveOffsets
\* The slave's ICW3 is its cascade identity.
Icw3(i) == IF i = 0 THEN Icw3Values ELSE {{1}}
OcwIrqs(i) == {n % 8 : n \in {l \in Lines : l \div 8 = i}} \cup {0}

Next ==
    \/ \E n \in Lines :
          \/ \E a \in GvmAccepts : DeviceRaise(n, a)
          \/ DeviceLower(n)
    \/ \E i \in Chips :
          \/ \E level \in LevelLines : GuestElcr(i, level)
          \/ \E icw4 \in Icw1Values : GuestIcw1(i, icw4)
          \/ \E cmd \in Ocw3Commands, a \in GvmAccepts : GuestOcw3(i, cmd, a)
          \/ \E cmd \in Ocw2Commands, irq \in OcwIrqs(i), a \in GvmAccepts :
                GuestOcw2(i, cmd, irq, a)
          \/ \E offset \in Offsets(i) : GuestIcw2(i, offset)
          \/ \E value \in Icw3(i) : GuestIcw3(i, value)
          \/ \E bits \in Icw4Values : GuestIcw4(i, bits)
          \/ \E mask \in Masks, a \in GvmAccepts : GuestImr(i, mask, a)
    \/ \E a \in GvmAccepts : WindowOpen(a)

Spec == Init /\ [][Next]_vars

\* Weak fairness, written with the enabling condition at hand: the hypervisor
\* exits once the window asked for opens, and the guest's handlers end with an
\* EOI while a line is in service.
FairWindow ==
    []<>~window \/ []<><<\E a \in GvmAccepts : WindowOpen(a)>>_vars
FairEoi(i) ==
    \/ []<>(EoiCandidates(pic[i]) = {})
    \/ []<><<\E a \in GvmAccepts : GuestOcw2(i, "nonspecific_eoi", 0, a)>>_vars
FairSpec == Spec /\ FairWindow /\ FairEoi(0) /\ FairEoi(1)

-----------------------------------------------------------------------------
(***************************************************************************)
(* Properties.                                                             *)
(***************************************************************************)

\* Every register keeps its width and every mode its domain, in particular
\* through the vector arithmetic of PicIAC.
TypeOK ==
    /\ pic \in [Chips -> PIC]
    /\ events \in SUBSET {"INTR", "LAPIC"}
    /\ window \in BOOLEAN
    /\ wire \in [Lines -> BOOLEAN]
    /\ settled \in [Chips -> BOOLEAN]

\* While the master is not between ICW1 and ICW3, a high pin 2 means a latched
\* request 2.  PicRaiseIrq ignores a raise of a high pin (pic.c:229), so a pin
\* left high without its request would silence the slave for good.
CascadeLatched ==
    pic[0].State \notin {1, 2} /\ CascadeLine \in pic[0].InterruptPin
        => CascadeLine \in pic[0].InterruptRequest

\* A chip in the fully nested mode with something to deliver.
Wants(i) == Nested(pic[i]) /\ Deliverable(pic[i]) # {}

\* No lost wake-up at the master: once serviced, a master that has something
\* to deliver has an event pending and has asked for the interrupt window, so
\* the main loop will run PicIAC.
MasterSignalled ==
    settled[0] /\ pic[0].Cascade /\ Wants(0) => "INTR" \in events /\ window

\* No lost wake-up at the slave: once serviced, a slave that has something to
\* deliver has its request latched at line 2 of the master.
SlaveSignalled ==
    settled[1] /\ Wants(1) => CascadeLine \in pic[0].InterruptRequest

\* The pin of a line its device holds low is low, so that the next rising edge
\* is seen (PicRaiseIrq ignores an already high pin).
\* Slave pins do not: PicLowerIrq returns for every line above 7.
PinFollowsWire(n) ==
    ~wire[n] => n % 8 \notin pic[n \div 8].InterruptPin
MasterPinsFollow == \A n \in Lines : n < 8 => PinFollowsWire(n)

\* A priority level that shuts lower lines out belongs to a line in service:
\* the end of an interrupt gives the level back (pic.c:323).
PriorityReleased ==
    \A i \in Chips :
        pic[i].CurrentPriority = 7
        \/ pic[i].CurrentPriority \in pic[i].InterruptInService

\* The chip delivers: initialised, serviced, in nested mode, all lines open.
Operational(i) ==
    /\ settled[i]
    /\ Nested(pic[i])
    /\ pic[i].InterruptMask = {}

\* Once the guest leaves the controllers operational, the master's line of
\* highest priority never stays requested forever without being in service.
\* (In service it may stay: of two nested interrupts a non-specific EOI can end
\* the one of lower priority.)
HighestServed ==
    LET line == Lowest({n \in Lines : n < 8})
    IN  <>[](Operational(0) /\ pic[0].Cascade)
            => []<>(\/ line \notin pic[0].InterruptRequest
                    \/ line \in pic[0].InterruptInService)
=============================================================================
