----------------------------- MODULE LocalApic -----------------------------
(***************************************************************************)
(* The local APIC of SVMM (apic.c) as operators on machine records, each   *)
(* the whole of a handler.  They touch the fields lapic, events and window *)
(* of the record, whatever else it holds.  There is one local APIC         *)
(* (NUM_LOCAL_APICS is 1) and its id is 0.                                 *)
(*                                                                         *)
(* A 256-bit register is a set of vectors, an 8-bit destination the set of *)
(* its bits.                                                               *)
(***************************************************************************)
EXTENDS Naturals, FiniteSets

Vector == 0..255
Class(v) == v \div 16
Destination == SUBSET (0..7)
Broadcast == 0..7

ERRORS == {"RECV_ILLEGAL_VECTOR", "TX_ACCEPT_ERR", "ILLEGAL_ADDR"}
MODELS == {"flat", "cluster", "other"}
DELIVERY == {"fixed", "low_pri", "init", "other"}
SHORTHAND == {"apicid", "self", "all", "all_no_self"}

\* The timer's entry of the local vector table: what ApicSetLvtEntry keeps of
\* it.  The other entries are stored and read back only.
LVT == [Vector : Vector, Masked : BOOLEAN, Periodic : BOOLEAN]

\* typedef struct _LAPIC.  Timer stands for the state of the entry TimerId
\* of the timer table.
LAPIC == [TaskPriority : 0..15,
          InterruptServiceRegister : SUBSET Vector,
          TriggerModeRegister : SUBSET Vector,
          InterruptRequestRegister : SUBSET Vector,
          DestinationLogical : SUBSET (0..3),
          DestinationFormat : MODELS,
          IcrDestination : Destination,
          LvtTimer : LVT,
          Timer : {"off", "one_shot", "periodic"},
          ErrorStatus : SUBSET ERRORS,
          ShadowErrorStatus : SUBSET ERRORS,
          SpuriousVector : Vector,
          SoftwareEnable : BOOLEAN,
          FocusDisable : BOOLEAN]

\* The state after ApicInitialize: the structure is zeroed, then reset.
ApicReset ==
    [TaskPriority |-> 0, InterruptServiceRegister |-> {},
     TriggerModeRegister |-> {}, InterruptRequestRegister |-> {},
     DestinationLogical |-> {}, DestinationFormat |-> "cluster",
     IcrDestination |-> {},
     LvtTimer |-> [Vector |-> 0, Masked |-> FALSE, Periodic |-> FALSE],
     Timer |-> "off", ErrorStatus |-> {}, ShadowErrorStatus |-> {},
     SpuriousVector |-> 255, SoftwareEnable |-> FALSE, FocusDisable |-> FALSE]

-----------------------------------------------------------------------------
(***************************************************************************)
(* Priorities and the request for an interrupt.                            *)
(***************************************************************************)

\* The highest vector of a register, 0 if it is empty (ApicHighestVectorBit
\* and ApicHighestPriority both fall through to 0).
HighestVector(S) ==
    IF S = {} THEN 0 ELSE CHOOSE v \in S : \A w \in S : w <= v

ApicHighestPriority(S) == Class(HighestVector(S))

ApicGetProcessPriority(l) ==
    LET isrPrio == ApicHighestPriority(l.InterruptServiceRegister)
    IN  IF isrPrio < l.TaskPriority THEN l.TaskPriority ELSE isrPrio

IrrPriority(l) == ApicHighestPriority(l.InterruptRequestRegister)

\* Something is requested that may interrupt the processor.
Interrupts(l) == IrrPriority(l) > ApicGetProcessPriority(l)

PutLapic(m, l) == [m EXCEPT !.lapic = l]
RequestLapic(m) == [m EXCEPT !.window = TRUE, !.events = @ \cup {"LAPIC"}]

\* Mutant: a request of the same class interrupts too.
ApicServiceEqual(m) ==
    IF /\ IrrPriority(m.lapic) >= ApicGetProcessPriority(m.lapic)
       /\ m.lapic.InterruptRequestRegister # {}
       /\ "LAPIC" \notin m.events
       /\ ~m.window
    THEN RequestLapic(m) ELSE m

\* Nothing is recorded while a window is already requested (apic.c:104).
ApicService(m) ==
    IF Interrupts(m.lapic) /\ "LAPIC" \notin m.events /\ ~m.window
    THEN RequestLapic(m) ELSE m

(***************************************************************************)
(* Arrival, acknowledge and end of an interrupt.                           *)
(***************************************************************************)
Error(l, e) == [l EXCEPT !.ShadowErrorStatus = @ \cup {e}]

Requested(l, v, level) ==
    [l EXCEPT !.InterruptRequestRegister = @ \cup {v},
              !.TriggerModeRegister = IF level THEN @ \cup {v} ELSE @ \ {v}]

ApicSetIrq(m, v, level) ==
    IF v <= 15 THEN PutLapic(m, Error(m.lapic, "RECV_ILLEGAL_VECTOR"))
    ELSE IF v \in m.lapic.InterruptRequestRegister THEN m
    ELSE ApicService(PutLapic(m, Requested(m.lapic, v, level)))

\* Mutant: the request stays after it was accepted.
AcceptedKeep(l, v) == [l EXCEPT !.InterruptServiceRegister = @ \cup {v}]

\* The vector moves from the request to the service register.
Accepted(l, v) ==
    [l EXCEPT !.InterruptRequestRegister = @ \ {v},
              !.InterruptServiceRegister = @ \cup {v}]

ClearLapicEvent(m) == [m EXCEPT !.events = @ \ {"LAPIC"}]

\* The request was overtaken by a higher task priority.
Spurious(l) == IrrPriority(l) < ApicGetProcessPriority(l)

\* Called with the event pending only.
ApicAcknowledgeInterrupt(m) ==
    LET v == HighestVector(m.lapic.InterruptRequestRegister)
    IN  IF Spurious(m.lapic) THEN ClearLapicEvent(m)
        ELSE ApicService(ClearLapicEvent(PutLapic(m, Accepted(m.lapic, v))))

Ended(l, v) ==
    [l EXCEPT !.InterruptServiceRegister = @ \ {v},
              !.TriggerModeRegister = @ \ {v}]

(***************************************************************************)
(* The bus.  Delivery returns whether it failed; only the low-priority     *)
(* mode can, and the modes that are no interrupts (SMI, NMI, INIT, SIPI,   *)
(* ExtINT) always say so.                                                  *)
(***************************************************************************)
ApicMatchLogicalAddress(l, dest) ==
    CASE l.DestinationFormat = "flat" -> dest \cap l.DestinationLogical # {}
      [] l.DestinationFormat = "cluster" ->
            \/ dest = Broadcast
            \/ dest \cap (4..7) = {} /\ dest \cap l.DestinationLogical # {}
      [] OTHER -> FALSE

\* The local APICs a message of the mode reaches: whether the only one does.
FixedReaches(l, dest, logical) ==
    IF logical THEN ApicMatchLogicalAddress(l, dest) ELSE dest = {}
LowPriorityReaches(l, dest) ==
    ~l.FocusDisable \/ ApicMatchLogicalAddress(l, dest)

\* Low priority in physical mode is fixed.
IsFixed(mode, logical) == mode = "fixed" \/ (mode = "low_pri" /\ ~logical)

ApicBusReaches(l, dest, logical, mode) ==
    \/ IsFixed(mode, logical) /\ FixedReaches(l, dest, logical)
    \/ mode = "low_pri" /\ logical /\ LowPriorityReaches(l, dest)

ApicBusFails(l, dest, logical, mode) ==
    ~IsFixed(mode, logical) /\ ~ApicBusReaches(l, dest, logical, mode)

ApicBusDeliverInterrupt(m, v, dest, logical, mode, level) ==
    IF ApicBusReaches(m.lapic, dest, logical, mode)
    THEN ApicSetIrq(m, v, level) ELSE m

\* An INIT goes out as a low-priority interrupt; "all" goes to the
\* destination field as well; "all but self" to nobody.
IpiReaches(l, logical, mode, shorthand) ==
    IF mode = "init" THEN LowPriorityReaches(l, l.IcrDestination)
    ELSE \/ shorthand = "self"
         \/ /\ shorthand \in {"apicid", "all"}
            /\ ApicBusReaches(l, l.IcrDestination, logical, mode)

\* The error is not recorded for an INIT, which returns early.
IpiFails(l, logical, mode, shorthand) ==
    /\ mode # "init"
    /\ shorthand \in {"apicid", "all"}
    /\ ApicBusFails(l, l.IcrDestination, logical, mode)

ApicSendIpi(m, v, logical, mode, level, shorthand) ==
    LET l == m.lapic
    IN  CASE IpiReaches(l, logical, mode, shorthand) -> ApicSetIrq(m, v, level)
          [] IpiFails(l, logical, mode, shorthand) ->
                PutLapic(m, Error(l, "TX_ACCEPT_ERR"))
          [] OTHER -> m

(***************************************************************************)
(* The timer.                                                              *)
(***************************************************************************)
TimerKind(lvt) == IF lvt.Periodic THEN "periodic" ELSE "one_shot"

\* What TimerTick leaves of a one-shot timer after the handler returned.
AfterTick(kind) == IF kind = "periodic" THEN kind ELSE "off"

\* ApicTimerHandler, and the end of the timer's turn in TimerTick.
ApicTimerHandler(m) ==
    LET l == m.lapic
        kind == IF l.LvtTimer.Masked THEN l.Timer ELSE TimerKind(l.LvtTimer)
        n == PutLapic(m, [l EXCEPT !.Timer = AfterTick(kind)])
    IN  IF l.LvtTimer.Masked THEN n
        ELSE ApicBusDeliverInterrupt(n, l.LvtTimer.Vector, {}, FALSE, "fixed",
                                     FALSE)

(***************************************************************************)
(* ApicMMIOWriteHandler, one operator per register.  EOI is in IoApic.     *)
(***************************************************************************)

WithTpr(l, tpr) == [l EXCEPT !.TaskPriority = tpr]

\* Mutant: a lowered task priority does not look for a request.
WriteTprNoService(m, tpr) == PutLapic(m, WithTpr(m.lapic, tpr))

WriteTpr(m, tpr) ==
    LET n == PutLapic(m, WithTpr(m.lapic, tpr))
    IN  IF m.lapic.TaskPriority > tpr THEN ApicService(n) ELSE n

WriteLdr(m, bits) ==
    PutLapic(m, [m.lapic EXCEPT !.DestinationLogical = bits])

WriteDfr(m, model) ==
    PutLapic(m, [m.lapic EXCEPT !.DestinationFormat = model])

\* Bits 0-3 of the spurious vector are hardwired to 1.
SpuriousOf(class) == class * 16 + 15

ApicWriteSpuriousInterrupt(m, class, enable, focusDisable) ==
    PutLapic(m, [m.lapic EXCEPT
        !.SpuriousVector = SpuriousOf(class),
        !.SoftwareEnable = enable,
        !.FocusDisable = focusDisable,
        !.LvtTimer.Masked = @ \/ ~enable])

WriteEsr(m) ==
    PutLapic(m, [m.lapic EXCEPT !.ErrorStatus = m.lapic.ShadowErrorStatus,
                                !.ShadowErrorStatus = {}])

WriteIcrHigh(m, dest) ==
    PutLapic(m, [m.lapic EXCEPT !.IcrDestination = dest])

ApicSetLvtEntry(m, lvt) ==
    PutLapic(m, [m.lapic EXCEPT
        !.LvtTimer = [lvt EXCEPT !.Masked = @ \/ ~m.lapic.SoftwareEnable]])

\* A zero count stops the timer.
WriteInitialCount(m, running) ==
    PutLapic(m, [m.lapic EXCEPT
        !.Timer = IF running THEN TimerKind(m.lapic.LvtTimer) ELSE "off"])

\* A read or write of an unassigned register.
IllegalAddress(m) == PutLapic(m, Error(m.lapic, "ILLEGAL_ADDR"))
=============================================================================
