------------------------------ MODULE ApicBus ------------------------------
(***************************************************************************)
(* The local APIC and the I/O APIC together: devices drive the pins, the   *)
(* guest programs both, and the main loop acknowledges in the window it    *)
(* was asked for.  The 8259 pair is out of the picture (see IntrSystem).   *)
(***************************************************************************)
EXTENDS IoApic

CONSTANTS
    Lines,            \* the lines devices raise and lower
    Selects,          \* the I/O APIC registers the guest selects
    RteLows,          \* the redirection entries it writes, low half
    RteHighs,         \* and high half
    TaskPriorities,   \* the values it writes to TPR (or CR8)
    LogicalIds,       \* to LDR
    Models,           \* to DFR
    SpuriousWrites,   \* to SVR: class, software enable, focus disable
    IpiDestinations,  \* to the high half of ICR
    Ipis,             \* and to the low half
    TimerEntries,     \* to the timer's entry of the LVT
    InitialCounts,    \* to the timer's initial count: whether it is not zero
    ErrorAccesses     \* which of ESR and an unassigned register it accesses

SVR == [class : 0..15, enable : BOOLEAN, focusDisable : BOOLEAN]
IPI == [vector : Vector, logical : BOOLEAN, mode : DELIVERY, level : BOOLEAN,
        shorthand : SHORTHAND]

ASSUME ApicBusAssumption ==
    /\ Lines \subseteq 0..255
    /\ Selects \subseteq 0..255
    /\ RteLows \subseteq RteLow
    /\ RteHighs \subseteq Destination
    /\ TaskPriorities \subseteq 0..15
    /\ LogicalIds \subseteq SUBSET (0..3)
    /\ Models \subseteq MODELS
    /\ SpuriousWrites \subseteq SVR
    /\ IpiDestinations \subseteq Destination
    /\ Ipis \subseteq IPI
    /\ TimerEntries \subseteq LVT
    /\ InitialCounts \subseteq BOOLEAN
    /\ ErrorAccesses \subseteq {"ESR", "ILLEGAL"}

VARIABLES
    lapic,   \* Lapic[0]
    ioapic,  \* IoApic
    events,  \* svmm_events
    window   \* kvm_run->request_interrupt_window

vars == <<lapic, ioapic, events, window>>

Machine ==
    [lapic |-> lapic, ioapic |-> ioapic, events |-> events, window |-> window]

Become(m) ==
    /\ lapic' = m.lapic
    /\ ioapic' = m.ioapic
    /\ events' = m.events
    /\ window' = m.window

-----------------------------------------------------------------------------
Init ==
    /\ lapic = ApicReset
    /\ ioapic = IoApicInitialize
    /\ events = {}
    /\ window = FALSE

DeviceRaise(line) == Become(IoApicRaiseIrq(Machine, line))
DeviceLower(line) == Become(IoApicLowerIrq(Machine, line))

GuestSelect(sel) == Become(WriteSelect(Machine, sel))
GuestData(low, high) == Become(WriteData(Machine, low, high))

GuestTpr(tpr) == Become(WriteTpr(Machine, tpr))
GuestEoi == Become(ApicReceiveEOI(Machine))
GuestLdr(bits) == Become(WriteLdr(Machine, bits))
GuestDfr(model) == Become(WriteDfr(Machine, model))
GuestSvr(s) ==
    Become(ApicWriteSpuriousInterrupt(Machine, s.class, s.enable, s.focusDisable))
GuestIcrHigh(dest) == Become(WriteIcrHigh(Machine, dest))

\* A self IPI uses the destination field as an index (apic.c:381): the guest is
\* assumed to leave it 0.
GuestIcrLow(i) ==
    /\ i.shorthand = "self" => lapic.IcrDestination = {}
    /\ Become(ApicSendIpi(Machine, i.vector, i.logical, i.mode, i.level,
                          i.shorthand))

GuestLvtTimer(lvt) == Become(ApicSetLvtEntry(Machine, lvt))
GuestInitialCount(running) == Become(WriteInitialCount(Machine, running))
GuestEsr == "ESR" \in ErrorAccesses /\ Become(WriteEsr(Machine))
GuestIllegal == "ILLEGAL" \in ErrorAccesses /\ Become(IllegalAddress(Machine))

\* TimerTick finds the timer due.
TimerExpires == lapic.Timer # "off" /\ Become(ApicTimerHandler(Machine))

\* GVM_EXIT_IRQ_WINDOW_OPEN.
WindowOpen ==
    /\ window
    /\ LET m == [Machine EXCEPT !.window = FALSE]
       IN  Become(IF "LAPIC" \in events THEN ApicAcknowledgeInterrupt(m) ELSE m)

Next ==
    \/ \E line \in Lines : DeviceRaise(line) \/ DeviceLower(line)
    \/ \E sel \in Selects : GuestSelect(sel)
    \/ \E low \in RteLows, high \in RteHighs : GuestData(low, high)
    \/ \E tpr \in TaskPriorities : GuestTpr(tpr)
    \/ GuestEoi
    \/ \E bits \in LogicalIds : GuestLdr(bits)
    \/ \E model \in Models : GuestDfr(model)
    \/ \E s \in SpuriousWrites : GuestSvr(s)
    \/ \E dest \in IpiDestinations : GuestIcrHigh(dest)
    \/ \E i \in Ipis : GuestIcrLow(i)
    \/ \E lvt \in TimerEntries : GuestLvtTimer(lvt)
    \/ \E running \in InitialCounts : GuestInitialCount(running)
    \/ GuestEsr
    \/ GuestIllegal
    \/ TimerExpires
    \/ WindowOpen

Spec == Init /\ [][Next]_vars

\* The hypervisor exits once the window asked for opens, and the guest's
\* handlers end with an EOI.
FairWindow == []<>~window \/ []<><<WindowOpen>>_vars
FairEoi ==
    []<>(lapic.InterruptServiceRegister = {}) \/ []<><<GuestEoi>>_vars
FairSpec == Spec /\ FairWindow /\ FairEoi

-----------------------------------------------------------------------------
(***************************************************************************)
(* Properties.                                                             *)
(***************************************************************************)

\* Every register of both controllers keeps its domain.
TypeOK ==
    /\ lapic \in LAPIC
    /\ ioapic \in IOAPIC
    /\ events \in SUBSET {"INTR", "LAPIC"}
    /\ window \in BOOLEAN

\* No lost wake-up: a request above the processor priority has its event
\* recorded and the window asked for, whatever write, end of interrupt or
\* acknowledge made it one (ApicService and its callers).
LapicSignalled == Interrupts(lapic) => "LAPIC" \in events /\ window

\* The pending event stands for a request that outranks everything in service,
\* although the request is looked up again when the window opens.
\* ApicAcknowledgeInterrupt relies on it: it never finds an empty register and
\* never nests a vector into its own class.
RequestOutranks ==
    "LAPIC" \in events =>
        IrrPriority(lapic) > ApicHighestPriority(lapic.InterruptServiceRegister)

\* At most one vector of a class is in service, so that the end of interrupt,
\* which picks the highest bit (apic.c:120), ends the one delivered last.
InServiceNested ==
    \A v, w \in lapic.InterruptServiceRegister : Class(v) = Class(w) => v = w

\* An edge request on an open pin with fixed delivery has gone out: raising,
\* unmasking and reprogramming all look at every pin (IoApicService).
EdgeNotHeldBack ==
    \A p \in ioapic.Irr :
        LET rte == ioapic.Low[p]
        IN  rte.Masked \/ rte.Level \/ ~IsFixed(rte.Delivery, rte.Logical)

\* The joint effect of the messages is that of the loop over the pins, from
\* every reachable state and with every line raised on top.
AllRaised ==
    PutIoApic(Machine, [ioapic EXCEPT
        !.Irr = @ \cup ({PinOf(line) : line \in Lines} \cap Pin)])
ServiceIsLoop ==
    \A m \in {Machine, AllRaised} : IoApicService(m) = Loop(m)

\* The pair implements nesting by priority.
Nesting == INSTANCE PriorityNesting
    WITH pending <- lapic.InterruptRequestRegister,
         active <- lapic.InterruptServiceRegister
NestsByPriority == Nesting!Spec

\* Once the guest leaves the task priority at 0, the highest vector in use never
\* stays requested forever.
InUse == {low.Vector : low \in RteLows} \cup {i.vector : i \in Ipis}
            \cup {lvt.Vector : lvt \in TimerEntries}
HighestAcknowledged ==
    <>[](lapic.TaskPriority = 0)
        => []<>(HighestVector(InUse) \notin lapic.InterruptRequestRegister)
=============================================================================
