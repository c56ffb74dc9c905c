---------------------------- MODULE ApicProofs ----------------------------
(***************************************************************************)
(* Proofs about ApicBus.  Every handler is shown once, for an arbitrary    *)
(* machine record, to keep Good and to nest (LocalStep for handlers of the *)
(* local APIC, Step for those that reach the I/O APIC); the theorems       *)
(* follow by one case per action.  Two parts follow: the loop of           *)
(* IoApicService has the joint effect the model states, and the local APIC *)
(* nests in IntrSystem, beside the 8259 pair.                              *)
(***************************************************************************)
EXTENDS ApicBus, TLAPS, WellFoundedInduction

\* A set of naturals that is not empty has a least element.
LEMMA LeastNatural ==
    ASSUME NEW T, T \subseteq Nat, T # {}
    PROVE  \E x \in T : \A y \in T : x <= y
<1>. DEFINE R == OpToRel(<, Nat)
<1>1. IsWellFoundedOn(R, Nat)
  BY NatLessThanWellFounded
<1>2. \A x, y \in Nat : <<y, x>> \in R <=> y < x
  BY DEF OpToRel
<1>3. PICK x \in T : \A y \in T : ~ (<<y, x>> \in R)
  <2>. HIDE DEF R
  <2>. QED BY <1>1, WFMin, Zenon
<1>. HIDE DEF R
<1>4. \A y \in T : ~(y < x)
  BY <1>2, <1>3, Zenon
<1>. QED BY <1>4

\* A register that is not empty has a highest vector.
LEMMA GreatestVector ==
    ASSUME NEW S \in SUBSET Vector, S # {}
    PROVE  \E v \in S : \A w \in S : w <= v
<1>. DEFINE T == {255 - v : v \in S}
<1>1. PICK u \in S : TRUE
  OBVIOUS
<1>2. T \subseteq Nat
  BY DEF Vector
<1>3. 255 - u \in T
  BY <1>1, Zenon
<1>4. T # {}
  <2>. HIDE DEF T
  <2>. QED BY <1>3
<1>5. PICK x \in T : \A y \in T : x <= y
  <2>. HIDE DEF T
  <2>. QED BY <1>2, <1>4, LeastNatural, Zenon
<1>6. PICK v \in S : x = 255 - v
  OBVIOUS
<1>7. \A w \in S : 255 - v <= 255 - w
  <2>1. \A w \in S : 255 - w \in T
    OBVIOUS
  <2>. HIDE DEF T
  <2>. QED BY <1>5, <1>6, <2>1
<1>8. v \in Int /\ \A w \in S : w \in Int
  BY DEF Vector
<1>. QED BY <1>7, <1>8

\* HighestVector, as ApicHighestVectorBit, finds the highest bit that is set.
LEMMA HighestVectorIn ==
    ASSUME NEW S \in SUBSET Vector, S # {}
    PROVE  /\ HighestVector(S) \in S
           /\ \A w \in S : w <= HighestVector(S)
<1>1. \E v \in S : \A w \in S : w <= v
  BY GreatestVector
<1>. QED BY <1>1 DEF HighestVector

\* An empty register counts as vector 0.
LEMMA HighestVectorEmpty == HighestVector({}) = 0
BY DEF HighestVector

\* What the scan of a register returns is a vector.
LEMMA HighestVectorType ==
    ASSUME NEW S \in SUBSET Vector
    PROVE  HighestVector(S) \in Vector
<1>1. 0 \in Vector
  BY DEF Vector
<1>. QED BY <1>1, HighestVectorIn, HighestVectorEmpty

\* The class of a vector is a 4-bit number and grows with the vector.
LEMMA ClassFacts ==
    /\ \A v \in Vector : Class(v) \in 0..15
    /\ \A v, w \in Vector : v <= w => Class(v) <= Class(w)
    /\ Class(0) = 0
BY DEF Class, Vector

\* The priority of a register bounds the class of all its vectors.
LEMMA PriorityFacts ==
    ASSUME NEW S \in SUBSET Vector
    PROVE  /\ ApicHighestPriority(S) \in 0..15
           /\ \A v \in S : Class(v) <= ApicHighestPriority(S)
           /\ S = {} => ApicHighestPriority(S) = 0
<1>1. ApicHighestPriority(S) \in 0..15
  BY HighestVectorType, ClassFacts DEF ApicHighestPriority
<1>2. \A v \in S : Class(v) <= ApicHighestPriority(S)
  BY HighestVectorIn, HighestVectorType, ClassFacts DEF ApicHighestPriority
<1>3. S = {} => ApicHighestPriority(S) = 0
  BY HighestVectorEmpty, ClassFacts DEF ApicHighestPriority
<1>. QED BY <1>1, <1>2, <1>3

\* More bits in a register never lower its priority.
LEMMA PriorityMonotone ==
    ASSUME NEW S \in SUBSET Vector, NEW T \in SUBSET Vector, S \subseteq T
    PROVE  ApicHighestPriority(S) <= ApicHighestPriority(T)
<1>1. CASE S = {}
  BY <1>1, PriorityFacts
<1>2. CASE S # {}
  <2>1. HighestVector(S) \in T
    BY <1>2, HighestVectorIn
  <2>. QED BY <2>1, PriorityFacts DEF ApicHighestPriority
<1>. QED BY <1>1, <1>2

-----------------------------------------------------------------------------
Irr(l) == l.InterruptRequestRegister
Isr(l) == l.InterruptServiceRegister
IsrPriority(l) == ApicHighestPriority(Isr(l))

EVENTS == {"INTR", "LAPIC"}
MACHINE == [lapic : LAPIC, ioapic : IOAPIC, events : SUBSET EVENTS,
            window : BOOLEAN]

\* The three priorities ApicService compares are 4-bit numbers.
LEMMA PrioritiesType ==
    ASSUME NEW l \in LAPIC
    PROVE  /\ IrrPriority(l) \in 0..15
           /\ IsrPriority(l) \in 0..15
           /\ l.TaskPriority \in 0..15
<1>1. Irr(l) \in SUBSET Vector /\ Isr(l) \in SUBSET Vector
  BY DEF LAPIC, Irr, Isr
<1>2. l.TaskPriority \in 0..15
  BY DEF LAPIC
<1>. QED BY <1>1, <1>2, PriorityFacts DEF IrrPriority, IsrPriority, Irr

\* The processor priority is the higher one of the task priority and the
\* class in service, so both tests split in two.
LEMMA InterruptsIff ==
    ASSUME NEW l \in LAPIC
    PROVE  /\ Interrupts(l) <=> IrrPriority(l) > IsrPriority(l)
                                 /\ IrrPriority(l) > l.TaskPriority
           /\ Spurious(l) <=> IrrPriority(l) < IsrPriority(l)
                               \/ IrrPriority(l) < l.TaskPriority
BY PrioritiesType DEF Interrupts, Spurious, ApicGetProcessPriority, IsrPriority, Isr

\* Storing a local APIC leaves the rest of the machine alone.
LEMMA PutLapicType ==
    ASSUME NEW m \in MACHINE, NEW l \in LAPIC
    PROVE  /\ PutLapic(m, l) \in MACHINE
           /\ PutLapic(m, l).lapic = l
           /\ PutLapic(m, l).ioapic = m.ioapic
           /\ PutLapic(m, l).events = m.events
           /\ PutLapic(m, l).window = m.window
BY DEF PutLapic, MACHINE

\* Storing an I/O APIC leaves the rest of the machine alone.
LEMMA PutIoApicType ==
    ASSUME NEW m \in MACHINE, NEW io \in IOAPIC
    PROVE  /\ PutIoApic(m, io) \in MACHINE
           /\ PutIoApic(m, io).lapic = m.lapic
           /\ PutIoApic(m, io).ioapic = io
           /\ PutIoApic(m, io).events = m.events
           /\ PutIoApic(m, io).window = m.window
BY DEF PutIoApic, MACHINE

\* The fields of a machine have their types.
LEMMA MachineFields ==
    ASSUME NEW m \in MACHINE
    PROVE  /\ m.lapic \in LAPIC
           /\ m.ioapic \in IOAPIC
           /\ m.events \in SUBSET EVENTS
           /\ m.window \in BOOLEAN
BY DEF MACHINE

\* Recording and clearing the event leaves both controllers alone.
LEMMA EventOps ==
    ASSUME NEW m \in MACHINE
    PROVE  /\ RequestLapic(m) \in MACHINE
           /\ RequestLapic(m).lapic = m.lapic
           /\ RequestLapic(m).ioapic = m.ioapic
           /\ "LAPIC" \in RequestLapic(m).events
           /\ RequestLapic(m).window = TRUE
           /\ ClearLapicEvent(m) \in MACHINE
           /\ ClearLapicEvent(m).lapic = m.lapic
           /\ ClearLapicEvent(m).ioapic = m.ioapic
           /\ "LAPIC" \notin ClearLapicEvent(m).events
           /\ ClearLapicEvent(m).window = m.window
BY DEF MACHINE, EVENTS, RequestLapic, ClearLapicEvent

\* One vector of a class in service.
NestedIsr(l) == \A v, w \in Isr(l) : Class(v) = Class(w) => v = w

\* What a service of the local APIC needs of the machine, and what it leaves.
Serviceable(m) ==
    /\ m \in MACHINE
    /\ m.window <=> "LAPIC" \in m.events
    /\ "LAPIC" \in m.events => IrrPriority(m.lapic) > IsrPriority(m.lapic)
    /\ NestedIsr(m.lapic)
Signalled(m) == Interrupts(m.lapic) => "LAPIC" \in m.events
Good(m) == Serviceable(m) /\ Signalled(m)

\* ApicService restores what a change of the local APIC may have broken: the
\* request that now interrupts is signalled.
LEMMA ServiceGood ==
    ASSUME NEW m, Serviceable(m)
    PROVE  /\ Good(ApicService(m))
           /\ ApicService(m).lapic = m.lapic
           /\ ApicService(m).ioapic = m.ioapic
<1>1. m \in MACHINE /\ m.lapic \in LAPIC /\ m.window \in BOOLEAN
  BY MachineFields DEF Serviceable
<1>2. CASE Interrupts(m.lapic) /\ "LAPIC" \notin m.events /\ ~m.window
  <2>1. ApicService(m) = RequestLapic(m)
    BY <1>2 DEF ApicService
  <2>2. Serviceable(RequestLapic(m))
    BY <1>1, <1>2, EventOps, InterruptsIff DEF Serviceable
  <2>3. Signalled(RequestLapic(m))
    BY <1>1, EventOps DEF Signalled
  <2>4. RequestLapic(m).lapic = m.lapic /\ RequestLapic(m).ioapic = m.ioapic
    BY <1>1, EventOps
  <2>. QED BY <2>1, <2>2, <2>3, <2>4, Zenon DEF Good
<1>3. CASE ~(Interrupts(m.lapic) /\ "LAPIC" \notin m.events /\ ~m.window)
  <2>1. ApicService(m) = m
    BY <1>3 DEF ApicService
  <2>2. Signalled(m)
    BY <1>1, <1>3 DEF Serviceable, Signalled
  <2>. QED BY <2>1, <2>2 DEF Good
<1>. QED BY <1>2, <1>3

\* A write that raises no request and lowers no priority needs no service.
LEMMA KeepsGood ==
    ASSUME NEW m, Good(m), NEW k \in LAPIC,
           Irr(k) = Irr(m.lapic), Isr(k) = Isr(m.lapic),
           m.lapic.TaskPriority <= k.TaskPriority
    PROVE  Good(PutLapic(m, k))
<1>1. m \in MACHINE /\ m.lapic \in LAPIC
  BY MachineFields DEF Good, Serviceable
<1>2. IrrPriority(k) = IrrPriority(m.lapic) /\ IsrPriority(k) = IsrPriority(m.lapic)
  BY DEF IrrPriority, IsrPriority, Irr
<1>3. Interrupts(k) => Interrupts(m.lapic)
  BY <1>1, <1>2, InterruptsIff, PrioritiesType
<1>4. NestedIsr(k)
  BY DEF Good, Serviceable, NestedIsr
<1>5. Serviceable(PutLapic(m, k))
  BY <1>1, <1>2, <1>4, PutLapicType DEF Good, Serviceable
<1>6. Signalled(PutLapic(m, k))
  BY <1>1, <1>3, PutLapicType DEF Good, Signalled
<1>. QED BY <1>5, <1>6 DEF Good

\* New requests and ended interrupts leave the recorded event justified.
LEMMA GrowsServiceable ==
    ASSUME NEW m, Serviceable(m), NEW k \in LAPIC,
           Irr(m.lapic) \subseteq Irr(k), Isr(k) \subseteq Isr(m.lapic)
    PROVE  Serviceable(PutLapic(m, k))
<1>1. m \in MACHINE /\ m.lapic \in LAPIC
  BY MachineFields DEF Serviceable
<1>2. /\ Irr(m.lapic) \in SUBSET Vector /\ Irr(k) \in SUBSET Vector
      /\ Isr(m.lapic) \in SUBSET Vector /\ Isr(k) \in SUBSET Vector
  BY <1>1 DEF LAPIC, Irr, Isr
<1>3. IrrPriority(m.lapic) <= IrrPriority(k)
  BY <1>2, PriorityMonotone DEF IrrPriority, Irr
<1>4. IsrPriority(k) <= IsrPriority(m.lapic)
  BY <1>2, PriorityMonotone DEF IsrPriority
<1>5. IrrPriority(m.lapic) > IsrPriority(m.lapic) => IrrPriority(k) > IsrPriority(k)
  BY <1>1, <1>3, <1>4, PrioritiesType
<1>6. NestedIsr(k)
  BY DEF Serviceable, NestedIsr
<1>. QED BY <1>1, <1>5, <1>6, PutLapicType DEF Serviceable

\* A change of the I/O APIC alone does not matter to the local one.
LEMMA PutIoApicGood ==
    ASSUME NEW m, NEW io \in IOAPIC
    PROVE  /\ Good(m) => Good(PutIoApic(m, io))
           /\ Serviceable(m) => Serviceable(PutIoApic(m, io))
<1>1. ASSUME Serviceable(m) PROVE Serviceable(PutIoApic(m, io))
  BY <1>1, PutIoApicType DEF Serviceable
<1>2. ASSUME Good(m) PROVE Signalled(PutIoApic(m, io))
  BY <1>2, PutIoApicType DEF Good, Serviceable, Signalled
<1>. QED BY <1>1, <1>2 DEF Good

\* A step of the local APIC as PriorityNesting sees it.
Grows(l, k) ==
    /\ Irr(l) \subseteq Irr(k)
    /\ Irr(k) \ Irr(l) \subseteq 16..255
    /\ Isr(k) = Isr(l)
Delivers(l, k) ==
    \E v \in Irr(l) :
        /\ \A w \in Irr(l) : w <= v
        /\ \A w \in Isr(l) : Class(v) > Class(w)
        /\ Irr(k) = Irr(l) \ {v}
        /\ Isr(k) = Isr(l) \cup {v}
Ends(l, k) ==
    \E v \in Isr(l) :
        /\ \A w \in Isr(l) \ {v} : Class(v) > Class(w)
        /\ Isr(k) = Isr(l) \ {v}
        /\ Irr(k) = Irr(l)
Nests(l, k) == Grows(l, k) \/ Delivers(l, k) \/ Ends(l, k)

\* A call that keeps the invariant, nests and leaves the I/O APIC alone.
LocalStep(m, n) ==
    /\ Good(n)
    /\ Nests(m.lapic, n.lapic)
    /\ n.ioapic = m.ioapic

\* A vector that ApicSetIrq accepts adds one request.
LEMMA RequestedType ==
    ASSUME NEW l \in LAPIC, NEW v \in Vector, NEW level \in BOOLEAN, v > 15
    PROVE  /\ Requested(l, v, level) \in LAPIC
           /\ Grows(l, Requested(l, v, level))
<1>1. (IF level THEN l.TriggerModeRegister \cup {v} ELSE l.TriggerModeRegister \ {v}) \in SUBSET Vector
  BY DEF LAPIC
<1>2. l.InterruptRequestRegister \cup {v} \in SUBSET Vector
  BY DEF LAPIC
<1>3. Requested(l, v, level) \in LAPIC
  BY <1>1, <1>2 DEF LAPIC, Requested
<1>4. /\ Irr(Requested(l, v, level)) = Irr(l) \cup {v}
      /\ Isr(Requested(l, v, level)) = Isr(l)
  BY DEF LAPIC, Requested, Irr, Isr
<1>5. v \in 16..255
  BY DEF Vector
<1>. QED BY <1>3, <1>4, <1>5 DEF Grows

\* A recorded error changes no priority.
LEMMA ErrorType ==
    ASSUME NEW l \in LAPIC, NEW e \in ERRORS
    PROVE  /\ Error(l, e) \in LAPIC
           /\ Irr(Error(l, e)) = Irr(l)
           /\ Isr(Error(l, e)) = Isr(l)
           /\ Error(l, e).TaskPriority = l.TaskPriority
BY DEF LAPIC, Error, Irr, Isr

\* ApicSetIrq, on each of its three paths, keeps the invariant.
LEMMA SetIrqGood ==
    ASSUME NEW m, Good(m), NEW v \in Vector, NEW level \in BOOLEAN
    PROVE  LocalStep(m, ApicSetIrq(m, v, level))
<1>. DEFINE l == m.lapic
            e == Error(l, "RECV_ILLEGAL_VECTOR")
            r == Requested(l, v, level)
<1>0. m \in MACHINE /\ l \in LAPIC
  BY MachineFields DEF Good, Serviceable
<1>1. CASE v <= 15
  <2>1. ApicSetIrq(m, v, level) = PutLapic(m, e)
    BY <1>1 DEF ApicSetIrq
  <2>2. /\ e \in LAPIC /\ Irr(e) = Irr(l) /\ Isr(e) = Isr(l)
        /\ e.TaskPriority = l.TaskPriority
    BY <1>0, ErrorType DEF ERRORS
  <2>3. l.TaskPriority <= e.TaskPriority
    BY <1>0, <2>2, PrioritiesType
  <2>. HIDE DEF e, l
  <2>4. Good(PutLapic(m, e))
    BY <2>2, <2>3, KeepsGood DEF l
  <2>5. PutLapic(m, e).lapic = e /\ PutLapic(m, e).ioapic = m.ioapic
    BY <1>0, <2>2, PutLapicType
  <2>6. Nests(l, e)
    BY <2>2 DEF Nests, Grows
  <2>. QED BY <2>1, <2>4, <2>5, <2>6 DEF l, LocalStep
<1>2. CASE ~(v <= 15) /\ v \in l.InterruptRequestRegister
  <2>1. ApicSetIrq(m, v, level) = m
    BY <1>2 DEF ApicSetIrq
  <2>2. Nests(l, l)
    BY DEF Nests, Grows
  <2>. QED BY <2>1, <2>2 DEF LocalStep
<1>3. CASE ~(v <= 15) /\ v \notin l.InterruptRequestRegister
  <2>1. ApicSetIrq(m, v, level) = ApicService(PutLapic(m, r))
    BY <1>3 DEF ApicSetIrq
  <2>2. r \in LAPIC /\ Grows(l, r)
    <3>1. v > 15
      BY <1>3 DEF Vector
    <3>. QED BY <1>0, <3>1, RequestedType
  <2>. HIDE DEF r, l
  <2>3. Serviceable(PutLapic(m, r))
    BY <2>2, GrowsServiceable DEF Grows, Good, l
  <2>4. PutLapic(m, r).lapic = r /\ PutLapic(m, r).ioapic = m.ioapic
    BY <1>0, <2>2, PutLapicType
  <2>. QED BY <2>1, <2>2, <2>3, <2>4, ServiceGood DEF Nests, l, LocalStep
<1>. QED BY <1>1, <1>2, <1>3

\* A write that touches neither the priorities nor the I/O APIC.
LEMMA PlainWrite ==
    ASSUME NEW m, Good(m), NEW k \in LAPIC,
           Irr(k) = Irr(m.lapic), Isr(k) = Isr(m.lapic),
           k.TaskPriority = m.lapic.TaskPriority
    PROVE  LocalStep(m, PutLapic(m, k))
<1>1. m \in MACHINE /\ m.lapic \in LAPIC
  BY MachineFields DEF Good, Serviceable
<1>2. m.lapic.TaskPriority <= k.TaskPriority
  BY <1>1, PrioritiesType
<1>3. Good(PutLapic(m, k))
  BY <1>2, KeepsGood
<1>4. PutLapic(m, k).lapic = k /\ PutLapic(m, k).ioapic = m.ioapic
  BY <1>1, PutLapicType
<1>5. Nests(m.lapic, k)
  BY DEF Nests, Grows
<1>. QED BY <1>3, <1>4, <1>5 DEF LocalStep

\* Doing nothing is a step.
LEMMA StutterStep ==
    ASSUME NEW m, Good(m)
    PROVE  LocalStep(m, m)
BY DEF LocalStep, Nests, Grows

\* A message on the bus keeps the invariant, whatever its address.
LEMMA BusDeliverGood ==
    ASSUME NEW m, Good(m), NEW v \in Vector, NEW dest, NEW logical, NEW mode,
           NEW level \in BOOLEAN
    PROVE  LocalStep(m, ApicBusDeliverInterrupt(m, v, dest, logical, mode, level))
<1>. DEFINE n == ApicBusDeliverInterrupt(m, v, dest, logical, mode, level)
<1>1. n = ApicSetIrq(m, v, level) \/ n = m
  BY DEF ApicBusDeliverInterrupt
<1>. HIDE DEF n
<1>2. LocalStep(m, n)
  BY <1>1, SetIrqGood, StutterStep
<1>. QED BY <1>2 DEF n

\* An inter-processor interrupt keeps the invariant, whatever its shorthand.
LEMMA SendIpiGood ==
    ASSUME NEW m, Good(m), NEW v \in Vector, NEW logical, NEW mode,
           NEW level \in BOOLEAN, NEW shorthand
    PROVE  LocalStep(m, ApicSendIpi(m, v, logical, mode, level, shorthand))
<1>. DEFINE n == ApicSendIpi(m, v, logical, mode, level, shorthand)
            e == Error(m.lapic, "TX_ACCEPT_ERR")
<1>1. m.lapic \in LAPIC
  BY MachineFields DEF Good, Serviceable
<1>2. n = ApicSetIrq(m, v, level) \/ n = m \/ n = PutLapic(m, e)
  <2>1. CASE IpiReaches(m.lapic, logical, mode, shorthand)
    BY <2>1 DEF ApicSendIpi
  <2>2. CASE ~IpiReaches(m.lapic, logical, mode, shorthand)
    BY <2>2 DEF ApicSendIpi
  <2>. QED BY <2>1, <2>2
<1>3. /\ e \in LAPIC /\ Irr(e) = Irr(m.lapic) /\ Isr(e) = Isr(m.lapic)
      /\ e.TaskPriority = m.lapic.TaskPriority
  BY <1>1, ErrorType DEF ERRORS
<1>. HIDE DEF n, e
<1>4. LocalStep(m, PutLapic(m, e))
  BY <1>3, PlainWrite
<1>5. LocalStep(m, n)
  BY <1>2, <1>4, SetIrqGood, StutterStep
<1>. QED BY <1>5 DEF n

\* The expiry of the APIC timer keeps the invariant.
LEMMA TimerHandlerGood ==
    ASSUME NEW m, Good(m)
    PROVE  LocalStep(m, ApicTimerHandler(m))
<1>. DEFINE l == m.lapic
            kind == IF l.LvtTimer.Masked THEN l.Timer ELSE TimerKind(l.LvtTimer)
            k == [l EXCEPT !.Timer = AfterTick(kind)]
            n == PutLapic(m, k)
            v == l.LvtTimer.Vector
            b == ApicBusDeliverInterrupt(n, v, {}, FALSE, "fixed", FALSE)
<1>1. m \in MACHINE /\ l \in LAPIC
  BY MachineFields DEF Good, Serviceable
<1>2. v \in Vector
  BY <1>1 DEF LAPIC, LVT
<1>3. AfterTick(kind) \in {"off", "one_shot", "periodic"}
  BY DEF AfterTick
<1>4. k \in LAPIC
  <2>. HIDE DEF kind, l
  <2>. QED BY <1>1, <1>3 DEF LAPIC
<1>5. Irr(k) = Irr(l) /\ Isr(k) = Isr(l) /\ k.TaskPriority = l.TaskPriority
  <2>. HIDE DEF kind, l
  <2>. QED BY <1>1 DEF LAPIC, Irr, Isr
<1>6. LocalStep(m, n) /\ n.lapic = k
  <2>. HIDE DEF k
  <2>. QED BY <1>1, <1>4, <1>5, PlainWrite, PutLapicType
<1>7. ApicTimerHandler(m) = n \/ ApicTimerHandler(m) = b
  BY DEF ApicTimerHandler
<1>. HIDE DEF n, v, k
<1>8. LocalStep(n, b)
  <2>1. Good(n)
    BY <1>6 DEF LocalStep
  <2>. QED BY <1>2, <2>1, BusDeliverGood
<1>. HIDE DEF b, l
<1>9. LocalStep(m, b)
  <2>1. Irr(n.lapic) = Irr(m.lapic) /\ Isr(n.lapic) = Isr(m.lapic)
    BY <1>5, <1>6 DEF l
  <2>. QED BY <1>6, <1>8, <2>1 DEF LocalStep, Nests, Grows, Delivers, Ends
<1>. QED BY <1>6, <1>7, <1>9

\* The acknowledge moves one vector from the request to the service register.
LEMMA AcceptedType ==
    ASSUME NEW l \in LAPIC, NEW v \in Irr(l)
    PROVE  /\ Accepted(l, v) \in LAPIC
           /\ Irr(Accepted(l, v)) = Irr(l) \ {v}
           /\ Isr(Accepted(l, v)) = Isr(l) \cup {v}
<1>1. /\ l.InterruptRequestRegister \ {v} \in SUBSET Vector
      /\ l.InterruptServiceRegister \cup {v} \in SUBSET Vector
  BY DEF LAPIC, Irr
<1>. QED BY <1>1 DEF LAPIC, Accepted, Irr, Isr

\* The acknowledge of the pending event, once the window is closed, delivers
\* the highest request into a class of its own or finds it overtaken.
LEMMA AcknowledgeGood ==
    ASSUME NEW m \in MACHINE, "LAPIC" \in m.events, m.window = FALSE,
           IrrPriority(m.lapic) > IsrPriority(m.lapic), NestedIsr(m.lapic)
    PROVE  LocalStep(m, ApicAcknowledgeInterrupt(m))
<1>. DEFINE l == m.lapic
            v == HighestVector(l.InterruptRequestRegister)
            k == Accepted(l, v)
            c == ClearLapicEvent(m)
            d == ClearLapicEvent(PutLapic(m, k))
<1>1. l \in LAPIC
  BY MachineFields
<1>2. Irr(l) \in SUBSET Vector /\ Isr(l) \in SUBSET Vector
  BY <1>1 DEF LAPIC, Irr, Isr
<1>3. Irr(l) # {}
  BY <1>1, <1>2, PriorityFacts, PrioritiesType DEF IrrPriority, Irr
<1>4. v \in Irr(l) /\ \A w \in Irr(l) : w <= v
  BY <1>2, <1>3, HighestVectorIn DEF Irr
<1>5. Class(v) = IrrPriority(l)
  BY DEF IrrPriority, ApicHighestPriority
<1>6. \A w \in Isr(l) : Class(v) > Class(w)
  <2>. TAKE w \in Isr(l)
  <2>1. Class(w) <= IsrPriority(l)
    BY <1>2, PriorityFacts DEF IsrPriority
  <2>2. Class(w) \in 0..15
    BY <1>2, ClassFacts
  <2>. QED BY <1>1, <1>5, <2>1, <2>2, PrioritiesType
<1>7. CASE Spurious(l)
  <2>1. ApicAcknowledgeInterrupt(m) = c
    BY <1>7 DEF ApicAcknowledgeInterrupt
  <2>2. ~Interrupts(l)
    BY <1>1, <1>7, InterruptsIff, PrioritiesType
  <2>3. /\ c \in MACHINE /\ c.lapic = l /\ c.ioapic = m.ioapic
        /\ "LAPIC" \notin c.events /\ c.window = FALSE
    BY EventOps
  <2>. HIDE DEF c, l
  <2>4. Good(c)
    BY <2>2, <2>3 DEF Good, Serviceable, Signalled, l
  <2>. QED BY <2>1, <2>3, <2>4 DEF Nests, Grows, l, LocalStep
<1>8. CASE ~Spurious(l)
  <2>1. ApicAcknowledgeInterrupt(m) = ApicService(d)
    BY <1>8 DEF ApicAcknowledgeInterrupt
  <2>2. k \in LAPIC /\ Irr(k) = Irr(l) \ {v} /\ Isr(k) = Isr(l) \cup {v}
    BY <1>1, <1>4, AcceptedType
  <2>3. /\ PutLapic(m, k) \in MACHINE
        /\ PutLapic(m, k).lapic = k
        /\ PutLapic(m, k).ioapic = m.ioapic
        /\ PutLapic(m, k).window = FALSE
    <3>. HIDE DEF k
    <3>. QED BY <2>2, PutLapicType
  <2>4. /\ d \in MACHINE /\ d.lapic = k /\ d.ioapic = m.ioapic
        /\ "LAPIC" \notin d.events /\ d.window = FALSE
    <3>. DEFINE n == PutLapic(m, k)
    <3>. HIDE DEF n
    <3>1. n \in MACHINE /\ n.lapic = k /\ n.ioapic = m.ioapic /\ n.window = FALSE
      BY <2>3 DEF n
    <3>2. /\ ClearLapicEvent(n) \in MACHINE
          /\ ClearLapicEvent(n).lapic = n.lapic
          /\ ClearLapicEvent(n).ioapic = n.ioapic
          /\ "LAPIC" \notin ClearLapicEvent(n).events
          /\ ClearLapicEvent(n).window = n.window
      BY <3>1, EventOps
    <3>. QED BY <3>1, <3>2 DEF n
  <2>5. NestedIsr(k)
    <3>1. \A w \in Isr(l) : Class(v) # Class(w)
      BY <1>1, <1>2, <1>5, <1>6, ClassFacts, PrioritiesType
    <3>. HIDE DEF k, v
    <3>. QED BY <2>2, <3>1 DEF NestedIsr
  <2>6. Delivers(l, k)
    <3>. HIDE DEF k, v, l
    <3>. QED BY <1>4, <1>6, <2>2 DEF Delivers
  <2>. HIDE DEF d, k, v, l
  <2>7. Serviceable(d)
    BY <2>4, <2>5 DEF Serviceable
  <2>. QED BY <2>1, <2>4, <2>6, <2>7, ServiceGood DEF Nests, l, LocalStep
<1>. QED BY <1>7, <1>8

\* A write of the task priority serves what it uncovers.
LEMMA TprGood ==
    ASSUME NEW m, Good(m), NEW tpr \in 0..15
    PROVE  LocalStep(m, WriteTpr(m, tpr))
<1>. DEFINE l == m.lapic
            k == WithTpr(l, tpr)
            n == PutLapic(m, k)
<1>1. m \in MACHINE /\ l \in LAPIC
  BY MachineFields DEF Good, Serviceable
<1>2. k \in LAPIC /\ Irr(k) = Irr(l) /\ Isr(k) = Isr(l) /\ k.TaskPriority = tpr
  <2>. HIDE DEF l
  <2>. QED BY <1>1 DEF LAPIC, WithTpr, Irr, Isr
<1>3. n.lapic = k /\ n.ioapic = m.ioapic
  BY <1>1, <1>2, PutLapicType
<1>4. Nests(l, k)
  BY <1>2 DEF Nests, Grows
<1>5. CASE l.TaskPriority > tpr
  <2>1. WriteTpr(m, tpr) = ApicService(n)
    BY <1>5 DEF WriteTpr
  <2>. HIDE DEF k, l
  <2>2. Serviceable(n)
    BY <1>2, GrowsServiceable DEF Good, l
  <2>. HIDE DEF n
  <2>. QED BY <1>3, <1>4, <2>1, <2>2, ServiceGood DEF LocalStep, l
<1>6. CASE ~(l.TaskPriority > tpr)
  <2>1. WriteTpr(m, tpr) = n
    BY <1>6 DEF WriteTpr
  <2>2. l.TaskPriority <= k.TaskPriority
    BY <1>1, <1>2, <1>6, PrioritiesType
  <2>. HIDE DEF k, l
  <2>3. Good(n)
    BY <1>2, <2>2, KeepsGood DEF l
  <2>. HIDE DEF n
  <2>. QED BY <1>3, <1>4, <2>1, <2>3 DEF LocalStep, l
<1>. QED BY <1>5, <1>6

\* The remaining registers of ApicMMIOWriteHandler disturb no priority.
LEMMA RegisterWritesGood ==
    ASSUME NEW m, Good(m)
    PROVE  /\ \A bits \in SUBSET (0..3) : LocalStep(m, WriteLdr(m, bits))
           /\ \A model \in MODELS : LocalStep(m, WriteDfr(m, model))
           /\ \A s \in SVR : LocalStep(m, ApicWriteSpuriousInterrupt(m, s.class,
                                             s.enable, s.focusDisable))
           /\ \A dest \in Destination : LocalStep(m, WriteIcrHigh(m, dest))
           /\ \A lvt \in LVT : LocalStep(m, ApicSetLvtEntry(m, lvt))
           /\ \A running \in BOOLEAN : LocalStep(m, WriteInitialCount(m, running))
           /\ LocalStep(m, WriteEsr(m))
           /\ LocalStep(m, IllegalAddress(m))
<1>. DEFINE l == m.lapic
            Same(k) == /\ k \in LAPIC
                       /\ Irr(k) = Irr(l)
                       /\ Isr(k) = Isr(l)
                       /\ k.TaskPriority = l.TaskPriority
<1>1. l \in LAPIC
  BY MachineFields DEF Good, Serviceable
<1>2. \A k : Same(k) => LocalStep(m, PutLapic(m, k))
  BY PlainWrite
<1>. HIDE DEF l
<1>3. \A bits \in SUBSET (0..3) : Same([l EXCEPT !.DestinationLogical = bits])
  BY <1>1 DEF LAPIC, Irr, Isr
<1>4. \A model \in MODELS : Same([l EXCEPT !.DestinationFormat = model])
  BY <1>1 DEF LAPIC, Irr, Isr
<1>5. ASSUME NEW s \in SVR
      PROVE  Same([l EXCEPT !.SpuriousVector = SpuriousOf(s.class),
                            !.SoftwareEnable = s.enable,
                            !.FocusDisable = s.focusDisable,
                            !.LvtTimer.Masked = @ \/ ~s.enable])
  <2>1. SpuriousOf(s.class) \in Vector /\ s.enable \in BOOLEAN
          /\ s.focusDisable \in BOOLEAN
    BY DEF SVR, SpuriousOf, Vector
  <2>2. [l.LvtTimer EXCEPT !.Masked = @ \/ ~s.enable] \in LVT
    BY <1>1 DEF LAPIC, LVT
  <2>. QED BY <1>1, <2>1, <2>2 DEF LAPIC, Irr, Isr
<1>6. \A dest \in Destination : Same([l EXCEPT !.IcrDestination = dest])
  BY <1>1 DEF LAPIC, Irr, Isr
<1>7. ASSUME NEW lvt \in LVT
      PROVE  Same([l EXCEPT
                    !.LvtTimer = [lvt EXCEPT !.Masked = @ \/ ~l.SoftwareEnable]])
  <2>1. [lvt EXCEPT !.Masked = @ \/ ~l.SoftwareEnable] \in LVT
    BY <1>1 DEF LAPIC, LVT
  <2>. QED BY <1>1, <2>1 DEF LAPIC, Irr, Isr
<1>8. ASSUME NEW running \in BOOLEAN
      PROVE  Same([l EXCEPT
                    !.Timer = IF running THEN TimerKind(l.LvtTimer) ELSE "off"])
  <2>1. (IF running THEN TimerKind(l.LvtTimer) ELSE "off")
          \in {"off", "one_shot", "periodic"}
    BY DEF TimerKind
  <2>. QED BY <1>1, <2>1 DEF LAPIC, Irr, Isr
<1>9. Same([l EXCEPT !.ErrorStatus = l.ShadowErrorStatus,
                     !.ShadowErrorStatus = {}])
  BY <1>1 DEF LAPIC, Irr, Isr
<1>10. Same(Error(l, "ILLEGAL_ADDR"))
  BY <1>1, ErrorType DEF ERRORS
<1>. HIDE DEF Same
<1>11. \A bits \in SUBSET (0..3) : LocalStep(m, WriteLdr(m, bits))
  BY <1>2, <1>3 DEF WriteLdr, l
<1>12. \A model \in MODELS : LocalStep(m, WriteDfr(m, model))
  BY <1>2, <1>4 DEF WriteDfr, l
<1>13. \A s \in SVR : LocalStep(m, ApicWriteSpuriousInterrupt(m, s.class,
                                        s.enable, s.focusDisable))
  BY <1>2, <1>5 DEF ApicWriteSpuriousInterrupt, l
<1>14. \A dest \in Destination : LocalStep(m, WriteIcrHigh(m, dest))
  BY <1>2, <1>6 DEF WriteIcrHigh, l
<1>15. \A lvt \in LVT : LocalStep(m, ApicSetLvtEntry(m, lvt))
  BY <1>2, <1>7 DEF ApicSetLvtEntry, l
<1>16. \A running \in BOOLEAN : LocalStep(m, WriteInitialCount(m, running))
  BY <1>2, <1>8 DEF WriteInitialCount, l
<1>17. LocalStep(m, WriteEsr(m))
  BY <1>2, <1>9 DEF WriteEsr, l
<1>18. LocalStep(m, IllegalAddress(m))
  BY <1>2, <1>10 DEF IllegalAddress, l
<1>. QED BY <1>11, <1>12, <1>13, <1>14, <1>15, <1>16, <1>17, <1>18
-----------------------------------------------------------------------------
\* Nothing is held back at the pins of this I/O APIC.
EdgeClear(io) ==
    \A p \in io.Irr :
        \/ io.Low[p].Masked
        \/ io.Low[p].Level
        \/ ~IsFixed(io.Low[p].Delivery, io.Low[p].Logical)

\* A call that keeps the invariant, nests and holds nothing back.
Step(m, n) ==
    /\ Good(n)
    /\ Nests(m.lapic, n.lapic)
    /\ EdgeClear(m.ioapic) => EdgeClear(n.ioapic)

\* A step of the local APIC holds nothing back at the pins.
LEMMA LocalStepIsStep ==
    ASSUME NEW m, NEW n, LocalStep(m, n)
    PROVE  Step(m, n)
BY DEF LocalStep, Step

\* Delivery, the end of an interrupt and a write make entries of entries.
LEMMA RteType ==
    ASSUME NEW rte \in RteLow
    PROVE  /\ Taken(rte) \in RteLow
           /\ Refused(rte) \in RteLow
           /\ Written(rte) \in RteLow
           /\ [rte EXCEPT !.Irr = FALSE] \in RteLow
BY DEF RteLow, Taken, Refused, Written

\* The fields of an entry that delivery leaves alone.
SameRoute(r, s) ==
    /\ r.Masked = s.Masked
    /\ r.Level = s.Level
    /\ r.Delivery = s.Delivery
    /\ r.Logical = s.Logical

\* Delivery and the end of an interrupt change only the status of an entry.
LEMMA RteRoute ==
    ASSUME NEW rte \in RteLow
    PROVE  /\ SameRoute(rte, Taken(rte))
           /\ SameRoute(rte, Refused(rte))
           /\ SameRoute(rte, [rte EXCEPT !.Irr = FALSE])
BY DEF RteLow, Taken, Refused, SameRoute

\* What the pins send adds requests of legal vectors only.
LEMMA ArrivedType ==
    ASSUME NEW l \in LAPIC, NEW io \in IOAPIC
    PROVE  Arrived(l, io) \in LAPIC /\ Grows(l, Arrived(l, io))
<1>1. \A p \in io.Irr : p \in Pin /\ io.Low[p].Vector \in Vector
  BY DEF IOAPIC, RteLow
<1>2. Fresh(l, io) \subseteq 16..255
  BY <1>1 DEF Fresh, ReachingPins, Sending, Vector
<1>3. FreshLevel(l, io) \subseteq Fresh(l, io)
  BY DEF FreshLevel
<1>. DEFINE F == Fresh(l, io)
            E == {e \in {"RECV_ILLEGAL_VECTOR"} :
                    \E p \in ReachingPins(l, io) : io.Low[p].Vector <= 15}
            T == FreshLevel(l, io)
<1>4. F \subseteq Vector /\ T \subseteq Vector /\ E \subseteq ERRORS
  BY <1>2, <1>3 DEF Vector, ERRORS
<1>5. Arrived(l, io) = [l EXCEPT !.InterruptRequestRegister = @ \cup F,
                                 !.TriggerModeRegister = (@ \ F) \cup T,
                                 !.ShadowErrorStatus = @ \cup E]
  BY DEF Arrived
<1>. HIDE DEF F, T, E
<1>6. Arrived(l, io) \in LAPIC
  <2>1. /\ l.InterruptRequestRegister \cup F \in SUBSET Vector
        /\ (l.TriggerModeRegister \ F) \cup T \in SUBSET Vector
        /\ l.ShadowErrorStatus \cup E \in SUBSET ERRORS
    BY <1>4 DEF LAPIC
  <2>. QED BY <1>5, <2>1 DEF LAPIC
<1>7. Irr(Arrived(l, io)) = Irr(l) \cup F /\ Isr(Arrived(l, io)) = Isr(l)
  BY <1>5 DEF LAPIC, Irr, Isr
<1>. QED BY <1>2, <1>6, <1>7 DEF Grows, F

\* Sending spends edge requests and keeps the route of every entry.
LEMMA SentType ==
    ASSUME NEW l, NEW io \in IOAPIC
    PROVE  /\ Sent(l, io) \in IOAPIC
           /\ Sent(l, io).Irr = io.Irr \ {p \in TakenPins(l, io) : ~io.Low[p].Level}
           /\ \A p \in Pin : SameRoute(io.Low[p], Sent(l, io).Low[p])
<1>. DEFINE I == io.Irr \ {p \in TakenPins(l, io) : ~io.Low[p].Level}
            N(p) == CASE p \in TakenPins(l, io) -> Taken(io.Low[p])
                      [] p \in RefusedPins(l, io) -> Refused(io.Low[p])
                      [] OTHER -> io.Low[p]
            Lo == [p \in Pin |-> N(p)]
<1>1. Sent(l, io) = [io EXCEPT !.Irr = I, !.Low = Lo]
  BY DEF Sent
<1>2. \A p \in Pin : io.Low[p] \in RteLow
  BY DEF IOAPIC
<1>3. \A p \in Pin : N(p) = Taken(io.Low[p]) \/ N(p) = Refused(io.Low[p])
                       \/ N(p) = io.Low[p]
  OBVIOUS
<1>. HIDE DEF N
<1>4. \A p \in Pin : N(p) \in RteLow /\ SameRoute(io.Low[p], N(p))
  <2>. TAKE p \in Pin
  <2>. DEFINE rte == io.Low[p]
  <2>1. rte \in RteLow
    BY <1>2
  <2>2. N(p) = Taken(rte) \/ N(p) = Refused(rte) \/ N(p) = rte
    BY <1>3
  <2>. HIDE DEF rte
  <2>3. SameRoute(rte, rte)
    BY DEF SameRoute
  <2>4. Taken(rte) \in RteLow /\ Refused(rte) \in RteLow
    BY <2>1, RteType
  <2>5. SameRoute(rte, Taken(rte)) /\ SameRoute(rte, Refused(rte))
    BY <2>1, RteRoute
  <2>6. N(p) \in RteLow /\ SameRoute(rte, N(p))
    BY <2>1, <2>2, <2>3, <2>4, <2>5
  <2>. QED BY <2>6 DEF rte
<1>5. I \in SUBSET Pin /\ Lo \in [Pin -> RteLow]
  BY <1>4 DEF IOAPIC
<1>6. \A p \in Pin : Lo[p] = N(p)
  OBVIOUS
<1>. HIDE DEF I, Lo
<1>7. Sent(l, io) \in IOAPIC /\ Sent(l, io).Irr = I /\ Sent(l, io).Low = Lo
  BY <1>1, <1>5 DEF IOAPIC
<1>. QED BY <1>4, <1>6, <1>7 DEF I

\* After the service of all pins no fixed edge request is left at an open one.
LEMMA SentClear ==
    ASSUME NEW l, NEW io \in IOAPIC
    PROVE  EdgeClear(Sent(l, io))
<1>. DEFINE s == Sent(l, io)
<1>. SUFFICES ASSUME NEW p \in s.Irr, ~s.Low[p].Masked, ~s.Low[p].Level,
                     IsFixed(s.Low[p].Delivery, s.Low[p].Logical)
              PROVE  FALSE
  BY DEF EdgeClear
<1>1. p \in io.Irr /\ ~(p \in TakenPins(l, io) /\ ~io.Low[p].Level)
  BY SentType
<1>2. p \in Pin
  BY <1>1 DEF IOAPIC
<1>3. ~io.Low[p].Masked /\ ~io.Low[p].Level
      /\ IsFixed(io.Low[p].Delivery, io.Low[p].Logical)
  BY <1>2, SentType DEF SameRoute
<1>4. p \in Sending(io)
  BY <1>1, <1>3 DEF Sending, Sends
<1>5. p \notin RefusedPins(l, io)
  BY <1>3 DEF RefusedPins, ApicBusFails
<1>. QED BY <1>1, <1>3, <1>4, <1>5 DEF TakenPins

\* The service of the pins nests whatever was done to the I/O APIC before.
LEMMA IoApicServiceStep ==
    ASSUME NEW m, Good(m)
    PROVE  Step(m, IoApicService(m)) /\ EdgeClear(IoApicService(m).ioapic)
<1>. DEFINE l == m.lapic
            io == m.ioapic
            k == Arrived(l, io)
            s == Sent(l, io)
            m1 == PutLapic(m, k)
            n == PutIoApic(m1, s)
<1>1. m \in MACHINE /\ l \in LAPIC /\ io \in IOAPIC
  BY MachineFields DEF Good, Serviceable
<1>2. k \in LAPIC /\ Grows(l, k)
  BY <1>1, ArrivedType
<1>3. s \in IOAPIC /\ EdgeClear(s)
  BY <1>1, SentType, SentClear
<1>4. IoApicService(m) = IF Fresh(l, io) = {} THEN n ELSE ApicService(n)
  BY DEF IoApicService
<1>5. Fresh(l, io) = {} => /\ Irr(k) = Irr(l) /\ Isr(k) = Isr(l)
                           /\ k.TaskPriority = l.TaskPriority
  <2>. HIDE DEF l, io
  <2>. QED BY <1>1 DEF Arrived, LAPIC, Irr, Isr
<1>6. l.TaskPriority \in 0..15
  BY <1>1, PrioritiesType
<1>. HIDE DEF k, s, l, io
<1>7. m1 \in MACHINE /\ m1.lapic = k
  BY <1>1, <1>2, PutLapicType
<1>8. Serviceable(m1)
  BY <1>2, GrowsServiceable DEF Good, Grows, l
<1>9. Fresh(l, io) = {} => Good(m1)
  BY <1>2, <1>5, <1>6, KeepsGood DEF l
<1>. HIDE DEF m1
<1>10. n.lapic = k /\ n.ioapic = s
  BY <1>3, <1>7, PutIoApicType
<1>11. Serviceable(n) /\ (Fresh(l, io) = {} => Good(n))
  BY <1>3, <1>8, <1>9, PutIoApicGood
<1>. HIDE DEF n
<1>12. /\ Good(IoApicService(m))
       /\ IoApicService(m).lapic = k
       /\ IoApicService(m).ioapic = s
  <2>1. CASE Fresh(l, io) = {}
    BY <1>4, <1>10, <1>11, <2>1
  <2>2. CASE Fresh(l, io) # {}
    <3>1. IoApicService(m) = ApicService(n)
      BY <1>4, <2>2
    <3>2. Good(ApicService(n)) /\ ApicService(n).lapic = n.lapic
            /\ ApicService(n).ioapic = n.ioapic
      BY <1>11, ServiceGood
    <3>. QED BY <1>10, <3>1, <3>2
  <2>. QED BY <2>1, <2>2
<1>. QED BY <1>2, <1>3, <1>12 DEF Step, Nests, l

\* The fields of the I/O APIC have their types.
LEMMA IoApicTypes ==
    ASSUME NEW io \in IOAPIC
    PROVE  /\ io.IoRegisterSelect \in 0..255
           /\ io.Irr \in SUBSET Pin
           /\ io.Low \in [Pin -> RteLow]
           /\ io.High \in [Pin -> Destination]
BY DEF IOAPIC

\* A write of the index leaves the pins alone.
LEMMA SelectType ==
    ASSUME NEW io \in IOAPIC, NEW sel \in 0..255
    PROVE  LET x == [io EXCEPT !.IoRegisterSelect = sel]
           IN  x \in IOAPIC /\ x.Irr = io.Irr /\ x.Low = io.Low
BY DEF IOAPIC

\* A change of the latched requests leaves the entries alone.
LEMMA IrrType ==
    ASSUME NEW io \in IOAPIC, NEW S \in SUBSET Pin
    PROVE  LET x == [io EXCEPT !.Irr = S]
           IN  x \in IOAPIC /\ x.Irr = S /\ x.Low = io.Low
BY DEF IOAPIC

\* A change of the low halves leaves the requests alone.
LEMMA LowType ==
    ASSUME NEW io \in IOAPIC, NEW L \in [Pin -> RteLow]
    PROVE  LET x == [io EXCEPT !.Low = L]
           IN  x \in IOAPIC /\ x.Irr = io.Irr /\ x.Low = L
BY DEF IOAPIC

\* A change of the destinations is an I/O APIC.
LEMMA HighType ==
    ASSUME NEW io \in IOAPIC, NEW H \in [Pin -> Destination]
    PROVE  [io EXCEPT !.High = H] \in IOAPIC
BY DEF IOAPIC

\* A write of the register index.
LEMMA SelectStep ==
    ASSUME NEW m, Good(m), NEW sel \in 0..255
    PROVE  Step(m, WriteSelect(m, sel))
<1>. DEFINE io == m.ioapic
            x == [io EXCEPT !.IoRegisterSelect = sel]
<1>0. m \in MACHINE
  BY DEF Good, Serviceable
<1>1. m \in MACHINE /\ io \in IOAPIC
  BY <1>0, MachineFields, Zenon
<1>2. x \in IOAPIC /\ x.Irr = io.Irr /\ x.Low = io.Low
  <2>. HIDE DEF io
  <2>. QED BY <1>1, SelectType, Zenon
<1>3. WriteSelect(m, sel) = PutIoApic(m, x)
  BY DEF WriteSelect
<1>. HIDE DEF x, io
<1>4. Good(PutIoApic(m, x))
  BY <1>2, PutIoApicGood
<1>5. PutIoApic(m, x).lapic = m.lapic /\ PutIoApic(m, x).ioapic = x
  BY <1>1, <1>2, PutIoApicType
<1>6. EdgeClear(m.ioapic) => EdgeClear(x)
  BY <1>2 DEF EdgeClear, io
<1>. QED BY <1>3, <1>4, <1>5, <1>6 DEF Step, Nests, Grows

\* Any change of the I/O APIC followed by a service of its pins.
LEMMA ChangeAndService ==
    ASSUME NEW m, Good(m), NEW x \in IOAPIC
    PROVE  Step(m, IoApicService(PutIoApic(m, x)))
<1>. DEFINE n == PutIoApic(m, x)
<1>1. m \in MACHINE
  BY DEF Good, Serviceable
<1>2. n.lapic = m.lapic
  BY <1>1, PutIoApicType
<1>3. Good(n)
  BY PutIoApicGood
<1>. HIDE DEF n
<1>4. Step(n, IoApicService(n)) /\ EdgeClear(IoApicService(n).ioapic)
  BY <1>3, IoApicServiceStep
<1>5. Step(m, IoApicService(n))
  BY <1>2, <1>4 DEF Step
<1>. QED BY <1>5 DEF n

\* Doing nothing is a step of the pair.
LEMMA StutterIsStep ==
    ASSUME NEW m, Good(m)
    PROVE  Step(m, m)
BY StutterStep, LocalStepIsStep

\* A write of the data register.
LEMMA DataStep ==
    ASSUME NEW m, Good(m), NEW low \in RteLow, NEW high \in Destination
    PROVE  Step(m, WriteData(m, low, high))
<1>. DEFINE io == m.ioapic
            p == SelectedPin(io.IoRegisterSelect)
            h == [io EXCEPT !.High = [@ EXCEPT ![p] = high]]
            w == PutLow(io, p, Written(low))
<1>1. io \in IOAPIC
  BY MachineFields DEF Good, Serviceable
<1>2. CASE p \notin Pin
  <2>1. WriteData(m, low, high) = m
    BY <1>2 DEF WriteData
  <2>. QED BY <2>1, StutterIsStep
<1>3. CASE p \in Pin
  <2>1. \/ WriteData(m, low, high) = m
        \/ WriteData(m, low, high) = IoApicService(PutIoApic(m, h))
        \/ WriteData(m, low, high) = IoApicService(PutIoApic(m, w))
    BY DEF WriteData
  <2>2. Written(low) \in RteLow
    BY DEF Written, RteLow
  <2>3. h \in IOAPIC /\ w \in IOAPIC
    <3>. HIDE DEF p, io
    <3>. DEFINE H == [io.High EXCEPT ![p] = high]
                L == [io.Low EXCEPT ![p] = Written(low)]
    <3>1. io.High \in [Pin -> Destination] /\ io.Low \in [Pin -> RteLow]
      BY <1>1, IoApicTypes
    <3>2. H \in [Pin -> Destination]
      BY <1>3, <3>1
    <3>3. L \in [Pin -> RteLow]
      BY <1>3, <2>2, <3>1
    <3>4. h = [io EXCEPT !.High = H] /\ w = [io EXCEPT !.Low = L]
      BY DEF PutLow
    <3>. HIDE DEF H, L, h, w
    <3>5. h \in IOAPIC
      BY <1>1, <3>2, <3>4, HighType
    <3>6. w \in IOAPIC
      BY <1>1, <3>3, <3>4, LowType
    <3>. QED BY <3>5, <3>6
  <2>. HIDE DEF h, w
  <2>. QED BY <2>1, <2>3, ChangeAndService, StutterIsStep
<1>. QED BY <1>2, <1>3

\* A device raises a line.
LEMMA RaiseStep ==
    ASSUME NEW m, Good(m), NEW line
    PROVE  Step(m, IoApicRaiseIrq(m, line))
<1>. DEFINE io == m.ioapic
            p == PinOf(line)
            x == [io EXCEPT !.Irr = @ \cup {p}]
<1>1. io \in IOAPIC
  BY MachineFields DEF Good, Serviceable
<1>2. CASE p \notin Pin
  <2>1. IoApicRaiseIrq(m, line) = m
    BY <1>2 DEF IoApicRaiseIrq
  <2>. QED BY <2>1, StutterIsStep
<1>3. CASE p \in Pin
  <2>1. \/ IoApicRaiseIrq(m, line) = m
        \/ IoApicRaiseIrq(m, line) = IoApicService(PutIoApic(m, x))
    BY DEF IoApicRaiseIrq
  <2>2. x \in IOAPIC
    <3>. HIDE DEF p, io
    <3>. DEFINE S == io.Irr \cup {p}
    <3>1. S \in SUBSET Pin
      BY <1>1, <1>3, IoApicTypes
    <3>2. x = [io EXCEPT !.Irr = S]
      OBVIOUS
    <3>. HIDE DEF S, x
    <3>. QED BY <1>1, <3>1, <3>2, IrrType
  <2>. HIDE DEF x
  <2>. QED BY <2>1, <2>2, ChangeAndService, StutterIsStep
<1>. QED BY <1>2, <1>3

\* A device lowers a line.
LEMMA LowerStep ==
    ASSUME NEW m, Good(m), NEW line
    PROVE  Step(m, IoApicLowerIrq(m, line))
<1>. DEFINE io == m.ioapic
            p == PinOf(line)
            x == [io EXCEPT !.Irr = @ \ {p}]
<1>1. m \in MACHINE /\ io \in IOAPIC
  BY MachineFields DEF Good, Serviceable
<1>2. \/ IoApicLowerIrq(m, line) = m
      \/ IoApicLowerIrq(m, line) = PutIoApic(m, x)
  BY DEF IoApicLowerIrq
<1>3. x \in IOAPIC /\ x.Irr = io.Irr \ {p} /\ x.Low = io.Low
  <2>. HIDE DEF io, p
  <2>. DEFINE S == io.Irr \ {p}
  <2>1. S \in SUBSET Pin
    BY <1>1, IoApicTypes
  <2>2. x = [io EXCEPT !.Irr = S]
    OBVIOUS
  <2>. HIDE DEF S, x
  <2>3. x \in IOAPIC /\ x.Irr = S /\ x.Low = io.Low
    BY <1>1, <2>1, <2>2, IrrType
  <2>. QED BY <2>3 DEF S
<1>. HIDE DEF x
<1>4. Good(PutIoApic(m, x))
  BY <1>3, PutIoApicGood
<1>5. PutIoApic(m, x).lapic = m.lapic /\ PutIoApic(m, x).ioapic = x
  BY <1>1, <1>3, PutIoApicType
<1>6. EdgeClear(m.ioapic) => EdgeClear(x)
  BY <1>3 DEF EdgeClear
<1>7. Step(m, PutIoApic(m, x))
  BY <1>4, <1>5, <1>6 DEF Step, Nests, Grows
<1>. QED BY <1>2, <1>7, StutterIsStep

\* The message of the end of an interrupt to the I/O APIC.
LEMMA ReceiveEndStep ==
    ASSUME NEW m, Good(m), NEW v
    PROVE  /\ Good(IoApicReceiveEndOfInterrupt(m, v))
           /\ IoApicReceiveEndOfInterrupt(m, v).lapic = m.lapic
           /\ EdgeClear(m.ioapic)
                => EdgeClear(IoApicReceiveEndOfInterrupt(m, v).ioapic)
<1>. DEFINE io == m.ioapic
            N(p) == IF io.Low[p].Level /\ io.Low[p].Vector = v
                    THEN [io.Low[p] EXCEPT !.Irr = FALSE] ELSE io.Low[p]
            Lo == [p \in Pin |-> N(p)]
            x == [io EXCEPT !.Low = Lo]
<1>1. m \in MACHINE /\ io \in IOAPIC
  BY MachineFields DEF Good, Serviceable
<1>2. IoApicReceiveEndOfInterrupt(m, v) = PutIoApic(m, x)
  BY DEF IoApicReceiveEndOfInterrupt
<1>3. \A p \in Pin : N(p) \in RteLow /\ SameRoute(io.Low[p], N(p))
  <2>. TAKE p \in Pin
  <2>. DEFINE rte == io.Low[p]
  <2>1. rte \in RteLow
    BY <1>1, IoApicTypes
  <2>2. N(p) = [rte EXCEPT !.Irr = FALSE] \/ N(p) = rte
    OBVIOUS
  <2>. HIDE DEF rte, N
  <2>3. SameRoute(rte, rte)
    BY DEF SameRoute
  <2>4. [rte EXCEPT !.Irr = FALSE] \in RteLow
    BY <2>1, RteType
  <2>5. SameRoute(rte, [rte EXCEPT !.Irr = FALSE])
    BY <2>1, RteRoute
  <2>6. N(p) \in RteLow /\ SameRoute(rte, N(p))
    BY <2>1, <2>2, <2>3, <2>4, <2>5
  <2>. QED BY <2>6 DEF rte
<1>. HIDE DEF N
<1>4. Lo \in [Pin -> RteLow] /\ \A p \in Pin : Lo[p] = N(p)
  BY <1>3
<1>. HIDE DEF Lo
<1>5. x \in IOAPIC /\ x.Irr = io.Irr /\ x.Low = Lo
  <2>. HIDE DEF io
  <2>. QED BY <1>1, <1>4, LowType
<1>6. EdgeClear(io) => EdgeClear(x)
  <2>. SUFFICES ASSUME EdgeClear(io), NEW p \in x.Irr
                PROVE  \/ x.Low[p].Masked
                       \/ x.Low[p].Level
                       \/ ~IsFixed(x.Low[p].Delivery, x.Low[p].Logical)
    BY DEF EdgeClear
  <2>. HIDE DEF x, io
  <2>1. p \in Pin /\ p \in io.Irr
    BY <1>1, <1>5, IoApicTypes
  <2>2. SameRoute(io.Low[p], x.Low[p])
    BY <1>3, <1>4, <1>5, <2>1
  <2>3. \/ io.Low[p].Masked
        \/ io.Low[p].Level
        \/ ~IsFixed(io.Low[p].Delivery, io.Low[p].Logical)
    BY <2>1 DEF EdgeClear
  <2>. QED BY <2>2, <2>3 DEF SameRoute
<1>. HIDE DEF x
<1>7. Good(PutIoApic(m, x))
  BY <1>5, PutIoApicGood
<1>8. PutIoApic(m, x).lapic = m.lapic /\ PutIoApic(m, x).ioapic = x
  BY <1>1, <1>5, PutIoApicType
<1>. QED BY <1>2, <1>6, <1>7, <1>8

\* The highest vector in service, the one ApicReceiveEOI ends, outranks the
\* others: it is the one delivered last.
LEMMA EndedEnds ==
    ASSUME NEW l \in LAPIC, NestedIsr(l)
    PROVE  LET k == Ended(l, HighestVector(l.InterruptServiceRegister))
           IN  /\ k \in LAPIC
               /\ Irr(k) = Irr(l)
               /\ Isr(k) \subseteq Isr(l)
               /\ Nests(l, k)
<1>. DEFINE v == HighestVector(Isr(l))
            k == Ended(l, v)
<1>1. /\ Isr(l) \in SUBSET Vector
      /\ l.InterruptServiceRegister \ {v} \in SUBSET Vector
      /\ l.TriggerModeRegister \ {v} \in SUBSET Vector
  BY DEF LAPIC, Isr
<1>2. k \in LAPIC
  <2>. HIDE DEF v
  <2>. QED BY <1>1 DEF Ended, LAPIC
<1>3. Irr(k) = Irr(l) /\ Isr(k) = Isr(l) \ {v}
  <2>. HIDE DEF v
  <2>. QED BY DEF Ended, LAPIC, Irr, Isr
<1>4. CASE Isr(l) = {}
  <2>. HIDE DEF k
  <2>. QED BY <1>2, <1>3, <1>4 DEF Nests, Grows, k, v, Isr
<1>5. CASE Isr(l) # {}
  <2>1. v \in Isr(l) /\ \A w \in Isr(l) : w <= v
    BY <1>1, <1>5, HighestVectorIn
  <2>. HIDE DEF v
  <2>2. \A w \in Isr(l) \ {v} : Class(v) > Class(w)
    <3>. TAKE w \in Isr(l) \ {v}
    <3>1. Class(w) # Class(v)
      BY <2>1 DEF NestedIsr
    <3>2. Class(w) <= Class(v)
      BY <1>1, <2>1, ClassFacts
    <3>3. Class(w) \in 0..15 /\ Class(v) \in 0..15
      BY <1>1, <2>1, ClassFacts
    <3>. QED BY <3>1, <3>2, <3>3
  <2>. HIDE DEF k
  <2>3. Ends(l, k)
    BY <1>3, <2>1, <2>2 DEF Ends
  <2>. QED BY <1>2, <1>3, <2>3 DEF Nests, k, v, Isr
<1>. QED BY <1>4, <1>5

\* The end of an interrupt, with or without its message to the I/O APIC.
LEMMA EoiStep ==
    ASSUME NEW m, Good(m)
    PROVE  Step(m, ApicReceiveEOI(m))
<1>. DEFINE l == m.lapic
            v == HighestVector(l.InterruptServiceRegister)
            k == Ended(l, v)
            n == IF v \in l.TriggerModeRegister
                 THEN IoApicReceiveEndOfInterrupt(m, v) ELSE m
            q == PutLapic(n, k)
<1>1. m \in MACHINE /\ l \in LAPIC /\ NestedIsr(l)
  BY MachineFields DEF Good, Serviceable
<1>2. k \in LAPIC /\ Irr(k) = Irr(l) /\ Isr(k) \subseteq Isr(l) /\ Nests(l, k)
  BY <1>1, EndedEnds
<1>3. ApicReceiveEOI(m) = m \/ ApicReceiveEOI(m) = ApicService(q)
  BY DEF ApicReceiveEOI
<1>4. /\ Good(n)
      /\ n.lapic = l
      /\ EdgeClear(m.ioapic) => EdgeClear(n.ioapic)
  BY ReceiveEndStep
<1>. HIDE DEF k, n, l
<1>5. Serviceable(q)
  BY <1>2, <1>4, GrowsServiceable DEF Good
<1>6. q.lapic = k /\ q.ioapic = n.ioapic
  BY <1>2, <1>4, PutLapicType DEF Good, Serviceable
<1>. HIDE DEF q
<1>7. Step(m, ApicService(q))
  BY <1>2, <1>4, <1>5, <1>6, ServiceGood DEF Step, l
<1>. QED BY <1>3, <1>7, StutterIsStep
-----------------------------------------------------------------------------
\* The inductive invariant.
Inv == Good(Machine) /\ EdgeClear(ioapic)

\* The machine record holds the variables.
LEMMA MachineIs ==
    /\ Machine.lapic = lapic
    /\ Machine.ioapic = ioapic
    /\ Machine.events = events
    /\ Machine.window = window
    /\ TypeOK <=> Machine \in MACHINE
BY DEF Machine, MACHINE, TypeOK, EVENTS

\* The state ApicInitialize and IoApicInitialize leave is good.
LEMMA InitInv == Init => Inv
<1>. SUFFICES ASSUME Init PROVE Inv
  OBVIOUS
<1>1. lapic \in LAPIC
  BY DEF Init, ApicReset, LAPIC, LVT, Vector, MODELS, Destination
<1>2. ioapic \in IOAPIC
  <2>1. MaskedEntry \in RteLow
    BY DEF MaskedEntry, RteLow, Vector, DELIVERY
  <2>. HIDE DEF MaskedEntry
  <2>. QED BY <2>1 DEF Init, IoApicInitialize, IOAPIC, Destination
<1>3. Machine \in MACHINE
  BY <1>1, <1>2, MachineIs DEF Init, TypeOK
<1>4. Irr(lapic) = {} /\ Isr(lapic) = {}
  BY DEF Init, ApicReset, Irr, Isr
<1>5. ~Interrupts(lapic)
  <2>1. IrrPriority(lapic) = 0
    BY <1>4, HighestVectorEmpty, ClassFacts DEF IrrPriority, ApicHighestPriority, Irr
  <2>. QED BY <1>1, <2>1, InterruptsIff, PrioritiesType
<1>6. Good(Machine)
  BY <1>3, <1>4, <1>5, MachineIs DEF Init, Good, Serviceable, Signalled, NestedIsr
<1>7. EdgeClear(ioapic)
  BY DEF EdgeClear, Init, IoApicInitialize
<1>. QED BY <1>6, <1>7 DEF Inv

\* What one step of the system does.
Steps == Step(Machine, Machine') \/ UNCHANGED vars

\* An action that stores a record leaves that record.
LEMMA BecomeIs ==
    ASSUME NEW m \in MACHINE, Become(m)
    PROVE  Machine' = m
BY DEF Become, Machine, MACHINE

\* What a step leaves is a machine.
LEMMA StepType ==
    ASSUME NEW m, NEW n, Step(m, n)
    PROVE  n \in MACHINE
BY DEF Step, Good, Serviceable

\* The window opens: the event is pending whenever the window was asked for.
LEMMA WindowStep ==
    ASSUME Inv, WindowOpen
    PROVE  Step(Machine, Machine')
<1>. DEFINE m == Machine
            c == [Machine EXCEPT !.window = FALSE]
            n == IF "LAPIC" \in events THEN ApicAcknowledgeInterrupt(c) ELSE c
<1>1. Become(n) /\ window
  BY DEF WindowOpen
<1>2. /\ m \in MACHINE
      /\ "LAPIC" \in events
      /\ IrrPriority(lapic) > IsrPriority(lapic)
      /\ NestedIsr(lapic)
  BY <1>1, MachineIs DEF Inv, Good, Serviceable
<1>3. /\ c \in MACHINE /\ c.lapic = lapic /\ c.ioapic = ioapic
      /\ c.events = events /\ c.window = FALSE
  BY <1>2 DEF Machine, MACHINE
<1>. HIDE DEF c, m
<1>4. LocalStep(c, ApicAcknowledgeInterrupt(c))
  BY <1>2, <1>3, AcknowledgeGood
<1>5. Step(c, n)
  BY <1>2, <1>4, LocalStepIsStep
<1>. HIDE DEF n
<1>6. Machine' = n
  BY <1>1, <1>5, StepType, BecomeIs
<1>. QED BY <1>3, <1>5, <1>6, MachineIs DEF Step

\* One case per action: each is a step or leaves everything alone.
LEMMA NextSteps == Inv /\ [Next]_vars => Steps
<1>. SUFFICES ASSUME Inv, [Next]_vars PROVE Steps
  OBVIOUS
<1>. DEFINE m == Machine
<1>0. Good(m)
  BY DEF Inv
<1>1. ASSUME NEW n, Step(m, n), Become(n) PROVE Steps
  <2>1. Machine' = n
    BY <1>1, StepType, BecomeIs
  <2>. QED BY <1>1, <2>1 DEF Steps
<1>. HIDE DEF m
<1>2. ASSUME NEW n, LocalStep(m, n), Become(n) PROVE Steps
  BY <1>1, <1>2, LocalStepIsStep
<1>3. CASE \E line \in Lines : DeviceRaise(line) \/ DeviceLower(line)
  BY <1>0, <1>1, <1>3, RaiseStep, LowerStep DEF DeviceRaise, DeviceLower, m
<1>4. CASE \E sel \in Selects : GuestSelect(sel)
  BY <1>0, <1>1, <1>4, SelectStep, ApicBusAssumption DEF GuestSelect, m
<1>5. CASE \E low \in RteLows, high \in RteHighs : GuestData(low, high)
  BY <1>0, <1>1, <1>5, DataStep, ApicBusAssumption DEF GuestData, m
<1>6. CASE \E tpr \in TaskPriorities : GuestTpr(tpr)
  BY <1>0, <1>2, <1>6, TprGood, ApicBusAssumption DEF GuestTpr, m
<1>7. CASE GuestEoi
  BY <1>0, <1>1, <1>7, EoiStep DEF GuestEoi, m
<1>8. CASE \E bits \in LogicalIds : GuestLdr(bits)
  BY <1>0, <1>2, <1>8, RegisterWritesGood, ApicBusAssumption DEF GuestLdr, m
<1>9. CASE \E model \in Models : GuestDfr(model)
  BY <1>0, <1>2, <1>9, RegisterWritesGood, ApicBusAssumption DEF GuestDfr, m
<1>10. CASE \E s \in SpuriousWrites : GuestSvr(s)
  BY <1>0, <1>2, <1>10, RegisterWritesGood, ApicBusAssumption DEF GuestSvr, m
<1>11. CASE \E dest \in IpiDestinations : GuestIcrHigh(dest)
  BY <1>0, <1>2, <1>11, RegisterWritesGood, ApicBusAssumption DEF GuestIcrHigh, m
<1>12. CASE \E i \in Ipis : GuestIcrLow(i)
  <2>1. PICK i \in Ipis : GuestIcrLow(i)
    BY <1>12
  <2>2. i.vector \in Vector /\ i.level \in BOOLEAN
    BY ApicBusAssumption DEF IPI
  <2>. QED BY <1>0, <1>2, <2>1, <2>2, SendIpiGood DEF GuestIcrLow, m
<1>13. CASE \E lvt \in TimerEntries : GuestLvtTimer(lvt)
  BY <1>0, <1>2, <1>13, RegisterWritesGood, ApicBusAssumption DEF GuestLvtTimer, m
<1>14. CASE \E running \in InitialCounts : GuestInitialCount(running)
  BY <1>0, <1>2, <1>14, RegisterWritesGood, ApicBusAssumption
     DEF GuestInitialCount, m
<1>15. CASE GuestEsr
  BY <1>0, <1>2, <1>15, RegisterWritesGood DEF GuestEsr, m
<1>16. CASE GuestIllegal
  BY <1>0, <1>2, <1>16, RegisterWritesGood DEF GuestIllegal, m
<1>17. CASE TimerExpires
  BY <1>0, <1>2, <1>17, TimerHandlerGood DEF TimerExpires, m
<1>18. CASE WindowOpen
  BY <1>18, WindowStep DEF Steps
<1>19. CASE UNCHANGED vars
  BY <1>19 DEF Steps
<1>. QED BY <1>3, <1>4, <1>5, <1>6, <1>7, <1>8, <1>9, <1>10, <1>11, <1>12,
            <1>13, <1>14, <1>15, <1>16, <1>17, <1>18, <1>19 DEF Next

\* Steps keep the invariant.
LEMMA StepsInv == Inv /\ Steps => Inv'
<1>. SUFFICES ASSUME Inv, Steps PROVE Inv'
  OBVIOUS
<1>1. CASE Step(Machine, Machine')
  <2>1. Machine'.ioapic = ioapic'
    BY DEF Machine
  <2>. QED BY <1>1, <2>1, MachineIs DEF Inv, Step
<1>2. CASE UNCHANGED vars
  BY <1>2 DEF vars, Inv, Machine
<1>. QED BY <1>1, <1>2 DEF Steps

\* The inductive invariant of the pair: the recorded event and the requested
\* window go together, stand for a request that outranks what is in service,
\* and are there whenever ApicService would record them.
THEOREM Invariance == Spec => []Inv
<1>1. Inv /\ [Next]_vars => Inv'
  BY NextSteps, StepsInv
<1>. QED BY <1>1, InitInv, PTL DEF Spec

\* Every register of both controllers keeps its domain.
THEOREM TypeCorrect == Spec => []TypeOK
<1>1. Inv => TypeOK
  BY MachineIs DEF Inv, Good, Serviceable
<1>. QED BY <1>1, Invariance, PTL

\* No lost wake-up, for all lines, vectors and values the guest writes: the
\* early return of ApicService (apic.c:104) never drops a request.
THEOREM LapicNoLostWakeup == Spec => []LapicSignalled
<1>1. Inv => LapicSignalled
  BY MachineIs DEF Inv, Good, Serviceable, Signalled, LapicSignalled
<1>. QED BY <1>1, Invariance, PTL

\* The event pending at a window stands for a request that outranks what is in
\* service, so ApicAcknowledgeInterrupt finds one.
THEOREM EventOutranks == Spec => []RequestOutranks
<1>1. Inv => RequestOutranks
  BY MachineIs DEF Inv, Good, Serviceable, RequestOutranks, IsrPriority, Isr
<1>. QED BY <1>1, Invariance, PTL

\* At most one vector of a class is in service, so ApicReceiveEOI ends the
\* interrupt that was delivered last.
THEOREM ServiceNests == Spec => []InServiceNested
<1>1. Inv => InServiceNested
  BY MachineIs DEF Inv, Good, Serviceable, InServiceNested, NestedIsr, Isr
<1>. QED BY <1>1, Invariance, PTL

\* No fixed edge request waits at an open pin after IoApicService.
THEOREM EdgesGoOut == Spec => []EdgeNotHeldBack
<1>1. Inv => EdgeNotHeldBack
  BY DEF Inv, EdgeClear, EdgeNotHeldBack
<1>. QED BY <1>1, Invariance, PTL

\* The local APIC, with the I/O APIC, the timer and the main loop around it,
\* implements nesting by priority.
THEOREM ImplementsNesting == Spec => NestsByPriority
<1>1. Init => Nesting!Init
  BY DEF Init, ApicReset, Nesting!Init
<1>2. Inv /\ [Next]_vars => [Nesting!Next]_(Nesting!nestingVars)
  <2>. SUFFICES ASSUME Inv, [Next]_vars
                PROVE  [Nesting!Next]_(Nesting!nestingVars)
    OBVIOUS
  <2>1. CASE Step(Machine, Machine')
    <3>1. Machine'.lapic = lapic'
      BY DEF Machine
    <3>2. Nests(lapic, lapic')
      BY <2>1, <3>1, MachineIs DEF Step
    <3>3. CASE Grows(lapic, lapic')
      BY <3>3 DEF Grows, Irr, Isr, Nesting!Next, Nesting!Arrive
    <3>4. CASE Delivers(lapic, lapic')
      BY <3>4 DEF Delivers, Irr, Isr, Class, Nesting!Next, Nesting!Deliver,
                  Nesting!Preempts
    <3>5. CASE Ends(lapic, lapic')
      BY <3>5 DEF Ends, Irr, Isr, Class, Nesting!Next, Nesting!End,
                  Nesting!Preempts
    <3>. QED BY <3>2, <3>3, <3>4, <3>5 DEF Nests
  <2>2. CASE UNCHANGED vars
    BY <2>2 DEF vars, Nesting!nestingVars
  <2>. QED BY <2>1, <2>2, NextSteps DEF Steps
<1>. QED BY <1>1, <1>2, Invariance, PTL
         DEF Spec, NestsByPriority, Nesting!Spec
-----------------------------------------------------------------------------
(***************************************************************************)
(* The joint effect of IoApicService is that of its loop.  UpTo describes  *)
(* the machine after the turns of the pins below k by the sets of pins     *)
(* among them whose messages reach, are taken and are refused; one turn    *)
(* adds its pin to these sets.                                             *)
(***************************************************************************)
Below(S, k) == {p \in S : p < k}

\* What a set R of reaching pins brings in, and what the I/O APIC is left with
\* when those of T were taken and those of X refused.
FreshOf(l, low, R) ==
    {v \in {low[p].Vector : p \in R} : v > 15} \ l.InterruptRequestRegister
LevelOf(l, low, R) ==
    {v \in FreshOf(l, low, R) :
        \E p \in R : /\ low[p].Vector = v
                     /\ low[p].Level
                     /\ \A q \in R : low[q].Vector = v => p <= q}
IllegalOf(low, R) ==
    {e \in {"RECV_ILLEGAL_VECTOR"} : \E p \in R : low[p].Vector <= 15}
With(l, irr, tmr, esr) ==
    [l EXCEPT !.InterruptRequestRegister = irr, !.TriggerModeRegister = tmr,
              !.ShadowErrorStatus = esr]
ArrivedOf(l, low, R) ==
    With(l, l.InterruptRequestRegister \cup FreshOf(l, low, R),
         (l.TriggerModeRegister \ FreshOf(l, low, R)) \cup LevelOf(l, low, R),
         l.ShadowErrorStatus \cup IllegalOf(low, R))
SentOf(io, T, X) ==
    [io EXCEPT
        !.Irr = @ \ {p \in T : ~io.Low[p].Level},
        !.Low = [p \in Pin |-> CASE p \in T -> Taken(@[p])
                                 [] p \in X -> Refused(@[p])
                                 [] OTHER -> @[p]]]

Made(m, l, io, arrived) ==
    LET n == PutIoApic(PutLapic(m, l), io)
    IN  IF arrived THEN ApicService(n) ELSE n

UpTo(m, k) ==
    LET l == m.lapic
        io == m.ioapic
        R == Below(ReachingPins(l, io), k)
    IN  Made(m, ArrivedOf(l, io.Low, R),
             SentOf(io, Below(TakenPins(l, io), k), Below(RefusedPins(l, io), k)),
             FreshOf(l, io.Low, R) # {})

\* A machine is its four fields.
LEMMA MachineEq ==
    ASSUME NEW m \in MACHINE, NEW n \in MACHINE,
           m.lapic = n.lapic, m.ioapic = n.ioapic,
           m.events = n.events, m.window = n.window
    PROVE  m = n
<1>1. \A A, B, C, W : \A x \in [lapic : A, ioapic : B, events : C, window : W] :
         x = [lapic |-> x.lapic, ioapic |-> x.ioapic, events |-> x.events,
              window |-> x.window]
  OBVIOUS
<1>2. \A x \in MACHINE : x = [lapic |-> x.lapic, ioapic |-> x.ioapic,
                              events |-> x.events, window |-> x.window]
  BY <1>1, Zenon DEF MACHINE
<1>. QED BY <1>2, Zenon

\* Whether the service after an arrival records its event.
Records(m, l, arrived) ==
    arrived /\ Interrupts(l) /\ "LAPIC" \notin m.events /\ ~m.window

\* RequestLapic adds its event.
LEMMA RequestEvents ==
    ASSUME NEW m \in MACHINE
    PROVE  RequestLapic(m).events = m.events \cup {"LAPIC"}
<1>1. \A A, B, C, W : \A x \in [lapic : A, ioapic : B, events : C, window : W] :
         \A w, e : [x EXCEPT !.window = w, !.events = e].events = e
  OBVIOUS
<1>. QED BY <1>1, Zenon DEF RequestLapic, MACHINE

\* The machine n is m with l and io in and serviced if something arrived.
IsMade(n, m, l, io, arrived) ==
    /\ n \in MACHINE
    /\ n.lapic = l
    /\ n.ioapic = io
    /\ Records(m, l, arrived) => /\ n.events = m.events \cup {"LAPIC"}
                                 /\ n.window = TRUE
    /\ ~Records(m, l, arrived) => n.events = m.events /\ n.window = m.window

\* The fields after the controllers were stored and serviced.
LEMMA MadeFields ==
    ASSUME NEW m \in MACHINE, NEW l \in LAPIC, NEW io \in IOAPIC, NEW arrived
    PROVE  IsMade(Made(m, l, io, arrived), m, l, io, arrived)
<1>. DEFINE n == PutIoApic(PutLapic(m, l), io)
<1>1. /\ n \in MACHINE /\ n.lapic = l /\ n.ioapic = io
      /\ n.events = m.events /\ n.window = m.window
  <2>. DEFINE h == PutLapic(m, l)
  <2>1. /\ h \in MACHINE /\ h.lapic = l /\ h.events = m.events
        /\ h.window = m.window
    BY PutLapicType
  <2>. HIDE DEF h
  <2>2. /\ PutIoApic(h, io) \in MACHINE /\ PutIoApic(h, io).lapic = h.lapic
        /\ PutIoApic(h, io).ioapic = io /\ PutIoApic(h, io).events = h.events
        /\ PutIoApic(h, io).window = h.window
    BY <2>1, PutIoApicType
  <2>. QED BY <2>1, <2>2, Zenon DEF h
<1>2. Made(m, l, io, arrived) = IF arrived THEN ApicService(n) ELSE n
  BY DEF Made
<1>. HIDE DEF n
<1>3. CASE Records(m, l, arrived)
  <2>1. Made(m, l, io, arrived) = RequestLapic(n)
    BY <1>1, <1>2, <1>3, Zenon DEF Records, ApicService
  <2>2. RequestLapic(n).events = n.events \cup {"LAPIC"}
    BY <1>1, RequestEvents
  <2>3. /\ RequestLapic(n) \in MACHINE /\ RequestLapic(n).lapic = n.lapic
        /\ RequestLapic(n).ioapic = n.ioapic /\ RequestLapic(n).window = TRUE
    BY <1>1, EventOps
  <2>. QED BY <1>1, <1>3, <2>1, <2>2, <2>3, Zenon DEF IsMade
<1>4. CASE ~Records(m, l, arrived)
  <2>1. Made(m, l, io, arrived) = n
    BY <1>1, <1>2, <1>4, Zenon DEF Records, ApicService
  <2>. QED BY <1>1, <1>4, <2>1, Zenon DEF IsMade
<1>. QED BY <1>3, <1>4, Zenon

\* Storing once more, without and with a service, is storing the last value
\* only, if the second local APIC interrupts whenever the first one does.
MadeTwice(m, l, k, io, jo, arrived) ==
    /\ PutIoApic(Made(m, l, io, arrived), jo) = Made(m, l, jo, arrived)
    /\ (Interrupts(l) <=> Interrupts(k)) =>
            PutLapic(Made(m, l, io, arrived), k) = Made(m, k, io, arrived)
    /\ (Interrupts(l) => Interrupts(k)) =>
            ApicService(PutLapic(Made(m, l, io, arrived), k)) = Made(m, k, io, TRUE)

\* What two services record, the second one never undoing the first.
LEMMA MadeAgain ==
    ASSUME NEW m \in MACHINE, NEW l \in LAPIC, NEW k \in LAPIC,
           NEW io \in IOAPIC, NEW jo \in IOAPIC, NEW arrived
    PROVE  MadeTwice(m, l, k, io, jo, arrived)
<1>. DEFINE n == Made(m, l, io, arrived)
            a == Made(m, l, jo, arrived)
            b == Made(m, k, io, arrived)
            c == Made(m, k, io, TRUE)
<1>0. /\ IsMade(n, m, l, io, arrived) /\ IsMade(a, m, l, jo, arrived)
      /\ IsMade(b, m, k, io, arrived) /\ IsMade(c, m, k, io, TRUE)
  BY MadeFields
<1>. HIDE DEF n, a, b, c
<1>1. n \in MACHINE /\ n.lapic = l /\ n.ioapic = io
  BY <1>0, Zenon DEF IsMade
<1>2. a \in MACHINE /\ a.lapic = l /\ a.ioapic = jo
  BY <1>0, Zenon DEF IsMade
<1>3. b \in MACHINE /\ b.lapic = k /\ b.ioapic = io
  BY <1>0, Zenon DEF IsMade
<1>4. c \in MACHINE /\ c.lapic = k /\ c.ioapic = io
  BY <1>0, Zenon DEF IsMade
<1>5. /\ Records(m, l, arrived) => n.events = m.events \cup {"LAPIC"} /\ n.window = TRUE
      /\ ~Records(m, l, arrived) => n.events = m.events /\ n.window = m.window
  BY <1>0, Zenon DEF IsMade
<1>6. /\ Records(m, l, arrived) => a.events = m.events \cup {"LAPIC"} /\ a.window = TRUE
      /\ ~Records(m, l, arrived) => a.events = m.events /\ a.window = m.window
  BY <1>0, Zenon DEF IsMade
<1>7. /\ Records(m, k, arrived) => b.events = m.events \cup {"LAPIC"} /\ b.window = TRUE
      /\ ~Records(m, k, arrived) => b.events = m.events /\ b.window = m.window
  BY <1>0, Zenon DEF IsMade
<1>8. /\ Records(m, k, TRUE) => c.events = m.events \cup {"LAPIC"} /\ c.window = TRUE
      /\ ~Records(m, k, TRUE) => c.events = m.events /\ c.window = m.window
  BY <1>0, Zenon DEF IsMade
<1>9. PutIoApic(n, jo) = a
  <2>1. /\ PutIoApic(n, jo) \in MACHINE /\ PutIoApic(n, jo).lapic = l
        /\ PutIoApic(n, jo).ioapic = jo /\ PutIoApic(n, jo).events = n.events
        /\ PutIoApic(n, jo).window = n.window
    BY <1>1, PutIoApicType, Zenon
  <2>2. n.events = a.events /\ n.window = a.window
    BY <1>5, <1>6, Zenon
  <2>. QED BY <1>2, <2>1, <2>2, MachineEq, Zenon
<1>10. /\ PutLapic(n, k) \in MACHINE /\ PutLapic(n, k).lapic = k
       /\ PutLapic(n, k).ioapic = io /\ PutLapic(n, k).events = n.events
       /\ PutLapic(n, k).window = n.window
  BY <1>1, PutLapicType, Zenon
<1>11. ASSUME Interrupts(l) <=> Interrupts(k)
       PROVE  PutLapic(n, k) = b
  <2>1. Records(m, l, arrived) <=> Records(m, k, arrived)
    BY <1>11, Zenon DEF Records
  <2>2. n.events = b.events /\ n.window = b.window
    BY <1>5, <1>7, <2>1, Zenon
  <2>. QED BY <1>3, <1>10, <2>2, MachineEq, Zenon
<1>12. ASSUME Interrupts(l) => Interrupts(k)
       PROVE  ApicService(PutLapic(n, k)) = c
  <2>. DEFINE h == PutLapic(n, k)
  <2>0. h = PutLapic(n, k)
    OBVIOUS
  <2>. HIDE DEF h
  <2>1. CASE Records(m, l, arrived)
    <3>1. h.events = m.events \cup {"LAPIC"} /\ h.window = TRUE
      BY <1>5, <1>10, <2>0, <2>1, Zenon
    <3>2. ApicService(h) = h
      BY <3>1, Zenon DEF ApicService
    <3>3. Records(m, k, TRUE)
      BY <1>12, <2>1, Zenon DEF Records
    <3>. QED BY <1>4, <1>8, <1>10, <2>0, <3>1, <3>2, <3>3, MachineEq, Zenon
  <2>2. CASE ~Records(m, l, arrived)
    <3>1. h.events = m.events /\ h.window = m.window /\ h.lapic = k
      BY <1>5, <1>10, <2>0, <2>2, Zenon
    <3>2. CASE Records(m, k, TRUE)
      <4>1. ApicService(h) = RequestLapic(h)
        BY <3>1, <3>2, Zenon DEF ApicService, Records
      <4>2. h \in MACHINE
        BY <1>10, <2>0, Zenon
      <4>3. RequestLapic(h).events = h.events \cup {"LAPIC"}
        BY <4>2, RequestEvents
      <4>4. /\ RequestLapic(h) \in MACHINE /\ RequestLapic(h).lapic = k
            /\ RequestLapic(h).ioapic = io /\ RequestLapic(h).window = TRUE
        BY <1>10, <2>0, <4>2, EventOps, Zenon
      <4>5. RequestLapic(h).events = c.events /\ RequestLapic(h).window = c.window
        BY <1>8, <3>1, <3>2, <4>3, <4>4, Zenon
      <4>6. RequestLapic(h) = c
        BY <1>4, <4>4, <4>5, MachineEq, Zenon
      <4>. QED BY <2>0, <4>1, <4>6, Zenon
    <3>3. CASE ~Records(m, k, TRUE)
      <4>1. ApicService(h) = h
        BY <3>1, <3>3, Zenon DEF ApicService, Records
      <4>2. h.events = c.events /\ h.window = c.window
        BY <1>8, <3>1, <3>3, Zenon
      <4>3. h = c
        BY <1>4, <1>10, <2>0, <4>2, MachineEq, Zenon
      <4>. QED BY <2>0, <4>1, <4>3, Zenon
    <3>. QED BY <3>2, <3>3, Zenon
  <2>. QED BY <2>1, <2>2, Zenon
<1>. QED BY <1>9, <1>11, <1>12, Zenon DEF MadeTwice, n, a, b, c

\* The registers arrivals change, set twice, hold what they were set to last.
LEMMA WithFields ==
    ASSUME NEW l \in LAPIC, NEW a \in SUBSET Vector, NEW t \in SUBSET Vector,
           NEW e \in SUBSET ERRORS
    PROVE  /\ With(l, a, t, e) \in LAPIC
           /\ With(l, a, t, e).InterruptRequestRegister = a
           /\ With(l, a, t, e).TriggerModeRegister = t
           /\ With(l, a, t, e).ShadowErrorStatus = e
           /\ With(l, a, t, e).InterruptServiceRegister = l.InterruptServiceRegister
           /\ With(l, a, t, e).TaskPriority = l.TaskPriority
           /\ With(l, a, t, e).DestinationFormat = l.DestinationFormat
           /\ With(l, a, t, e).DestinationLogical = l.DestinationLogical
           /\ With(l, a, t, e).FocusDisable = l.FocusDisable
<1>1. /\ With(l, a, t, e) \in LAPIC
      /\ With(l, a, t, e).InterruptRequestRegister = a
      /\ With(l, a, t, e).TriggerModeRegister = t
      /\ With(l, a, t, e).ShadowErrorStatus = e
      /\ With(l, a, t, e).InterruptServiceRegister = l.InterruptServiceRegister
      /\ With(l, a, t, e).TaskPriority = l.TaskPriority
      /\ With(l, a, t, e).DestinationFormat = l.DestinationFormat
      /\ With(l, a, t, e).DestinationLogical = l.DestinationLogical
  BY DEF With, LAPIC
<1>2. With(l, a, t, e).FocusDisable = l.FocusDisable
  BY Zenon DEF With, LAPIC
<1>. QED BY <1>1, <1>2, Zenon

\* What a set of pins brings in are legal vectors, some of them by level.
LEMMA FreshFacts ==
    ASSUME NEW l \in LAPIC, NEW low \in [Pin -> RteLow], NEW R \in SUBSET Pin
    PROVE  /\ FreshOf(l, low, R) \in SUBSET Vector
           /\ LevelOf(l, low, R) \subseteq FreshOf(l, low, R)
           /\ IllegalOf(low, R) \in SUBSET ERRORS
           /\ ArrivedOf(l, low, R) \in LAPIC
<1>1. \A q \in R : low[q].Vector \in Vector
  BY DEF RteLow
<1>2. FreshOf(l, low, R) \in SUBSET Vector
  BY <1>1 DEF FreshOf
<1>3. LevelOf(l, low, R) \subseteq FreshOf(l, low, R)
  BY DEF LevelOf
<1>4. IllegalOf(low, R) \in SUBSET ERRORS
  BY DEF IllegalOf, ERRORS
<1>5. /\ l.InterruptRequestRegister \cup FreshOf(l, low, R) \in SUBSET Vector
      /\ (l.TriggerModeRegister \ FreshOf(l, low, R)) \cup LevelOf(l, low, R)
            \in SUBSET Vector
      /\ l.ShadowErrorStatus \cup IllegalOf(low, R) \in SUBSET ERRORS
  BY <1>2, <1>3, <1>4 DEF LAPIC
<1>6. ArrivedOf(l, low, R) \in LAPIC
  BY <1>5, WithFields DEF ArrivedOf
<1>. QED BY <1>2, <1>3, <1>4, <1>6

\* The three registers once the pins of R arrived, and what stays of the rest.
LEMMA ArrivedFields ==
    ASSUME NEW l \in LAPIC, NEW low \in [Pin -> RteLow], NEW R \in SUBSET Pin
    PROVE  LET k == ArrivedOf(l, low, R)
               F == FreshOf(l, low, R)
           IN  /\ k.InterruptRequestRegister = l.InterruptRequestRegister \cup F
               /\ k.TriggerModeRegister
                    = (l.TriggerModeRegister \ F) \cup LevelOf(l, low, R)
               /\ k.ShadowErrorStatus = l.ShadowErrorStatus \cup IllegalOf(low, R)
               /\ k.InterruptServiceRegister = l.InterruptServiceRegister
               /\ k.TaskPriority = l.TaskPriority
               /\ k.DestinationFormat = l.DestinationFormat
               /\ k.DestinationLogical = l.DestinationLogical
               /\ k.FocusDisable = l.FocusDisable
<1>1. /\ l.InterruptRequestRegister \cup FreshOf(l, low, R) \in SUBSET Vector
      /\ (l.TriggerModeRegister \ FreshOf(l, low, R)) \cup LevelOf(l, low, R)
            \in SUBSET Vector
      /\ l.ShadowErrorStatus \cup IllegalOf(low, R) \in SUBSET ERRORS
  BY FreshFacts DEF LAPIC
<1>. QED BY <1>1, WithFields DEF ArrivedOf

\* Setting the registers again forgets the first setting.
LEMMA WithAgain ==
    ASSUME NEW l \in LAPIC, NEW a \in SUBSET Vector, NEW t \in SUBSET Vector,
           NEW e \in SUBSET ERRORS
    PROVE  Error(With(l, a, t, e), "RECV_ILLEGAL_VECTOR")
                = With(l, a, t, e \cup {"RECV_ILLEGAL_VECTOR"})
BY DEF With, Error, LAPIC

\* One more pin, after all of R: its vector is illegal, requested already, or a
\* request of its own.
LEMMA ArriveNext ==
    ASSUME NEW l \in LAPIC, NEW low \in [Pin -> RteLow], NEW R \in SUBSET Pin,
           NEW p \in Pin, \A q \in R : q < p
    PROVE  LET k == ArrivedOf(l, low, R)
               n == ArrivedOf(l, low, R \cup {p})
               v == low[p].Vector
           IN  /\ v <= 15 =>
                    /\ n = Error(k, "RECV_ILLEGAL_VECTOR")
                    /\ FreshOf(l, low, R \cup {p}) = FreshOf(l, low, R)
               /\ ~(v <= 15) /\ v \in k.InterruptRequestRegister =>
                    /\ n = k
                    /\ FreshOf(l, low, R \cup {p}) = FreshOf(l, low, R)
               /\ ~(v <= 15) /\ v \notin k.InterruptRequestRegister =>
                    /\ n = Requested(k, v, low[p].Level)
                    /\ FreshOf(l, low, R \cup {p}) # {}
<1>. DEFINE S == R \cup {p}
            v == low[p].Vector
            F == FreshOf(l, low, R)
            G == FreshOf(l, low, S)
            L == LevelOf(l, low, R)
            M == LevelOf(l, low, S)
            I == IllegalOf(low, R)
            J == IllegalOf(low, S)
            irr == l.InterruptRequestRegister
            tmr == l.TriggerModeRegister
            k == ArrivedOf(l, low, R)
            n == ArrivedOf(l, low, S)
<1>1. /\ S \in SUBSET Pin /\ v \in Vector /\ v \in Nat
      /\ \A q \in S : low[q].Vector \in Nat
      /\ \A q \in S : low[q].Level \in BOOLEAN
      /\ \A q \in S : q \in Nat
  <2>1. S \in SUBSET Pin /\ \A q \in S : q \in Nat
    BY DEF Pin
  <2>2. \A q \in S : low[q] \in RteLow
    BY <2>1
  <2>3. \A r \in RteLow : r.Vector \in Vector /\ r.Vector \in Nat
    BY DEF RteLow, Vector
  <2>4. \A r \in RteLow : r.Level \in BOOLEAN
    BY DEF RteLow
  <2>. HIDE DEF S
  <2>5. p \in S
    BY DEF S
  <2>. QED BY <2>1, <2>2, <2>3, <2>4, <2>5, Zenon
<1>2. k.InterruptRequestRegister = irr \cup F
  BY ArrivedFields
<1>3. /\ k = With(l, irr \cup F, (tmr \ F) \cup L, l.ShadowErrorStatus \cup I)
      /\ n = With(l, irr \cup G, (tmr \ G) \cup M, l.ShadowErrorStatus \cup J)
  BY DEF ArrivedOf
<1>4. /\ F \in SUBSET Vector /\ G \in SUBSET Vector
      /\ L \subseteq F /\ M \subseteq G
      /\ I \in SUBSET ERRORS /\ J \in SUBSET ERRORS
  BY <1>1, FreshFacts
<1>5. /\ irr \cup F \in SUBSET Vector /\ (tmr \ F) \cup L \in SUBSET Vector
      /\ l.ShadowErrorStatus \cup I \in SUBSET ERRORS
  BY <1>4 DEF LAPIC
<1>6. G = IF v > 15 /\ v \notin irr THEN F \cup {v} ELSE F
  BY DEF FreshOf
<1>7. ASSUME NEW w \in F
      PROVE  w \in M <=> w \in L
  <2>1. PICK q \in R : low[q].Vector = w
    BY DEF FreshOf
  <2>2. w \in G
    BY <1>6
  <2>3. q < p /\ ~(p <= q)
    BY <1>1, <2>1
  <2>4. ASSUME w \in M PROVE w \in L
    <3>1. PICK r \in S : /\ low[r].Vector = w /\ low[r].Level
                         /\ \A u \in S : low[u].Vector = w => r <= u
      BY <2>4 DEF LevelOf
    <3>2. r \in R
      BY <2>1, <2>3, <3>1
    <3>. QED BY <3>1, <3>2 DEF LevelOf
  <2>5. ASSUME w \in L PROVE w \in M
    <3>1. PICK r \in R : /\ low[r].Vector = w /\ low[r].Level
                         /\ \A u \in R : low[u].Vector = w => r <= u
      BY <2>5 DEF LevelOf
    <3>2. r <= p
      BY <1>1, <3>1
    <3>. QED BY <2>2, <3>1, <3>2 DEF LevelOf
  <2>. QED BY <2>4, <2>5
<1>8. J = IF v <= 15 THEN I \cup {"RECV_ILLEGAL_VECTOR"} ELSE I
  BY DEF IllegalOf
<1>9. ASSUME v \notin irr, v \notin F, v > 15
      PROVE  v \in M <=> low[p].Level
  <2>1. v \in G
    BY <1>6, <1>9
  <2>2. \A q \in R : low[q].Vector # v
    BY <1>9 DEF FreshOf
  <2>3. ASSUME v \in M PROVE low[p].Level
    <3>1. PICK r \in S : low[r].Vector = v /\ low[r].Level
      BY <2>3 DEF LevelOf
    <3>. QED BY <2>2, <3>1
  <2>4. ASSUME low[p].Level PROVE v \in M
    <3>1. p <= p /\ p \in S
      BY <1>1
    <3>2. \A q \in S : low[q].Vector = v => p <= q
      BY <2>2, <3>1
    <3>. QED BY <2>1, <2>4, <3>1, <3>2 DEF LevelOf
  <2>. QED BY <2>3, <2>4
<1>10. low[p].Level \in BOOLEAN
  BY <1>1
<1>. HIDE DEF F, G, L, M, I, J, k, n, v, irr, tmr, S
<1>11. CASE v <= 15
  <2>1. G = F
    BY <1>1, <1>6, <1>11
  <2>2. M = L
    BY <1>4, <1>7, <2>1
  <2>3. Error(k, "RECV_ILLEGAL_VECTOR")
          = With(l, irr \cup F, (tmr \ F) \cup L,
                 (l.ShadowErrorStatus \cup I) \cup {"RECV_ILLEGAL_VECTOR"})
    BY <1>3, <1>5, WithAgain
  <2>4. l.ShadowErrorStatus \cup J
          = (l.ShadowErrorStatus \cup I) \cup {"RECV_ILLEGAL_VECTOR"}
    BY <1>8, <1>11
  <2>5. n = Error(k, "RECV_ILLEGAL_VECTOR")
    BY <1>3, <2>1, <2>2, <2>3, <2>4
  <2>. QED BY <1>11, <2>1, <2>5 DEF k, n, v, F, G, S
<1>12. CASE ~(v <= 15) /\ v \in k.InterruptRequestRegister
  <2>1. G = F
    BY <1>1, <1>2, <1>6, <1>12
  <2>2. M = L
    BY <1>4, <1>7, <2>1
  <2>3. n = k
    BY <1>3, <1>8, <1>12, <2>1, <2>2
  <2>. QED BY <1>12, <2>1, <2>3 DEF k, n, v, F, G, S
<1>13. CASE ~(v <= 15) /\ v \notin k.InterruptRequestRegister
  <2>1. v > 15 /\ v \notin irr /\ v \notin F
    BY <1>1, <1>2, <1>13
  <2>2. G = F \cup {v}
    BY <1>6, <2>1
  <2>3. M = IF low[p].Level THEN L \cup {v} ELSE L
    BY <1>4, <1>7, <1>9, <2>1, <2>2
  <2>4. Requested(k, v, low[p].Level)
          = With(l, (irr \cup F) \cup {v},
                 IF low[p].Level THEN ((tmr \ F) \cup L) \cup {v}
                 ELSE ((tmr \ F) \cup L) \ {v},
                 l.ShadowErrorStatus \cup I)
    <3>. DEFINE level == low[p].Level
                a == irr \cup F
                t == (tmr \ F) \cup L
                e == l.ShadowErrorStatus \cup I
    <3>1. level \in BOOLEAN /\ v \in Vector
      BY <1>1, <1>10
    <3>2. k = With(l, a, t, e)
      BY <1>3
    <3>3. a \in SUBSET Vector /\ t \in SUBSET Vector /\ e \in SUBSET ERRORS
      BY <1>5
    <3>. HIDE DEF level, a, t, e
    <3>4. Requested(With(l, a, t, e), v, level)
            = With(l, a \cup {v}, IF level THEN t \cup {v} ELSE t \ {v}, e)
      BY DEF With, Requested, LAPIC
    <3>5. Requested(k, v, level)
            = With(l, a \cup {v}, IF level THEN t \cup {v} ELSE t \ {v}, e)
      BY <3>2, <3>4, Zenon
    <3>. QED BY <3>5, Zenon DEF level, a, t, e
  <2>5. (irr \cup F) \cup {v} = irr \cup G
    BY <2>2
  <2>6. (IF low[p].Level THEN ((tmr \ F) \cup L) \cup {v}
         ELSE ((tmr \ F) \cup L) \ {v}) = (tmr \ G) \cup M
    BY <1>4, <2>1, <2>2, <2>3
  <2>7. J = I
    BY <1>8, <1>13
  <2>8. n = Requested(k, v, low[p].Level)
    BY <1>3, <2>4, <2>5, <2>6, <2>7
  <2>. QED BY <1>13, <2>2, <2>8 DEF k, n, v, G, S
<1>. QED BY <1>11, <1>12, <1>13 DEF k, n, v, F, G, S

\* One more pin of the sets.
LEMMA BelowNext ==
    ASSUME NEW S \in SUBSET Pin, NEW p \in Pin
    PROVE  /\ Below(S, p) \in SUBSET Pin
           /\ p \notin Below(S, p)
           /\ \A q \in Below(S, p) : q < p
           /\ p \in S => Below(S, p + 1) = Below(S, p) \cup {p}
           /\ p \notin S => Below(S, p + 1) = Below(S, p)
<1>1. \A q \in S : q \in Int
  BY DEF Pin
<1>2. p \in Int
  BY DEF Pin
<1>3. \A q \in S : q < p + 1 <=> q < p \/ q = p
  BY <1>1, <1>2
<1>4. ~(p < p)
  BY <1>2
<1>5. p \in S => Below(S, p + 1) = Below(S, p) \cup {p}
  BY <1>3, Zenon DEF Below
<1>6. p \notin S => Below(S, p + 1) = Below(S, p)
  BY <1>3, Zenon DEF Below
<1>. QED BY <1>4, <1>5, <1>6, Zenon DEF Below

\* No pin is below 0, and all are below their number.
LEMMA BelowEnds ==
    ASSUME NEW S \in SUBSET Pin
    PROVE  Below(S, 0) = {} /\ Below(S, IOAPIC_NUM_PINS) = S
<1>1. \A q \in S : ~(q < 0) /\ q < IOAPIC_NUM_PINS
  BY DEF Pin, IOAPIC_NUM_PINS
<1>. QED BY <1>1, Zenon DEF Below

\* What the I/O APIC holds after the messages of T and X.
Entry(io, T, X, p) == CASE p \in T -> Taken(io.Low[p])
                        [] p \in X -> Refused(io.Low[p])
                        [] OTHER -> io.Low[p]
Lows(io, T, X) == [p \in Pin |-> Entry(io, T, X, p)]
Unspent(io, T) == io.Irr \ {p \in T : ~io.Low[p].Level}
Holding(io, irr, low) == [io EXCEPT !.Irr = irr, !.Low = low]
WithEntry(low, p, rte) == [low EXCEPT ![p] = rte]
Update(io, irr, p, rte) == PutLow([io EXCEPT !.Irr = irr], p, rte)

\* SentOf is made of these parts.
LEMMA SentFields ==
    ASSUME NEW io \in IOAPIC, NEW T \in SUBSET Pin, NEW X \in SUBSET Pin
    PROVE  /\ SentOf(io, T, X) \in IOAPIC
           /\ SentOf(io, T, X) = Holding(io, Unspent(io, T), Lows(io, T, X))
           /\ SentOf(io, T, X).Irr = Unspent(io, T)
           /\ SentOf(io, T, X).Low = Lows(io, T, X)
           /\ SentOf(io, T, X).High = io.High
           /\ Lows(io, T, X) \in [Pin -> RteLow]
           /\ Unspent(io, T) \in SUBSET Pin
<1>1. SentOf(io, T, X) = Holding(io, Unspent(io, T), Lows(io, T, X))
  BY DEF SentOf, Unspent, Lows, Entry, Holding
<1>2. Unspent(io, T) \in SUBSET Pin
  BY DEF Unspent, IOAPIC
<1>3. Lows(io, T, X) \in [Pin -> RteLow]
  <2>1. \A p \in Pin : /\ io.Low[p] \in RteLow /\ Taken(io.Low[p]) \in RteLow
                       /\ Refused(io.Low[p]) \in RteLow
    BY RteType DEF IOAPIC
  <2>. QED BY <2>1 DEF Lows, Entry
<1>4. ASSUME NEW a \in SUBSET Pin, NEW b \in [Pin -> RteLow]
      PROVE  /\ Holding(io, a, b) \in IOAPIC
             /\ Holding(io, a, b).Irr = a
             /\ Holding(io, a, b).Low = b
             /\ Holding(io, a, b).High = io.High
  BY DEF IOAPIC, Holding
<1>. QED BY <1>1, <1>2, <1>3, <1>4

\* Writing a request set and an entry over two others.
LEMMA PutAgain ==
    ASSUME NEW io \in IOAPIC, NEW a \in SUBSET Pin, NEW b \in [Pin -> RteLow],
           NEW c, NEW p \in Pin, NEW rte
    PROVE  Update(Holding(io, a, b), c, p, rte)
             = Holding(io, c, WithEntry(b, p, rte))
BY DEF WithEntry, Update, PutLow, IOAPIC, Holding

\* One more pin, taken or refused.
LEMMA SentNext ==
    ASSUME NEW io \in IOAPIC, NEW T \in SUBSET Pin, NEW X \in SUBSET Pin,
           NEW p \in Pin, p \notin T, p \notin X
    PROVE  LET s == SentOf(io, T, X)
               rte == io.Low[p]
           IN  /\ SentOf(io, T \cup {p}, X)
                    = Update(s, IF rte.Level THEN s.Irr ELSE s.Irr \ {p}, p,
                             Taken(rte))
               /\ SentOf(io, T, X \cup {p}) = Update(s, s.Irr, p, Refused(rte))
<1>. DEFINE s == SentOf(io, T, X)
            rte == io.Low[p]
            a == Unspent(io, T)
            b == Lows(io, T, X)
            Tp == T \cup {p}
            Xp == X \cup {p}
            c == IF rte.Level THEN s.Irr ELSE s.Irr \ {p}
<1>1. s = Holding(io, a, b) /\ s.Irr = a
  BY SentFields
<1>2. a \in SUBSET Pin /\ b \in [Pin -> RteLow]
  BY SentFields
<1>3. Unspent(io, Tp) = c
  BY <1>1 DEF Unspent
<1>4. Lows(io, Tp, X) = WithEntry(b, p, Taken(rte))
  <2>1. \A q \in Pin : Entry(io, Tp, X, q)
                        = IF q = p THEN Taken(rte) ELSE Entry(io, T, X, q)
    BY DEF Entry
  <2>. HIDE DEF rte, Tp
  <2>. QED BY <2>1 DEF Lows, WithEntry
<1>5. Lows(io, T, Xp) = WithEntry(b, p, Refused(rte))
  <2>1. \A q \in Pin : Entry(io, T, Xp, q)
                        = IF q = p THEN Refused(rte) ELSE Entry(io, T, X, q)
    BY DEF Entry
  <2>. HIDE DEF rte, Xp
  <2>. QED BY <2>1 DEF Lows, WithEntry
<1>6. Tp \in SUBSET Pin /\ Xp \in SUBSET Pin
  OBVIOUS
<1>. HIDE DEF s, rte, a, b, c, Tp, Xp
<1>7. /\ SentOf(io, Tp, X) = Holding(io, Unspent(io, Tp), Lows(io, Tp, X))
      /\ SentOf(io, T, Xp) = Holding(io, a, Lows(io, T, Xp))
  BY <1>6, SentFields DEF a
<1>8. ASSUME NEW d, NEW r
      PROVE  Update(s, d, p, r) = Holding(io, d, WithEntry(b, p, r))
  BY <1>1, <1>2, PutAgain
<1>9. SentOf(io, Tp, X)
        = Update(s, c, p, Taken(rte))
  BY <1>1, <1>3, <1>4, <1>7, <1>8
<1>10. SentOf(io, T, Xp) = Update(s, s.Irr, p, Refused(rte))
  BY <1>1, <1>5, <1>7, <1>8
<1>. QED BY <1>9, <1>10, Zenon DEF s, rte, c, Tp, Xp

\* The address of a message is matched with registers no arrival changes.
LEMMA RoutesAlike ==
    ASSUME NEW l, NEW k, k.DestinationFormat = l.DestinationFormat,
           k.DestinationLogical = l.DestinationLogical,
           k.FocusDisable = l.FocusDisable, NEW dest, NEW logical, NEW mode
    PROVE  /\ ApicBusReaches(k, dest, logical, mode)
                <=> ApicBusReaches(l, dest, logical, mode)
           /\ ApicBusFails(k, dest, logical, mode)
                <=> ApicBusFails(l, dest, logical, mode)
<1>1. ApicMatchLogicalAddress(k, dest) <=> ApicMatchLogicalAddress(l, dest)
  BY DEF ApicMatchLogicalAddress
<1>2. LowPriorityReaches(k, dest) <=> LowPriorityReaches(l, dest)
  BY <1>1, Zenon DEF LowPriorityReaches
<1>3. FixedReaches(k, dest, logical) <=> FixedReaches(l, dest, logical)
  BY <1>1, Zenon DEF FixedReaches
<1>4. ApicBusReaches(k, dest, logical, mode) <=> ApicBusReaches(l, dest, logical, mode)
  BY <1>2, <1>3, Zenon DEF ApicBusReaches
<1>. QED BY <1>4, Zenon DEF ApicBusFails

\* More requests with the same in service and the same task priority never stop
\* the processor from being interrupted.
LEMMA InterruptsGrow ==
    ASSUME NEW l \in LAPIC, NEW k \in LAPIC, Irr(l) \subseteq Irr(k),
           Isr(k) = Isr(l), k.TaskPriority = l.TaskPriority
    PROVE  Interrupts(l) => Interrupts(k)
<1>1. Irr(l) \in SUBSET Vector /\ Irr(k) \in SUBSET Vector
  BY DEF LAPIC, Irr
<1>2. IrrPriority(l) <= IrrPriority(k)
  BY <1>1, PriorityMonotone DEF IrrPriority, Irr
<1>3. IsrPriority(k) = IsrPriority(l)
  BY DEF IsrPriority
<1>. QED BY <1>2, <1>3, InterruptsIff, PrioritiesType

\* The sets of pins that IoApicService tells apart.
LEMMA PinSets ==
    ASSUME NEW l, NEW io \in IOAPIC
    PROVE  /\ Sending(io) \in SUBSET Pin
           /\ ReachingPins(l, io) \in SUBSET Pin
           /\ RefusedPins(l, io) \in SUBSET Pin
           /\ TakenPins(l, io) \in SUBSET Pin
BY DEF Sending, ReachingPins, RefusedPins, TakenPins, IOAPIC

\* The parts UpTo is made of have their types.
LEMMA UpToFields ==
    ASSUME NEW m \in MACHINE, NEW p \in Pin
    PROVE  LET l == m.lapic
               io == m.ioapic
               k == ArrivedOf(l, io.Low, Below(ReachingPins(l, io), p))
               jo == SentOf(io, Below(TakenPins(l, io), p),
                            Below(RefusedPins(l, io), p))
           IN  /\ k \in LAPIC /\ jo \in IOAPIC
               /\ UpTo(m, p) \in MACHINE
               /\ UpTo(m, p).lapic = k
               /\ UpTo(m, p).ioapic = jo
<1>. DEFINE l == m.lapic
            io == m.ioapic
            R == Below(ReachingPins(l, io), p)
            T == Below(TakenPins(l, io), p)
            X == Below(RefusedPins(l, io), p)
            f == FreshOf(l, io.Low, R) # {}
            k == ArrivedOf(l, io.Low, R)
            jo == SentOf(io, T, X)
<1>1. l \in LAPIC /\ io \in IOAPIC /\ io.Low \in [Pin -> RteLow]
  BY MachineFields DEF IOAPIC
<1>2. R \in SUBSET Pin /\ T \in SUBSET Pin /\ X \in SUBSET Pin
  <2>. HIDE DEF l, io
  <2>. QED BY <1>1, PinSets, BelowNext
<1>3. k \in LAPIC /\ jo \in IOAPIC
  <2>. HIDE DEF l, io, R, T, X
  <2>. QED BY <1>1, <1>2, FreshFacts, SentFields
<1>4. UpTo(m, p) = Made(m, k, jo, f)
  BY DEF UpTo
<1>. HIDE DEF k, jo, f
<1>5. IsMade(Made(m, k, jo, f), m, k, jo, f)
  BY <1>3, MadeFields
<1>. QED BY <1>3, <1>4, <1>5, Zenon DEF IsMade, k, jo, R, T, X, l, io

\* IoApicSetIntr for a pin that sends.
LEMMA SetIntrIs ==
    ASSUME NEW n, NEW p, Sends(n.ioapic.Low[p])
    PROVE  LET jo == n.ioapic
               rte == jo.Low[p]
               dest == jo.High[p]
               fails == ApicBusFails(n.lapic, dest, rte.Logical, rte.Delivery)
           IN  IoApicSetIntr(n, p)
                 = PutIoApic(ApicBusDeliverInterrupt(n, rte.Vector, dest,
                                rte.Logical, rte.Delivery, rte.Level),
                             Update(jo, IF rte.Level \/ fails THEN jo.Irr
                                        ELSE jo.Irr \ {p}, p,
                                    IF fails THEN Refused(rte) ELSE Taken(rte)))
BY Zenon DEF IoApicSetIntr, Update

\* One turn of the loop adds its pin.
LEMMA TurnStep ==
    ASSUME NEW m \in MACHINE, NEW p \in Pin
    PROVE  Turn(UpTo(m, p), p) = UpTo(m, p + 1)
<1>. DEFINE l == m.lapic
            io == m.ioapic
            low == io.Low
            rte == low[p]
            dest == io.High[p]
            R == Below(ReachingPins(l, io), p)
            T == Below(TakenPins(l, io), p)
            X == Below(RefusedPins(l, io), p)
            Rn == Below(ReachingPins(l, io), p + 1)
            Tn == Below(TakenPins(l, io), p + 1)
            Xn == Below(RefusedPins(l, io), p + 1)
            k == ArrivedOf(l, low, R)
            kn == ArrivedOf(l, low, Rn)
            jo == SentOf(io, T, X)
            jn == SentOf(io, Tn, Xn)
            f == FreshOf(l, low, R) # {}
            fn == FreshOf(l, low, Rn) # {}
            n == UpTo(m, p)
<1>1. l \in LAPIC /\ io \in IOAPIC /\ low \in [Pin -> RteLow] /\ rte \in RteLow
  BY MachineFields DEF IOAPIC
<1>2. /\ Sending(io) \in SUBSET Pin /\ ReachingPins(l, io) \in SUBSET Pin
      /\ RefusedPins(l, io) \in SUBSET Pin /\ TakenPins(l, io) \in SUBSET Pin
  <2>. HIDE DEF l, io
  <2>. QED BY <1>1, PinSets
<1>3. /\ R \in SUBSET Pin /\ T \in SUBSET Pin /\ X \in SUBSET Pin
      /\ p \notin T /\ p \notin X /\ \A q \in R : q < p
  <2>. HIDE DEF l, io
  <2>. QED BY <1>2, BelowNext
<1>4. /\ p \in ReachingPins(l, io) => Rn = R \cup {p}
      /\ p \notin ReachingPins(l, io) => Rn = R
      /\ p \in TakenPins(l, io) => Tn = T \cup {p}
      /\ p \notin TakenPins(l, io) => Tn = T
      /\ p \in RefusedPins(l, io) => Xn = X \cup {p}
      /\ p \notin RefusedPins(l, io) => Xn = X
  <2>. HIDE DEF l, io
  <2>. QED BY <1>2, BelowNext
<1>5. n = Made(m, k, jo, f) /\ UpTo(m, p + 1) = Made(m, kn, jn, fn)
  BY DEF UpTo
<1>6. k \in LAPIC /\ jo \in IOAPIC /\ n \in MACHINE /\ n.lapic = k /\ n.ioapic = jo
  BY UpToFields
<1>7. /\ jo.Irr = Unspent(io, T) /\ jo.Low = Lows(io, T, X) /\ jo.High = io.High
  <2>. HIDE DEF l, io, T, X
  <2>. QED BY <1>1, <1>3, SentFields
<1>8. (p \in jo.Irr <=> p \in io.Irr) /\ jo.Low[p] = rte /\ jo.High[p] = dest
  <2>. HIDE DEF jo, T, X
  <2>. QED BY <1>3, <1>7 DEF Unspent, Lows, Entry
<1>9. /\ k.InterruptServiceRegister = l.InterruptServiceRegister
      /\ k.TaskPriority = l.TaskPriority
      /\ k.DestinationFormat = l.DestinationFormat
      /\ k.DestinationLogical = l.DestinationLogical
      /\ k.FocusDisable = l.FocusDisable
  <2>. HIDE DEF l, low, R
  <2>. QED BY <1>1, <1>3, ArrivedFields
<1>. DEFINE reaches == ApicBusReaches(l, dest, rte.Logical, rte.Delivery)
            fails == ApicBusFails(l, dest, rte.Logical, rte.Delivery)
<1>10. /\ ApicBusReaches(k, dest, rte.Logical, rte.Delivery) <=> reaches
       /\ ApicBusFails(k, dest, rte.Logical, rte.Delivery) <=> fails
  <2>. HIDE DEF k, l
  <2>. QED BY <1>9, RoutesAlike
<1>11. /\ p \in Sending(io) <=> p \in io.Irr /\ Sends(rte)
       /\ p \in ReachingPins(l, io) <=> p \in Sending(io) /\ reaches
       /\ p \in RefusedPins(l, io) <=> p \in Sending(io) /\ fails
       /\ p \in TakenPins(l, io) <=> p \in Sending(io) /\ ~fails
  BY Zenon DEF Sending, ReachingPins, RefusedPins, TakenPins
<1>. DEFINE v == rte.Vector
            d == ApicBusDeliverInterrupt(n, v, dest, rte.Logical, rte.Delivery,
                                         rte.Level)
            c == IF rte.Level \/ fails THEN jo.Irr ELSE jo.Irr \ {p}
            e == IF fails THEN Refused(rte) ELSE Taken(rte)
<1>13. Turn(n, p) = IF p \in Sending(io) THEN PutIoApic(d, Update(jo, c, p, e))
                    ELSE n
  <2>. HIDE DEF l, io, low, rte, dest, R, T, X, Rn, Tn, Xn, k, kn, jo, jn, f, fn, n,
                reaches, fails, v
  <2>1. CASE p \notin jo.Irr
    BY <1>6, <1>8, <1>11, <2>1, Zenon DEF Turn
  <2>2. CASE p \in jo.Irr /\ ~Sends(rte)
    BY <1>6, <1>8, <1>11, <2>2, Zenon DEF Turn, IoApicSetIntr
  <2>3. CASE p \in jo.Irr /\ Sends(rte)
    <3>1. p \in Sending(io)
      BY <1>8, <1>11, <2>3, Zenon
    <3>2. Turn(n, p) = IoApicSetIntr(n, p)
      BY <1>6, <2>3, Zenon DEF Turn
    <3>. DEFINE F == ApicBusFails(k, dest, rte.Logical, rte.Delivery)
    <3>3. IoApicSetIntr(n, p)
            = PutIoApic(d, Update(jo, IF rte.Level \/ F THEN jo.Irr ELSE jo.Irr \ {p},
                                  p, IF F THEN Refused(rte) ELSE Taken(rte)))
      BY <1>6, <1>8, <2>3, SetIntrIs DEF v
    <3>4. F <=> fails
      BY <1>10
    <3>. HIDE DEF F
    <3>5. (IF rte.Level \/ F THEN jo.Irr ELSE jo.Irr \ {p}) = c
      BY <3>4, Zenon
    <3>6. (IF F THEN Refused(rte) ELSE Taken(rte)) = e
      BY <3>4, Zenon
    <3>. QED BY <3>1, <3>2, <3>3, <3>5, <3>6, Zenon
  <2>. QED BY <2>1, <2>2, <2>3, Zenon
<1>14. CASE p \notin Sending(io)
  <2>1. Rn = R /\ Tn = T /\ Xn = X
    BY <1>4, <1>11, <1>14, Zenon
  <2>2. UpTo(m, p + 1) = n
    BY <1>5, <2>1, Zenon
  <2>. QED BY <1>13, <1>14, <2>2, Zenon
<1>15. CASE p \in Sending(io)
  <2>1. Update(jo, c, p, e) = jn
    <3>. DEFINE a == IF rte.Level THEN jo.Irr ELSE jo.Irr \ {p}
    <3>1. /\ SentOf(io, T \cup {p}, X) = Update(jo, a, p, Taken(rte))
          /\ SentOf(io, T, X \cup {p}) = Update(jo, jo.Irr, p, Refused(rte))
      <4>. HIDE DEF l, io, T, X
      <4>. QED BY <1>1, <1>3, SentNext, Zenon
    <3>. HIDE DEF l, io, low, rte, dest, T, X, jo, fails
    <3>2. CASE fails
      <4>1. Tn = T /\ Xn = X \cup {p}
        BY <1>4, <1>11, <1>15, <3>2, Zenon
      <4>2. c = jo.Irr /\ e = Refused(rte)
        BY <3>2
      <4>. HIDE DEF c, e, a
      <4>. QED BY <3>1, <4>1, <4>2, Zenon
    <3>3. CASE ~fails
      <4>1. Tn = T \cup {p} /\ Xn = X
        BY <1>4, <1>11, <1>15, <3>3, Zenon
      <4>2. c = a /\ e = Taken(rte)
        BY <3>3
      <4>. HIDE DEF c, e, a
      <4>. QED BY <3>1, <4>1, <4>2, Zenon
    <3>. QED BY <3>2, <3>3
  <2>2. kn \in LAPIC /\ jn \in IOAPIC
    <3>1. Rn \in SUBSET Pin /\ Tn \in SUBSET Pin /\ Xn \in SUBSET Pin
      <4>. HIDE DEF l, io, R, T, X, Rn, Tn, Xn
      <4>. QED BY <1>3, <1>4
    <3>. HIDE DEF l, io, low, Rn, Tn, Xn
    <3>. QED BY <1>1, <3>1, FreshFacts, SentFields
  <2>3. d = Made(m, kn, jo, fn)
    <3>1. CASE ~reaches
      <4>. HIDE DEF l, io, low, rte, dest, R, T, X, Rn, Tn, Xn, jo, jn, n, reaches, v
      <4>1. d = n
        BY <1>6, <1>10, <3>1, Zenon DEF ApicBusDeliverInterrupt
      <4>2. Rn = R
        BY <1>4, <1>11, <1>15, <3>1, Zenon
      <4>. QED BY <1>5, <4>1, <4>2, Zenon
    <3>2. CASE reaches
      <4>1. d = ApicSetIrq(n, v, rte.Level)
        <5>. HIDE DEF l, io, low, rte, dest, k, n, reaches, v
        <5>. QED BY <1>6, <1>10, <3>2, Zenon DEF ApicBusDeliverInterrupt
      <4>2. Rn = R \cup {p}
        <5>. HIDE DEF l, io, low, rte, dest, R, Rn, reaches
        <5>. QED BY <1>4, <1>11, <1>15, <3>2, Zenon
      <4>3. /\ v <= 15 =>
                 kn = Error(k, "RECV_ILLEGAL_VECTOR")
                   /\ FreshOf(l, low, R \cup {p}) = FreshOf(l, low, R)
            /\ ~(v <= 15) /\ v \in k.InterruptRequestRegister =>
                 kn = k /\ FreshOf(l, low, R \cup {p}) = FreshOf(l, low, R)
            /\ ~(v <= 15) /\ v \notin k.InterruptRequestRegister =>
                 kn = Requested(k, v, rte.Level) /\ FreshOf(l, low, R \cup {p}) # {}
        <5>1. kn = ArrivedOf(l, low, R \cup {p})
          BY <4>2, Zenon
        <5>. HIDE DEF l, io, low, R, Rn, kn
        <5>. QED BY <1>1, <1>3, <5>1, ArriveNext
      <4>. HIDE DEF l, io, low, rte, dest, R, T, X, Rn, Tn, Xn, k, kn, jo, jn, n,
                    reaches, fails, v, d
      <4>4. CASE v <= 15
        <5>1. d = PutLapic(n, kn) /\ fn = f
          BY <1>6, <4>1, <4>2, <4>3, <4>4, Zenon DEF ApicSetIrq
        <5>2. kn = Error(k, "RECV_ILLEGAL_VECTOR")
          BY <4>3, <4>4, Zenon
        <5>3. /\ Irr(kn) = Irr(k) /\ Isr(kn) = Isr(k)
              /\ kn.TaskPriority = k.TaskPriority
          BY <1>6, <5>2, ErrorType DEF ERRORS
        <5>4. Interrupts(k) <=> Interrupts(kn)
          BY <1>6, <2>2, <5>3, InterruptsGrow
        <5>. HIDE DEF f, fn
        <5>5. PutLapic(Made(m, k, jo, f), kn) = Made(m, kn, jo, f)
          <6>1. MadeTwice(m, k, kn, jo, jn, f)
            BY <1>6, <2>2, MadeAgain
          <6>. QED BY <5>4, <6>1, Zenon DEF MadeTwice
        <5>. QED BY <1>5, <5>1, <5>5, Zenon
      <4>5. CASE ~(v <= 15) /\ v \in k.InterruptRequestRegister
        <5>1. d = n /\ fn = f /\ kn = k
          BY <1>6, <4>1, <4>2, <4>3, <4>5, Zenon DEF ApicSetIrq
        <5>. HIDE DEF f, fn
        <5>. QED BY <1>5, <5>1, Zenon
      <4>6. CASE ~(v <= 15) /\ v \notin k.InterruptRequestRegister
        <5>1. d = ApicService(PutLapic(n, kn)) /\ fn = TRUE
          BY <1>6, <4>1, <4>2, <4>3, <4>6, Zenon DEF ApicSetIrq
        <5>2. kn = Requested(k, v, rte.Level)
          BY <4>3, <4>6, Zenon
        <5>3. Grows(k, kn)
          <6>1. v \in Vector /\ rte.Level \in BOOLEAN
            BY <1>1 DEF RteLow, v
          <6>2. v > 15
            BY <4>6, <6>1 DEF Vector
          <6>. QED BY <1>6, <5>2, <6>1, <6>2, RequestedType
        <5>4. kn.TaskPriority = k.TaskPriority
          BY <1>6, <5>2 DEF Requested, LAPIC
        <5>5. Interrupts(k) => Interrupts(kn)
          BY <1>6, <2>2, <5>3, <5>4, InterruptsGrow DEF Grows
        <5>. HIDE DEF f, fn
        <5>6. ApicService(PutLapic(Made(m, k, jo, f), kn)) = Made(m, kn, jo, TRUE)
          <6>1. MadeTwice(m, k, kn, jo, jn, f)
            BY <1>6, <2>2, MadeAgain
          <6>. QED BY <5>5, <6>1, Zenon DEF MadeTwice
        <5>. QED BY <1>5, <5>1, <5>6, Zenon
      <4>. QED BY <4>4, <4>5, <4>6, Zenon
    <3>. QED BY <3>1, <3>2, Zenon
  <2>4. PutIoApic(Made(m, kn, jo, fn), jn) = Made(m, kn, jn, fn)
    <3>. HIDE DEF l, io, low, kn, jo, jn, fn
    <3>1. MadeTwice(m, kn, kn, jo, jn, fn)
      BY <1>6, <2>2, MadeAgain
    <3>. QED BY <3>1, Zenon DEF MadeTwice
  <2>. HIDE DEF n, d, c, e, jo, kn, jn, fn, l, io
  <2>. QED BY <1>5, <1>13, <1>15, <2>1, <2>3, <2>4, Zenon DEF n
<1>. HIDE DEF n, io
<1>. QED BY <1>14, <1>15, Zenon DEF n

\* Before the first turn the machine is as it was.
LEMMA UpToNone ==
    ASSUME NEW m \in MACHINE
    PROVE  UpTo(m, 0) = m
<1>. DEFINE l == m.lapic
            io == m.ioapic
            k == ArrivedOf(l, io.Low, {})
            jo == SentOf(io, {}, {})
<1>1. l \in LAPIC /\ io \in IOAPIC /\ io.Low \in [Pin -> RteLow]
  BY MachineFields DEF IOAPIC
<1>2. /\ Below(ReachingPins(l, io), 0) = {} /\ Below(TakenPins(l, io), 0) = {}
      /\ Below(RefusedPins(l, io), 0) = {}
  <2>. HIDE DEF l, io
  <2>. QED BY <1>1, PinSets, BelowEnds
<1>3. FreshOf(l, io.Low, {}) = {}
  BY DEF FreshOf
<1>4. UpTo(m, 0) = PutIoApic(PutLapic(m, k), jo)
  BY <1>2, <1>3, Zenon DEF UpTo, Made
<1>5. k = l
  <2>1. LevelOf(l, io.Low, {}) = {} /\ IllegalOf(io.Low, {}) = {}
    BY DEF LevelOf, IllegalOf
  <2>. HIDE DEF l, io
  <2>2. /\ l.InterruptRequestRegister \cup {} = l.InterruptRequestRegister
        /\ (l.TriggerModeRegister \ {}) \cup {} = l.TriggerModeRegister
        /\ l.ShadowErrorStatus \cup {} = l.ShadowErrorStatus
    BY <1>1 DEF LAPIC
  <2>3. k = With(l, l.InterruptRequestRegister, l.TriggerModeRegister,
                 l.ShadowErrorStatus)
    BY <1>3, <2>1, <2>2 DEF ArrivedOf
  <2>4. With(l, l.InterruptRequestRegister, l.TriggerModeRegister,
             l.ShadowErrorStatus) = l
    BY <1>1 DEF With, LAPIC
  <2>. QED BY <2>3, <2>4
<1>6. jo = io
  <2>. HIDE DEF io
  <2>1. \A p \in Pin : Entry(io, {}, {}, p) = io.Low[p]
    BY DEF Entry
  <2>2. Lows(io, {}, {}) = io.Low
    BY <1>1, <2>1 DEF Lows
  <2>3. Unspent(io, {}) = io.Irr
    BY <1>1 DEF Unspent, IOAPIC
  <2>4. jo = Holding(io, io.Irr, io.Low)
    BY <1>1, <2>2, <2>3, SentFields
  <2>5. Holding(io, io.Irr, io.Low) = io
    BY <1>1 DEF Holding, IOAPIC
  <2>. QED BY <2>4, <2>5
<1>7. PutIoApic(PutLapic(m, l), io) = m
  <2>1. /\ PutLapic(m, l) \in MACHINE /\ PutLapic(m, l).lapic = l
        /\ PutLapic(m, l).events = m.events /\ PutLapic(m, l).window = m.window
    BY <1>1, PutLapicType
  <2>. DEFINE h == PutLapic(m, l)
  <2>. HIDE DEF h
  <2>2. /\ PutIoApic(h, io) \in MACHINE /\ PutIoApic(h, io).lapic = h.lapic
        /\ PutIoApic(h, io).ioapic = io /\ PutIoApic(h, io).events = h.events
        /\ PutIoApic(h, io).window = h.window
    BY <1>1, <2>1, PutIoApicType DEF h
  <2>3. /\ PutIoApic(h, io).lapic = m.lapic /\ PutIoApic(h, io).ioapic = m.ioapic
        /\ PutIoApic(h, io).events = m.events
        /\ PutIoApic(h, io).window = m.window
    BY <2>1, <2>2, Zenon DEF h, l, io
  <2>4. PutIoApic(h, io) = m
    BY <2>2, <2>3, MachineEq, Zenon
  <2>. QED BY <2>4, Zenon DEF h
<1>. HIDE DEF k, jo, l, io
<1>. QED BY <1>4, <1>5, <1>6, <1>7, Zenon

\* After the last turn it is as IoApicService says.
LEMMA UpToAll ==
    ASSUME NEW m \in MACHINE
    PROVE  UpTo(m, IOAPIC_NUM_PINS) = IoApicService(m)
<1>. DEFINE l == m.lapic
            io == m.ioapic
            R == ReachingPins(l, io)
            T == TakenPins(l, io)
            X == RefusedPins(l, io)
            n == PutIoApic(PutLapic(m, Arrived(l, io)), Sent(l, io))
<1>1. io \in IOAPIC
  BY MachineFields
<1>2. /\ Below(R, IOAPIC_NUM_PINS) = R /\ Below(T, IOAPIC_NUM_PINS) = T
      /\ Below(X, IOAPIC_NUM_PINS) = X
  <2>. HIDE DEF l, io
  <2>. QED BY <1>1, PinSets, BelowEnds
<1>3. Fresh(l, io) = FreshOf(l, io.Low, R)
  BY DEF Fresh, FreshOf
<1>4. Arrived(l, io) = ArrivedOf(l, io.Low, R)
  <2>1. FreshLevel(l, io) = LevelOf(l, io.Low, R)
    BY <1>3, Zenon DEF FreshLevel, LevelOf
  <2>. QED BY <1>3, <2>1, Zenon DEF Arrived, ArrivedOf, With, IllegalOf
<1>5. Sent(l, io) = SentOf(io, T, X)
  BY Zenon DEF Sent, SentOf
<1>6. UpTo(m, IOAPIC_NUM_PINS)
        = IF FreshOf(l, io.Low, R) # {} THEN ApicService(n) ELSE n
  BY <1>2, <1>4, <1>5, Zenon DEF UpTo, Made
<1>7. IoApicService(m) = IF Fresh(l, io) = {} THEN n ELSE ApicService(n)
  BY Zenon DEF IoApicService
<1>. DEFINE F == Fresh(l, io)
<1>8. UpTo(m, IOAPIC_NUM_PINS) = IF F # {} THEN ApicService(n) ELSE n
  BY <1>3, <1>6, Zenon
<1>. HIDE DEF l, io, n, F
<1>9. CASE F = {}
  BY <1>7, <1>8, <1>9, Zenon DEF F
<1>10. CASE F # {}
  BY <1>7, <1>8, <1>10, Zenon DEF F
<1>. QED BY <1>9, <1>10, Zenon

\* The joint effect is that of the loop, from every machine.
LEMMA LoopIs ==
    ASSUME NEW m \in MACHINE
    PROVE  IoApicService(m) = Loop(m)
<1>. DEFINE K == 0..IOAPIC_NUM_PINS
            Body(g) == [k \in K |-> IF k = 0 THEN m ELSE Turn(g[k - 1], k - 1)]
            G == [k \in K |-> UpTo(m, k)]
            after == CHOOSE g : g = Body(g)
<1>1. \A k \in K : k \in Nat /\ (k # 0 => k - 1 \in Pin /\ k - 1 \in K /\ (k - 1) + 1 = k)
  BY DEF Pin, IOAPIC_NUM_PINS
<1>2. \A k \in K : UpTo(m, k) = IF k = 0 THEN m ELSE Turn(UpTo(m, k - 1), k - 1)
  <2>. HIDE DEF K
  <2>. TAKE k \in K
  <2>1. CASE k = 0
    BY <2>1, UpToNone
  <2>2. CASE k # 0
    <3>. DEFINE j == k - 1
    <3>1. j \in Pin /\ j + 1 = k
      BY <1>1, <2>2
    <3>. HIDE DEF j
    <3>2. Turn(UpTo(m, j), j) = UpTo(m, k)
      BY <3>1, TurnStep
    <3>. QED BY <2>2, <3>2 DEF j
  <2>. QED BY <2>1, <2>2
<1>3. \A k \in K : k # 0 => G[k - 1] = UpTo(m, k - 1)
  <2>. HIDE DEF K
  <2>. QED BY <1>1
<1>4. G = Body(G)
  <2>1. \A k \in K : G[k] = IF k = 0 THEN m ELSE Turn(G[k - 1], k - 1)
    <3>. HIDE DEF K
    <3>1. \A k \in K : G[k] = UpTo(m, k)
      OBVIOUS
    <3>. HIDE DEF G
    <3>. QED BY <1>2, <1>3, <3>1, Zenon
  <2>2. G = [k \in K |-> G[k]]
    OBVIOUS
  <2>. HIDE DEF G, K
  <2>. QED BY <2>1, <2>2
<1>5. after = Body(after)
  <2>. HIDE DEF G
  <2>. QED BY <1>4, Zenon
<1>. HIDE DEF after
<1>6. \A k \in K : after[k] = IF k = 0 THEN m ELSE Turn(after[k - 1], k - 1)
  <2>. HIDE DEF K
  <2>. QED BY <1>5
<1>. DEFINE Bad == {k \in K : after[k] # UpTo(m, k)}
<1>7. Bad = {}
  <2>. SUFFICES ASSUME Bad # {} PROVE FALSE
    OBVIOUS
  <2>1. Bad \subseteq Nat
    BY <1>1
  <2>2. PICK k \in Bad : \A j \in Bad : k <= j
    <3>. HIDE DEF Bad
    <3>. QED BY <2>1, LeastNatural, Zenon
  <2>3. k \in K /\ after[k] # UpTo(m, k)
    BY <2>2
  <2>4. k # 0
    BY <1>2, <1>6, <2>3
  <2>5. k - 1 \in K /\ ~(k <= k - 1)
    BY <1>1, <2>3, <2>4
  <2>6. k - 1 \notin Bad
    <3>. HIDE DEF Bad
    <3>. QED BY <2>2, <2>5
  <2>7. after[k - 1] = UpTo(m, k - 1)
    <3>. HIDE DEF K
    <3>. QED BY <2>5, <2>6
  <2>8. after[k] = UpTo(m, k)
    <3>. HIDE DEF K, Bad
    <3>. QED BY <1>2, <1>6, <2>3, <2>4, <2>7, Zenon
  <2>. QED BY <2>3, <2>8
<1>8. IOAPIC_NUM_PINS \in K
  BY DEF IOAPIC_NUM_PINS
<1>9. Loop(m) = after[IOAPIC_NUM_PINS]
  BY DEF Loop, after
<1>. HIDE DEF K
<1>. QED BY <1>7, <1>8, <1>9, UpToAll

\* The joint effect of IoApicService is that of its loop over the pins, in every
\* state and with any set of lines raised on top.
THEOREM LoopIsService == Spec => []ServiceIsLoop
<1>1. Inv => ServiceIsLoop
  <2>. SUFFICES ASSUME Inv PROVE ServiceIsLoop
    OBVIOUS
  <2>1. Machine \in MACHINE
    BY DEF Inv, Good, Serviceable
  <2>2. AllRaised \in MACHINE
    <3>1. ioapic \in IOAPIC
      BY <2>1, MachineIs, MachineFields, Zenon
    <3>. DEFINE L == {PinOf(line) : line \in Lines} \cap Pin
    <3>2. L \in SUBSET Pin
      OBVIOUS
    <3>3. AllRaised = PutIoApic(Machine, [ioapic EXCEPT !.Irr = @ \cup L])
      BY DEF AllRaised
    <3>. HIDE DEF L
    <3>4. [ioapic EXCEPT !.Irr = @ \cup L] \in IOAPIC
      BY <3>1, <3>2 DEF IOAPIC
    <3>. QED BY <2>1, <3>3, <3>4, PutIoApicType
  <2>. QED BY <2>1, <2>2, LoopIs DEF ServiceIsLoop
<1>. QED BY <1>1, Invariance, PTL
-----------------------------------------------------------------------------
(***************************************************************************)
(* The pair beside the 8259 controllers.  In IntrSystem both share the     *)
(* events and the window: the 8259 pair may ask for the window, and the    *)
(* main loop may close it while the event of the local APIC is pending.    *)
(* The proof follows the system with a machine of the pair alone, its      *)
(* shadow, that has the same controllers and at least the pending event,   *)
(* and whose window only the local APIC asks for: every handler keeps the  *)
(* shadow, and the shadow keeps the invariant of the pair.                 *)
(***************************************************************************)
CONSTANTS
    MasterOffsets, SlaveOffsets, Masks, LevelLines, Icw1Values, Icw3Values,
    Icw4Values, Ocw2Commands, Ocw3Commands, GvmAccepts
        \* what the guest writes to the pair, as in Pic

VARIABLES pic, wire, settled   \* the pair and its lines, as in Pic

S == INSTANCE IntrSystem

FIELDS == {"lapic", "ioapic", "events", "window"}

\* The machine n of the pair follows the machine m of the system.
Shadow(m, n) ==
    /\ FIELDS \subseteq DOMAIN m
    /\ FIELDS \subseteq DOMAIN n
    /\ n.lapic = m.lapic
    /\ n.ioapic = m.ioapic
    /\ "LAPIC" \in m.events => "LAPIC" \in n.events
    /\ n.window => "LAPIC" \in n.events

\* Storing the same local APIC in both.
LEMMA ShadowLapic ==
    ASSUME NEW m, NEW n, Shadow(m, n), NEW l
    PROVE  Shadow(PutLapic(m, l), PutLapic(n, l))
BY DEF Shadow, FIELDS, PutLapic

\* Storing the same I/O APIC in both.
LEMMA ShadowIoApic ==
    ASSUME NEW m, NEW n, Shadow(m, n), NEW io
    PROVE  Shadow(PutIoApic(m, io), PutIoApic(n, io))
BY DEF Shadow, FIELDS, PutIoApic

\* Closing the window of both, and clearing the event of both once the window
\* is closed.
LEMMA ShadowClosed ==
    ASSUME NEW m, NEW n, Shadow(m, n)
    PROVE  /\ Shadow([m EXCEPT !.window = FALSE], [n EXCEPT !.window = FALSE])
           /\ ~n.window => Shadow(ClearLapicEvent(m), ClearLapicEvent(n))
BY DEF Shadow, FIELDS, ClearLapicEvent

\* A service that records the event in the system finds it or records it in
\* the shadow.
LEMMA ShadowService ==
    ASSUME NEW m, NEW n, Shadow(m, n)
    PROVE  Shadow(ApicService(m), ApicService(n))
BY DEF Shadow, FIELDS, ApicService, RequestLapic

\* A vector that arrives.
LEMMA ShadowSetIrq ==
    ASSUME NEW m, NEW n, Shadow(m, n), NEW v, NEW level
    PROVE  Shadow(ApicSetIrq(m, v, level), ApicSetIrq(n, v, level))
<1>1. n.lapic = m.lapic
  BY DEF Shadow
<1>. DEFINE l == m.lapic
            e == Error(l, "RECV_ILLEGAL_VECTOR")
            r == Requested(l, v, level)
<1>2. Shadow(PutLapic(m, e), PutLapic(n, e))
  BY ShadowLapic
<1>3. Shadow(ApicService(PutLapic(m, r)), ApicService(PutLapic(n, r)))
  BY ShadowLapic, ShadowService
<1>. QED BY <1>1, <1>2, <1>3 DEF ApicSetIrq

\* An inter-processor interrupt.
LEMMA ShadowSendIpi ==
    ASSUME NEW m, NEW n, Shadow(m, n), NEW v, NEW logical, NEW mode, NEW level,
           NEW shorthand
    PROVE  Shadow(ApicSendIpi(m, v, logical, mode, level, shorthand),
                  ApicSendIpi(n, v, logical, mode, level, shorthand))
<1>1. n.lapic = m.lapic
  BY DEF Shadow
<1>. DEFINE e == Error(m.lapic, "TX_ACCEPT_ERR")
<1>2. Shadow(PutLapic(m, e), PutLapic(n, e))
  BY ShadowLapic
<1>3. Shadow(ApicSetIrq(m, v, level), ApicSetIrq(n, v, level))
  BY ShadowSetIrq
<1>. QED BY <1>1, <1>2, <1>3 DEF ApicSendIpi

\* A write of the task priority.
LEMMA ShadowTpr ==
    ASSUME NEW m, NEW n, Shadow(m, n), NEW tpr
    PROVE  Shadow(WriteTpr(m, tpr), WriteTpr(n, tpr))
<1>1. n.lapic = m.lapic
  BY DEF Shadow
<1>. DEFINE k == WithTpr(m.lapic, tpr)
<1>2. Shadow(PutLapic(m, k), PutLapic(n, k))
  BY ShadowLapic
<1>3. Shadow(ApicService(PutLapic(m, k)), ApicService(PutLapic(n, k)))
  BY <1>2, ShadowService
<1>. QED BY <1>1, <1>2, <1>3 DEF WriteTpr

\* The acknowledge, once the window is closed.
LEMMA ShadowAcknowledge ==
    ASSUME NEW m, NEW n, Shadow(m, n), ~n.window
    PROVE  Shadow(ApicAcknowledgeInterrupt(m), ApicAcknowledgeInterrupt(n))
<1>1. n.lapic = m.lapic
  BY DEF Shadow
<1>. DEFINE k == Accepted(m.lapic, HighestVector(m.lapic.InterruptRequestRegister))
            p == PutLapic(m, k)
            q == PutLapic(n, k)
<1>2. Shadow(p, q) /\ ~q.window
  <2>1. ~q.window
    BY DEF PutLapic
  <2>. QED BY <2>1, ShadowLapic
<1>. HIDE DEF p, q
<1>3. Shadow(ApicService(ClearLapicEvent(p)), ApicService(ClearLapicEvent(q)))
  BY <1>2, ShadowClosed, ShadowService
<1>4. Shadow(ClearLapicEvent(m), ClearLapicEvent(n))
  BY ShadowClosed
<1>. QED BY <1>1, <1>3, <1>4 DEF ApicAcknowledgeInterrupt, p, q

\* A service of the pins.
LEMMA ShadowPins ==
    ASSUME NEW m, NEW n, Shadow(m, n)
    PROVE  Shadow(IoApicService(m), IoApicService(n))
<1>1. n.lapic = m.lapic /\ n.ioapic = m.ioapic
  BY DEF Shadow
<1>. DEFINE l == Arrived(m.lapic, m.ioapic)
            io == Sent(m.lapic, m.ioapic)
            p == PutIoApic(PutLapic(m, l), io)
            q == PutIoApic(PutLapic(n, l), io)
<1>2. Shadow(p, q)
  <2>. HIDE DEF l, io
  <2>. QED BY ShadowLapic, ShadowIoApic
<1>3. Shadow(ApicService(p), ApicService(q))
  <2>. HIDE DEF p, q
  <2>. QED BY <1>2, ShadowService
<1>4. /\ IoApicService(m) = IF Fresh(m.lapic, m.ioapic) = {} THEN p ELSE ApicService(p)
      /\ IoApicService(n) = IF Fresh(m.lapic, m.ioapic) = {} THEN q ELSE ApicService(q)
  BY <1>1 DEF IoApicService
<1>. HIDE DEF p, q
<1>. QED BY <1>2, <1>3, <1>4

\* A write of the I/O APIC followed by a service of its pins.
LEMMA ShadowChange ==
    ASSUME NEW m, NEW n, Shadow(m, n), NEW io
    PROVE  Shadow(IoApicService(PutIoApic(m, io)), IoApicService(PutIoApic(n, io)))
BY ShadowIoApic, ShadowPins

\* The registers and the lines of the I/O APIC.
LEMMA ShadowIo ==
    ASSUME NEW m, NEW n, Shadow(m, n)
    PROVE  /\ \A sel : Shadow(WriteSelect(m, sel), WriteSelect(n, sel))
           /\ \A low, high : Shadow(WriteData(m, low, high), WriteData(n, low, high))
           /\ \A line : Shadow(IoApicRaiseIrq(m, line), IoApicRaiseIrq(n, line))
           /\ \A line : Shadow(IoApicLowerIrq(m, line), IoApicLowerIrq(n, line))
<1>1. n.ioapic = m.ioapic
  BY DEF Shadow
<1>2. ASSUME NEW sel PROVE Shadow(WriteSelect(m, sel), WriteSelect(n, sel))
  BY <1>1, ShadowIoApic DEF WriteSelect
<1>3. ASSUME NEW low, NEW high
      PROVE  Shadow(WriteData(m, low, high), WriteData(n, low, high))
  BY <1>1, ShadowChange DEF WriteData
<1>4. ASSUME NEW line PROVE Shadow(IoApicRaiseIrq(m, line), IoApicRaiseIrq(n, line))
  BY <1>1, ShadowChange DEF IoApicRaiseIrq
<1>5. ASSUME NEW line PROVE Shadow(IoApicLowerIrq(m, line), IoApicLowerIrq(n, line))
  BY <1>1, ShadowIoApic DEF IoApicLowerIrq
<1>. QED BY <1>2, <1>3, <1>4, <1>5

\* The end of an interrupt.
LEMMA ShadowEoi ==
    ASSUME NEW m, NEW n, Shadow(m, n)
    PROVE  Shadow(ApicReceiveEOI(m), ApicReceiveEOI(n))
<1>1. n.lapic = m.lapic /\ n.ioapic = m.ioapic
  BY DEF Shadow
<1>. DEFINE v == HighestVector(m.lapic.InterruptServiceRegister)
            k == Ended(m.lapic, v)
            End(x) == IF v \in m.lapic.TriggerModeRegister
                      THEN IoApicReceiveEndOfInterrupt(x, v) ELSE x
            q(x) == ApicService(PutLapic(End(x), k))
<1>2. Shadow(IoApicReceiveEndOfInterrupt(m, v), IoApicReceiveEndOfInterrupt(n, v))
  BY <1>1, ShadowIoApic DEF IoApicReceiveEndOfInterrupt
<1>3. Shadow(End(m), End(n))
  BY <1>2
<1>4. /\ ApicReceiveEOI(m) = IF v = m.lapic.SpuriousVector THEN m ELSE q(m)
      /\ ApicReceiveEOI(n) = IF v = m.lapic.SpuriousVector THEN n ELSE q(n)
  BY <1>1 DEF ApicReceiveEOI
<1>. HIDE DEF v, k, End
<1>5. Shadow(q(m), q(n))
  BY <1>3, ShadowLapic, ShadowService
<1>. HIDE DEF q
<1>. QED BY <1>4, <1>5

-----------------------------------------------------------------------------
\* What a handler of the 8259 pair leaves of a machine: the controllers beside
\* it, and the event of the local APIC, which it never records.
Beside(m, k) ==
    /\ "events" \in DOMAIN m
    /\ DOMAIN k = DOMAIN m
    /\ "lapic" \in DOMAIN m => k.lapic = m.lapic
    /\ "ioapic" \in DOMAIN m => k.ioapic = m.ioapic
    /\ "LAPIC" \in k.events => "LAPIC" \in m.events

\* The shadow of a machine is one of what a handler of the 8259 pair makes of it.
LEMMA ShadowBeside ==
    ASSUME NEW m, NEW k, NEW n, Shadow(m, n), Beside(m, k)
    PROVE  Shadow(k, n)
BY DEF Shadow, Beside, FIELDS

\* Two handlers one after the other.
LEMMA BesideAgain ==
    ASSUME NEW m, NEW k, NEW n, Beside(m, k), Beside(k, n)
    PROVE  Beside(m, n)
BY DEF Beside

\* The steps the handlers are made of.
LEMMA BesideSteps ==
    ASSUME NEW m, "events" \in DOMAIN m
    PROVE  /\ Beside(m, m)
           /\ \A i, c : Beside(m, S!Put(m, i, c))
           /\ Beside(m, S!Signal(m))
           /\ Beside(m, S!RequestWindow(m))
           /\ Beside(m, S!CloseWindow(m))
           /\ Beside(m, [m EXCEPT !.events = @ \ {"INTR"}])
<1>1. ASSUME NEW i, NEW c PROVE Beside(m, S!Put(m, i, c))
  BY DEF Beside, S!Put
<1>2. Beside(m, m)
  BY DEF Beside
<1>3. Beside(m, S!Signal(m))
  BY DEF Beside, S!Signal
<1>4. Beside(m, S!RequestWindow(m)) /\ Beside(m, S!CloseWindow(m))
  BY DEF Beside, S!RequestWindow, S!CloseWindow
<1>5. Beside(m, [m EXCEPT !.events = @ \ {"INTR"}])
  BY DEF Beside
<1>. QED BY <1>1, <1>2, <1>3, <1>4, <1>5

\* A machine with events, after a chip was stored and the event recorded.
LEMMA BesideSignal ==
    ASSUME NEW m, "events" \in DOMAIN m, NEW i, NEW c
    PROVE  /\ Beside(m, S!Put(m, i, c))
           /\ Beside(m, S!Signal(S!Put(m, i, c)))
           /\ Beside(m, S!RequestWindow(S!Signal(S!Put(m, i, c))))
<1>. DEFINE p == S!Put(m, i, c)
            q == S!Signal(p)
<1>1. Beside(m, p)
  BY BesideSteps
<1>2. "events" \in DOMAIN p
  BY <1>1 DEF Beside
<1>. HIDE DEF p
<1>3. Beside(p, q)
  BY <1>2, BesideSteps
<1>4. "events" \in DOMAIN q
  BY <1>2, <1>3 DEF Beside
<1>. HIDE DEF q
<1>5. Beside(q, S!RequestWindow(q))
  BY <1>4, BesideSteps
<1>. QED BY <1>1, <1>3, <1>5, BesideAgain DEF p, q

\* PicService on the master.
LEMMA BesideMaster ==
    ASSUME NEW m, "events" \in DOMAIN m
    PROVE  Beside(m, S!ServiceMaster(m))
<1>1. ASSUME NEW i PROVE Beside(m, S!InjectMasked(m, i))
  BY BesideSteps, BesideSignal DEF S!InjectMasked
<1>2. Beside(m, S!AskMaster(m))
  BY BesideSteps, BesideSignal DEF S!AskMaster
<1>3. Beside(m, m)
  BY BesideSteps
<1>. QED BY <1>1, <1>2, <1>3 DEF S!ServiceMaster

\* PicService on either chip.
LEMMA BesideService ==
    ASSUME NEW m, "events" \in DOMAIN m
    PROVE  /\ Beside(m, S!ServiceSlave(m))
           /\ \A i : Beside(m, S!PicService(m, i))
<1>1. ASSUME NEW x, "events" \in DOMAIN x
      PROVE  Beside(x, S!RaiseCascade(x))
  <2>. DEFINE p == S!Put(x, 0, S!Latched(x.pic[0], S!CascadeLine))
  <2>1. Beside(x, p) /\ Beside(x, x)
    BY <1>1, BesideSteps
  <2>2. "events" \in DOMAIN p
    BY <2>1 DEF Beside
  <2>3. S!RaiseCascade(x) = x \/ S!RaiseCascade(x) = S!ServiceMaster(p)
    BY DEF S!RaiseCascade
  <2>. HIDE DEF p
  <2>4. Beside(p, S!ServiceMaster(p))
    BY <2>2, BesideMaster
  <2>. QED BY <2>1, <2>3, <2>4, BesideAgain
<1>2. Beside(m, S!AskSlave(m))
  <2>. DEFINE q(d) == S!Put(m, 1, d)
  <2>1. ASSUME NEW d PROVE Beside(m, S!RaiseCascade(q(d)))
    <3>1. Beside(m, q(d))
      BY BesideSteps
    <3>2. "events" \in DOMAIN q(d)
      BY <3>1 DEF Beside
    <3>. HIDE DEF q
    <3>3. Beside(q(d), S!RaiseCascade(q(d)))
      BY <1>1, <3>2
    <3>. QED BY <3>1, <3>3, BesideAgain
  <2>. QED BY <2>1 DEF S!AskSlave
<1>3. ASSUME NEW i PROVE Beside(m, S!InjectMasked(m, i))
  BY BesideSteps, BesideSignal DEF S!InjectMasked
<1>4. Beside(m, m)
  BY BesideSteps
<1>5. Beside(m, S!ServiceSlave(m))
  BY <1>2, <1>3, <1>4 DEF S!ServiceSlave
<1>. QED BY <1>5, BesideMaster DEF S!PicService

\* A chip is stored, then one is served.
LEMMA BesideServed ==
    ASSUME NEW m, "events" \in DOMAIN m, NEW i, NEW c, NEW j
    PROVE  /\ Beside(m, S!PicService(S!Put(m, i, c), j))
           /\ Beside(m, S!ServiceSlave(S!Put(m, i, c)))
           /\ Beside(m, S!ServiceMaster(S!Put(m, i, c)))
<1>. DEFINE p == S!Put(m, i, c)
<1>1. Beside(m, p)
  BY BesideSteps
<1>2. "events" \in DOMAIN p
  BY <1>1 DEF Beside
<1>. HIDE DEF p
<1>3. Beside(p, S!PicService(p, j)) /\ Beside(p, S!ServiceSlave(p))
        /\ Beside(p, S!ServiceMaster(p))
  BY <1>2, BesideService, BesideMaster
<1>. QED BY <1>1, <1>3, BesideAgain DEF p

\* PicIAC.
LEMMA BesideAcknowledge ==
    ASSUME NEW m, "events" \in DOMAIN m
    PROVE  Beside(m, S!PicIAC(m))
<1>. DEFINE n == [m EXCEPT !.events = @ \ {"INTR"}]
            x == IF S!AckedIrq(m.pic[0]) = S!CascadeLine
                 THEN S!AckSlave(n) ELSE S!AckMaster(n)
<1>1. Beside(m, n)
  BY BesideSteps
<1>2. "events" \in DOMAIN n
  BY <1>1 DEF Beside
<1>3. S!PicIAC(m) = S!ServiceMaster(x)
  BY DEF S!PicIAC
<1>. HIDE DEF n
<1>4. Beside(n, S!AckMaster(n))
  BY <1>2, BesideSteps DEF S!AckMaster
<1>5. Beside(n, S!AckSlave(n))
  <2>. DEFINE c == S!Consumed(n.pic[0])
              d == [c EXCEPT !.InterruptPin = @ \ {S!CascadeLine}]
              e == S!Entered(S!Consumed(n.pic[1]))
              p == S!Put(n, 0, d)
  <2>1. S!AckSlave(n) = S!ServiceSlave(S!Put(p, 1, e))
    BY DEF S!AckSlave
  <2>. HIDE DEF c, d, e
  <2>2. Beside(n, p)
    BY <1>2, BesideSteps
  <2>3. "events" \in DOMAIN p
    BY <2>2 DEF Beside
  <2>. HIDE DEF p
  <2>4. Beside(p, S!ServiceSlave(S!Put(p, 1, e)))
    BY <2>3, BesideServed
  <2>. QED BY <2>1, <2>2, <2>4, BesideAgain
<1>6. Beside(n, x)
  BY <1>4, <1>5
<1>. HIDE DEF x
<1>7. "events" \in DOMAIN x
  BY <1>6 DEF Beside
<1>8. Beside(x, S!ServiceMaster(x))
  BY <1>7, BesideMaster
<1>. QED BY <1>1, <1>3, <1>6, <1>8, BesideAgain

\* The lines of the pair.
LEMMA BesideLines ==
    ASSUME NEW m, "events" \in DOMAIN m, NEW n
    PROVE  Beside(m, S!PicRaiseIrq(m, n)) /\ Beside(m, S!PicLowerIrq(m, n))
BY BesideSteps, BesideServed DEF S!PicRaiseIrq, S!PicLowerIrq

\* The writes of the guest to the pair.
LEMMA BesideWrites ==
    ASSUME NEW m, "events" \in DOMAIN m, NEW i
    PROVE  /\ \A icw4 : Beside(m, S!WriteIcw1(m, i, icw4))
           /\ \A offset : Beside(m, S!WriteIcw2(m, i, offset))
           /\ \A value : Beside(m, S!WriteIcw3(m, i, value))
           /\ \A bits : Beside(m, S!WriteIcw4(m, i, bits))
           /\ \A mask : Beside(m, S!WriteImr(m, i, mask))
           /\ \A cmd, irq : Beside(m, S!WriteOcw2(m, i, cmd, irq))
<1>1. ASSUME NEW icw4 PROVE Beside(m, S!WriteIcw1(m, i, icw4))
  <2>. DEFINE p == S!Put(m, i, S!Restarted(m.pic[i], icw4))
  <2>1. Beside(m, p)
    BY BesideSteps
  <2>2. "events" \in DOMAIN p
    BY <2>1 DEF Beside
  <2>3. S!WriteIcw1(m, i, icw4) = [p EXCEPT !.events = @ \ {"INTR"}]
    BY DEF S!WriteIcw1
  <2>. HIDE DEF p
  <2>4. Beside(p, [p EXCEPT !.events = @ \ {"INTR"}])
    BY <2>2, BesideSteps
  <2>. QED BY <2>1, <2>3, <2>4, BesideAgain
<1>2. \A offset : Beside(m, S!WriteIcw2(m, i, offset))
  BY BesideSteps DEF S!WriteIcw2
<1>3. \A value : Beside(m, S!WriteIcw3(m, i, value))
  BY BesideSteps DEF S!WriteIcw3
<1>4. \A bits : Beside(m, S!WriteIcw4(m, i, bits))
  BY BesideSteps DEF S!WriteIcw4
<1>5. \A mask : Beside(m, S!WriteImr(m, i, mask))
  BY BesideServed DEF S!WriteImr
<1>6. ASSUME NEW cmd, NEW irq PROVE Beside(m, S!WriteOcw2(m, i, cmd, irq))
  BY BesideSteps, BesideServed DEF S!WriteOcw2
<1>. QED BY <1>1, <1>2, <1>3, <1>4, <1>5, <1>6
-----------------------------------------------------------------------------
\* The handlers of the APICs in the system are those of ApicBus.
\* The handlers of the APICs in the system are those of ApicBus: first the
\* request for an interrupt.
LEMMA SameService ==
    ASSUME NEW m
    PROVE  S!A!ApicService(m) = ApicService(m)
BY DEF S!A!ApicService, ApicService, S!A!Interrupts, Interrupts,
       S!A!IrrPriority, IrrPriority, S!A!ApicGetProcessPriority,
       ApicGetProcessPriority, S!A!ApicHighestPriority, ApicHighestPriority,
       S!A!HighestVector, HighestVector, S!A!Class, Class,
       S!A!RequestLapic, RequestLapic

\* Priorities and the test of the acknowledge.
LEMMA SamePriorities ==
    ASSUME NEW l
    PROVE  /\ S!A!HighestVector(l) = HighestVector(l)
           /\ S!A!Spurious(l) = Spurious(l)
BY DEF S!A!Spurious, Spurious,
       S!A!IrrPriority, IrrPriority, S!A!ApicGetProcessPriority,
       ApicGetProcessPriority, S!A!ApicHighestPriority, ApicHighestPriority,
       S!A!HighestVector, HighestVector, S!A!Class, Class

\* Whom a message reaches and whether it fails.
LEMMA SameBus ==
    ASSUME NEW l, NEW dest, NEW logical, NEW mode
    PROVE  /\ S!A!ApicBusReaches(l, dest, logical, mode)
                = ApicBusReaches(l, dest, logical, mode)
           /\ S!A!ApicBusFails(l, dest, logical, mode)
                = ApicBusFails(l, dest, logical, mode)
           /\ S!A!LowPriorityReaches(l, dest) = LowPriorityReaches(l, dest)
BY DEF S!A!ApicBusReaches, ApicBusReaches, S!A!ApicBusFails, ApicBusFails,
       S!A!IsFixed, IsFixed, S!A!FixedReaches, FixedReaches,
       S!A!LowPriorityReaches, LowPriorityReaches,
       S!A!ApicMatchLogicalAddress, ApicMatchLogicalAddress,
       S!A!Broadcast, Broadcast

\* What the handlers store.
LEMMA SameStores ==
    ASSUME NEW m, NEW x, NEW v, NEW e, NEW level
    PROVE  /\ S!A!PutLapic(m, x) = PutLapic(m, x)
           /\ S!A!PutIoApic(m, x) = PutIoApic(m, x)
           /\ S!A!ClearLapicEvent(m) = ClearLapicEvent(m)
           /\ S!A!Error(x, e) = Error(x, e)
           /\ S!A!Requested(x, v, level) = Requested(x, v, level)
           /\ S!A!Accepted(x, v) = Accepted(x, v)
           /\ S!A!Ended(x, v) = Ended(x, v)
           /\ S!A!WithTpr(x, v) = WithTpr(x, v)
BY DEF S!A!PutLapic, PutLapic, S!A!PutIoApic, PutIoApic, S!A!ClearLapicEvent,
       ClearLapicEvent, S!A!Error, Error, S!A!Requested, Requested,
       S!A!Accepted, Accepted, S!A!Ended, Ended, S!A!WithTpr, WithTpr

\* The registers of the local APIC and the acknowledge.
LEMMA SameLocal ==
    ASSUME NEW m
    PROVE  /\ \A tpr : S!A!WriteTpr(m, tpr) = WriteTpr(m, tpr)
           /\ S!A!ApicAcknowledgeInterrupt(m) = ApicAcknowledgeInterrupt(m)
           /\ \A v, logical, mode, level, shorthand :
                S!A!ApicSendIpi(m, v, logical, mode, level, shorthand)
                  = ApicSendIpi(m, v, logical, mode, level, shorthand)
<1>1. \A tpr : S!A!WriteTpr(m, tpr) = WriteTpr(m, tpr)
  BY SameService, SameStores DEF S!A!WriteTpr, WriteTpr
<1>2. S!A!ApicAcknowledgeInterrupt(m) = ApicAcknowledgeInterrupt(m)
  BY SameService, SameStores, SamePriorities
     DEF S!A!ApicAcknowledgeInterrupt, ApicAcknowledgeInterrupt
<1>3. ASSUME NEW v, NEW logical, NEW mode, NEW level, NEW shorthand
      PROVE  S!A!ApicSendIpi(m, v, logical, mode, level, shorthand)
               = ApicSendIpi(m, v, logical, mode, level, shorthand)
  <2>1. S!A!ApicSetIrq(m, v, level) = ApicSetIrq(m, v, level)
    BY SameService, SameStores DEF S!A!ApicSetIrq, ApicSetIrq
  <2>2. /\ S!A!IpiReaches(m.lapic, logical, mode, shorthand)
             = IpiReaches(m.lapic, logical, mode, shorthand)
        /\ S!A!IpiFails(m.lapic, logical, mode, shorthand)
             = IpiFails(m.lapic, logical, mode, shorthand)
    BY SameBus DEF S!A!IpiReaches, IpiReaches, S!A!IpiFails, IpiFails
  <2>. QED BY <2>1, <2>2, SameStores DEF S!A!ApicSendIpi, ApicSendIpi
<1>. QED BY <1>1, <1>2, <1>3

\* The service of the pins: the sets of pins, the vectors that arrive and what
\* the messages leave are the same.
LEMMA SamePins ==
    ASSUME NEW m
    PROVE  S!A!IoApicService(m) = IoApicService(m)
<1>. DEFINE l == m.lapic
            io == m.ioapic
<1>1. /\ S!A!ReachingPins(l, io) = ReachingPins(l, io)
      /\ S!A!RefusedPins(l, io) = RefusedPins(l, io)
      /\ S!A!TakenPins(l, io) = TakenPins(l, io)
  BY SameBus DEF S!A!ReachingPins, ReachingPins, S!A!RefusedPins, RefusedPins,
                 S!A!TakenPins, TakenPins, S!A!Sending, Sending, S!A!Sends, Sends
<1>2. /\ S!A!Fresh(l, io) = Fresh(l, io)
      /\ S!A!FreshLevel(l, io) = FreshLevel(l, io)
  BY <1>1 DEF S!A!Fresh, Fresh, S!A!FreshLevel, FreshLevel
<1>3. S!A!Arrived(l, io) = Arrived(l, io)
  BY <1>1, <1>2 DEF S!A!Arrived, Arrived
<1>4. S!A!Sent(l, io) = Sent(l, io)
  BY <1>1 DEF S!A!Sent, Sent, S!A!Taken, Taken, S!A!Refused, Refused, S!A!Pin,
              Pin, S!A!IOAPIC_NUM_PINS, IOAPIC_NUM_PINS
<1>. QED BY <1>2, <1>3, <1>4, SameService, SameStores
         DEF S!A!IoApicService, IoApicService

\* The registers and lines of the I/O APIC and the end of an interrupt.
LEMMA SameIo ==
    ASSUME NEW m
    PROVE  /\ \A sel : S!A!WriteSelect(m, sel) = WriteSelect(m, sel)
           /\ \A low, high : S!A!WriteData(m, low, high) = WriteData(m, low, high)
           /\ \A line : S!A!IoApicRaiseIrq(m, line) = IoApicRaiseIrq(m, line)
           /\ \A line : S!A!IoApicLowerIrq(m, line) = IoApicLowerIrq(m, line)
           /\ S!A!ApicReceiveEOI(m) = ApicReceiveEOI(m)
<1>1. \A sel : S!A!WriteSelect(m, sel) = WriteSelect(m, sel)
  BY SameStores DEF S!A!WriteSelect, WriteSelect
<1>2. \A low, high : S!A!WriteData(m, low, high) = WriteData(m, low, high)
  BY SamePins, SameStores
     DEF S!A!WriteData, WriteData, S!A!SelectedPin, SelectedPin, S!A!PutLow,
         PutLow, S!A!Written, Written, S!A!Pin, Pin, S!A!IOAPIC_NUM_PINS,
         IOAPIC_NUM_PINS
<1>3. \A line : S!A!IoApicRaiseIrq(m, line) = IoApicRaiseIrq(m, line)
  BY SamePins, SameStores
     DEF S!A!IoApicRaiseIrq, IoApicRaiseIrq, S!A!PinOf, PinOf, S!A!Pin, Pin,
         S!A!IOAPIC_NUM_PINS, IOAPIC_NUM_PINS
<1>4. \A line : S!A!IoApicLowerIrq(m, line) = IoApicLowerIrq(m, line)
  BY SameStores
     DEF S!A!IoApicLowerIrq, IoApicLowerIrq, S!A!PinOf, PinOf, S!A!Pin, Pin,
         S!A!IOAPIC_NUM_PINS, IOAPIC_NUM_PINS
<1>5. \A v : S!A!IoApicReceiveEndOfInterrupt(m, v)
              = IoApicReceiveEndOfInterrupt(m, v)
  BY SameStores
     DEF S!A!IoApicReceiveEndOfInterrupt, IoApicReceiveEndOfInterrupt, S!A!Pin,
         Pin, S!A!IOAPIC_NUM_PINS, IOAPIC_NUM_PINS
<1>6. S!A!ApicReceiveEOI(m) = ApicReceiveEOI(m)
  BY <1>5, SameService, SameStores, SamePriorities
     DEF S!A!ApicReceiveEOI, ApicReceiveEOI
<1>. QED BY <1>1, <1>2, <1>3, <1>4, <1>6
-----------------------------------------------------------------------------
\* A machine of the pair alone follows these controllers and events.
Follows(l, io, ev) ==
    \E n : /\ Good(n)
           /\ n.lapic = l
           /\ n.ioapic = io
           /\ "LAPIC" \in ev => "LAPIC" \in n.events
Followed == Follows(lapic, ioapic, events)

\* What one step of the system does to the local APIC.
SystemSteps == Followed' /\ (Nests(lapic, lapic') \/ lapic' = lapic)

\* The follower of a state is the shadow of the machine its handlers see.
LEMMA FollowedShadow ==
    ASSUME Followed
    PROVE  \E n : /\ Good(n)
                  /\ Shadow(Machine, n)
                  /\ \A a : Shadow(S!Shared(a), n)
<1>1. PICK n : /\ Good(n)
               /\ n.lapic = lapic
               /\ n.ioapic = ioapic
               /\ "LAPIC" \in events => "LAPIC" \in n.events
  BY DEF Followed, Follows
<1>2. FIELDS \subseteq DOMAIN n /\ (n.window => "LAPIC" \in n.events)
  BY <1>1 DEF Good, Serviceable, MACHINE, FIELDS
<1>3. Shadow(Machine, n)
  BY <1>1, <1>2 DEF Shadow, Machine, FIELDS
<1>4. \A a : Shadow(S!Shared(a), n)
  BY <1>1, <1>2 DEF Shadow, S!Shared, FIELDS
<1>. QED BY <1>1, <1>3, <1>4

\* The shadow of a machine that is stored follows the next state.
LEMMA ShadowFollows ==
    ASSUME NEW m, NEW n, Shadow(m, n), Good(n),
           lapic' = m.lapic, ioapic' = m.ioapic, events' = m.events
    PROVE  Followed'
BY DEF Shadow, Followed, Follows

\* The pair's own action: the shadow takes the same step.
LEMMA ShadowStep ==
    ASSUME NEW m, NEW n, NEW k, NEW x, Shadow(m, n), m.lapic = lapic,
           Step(n, x), Shadow(k, x),
           lapic' = k.lapic, ioapic' = k.ioapic, events' = k.events
    PROVE  SystemSteps
<1>1. Followed'
  BY ShadowFollows DEF Step
<1>2. Nests(lapic, lapic')
  BY DEF Step, Shadow
<1>. QED BY <1>1, <1>2 DEF SystemSteps

\* The lines go to the I/O APIC and then to the 8259 pair.
LEMMA LinesFollowed ==
    ASSUME Followed, NEW line,
           \/ \E a \in GvmAccepts : S!LineRaise(line, a)
           \/ S!LineLower(line)
    PROVE  SystemSteps
<1>1. PICK n : /\ Good(n)
               /\ Shadow(Machine, n)
               /\ \A a : Shadow(S!Shared(a), n)
  BY FollowedShadow
<1>2. CASE \E a \in GvmAccepts : S!LineRaise(line, a)
  <2>1. PICK a \in GvmAccepts : S!LineRaise(line, a)
    BY <1>2
  <2>. DEFINE m == S!Shared(a)
              x == IoApicRaiseIrq(m, line)
              k == S!PicRaiseIrq(x, line)
  <2>2. lapic' = k.lapic /\ ioapic' = k.ioapic /\ events' = k.events
    BY <2>1, SameIo DEF S!LineRaise, S!SharedRaiseIrq, S!BecomeShared, S!A!Become
  <2>3. m.lapic = lapic
    BY DEF S!Shared
  <2>. HIDE DEF m
  <2>4. Shadow(m, n)
    BY <1>1 DEF m
  <2>5. Shadow(x, IoApicRaiseIrq(n, line))
    BY <2>4, ShadowIo
  <2>. HIDE DEF x
  <2>6. Beside(x, k)
    BY <2>5, BesideLines DEF Shadow, FIELDS
  <2>. HIDE DEF k
  <2>7. Shadow(k, IoApicRaiseIrq(n, line))
    BY <2>5, <2>6, ShadowBeside
  <2>8. Step(n, IoApicRaiseIrq(n, line))
    BY <1>1, RaiseStep
  <2>. QED BY <2>2, <2>3, <2>4, <2>7, <2>8, ShadowStep
<1>3. CASE S!LineLower(line)
  <2>. DEFINE m == S!Shared({})
              x == IoApicLowerIrq(m, line)
              k == S!PicLowerIrq(x, line)
  <2>2. lapic' = k.lapic /\ ioapic' = k.ioapic /\ events' = k.events
    BY <1>3, SameIo DEF S!LineLower, S!SharedLowerIrq, S!BecomeShared, S!A!Become
  <2>3. m.lapic = lapic
    BY DEF S!Shared
  <2>. HIDE DEF m
  <2>4. Shadow(m, n)
    BY <1>1 DEF m
  <2>5. Shadow(x, IoApicLowerIrq(n, line))
    BY <2>4, ShadowIo
  <2>. HIDE DEF x
  <2>6. Beside(x, k)
    BY <2>5, BesideLines DEF Shadow, FIELDS
  <2>. HIDE DEF k
  <2>7. Shadow(k, IoApicLowerIrq(n, line))
    BY <2>5, <2>6, ShadowBeside
  <2>8. Step(n, IoApicLowerIrq(n, line))
    BY <1>1, LowerStep
  <2>. QED BY <2>2, <2>3, <2>4, <2>7, <2>8, ShadowStep
<1>. QED BY <1>2, <1>3

\* The guest's accesses to the APICs.
LEMMA ApicFollowed ==
    ASSUME Followed, S!GuestApic
    PROVE  SystemSteps
<1>1. PICK n : /\ Good(n)
               /\ Shadow(Machine, n)
               /\ \A a : Shadow(S!Shared(a), n)
  BY FollowedShadow
<1>. DEFINE m == Machine
<1>2. m.lapic = lapic /\ S!A!Machine = m
  BY DEF Machine, S!A!Machine
<1>. HIDE DEF m
<1>3. Shadow(m, n)
  BY <1>1 DEF m
<1>4. ASSUME NEW k, NEW x, S!A!Become(k), Shadow(k, x), Step(n, x)
      PROVE  SystemSteps
  BY <1>2, <1>3, <1>4, ShadowStep DEF S!A!Become
<1>5. CASE \E sel \in Selects : S!A!GuestSelect(sel)
  <2>1. PICK sel \in Selects : S!A!Become(WriteSelect(m, sel))
    BY <1>2, <1>5, SameIo DEF S!A!GuestSelect
  <2>2. Step(n, WriteSelect(n, sel))
    BY <1>1, SelectStep, ApicBusAssumption
  <2>. QED BY <1>3, <1>4, <2>1, <2>2, ShadowIo
<1>6. CASE \E low \in RteLows, high \in RteHighs : S!A!GuestData(low, high)
  <2>1. PICK low \in RteLows, high \in RteHighs :
                S!A!Become(WriteData(m, low, high))
    BY <1>2, <1>6, SameIo DEF S!A!GuestData
  <2>2. Step(n, WriteData(n, low, high))
    BY <1>1, DataStep, ApicBusAssumption
  <2>. QED BY <1>3, <1>4, <2>1, <2>2, ShadowIo
<1>7. CASE \E tpr \in TaskPriorities : S!A!GuestTpr(tpr)
  <2>1. PICK tpr \in TaskPriorities : S!A!Become(WriteTpr(m, tpr))
    BY <1>2, <1>7, SameLocal DEF S!A!GuestTpr
  <2>2. Step(n, WriteTpr(n, tpr))
    BY <1>1, TprGood, LocalStepIsStep, ApicBusAssumption
  <2>. QED BY <1>3, <1>4, <2>1, <2>2, ShadowTpr
<1>8. CASE \E i \in Ipis : S!A!GuestIcrLow(i)
  <2>1. PICK i \in Ipis :
                S!A!Become(ApicSendIpi(m, i.vector, i.logical, i.mode, i.level,
                                       i.shorthand))
    BY <1>2, <1>8, SameLocal DEF S!A!GuestIcrLow
  <2>2. i.vector \in Vector /\ i.level \in BOOLEAN
    BY ApicBusAssumption DEF IPI
  <2>3. Step(n, ApicSendIpi(n, i.vector, i.logical, i.mode, i.level, i.shorthand))
    BY <1>1, <2>2, SendIpiGood, LocalStepIsStep
  <2>. QED BY <1>3, <1>4, <2>1, <2>3, ShadowSendIpi
<1>9. CASE S!A!GuestEoi
  <2>1. S!A!Become(ApicReceiveEOI(m))
    BY <1>2, <1>9, SameIo DEF S!A!GuestEoi
  <2>2. Step(n, ApicReceiveEOI(n))
    BY <1>1, EoiStep
  <2>. QED BY <1>3, <1>4, <2>1, <2>2, ShadowEoi
<1>. QED BY <1>5, <1>6, <1>7, <1>8, <1>9 DEF S!GuestApic

\* A handler of the 8259 pair leaves the shadow alone.
LEMMA PicFollowed ==
    ASSUME Followed, S!GuestPic
    PROVE  SystemSteps
<1>1. ASSUME NEW a
      PROVE  /\ "events" \in DOMAIN S!Machine(a)
             /\ S!Machine(a).events = events
  BY DEF S!Machine
<1>2. ASSUME NEW a, NEW k, Beside(S!Machine(a), k), S!Become(k)
      PROVE  "LAPIC" \in events' => "LAPIC" \in events
  BY <1>1, <1>2 DEF Beside, S!Become
<1>3. "LAPIC" \in events' => "LAPIC" \in events
  <2>1. PICK i \in S!Chips :
          \/ \E icw4 \in Icw1Values : S!GuestIcw1(i, icw4)
          \/ \E offset \in S!Offsets(i) : S!GuestIcw2(i, offset)
          \/ \E value \in S!Icw3(i) : S!GuestIcw3(i, value)
          \/ \E bits \in Icw4Values : S!GuestIcw4(i, bits)
          \/ \E mask \in Masks, a \in GvmAccepts : S!GuestImr(i, mask, a)
          \/ \E cmd \in Ocw2Commands, irq \in S!OcwIrqs(i), a \in GvmAccepts :
                S!GuestOcw2(i, cmd, irq, a)
    BY DEF S!GuestPic
  <2>2. \E a, k : Beside(S!Machine(a), k) /\ S!Become(k)
    BY <1>1, <2>1, BesideWrites
       DEF S!GuestIcw1, S!GuestIcw2, S!GuestIcw3, S!GuestIcw4, S!GuestImr,
           S!GuestOcw2
  <2>. QED BY <1>2, <2>2
<1>4. lapic' = lapic /\ ioapic' = ioapic
  BY DEF S!GuestPic
<1>. QED BY <1>3, <1>4 DEF SystemSteps, Followed, Follows

\* The window opens for the 8259 pair first, then for the local APIC.
LEMMA WindowFollowed ==
    ASSUME Followed, NEW a, S!SharedWindow(a)
    PROVE  SystemSteps
<1>1. PICK n : /\ Good(n)
               /\ Shadow(Machine, n)
               /\ \A b : Shadow(S!Shared(b), n)
  BY FollowedShadow
<1>. DEFINE m == S!Shared(a)
            c == S!CloseWindow(m)
            d == [n EXCEPT !.window = FALSE]
<1>2. m.lapic = lapic /\ m.events = events /\ "events" \in DOMAIN m
  BY DEF S!Shared
<1>3. S!BecomeShared(CASE "INTR" \in events -> S!PicIAC(c)
                       [] "INTR" \notin events /\ "LAPIC" \in events ->
                             S!A!ApicAcknowledgeInterrupt(c)
                       [] OTHER -> c)
  BY DEF S!SharedWindow
<1>. HIDE DEF m
<1>4. Shadow(m, n)
  BY <1>1 DEF m
<1>5. Shadow(c, d)
  BY <1>4, ShadowClosed DEF S!CloseWindow
<1>6. Beside(m, c)
  BY <1>2, BesideSteps
<1>7. "events" \in DOMAIN c /\ c.lapic = m.lapic
  BY <1>4, <1>6 DEF Beside, Shadow, FIELDS
<1>8. ASSUME NEW k, Beside(m, k), S!BecomeShared(k)
      PROVE  SystemSteps
  <2>1. Shadow(k, n)
    BY <1>4, <1>8, ShadowBeside
  <2>2. Step(n, n)
    BY <1>1, StutterIsStep
  <2>. QED BY <1>2, <1>4, <1>8, <2>1, <2>2, ShadowStep DEF S!BecomeShared, S!A!Become
<1>. HIDE DEF c
<1>9. CASE "INTR" \in events
  <2>1. Beside(c, S!PicIAC(c))
    BY <1>7, BesideAcknowledge
  <2>2. Beside(m, S!PicIAC(c))
    BY <1>6, <2>1, BesideAgain
  <2>. QED BY <1>3, <1>8, <1>9, <2>2
<1>10. CASE "INTR" \notin events /\ "LAPIC" \in events
  <2>1. "LAPIC" \in n.events
    BY <1>2, <1>4, <1>10 DEF Shadow
  <2>2. /\ d \in MACHINE /\ d.lapic = n.lapic /\ d.ioapic = n.ioapic
        /\ d.events = n.events /\ d.window = FALSE
    BY <1>1 DEF Good, Serviceable, MACHINE
  <2>. HIDE DEF d
  <2>3. LocalStep(d, ApicAcknowledgeInterrupt(d))
    BY <1>1, <2>1, <2>2, AcknowledgeGood DEF Good, Serviceable
  <2>4. Shadow(ApicAcknowledgeInterrupt(c), ApicAcknowledgeInterrupt(d))
    BY <1>5, <2>2, ShadowAcknowledge
  <2>5. S!BecomeShared(ApicAcknowledgeInterrupt(c))
    BY <1>3, <1>10, SameLocal
  <2>. QED BY <1>2, <1>5, <1>7, <2>3, <2>4, <2>5, LocalStepIsStep, ShadowStep
           DEF S!BecomeShared, S!A!Become
<1>11. CASE "INTR" \notin events /\ "LAPIC" \notin events
  BY <1>3, <1>6, <1>8, <1>11
<1>. QED BY <1>9, <1>10, <1>11

\* The initial state of the system is one of the pair.
LEMMA InitFollowed == S!SystemInit => Followed
<1>1. S!SystemInit => Init
  BY DEF S!SystemInit, S!A!Init, Init, S!A!ApicReset, ApicReset,
         S!A!IoApicInitialize, IoApicInitialize, S!A!Pin, Pin,
         S!A!IOAPIC_NUM_PINS, IOAPIC_NUM_PINS, S!A!MaskedEntry, MaskedEntry
<1>2. Inv => Followed
  BY MachineIs DEF Inv, Followed, Follows
<1>. QED BY <1>1, <1>2, InitInv

\* One case per action of the system.
LEMMA SystemFollowed ==
    ASSUME Followed, [S!SystemNext]_(S!systemVars)
    PROVE  SystemSteps
<1>1. CASE \E line \in Lines : \/ \E a \in GvmAccepts : S!LineRaise(line, a)
                               \/ S!LineLower(line)
  BY <1>1, LinesFollowed
<1>2. CASE S!GuestPic
  BY <1>2, PicFollowed
<1>3. CASE S!GuestApic
  BY <1>3, ApicFollowed
<1>4. CASE \E a \in GvmAccepts : S!SharedWindow(a)
  BY <1>4, WindowFollowed
<1>5. CASE UNCHANGED S!systemVars
  BY <1>5 DEF S!systemVars, SystemSteps, Followed, Follows
<1>. QED BY <1>1, <1>2, <1>3, <1>4, <1>5 DEF S!SystemNext

\* The local APIC implements nesting by priority beside the 8259 pair, too,
\* although the main loop may close its window (SVMM.c serves the pair first)
\* and leave its event behind.
THEOREM SystemNests == S!SystemSpec => S!LapicNests
<1>1. S!SystemInit => S!A!Nesting!Init
  BY DEF S!SystemInit, S!A!Init, S!A!ApicReset, S!A!Nesting!Init
<1>2. Followed /\ [S!SystemNext]_(S!systemVars) => Followed'
  BY SystemFollowed DEF SystemSteps
<1>3. Followed /\ [S!SystemNext]_(S!systemVars)
        => [S!A!Nesting!Next]_(S!A!Nesting!nestingVars)
  <2>. SUFFICES ASSUME Followed, [S!SystemNext]_(S!systemVars)
                PROVE  [S!A!Nesting!Next]_(S!A!Nesting!nestingVars)
    OBVIOUS
  <2>1. SystemSteps
    BY SystemFollowed
  <2>2. CASE Grows(lapic, lapic')
    BY <2>2 DEF Grows, Irr, Isr, S!A!Nesting!Next, S!A!Nesting!Arrive
  <2>3. CASE Delivers(lapic, lapic')
    BY <2>3 DEF Delivers, Irr, Isr, Class, S!A!Nesting!Next,
                S!A!Nesting!Deliver, S!A!Nesting!Preempts, S!A!Class
  <2>4. CASE Ends(lapic, lapic')
    BY <2>4 DEF Ends, Irr, Isr, Class, S!A!Nesting!Next, S!A!Nesting!End,
                S!A!Nesting!Preempts, S!A!Class
  <2>5. CASE lapic' = lapic
    BY <2>5 DEF S!A!Nesting!nestingVars
  <2>. QED BY <2>1, <2>2, <2>3, <2>4, <2>5 DEF SystemSteps, Nests
<1>. QED BY <1>1, <1>2, <1>3, InitFollowed, PTL
         DEF S!SystemSpec, S!LapicNests, S!A!NestsByPriority, S!A!Nesting!Spec
=============================================================================
