---------------------------- MODULE IntrSystem ----------------------------
(***************************************************************************)
(* The interrupt path of SVMM as a whole.  Every line a device drives goes *)
(* to the I/O APIC and then to the 8259 pair (pic.c), and the main loop    *)
(* serves both controllers through one interrupt window, the 8259 pair     *)
(* first (SVMM.c).  svmm_events and the window request are shared.         *)
(*                                                                         *)
(* The module extends Pic, whose guest actions it takes as they are, and   *)
(* instantiates ApicBus over the same lines, events and window.            *)
(***************************************************************************)
EXTENDS Pic

CONSTANTS
    Selects, RteLows, RteHighs, TaskPriorities, LogicalIds, Models,
    SpuriousWrites, IpiDestinations, Ipis, TimerEntries, InitialCounts,
    ErrorAccesses    \* what the guest writes to the APICs, as in ApicBus

VARIABLES
    lapic,   \* Lapic[0]
    ioapic   \* IoApic

A == INSTANCE ApicBus

systemVars == <<pic, lapic, ioapic, events, window, wire, settled>>

\* The machine all handlers see, and the step to a new one.
Shared(accepts) ==
    [pic |-> pic, lapic |-> lapic, ioapic |-> ioapic, events |-> events,
     window |-> window, accepts |-> accepts]

BecomeShared(m) == Become(m) /\ A!Become(m)

SystemInit == Init /\ A!Init

\* PicRaiseIrq and PicLowerIrq with their calls into the I/O APIC.
SharedRaiseIrq(m, n) == PicRaiseIrq(A!IoApicRaiseIrq(m, n), n)
SharedLowerIrq(m, n) == PicLowerIrq(A!IoApicLowerIrq(m, n), n)

LineRaise(n, a) ==
    /\ BecomeShared(SharedRaiseIrq(Shared(a), n))
    /\ wire' = [wire EXCEPT ![n] = TRUE]
    /\ UNCHANGED settled

LineLower(n) ==
    /\ BecomeShared(SharedLowerIrq(Shared({}), n))
    /\ wire' = [wire EXCEPT ![n] = FALSE]
    /\ UNCHANGED settled

\* The guest accesses the 8259 pair.
GuestPic ==
    /\ \E i \in Chips :
          \/ \E icw4 \in Icw1Values : GuestIcw1(i, icw4)
          \/ \E offset \in Offsets(i) : GuestIcw2(i, offset)
          \/ \E value \in Icw3(i) : GuestIcw3(i, value)
          \/ \E bits \in Icw4Values : GuestIcw4(i, bits)
          \/ \E mask \in Masks, a \in GvmAccepts : GuestImr(i, mask, a)
          \/ \E cmd \in Ocw2Commands, irq \in OcwIrqs(i), a \in GvmAccepts :
                GuestOcw2(i, cmd, irq, a)
    /\ UNCHANGED <<lapic, ioapic>>

\* The guest accesses the local or the I/O APIC: the registers whose handlers
\* raise or consume a request.
GuestApic ==
    /\ \/ \E sel \in Selects : A!GuestSelect(sel)
       \/ \E low \in RteLows, high \in RteHighs : A!GuestData(low, high)
       \/ \E tpr \in TaskPriorities : A!GuestTpr(tpr)
       \/ \E i \in Ipis : A!GuestIcrLow(i)
       \/ A!GuestEoi
    /\ UNCHANGED <<pic, wire, settled>>

\* Mutant: the local APIC is served first, the request of the other controller
\* is left to the next window, which nobody asks for.
SharedWindowLapicFirst(a) ==
    /\ window
    /\ LET m == CloseWindow(Shared(a))
       IN  BecomeShared(
               CASE "LAPIC" \in events -> A!ApicAcknowledgeInterrupt(m)
                 [] "LAPIC" \notin events /\ "INTR" \in events -> PicIAC(m)
                 [] OTHER -> m)
    /\ UNCHANGED <<wire, settled>>

\* GVM_EXIT_IRQ_WINDOW_OPEN.
SharedWindow(a) ==
    /\ window
    /\ LET m == CloseWindow(Shared(a))
       IN  BecomeShared(
               CASE "INTR" \in events -> PicIAC(m)
                 [] "INTR" \notin events /\ "LAPIC" \in events ->
                       A!ApicAcknowledgeInterrupt(m)
                 [] OTHER -> m)
    /\ UNCHANGED <<wire, settled>>

SystemNext ==
    \/ \E n \in Lines :
          \/ \E a \in GvmAccepts : LineRaise(n, a)
          \/ LineLower(n)
    \/ GuestPic
    \/ GuestApic
    \/ \E a \in GvmAccepts : SharedWindow(a)

SystemSpec == SystemInit /\ [][SystemNext]_systemVars

-----------------------------------------------------------------------------
(***************************************************************************)
(* Properties.                                                             *)
(***************************************************************************)

\* The 8259 pair loses no wake-up beside the APICs: whatever they do to the
\* shared events and window, a master that has something to deliver keeps both
\* (PicService asks for the window without looking who else did).
PicNotStarved == MasterSignalled

\* Interrupts of the local APIC nest by priority in the whole system, too.
LapicNests == A!NestsByPriority

\* A request above the processor priority has its event and its window ("If the
\* requested interrupt IRR > PPR (called APR), Request interrupt").
LapicNotStarved == A!LapicSignalled
=============================================================================
