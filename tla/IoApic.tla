------------------------------ MODULE IoApic ------------------------------
(***************************************************************************)
(* The I/O APIC of SVMM (ioapic.c) as operators on machine records with    *)
(* the field ioapic besides those of LocalApic, and the end of interrupt,  *)
(* which goes from the local APIC to the I/O APIC.                         *)
(***************************************************************************)
EXTENDS LocalApic

IOAPIC_NUM_PINS == 24
Pin == 0..(IOAPIC_NUM_PINS - 1)

\* The low half of a redirection entry, as the guest writes it.  Irr is the
\* remote IRR, Pending the delivery status.
RteLow == [Vector : Vector, Delivery : DELIVERY, Logical : BOOLEAN,
           Level : BOOLEAN, Irr : BOOLEAN, Pending : BOOLEAN,
           Masked : BOOLEAN]

\* typedef struct _IOAPIC, with the redirection table split into its halves.
IOAPIC == [IoRegisterSelect : 0..255, Irr : SUBSET Pin,
           Low : [Pin -> RteLow], High : [Pin -> Destination]]

MaskedEntry ==
    [Vector |-> 0, Delivery |-> "fixed", Logical |-> FALSE, Level |-> FALSE,
     Irr |-> FALSE, Pending |-> FALSE, Masked |-> TRUE]

IoApicInitialize ==
    [IoRegisterSelect |-> 0, Irr |-> {},
     Low |-> [p \in Pin |-> MaskedEntry], High |-> [p \in Pin |-> {}]]

-----------------------------------------------------------------------------
PutIoApic(m, io) == [m EXCEPT !.ioapic = io]

\* A pin whose request may go to the local APIC now.
Sends(rte) == ~rte.Masked /\ ~(rte.Level /\ rte.Irr)

\* The entry once its message was taken, and once it was refused.
Taken(rte) == [rte EXCEPT !.Irr = @ \/ rte.Level, !.Pending = FALSE]
Refused(rte) == [rte EXCEPT !.Pending = TRUE]

PutLow(io, p, rte) == [io EXCEPT !.Low = [@ EXCEPT ![p] = rte]]

\* IoApicSetIntr for one pin, with its request pending.
IoApicSetIntr(m, p) ==
    LET io == m.ioapic
        rte == io.Low[p]
        dest == io.High[p]
        fails == ApicBusFails(m.lapic, dest, rte.Logical, rte.Delivery)
        n == ApicBusDeliverInterrupt(m, rte.Vector, dest, rte.Logical,
                                     rte.Delivery, rte.Level)
        spent == IF rte.Level \/ fails THEN io.Irr ELSE io.Irr \ {p}
        next == IF fails THEN Refused(rte) ELSE Taken(rte)
    IN  IF ~Sends(rte) THEN m
        ELSE PutIoApic(n, PutLow([io EXCEPT !.Irr = spent], p, next))

(***************************************************************************)
(* IoApicService calls IoApicSetIntr for every pending pin in ascending    *)
(* order.  The calls do not change each other's conditions, so their joint *)
(* effect is stated at once; ApicBus compares it with the loop.            *)
(***************************************************************************)
Sending(io) == {p \in io.Irr : Sends(io.Low[p])}
RefusedPins(l, io) ==
    {p \in Sending(io) :
        ApicBusFails(l, io.High[p], io.Low[p].Logical, io.Low[p].Delivery)}
ReachingPins(l, io) ==
    {p \in Sending(io) :
        ApicBusReaches(l, io.High[p], io.Low[p].Logical, io.Low[p].Delivery)}
TakenPins(l, io) == Sending(io) \ RefusedPins(l, io)

\* The vectors that arrive and are not requested yet.
Fresh(l, io) ==
    {v \in {io.Low[p].Vector : p \in ReachingPins(l, io)} : v > 15}
        \ l.InterruptRequestRegister

\* Mutant: any pin with the vector sets the trigger mode.
FreshLevelAny(l, io) ==
    {v \in Fresh(l, io) :
        \E p \in ReachingPins(l, io) : io.Low[p].Vector = v /\ io.Low[p].Level}

\* Of several pins with one vector the first sets the trigger mode.
FreshLevel(l, io) ==
    {v \in Fresh(l, io) :
        \E p \in ReachingPins(l, io) :
            /\ io.Low[p].Vector = v
            /\ io.Low[p].Level
            /\ \A q \in ReachingPins(l, io) : io.Low[q].Vector = v => p <= q}

\* The local APIC with the vectors in.
Arrived(l, io) ==
    [l EXCEPT
        !.InterruptRequestRegister = @ \cup Fresh(l, io),
        !.TriggerModeRegister = (@ \ Fresh(l, io)) \cup FreshLevel(l, io),
        !.ShadowErrorStatus = @ \cup
            {e \in {"RECV_ILLEGAL_VECTOR"} :
                \E p \in ReachingPins(l, io) : io.Low[p].Vector <= 15}]

\* The I/O APIC with the messages out: an edge request is spent, a level one
\* lasts as long as its line.
Sent(l, io) ==
    [io EXCEPT
        !.Irr = @ \ {p \in TakenPins(l, io) : ~io.Low[p].Level},
        !.Low = [p \in Pin |->
                    CASE p \in TakenPins(l, io) -> Taken(@[p])
                      [] p \in RefusedPins(l, io) -> Refused(@[p])
                      [] OTHER -> @[p]]]

IoApicService(m) ==
    LET l == m.lapic
        io == m.ioapic
        n == PutIoApic(PutLapic(m, Arrived(l, io)), Sent(l, io))
    IN  IF Fresh(l, io) = {} THEN n ELSE ApicService(n)

\* IoApicService as it is written: the for loop over the pins, and one turn of it.
Turn(m, p) == IF p \in m.ioapic.Irr THEN IoApicSetIntr(m, p) ELSE m
Loop(m) ==
    LET after[k \in 0..IOAPIC_NUM_PINS] ==
            IF k = 0 THEN m ELSE Turn(after[k - 1], k - 1)
    IN  after[IOAPIC_NUM_PINS]

\* The timer's line 0 is wired to pin 2.
PinOf(line) == IF line = 0 THEN 2 ELSE line

\* A high line at an edge pin with a latched request adds nothing.
IoApicRaiseIrq(m, line) ==
    LET p == PinOf(line)
        io == m.ioapic
    IN  IF p \notin Pin \/ (~io.Low[p].Level /\ p \in io.Irr) THEN m
        ELSE IoApicService(PutIoApic(m, [io EXCEPT !.Irr = @ \cup {p}]))

IoApicLowerIrq(m, line) ==
    LET p == PinOf(line)
        io == m.ioapic
    IN  IF p \in Pin /\ io.Low[p].Level
        THEN PutIoApic(m, [io EXCEPT !.Irr = @ \ {p}]) ELSE m

\* The line of the pin is not looked at again.
IoApicReceiveEndOfInterrupt(m, v) ==
    LET ends(rte) == rte.Level /\ rte.Vector = v
    IN  PutIoApic(m, [m.ioapic EXCEPT
            !.Low = [p \in Pin |-> IF ends(@[p]) THEN [@[p] EXCEPT !.Irr = FALSE]
                                   ELSE @[p]]])

\* Mutant: the next request is not looked for.
ApicReceiveEOINoService(m) ==
    LET l == m.lapic
        v == HighestVector(l.InterruptServiceRegister)
        n == IF v \in l.TriggerModeRegister
             THEN IoApicReceiveEndOfInterrupt(m, v) ELSE m
    IN  IF v = l.SpuriousVector THEN m ELSE PutLapic(n, Ended(l, v))

\* The end of the highest interrupt in service, unless its vector is the
\* spurious one.
ApicReceiveEOI(m) ==
    LET l == m.lapic
        v == HighestVector(l.InterruptServiceRegister)
        n == IF v \in l.TriggerModeRegister
             THEN IoApicReceiveEndOfInterrupt(m, v) ELSE m
    IN  IF v = l.SpuriousVector THEN m
        ELSE ApicService(PutLapic(n, Ended(l, v)))

(***************************************************************************)
(* IoApicMMIOWriteHandler: the index and the data register.                *)
(***************************************************************************)
WriteSelect(m, sel) ==
    PutIoApic(m, [m.ioapic EXCEPT !.IoRegisterSelect = sel])

\* The pin of the selected entry: (BYTE)(IoRegisterSelect - 0x10) >> 1.
SelectedPin(sel) ==
    (IF sel >= 16 THEN sel - 16 ELSE sel + 240) \div 2

\* The remote IRR of an edge entry cannot be written.
Written(low) == [low EXCEPT !.Irr = @ /\ low.Level]

\* Registers 0 to 2 hold the id and read-only values.
WriteData(m, low, high) ==
    LET io == m.ioapic
        sel == io.IoRegisterSelect
        p == SelectedPin(sel)
        next == IF sel % 2 = 1 THEN [io EXCEPT !.High = [@ EXCEPT ![p] = high]]
                ELSE PutLow(io, p, Written(low))
    IN  IF sel <= 2 \/ p \notin Pin THEN m
        ELSE IoApicService(PutIoApic(m, next))
=============================================================================
