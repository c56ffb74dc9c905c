------------------------------- MODULE Piix3 -------------------------------
(***************************************************************************)
(* The ISA bridge of SVMM (piix3.c): the routing of PCI interrupts, the    *)
(* trigger modes of the PIC and the advanced power management ports.       *)
(***************************************************************************)
EXTENDS Integers

Pirq == 0..3
Irq == 0..15

PIIX3 ==
    [route : [Pirq -> Irq],                 \* conf[0x60 .. 0x63]
     irqRegister : [Irq -> SUBSET Pirq],
     edgeLevelTrigger : [{1, 2} -> SUBSET (0..7)],
     APMControl : {"NONE", "ACPI_ENABLE", "ACPI_DISABLE"},
     APMStatus : 0..1,
     pciReset : 0..1]

\* The writes of 0x80 to the routing registers leave them as they were, zero.
Piix3Initialize ==
    [route |-> [r \in Pirq |-> 0],
     irqRegister |-> [i \in Irq |-> {}],
     edgeLevelTrigger |-> [e \in {1, 2} |-> {}],
     APMControl |-> "NONE", APMStatus |-> 0, pciReset |-> 0]

\* A route is disabled with bit 7 set, and no such value is below 16.
Piix3UnregisterIrq(p, r, irq) ==
    IF irq >= 16 THEN p
    ELSE [p EXCEPT !.route[r] = irq, !.irqRegister[irq] = @ \ {r}]
Piix3RegisterIrq(p, r, irq) ==
    IF irq >= 16 THEN p
    ELSE [p EXCEPT !.route[r] = irq, !.irqRegister[irq] = @ \cup {r}]

\* The bytes of a longer write are a bit apart, where they should be eight.
RouteByte(value, i) ==
    LET byte == value \div (2^i)
    IN  (byte % 16) + 128 * ((byte \div 128) % 2)
Piix3WriteRoute(p, r, byte) ==
    IF byte = p.route[r] THEN p
    ELSE IF byte >= 128 THEN Piix3UnregisterIrq(p, r, byte)
    ELSE Piix3RegisterIrq(p, r, byte)
Piix3WriteRoutes(p, length, value) ==
    LET f[i \in 0..length] ==
            IF i = 0 THEN p ELSE Piix3WriteRoute(f[i - 1], i - 1, RouteByte(value, i - 1))
    IN  f[length]

\* Interrupts 0, 1, 2, 8 and 13 are edge triggered whatever the guest says.
Piix3WriteTrigger(p, e, levels) ==
    [p EXCEPT !.edgeLevelTrigger[e] =
        levels \cap (IF e = 1 THEN 3..7 ELSE {1, 2, 3, 4, 6, 7})]
Piix3WriteStatus(p, value) == [p EXCEPT !.APMStatus = value]
Piix3WriteReset(p) == [p EXCEPT !.pciReset = 1]
=============================================================================
