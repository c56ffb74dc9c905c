-------------------------------- MODULE Pci --------------------------------
(***************************************************************************)
(* The registries of port and memory handlers of SVMM and the base address *)
(* registers that move the handlers of a PCI device about (pci.c).  The    *)
(* machine m has the fields ports, bar, pins, lines and exited.      *)
(***************************************************************************)
EXTENDS Integers, FiniteSets

CONSTANTS
    WORD, DWORD,    \* 2^16 and 2^32: a port has the width of a WORD
    Fixed,          \* the ports of the devices that never move, and their handlers
    Bars,           \* the base address registers that are not of type NONE
    Size(_),        \* the ports a register spans
    Mask(_),        \* those it leaves alone
    HandlerOf(_)    \* the handler of its device

ASSUME PciAssumption ==
    /\ WORD \in Nat /\ DWORD \in Nat /\ 4 < WORD /\ WORD < DWORD
    /\ WORD % 4 = 0 /\ DWORD % WORD = 0
    /\ DOMAIN Fixed \subseteq 1..(WORD - 2)
    /\ \A p \in DOMAIN Fixed : Fixed[p] # "NONE"
    /\ \A b \in Bars : /\ Size(b) \in 1..WORD
                       /\ Mask(b) \subseteq 0..(Size(b) - 1)
                       /\ Mask(b) # 0..(Size(b) - 1)
                       /\ HandlerOf(b) # "NONE"

Ports == 0..(WORD - 2)
NoHandler == "NONE"
Handlers == {NoHandler} \cup {Fixed[p] : p \in DOMAIN Fixed}
                        \cup {HandlerOf(b) : b \in Bars}
BAR == [addr : 0..(DWORD - 1), conf : 0..(DWORD - 1)]
PciSetBarIo == [addr |-> 0, conf |-> 1]
PortsInitial == [p \in Ports |-> IF p \in DOMAIN Fixed THEN Fixed[p] ELSE NoHandler]

Exit(m) == [m EXCEPT !.exited = TRUE]

\* Mutant: a port that has a handler is given another.
RegisterAnyPort(m, a, handler) ==
    IF a >= WORD - 1 THEN Exit(m) ELSE [m EXCEPT !.ports[a] = handler]
RegisterPortIoHandler(m, a, handler) ==
    IF a >= WORD - 1 THEN Exit(m)
    ELSE IF m.ports[a] # NoHandler THEN Exit(m)
    ELSE [m EXCEPT !.ports[a] = handler]
RemovePortIoHandler(m, a) ==
    IF a >= WORD - 1 THEN Exit(m)
    ELSE IF m.ports[a] = NoHandler THEN Exit(m)
    ELSE [m EXCEPT !.ports[a] = NoHandler]

\* An access to a port without a handler ends the monitor.
PortHandler(m, a) == IF a >= WORD - 1 THEN NoHandler ELSE m.ports[a]

-----------------------------------------------------------------------------
(***************************************************************************)
(* A write of 2 or 4 bytes to a base address register.                     *)
(***************************************************************************)

Base(value) == value - (value % 4)
Cells(b) == 0..(Size(b) - 1) \ Mask(b)
ConfOf(old, length, value) ==
    IF length = 4 THEN Base(value) + 1
    ELSE (old \div WORD) * WORD + (Base(value) % WORD) + 1

\* Mutant: the new port is registered before the old one is removed.
PciMovePortLate(m, b, i, value) ==
    LET addr == m.bar[b].addr
        n == RegisterPortIoHandler(m, Base(value) + i, HandlerOf(b))
    IN  IF n.exited \/ addr = 0 THEN n ELSE RemovePortIoHandler(n, addr + i)

\* The ports are moved one at a time, each one removed before it is registered.
PciMovePort(m, b, i, value) ==
    LET addr == m.bar[b].addr
        n == IF addr # 0 THEN RemovePortIoHandler(m, addr + i) ELSE m
    IN  IF n.exited THEN n
        ELSE RegisterPortIoHandler(n, Base(value) + i, HandlerOf(b))
PciMoveCell(m, b, i, value) ==
    IF m.exited \/ i \in Mask(b) THEN m ELSE PciMovePort(m, b, i, value)
PciMoveBar(m, b, value) ==
    LET f[i \in 0..Size(b)] ==
            IF i = 0 THEN m ELSE PciMoveCell(f[i - 1], b, i - 1, value)
        moved == f[Size(b)]
    IN  IF moved.exited THEN moved
        ELSE [moved EXCEPT !.bar[b].addr = Base(value)]

\* Only the first port of a register that is set to zero is removed.
PciDropBar(m, b) ==
    LET first == CHOOSE i \in Cells(b) : \A j \in Cells(b) : i <= j
        addr == m.bar[b].addr
        n == IF addr # 0 THEN RemovePortIoHandler(m, addr + first) ELSE m
    IN  IF n.exited THEN n ELSE [n EXCEPT !.bar[b] = PciSetBarIo]
PciSizeBar(m, b) == [m EXCEPT !.bar[b].conf = Base(DWORD - Size(b)) + 1]

PciWriteBar(m, b, length, value) ==
    LET conf == ConfOf(m.bar[b].conf, length, value)
        n == [m EXCEPT !.bar[b].conf = conf]
    IN  IF conf = m.bar[b].conf THEN m
        ELSE IF value = DWORD - 1 THEN PciSizeBar(n, b)
        ELSE IF Base(value) = 0 THEN PciDropBar(n, b)
        ELSE PciMoveBar(n, b, value)

-----------------------------------------------------------------------------
(***************************************************************************)
(* Interrupts of PCI devices.                                              *)
(***************************************************************************)

Routable == {3, 4, 5, 6, 7, 9, 10, 11, 12, 14, 15}   \* the bits of 0xdef8

\* The pin of the I/O APIC, of those it has; and which of the four registers of the
\* device's own configuration space, 0x60 to 0x63, gives the line of the PIC.
IOAPIC_NUM_PINS == 24
PciTurn(device, number) == (device + number - 2) % 4
PciPins(device, number) ==
    {(number + PciTurn(device, number)) % 256} \cap 0..(IOAPIC_NUM_PINS - 1)
PciSetIrq(m, device, number, routes, raise) ==
    LET pin == PciPins(device, number)
        line == {routes[PciTurn(device, number)]} \cap Routable
    IN  IF raise
        THEN [m EXCEPT !.pins = @ \cup pin, !.lines = @ \cup line]
        ELSE [m EXCEPT !.pins = @ \ pin, !.lines = @ \ line]
=============================================================================
