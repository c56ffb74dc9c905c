--------------------------- MODULE ChipsetProofs ---------------------------
(***************************************************************************)
(* Proofs about Chipset, for every set of base address registers, of sizes *)
(* and masks of them, of ports of the fixed devices and of guests.  The    *)
(* handlers take a machine and return one, so each gets a lemma: it keeps  *)
(* Good.  A loop of the code is a recursive function; what it returns is   *)
(* shown with the least number of rounds after which it would fail.        *)
(***************************************************************************)
EXTENDS Chipset, Rounds, TLAPS

MACHINE ==
    [ports : [Ports -> Handlers], bar : [Bars -> BAR], pins : SUBSET Nat,
     lines : SUBSET Irq, slots : [0..mem_slots_num -> SLOT], smbase : Nat,
     acpi : ACPI, smi : BOOLEAN, piix3 : PIIX3, i440fx : I440FX,
     dma : [Controller -> DMA_CONTROLLER], flash : FLASH,
     bios : [Firmware -> MESSAGE], event : BOOLEAN, exited : BOOLEAN]

-----------------------------------------------------------------------------
(***************************************************************************)
(* The loop that moves the ports of a base address register.               *)
(***************************************************************************)

MoveTo(g, n, m, b, value) ==
    g = [i \in 0..n |-> IF i = 0 THEN m ELSE PciMoveCell(g[i - 1], b, i - 1, value)]

\* The rounds of the loop exist.
LEMMA MoveRounds ==
    ASSUME NEW m, NEW b, NEW value, NEW n \in Nat
    PROVE  \E g : MoveTo(g, n, m, b, value)
<1>. DEFINE S == {i \in Nat : \E g : MoveTo(g, i, m, b, value)}
<1>1. 0 \in S
  <2>. DEFINE g == [i \in 0..0 |-> m]
  <2>1. MoveTo(g, 0, m, b, value)
    BY DEF MoveTo
  <2>. QED BY <2>1
<1>2. ASSUME NEW k \in 0..n, k \in S, k < n PROVE k + 1 \in S
  <2>1. PICK g : MoveTo(g, k, m, b, value)
    BY <1>2
  <2>. DEFINE h == [i \in 0..(k + 1) |->
                      IF i = k + 1 THEN PciMoveCell(g[k], b, k, value) ELSE g[i]]
              r == [i \in 0..(k + 1) |->
                      IF i = 0 THEN m ELSE PciMoveCell(h[i - 1], b, i - 1, value)]
  <2>2. ASSUME NEW i \in 0..(k + 1) PROVE h[i] = r[i]
    <3>1. CASE i = 0
      <4>1. h[i] = g[0] /\ 0 \in 0..k
        BY <3>1
      <4>2. g[0] = m
        BY <2>1, <4>1 DEF MoveTo
      <4>. QED BY <3>1, <4>1, <4>2
    <3>2. CASE i = k + 1
      <4>1. i # 0 /\ i - 1 = k /\ h[i - 1] = g[k]
        BY <3>2
      <4>. QED BY <3>2, <4>1
    <3>3. CASE i # 0 /\ i # k + 1
      <4>1. i \in 0..k /\ i - 1 \in 0..k /\ i # k + 1 /\ i - 1 # k + 1
        BY <3>3
      <4>2. h[i] = g[i] /\ h[i - 1] = g[i - 1]
        BY <4>1
      <4>3. g[i] = PciMoveCell(g[i - 1], b, i - 1, value)
        BY <2>1, <3>3, <4>1 DEF MoveTo
      <4>. QED BY <3>3, <4>2, <4>3
    <3>. QED BY <3>1, <3>2, <3>3
  <2>3. h = r
    BY <2>2
  <2>4. MoveTo(h, k + 1, m, b, value)
    BY <2>3 DEF MoveTo
  <2>. QED BY <2>4
<1>. HIDE DEF S
<1>3. n \in S
  BY <1>1, <1>2, UpTo
<1>. QED BY <1>3 DEF S

LEMMA MoveBarRounds ==
    ASSUME NEW m, NEW b \in Bars, NEW value
    PROVE  \E g : /\ MoveTo(g, Size(b), m, b, value)
                  /\ PciMoveBar(m, b, value) =
                        IF g[Size(b)].exited THEN g[Size(b)]
                        ELSE [g[Size(b)] EXCEPT !.bar[b].addr = Base(value)]
<1>. DEFINE f[i \in 0..Size(b)] ==
              IF i = 0 THEN m ELSE PciMoveCell(f[i - 1], b, i - 1, value)
<1>1. Size(b) \in Nat
  BY PciAssumption
<1>2. \E g : MoveTo(g, Size(b), m, b, value)
  BY <1>1, MoveRounds
<1>3. MoveTo(f, Size(b), m, b, value)
  BY <1>2 DEF MoveTo
<1>4. PciMoveBar(m, b, value) =
        IF f[Size(b)].exited THEN f[Size(b)]
        ELSE [f[Size(b)] EXCEPT !.bar[b].addr = Base(value)]
  BY DEF PciMoveBar
<1>. HIDE DEF f
<1>. QED BY <1>3, <1>4

\* What the ports owe to the registers: a register that is set has all its ports,
\* which no fixed device and no other register has.
Owned(p, br) ==
    \A b \in Bars : br[b].addr # 0 =>
        \A i \in Cells(b) : /\ br[b].addr + i \in Ports \ DOMAIN Fixed
                            /\ p[br[b].addr + i] = HandlerOf(b)
Apart(br) ==
    \A b, c \in Bars : b # c /\ br[b].addr # 0 /\ br[c].addr # 0 =>
        \A i \in Cells(b), j \in Cells(c) : br[b].addr + i # br[c].addr + j
Aligned(br) == \A b \in Bars : br[b].addr % 4 = 0
Kept(p) == \A a \in DOMAIN Fixed : p[a] = Fixed[a]
PortsGood(p, br, out) == Kept(p) /\ Aligned(br) /\ (~out => Owned(p, br) /\ Apart(br))

\* After k rounds of the loop over the ports of b, on its way to the address new.
Others(p, br, b) ==
    \A c \in Bars \ {b} : br[c].addr # 0 =>
        \A j \in Cells(c) : p[br[c].addr + j] = HandlerOf(c)
Rest(p, br, b, k) ==
    br[b].addr # 0 => \A j \in Cells(b) : j >= k => p[br[b].addr + j] = HandlerOf(b)
Ahead(p, br, b, k, new) ==
    \A i \in Cells(b) : i < k =>
        /\ new + i \in Ports \ DOMAIN Fixed
        /\ p[new + i] = HandlerOf(b)
        /\ br[b].addr # 0 => \A j \in Cells(b) : j >= k => new + i # br[b].addr + j
        /\ \A c \in Bars \ {b} : br[c].addr # 0 =>
               \A j \in Cells(c) : new + i # br[c].addr + j
Moving(n, m, b, k, new) ==
    /\ n = [m EXCEPT !.ports = n.ports, !.exited = n.exited]
    /\ n.ports \in [Ports -> Handlers]
    /\ n.exited \in BOOLEAN
    /\ Kept(n.ports)
    /\ ~n.exited => /\ Others(n.ports, m.bar, b)
                    /\ Rest(n.ports, m.bar, b, k)
                    /\ Ahead(n.ports, m.bar, b, k, new)

\* The ports of a register are numbers below its size.
LEMMA CellsAre ==
    ASSUME NEW b \in Bars
    PROVE  /\ Size(b) \in Nat
           /\ Cells(b) \subseteq 0..(Size(b) - 1)
           /\ Cells(b) # {}
           /\ HandlerOf(b) \in Handlers /\ HandlerOf(b) # NoHandler
           /\ NoHandler \in Handlers
<1>1. Size(b) \in 1..WORD /\ WORD \in Nat
  BY PciAssumption
<1>2. Cells(b) \subseteq 0..(Size(b) - 1)
  BY DEF Cells
<1>3. Mask(b) \subseteq 0..(Size(b) - 1) /\ Mask(b) # 0..(Size(b) - 1)
  BY PciAssumption
<1>4. Cells(b) # {}
  BY <1>3, Zenon DEF Cells
<1>5. HandlerOf(b) # NoHandler
  BY PciAssumption DEF NoHandler
<1>6. HandlerOf(b) \in Handlers /\ NoHandler \in Handlers
  BY DEF Handlers
<1>. QED BY <1>1, <1>2, <1>4, <1>5, <1>6

\* What taking the handler from a port of the register's own leaves.
LEMMA RemoveOwn ==
    ASSUME NEW m \in MACHINE, NEW a \in Ports, m.ports[a] # NoHandler
    PROVE  RemovePortIoHandler(m, a) = [m EXCEPT !.ports = [@ EXCEPT ![a] = NoHandler]]
<1>1. ~(a >= WORD - 1)
  BY PciAssumption DEF Ports
<1>. QED BY <1>1 DEF RemovePortIoHandler

\* What is left of the rounds' promise once the old port k has lost its handler.
Between(p, br, b, k, new) ==
    /\ p \in [Ports -> Handlers]
    /\ Kept(p)
    /\ Others(p, br, b)
    /\ Rest(p, br, b, k + 1)
    /\ Ahead(p, br, b, k, new)
    /\ br[b].addr # 0 => br[b].addr + k \in Ports /\ p[br[b].addr + k] = NoHandler

\* Taking the old port away.
LEMMA TakeKeeps ==
    ASSUME NEW br \in [Bars -> BAR], NEW p \in [Ports -> Handlers], NEW b \in Bars,
           NEW k \in Cells(b), NEW new \in Nat, NEW p0,
           Owned(p0, br), Apart(br), br[b].addr # 0,
           Kept(p), Others(p, br, b), Rest(p, br, b, k), Ahead(p, br, b, k, new)
    PROVE  Between([p EXCEPT ![br[b].addr + k] = NoHandler], br, b, k, new)
<1>. DEFINE a == br[b].addr + k
            q == [p EXCEPT ![a] = NoHandler]
<1>1. k \in Nat /\ \A c \in Bars : Cells(c) \subseteq Nat
  BY CellsAre
<1>2. \A c \in Bars : br[c].addr \in Nat
  BY PciAssumption DEF BAR
<1>3. a \in Ports /\ a \notin DOMAIN Fixed
  BY DEF Owned
<1>4. q \in [Ports -> Handlers] /\ q[a] = NoHandler
  BY <1>3, CellsAre
<1>5. Kept(q)
  <2>1. DOMAIN Fixed \subseteq Ports
    BY PciAssumption DEF Ports
  <2>. QED BY <1>3, <2>1 DEF Kept
<1>6. Others(q, br, b)
  <2>. SUFFICES ASSUME NEW c \in Bars \ {b}, br[c].addr # 0, NEW j \in Cells(c)
                PROVE  q[br[c].addr + j] = HandlerOf(c)
    BY DEF Others
  <2>1. br[c].addr + j \in Ports
    BY DEF Owned
  <2>2. br[c].addr + j # a
    BY DEF Apart
  <2>. QED BY <2>1, <2>2 DEF Others
<1>7. Rest(q, br, b, k + 1)
  <2>. SUFFICES ASSUME NEW j \in Cells(b), j >= k + 1
                PROVE  q[br[b].addr + j] = HandlerOf(b)
    BY DEF Rest
  <2>1. br[b].addr + j \in Ports
    BY DEF Owned
  <2>2. br[b].addr + j # a /\ j >= k
    BY <1>1, <1>2
  <2>. QED BY <2>1, <2>2 DEF Rest
<1>8. Ahead(q, br, b, k, new)
  <2>. SUFFICES ASSUME NEW i \in Cells(b), i < k
                PROVE  q[new + i] = HandlerOf(b)
    BY DEF Ahead
  <2>1. new + i \in Ports /\ p[new + i] = HandlerOf(b)
    BY DEF Ahead
  <2>2. new + i # a
    BY <1>1 DEF Ahead
  <2>. QED BY <2>1, <2>2
<1>. QED BY <1>3, <1>4, <1>5, <1>6, <1>7, <1>8 DEF Between

\* Giving the new port, which nobody has.
LEMMA GiveKeeps ==
    ASSUME NEW br \in [Bars -> BAR], NEW p, NEW b \in Bars, NEW k \in Cells(b),
           NEW new \in Nat, NEW p0, Owned(p0, br), Between(p, br, b, k, new),
           new + k \in Ports, p[new + k] = NoHandler,
           NEW q, q = [p EXCEPT ![new + k] = HandlerOf(b)]
    PROVE  /\ q \in [Ports -> Handlers]
           /\ Kept(q)
           /\ Others(q, br, b)
           /\ Rest(q, br, b, k + 1)
           /\ Ahead(q, br, b, k + 1, new)
<1>. DEFINE a == new + k
<1>1. k \in Nat /\ \A c \in Bars : Cells(c) \subseteq Nat
  BY CellsAre
<1>2. \A c \in Bars : br[c].addr \in Nat
  BY PciAssumption DEF BAR
<1>3. q \in [Ports -> Handlers] /\ q[a] = HandlerOf(b)
  BY CellsAre DEF Between
<1>4. a \notin DOMAIN Fixed
  BY PciAssumption DEF Between, Kept, NoHandler
<1>5. Kept(q)
  <2>1. DOMAIN Fixed \subseteq Ports
    BY PciAssumption DEF Ports
  <2>. QED BY <1>4, <2>1 DEF Kept, Between
<1>6. ASSUME NEW c \in Bars \ {b}, br[c].addr # 0, NEW j \in Cells(c)
      PROVE  /\ q[br[c].addr + j] = HandlerOf(c)
             /\ br[c].addr + j # a
  <2>1. br[c].addr + j \in Ports
    BY <1>6 DEF Owned
  <2>2. p[br[c].addr + j] = HandlerOf(c)
    BY <1>6 DEF Between, Others
  <2>3. br[c].addr + j # a
    BY <2>2, CellsAre
  <2>. QED BY <2>1, <2>2, <2>3 DEF Between
<1>7. Others(q, br, b)
  BY <1>6 DEF Others
<1>8. ASSUME br[b].addr # 0, NEW j \in Cells(b), j >= k + 1
      PROVE  q[br[b].addr + j] = HandlerOf(b) /\ br[b].addr + j # a
  <2>1. br[b].addr + j \in Ports
    BY <1>8 DEF Owned
  <2>2. p[br[b].addr + j] = HandlerOf(b)
    BY <1>8 DEF Between, Rest
  <2>3. br[b].addr + j # a
    BY <2>2, CellsAre
  <2>. QED BY <2>1, <2>2, <2>3 DEF Between
<1>9. Rest(q, br, b, k + 1)
  BY <1>8 DEF Rest
<1>10. ASSUME NEW i \in Cells(b), i < k + 1
       PROVE  /\ new + i \in Ports \ DOMAIN Fixed
              /\ q[new + i] = HandlerOf(b)
              /\ br[b].addr # 0 => \A j \in Cells(b) : j >= k + 1 => new + i # br[b].addr + j
              /\ \A c \in Bars \ {b} : br[c].addr # 0 =>
                     \A j \in Cells(c) : new + i # br[c].addr + j
  <2>1. CASE i = k
    BY <2>1, <1>3, <1>4, <1>6, <1>8
  <2>2. CASE i # k
    <3>1. i < k /\ i \in Nat
      BY <1>1, <1>10, <2>2
    <3>2. new + i \in Ports \ DOMAIN Fixed /\ p[new + i] = HandlerOf(b)
      BY <3>1 DEF Between, Ahead
    <3>3. \A j \in Cells(b) : j >= k + 1 => j >= k
      BY <1>1
    <3>4. q[new + i] = HandlerOf(b)
      <4>1. new + i # a
        BY <3>1, <1>1
      <4>. QED BY <3>2, <4>1 DEF Between
    <3>. QED BY <3>1, <3>2, <3>3, <3>4 DEF Between, Ahead
  <2>. QED BY <2>1, <2>2
<1>11. Ahead(q, br, b, k + 1, new)
  BY <1>10 DEF Ahead
<1>. QED BY <1>3, <1>5, <1>7, <1>9, <1>11

\* A round of the loop keeps the promise of the rounds.
LEMMA MoveCellKeeps ==
    ASSUME NEW m \in MACHINE, ~m.exited, PortsGood(m.ports, m.bar, m.exited),
           NEW b \in Bars, NEW value, Base(value) \in Nat, NEW k \in 0..(Size(b) - 1),
           NEW n, Moving(n, m, b, k, Base(value))
    PROVE  Moving(PciMoveCell(n, b, k, value), m, b, k + 1, Base(value))
<1>. DEFINE new == Base(value)
            br == m.bar
            addr == br[b].addr
<1>1. br \in [Bars -> BAR] /\ Owned(m.ports, br) /\ Apart(br)
  BY DEF MACHINE, PortsGood
<1>2. /\ n = [m EXCEPT !.ports = n.ports, !.exited = n.exited]
      /\ n.ports \in [Ports -> Handlers] /\ n.exited \in BOOLEAN /\ Kept(n.ports)
  BY DEF Moving
<1>3. n \in MACHINE /\ n.bar = br
  BY <1>2 DEF MACHINE
<1>n. new \in Nat
  OBVIOUS
<1>. HIDE DEF new, br
<1>4. CASE n.exited
  BY <1>2, <1>4 DEF PciMoveCell, Moving, br, new
<1>5. CASE ~n.exited /\ k \in Mask(b)
  <2>1. PciMoveCell(n, b, k, value) = n
    BY <1>5 DEF PciMoveCell
  <2>2. \A i \in Cells(b) : (i < k + 1 <=> i < k) /\ (i >= k + 1 <=> i >= k)
    <3>1. \A i \in Cells(b) : i # k /\ i \in Nat
      BY <1>5, CellsAre DEF Cells
    <3>. QED BY <3>1, CellsAre
  <2>3. Rest(n.ports, br, b, k) /\ Ahead(n.ports, br, b, k, new) /\ Others(n.ports, br, b)
    BY <1>5 DEF Moving, br, new
  <2>4. Rest(n.ports, br, b, k + 1) /\ Ahead(n.ports, br, b, k + 1, new)
    BY <2>2, <2>3 DEF Rest, Ahead
  <2>. QED BY <1>2, <2>1, <2>3, <2>4 DEF Moving, br, new
<1>6. CASE ~n.exited /\ k \notin Mask(b)
  <2>1. k \in Cells(b) /\ k \in Nat
    BY <1>6, CellsAre DEF Cells
  <2>2. Others(n.ports, br, b) /\ Rest(n.ports, br, b, k) /\ Ahead(n.ports, br, b, k, new)
    BY <1>6 DEF Moving, br, new
  <2>. DEFINE n1 == IF addr # 0 THEN RemovePortIoHandler(n, addr + k) ELSE n
  <2>3. /\ n1 = [m EXCEPT !.ports = n1.ports, !.exited = FALSE]
        /\ Between(n1.ports, br, b, k, new)
    <3>1. CASE addr = 0
      <4>1. n1 = n
        BY <3>1
      <4>2. Rest(n.ports, br, b, k + 1)
        BY <3>1 DEF Rest
      <4>. QED BY <3>1, <4>1, <4>2, <1>2, <1>6, <2>2 DEF Between
    <3>2. CASE addr # 0
      <4>1. addr + k \in Ports
        BY <1>1, <2>1, <3>2 DEF Owned
      <4>2. n.ports[addr + k] # NoHandler
        BY <2>1, <2>2, <3>2, CellsAre DEF Rest
      <4>3. n1 = [n EXCEPT !.ports = [@ EXCEPT ![addr + k] = NoHandler]]
        BY <1>3, <3>2, <4>1, <4>2, RemoveOwn
      <4>4. n1.ports = [n.ports EXCEPT ![addr + k] = NoHandler]
        BY <1>3, <4>3 DEF MACHINE
      <4>5. n1 = [m EXCEPT !.ports = n1.ports, !.exited = FALSE]
        BY <1>2, <1>3, <1>6, <4>3, <4>4 DEF MACHINE
      <4>6. Between(n1.ports, br, b, k, new)
        <5>. HIDE DEF n1
        <5>. QED BY <1>1, <1>2, <1>n, <2>1, <2>2, <3>2, <4>4, TakeKeeps
      <4>. QED BY <4>5, <4>6
    <3>. QED BY <3>1, <3>2
  <2>. DEFINE n2 == RegisterPortIoHandler(n1, new + k, HandlerOf(b))
  <2>4. PciMoveCell(n, b, k, value) = IF n1.exited THEN n1 ELSE n2
    BY <1>3, <1>6 DEF PciMoveCell, PciMovePort, new
  <2>. HIDE DEF n1
  <2>5. n1 \in MACHINE /\ ~n1.exited
    <3>1. n1.ports \in [Ports -> Handlers]
      BY <2>3 DEF Between
    <3>. QED BY <2>3, <3>1 DEF MACHINE
  <2>9. \/ n2 = [n1 EXCEPT !.exited = TRUE]
        \/ /\ new + k \in Ports /\ n1.ports[new + k] = NoHandler
           /\ n2 = [n1 EXCEPT !.ports = [@ EXCEPT ![new + k] = HandlerOf(b)]]
    <3>1. new + k \in Nat
      BY <1>n, <2>1
    <3>2. ~(new + k >= WORD - 1) => new + k \in Ports
      BY <3>1, PciAssumption DEF Ports
    <3>. QED BY <3>2 DEF RegisterPortIoHandler, Exit
  <2>. HIDE DEF n2
  <2>6. CASE n2 = [n1 EXCEPT !.exited = TRUE]
    <3>0. n2.ports = n1.ports
      BY <2>5, <2>6 DEF MACHINE
    <3>1. n2 = [m EXCEPT !.ports = n2.ports, !.exited = TRUE] /\ n2.ports = n1.ports
      BY <2>3, <2>6, <3>0 DEF MACHINE
    <3>2. n2.exited
      BY <2>5, <2>6 DEF MACHINE
    <3>3. Kept(n2.ports) /\ n2.ports \in [Ports -> Handlers]
      BY <2>3, <3>1 DEF Between
    <3>4. Moving(n2, m, b, k + 1, new)
      BY <3>1, <3>2, <3>3 DEF Moving, br, new
    <3>. QED BY <2>4, <2>5, <3>4 DEF new
  <2>7. CASE /\ new + k \in Ports /\ n1.ports[new + k] = NoHandler
             /\ n2 = [n1 EXCEPT !.ports = [@ EXCEPT ![new + k] = HandlerOf(b)]]
    <3>1. n2.ports = [n1.ports EXCEPT ![new + k] = HandlerOf(b)] /\ n2.exited = FALSE
      BY <2>5, <2>7 DEF MACHINE
    <3>2. n2 = [m EXCEPT !.ports = n2.ports, !.exited = FALSE]
      BY <2>3, <2>5, <2>7, <3>1 DEF MACHINE
    <3>3. /\ n2.ports \in [Ports -> Handlers]
          /\ Kept(n2.ports)
          /\ Others(n2.ports, br, b)
          /\ Rest(n2.ports, br, b, k + 1)
          /\ Ahead(n2.ports, br, b, k + 1, new)
      BY <1>1, <1>n, <2>1, <2>3, <2>7, <3>1, GiveKeeps
    <3>4. Moving(n2, m, b, k + 1, new)
      BY <3>1, <3>2, <3>3 DEF Moving, br, new
    <3>. QED BY <2>4, <2>5, <3>4 DEF new
  <2>. QED BY <2>6, <2>7, <2>9
<1>. QED BY <1>4, <1>5, <1>6 DEF new

\* What a write to a base address register may do to the machine.
BarStep(n, m) ==
    /\ n = [m EXCEPT !.ports = n.ports, !.bar = n.bar, !.exited = n.exited]
    /\ n.ports \in [Ports -> Handlers]
    /\ n.bar \in [Bars -> BAR]
    /\ n.exited \in BOOLEAN
    /\ PortsGood(n.ports, n.bar, n.exited)

\* The whole loop: after it the register has its new ports, and only those.
LEMMA MoveBarGood ==
    ASSUME NEW m \in MACHINE, ~m.exited, PortsGood(m.ports, m.bar, m.exited),
           NEW b \in Bars, NEW value, Base(value) \in 0..(DWORD - 1),
           Base(value) % 4 = 0
    PROVE  BarStep(PciMoveBar(m, b, value), m)
<1>. DEFINE new == Base(value)
            N == Size(b)
<1>0. new \in Nat /\ N \in Nat /\ DWORD \in Nat
  BY PciAssumption, CellsAre
<1>1. PICK g : /\ MoveTo(g, N, m, b, value)
               /\ PciMoveBar(m, b, value) =
                     IF g[N].exited THEN g[N] ELSE [g[N] EXCEPT !.bar[b].addr = new]
  BY MoveBarRounds
<1>. DEFINE S == {i \in 0..N : Moving(g[i], m, b, i, new)}
<1>2. 0 \in S
  <2>1. g[0] = m
    BY <1>0, <1>1 DEF MoveTo
  <2>2. \A i \in Cells(b) : ~(i < 0) /\ i >= 0
    BY CellsAre
  <2>3. Rest(m.ports, m.bar, b, 0) /\ Others(m.ports, m.bar, b)
    BY DEF PortsGood, Owned, Rest, Others
  <2>4. Ahead(m.ports, m.bar, b, 0, new)
    BY <2>2 DEF Ahead
  <2>5. m = [m EXCEPT !.ports = m.ports, !.exited = m.exited]
    BY DEF MACHINE
  <2>6. Moving(m, m, b, 0, new)
    BY <2>3, <2>4, <2>5 DEF Moving, MACHINE, PortsGood
  <2>. QED BY <1>0, <2>1, <2>6
<1>3. ASSUME NEW k \in 0..N, k \in S, k < N PROVE k + 1 \in S
  <2>1. k \in 0..(N - 1) /\ k + 1 \in 0..N /\ k + 1 # 0 /\ (k + 1) - 1 = k
    BY <1>0, <1>3
  <2>2. g[k + 1] = PciMoveCell(g[k], b, k, value)
    BY <1>1, <2>1 DEF MoveTo
  <2>3. Moving(g[k + 1], m, b, k + 1, new)
    BY <1>0, <1>3, <2>1, <2>2, MoveCellKeeps
  <2>. QED BY <2>1, <2>3
<1>4. Moving(g[N], m, b, N, new)
  <2>1. N \in S
    <3>. HIDE DEF S
    <3>. QED BY <1>0, <1>2, <1>3, UpTo
  <2>. QED BY <2>1
<1>. DEFINE n == g[N]
<1>5. /\ n = [m EXCEPT !.ports = n.ports, !.exited = n.exited]
      /\ n.ports \in [Ports -> Handlers] /\ n.exited \in BOOLEAN /\ Kept(n.ports)
  BY <1>4 DEF Moving
<1>6. n \in MACHINE /\ n.bar = m.bar
  BY <1>5 DEF MACHINE
<1>7. Aligned(m.bar) /\ Owned(m.ports, m.bar) /\ Apart(m.bar) /\ m.bar \in [Bars -> BAR]
  BY DEF PortsGood, MACHINE
<1>8. CASE n.exited
  <2>1. n = [m EXCEPT !.ports = n.ports, !.bar = n.bar, !.exited = n.exited]
    BY <1>5, <1>6 DEF MACHINE
  <2>. QED BY <1>1, <1>5, <1>6, <1>7, <1>8, <2>1 DEF BarStep, PortsGood
<1>9. CASE ~n.exited
  <2>. DEFINE r == [n EXCEPT !.bar[b].addr = new]
  <2>1. /\ r.ports = n.ports /\ r.exited = FALSE
        /\ r.bar = [m.bar EXCEPT ![b].addr = new]
    BY <1>5, <1>6, <1>9 DEF MACHINE
  <2>2. /\ r.bar \in [Bars -> BAR]
        /\ r.bar[b].addr = new
        /\ \A c \in Bars \ {b} : r.bar[c].addr = m.bar[c].addr
    <3>. HIDE DEF r, n
    <3>1. new \in 0..(DWORD - 1)
      OBVIOUS
    <3>. HIDE DEF new
    <3>. QED BY <1>7, <2>1, <3>1 DEF BAR
  <2>3. r = [m EXCEPT !.ports = r.ports, !.bar = r.bar, !.exited = r.exited]
    BY <1>5, <1>6, <2>1 DEF MACHINE
  <2>. HIDE DEF r
  <2>4. Aligned(r.bar)
    BY <1>7, <2>2 DEF Aligned
  <2>5. \A i \in Cells(b) : i < N
    BY <1>0, CellsAre
  <2>6. Others(n.ports, m.bar, b) /\ Ahead(n.ports, m.bar, b, N, new)
    BY <1>4, <1>9 DEF Moving
  <2>7. Owned(r.ports, r.bar)
    <3>. SUFFICES ASSUME NEW c \in Bars, r.bar[c].addr # 0, NEW i \in Cells(c)
                  PROVE  /\ r.bar[c].addr + i \in Ports \ DOMAIN Fixed
                         /\ r.ports[r.bar[c].addr + i] = HandlerOf(c)
      BY DEF Owned
    <3>1. CASE c = b
      BY <2>1, <2>2, <2>5, <2>6, <3>1 DEF Ahead
    <3>2. CASE c # b
      BY <1>7, <2>1, <2>2, <2>6, <3>2 DEF Others, Owned
    <3>. QED BY <3>1, <3>2
  <2>8. \A c \in Bars \ {b} : m.bar[c].addr # 0 =>
           \A i \in Cells(b), j \in Cells(c) : new + i # m.bar[c].addr + j
    BY <2>5, <2>6 DEF Ahead
  <2>9. Apart(r.bar)
    <3>. SUFFICES ASSUME NEW c \in Bars, NEW d \in Bars, c # d, r.bar[c].addr # 0,
                         r.bar[d].addr # 0, NEW i \in Cells(c), NEW j \in Cells(d)
                  PROVE  r.bar[c].addr + i # r.bar[d].addr + j
      BY DEF Apart
    <3>1. CASE c = b
      BY <2>2, <2>8, <3>1
    <3>2. CASE d = b
      BY <2>2, <2>8, <3>2
    <3>3. CASE c # b /\ d # b
      BY <1>7, <2>2, <3>3 DEF Apart
    <3>. QED BY <3>1, <3>2, <3>3
  <2>10. BarStep(r, m)
    BY <1>5, <2>1, <2>2, <2>3, <2>4, <2>7, <2>9 DEF BarStep, PortsGood
  <2>. QED BY <1>1, <1>9, <2>10 DEF r
<1>. QED BY <1>8, <1>9

\* A register that is moved to where it is keeps its ports.
LEMMA MoveBarSame ==
    ASSUME NEW m \in MACHINE, ~m.exited, PortsGood(m.ports, m.bar, m.exited),
           NEW b \in Bars, NEW value
    PROVE  Base(value) = m.bar[b].addr /\ m.bar[b].addr # 0 =>
              /\ PciMoveBar(m, b, value).ports = m.ports
              /\ ~PciMoveBar(m, b, value).exited
<1>. DEFINE N == Size(b)
            a(i) == m.bar[b].addr + i
<1>0. N \in Nat
  BY CellsAre
<1>1. PICK g : /\ MoveTo(g, N, m, b, value)
               /\ PciMoveBar(m, b, value) =
                     IF g[N].exited THEN g[N]
                     ELSE [g[N] EXCEPT !.bar[b].addr = Base(value)]
  BY MoveBarRounds
<1>. HAVE Base(value) = m.bar[b].addr /\ m.bar[b].addr # 0
<1>2. ASSUME NEW k \in 0..(N - 1) PROVE PciMoveCell(m, b, k, value) = m
  <2>1. CASE k \in Mask(b)
    BY <2>1 DEF PciMoveCell
  <2>2. CASE k \notin Mask(b)
    <3>1. k \in Cells(b)
      BY <2>2 DEF Cells
    <3>2. a(k) \in Ports /\ m.ports[a(k)] = HandlerOf(b)
      BY <3>1 DEF PortsGood, Owned
    <3>3. m.ports[a(k)] # NoHandler
      BY <3>2, CellsAre
    <3>. DEFINE n == RemovePortIoHandler(m, a(k))
    <3>4. n = [m EXCEPT !.ports = [@ EXCEPT ![a(k)] = NoHandler]]
      BY <3>2, <3>3, RemoveOwn
    <3>5. /\ n.ports = [m.ports EXCEPT ![a(k)] = NoHandler]
          /\ ~n.exited /\ DOMAIN n = DOMAIN m
      BY <3>4 DEF MACHINE
    <3>6. n.ports[a(k)] = NoHandler /\ m.ports \in [Ports -> Handlers]
      BY <3>2, <3>5 DEF MACHINE
    <3>7. ~(a(k) >= WORD - 1)
      BY <3>2, PciAssumption DEF Ports
    <3>. DEFINE r == RegisterPortIoHandler(n, a(k), HandlerOf(b))
    <3>8. r = [n EXCEPT !.ports = [@ EXCEPT ![a(k)] = HandlerOf(b)]]
      BY <3>6, <3>7 DEF RegisterPortIoHandler
    <3>9. [n.ports EXCEPT ![a(k)] = HandlerOf(b)] = m.ports
      BY <3>2, <3>5, <3>6
    <3>10. r = m
      <4>. HIDE DEF n, r
      <4>1. r = [n EXCEPT !.ports = m.ports]
        BY <3>8, <3>9
      <4>. QED BY <3>4, <4>1 DEF MACHINE
    <3>11. PciMoveCell(m, b, k, value) = r
      BY <2>2, <3>5 DEF PciMoveCell, PciMovePort
    <3>. QED BY <3>10, <3>11
  <2>. QED BY <2>1, <2>2
<1>. DEFINE S == {i \in 0..N : g[i] = m}
<1>3. 0 \in S
  BY <1>0, <1>1 DEF MoveTo
<1>4. ASSUME NEW k \in 0..N, k \in S, k < N PROVE k + 1 \in S
  <2>1. k \in 0..(N - 1) /\ k + 1 \in 0..N /\ k + 1 # 0 /\ (k + 1) - 1 = k
    BY <1>0, <1>4
  <2>2. g[k + 1] = PciMoveCell(g[k], b, k, value)
    BY <1>1, <2>1 DEF MoveTo
  <2>. QED BY <1>2, <1>4, <2>1, <2>2
<1>5. g[N] = m
  <2>1. N \in S
    <3>. HIDE DEF S, N
    <3>1. \A i \in 0..N : i \in S
      BY <1>0, <1>3, <1>4, UpTo
    <3>. QED BY <1>0, <3>1
  <2>. QED BY <2>1
<1>. QED BY <1>1, <1>5 DEF MACHINE

-----------------------------------------------------------------------------
(***************************************************************************)
(* A write to a base address register.                                     *)
(***************************************************************************)

\* A number that another divides is a multiple of it.
LEMMA Divides ==
    ASSUME NEW n \in Nat, NEW d \in Nat \ {0}
    PROVE  /\ n = d * (n \div d) + (n % d)
           /\ n \div d \in Nat /\ n % d \in 0..(d - 1)
OBVIOUS

\* The two words: DWORD holds a whole number of WORDs, and both are even in
\* their two lowest bits.
LEMMA Words ==
    /\ WORD \in Nat \ {0} /\ DWORD \in Nat \ {0} /\ WORD < DWORD /\ 4 < WORD
    /\ DWORD = WORD * (DWORD \div WORD) /\ DWORD \div WORD \in Nat \ {0}
    /\ DWORD % 4 = 0 /\ WORD % 4 = 0
<1>1. /\ WORD \in Nat \ {0} /\ DWORD \in Nat \ {0} /\ WORD < DWORD /\ 4 < WORD
      /\ WORD % 4 = 0 /\ DWORD % WORD = 0
  BY PciAssumption
<1>2. DWORD = WORD * (DWORD \div WORD) /\ DWORD \div WORD \in Nat
  BY <1>1, Divides
<1>3. WORD = 4 * (WORD \div 4) /\ WORD \div 4 \in Nat
  BY <1>1
<1>. DEFINE d == DWORD \div WORD
            w == WORD \div 4
<1>4. DWORD = 4 * (w * d) /\ w * d \in Nat
  <2>1. WORD = 4 * w /\ DWORD = WORD * d /\ w \in Nat /\ d \in Nat
    BY <1>2, <1>3
  <2>. HIDE DEF w, d
  <2>. QED BY <2>1
<1>5. DWORD % 4 = 0
  <2>. DEFINE x == w * d
  <2>1. DWORD = 4 * x /\ x \in Nat
    BY <1>4
  <2>. HIDE DEF x
  <2>. QED BY <2>1
<1>6. d # 0
  BY <1>1, <1>2
<1>. QED BY <1>1, <1>2, <1>5, <1>6

\* The address a value holds.
LEMMA BaseOf ==
    ASSUME NEW value \in 0..(DWORD - 1)
    PROVE  /\ Base(value) \in 0..(DWORD - 4) /\ Base(value) \in 0..(DWORD - 1)
           /\ Base(value) % 4 = 0
           /\ Base(Base(value)) = Base(value)
<1>. DEFINE q == value \div 4
            e == DWORD \div 4
<1>1. value \in Nat /\ q \in Nat /\ value - (value % 4) = 4 * q
  BY Words
<1>2. e \in Nat /\ DWORD = 4 * e
  BY Words
<1>3. q < e
  BY <1>1, <1>2
<1>. HIDE DEF q, e
<1>4. Base(value) = 4 * q
  BY <1>1 DEF Base
<1>5. (4 * q) % 4 = 0 /\ 4 * q \in 0..(DWORD - 4) /\ 4 * q \in 0..(DWORD - 1)
  BY <1>1, <1>2, <1>3
<1>. QED BY <1>4, <1>5 DEF Base

\* What a register holds after a write has its width.
LEMMA ConfType ==
    ASSUME NEW old \in 0..(DWORD - 1), NEW length, NEW value \in 0..(DWORD - 1)
    PROVE  ConfOf(old, length, value) \in 0..(DWORD - 1)
<1>1. CASE length = 4
  BY <1>1, BaseOf, Words DEF ConfOf
<1>2. CASE length # 4
  <2>. DEFINE h == old \div WORD
              l == Base(value) % WORD
              d == DWORD \div WORD
  <2>1. old \in Nat /\ old = WORD * h + (old % WORD) /\ h \in Nat /\ old % WORD \in 0..(WORD - 1)
    <3>1. old \in Nat /\ WORD \in Nat \ {0}
      BY Words
    <3>. QED BY <3>1, Divides
  <2>2. Base(value) \in Nat /\ Base(value) % 4 = 0
    BY BaseOf, Words
  <2>3. l \in 0..(WORD - 1)
    BY <2>2, Words, Divides
  <2>4. l <= WORD - 4
    <3>. DEFINE v == Base(value)
                k == v \div WORD
                w == WORD \div 4
    <3>1. v = WORD * k + l /\ k \in Nat
      BY <2>2, Words, Divides
    <3>2. WORD = 4 * w /\ w \in Nat
      BY Words
    <3>3. v \in Nat /\ v = 4 * (v \div 4) /\ v \div 4 \in Nat
      BY <2>2
    <3>. DEFINE u == v \div 4
                x == w * k
    <3>4. WORD * k = 4 * x /\ x \in Nat
      <4>. HIDE DEF k, w
      <4>. QED BY <3>1, <3>2
    <3>6. v = 4 * u /\ u \in Nat
      BY <3>3
    <3>. HIDE DEF u, x, k, w, v, l
    <3>7. v = 4 * x + l
      BY <3>1, <3>4, Zenon
    <3>5. l = 4 * (u - x) /\ u - x \in Int
      BY <3>4, <3>6, <3>7, <2>3
    <3>. QED BY <3>2, <3>5, <2>3
  <2>5. h < d
    <3>1. DWORD = WORD * d /\ d \in Nat /\ WORD \in Nat \ {0}
      BY Words
    <3>2. WORD * h < WORD * d
      BY <2>1, <3>1
    <3>. HIDE DEF h, d
    <3>. QED BY <2>1, <3>1, <3>2
  <2>6. h * WORD \in Nat /\ h * WORD <= DWORD - WORD
    <3>1. DWORD = WORD * d /\ d \in Nat /\ WORD \in Nat \ {0}
      BY Words
    <3>. HIDE DEF h, d
    <3>. QED BY <2>1, <2>5, <3>1
  <2>. DEFINE z == h * WORD
  <2>7. ConfOf(old, length, value) = z + l + 1
    BY <1>2 DEF ConfOf
  <2>. HIDE DEF z, l, h, d
  <2>. QED BY <2>3, <2>4, <2>7, <2>6, Words DEF z
<1>. QED BY <1>1, <1>2

\* Only the addresses count.
LEMMA AddrCounts ==
    ASSUME NEW p, NEW br, NEW br2, NEW out, PortsGood(p, br, out),
           \A c \in Bars : br2[c].addr = br[c].addr
    PROVE  PortsGood(p, br2, out)
<1>1. Aligned(br2)
  BY DEF PortsGood, Aligned
<1>2. ~out => Owned(p, br2)
  BY DEF PortsGood, Owned
<1>3. ~out => Apart(br2)
  BY DEF PortsGood, Apart
<1>. QED BY <1>1, <1>2, <1>3 DEF PortsGood

\* A register gets another value, and keeps its ports.
WithConf(m, b, conf) == [m EXCEPT !.bar[b].conf = conf]
LEMMA SetConf ==
    ASSUME NEW m \in MACHINE, PortsGood(m.ports, m.bar, m.exited),
           NEW b \in Bars, NEW conf \in 0..(DWORD - 1)
    PROVE  /\ BarStep(WithConf(m, b, conf), m) /\ WithConf(m, b, conf) \in MACHINE
           /\ WithConf(m, b, conf).ports = m.ports
           /\ WithConf(m, b, conf).exited = m.exited
           /\ WithConf(m, b, conf).bar[b].addr = m.bar[b].addr
<1>. DEFINE n == WithConf(m, b, conf)
<1>1. /\ n.ports = m.ports /\ n.exited = m.exited
      /\ n.bar = [m.bar EXCEPT ![b].conf = conf]
  BY DEF MACHINE, WithConf
<1>2. m.bar \in [Bars -> BAR]
  BY DEF MACHINE
<1>3. /\ n.bar \in [Bars -> BAR]
      /\ \A c \in Bars : n.bar[c].addr = m.bar[c].addr
      /\ n.bar[b].conf = conf
  BY <1>1, <1>2 DEF BAR
<1>4. PortsGood(n.ports, n.bar, n.exited)
  BY <1>1, <1>3, AddrCounts
<1>5. n = [m EXCEPT !.ports = n.ports, !.bar = n.bar, !.exited = n.exited] /\ n \in MACHINE
  BY <1>1, <1>3 DEF MACHINE, WithConf
<1>. QED BY <1>1, <1>3, <1>4, <1>5 DEF BarStep, MACHINE

\* A register that is set to zero loses its first port and keeps none.
LEMMA DropBarGood ==
    ASSUME NEW m \in MACHINE, ~m.exited, PortsGood(m.ports, m.bar, m.exited),
           NEW b \in Bars
    PROVE  BarStep(PciDropBar(m, b), m)
<1>. DEFINE first == CHOOSE i \in Cells(b) : \A j \in Cells(b) : i <= j
            addr == m.bar[b].addr
            n == IF addr # 0 THEN RemovePortIoHandler(m, addr + first) ELSE m
            r == [n EXCEPT !.bar[b] = PciSetBarIo]
<1>1. first \in Cells(b)
  <2>1. \E i \in Cells(b) : \A j \in Cells(b) : i <= j
    <3>1. Cells(b) \subseteq Nat /\ Cells(b) # {}
      BY CellsAre
    <3>. QED BY <3>1, LeastNumber
  <2>. QED BY <2>1
<1>2. PciDropBar(m, b) = IF n.exited THEN n ELSE r
  BY DEF PciDropBar
<1>. HIDE DEF first
<1>3. /\ Owned(m.ports, m.bar) /\ Apart(m.bar) /\ Kept(m.ports) /\ Aligned(m.bar)
      /\ m.bar \in [Bars -> BAR] /\ m.ports \in [Ports -> Handlers]
  BY DEF PortsGood, MACHINE
<1>4. /\ n = [m EXCEPT !.ports = n.ports] /\ ~n.exited
      /\ n.ports \in [Ports -> Handlers] /\ Kept(n.ports)
      /\ \A c \in Bars \ {b} : m.bar[c].addr # 0 =>
             \A j \in Cells(c) : n.ports[m.bar[c].addr + j] = HandlerOf(c)
  <2>1. CASE addr = 0
    <3>1. n = m
      BY <2>1
    <3>2. m = [m EXCEPT !.ports = m.ports]
      BY DEF MACHINE
    <3>. HIDE DEF n
    <3>. QED BY <1>3, <3>1, <3>2 DEF Owned
  <2>2. CASE addr # 0
    <3>. DEFINE a == addr + first
    <3>1. a \in Ports /\ a \notin DOMAIN Fixed /\ m.ports[a] = HandlerOf(b)
      BY <1>1, <1>3, <2>2 DEF Owned
    <3>2. m.ports[a] # NoHandler
      BY <3>1, CellsAre
    <3>3. n = [m EXCEPT !.ports = [@ EXCEPT ![a] = NoHandler]]
      BY <2>2, <3>1, <3>2, RemoveOwn
    <3>. HIDE DEF n
    <3>4. n.ports = [m.ports EXCEPT ![a] = NoHandler] /\ ~n.exited
      BY <3>3 DEF MACHINE
    <3>5. n = [m EXCEPT !.ports = n.ports]
      BY <3>3, <3>4
    <3>6. n.ports \in [Ports -> Handlers]
      BY <1>3, <3>1, <3>4, CellsAre
    <3>7. Kept(n.ports)
      <4>1. DOMAIN Fixed \subseteq Ports
        BY PciAssumption DEF Ports
      <4>. QED BY <1>3, <3>1, <3>4, <4>1 DEF Kept
    <3>8. ASSUME NEW c \in Bars \ {b}, m.bar[c].addr # 0, NEW j \in Cells(c)
          PROVE  n.ports[m.bar[c].addr + j] = HandlerOf(c)
      <4>1. m.bar[c].addr + j \in Ports /\ m.ports[m.bar[c].addr + j] = HandlerOf(c)
        BY <1>3, <3>8 DEF Owned
      <4>2. m.bar[c].addr + j # a
        BY <1>1, <1>3, <2>2, <3>8 DEF Apart
      <4>. QED BY <1>3, <3>4, <4>1, <4>2
    <3>. QED BY <3>4, <3>5, <3>6, <3>7, <3>8
  <2>. QED BY <2>1, <2>2
<1>. HIDE DEF n
<1>5. /\ r.ports = n.ports /\ r.exited = FALSE
      /\ r.bar = [m.bar EXCEPT ![b] = PciSetBarIo]
  BY <1>4 DEF MACHINE
<1>6. r = [m EXCEPT !.ports = r.ports, !.bar = r.bar, !.exited = r.exited]
  BY <1>4, <1>5 DEF MACHINE
<1>. HIDE DEF r
<1>7. /\ r.bar \in [Bars -> BAR]
      /\ r.bar[b].addr = 0
      /\ \A c \in Bars \ {b} : r.bar[c].addr = m.bar[c].addr
  <2>1. PciSetBarIo \in BAR /\ PciSetBarIo.addr = 0
    BY Words DEF PciSetBarIo, BAR
  <2>. QED BY <1>3, <1>5, <2>1
<1>8. Aligned(r.bar)
  BY <1>3, <1>7 DEF Aligned
<1>9. Owned(r.ports, r.bar)
  BY <1>3, <1>4, <1>5, <1>7 DEF Owned
<1>10. Apart(r.bar)
  BY <1>3, <1>7 DEF Apart
<1>11. BarStep(r, m)
  BY <1>4, <1>5, <1>6, <1>7, <1>8, <1>9, <1>10 DEF BarStep, PortsGood
<1>. QED BY <1>2, <1>4, <1>11

\* One step after another.
LEMMA BarStepTwice ==
    ASSUME NEW m \in MACHINE, NEW n \in MACHINE, NEW r, BarStep(n, m), BarStep(r, n)
    PROVE  BarStep(r, m)
<1>1. /\ n = [m EXCEPT !.ports = n.ports, !.bar = n.bar, !.exited = n.exited]
      /\ r = [n EXCEPT !.ports = r.ports, !.bar = r.bar, !.exited = r.exited]
  BY DEF BarStep
<1>2. r = [m EXCEPT !.ports = r.ports, !.bar = r.bar, !.exited = r.exited]
  BY <1>1 DEF MACHINE
<1>. QED BY <1>2 DEF BarStep

\* A write of any length to a register keeps the promise of the ports.
LEMMA WriteBarGood ==
    ASSUME NEW m \in MACHINE, ~m.exited, PortsGood(m.ports, m.bar, m.exited),
           NEW b \in Bars, NEW length, NEW value \in 0..(DWORD - 1)
    PROVE  BarStep(PciWriteBar(m, b, length, value), m)
<1>. DEFINE conf == ConfOf(m.bar[b].conf, length, value)
            n == WithConf(m, b, conf)
<1>1. m.bar[b].conf \in 0..(DWORD - 1)
  BY DEF MACHINE, BAR
<1>2. conf \in 0..(DWORD - 1)
  BY <1>1, ConfType
<1>3. PciWriteBar(m, b, length, value) =
        IF conf = m.bar[b].conf THEN m
        ELSE IF value = DWORD - 1 THEN PciSizeBar(n, b)
        ELSE IF Base(value) = 0 THEN PciDropBar(n, b)
        ELSE PciMoveBar(n, b, value)
  BY DEF PciWriteBar, WithConf
<1>. HIDE DEF conf
<1>4. /\ n \in MACHINE /\ BarStep(n, m) /\ n.exited = m.exited
      /\ PortsGood(n.ports, n.bar, n.exited)
  <2>1. n \in MACHINE /\ BarStep(n, m) /\ n.exited = m.exited
    BY <1>2, SetConf
  <2>. QED BY <2>1 DEF BarStep
<1>. HIDE DEF n
<1>5. BarStep(m, m)
  <2>1. m = [m EXCEPT !.ports = m.ports, !.bar = m.bar, !.exited = m.exited]
    BY DEF MACHINE
  <2>. QED BY <2>1 DEF BarStep, MACHINE
<1>6. BarStep(PciSizeBar(n, b), n)
  <2>1. Base(DWORD - Size(b)) + 1 \in 0..(DWORD - 1)
    <3>1. DWORD - Size(b) \in 0..(DWORD - 1)
      BY PciAssumption
    <3>. QED BY <3>1, BaseOf, Words
  <2>. QED BY <1>4, <2>1, SetConf DEF PciSizeBar, WithConf
<1>7. BarStep(PciDropBar(n, b), n)
  BY <1>4, DropBarGood
<1>8. BarStep(PciMoveBar(n, b, value), n)
  BY <1>4, BaseOf, MoveBarGood
<1>. QED BY <1>3, <1>4, <1>5, <1>6, <1>7, <1>8, BarStepTwice

\* The guest asks for the size of a register and writes the address back.
LEMMA RestoreBar ==
    ASSUME NEW m \in MACHINE, ~m.exited, PortsGood(m.ports, m.bar, m.exited),
           NEW b \in Bars, m.bar[b].addr # 0
    PROVE  LET back == PciWriteBar(PciWriteBar(m, b, 4, DWORD - 1), b, 4, m.bar[b].addr)
           IN  back.ports = m.ports /\ ~back.exited
<1>. DEFINE n == PciWriteBar(m, b, 4, DWORD - 1)
            addr == m.bar[b].addr
<1>1. DWORD - 1 \in 0..(DWORD - 1) /\ addr \in 0..(DWORD - 1) /\ addr % 4 = 0
  BY Words DEF MACHINE, BAR, PortsGood, Aligned
<1>2. /\ n \in MACHINE /\ n.ports = m.ports /\ n.exited = m.exited
      /\ n.bar[b].addr = addr /\ PortsGood(n.ports, n.bar, n.exited)
  <2>. DEFINE conf == ConfOf(m.bar[b].conf, 4, DWORD - 1)
              k == WithConf(m, b, conf)
  <2>1. m.bar[b].conf \in 0..(DWORD - 1)
    BY DEF MACHINE, BAR
  <2>2. conf \in 0..(DWORD - 1)
    BY <1>1, <2>1, ConfType
  <2>3. n = IF conf = m.bar[b].conf THEN m ELSE PciSizeBar(k, b)
    BY DEF PciWriteBar, WithConf
  <2>. HIDE DEF n, conf
  <2>4. /\ k \in MACHINE /\ k.ports = m.ports /\ k.exited = m.exited
        /\ k.bar[b].addr = addr /\ PortsGood(k.ports, k.bar, k.exited)
    <3>1. /\ k \in MACHINE /\ k.ports = m.ports /\ k.exited = m.exited
          /\ k.bar[b].addr = addr /\ BarStep(k, m)
      BY <2>2, SetConf
    <3>. QED BY <3>1 DEF BarStep
  <2>. HIDE DEF k
  <2>. DEFINE z == PciSizeBar(k, b)
  <2>5. /\ z \in MACHINE /\ z.ports = m.ports /\ z.exited = m.exited
        /\ z.bar[b].addr = addr /\ PortsGood(z.ports, z.bar, z.exited)
    <3>1. Base(DWORD - Size(b)) + 1 \in 0..(DWORD - 1)
      <4>1. DWORD - Size(b) \in 0..(DWORD - 1)
        BY PciAssumption
      <4>. QED BY <4>1, BaseOf, Words
    <3>2. z = WithConf(k, b, Base(DWORD - Size(b)) + 1)
      BY DEF PciSizeBar, WithConf
    <3>. HIDE DEF z
    <3>3. /\ z \in MACHINE /\ z.ports = m.ports /\ z.exited = m.exited
          /\ z.bar[b].addr = addr /\ BarStep(z, k)
      BY <2>4, <3>1, <3>2, SetConf
    <3>. QED BY <3>3 DEF BarStep
  <2>. QED BY <2>3, <2>5
<1>. HIDE DEF n
<1>. DEFINE conf == ConfOf(n.bar[b].conf, 4, addr)
            k == WithConf(n, b, conf)
            back == PciWriteBar(n, b, 4, addr)
<1>3. Base(addr) = addr /\ addr # DWORD - 1
  BY <1>1, Words DEF Base
<1>4. back = IF conf = n.bar[b].conf THEN n ELSE PciMoveBar(k, b, addr)
  BY <1>3 DEF PciWriteBar, WithConf
<1>5. conf \in 0..(DWORD - 1)
  <2>1. n.bar[b].conf \in 0..(DWORD - 1)
    BY <1>2 DEF MACHINE, BAR
  <2>. QED BY <1>1, <2>1, ConfType
<1>. HIDE DEF conf
<1>6. /\ k \in MACHINE /\ k.ports = m.ports /\ k.exited = m.exited
      /\ k.bar[b].addr = addr /\ PortsGood(k.ports, k.bar, k.exited)
  <2>1. /\ k \in MACHINE /\ k.ports = m.ports /\ k.exited = m.exited
        /\ k.bar[b].addr = addr /\ BarStep(k, n)
    BY <1>2, <1>5, SetConf
  <2>. QED BY <2>1 DEF BarStep
<1>. HIDE DEF k
<1>7. PciMoveBar(k, b, addr).ports = m.ports /\ ~PciMoveBar(k, b, addr).exited
  BY <1>3, <1>6, MoveBarSame
<1>. QED BY <1>2, <1>4, <1>7 DEF n

-----------------------------------------------------------------------------
(***************************************************************************)
(* The search by halves.                                                   *)
(***************************************************************************)

SeekStart == [left |-> 0, right |-> mem_slots_num, i |-> 0, found |-> FALSE]
SeekTo(g, n, s, a, z) ==
    g = [k \in 0..n |-> IF k = 0 THEN SeekStart ELSE SlotRound(s, a, z, g[k - 1])]

\* The rounds of the search exist.
LEMMA SeekRounds ==
    ASSUME NEW s, NEW a, NEW z, NEW n \in Nat
    PROVE  \E g : SeekTo(g, n, s, a, z)
<1>. DEFINE S == {i \in Nat : \E g : SeekTo(g, i, s, a, z)}
<1>1. 0 \in S
  <2>. DEFINE g == [i \in 0..0 |-> SeekStart]
  <2>1. SeekTo(g, 0, s, a, z)
    BY DEF SeekTo
  <2>. QED BY <2>1
<1>2. ASSUME NEW k \in 0..n, k \in S, k < n PROVE k + 1 \in S
  <2>1. PICK g : SeekTo(g, k, s, a, z)
    BY <1>2
  <2>. DEFINE h == [i \in 0..(k + 1) |->
                      IF i = k + 1 THEN SlotRound(s, a, z, g[k]) ELSE g[i]]
              r == [i \in 0..(k + 1) |->
                      IF i = 0 THEN SeekStart ELSE SlotRound(s, a, z, h[i - 1])]
  <2>2. ASSUME NEW i \in 0..(k + 1) PROVE h[i] = r[i]
    <3>1. CASE i = 0
      <4>1. h[i] = g[0] /\ 0 \in 0..k
        BY <3>1
      <4>2. g[0] = SeekStart
        BY <2>1, <4>1 DEF SeekTo
      <4>. QED BY <3>1, <4>1, <4>2
    <3>2. CASE i = k + 1
      <4>1. i # 0 /\ i - 1 = k /\ h[i - 1] = g[k]
        BY <3>2
      <4>. QED BY <3>2, <4>1
    <3>3. CASE i # 0 /\ i # k + 1
      <4>1. i \in 0..k /\ i - 1 \in 0..k /\ i # k + 1 /\ i - 1 # k + 1
        BY <3>3
      <4>2. h[i] = g[i] /\ h[i - 1] = g[i - 1]
        BY <4>1
      <4>3. g[i] = SlotRound(s, a, z, g[i - 1])
        BY <2>1, <3>3, <4>1 DEF SeekTo
      <4>. QED BY <3>3, <4>2, <4>3
    <3>. QED BY <3>1, <3>2, <3>3
  <2>3. h = r
    BY <2>2
  <2>4. SeekTo(h, k + 1, s, a, z)
    BY <2>3 DEF SeekTo
  <2>. QED BY <2>4
<1>. HIDE DEF S
<1>3. n \in S
  BY <1>1, <1>2, UpTo
<1>. QED BY <1>3 DEF S

\* The first four rounds, and what the search returns once it has found a region.
LEMMA SlotRounds ==
    ASSUME NEW s, NEW a, NEW z
    PROVE  \E g : /\ g[0] = SeekStart
                  /\ \A k \in 0..mem_slots_num : g[k + 1] = SlotRound(s, a, z, g[k])
                  /\ Slot(s, a, z) = g[mem_slots_num + 1].i
<1>. DEFINE f[n \in 0..(mem_slots_num + 1)] ==
              IF n = 0 THEN SeekStart ELSE SlotRound(s, a, z, f[n - 1])
            N == mem_slots_num + 1
<1>1. N \in Nat /\ N = 9 /\ mem_slots_num = 8
  BY DEF mem_slots_num
<1>2. \E g : SeekTo(g, N, s, a, z)
  BY <1>1, SeekRounds
<1>3. SeekTo(f, N, s, a, z)
  BY <1>2 DEF SeekTo
<1>4. Slot(s, a, z) = f[N].i
  BY DEF Slot, SeekStart
<1>. HIDE DEF f
<1>5. f[0] = SeekStart
  BY <1>1, <1>3 DEF SeekTo
<1>6. ASSUME NEW k \in 0..mem_slots_num PROVE f[k + 1] = SlotRound(s, a, z, f[k])
  <2>1. k + 1 \in 0..N /\ k + 1 # 0 /\ (k + 1) - 1 = k
    BY <1>1
  <2>. QED BY <1>3, <2>1 DEF SeekTo
<1>. QED BY <1>4, <1>5, <1>6

\* A search that has found its region stays with it.
LEMMA FoundStays ==
    ASSUME NEW s, NEW a, NEW z, NEW g, NEW j, NEW k \in 0..(mem_slots_num + 1),
           \A n \in 0..mem_slots_num : g[n + 1] = SlotRound(s, a, z, g[n]),
           g[k].found, g[k].i = j
    PROVE  g[mem_slots_num + 1].i = j
<1>0. mem_slots_num = 8
  BY DEF mem_slots_num
<1>1. ASSUME NEW n \in 0..mem_slots_num, g[n].found, g[n].i = j
      PROVE  g[n + 1].found /\ g[n + 1].i = j
  BY <1>1 DEF SlotRound
<1>. DEFINE S == {i \in 0..(9 - k) : g[k + i].found /\ g[k + i].i = j}
<1>2. 0 \in S /\ 9 - k \in Nat
  BY <1>0
<1>3. ASSUME NEW n \in 0..(9 - k), n \in S, n < 9 - k PROVE n + 1 \in S
  <2>1. k + n \in 0..mem_slots_num /\ k + (n + 1) = (k + n) + 1 /\ n + 1 \in 0..(9 - k)
    BY <1>0, <1>3
  <2>2. g[k + n].found /\ g[k + n].i = j
    BY <1>3
  <2>3. g[(k + n) + 1].found /\ g[(k + n) + 1].i = j
    BY <1>1, <2>1, <2>2
  <2>. QED BY <2>1, <2>3
<1>4. 9 - k \in S
  <2>. HIDE DEF S
  <2>1. \A i \in 0..(9 - k) : i \in S
    BY <1>2, <1>3, UpTo
  <2>. QED BY <1>2, <2>1
<1>5. k + (9 - k) = mem_slots_num + 1
  BY <1>0
<1>. QED BY <1>4, <1>5

\* The regions do not move: mem_slots stays sorted as gvm_init left it.
Layout(s) ==
    /\ s \in [0..mem_slots_num -> SLOT]
    /\ \A i \in 0..mem_slots_num :
           s[i].gpa = gvm_init[i].gpa /\ s[i].size = gvm_init[i].size

\* Where the regions are.
LEMMA LayoutIs ==
    ASSUME NEW s, Layout(s)
    PROVE  /\ s[0].gpa = 0 /\ End(s[0]) = 3
           /\ s[1].gpa = 3 /\ End(s[1]) = 5
           /\ s[2].gpa = 5 /\ End(s[2]) = 10
           /\ s[3].gpa = 10 /\ End(s[3]) = 12
           /\ s[4].gpa = 12 /\ End(s[4]) = 14
           /\ s[5].gpa = 14 /\ End(s[5]) = 16
           /\ s[6].gpa = 16 /\ End(s[6]) = RamSize
           /\ s[7].gpa = 65534 /\ End(s[7]) = 65536
<1>1. \A i \in 0..8 : s[i].gpa = gvm_init[i].gpa /\ s[i].size = gvm_init[i].size
  BY DEF Layout, mem_slots_num
<1>2. /\ gvm_init[0] = Region(0, 3, "RAM")
      /\ gvm_init[1] = Region(3, 2, "RAM")
      /\ gvm_init[2] = Region(5, 5, "RAM")
      /\ gvm_init[3] = Region(VgaWindow, 2, "ROM")
  BY DEF gvm_init, mem_slots_num
<1>3. /\ gvm_init[4] = Region(12, 2, "ROM")
      /\ gvm_init[5] = Region(14, 2, "ROM")
      /\ gvm_init[6] = Region(16, RamSize - 16, "RAM")
      /\ gvm_init[7] = Region(65534, 2, "ROM")
  BY DEF gvm_init, mem_slots_num
<1>4. /\ s[0].gpa = 0 /\ s[0].size = 3
      /\ s[1].gpa = 3 /\ s[1].size = 2
      /\ s[2].gpa = 5 /\ s[2].size = 5
      /\ s[3].gpa = 10 /\ s[3].size = 2
  BY <1>1, <1>2 DEF Region, VgaWindow
<1>5. /\ s[4].gpa = 12 /\ s[4].size = 2
      /\ s[5].gpa = 14 /\ s[5].size = 2
      /\ s[6].gpa = 16 /\ s[6].size = RamSize - 16
      /\ s[7].gpa = 65534 /\ s[7].size = 2
  BY <1>1, <1>3 DEF Region
<1>. QED BY <1>4, <1>5, GvmAssumption DEF End

\* One round that looks at entry i of the range from l to r.
At(w, l, r) == w.left = l /\ w.right = r /\ w.found = FALSE
LEMMA RoundAt ==
    ASSUME NEW s, NEW a, NEW z, NEW w, NEW l \in Int, NEW r \in Int, At(w, l, r),
           l <= r, NEW i \in Int, i = (l + r) \div 2
    PROVE  /\ Behind(s[i], a) => At(SlotRound(s, a, z, w), i + 1, r)
           /\ ~Behind(s[i], a) /\ ~Holds(s[i], a, z) =>
                  At(SlotRound(s, a, z, w), l, i - 1)
           /\ ~Behind(s[i], a) /\ Holds(s[i], a, z) =>
                  SlotRound(s, a, z, w).found /\ SlotRound(s, a, z, w).i = i
<1>1. w.left = l /\ w.right = r /\ w.found = FALSE
  BY DEF At
<1>2. (w.left + w.right) \div 2 = i /\ ~(w.left > w.right)
  BY <1>1
<1>3. SlotRound(s, a, z, w) =
        IF Behind(s[i], a) THEN [left |-> i + 1, right |-> r, i |-> i, found |-> FALSE]
        ELSE IF Holds(s[i], a, z) THEN [left |-> l, right |-> r, i |-> i, found |-> TRUE]
        ELSE [left |-> l, right |-> i - 1, i |-> i, found |-> FALSE]
  BY <1>1, <1>2 DEF SlotRound
<1>5. CASE Behind(s[i], a)
  <2>1. SlotRound(s, a, z, w) = [left |-> i + 1, right |-> r, i |-> i, found |-> FALSE]
    BY <1>3, <1>5
  <2>. QED BY <1>5, <2>1 DEF At
<1>6. CASE ~Behind(s[i], a) /\ Holds(s[i], a, z)
  <2>1. SlotRound(s, a, z, w) = [left |-> l, right |-> r, i |-> i, found |-> TRUE]
    BY <1>3, <1>6
  <2>. QED BY <1>6, <2>1
<1>7. CASE ~Behind(s[i], a) /\ ~Holds(s[i], a, z)
  <2>1. SlotRound(s, a, z, w) = [left |-> l, right |-> i - 1, i |-> i, found |-> FALSE]
    BY <1>3, <1>7
  <2>. QED BY <1>7, <2>1 DEF At
<1>. QED BY <1>5, <1>6, <1>7

\* A range of addresses inside a region is found, whatever the regions hold.
LEMMA SlotIs ==
    ASSUME NEW s, Layout(s), NEW j \in 0..7, NEW a \in Nat, NEW z \in Nat \ {0},
           Holds(s[j], a, z)
    PROVE  Slot(s, a, z) = j
<1>0. PICK g : /\ g[0] = SeekStart
               /\ \A k \in 0..mem_slots_num : g[k + 1] = SlotRound(s, a, z, g[k])
               /\ Slot(s, a, z) = g[mem_slots_num + 1].i
  BY SlotRounds
<1>1. /\ At(g[0], 0, 8)
      /\ g[1] = SlotRound(s, a, z, g[0]) /\ g[2] = SlotRound(s, a, z, g[1])
      /\ g[3] = SlotRound(s, a, z, g[2]) /\ g[4] = SlotRound(s, a, z, g[3])
  <2>1. mem_slots_num = 8
    BY DEF mem_slots_num
  <2>2. g[0 + 1] = SlotRound(s, a, z, g[0]) /\ g[1 + 1] = SlotRound(s, a, z, g[1])
    BY <1>0, <2>1
  <2>3. g[2 + 1] = SlotRound(s, a, z, g[2]) /\ g[3 + 1] = SlotRound(s, a, z, g[3])
    BY <1>0, <2>1
  <2>4. At(g[0], 0, 8)
    BY <1>0, <2>1 DEF SeekStart, At
  <2>. QED BY <2>2, <2>3, <2>4
<1>2. /\ s[0].gpa = 0 /\ End(s[0]) = 3
      /\ s[1].gpa = 3 /\ End(s[1]) = 5
      /\ s[2].gpa = 5 /\ End(s[2]) = 10
      /\ s[3].gpa = 10 /\ End(s[3]) = 12
      /\ s[4].gpa = 12 /\ End(s[4]) = 14
      /\ s[5].gpa = 14 /\ End(s[5]) = 16
      /\ s[6].gpa = 16 /\ End(s[6]) = RamSize
      /\ s[7].gpa = 65534 /\ End(s[7]) = 65536
      /\ RamSize \in 18..4096
  BY LayoutIs, GvmAssumption
<1>3. s[j].gpa <= a /\ a + z <= End(s[j])
  BY DEF Holds
<1>b. \A i \in 0..7 : /\ i < j => Behind(s[i], a)
                      /\ i > j => ~Behind(s[i], a) /\ ~Holds(s[i], a, z)
  <2>1. ASSUME NEW i \in 0..7
        PROVE  s[i].gpa \in Int /\ End(s[i]) \in Int /\ s[i].gpa < End(s[i])
    <3>1. i = 0 \/ i = 1 \/ i = 2 \/ i = 3 \/ i = 4 \/ i = 5 \/ i = 6 \/ i = 7
      OBVIOUS
    <3>2. RamSize \in Int /\ 16 < RamSize
      BY GvmAssumption
    <3>3. CASE i = 6
      BY <1>2, <3>2, <3>3
    <3>4. CASE i \in {0, 1, 2, 3}
      BY <1>2, <3>4
    <3>5. CASE i \in {4, 5, 7}
      BY <1>2, <3>5
    <3>. QED BY <3>1, <3>3, <3>4, <3>5
  <2>2. ASSUME NEW i \in 0..7, NEW k \in 0..7, i < k PROVE End(s[i]) <= s[k].gpa
    <3>1. i = 0 \/ i = 1 \/ i = 2 \/ i = 3 \/ i = 4 \/ i = 5 \/ i = 6
      BY <2>2
    <3>2. k = 1 \/ k = 2 \/ k = 3 \/ k = 4 \/ k = 5 \/ k = 6 \/ k = 7
      BY <2>2
    <3>3. CASE i \in {0, 1}
      BY <1>2, <2>2, <3>2, <3>3
    <3>4. CASE i \in {2, 3}
      BY <1>2, <2>2, <3>2, <3>4
    <3>5. CASE i \in {4, 5}
      BY <1>2, <2>2, <3>2, <3>5
    <3>6. CASE i = 6
      <4>1. k = 7
        BY <2>2, <3>6
      <4>2. RamSize \in Int /\ RamSize <= 65534
        BY GvmAssumption
      <4>3. End(s[i]) = RamSize /\ s[k].gpa = 65534
        BY <1>2, <3>6, <4>1
      <4>. QED BY <4>2, <4>3
    <3>. QED BY <3>1, <3>3, <3>4, <3>5, <3>6
  <2>3. ASSUME NEW i \in 0..7, i < j PROVE Behind(s[i], a)
    <3>1. End(s[i]) <= s[j].gpa
      BY <2>2, <2>3
    <3>. QED BY <1>3, <2>1, <3>1 DEF Behind
  <2>4. ASSUME NEW i \in 0..7, i > j PROVE ~Behind(s[i], a) /\ ~Holds(s[i], a, z)
    <3>1. End(s[j]) <= s[i].gpa
      BY <2>2, <2>4
    <3>2. a < s[i].gpa
      BY <1>3, <2>1, <3>1
    <3>. QED BY <2>1, <3>2 DEF Behind, Holds
  <2>. QED BY <2>3, <2>4
<1>c. ~Behind(s[j], a)
  BY <1>2, <1>3 DEF Behind
<1>4. \A k \in 1..4 : g[k].found /\ g[k].i = j => g[mem_slots_num + 1].i = j
  <2>1. \A k \in 1..4 : k \in 0..(mem_slots_num + 1)
    BY DEF mem_slots_num
  <2>. QED BY <1>0, <2>1, FoundStays
<1>5. SUFFICES \E k \in 1..4 : g[k].found /\ g[k].i = j
  BY <1>0, <1>4
<1>6. CASE j = 4
  <2>1. g[1].found /\ g[1].i = 4
    BY <1>1, <1>c, <1>6, RoundAt
  <2>. QED BY <1>6, <2>1
<1>7. CASE j \in 0..3
  <2>1. At(g[1], 0, 3)
    <3>1. ~Behind(s[4], a) /\ ~Holds(s[4], a, z)
      BY <1>b, <1>7
    <3>. QED BY <1>1, <3>1, RoundAt
  <2>2. CASE j = 1
    <3>1. g[2].found /\ g[2].i = 1
      BY <1>1, <1>c, <2>1, <2>2, RoundAt
    <3>. QED BY <2>2, <3>1
  <2>3. CASE j = 0
    <3>1. ~Behind(s[1], a) /\ ~Holds(s[1], a, z)
      BY <1>b, <2>3
    <3>2. At(g[2], 0, 0)
      BY <1>1, <2>1, <3>1, RoundAt
    <3>3. g[3].found /\ g[3].i = 0
      BY <1>1, <1>c, <2>3, <3>2, RoundAt
    <3>. QED BY <2>3, <3>3
  <2>4. CASE j \in 2..3
    <3>1. Behind(s[1], a)
      BY <1>b, <2>4
    <3>2. At(g[2], 2, 3)
      BY <1>1, <2>1, <3>1, RoundAt
    <3>3. CASE j = 2
      <4>1. g[3].found /\ g[3].i = 2
        BY <1>1, <1>c, <3>2, <3>3, RoundAt
      <4>. QED BY <3>3, <4>1
    <3>4. CASE j = 3
      <4>1. Behind(s[2], a)
        BY <1>b, <3>4
      <4>2. At(g[3], 3, 3)
        BY <1>1, <3>2, <4>1, RoundAt
      <4>3. g[4].found /\ g[4].i = 3
        BY <1>1, <1>c, <3>4, <4>2, RoundAt
      <4>. QED BY <3>4, <4>3
    <3>. QED BY <2>4, <3>3, <3>4
  <2>. QED BY <1>7, <2>2, <2>3, <2>4
<1>8. CASE j \in 5..7
  <2>1. At(g[1], 5, 8)
    <3>1. Behind(s[4], a)
      BY <1>b, <1>8
    <3>. QED BY <1>1, <3>1, RoundAt
  <2>2. CASE j = 6
    <3>1. g[2].found /\ g[2].i = 6
      BY <1>1, <1>c, <2>1, <2>2, RoundAt
    <3>. QED BY <2>2, <3>1
  <2>3. CASE j = 5
    <3>1. ~Behind(s[6], a) /\ ~Holds(s[6], a, z)
      BY <1>b, <2>3
    <3>2. At(g[2], 5, 5)
      BY <1>1, <2>1, <3>1, RoundAt
    <3>3. g[3].found /\ g[3].i = 5
      BY <1>1, <1>c, <2>3, <3>2, RoundAt
    <3>. QED BY <2>3, <3>3
  <2>4. CASE j = 7
    <3>1. Behind(s[6], a)
      BY <1>b, <2>4
    <3>2. At(g[2], 7, 8)
      BY <1>1, <2>1, <3>1, RoundAt
    <3>3. g[3].found /\ g[3].i = 7
      BY <1>1, <1>c, <2>4, <3>2, RoundAt
    <3>. QED BY <2>4, <3>3
  <2>. QED BY <1>8, <2>2, <2>3, <2>4
<1>. QED BY <1>6, <1>7, <1>8

-----------------------------------------------------------------------------
(***************************************************************************)
(* System management memory.                                               *)
(***************************************************************************)

\* Of the two regions that system management memory is shown in, the one at its
\* first base is ever shown from there only, and closed both are out of sight.
SlotsGood(s, base, open) ==
    /\ Layout(s)
    /\ base \in {3, VgaWindow}
    /\ \A i \in 0..mem_slots_num \ {1, 3} : s[i].host # "SMRAM"
    /\ s[1].host = "SMRAM" => base = 3
    /\ ~open => s[1].host # "SMRAM" /\ ~s[3].mapped
RegionOf(base) == IF base = 3 THEN 1 ELSE 3

\* The search finds the two regions.
LEMMA RegionFound ==
    ASSUME NEW s, Layout(s), NEW base \in {3, VgaWindow}
    PROVE  /\ Slot(s, base, SMM_RAM_SIZE) = RegionOf(base)
           /\ RegionOf(base) \in 0..mem_slots_num
           /\ s[RegionOf(base)].gpa = base /\ End(s[RegionOf(base)]) = base + 2
<1>1. /\ s[1].gpa = 3 /\ End(s[1]) = 5
      /\ s[3].gpa = 10 /\ End(s[3]) = 12
  BY LayoutIs
<1>2. CASE base = 3
  <2>1. Holds(s[1], 3, 2)
    BY <1>1 DEF Holds
  <2>2. Slot(s, 3, 2) = 1
    BY <2>1, SlotIs
  <2>. QED BY <1>1, <1>2, <2>2 DEF RegionOf, SMM_RAM_SIZE, mem_slots_num
<1>3. CASE base = 10
  <2>1. Holds(s[3], 10, 2)
    BY <1>1 DEF Holds
  <2>2. Slot(s, 10, 2) = 3
    BY <2>1, SlotIs
  <2>. QED BY <1>1, <1>3, <2>2 DEF RegionOf, SMM_RAM_SIZE, mem_slots_num
<1>. QED BY <1>2, <1>3 DEF VgaWindow

\* Taking a region from the guest.
LEMMA UnmapIs ==
    ASSUME NEW s, Layout(s), NEW base \in {3, VgaWindow}, NEW t,
           t = gvm_unmap_memory(s, base, SMM_RAM_SIZE)
    PROVE  /\ Layout(t)
           /\ ~t[RegionOf(base)].mapped
           /\ t[RegionOf(base)].host = s[RegionOf(base)].host
           /\ \A i \in 0..mem_slots_num \ {RegionOf(base)} : t[i] = s[i]
<1>. DEFINE j == RegionOf(base)
<1>1. /\ Slot(s, base, SMM_RAM_SIZE) = j /\ j \in 0..mem_slots_num
      /\ s[j].gpa = base /\ End(s[j]) = base + 2
  BY RegionFound
<1>. HIDE DEF j
<1>2. ~(s[j].gpa > base) /\ ~(End(s[j]) < base)
  <2>1. base \in Int
    BY DEF VgaWindow
  <2>. QED BY <1>1, <2>1
<1>3. t = [s EXCEPT ![j].mapped = FALSE]
  BY <1>1, <1>2 DEF gvm_unmap_memory
<1>4. s \in [0..mem_slots_num -> SLOT]
  BY DEF Layout
<1>5. /\ t \in [0..mem_slots_num -> SLOT]
      /\ ~t[j].mapped /\ t[j].host = s[j].host
      /\ t[j].gpa = s[j].gpa /\ t[j].size = s[j].size
      /\ \A i \in 0..mem_slots_num \ {j} : t[i] = s[i]
  BY <1>1, <1>3, <1>4, ZenonT(60) DEF SLOT
<1>6. Layout(t)
  BY <1>5 DEF Layout
<1>. QED BY <1>5, <1>6 DEF j

\* Giving the guest a region.
LEMMA MapIs ==
    ASSUME NEW s, Layout(s), NEW base \in {3, VgaWindow}, NEW host \in Host, NEW t,
           t = gvm_map_memory(s, base, SMM_RAM_SIZE, host)
    PROVE  /\ Layout(t)
           /\ t[RegionOf(base)].mapped /\ t[RegionOf(base)].host = host
           /\ \A i \in 0..mem_slots_num \ {RegionOf(base)} : t[i] = s[i]
<1>. DEFINE j == RegionOf(base)
<1>1. Slot(s, base, SMM_RAM_SIZE) = j /\ j \in 0..mem_slots_num
  BY RegionFound
<1>. HIDE DEF j
<1>3. t = [s EXCEPT ![j].host = host, ![j].mapped = TRUE]
  BY <1>1 DEF gvm_map_memory
<1>4. s \in [0..mem_slots_num -> SLOT]
  BY DEF Layout
<1>5. /\ t \in [0..mem_slots_num -> SLOT]
      /\ t[j].mapped /\ t[j].host = host
      /\ t[j].gpa = s[j].gpa /\ t[j].size = s[j].size
      /\ \A i \in 0..mem_slots_num \ {j} : t[i] = s[i]
  <2>. DEFINE e == [s[j] EXCEPT !.host = host, !.mapped = TRUE]
  <2>1. s[j] \in SLOT
    BY <1>1, <1>4
  <2>2. /\ e \in SLOT /\ e.mapped /\ e.host = host
        /\ e.gpa = s[j].gpa /\ e.size = s[j].size
    BY <2>1 DEF SLOT
  <2>3. t = [s EXCEPT ![j] = e]
    BY <1>1, <1>3, <1>4
  <2>. HIDE DEF e
  <2>. QED BY <1>1, <1>4, <2>2, <2>3
<1>6. Layout(t)
  BY <1>5 DEF Layout
<1>. QED BY <1>5, <1>6 DEF j

\* Where the regions are when the monitor starts.
LEMMA SlotsStart ==
    SlotsGood(gvm_register_mmio(gvm_init, VgaWindow, SMM_RAM_SIZE), 3, FALSE)
<1>. DEFINE t == gvm_unmap_memory(gvm_init, VgaWindow, SMM_RAM_SIZE)
<1>1. gvm_init \in [0..mem_slots_num -> SLOT]
  <2>1. ASSUME NEW i \in 0..mem_slots_num PROVE gvm_init[i] \in SLOT
    <3>1. \A gpa \in Nat, size \in Nat, host \in Host : Region(gpa, size, host) \in SLOT
      BY DEF Region, SLOT
    <3>2. /\ RamSize - 16 \in Nat /\ VgaWindow \in Nat /\ "RAM" \in Host
          /\ "ROM" \in Host /\ "NONE" \in Host
      BY GvmAssumption DEF VgaWindow, Host
    <3>3. [gpa |-> 0, size |-> 0, host |-> "NONE", mapped |-> FALSE] \in SLOT
      BY <3>2 DEF SLOT
    <3>4. /\ Region(0, 3, "RAM") \in SLOT /\ Region(3, 2, "RAM") \in SLOT
          /\ Region(5, 5, "RAM") \in SLOT /\ Region(VgaWindow, 2, "ROM") \in SLOT
          /\ Region(12, 2, "ROM") \in SLOT /\ Region(14, 2, "ROM") \in SLOT
          /\ Region(16, RamSize - 16, "RAM") \in SLOT
          /\ Region(65534, 2, "ROM") \in SLOT
      BY <3>1, <3>2
    <3>. QED BY <3>3, <3>4 DEF gvm_init
  <2>2. gvm_init = [i \in 0..mem_slots_num |-> gvm_init[i]]
    BY DEF gvm_init
  <2>. QED BY <2>1, <2>2
<1>2. Layout(gvm_init)
  BY <1>1 DEF Layout
<1>3. \A i \in 0..mem_slots_num : gvm_init[i].host # "SMRAM"
  BY DEF gvm_init, Region, mem_slots_num
<1>4. RegionOf(VgaWindow) = 3
  BY DEF RegionOf, VgaWindow
<1>5. /\ Layout(t) /\ ~t[3].mapped /\ t[3].host = gvm_init[3].host
      /\ \A i \in 0..mem_slots_num \ {3} : t[i] = gvm_init[i]
  BY <1>2, <1>4, UnmapIs
<1>. HIDE DEF t
<1>6. SlotsGood(t, 3, FALSE)
  BY <1>3, <1>5 DEF SlotsGood, mem_slots_num
<1>. QED BY <1>6 DEF gvm_register_mmio, t

\* Opening system management memory.
LEMMA OpenGood ==
    ASSUME NEW m, NEW open, SlotsGood(m.slots, m.smbase, open)
    PROVE  LET s1 == gvm_unmap_memory(m.slots, m.smbase, SMM_RAM_SIZE)
               s2 == gvm_map_memory(s1, m.smbase, SMM_RAM_SIZE, "SMRAM")
               s3 == gvm_map_memory(s2, VgaWindow, SMM_RAM_SIZE, "SMRAM")
           IN  SlotsGood(s3, m.smbase, TRUE)
<1>. DEFINE base == m.smbase
            s == m.slots
            s1 == gvm_unmap_memory(s, base, SMM_RAM_SIZE)
            s2 == gvm_map_memory(s1, base, SMM_RAM_SIZE, "SMRAM")
            s3 == gvm_map_memory(s2, VgaWindow, SMM_RAM_SIZE, "SMRAM")
<1>0. base \in {3, VgaWindow} /\ Layout(s) /\ "SMRAM" \in Host
  BY DEF SlotsGood, Host
<1>1. /\ Layout(s1) /\ s1[RegionOf(base)].host = s[RegionOf(base)].host
      /\ \A i \in 0..mem_slots_num \ {RegionOf(base)} : s1[i] = s[i]
  BY <1>0, UnmapIs
<1>. HIDE DEF s1
<1>2. /\ Layout(s2)
      /\ \A i \in 0..mem_slots_num \ {RegionOf(base)} : s2[i] = s1[i]
  BY <1>0, <1>1, MapIs
<1>. HIDE DEF s2
<1>3. RegionOf(VgaWindow) = 3
  BY DEF RegionOf, VgaWindow
<1>4. /\ Layout(s3)
      /\ \A i \in 0..mem_slots_num \ {3} : s3[i] = s2[i]
  BY <1>0, <1>2, <1>3, MapIs
<1>. HIDE DEF s3
<1>5. \A i \in 0..mem_slots_num \ {1, 3} : s3[i] = s[i]
  BY <1>1, <1>2, <1>4 DEF RegionOf
<1>6. base # 3 => s3[1] = s[1]
  BY <1>1, <1>2, <1>4 DEF RegionOf, mem_slots_num
<1>7. SlotsGood(s3, base, TRUE)
  BY <1>0, <1>4, <1>5, <1>6 DEF SlotsGood
<1>. QED BY <1>7 DEF s1, s2, s3

\* Closing it: the window is the display's again, and memory is back below it.
LEMMA CloseGood ==
    ASSUME NEW m, NEW open, SlotsGood(m.slots, m.smbase, open)
    PROVE  LET s1 == gvm_unmap_memory(m.slots, m.smbase, SMM_RAM_SIZE)
               s2 == gvm_map_memory(s1, m.smbase, SMM_RAM_SIZE, "RAM")
               s3 == gvm_register_mmio(s2, VgaWindow, SMM_RAM_SIZE)
           IN  SlotsGood(s3, VgaWindow, FALSE)
<1>. DEFINE base == m.smbase
            s == m.slots
            s1 == gvm_unmap_memory(s, base, SMM_RAM_SIZE)
            s2 == gvm_map_memory(s1, base, SMM_RAM_SIZE, "RAM")
            s3 == gvm_unmap_memory(s2, VgaWindow, SMM_RAM_SIZE)
<1>0. base \in {3, VgaWindow} /\ Layout(s) /\ "RAM" \in Host
  BY DEF SlotsGood, Host
<1>1. /\ Layout(s1)
      /\ \A i \in 0..mem_slots_num \ {RegionOf(base)} : s1[i] = s[i]
  BY <1>0, UnmapIs
<1>. HIDE DEF s1
<1>2. /\ Layout(s2) /\ s2[RegionOf(base)].host = "RAM"
      /\ \A i \in 0..mem_slots_num \ {RegionOf(base)} : s2[i] = s1[i]
  BY <1>0, <1>1, MapIs
<1>. HIDE DEF s2
<1>3. RegionOf(VgaWindow) = 3
  BY DEF RegionOf, VgaWindow
<1>4. /\ Layout(s3) /\ ~s3[3].mapped
      /\ \A i \in 0..mem_slots_num \ {3} : s3[i] = s2[i]
  BY <1>0, <1>2, <1>3, UnmapIs
<1>. HIDE DEF s3
<1>5. \A i \in 0..mem_slots_num \ {1, 3} : s3[i] = s[i]
  BY <1>1, <1>2, <1>4 DEF RegionOf
<1>6. s3[1].host # "SMRAM"
  <2>1. 1 \in 0..mem_slots_num
    BY DEF mem_slots_num
  <2>2. CASE base = 3
    BY <1>2, <1>4, <2>1, <2>2 DEF RegionOf
  <2>3. CASE base # 3
    BY <1>1, <1>2, <1>4, <2>1, <2>3 DEF RegionOf, SlotsGood
  <2>. QED BY <2>2, <2>3
<1>7. SlotsGood(s3, VgaWindow, FALSE)
  BY <1>0, <1>4, <1>5, <1>6 DEF SlotsGood
<1>. QED BY <1>7 DEF s1, s2, s3, gvm_register_mmio

\* While the memory is closed no region that the guest reaches shows it.
LEMMA ClosedHidden ==
    ASSUME NEW s, NEW base, SlotsGood(s, base, FALSE), NEW i \in 0..mem_slots_num, s[i].mapped
    PROVE  s[i].host # "SMRAM" /\ s[i].gpa # VgaWindow
<1>1. i # 3
  BY DEF SlotsGood
<1>2. s[i].host # "SMRAM"
  BY <1>1 DEF SlotsGood
<1>3. s[i].gpa = gvm_init[i].gpa
  BY DEF SlotsGood, Layout
<1>4. gvm_init[i].gpa # 10
  BY <1>1 DEF gvm_init, Region, mem_slots_num
<1>. QED BY <1>2, <1>3, <1>4 DEF VgaWindow

\* The search by halves finds a region from its first and from its last address.
LEMMA EndsFound ==
    ASSUME NEW s, Layout(s), NEW i \in 0..(mem_slots_num - 1),
           NEW a \in {s[i].gpa, End(s[i]) - 1}
    PROVE  Slot(s, a, 1) = i
<1>1. i \in 0..7
  BY DEF mem_slots_num
<1>2. /\ s[i].gpa \in Nat /\ End(s[i]) \in Nat /\ s[i].gpa < End(s[i])
  <2>1. /\ s[0].gpa = 0 /\ End(s[0]) = 3
        /\ s[1].gpa = 3 /\ End(s[1]) = 5
        /\ s[2].gpa = 5 /\ End(s[2]) = 10
        /\ s[3].gpa = 10 /\ End(s[3]) = 12
        /\ s[4].gpa = 12 /\ End(s[4]) = 14
        /\ s[5].gpa = 14 /\ End(s[5]) = 16
        /\ s[6].gpa = 16 /\ End(s[6]) = RamSize
        /\ s[7].gpa = 65534 /\ End(s[7]) = 65536
    BY LayoutIs
  <2>2. RamSize \in Nat /\ 16 < RamSize
    BY GvmAssumption
  <2>3. i = 0 \/ i = 1 \/ i = 2 \/ i = 3 \/ i = 4 \/ i = 5 \/ i = 6 \/ i = 7
    BY <1>1
  <2>4. CASE i = 6
    BY <2>1, <2>2, <2>4
  <2>5. CASE i \in {0, 1, 2, 3}
    BY <2>1, <2>5
  <2>6. CASE i \in {4, 5, 7}
    BY <2>1, <2>6
  <2>. QED BY <2>3, <2>4, <2>5, <2>6
<1>3. a \in Nat /\ Holds(s[i], a, 1)
  BY <1>2 DEF Holds
<1>. QED BY <1>1, <1>3, SlotIs

-----------------------------------------------------------------------------
(***************************************************************************)
(* What every handler keeps, and the machine as a record.                  *)
(***************************************************************************)

SciGood(a, p) ==
    /\ \A x \in p \ a.left : x \in SciPins(a) /\ TMROF \in a.PmStatus
    /\ \A x \in SciPins(a) \ a.left : TMROF \in a.PmEnable /\ x \notin p => a.Active
HoldGood(d, e) ==
    /\ (\E c \in d[1].Request : ~d[1].Channels[c].MaskRegister) => e
    /\ e => d[1].Request # {}
RoutesGood(p) == \A r \in Pirq : p.route[r] # 0 => r \in p.irqRegister[p.route[r]]

\* No command but that of reading the array is ever in force.
FlashGood(f) == f.Cmd = 0 /\ f.Wcycle = 0 /\ f.Storage = "ROM"

Good(m) ==
    /\ m \in MACHINE
    /\ PortsGood(m.ports, m.bar, m.exited)
    /\ SlotsGood(m.slots, m.smbase, m.i440fx.smram)
    /\ SciGood(m.acpi, m.pins)
    /\ HoldGood(m.dma, m.event)
    /\ RoutesGood(m.piix3)
    /\ FlashGood(m.flash)

WithAcpi(m, a) == [m EXCEPT !.acpi = a]
WithSci(m, p, l, a) == [m EXCEPT !.pins = p, !.lines = l, !.acpi = a]
WithPiix3(m, p) == [m EXCEPT !.piix3 = p]
WithI440fx(m, x) == [m EXCEPT !.i440fx = x]
WithSlots(m, s, base, x) == [m EXCEPT !.slots = s, !.smbase = base, !.i440fx = x]
WithDma(m, d, e) == [m EXCEPT !.dma = d, !.event = e]
WithFlash(m, f) == [m EXCEPT !.flash = f]
WithBios(m, b) == [m EXCEPT !.bios = b]

\* Replacing one part of a good machine by a good one.
LEMMA BarStepGood ==
    ASSUME NEW m, Good(m), NEW n, BarStep(n, m)
    PROVE  Good(n) /\ n.acpi = m.acpi
<1>1. /\ n = [m EXCEPT !.ports = n.ports, !.bar = n.bar, !.exited = n.exited]
      /\ n.ports \in [Ports -> Handlers] /\ n.bar \in [Bars -> BAR]
      /\ n.exited \in BOOLEAN /\ PortsGood(n.ports, n.bar, n.exited)
  BY DEF BarStep
<1>2. m \in MACHINE
  BY DEF Good
<1>3. n \in MACHINE
  BY <1>1, <1>2 DEF MACHINE
<1>4. /\ n.slots = m.slots /\ n.smbase = m.smbase /\ n.i440fx = m.i440fx
      /\ n.acpi = m.acpi /\ n.pins = m.pins /\ n.dma = m.dma /\ n.event = m.event
      /\ n.piix3 = m.piix3 /\ n.flash = m.flash
  BY <1>1, <1>2 DEF MACHINE
<1>. QED BY <1>1, <1>3, <1>4 DEF Good
LEMMA AcpiGood ==
    ASSUME NEW m, Good(m), NEW a \in ACPI, SciGood(a, m.pins)
    PROVE  Good(WithAcpi(m, a))
BY DEF Good, WithAcpi, MACHINE
LEMMA SciPutGood ==
    ASSUME NEW m, Good(m), NEW p \in SUBSET Nat, NEW l \in SUBSET Irq,
           NEW a \in ACPI, SciGood(a, p)
    PROVE  Good(WithSci(m, p, l, a))
BY DEF Good, WithSci, MACHINE
LEMMA Piix3Good ==
    ASSUME NEW m, Good(m), NEW p \in PIIX3, RoutesGood(p)
    PROVE  Good(WithPiix3(m, p))
BY DEF Good, WithPiix3, MACHINE
LEMMA I440fxGood ==
    ASSUME NEW m, Good(m), NEW x \in I440FX, x.smram = m.i440fx.smram
    PROVE  Good(WithI440fx(m, x))
BY DEF Good, WithI440fx, MACHINE
LEMMA SlotsPutGood ==
    ASSUME NEW m, Good(m), NEW s, NEW base, NEW x \in I440FX, SlotsGood(s, base, x.smram)
    PROVE  Good(WithSlots(m, s, base, x))
<1>1. s \in [0..mem_slots_num -> SLOT] /\ base \in Nat
  BY DEF SlotsGood, Layout, VgaWindow
<1>. QED BY <1>1 DEF Good, WithSlots, MACHINE
LEMMA DmaGood ==
    ASSUME NEW m, Good(m), NEW d \in [Controller -> DMA_CONTROLLER], NEW e \in BOOLEAN,
           HoldGood(d, e)
    PROVE  Good(WithDma(m, d, e))
BY DEF Good, WithDma, MACHINE
LEMMA FlashPutGood ==
    ASSUME NEW m, Good(m), NEW f \in FLASH, FlashGood(f)
    PROVE  Good(WithFlash(m, f))
BY DEF Good, WithFlash, MACHINE
LEMMA BiosGood ==
    ASSUME NEW m, Good(m), NEW b \in [Firmware -> MESSAGE]
    PROVE  Good(WithBios(m, b))
BY DEF Good, WithBios, MACHINE
LEMMA ExitGood ==
    ASSUME NEW m, Good(m)
    PROVE  Good(Exit(m))
<1>1. PortsGood(m.ports, m.bar, TRUE)
  BY DEF Good, PortsGood
<1>. QED BY <1>1 DEF Good, Exit, MACHINE

-----------------------------------------------------------------------------
(***************************************************************************)
(* Power management.                                                       *)
(***************************************************************************)

\* The level of the interrupt and the timer follow the status (AcpiPmUpdateSci),
\* whatever they were before; other pins are those that were left.
SciOld(a, p) == p \ a.left \subseteq SciPins(a)
LEMMA UpdateSciGood ==
    ASSUME NEW m, Good(m), NEW a \in ACPI, SciOld(a, m.pins), NEW over \in BOOLEAN
    PROVE  Good(AcpiPmUpdateSci(WithAcpi(m, a), over))
<1>. DEFINE up == TMROF \in a.PmStatus
            pin == SciPins(a)
            line == {a.route[PciTurn(DEVICE, a.pin)]} \cap Routable
            p == IF up THEN m.pins \cup pin ELSE m.pins \ pin
            l == IF up THEN m.lines \cup line ELSE m.lines \ line
            left == a.left \ pin
            b == [a EXCEPT !.PmStatus = a.PmStatus \cup Overflow(over), !.left = left,
                           !.Active = TMROF \in a.PmEnable /\ TMROF \notin a.PmStatus]
<1>0. m \in MACHINE
  BY DEF Good
<1>1. pin \subseteq PINS /\ PINS \subseteq Nat
  BY DEF SciPins, PciPins, PINS
<1>2. p \in SUBSET Nat
  BY <1>0, <1>1 DEF MACHINE
<1>3. l \in SUBSET Irq
  <2>1. line \subseteq Irq
    BY DEF Routable, Irq
  <2>2. m.lines \subseteq Irq
    BY <1>0 DEF MACHINE
  <2>. QED BY <2>1, <2>2
<1>4. Overflow(over) \in SUBSET {TMROF}
  BY DEF Overflow
<1>5. /\ b \in ACPI /\ b.PmStatus = a.PmStatus \cup Overflow(over)
      /\ b.PmEnable = a.PmEnable /\ b.pin = a.pin /\ b.left = left
      /\ b.Active = (TMROF \in a.PmEnable /\ TMROF \notin a.PmStatus)
  <2>. DEFINE st == a.PmStatus \cup Overflow(over)
              ac == TMROF \in a.PmEnable /\ TMROF \notin a.PmStatus
  <2>1. st \in SUBSET {TMROF} /\ ac \in BOOLEAN /\ left \in SUBSET PINS
    BY <1>4 DEF ACPI
  <2>. HIDE DEF st, ac, left
  <2>2. b = [a EXCEPT !.PmStatus = st, !.left = left, !.Active = ac]
    BY DEF st, ac, left
  <2>3. ASSUME NEW c, c = [a EXCEPT !.PmStatus = st, !.left = left, !.Active = ac]
        PROVE  /\ c \in ACPI /\ c.PmStatus = st /\ c.PmEnable = a.PmEnable
               /\ c.Active = ac /\ c.pin = a.pin /\ c.left = left
    <3>. HIDE DEF b
    <3>1. c \in ACPI
      BY <2>1, <2>3 DEF ACPI
    <3>2. c.PmStatus = st /\ c.PmEnable = a.PmEnable /\ c.Active = ac
      BY <2>1, <2>3 DEF ACPI
    <3>3. c.pin = a.pin /\ c.left = left
      BY <2>1, <2>3 DEF ACPI
    <3>. QED BY <3>1, <3>2, <3>3
  <2>. HIDE DEF b
  <2>4. /\ b \in ACPI /\ b.PmStatus = st /\ b.PmEnable = a.PmEnable
        /\ b.Active = ac /\ b.pin = a.pin /\ b.left = left
    BY <2>2, <2>3
  <2>. QED BY <2>4 DEF st, ac
<1>6. ASSUME SciOld(a, m.pins) PROVE SciGood(b, p)
  <2>1. SciPins(b) = pin
    BY <1>5 DEF SciPins
  <2>. HIDE DEF b, pin
  <2>2. ASSUME NEW x \in p \ b.left PROVE x \in pin /\ TMROF \in b.PmStatus
    BY <1>5, <1>6, <2>2 DEF SciOld, pin
  <2>. QED BY <1>5, <2>1, <2>2 DEF SciGood
<1>7. AcpiPmUpdateSci(WithAcpi(m, a), over) = WithSci(m, p, l, b)
  <2>. DEFINE w == WithAcpi(m, a)
  <2>1. w.acpi = a /\ w.pins = m.pins /\ w.lines = m.lines
    BY <1>0 DEF WithAcpi, MACHINE
  <2>2. PciSetIrq(w, DEVICE, a.pin, a.route, up) = [w EXCEPT !.pins = p, !.lines = l]
    <3>. HIDE DEF w
    <3>. QED BY <2>1 DEF PciSetIrq, SciPins
  <2>. DEFINE n == [w EXCEPT !.pins = p, !.lines = l]
  <2>3. n.acpi = a
    BY <1>0 DEF WithAcpi, MACHINE
  <2>4. AcpiPmUpdateSci(w, over) =
          [n EXCEPT !.acpi.PmStatus = a.PmStatus \cup Overflow(over),
                    !.acpi.left = a.left \ pin,
                    !.acpi.Active = TMROF \in a.PmEnable /\ TMROF \notin a.PmStatus]
    <3>. HIDE DEF w, p, l, pin
    <3>1. SciPins(w.acpi) = pin /\ n.acpi.left = a.left /\ n.acpi = w.acpi
      BY <2>1, <2>3 DEF pin
    <3>. QED BY <2>1, <2>2, <2>3, <3>1 DEF AcpiPmUpdateSci
  <2>5. AcpiPmUpdateSci(w, over) = [n EXCEPT !.acpi = b]
    <3>. HIDE DEF w, p, l, n
    <3>. QED BY <2>3, <2>4
  <2>6. [n EXCEPT !.acpi = b] = WithSci(m, p, l, b)
    <3>. HIDE DEF p, l, b
    <3>. QED BY <1>0 DEF WithAcpi, WithSci, MACHINE
  <2>. QED BY <2>5, <2>6
<1>. HIDE DEF p, l, b
<1>. QED BY <1>2, <1>3, <1>5, <1>6, <1>7, SciPutGood

\* A machine is its own with its own device.
LEMMA OwnAcpi ==
    ASSUME NEW m, Good(m)
    PROVE  /\ m = WithAcpi(m, m.acpi) /\ m.acpi \in ACPI /\ SciGood(m.acpi, m.pins)
           /\ SciOld(m.acpi, m.pins)
BY DEF Good, WithAcpi, MACHINE, SciGood, SciOld

\* A register that has no part in the interrupt.
LEMMA AcpiAside ==
    ASSUME NEW m, Good(m), NEW a \in ACPI, a.PmStatus = m.acpi.PmStatus,
           a.PmEnable = m.acpi.PmEnable, a.Active = m.acpi.Active,
           a.pin = m.acpi.pin, a.left = m.acpi.left
    PROVE  Good(WithAcpi(m, a))
<1>1. SciGood(a, m.pins)
  BY DEF Good, SciGood, SciPins
<1>. QED BY <1>1, AcpiGood

LEMMA AcpiTimerGood ==
    ASSUME NEW m, Good(m), NEW over \in BOOLEAN
    PROVE  Good(AcpiTimerHandler(m, over))
BY OwnAcpi, UpdateSciGood DEF AcpiTimerHandler

LEMMA AcpiConfGood ==
    ASSUME NEW m, Good(m), NEW bit \in {"PMIOSE", "IOSE", "SMBUS", "SMI"}, NEW on
    PROVE  Good(AcpiWriteConf(m, bit, on))
<1>. DEFINE c == IF on THEN m.acpi.conf \cup {bit} ELSE m.acpi.conf \ {bit}
            a == [m.acpi EXCEPT !.conf = c]
<1>1. c \in SUBSET {"PMIOSE", "IOSE", "SMBUS", "SMI"}
  BY OwnAcpi DEF ACPI
<1>2. AcpiWriteConf(m, bit, on) = WithAcpi(m, a)
  BY DEF AcpiWriteConf, WithAcpi
<1>. HIDE DEF c
<1>3. /\ a \in ACPI /\ a.PmStatus = m.acpi.PmStatus
      /\ a.PmEnable = m.acpi.PmEnable /\ a.Active = m.acpi.Active
      /\ a.pin = m.acpi.pin /\ a.left = m.acpi.left
  BY <1>1, OwnAcpi DEF ACPI
<1>. QED BY <1>2, <1>3, AcpiAside

LEMMA AcpiRouteGood ==
    ASSUME NEW m, Good(m), NEW nines
    PROVE  Good(AcpiWriteRoute(m, nines))
<1>. DEFINE a == [m.acpi EXCEPT !.route = [i \in 0..3 |-> IF i \in nines THEN 9 ELSE 0]]
<1>1. AcpiWriteRoute(m, nines) = WithAcpi(m, a)
  BY DEF AcpiWriteRoute, WithAcpi
<1>2. /\ a \in ACPI /\ a.PmStatus = m.acpi.PmStatus
      /\ a.PmEnable = m.acpi.PmEnable /\ a.Active = m.acpi.Active
      /\ a.pin = m.acpi.pin /\ a.left = m.acpi.left
  BY OwnAcpi DEF ACPI
<1>. QED BY <1>1, <1>2, AcpiAside

LEMMA AcpiPinGood ==
    ASSUME NEW m, Good(m), NEW pin \in 0..255
    PROVE  Good(AcpiWritePin(m, pin))
<1>. DEFINE a == [m.acpi EXCEPT !.pin = pin]
            moved == IF SciPins(a) = SciPins(m.acpi) THEN {}
                     ELSE SciPins(a) \cup SciPins(m.acpi)
            left == a.left \cup moved
            b == [a EXCEPT !.left = left]
<1>1. AcpiWritePin(m, pin) = WithAcpi(m, b)
  BY DEF AcpiWritePin, WithAcpi
<1>2. /\ a \in ACPI /\ a.PmStatus = m.acpi.PmStatus /\ a.PmEnable = m.acpi.PmEnable
      /\ a.Active = m.acpi.Active /\ a.left = m.acpi.left
  BY OwnAcpi DEF ACPI
<1>. HIDE DEF a
<1>3. SciPins(a) \subseteq PINS /\ SciPins(m.acpi) \subseteq PINS
  BY DEF SciPins, PciPins, PINS
<1>4. left \in SUBSET PINS
  BY <1>2, <1>3, OwnAcpi DEF ACPI
<1>5. \/ left = m.acpi.left /\ SciPins(a) = SciPins(m.acpi)
      \/ left = m.acpi.left \cup SciPins(a) \cup SciPins(m.acpi)
  BY <1>2
<1>. HIDE DEF left
<1>6. /\ b \in ACPI /\ b.PmStatus = m.acpi.PmStatus /\ b.PmEnable = m.acpi.PmEnable
      /\ b.Active = m.acpi.Active /\ b.left = left /\ b.pin = a.pin
  BY <1>2, <1>4 DEF ACPI
<1>. HIDE DEF b
<1>7. SciPins(b) = SciPins(a)
  BY <1>6 DEF SciPins
<1>8. SciGood(b, m.pins)
  BY <1>5, <1>6, <1>7, OwnAcpi DEF SciGood
<1>. QED BY <1>1, <1>6, <1>8, AcpiGood

LEMMA AcpiBaseGood ==
    ASSUME NEW m, Good(m), ~m.exited, NEW b \in {"PM", "SM"}, NEW value \in 0..(DWORD - 1)
    PROVE  Good(AcpiWriteBase(m, b, value))
<1>. DEFINE even == EvenOf(value)
            n == PciWriteBar(m, b, 4, even)
            pm == [n.acpi EXCEPT !.PmBase = even]
            sm == [n.acpi EXCEPT !.SmBase = even]
<1>1. even \in 0..(DWORD - 1)
  BY Words DEF EvenOf
<1>2. b \in Bars /\ m \in MACHINE /\ PortsGood(m.ports, m.bar, m.exited)
  BY ChipsetAssumption DEF Good
<1>3. AcpiWriteBase(m, b, value) =
        IF n.exited THEN n ELSE IF b = "PM" THEN WithAcpi(n, pm) ELSE WithAcpi(n, sm)
  BY DEF AcpiWriteBase, WithAcpi
<1>. HIDE DEF even
<1>4. BarStep(n, m)
  BY <1>1, <1>2, WriteBarGood
<1>. HIDE DEF n
<1>5. Good(n)
  BY <1>4, BarStepGood
<1>6. /\ pm \in ACPI /\ pm.PmStatus = n.acpi.PmStatus
      /\ pm.PmEnable = n.acpi.PmEnable /\ pm.Active = n.acpi.Active
      /\ pm.pin = n.acpi.pin /\ pm.left = n.acpi.left
      /\ sm \in ACPI /\ sm.PmStatus = n.acpi.PmStatus
      /\ sm.PmEnable = n.acpi.PmEnable /\ sm.Active = n.acpi.Active
      /\ sm.pin = n.acpi.pin /\ sm.left = n.acpi.left
  BY <1>1, <1>5, OwnAcpi DEF ACPI
<1>. HIDE DEF pm, sm
<1>7. Good(WithAcpi(n, pm)) /\ Good(WithAcpi(n, sm))
  BY <1>5, <1>6, AcpiAside
<1>. QED BY <1>3, <1>5, <1>7

LEMMA AcpiWritePmGood ==
    ASSUME NEW m, Good(m), NEW adr, NEW value \in 0..1, NEW over \in BOOLEAN
    PROVE  Good(AcpiWritePm(m, adr, value, over))
<1>. DEFINE r == PmRegister(Reg(adr))
            en == IF value = 1 THEN {TMROF} ELSE {}
            ct == IF value = 1 THEN {SCI_EN} ELSE {}
            a1 == [m.acpi EXCEPT !.PmStatus = {}]
            a2 == [m.acpi EXCEPT !.PmEnable = en]
            a3 == [m.acpi EXCEPT !.PmControl = ct]
            a4 == [m.acpi EXCEPT !.PmRegisters = value]
<1>1. /\ AcpiClearStatus(m, over) = AcpiPmUpdateSci(WithAcpi(m, a1), over)
      /\ AcpiWriteEnable(m, en, over) = AcpiPmUpdateSci(WithAcpi(m, a2), over)
      /\ AcpiWriteControl(m, ct) = WithAcpi(m, a3)
      /\ [m EXCEPT !.acpi.PmRegisters = value] = WithAcpi(m, a4)
  BY DEF AcpiClearStatus, AcpiWriteEnable, AcpiWriteControl, WithAcpi
<1>2. en \in SUBSET {TMROF} /\ ct \in SUBSET {SCI_EN}
  OBVIOUS
<1>. HIDE DEF en, ct
<1>3. /\ a1 \in ACPI /\ a1.pin = m.acpi.pin /\ a1.left = m.acpi.left
      /\ a2 \in ACPI /\ a2.pin = m.acpi.pin /\ a2.left = m.acpi.left
  BY <1>2, OwnAcpi DEF ACPI
<1>3a. SciOld(a1, m.pins) /\ SciOld(a2, m.pins)
  BY <1>3, OwnAcpi DEF SciOld, SciPins
<1>4. /\ a3 \in ACPI /\ a3.PmStatus = m.acpi.PmStatus
      /\ a3.PmEnable = m.acpi.PmEnable /\ a3.Active = m.acpi.Active
      /\ a3.pin = m.acpi.pin /\ a3.left = m.acpi.left
      /\ a4 \in ACPI /\ a4.PmStatus = m.acpi.PmStatus
      /\ a4.PmEnable = m.acpi.PmEnable /\ a4.Active = m.acpi.Active
      /\ a4.pin = m.acpi.pin /\ a4.left = m.acpi.left
  BY <1>2, OwnAcpi DEF ACPI
<1>. HIDE DEF a1, a2, a3, a4
<1>5. /\ Good(AcpiPmUpdateSci(WithAcpi(m, a1), over))
      /\ Good(AcpiPmUpdateSci(WithAcpi(m, a2), over))
      /\ Good(WithAcpi(m, a3)) /\ Good(WithAcpi(m, a4))
  BY <1>3, <1>3a, <1>4, UpdateSciGood, AcpiAside
<1>6. AcpiWritePm(m, adr, value, over) \in
        {m, AcpiClearStatus(m, over), AcpiWriteEnable(m, en, over),
         AcpiWriteControl(m, ct), [m EXCEPT !.acpi.PmRegisters = value]}
  BY DEF AcpiWritePm, en, ct
<1>. QED BY <1>1, <1>5, <1>6

\* The index into the data of the SM bus stays within it.
LEMMA SmIndexGood ==
    ASSUME NEW m, Good(m)
    PROVE  /\ Good([m EXCEPT !.acpi.SmIndex = (@ + 1) % SmData])
           /\ Good([m EXCEPT !.acpi.SmIndex = 0])
<1>. DEFINE k == (m.acpi.SmIndex + 1) % SmData
            a == [m.acpi EXCEPT !.SmIndex = k]
            z == [m.acpi EXCEPT !.SmIndex = 0]
<1>1. k \in 0..(SmData - 1) /\ 0 \in 0..(SmData - 1)
  <2>1. m.acpi.SmIndex \in 0..(SmData - 1) /\ SmData \in Nat \ {0}
    BY OwnAcpi, AcpiAssumption DEF ACPI
  <2>. DEFINE x == m.acpi.SmIndex + 1
  <2>2. x \in Nat
    BY <2>1
  <2>. HIDE DEF x
  <2>3. x % SmData \in 0..(SmData - 1)
    BY <2>1, <2>2, Divides
  <2>4. 0 \in 0..(SmData - 1)
    BY <2>1
  <2>. QED BY <2>3, <2>4 DEF x
<1>2. /\ [m EXCEPT !.acpi.SmIndex = (@ + 1) % SmData] = WithAcpi(m, a)
      /\ [m EXCEPT !.acpi.SmIndex = 0] = WithAcpi(m, z)
  BY DEF WithAcpi
<1>. HIDE DEF k
<1>3. /\ a \in ACPI /\ a.PmStatus = m.acpi.PmStatus
      /\ a.PmEnable = m.acpi.PmEnable /\ a.Active = m.acpi.Active
      /\ a.pin = m.acpi.pin /\ a.left = m.acpi.left
      /\ z \in ACPI /\ z.PmStatus = m.acpi.PmStatus
      /\ z.PmEnable = m.acpi.PmEnable /\ z.Active = m.acpi.Active
      /\ z.pin = m.acpi.pin /\ z.left = m.acpi.left
  BY <1>1, OwnAcpi DEF ACPI
<1>. HIDE DEF a, z
<1>4. Good(WithAcpi(m, a)) /\ Good(WithAcpi(m, z))
  BY <1>3, AcpiAside
<1>. QED BY <1>2, <1>4

LEMMA AcpiWritePortGood ==
    ASSUME NEW m, Good(m), NEW adr, NEW value \in 0..1, NEW over \in BOOLEAN
    PROVE  Good(AcpiWritePortIoHandler(m, adr, value, over))
<1>1. Good(AcpiWriteSm(m, adr))
  BY SmIndexGood DEF AcpiWriteSm
<1>. QED BY <1>1, AcpiWritePmGood DEF AcpiWritePortIoHandler

LEMMA AcpiReadPortGood ==
    ASSUME NEW m, Good(m), NEW adr, NEW over \in BOOLEAN
    PROVE  Good(AcpiReadPortIoHandler(m, adr, over))
<1>1. Good(AcpiReadSm(m, adr))
  <2>1. AcpiReadSm(m, adr) \in {[m EXCEPT !.acpi.SmIndex = 0],
            [m EXCEPT !.acpi.SmIndex = (@ + 1) % SmData], m}
    BY DEF AcpiReadSm
  <2>. QED BY <2>1, SmIndexGood
<1>2. Good(AcpiReadPm(m, adr, over))
  <2>. DEFINE st == m.acpi.PmStatus \cup Overflow(over)
              a == [m.acpi EXCEPT !.PmStatus = st]
  <2>1. st \in SUBSET {TMROF}
    BY OwnAcpi DEF ACPI, Overflow
  <2>2. TMROF \in m.acpi.PmStatus => TMROF \in st
    OBVIOUS
  <2>3. [m EXCEPT !.acpi.PmStatus = @ \cup Overflow(over)] = WithAcpi(m, a)
    BY DEF WithAcpi
  <2>. HIDE DEF st
  <2>4. /\ a \in ACPI /\ a.PmStatus = st
        /\ a.PmEnable = m.acpi.PmEnable /\ a.Active = m.acpi.Active
      /\ a.pin = m.acpi.pin /\ a.left = m.acpi.left
    BY <2>1, OwnAcpi DEF ACPI
  <2>. HIDE DEF a
  <2>5. SciGood(a, m.pins)
    BY <2>2, <2>4, OwnAcpi DEF SciGood, SciPins
  <2>6. Good(WithAcpi(m, a))
    BY <2>4, <2>5, AcpiGood
  <2>. QED BY <2>3, <2>6 DEF AcpiReadPm
<1>. QED BY <1>1, <1>2 DEF AcpiReadPortIoHandler

\* The advanced power management port turns the system control interrupt on and
\* off, and sends an SMI where it may (AcpiGenerateAcpi).
LEMMA AcpiGenerateGood ==
    ASSUME NEW m, Good(m), NEW v \in {"NONE", "ACPI_ENABLE", "ACPI_DISABLE"}
    PROVE  Good(AcpiGenerateAcpi([m EXCEPT !.piix3.APMControl = v], v))
<1>. DEFINE p == [m.piix3 EXCEPT !.APMControl = v]
            c == CASE v = "ACPI_ENABLE" -> m.acpi.PmControl \cup {SCI_EN}
                   [] v = "ACPI_DISABLE" -> m.acpi.PmControl \ {SCI_EN}
                   [] OTHER -> m.acpi.PmControl
            a == [m.acpi EXCEPT !.PmControl = c]
            s == m.smi \/ "SMI" \in m.acpi.conf
            n == WithAcpi(WithPiix3(m, p), a)
<1>1. m \in MACHINE /\ RoutesGood(m.piix3)
  BY DEF Good
<1>2. p \in PIIX3 /\ RoutesGood(p)
  <2>1. p \in PIIX3 /\ p.route = m.piix3.route /\ p.irqRegister = m.piix3.irqRegister
    BY <1>1 DEF MACHINE, PIIX3
  <2>. QED BY <1>1, <2>1 DEF RoutesGood
<1>3. c \in SUBSET {SCI_EN} /\ s \in BOOLEAN
  BY <1>1, OwnAcpi DEF ACPI, MACHINE
<1>. HIDE DEF c, s
<1>4. /\ a \in ACPI /\ a.PmStatus = m.acpi.PmStatus
      /\ a.PmEnable = m.acpi.PmEnable /\ a.Active = m.acpi.Active
      /\ a.pin = m.acpi.pin /\ a.left = m.acpi.left
  BY <1>3, OwnAcpi DEF ACPI
<1>. HIDE DEF a, p
<1>5. Good(WithPiix3(m, p)) /\ WithPiix3(m, p).acpi = m.acpi
  BY <1>1, <1>2, Piix3Good DEF WithPiix3, MACHINE
<1>6. Good(n)
  BY <1>4, <1>5, AcpiAside
<1>7. [m EXCEPT !.piix3.APMControl = v] = WithPiix3(m, p)
  BY DEF WithPiix3, p
<1>. DEFINE w == WithPiix3(m, p)
<1>8. w.acpi = m.acpi /\ w.smi = m.smi
  BY <1>1 DEF WithPiix3, MACHINE
<1>. HIDE DEF w
<1>9. AcpiGenerateAcpi(w, v) = [w EXCEPT !.acpi = a, !.smi = s]
  BY <1>8 DEF AcpiGenerateAcpi, a, c, s
<1>10. [w EXCEPT !.acpi = a, !.smi = s] = [n EXCEPT !.smi = s]
  BY DEF WithAcpi, w
<1>. HIDE DEF n
<1>11. Good([n EXCEPT !.smi = s])
  BY <1>3, <1>6 DEF Good, MACHINE
<1>. QED BY <1>7, <1>9, <1>10, <1>11 DEF w

-----------------------------------------------------------------------------
(***************************************************************************)
(* The ISA bridge.                                                         *)
(***************************************************************************)

\* Good routing registers, and the machine that has them.
Bridge(p) == p \in PIIX3 /\ RoutesGood(p)

\* A byte of a route is a number of an interrupt, with bit 7 or without.
LEMMA RouteByteIs ==
    ASSUME NEW value \in Nat, NEW i \in Pirq
    PROVE  RouteByte(value, i) \in (0..15) \cup (128..143)
<1>. DEFINE d == 2^i
            byte == value \div d
            x == byte % 16
            y == (byte \div 128) % 2
<1>1. d \in Nat \ {0}
  <2>1. i = 0 \/ i = 1 \/ i = 2 \/ i = 3
    BY DEF Pirq
  <2>2. 2^0 = 1 /\ 2^1 = 2 /\ 2^2 = 4 /\ 2^3 = 8
    OBVIOUS
  <2>3. d = 1 \/ d = 2 \/ d = 4 \/ d = 8
    BY <2>1, <2>2, Zenon
  <2>. HIDE DEF d
  <2>. QED BY <2>3
<1>. HIDE DEF d
<1>2. byte \in Nat
  BY <1>1, Divides
<1>. HIDE DEF byte
<1>3. x \in 0..15 /\ y \in 0..1
  BY <1>2
<1>. HIDE DEF x, y
<1>4. x + 128 * y \in (0..15) \cup (128..143)
  BY <1>3
<1>. QED BY <1>4 DEF RouteByte, x, y, byte, d

\* A route that is written is registered with its interrupt.
LEMMA WriteRouteGood ==
    ASSUME NEW p, Bridge(p), NEW r \in Pirq, NEW byte \in (0..15) \cup (128..143)
    PROVE  Bridge(Piix3WriteRoute(p, r, byte))
<1>. DEFINE q == [p EXCEPT !.route[r] = byte, !.irqRegister[byte] = @ \cup {r}]
<1>1. p \in PIIX3 /\ RoutesGood(p)
  BY DEF Bridge
<1>2. CASE byte = p.route[r]
  BY <1>2 DEF Piix3WriteRoute
<1>3. CASE byte # p.route[r] /\ byte >= 128
  BY <1>3 DEF Piix3WriteRoute, Piix3UnregisterIrq
<1>4. CASE byte # p.route[r] /\ byte < 128
  <2>1. byte \in Irq /\ byte < 16
    BY <1>4 DEF Irq
  <2>2. Piix3WriteRoute(p, r, byte) = q
    BY <1>4, <2>1 DEF Piix3WriteRoute, Piix3RegisterIrq
  <2>3. q.route = [p.route EXCEPT ![r] = byte]
    BY <1>1 DEF PIIX3
  <2>4. q.irqRegister = [p.irqRegister EXCEPT ![byte] = @ \cup {r}]
    BY <1>1 DEF PIIX3
  <2>5. p.irqRegister \in [Irq -> SUBSET Pirq] /\ p.route \in [Pirq -> Irq]
    BY <1>1 DEF PIIX3
  <2>6. q.route \in [Pirq -> Irq] /\ q.irqRegister \in [Irq -> SUBSET Pirq]
    BY <2>1, <2>3, <2>4, <2>5
  <2>7. q \in PIIX3
    <3>. DEFINE ro == q.route
                re == q.irqRegister
    <3>1. q = [p EXCEPT !.route = ro, !.irqRegister = re]
      BY <1>1, <2>3, <2>4 DEF PIIX3
    <3>. HIDE DEF ro, re
    <3>2. ro \in [Pirq -> Irq] /\ re \in [Irq -> SUBSET Pirq]
      BY <2>6 DEF ro, re
    <3>3. [p EXCEPT !.route = ro, !.irqRegister = re] \in PIIX3
      BY <1>1, <3>2 DEF PIIX3
    <3>. QED BY <3>1, <3>3
  <2>. HIDE DEF q
  <2>8. ASSUME NEW s \in Pirq, q.route[s] # 0 PROVE s \in q.irqRegister[q.route[s]]
    <3>1. CASE s = r
      BY <2>1, <2>3, <2>4, <2>5, <3>1
    <3>2. CASE s # r
      <4>1. q.route[s] = p.route[s] /\ p.route[s] \in Irq
        BY <2>3, <2>5, <3>2
      <4>2. s \in p.irqRegister[p.route[s]]
        BY <1>1, <2>8, <4>1 DEF RoutesGood
      <4>. QED BY <2>1, <2>4, <2>5, <4>1, <4>2
    <3>. QED BY <3>1, <3>2
  <2>. QED BY <2>2, <2>7, <2>8 DEF Bridge, RoutesGood
<1>. QED BY <1>2, <1>3, <1>4

RoutesTo(g, n, p, value) ==
    g = [i \in 0..n |->
            IF i = 0 THEN p ELSE Piix3WriteRoute(g[i - 1], i - 1, RouteByte(value, i - 1))]

\* The loop over the bytes of a write, of which there are four at most.
LEMMA WriteRoutesGood ==
    ASSUME NEW p, Bridge(p), NEW value \in Nat, NEW n \in {1, 2, 4}
    PROVE  Bridge(Piix3WriteRoutes(p, n, value))
<1>. DEFINE W(q, r) == Piix3WriteRoute(q, r, RouteByte(value, r))
            p1 == W(p, 0)
            p2 == W(p1, 1)
            p3 == W(p2, 2)
            p4 == W(p3, 3)
            g == [i \in 0..n |-> IF i = 0 THEN p ELSE IF i = 1 THEN p1
                                 ELSE IF i = 2 THEN p2 ELSE IF i = 3 THEN p3 ELSE p4]
            h == [i \in 0..n |-> IF i = 0 THEN p ELSE W(g[i - 1], i - 1)]
            f[i \in 0..n] == IF i = 0 THEN p
                ELSE Piix3WriteRoute(f[i - 1], i - 1, RouteByte(value, i - 1))
<1>1. ASSUME NEW q, Bridge(q), NEW r \in Pirq PROVE Bridge(W(q, r))
  BY <1>1, RouteByteIs, WriteRouteGood
<1>2. 0 \in Pirq /\ 1 \in Pirq /\ 2 \in Pirq /\ 3 \in Pirq
  BY DEF Pirq
<1>3. Bridge(p1) /\ Bridge(p2) /\ Bridge(p3) /\ Bridge(p4)
  <2>1. Bridge(p1)
    BY <1>1, <1>2
  <2>. HIDE DEF p1
  <2>2. Bridge(p2)
    BY <1>1, <1>2, <2>1
  <2>. HIDE DEF p2
  <2>3. Bridge(p3)
    BY <1>1, <1>2, <2>2
  <2>. HIDE DEF p3
  <2>4. Bridge(p4)
    BY <1>1, <1>2, <2>3
  <2>. QED BY <2>1, <2>2, <2>3, <2>4
<1>4. /\ p1 = W(p, 0) /\ p2 = W(p1, 1) /\ p3 = W(p2, 2) /\ p4 = W(p3, 3)
  OBVIOUS
<1>. HIDE DEF W, p1, p2, p3, p4
<1>5. ASSUME NEW i \in 0..n PROVE g[i] = h[i]
  <2>1. i = 0 \/ i = 1 \/ i = 2 \/ i = 3 \/ i = 4
    OBVIOUS
  <2>2. CASE i = 0
    BY <2>2
  <2>3. CASE i = 1
    BY <1>4, <2>3
  <2>4. CASE i = 2
    BY <1>4, <2>4
  <2>5. CASE i = 3
    BY <1>4, <2>5
  <2>6. CASE i = 4
    BY <1>4, <2>6
  <2>. QED BY <2>1, <2>2, <2>3, <2>4, <2>5, <2>6
<1>6. g = h
  BY <1>5
<1>7. RoutesTo(g, n, p, value)
  BY <1>6 DEF RoutesTo, W
<1>. HIDE DEF g, h
<1>8. RoutesTo(f, n, p, value)
  BY <1>7 DEF RoutesTo
<1>9. Piix3WriteRoutes(p, n, value) = f[n]
  BY DEF Piix3WriteRoutes
<1>. HIDE DEF f
<1>10. f[0] = p /\ \A i \in 1..n : f[i] = W(f[i - 1], i - 1)
  BY <1>8 DEF RoutesTo, W
<1>11. f[1] = p1
  BY <1>4, <1>10
<1>12. n # 1 => f[2] = p2
  BY <1>4, <1>10, <1>11
<1>13. n = 4 => f[3] = p3
  BY <1>4, <1>10, <1>12
<1>14. n = 4 => f[4] = p4
  BY <1>4, <1>10, <1>13
<1>15. f[n] = p1 \/ f[n] = p2 \/ f[n] = p4
  BY <1>11, <1>12, <1>14
<1>. QED BY <1>3, <1>9, <1>15

\* The other registers of the bridge have no part in the routes.
LEMMA Piix3Aside ==
    ASSUME NEW m, Good(m), NEW p \in PIIX3, p.route = m.piix3.route,
           p.irqRegister = m.piix3.irqRegister
    PROVE  Good(WithPiix3(m, p))
<1>1. RoutesGood(p)
  BY DEF Good, RoutesGood
<1>. QED BY <1>1, Piix3Good

LEMMA Piix3PortsGood ==
    ASSUME NEW m, Good(m)
    PROVE  /\ \A v \in 0..1 : Good([m EXCEPT !.piix3 = Piix3WriteStatus(@, v)])
           /\ \A e \in {1, 2}, levels \in SUBSET (0..7) :
                  Good([m EXCEPT !.piix3 = Piix3WriteTrigger(@, e, levels)])
           /\ Good([m EXCEPT !.piix3 = Piix3WriteReset(@)])
<1>0. 0 \in 0..1 /\ 1 \in {1, 2} /\ {} \in SUBSET (0..7)
  OBVIOUS
<1>. SUFFICES ASSUME NEW v \in 0..1, NEW e \in {1, 2}, NEW levels \in SUBSET (0..7)
              PROVE  /\ Good([m EXCEPT !.piix3 = Piix3WriteStatus(@, v)])
                     /\ Good([m EXCEPT !.piix3 = Piix3WriteTrigger(@, e, levels)])
                     /\ Good([m EXCEPT !.piix3 = Piix3WriteReset(@)])
  BY <1>0, Zenon
<1>. DEFINE l == levels \cap (IF e = 1 THEN 3..7 ELSE {1, 2, 3, 4, 6, 7})
            t == [m.piix3.edgeLevelTrigger EXCEPT ![e] = l]
            p1 == [m.piix3 EXCEPT !.APMStatus = v]
            p2 == [m.piix3 EXCEPT !.edgeLevelTrigger = t]
            p3 == [m.piix3 EXCEPT !.pciReset = 1]
<1>1. /\ [m EXCEPT !.piix3 = Piix3WriteStatus(@, v)] = WithPiix3(m, p1)
      /\ [m EXCEPT !.piix3 = Piix3WriteReset(@)] = WithPiix3(m, p3)
  BY DEF WithPiix3, Piix3WriteStatus, Piix3WriteReset
<1>2. [m EXCEPT !.piix3 = Piix3WriteTrigger(@, e, levels)] = WithPiix3(m, p2)
  BY DEF WithPiix3, Piix3WriteTrigger
<1>3. m.piix3 \in PIIX3
  BY DEF Good, MACHINE
<1>4. l \in SUBSET (0..7)
  OBVIOUS
<1>. HIDE DEF l
<1>5. t \in [{1, 2} -> SUBSET (0..7)]
  BY <1>3, <1>4 DEF PIIX3
<1>. HIDE DEF t
<1>6. p1 \in PIIX3 /\ p2 \in PIIX3 /\ p3 \in PIIX3
  BY <1>3, <1>5 DEF PIIX3
<1>7. /\ p1.route = m.piix3.route /\ p1.irqRegister = m.piix3.irqRegister
      /\ p2.route = m.piix3.route /\ p2.irqRegister = m.piix3.irqRegister
      /\ p3.route = m.piix3.route /\ p3.irqRegister = m.piix3.irqRegister
  BY <1>3 DEF PIIX3
<1>. HIDE DEF p1, p2, p3
<1>. QED BY <1>1, <1>2, <1>6, <1>7, Piix3Aside

LEMMA PirqGood ==
    ASSUME NEW m, Good(m), NEW n \in {1, 2, 4}, NEW value \in Nat
    PROVE  Good([m EXCEPT !.piix3 = Piix3WriteRoutes(@, n, value)])
<1>. DEFINE p == Piix3WriteRoutes(m.piix3, n, value)
<1>1. Bridge(m.piix3)
  BY DEF Good, MACHINE, Bridge
<1>2. Bridge(p)
  BY <1>1, WriteRoutesGood
<1>3. [m EXCEPT !.piix3 = Piix3WriteRoutes(@, n, value)] = WithPiix3(m, p)
  BY DEF WithPiix3
<1>. HIDE DEF p
<1>. QED BY <1>2, <1>3, Piix3Good DEF Bridge

-----------------------------------------------------------------------------
(***************************************************************************)
(* The host bridge.                                                        *)
(***************************************************************************)

LEMMA OwnI440fx ==
    ASSUME NEW m, Good(m)
    PROVE  m.i440fx \in I440FX /\ m \in MACHINE
BY DEF Good, MACHINE

LEMMA PamGood ==
    ASSUME NEW m, Good(m), NEW value, NEW i
    PROVE  Good(I440fxWritePam(m, value, i))
<1>. DEFINE byte == {b \in Bit : b + i \in value}
            mt == [a \in Areas |-> [b \in 0..1 |-> 4 * (a % 2) + b \in value]]
            x == [m.i440fx EXCEPT !.pam = byte, !.memory_type = mt]
<1>1. byte \in SUBSET Bit
  OBVIOUS
<1>2. mt \in [Areas -> [0..1 -> BOOLEAN]]
  OBVIOUS
<1>3. I440fxWritePam(m, value, i) = IF byte = m.i440fx.pam THEN m ELSE WithI440fx(m, x)
  <2>. QED BY DEF I440fxWritePam, WithI440fx
<1>. HIDE DEF byte, mt
<1>4. x \in I440FX /\ x.smram = m.i440fx.smram
  BY <1>1, <1>2, OwnI440fx DEF I440FX
<1>. HIDE DEF x
<1>. QED BY <1>3, <1>4, I440fxGood

LEMMA RowGood ==
    ASSUME NEW m, Good(m), NEW r \in Rows, NEW v \in 0..1
    PROVE  Good(I440fxWriteRow(m, r, v))
<1>. DEFINE row == [m.i440fx.row EXCEPT ![r] = v]
            dd == IF v # 1 THEN m.i440fx.dramDetect \cup {r} ELSE m.i440fx.dramDetect \ {r}
            x == [m.i440fx EXCEPT !.row = row, !.dramDetect = dd]
<1>1. row \in [Rows -> 0..1] /\ dd \in SUBSET Rows
  BY OwnI440fx DEF I440FX
<1>2. I440fxWriteRow(m, r, v) = WithI440fx(m, x)
  BY DEF I440fxWriteRow, WithI440fx
<1>. HIDE DEF row, dd
<1>3. x \in I440FX /\ x.smram = m.i440fx.smram
  BY <1>1, OwnI440fx DEF I440FX
<1>. HIDE DEF x
<1>. QED BY <1>2, <1>3, I440fxGood

LEMMA Port92Good ==
    ASSUME NEW m, Good(m), NEW a20 \in BOOLEAN
    PROVE  Good(I440fxWritePort92(m, a20))
<1>. DEFINE a == m.i440fx.a20 \/ a20
            x == [m.i440fx EXCEPT !.a20 = a]
<1>1. a \in BOOLEAN
  OBVIOUS
<1>2. I440fxWritePort92(m, a20) = WithI440fx(m, x)
  BY DEF I440fxWritePort92, WithI440fx
<1>. HIDE DEF a
<1>3. x \in I440FX /\ x.smram = m.i440fx.smram
  BY <1>1, OwnI440fx DEF I440FX
<1>. HIDE DEF x
<1>. QED BY <1>2, <1>3, I440fxGood

LEMMA AddressGood ==
    ASSUME NEW m, Good(m), NEW t \in Targets
    PROVE  Good(I440fxWriteAddress(m, t))
<1>. DEFINE x == [m.i440fx EXCEPT !.confAddress = t]
<1>1. I440fxWriteAddress(m, t) = WithI440fx(m, x)
  BY DEF I440fxWriteAddress, WithI440fx
<1>2. x \in I440FX /\ x.smram = m.i440fx.smram
  BY OwnI440fx DEF I440FX
<1>. HIDE DEF x
<1>. QED BY <1>1, <1>2, I440fxGood

LEMMA SmramGood ==
    ASSUME NEW m, Good(m), NEW open \in BOOLEAN
    PROVE  Good(I440fxWriteSmram(m, open))
<1>. DEFINE x == [m.i440fx EXCEPT !.smram = open]
            s1 == gvm_unmap_memory(m.slots, m.smbase, SMM_RAM_SIZE)
            o2 == gvm_map_memory(s1, m.smbase, SMM_RAM_SIZE, "SMRAM")
            o3 == gvm_map_memory(o2, VgaWindow, SMM_RAM_SIZE, "SMRAM")
            c2 == gvm_map_memory(s1, m.smbase, SMM_RAM_SIZE, "RAM")
            c3 == gvm_register_mmio(c2, VgaWindow, SMM_RAM_SIZE)
<1>1. m \in MACHINE /\ m.i440fx \in I440FX /\ SlotsGood(m.slots, m.smbase, m.i440fx.smram)
  BY DEF Good, MACHINE
<1>2. x \in I440FX /\ x.smram = open
  BY <1>1 DEF I440FX
<1>3. SlotsGood(o3, m.smbase, TRUE) /\ SlotsGood(c3, VgaWindow, FALSE)
  BY <1>1, OpenGood, CloseGood
<1>4. I440fxOpenSmram(m) = [m EXCEPT !.slots = o3]
  BY DEF I440fxOpenSmram
<1>5. I440fxCloseSmram(m) = [m EXCEPT !.slots = c3, !.smbase = VgaWindow]
  BY DEF I440fxCloseSmram
<1>. HIDE DEF o3, c3
<1>6. CASE open = TRUE
  <2>1. I440fxWriteSmram(m, open) = WithSlots(m, o3, m.smbase, x)
    <3>1. I440fxWriteSmram(m, open) = [[m EXCEPT !.slots = o3] EXCEPT !.i440fx.smram = open]
      BY <1>4, <1>6 DEF I440fxWriteSmram
    <3>. QED BY <1>1, <3>1 DEF WithSlots, MACHINE
  <2>. HIDE DEF x
  <2>2. Good(WithSlots(m, o3, m.smbase, x))
    BY <1>2, <1>3, <1>6, SlotsPutGood
  <2>. QED BY <2>1, <2>2
<1>7. CASE open = FALSE
  <2>1. I440fxWriteSmram(m, open) = WithSlots(m, c3, VgaWindow, x)
    <3>1. I440fxWriteSmram(m, open) =
            [[m EXCEPT !.slots = c3, !.smbase = VgaWindow] EXCEPT !.i440fx.smram = open]
      BY <1>5, <1>7 DEF I440fxWriteSmram
    <3>. QED BY <1>1, <3>1 DEF WithSlots, MACHINE
  <2>. HIDE DEF x
  <2>2. Good(WithSlots(m, c3, VgaWindow, x))
    BY <1>2, <1>3, <1>7, SlotsPutGood
  <2>. QED BY <2>1, <2>2
<1>. QED BY <1>6, <1>7

-----------------------------------------------------------------------------
(***************************************************************************)
(* The firmware: its flash memory and its message ports.                   *)
(***************************************************************************)

\* The command that reads the array is in force, so the first byte of any other
\* one is taken for its end (FlashFirstCycle).
LEMMA FlashStays ==
    ASSUME NEW m, Good(m), NEW data, NEW fits
    PROVE  /\ Good(FlashWriteMmioHandler(m, data, fits))
           /\ Good(FlashReadMmioHandler(m))
<1>. DEFINE f == m.flash
            g == [f EXCEPT !.Wcycle = 0, !.Cmd = 0]
<1>1. f \in FLASH /\ FlashGood(f) /\ f.Wcycle = 0 /\ f.Cmd = 0
  BY DEF Good, MACHINE, FlashGood
<1>2. g \in FLASH /\ FlashGood(g)
  <2>1. 0 \in Command
    BY DEF Command
  <2>. QED BY <1>1, <2>1 DEF FLASH, FlashGood
<1>3. FlashFirstCycle(f, data) = g
  BY <1>1 DEF FlashFirstCycle, ReadArray
<1>4. FlashWriteMmioHandler(m, data, fits) = WithFlash(m, g)
  <2>. HIDE DEF g
  <2>. QED BY <1>1, <1>3 DEF FlashWriteMmioHandler, WithFlash
<1>5. FlashReadMmioHandler(m) = m
  BY <1>1 DEF FlashReadMmioHandler, Readable
<1>. HIDE DEF g
<1>. QED BY <1>2, <1>4, <1>5, FlashPutGood

\* The message never runs past its buffer (BX_BIOS_MESSAGE_SIZE).
LEMMA MessageGood ==
    ASSUME NEW m, Good(m), NEW b \in Firmware, NEW flag \in BOOLEAN
    PROVE  Good(BiosWritePanic(m, b, flag)) /\ Good(BiosWriteByte(m, b, flag))
<1>. DEFINE t == m.bios[b]
            i == t.i + 1
            p == IF flag THEN [t EXCEPT !.panic = TRUE] ELSE [t EXCEPT !.i = 0]
            w == CASE i >= BX_BIOS_MESSAGE_SIZE -> [t EXCEPT !.i = 0]
                   [] i < BX_BIOS_MESSAGE_SIZE /\ flag -> [i |-> 0, panic |-> FALSE]
                   [] OTHER -> [t EXCEPT !.i = i]
            bp == [m.bios EXCEPT ![b] = p]
            bw == [m.bios EXCEPT ![b] = w]
<1>1. m.bios \in [Firmware -> MESSAGE] /\ t \in MESSAGE
  BY DEF Good, MACHINE
<1>2. BX_BIOS_MESSAGE_SIZE \in Nat \ {0, 1}
  BY BiosAssumption
<1>3. p \in MESSAGE
  <2>1. [t EXCEPT !.panic = TRUE] \in MESSAGE
    BY <1>1 DEF MESSAGE
  <2>2. 0 \in 0..(BX_BIOS_MESSAGE_SIZE - 1)
    BY <1>2
  <2>3. [t EXCEPT !.i = 0] \in MESSAGE
    BY <1>1, <2>2 DEF MESSAGE
  <2>. QED BY <2>1, <2>3
<1>4. w \in MESSAGE
  <2>. DEFINE k == t.i
  <2>1. k \in 0..(BX_BIOS_MESSAGE_SIZE - 1)
    BY <1>1 DEF MESSAGE
  <2>2. CASE i >= BX_BIOS_MESSAGE_SIZE
    BY <1>1, <1>2, <2>1, <2>2 DEF MESSAGE
  <2>3. CASE i < BX_BIOS_MESSAGE_SIZE
    <3>1. i \in 0..(BX_BIOS_MESSAGE_SIZE - 1) /\ ~(i >= BX_BIOS_MESSAGE_SIZE)
      BY <1>2, <2>1, <2>3
    <3>. HIDE DEF i
    <3>. QED BY <1>1, <1>2, <2>3, <3>1 DEF MESSAGE
  <2>. QED BY <1>2, <2>1, <2>2, <2>3
<1>5. BiosWritePanic(m, b, flag) = WithBios(m, bp)
  BY DEF BiosWritePanic, WithBios
<1>6. BiosWriteByte(m, b, flag) = WithBios(m, bw)
  BY DEF BiosWriteByte, WithBios
<1>. HIDE DEF p, w
<1>7. bp \in [Firmware -> MESSAGE] /\ bw \in [Firmware -> MESSAGE]
  BY <1>1, <1>3, <1>4
<1>. HIDE DEF bp, bw
<1>. QED BY <1>5, <1>6, <1>7, BiosGood

-----------------------------------------------------------------------------
(***************************************************************************)
(* The DMA controllers.                                                    *)
(***************************************************************************)

\* A byte that is written to one half of a word leaves a word.
LEMMA WordOf ==
    ASSUME NEW old \in 0..(DMA_WORD - 1), NEW v \in 0..(DMA_BYTE - 1)
    PROVE  Low(old, v) \in 0..(DMA_WORD - 1) /\ High(old, v) \in 0..(DMA_WORD - 1)
<1>. DEFINE B == DMA_BYTE
            q == old \div B
            r == old % B
<1>1. B \in Nat \ {0} /\ DMA_WORD = B * B
  BY DmaAssumption DEF DMA_WORD
<1>2. B * B \in Nat /\ old \in Nat
  BY <1>1
<1>3. old = B * q + r /\ q \in Nat /\ r \in 0..(B - 1)
  BY <1>1, <1>2, Divides
<1>. HIDE DEF B, q, r
<1>4. (old * B) % (B * B) = r * B
  <2>1. old * B = (B * B) * q + r * B
    BY <1>1, <1>3
  <2>2. r * B \in 0..(B * B - 1)
    BY <1>1, <1>3
  <2>. DEFINE x == old * B
              w == B * B
              z == r * B
  <2>3. w \in Nat \ {0} /\ x \in Nat /\ z \in 0..(w - 1) /\ x = w * q + z
    BY <1>1, <1>2, <2>1, <2>2
  <2>. HIDE DEF x, w, z
  <2>4. x = w * (x \div w) + (x % w) /\ x \div w \in Nat /\ x % w \in 0..(w - 1)
    BY <2>3, Divides
  <2>. DEFINE k == x \div w
              y == x % w
  <2>5. w * k + y = w * q + z /\ k \in Nat /\ q \in Nat /\ y \in 0..(w - 1) /\ z \in 0..(w - 1)
    BY <1>3, <2>3, <2>4
  <2>. HIDE DEF k, y
  <2>6. ~(k < q)
    <3>. SUFFICES ASSUME k < q PROVE FALSE
      OBVIOUS
    <3>1. w * (q - k) = y - z /\ q - k >= 1
      BY <2>3, <2>5
    <3>2. w * (q - k) >= w
      BY <2>3, <2>5, <3>1
    <3>. QED BY <2>3, <2>5, <3>1, <3>2
  <2>7. ~(q < k)
    <3>. SUFFICES ASSUME q < k PROVE FALSE
      OBVIOUS
    <3>1. w * (k - q) = z - y /\ k - q >= 1
      BY <2>3, <2>5
    <3>2. w * (k - q) >= w
      BY <2>3, <2>5, <3>1
    <3>. QED BY <2>3, <2>5, <3>1, <3>2
  <2>8. k = q
    BY <2>5, <2>6, <2>7
  <2>9. y = z
    BY <2>3, <2>5, <2>8
  <2>. QED BY <2>9 DEF x, w, y, z
<1>5. v + r * B \in 0..(B * B - 1) /\ v * B + r \in 0..(B * B - 1)
  <2>1. v \in 0..(B - 1)
    BY DEF B
  <2>. QED BY <1>1, <1>3, <2>1
<1>6. Low(old, v) = v + r * B /\ High(old, v) = v * B + r
  BY <1>1, <1>4 DEF Low, High, B, r
<1>. QED BY <1>1, <1>5, <1>6

LEMMA OwnDma ==
    ASSUME NEW m, Good(m)
    PROVE  /\ m \in MACHINE /\ m.dma \in [Controller -> DMA_CONTROLLER]
           /\ m.event \in BOOLEAN /\ HoldGood(m.dma, m.event)
BY DEF Good, MACHINE

\* What is written to a register of a channel that has no part in the request
\* for the bus.
DmaSame(d, e) ==
    /\ d \in [Controller -> DMA_CONTROLLER]
    /\ d[1].Request = e[1].Request
    /\ \A c \in Channels : d[1].Channels[c].MaskRegister = e[1].Channels[c].MaskRegister
LEMMA DmaAside ==
    ASSUME NEW m, Good(m), NEW d, DmaSame(d, m.dma)
    PROVE  Good([m EXCEPT !.dma = d])
<1>1. \A c \in m.dma[1].Request : c \in Channels
  <2>1. m.dma[1].Request \in SUBSET {0}
    BY OwnDma DEF DMA_CONTROLLER, Controller
  <2>. QED BY <2>1, DmaAssumption
<1>2. HoldGood(d, m.event)
  BY <1>1, OwnDma DEF DmaSame, HoldGood
<1>3. [m EXCEPT !.dma = d] = WithDma(m, d, m.event)
  BY OwnDma DEF WithDma, MACHINE
<1>. QED BY <1>2, <1>3, OwnDma, DmaGood DEF DmaSame

\* One channel of one controller.
WithChannel(e, d, c, ch) == [e EXCEPT ![d].Channels[c] = ch]
WithFlipFlop(e, d, flip) == [e EXCEPT ![d].FlipFlop = flip]
LEMMA ChannelPut ==
    ASSUME NEW e \in [Controller -> DMA_CONTROLLER], NEW d \in Controller,
           NEW c \in Channels, NEW ch \in DMA_CHANNEL
    PROVE  /\ WithChannel(e, d, c, ch) \in [Controller -> DMA_CONTROLLER]
           /\ \A x \in Controller :
                WithChannel(e, d, c, ch)[x].Request = e[x].Request
           /\ \A x \in Controller, y \in Channels :
                WithChannel(e, d, c, ch)[x].Channels[y] =
                    IF x = d /\ y = c THEN ch ELSE e[x].Channels[y]
<1>. DEFINE f == [e[d].Channels EXCEPT ![c] = ch]
            k == [e[d] EXCEPT !.Channels = f]
<1>1. e[d] \in DMA_CONTROLLER /\ e[d].Channels \in [Channels -> DMA_CHANNEL]
  BY DEF DMA_CONTROLLER
<1>2. f \in [Channels -> DMA_CHANNEL]
  BY <1>1
<1>3. \A y \in Channels : f[y] = IF y = c THEN ch ELSE e[d].Channels[y]
  BY <1>1
<1>4. WithChannel(e, d, c, ch) = [e EXCEPT ![d] = k]
  BY DEF WithChannel
<1>. HIDE DEF f
<1>5. k \in DMA_CONTROLLER /\ k.Request = e[d].Request /\ k.Channels = f
  BY <1>1, <1>2 DEF DMA_CONTROLLER
<1>. HIDE DEF k
<1>6. \A x \in Controller : WithChannel(e, d, c, ch)[x] = IF x = d THEN k ELSE e[x]
  BY <1>4
<1>7. WithChannel(e, d, c, ch) \in [Controller -> DMA_CONTROLLER]
  BY <1>4, <1>5
<1>. QED BY <1>3, <1>5, <1>6, <1>7
LEMMA FlipFlopPut ==
    ASSUME NEW e \in [Controller -> DMA_CONTROLLER], NEW d \in Controller,
           NEW flip \in BOOLEAN
    PROVE  DmaSame(WithFlipFlop(e, d, flip), e)
<1>. DEFINE k == [e[d] EXCEPT !.FlipFlop = flip]
<1>1. k \in DMA_CONTROLLER /\ k.Request = e[d].Request /\ k.Channels = e[d].Channels
  BY DEF DMA_CONTROLLER
<1>2. WithFlipFlop(e, d, flip) = [e EXCEPT ![d] = k]
  BY DEF WithFlipFlop
<1>. HIDE DEF k
<1>3. \A x \in Controller : WithFlipFlop(e, d, flip)[x] = IF x = d THEN k ELSE e[x]
  BY <1>2
<1>4. WithFlipFlop(e, d, flip) \in [Controller -> DMA_CONTROLLER]
  BY <1>1, <1>2
<1>5. 1 \in Controller
  BY DEF Controller
<1>. QED BY <1>1, <1>3, <1>4, <1>5 DEF DmaSame

\* A channel that keeps its mask.
LEMMA ChannelSame ==
    ASSUME NEW e \in [Controller -> DMA_CONTROLLER], NEW d \in Controller,
           NEW c \in Channels, NEW ch \in DMA_CHANNEL,
           ch.MaskRegister = e[d].Channels[c].MaskRegister
    PROVE  DmaSame(WithChannel(e, d, c, ch), e)
<1>1. 1 \in Controller
  BY DEF Controller
<1>. QED BY <1>1, ChannelPut DEF DmaSame

PutDma(m, e) == [m EXCEPT !.dma = e]
LEMMA DmaPutGood ==
    ASSUME NEW m, Good(m), NEW e, DmaSame(e, m.dma)
    PROVE  Good(PutDma(m, e)) /\ PutDma(m, e).dma = e
BY DmaAside, OwnDma DEF PutDma, MACHINE

LEMMA TurnGood ==
    ASSUME NEW m, Good(m), NEW d \in Controller
    PROVE  Good(Turn(m, d)) /\ Good(DmaClearFlipFlop(m, d))
<1>. DEFINE flip == ~m.dma[d].FlipFlop
            e == WithFlipFlop(m.dma, d, flip)
            z == WithFlipFlop(m.dma, d, FALSE)
<1>1. Turn(m, d) = PutDma(m, e) /\ DmaClearFlipFlop(m, d) = PutDma(m, z)
  BY DEF Turn, DmaClearFlipFlop, PutDma, WithFlipFlop
<1>2. flip \in BOOLEAN
  OBVIOUS
<1>. HIDE DEF flip
<1>3. DmaSame(e, m.dma) /\ DmaSame(z, m.dma)
  BY <1>2, OwnDma, FlipFlopPut
<1>. HIDE DEF e, z
<1>. QED BY <1>1, <1>3, DmaPutGood

\* A channel that keeps its mask is written.
PutChannel(m, d, c, ch) == [m EXCEPT !.dma[d].Channels[c] = ch]
LEMMA ChannelGood ==
    ASSUME NEW m, Good(m), NEW d \in Controller, NEW c \in Channels,
           NEW ch \in DMA_CHANNEL, ch.MaskRegister = m.dma[d].Channels[c].MaskRegister
    PROVE  Good(PutChannel(m, d, c, ch))
<1>. DEFINE e == WithChannel(m.dma, d, c, ch)
<1>1. PutChannel(m, d, c, ch) = PutDma(m, e)
  BY DEF PutChannel, PutDma, WithChannel
<1>2. DmaSame(e, m.dma)
  BY OwnDma, ChannelSame
<1>. HIDE DEF e
<1>. QED BY <1>1, <1>2, DmaPutGood
LEMMA OwnChannel ==
    ASSUME NEW m, Good(m), NEW d \in Controller, NEW c \in Channels
    PROVE  m.dma[d].Channels[c] \in DMA_CHANNEL
BY OwnDma DEF DMA_CONTROLLER

\* The two halves of the address and of the count.
LEMMA DmaAddressGood ==
    ASSUME NEW m, Good(m), NEW d \in Controller, NEW c \in Channels,
           NEW v \in 0..(DMA_BYTE - 1)
    PROVE  Good(DmaWriteAddress(m, d, c, v))
<1>. DEFINE ch == m.dma[d].Channels[c]
            high == m.dma[d].FlipFlop
            base == IF high THEN High(ch.BaseAddressRegister, v)
                    ELSE Low(ch.BaseAddressRegister, v)
            count == IF high THEN 0 ELSE ch.CurrentCountRegister
            x == [ch EXCEPT !.BaseAddressRegister = base, !.CurrentAddressRegister = base,
                            !.CurrentCountRegister = count]
<1>1. ch \in DMA_CHANNEL
  BY OwnChannel
<1>2. base \in 0..(DMA_WORD - 1)
  <2>1. ch.BaseAddressRegister \in 0..(DMA_WORD - 1)
    BY <1>1 DEF DMA_CHANNEL
  <2>. HIDE DEF ch, high
  <2>. QED BY <2>1, WordOf
<1>3. count \in 0..(DMA_WORD - 1)
  <2>1. 0 \in 0..(DMA_WORD - 1)
    BY DmaAssumption DEF DMA_WORD
  <2>. QED BY <1>1, <2>1 DEF DMA_CHANNEL
<1>4. DmaWriteAddress(m, d, c, v) = Turn(PutChannel(m, d, c, x), d)
  BY DEF DmaWriteAddress, PutChannel
<1>. HIDE DEF base, count
<1>5. x \in DMA_CHANNEL /\ x.MaskRegister = m.dma[d].Channels[c].MaskRegister
  BY <1>1, <1>2, <1>3 DEF DMA_CHANNEL
<1>. HIDE DEF x
<1>6. Good(PutChannel(m, d, c, x))
  BY <1>5, ChannelGood
<1>. QED BY <1>4, <1>6, TurnGood
LEMMA DmaCountGood ==
    ASSUME NEW m, Good(m), NEW d \in Controller, NEW c \in Channels,
           NEW v \in 0..(DMA_BYTE - 1)
    PROVE  Good(DmaWriteCount(m, d, c, v))
<1>. DEFINE ch == m.dma[d].Channels[c]
            high == m.dma[d].FlipFlop
            base == IF high THEN High(ch.BaseCountRegister, v)
                    ELSE Low(ch.BaseCountRegister, v)
            adr == IF high THEN ch.BaseAddressRegister ELSE ch.CurrentAddressRegister
            x == [ch EXCEPT !.BaseCountRegister = base, !.CurrentCountRegister = base,
                            !.CurrentAddressRegister = adr]
<1>1. ch \in DMA_CHANNEL
  BY OwnChannel
<1>2. base \in 0..(DMA_WORD - 1)
  <2>1. ch.BaseCountRegister \in 0..(DMA_WORD - 1)
    BY <1>1 DEF DMA_CHANNEL
  <2>. HIDE DEF ch, high
  <2>. QED BY <2>1, WordOf
<1>3. adr \in 0..(DMA_WORD - 1)
  BY <1>1 DEF DMA_CHANNEL
<1>4. DmaWriteCount(m, d, c, v) = Turn(PutChannel(m, d, c, x), d)
  BY DEF DmaWriteCount, PutChannel
<1>. HIDE DEF base, adr
<1>5. x \in DMA_CHANNEL /\ x.MaskRegister = m.dma[d].Channels[c].MaskRegister
  BY <1>1, <1>2, <1>3 DEF DMA_CHANNEL
<1>. HIDE DEF x
<1>6. Good(PutChannel(m, d, c, x))
  BY <1>5, ChannelGood
<1>. QED BY <1>4, <1>6, TurnGood

LEMMA DmaPagesGood ==
    ASSUME NEW m, Good(m), NEW d \in Controller, NEW c \in Channels,
           NEW v \in 0..(DMA_BYTE - 1)
    PROVE  /\ Good(DmaWritePage(m, d, c, v))
           /\ Good(DmaWriteHiPage(m, d, c, v))
<1>1. 0 \in 0..(DMA_BYTE - 1)
  BY DmaAssumption
<1>2. ASSUME NEW n, Good(n), NEW w \in 0..(DMA_BYTE - 1)
      PROVE  Good([n EXCEPT !.dma[d].Channels[c].HiPageRegisters = w])
  <2>. DEFINE x == [n.dma[d].Channels[c] EXCEPT !.HiPageRegisters = w]
  <2>1. x \in DMA_CHANNEL /\ x.MaskRegister = n.dma[d].Channels[c].MaskRegister
    BY <1>2, OwnChannel DEF DMA_CHANNEL
  <2>2. [n EXCEPT !.dma[d].Channels[c].HiPageRegisters = w] = PutChannel(n, d, c, x)
    BY DEF PutChannel
  <2>. HIDE DEF x
  <2>. QED BY <1>2, <2>1, <2>2, ChannelGood
<1>. DEFINE y == [m.dma[d].Channels[c] EXCEPT !.PageRegisters = v]
            p == PutChannel(m, d, c, y)
<1>3. y \in DMA_CHANNEL /\ y.MaskRegister = m.dma[d].Channels[c].MaskRegister
  BY OwnChannel DEF DMA_CHANNEL
<1>4. DmaWritePage(m, d, c, v) = [p EXCEPT !.dma[d].Channels[c].HiPageRegisters = 0]
  BY DEF DmaWritePage, PutChannel
<1>. HIDE DEF y
<1>5. Good(p)
  BY <1>3, ChannelGood
<1>. HIDE DEF p
<1>6. Good([p EXCEPT !.dma[d].Channels[c].HiPageRegisters = 0])
  BY <1>1, <1>2, <1>5
<1>. QED BY <1>2, <1>4, <1>6 DEF DmaWriteHiPage
LEMMA DmaModeGood ==
    ASSUME NEW m, Good(m), NEW d \in Controller, NEW c \in Channels, NEW v \in 0..1
    PROVE  Good(DmaWriteMode(m, d, c, v))
<1>. DEFINE x == [m.dma[d].Channels[c] EXCEPT !.ModeRegister = v]
<1>1. x \in DMA_CHANNEL /\ x.MaskRegister = m.dma[d].Channels[c].MaskRegister
  BY OwnChannel DEF DMA_CHANNEL
<1>2. DmaWriteMode(m, d, c, v) = PutChannel(m, d, c, x)
  BY DEF PutChannel, DmaWriteMode
<1>. HIDE DEF x
<1>. QED BY <1>1, <1>2, ChannelGood

\* The request for the bus is put right from any state of the second controller.
LEMMA ControlSecondGood ==
    ASSUME NEW m, Good(m), NEW e \in [Controller -> DMA_CONTROLLER]
    PROVE  Good(ControlSecond(PutDma(m, e)))
<1>. DEFINE n == PutDma(m, e)
            un == \E c \in e[1].Request : ~e[1].Channels[c].MaskRegister
            ev == IF e[1].Request = {} THEN FALSE ELSE IF un THEN TRUE ELSE m.event
<1>1. n.dma = e /\ n.event = m.event /\ m.event \in BOOLEAN
  BY OwnDma DEF PutDma, MACHINE
<1>2. /\ [n EXCEPT !.event = FALSE] = WithDma(m, e, FALSE)
      /\ [n EXCEPT !.event = TRUE] = WithDma(m, e, TRUE)
      /\ n = WithDma(m, e, m.event)
  BY OwnDma DEF PutDma, WithDma, MACHINE
<1>. HIDE DEF n
<1>3. Unmasked(n, 1) = un
  BY <1>1 DEF Unmasked
<1>4. e[1].Request = {} => ~un
  OBVIOUS
<1>5. ControlSecond(n) = WithDma(m, e, ev)
  <2>1. CASE e[1].Request = {}
    BY <1>1, <1>2, <1>3, <1>4, <2>1 DEF ControlSecond
  <2>2. CASE e[1].Request # {} /\ un
    BY <1>1, <1>2, <1>3, <2>2 DEF ControlSecond
  <2>3. CASE e[1].Request # {} /\ ~un
    BY <1>1, <1>2, <1>3, <2>3 DEF ControlSecond
  <2>. QED BY <2>1, <2>2, <2>3
<1>6. ev \in BOOLEAN /\ HoldGood(e, ev)
  <2>1. m.event => e[1].Request # {} \/ ev = FALSE
    OBVIOUS
  <2>. QED BY <1>1 DEF HoldGood
<1>. HIDE DEF ev
<1>7. Good(WithDma(m, e, ev))
  BY <1>6, DmaGood
<1>. QED BY <1>5, <1>7 DEF n

\* The first controller asks through the second.
WithRequest(e, d, r) == [e EXCEPT ![d].Request = r]
LEMMA RequestPut ==
    ASSUME NEW e \in [Controller -> DMA_CONTROLLER], NEW d \in Controller,
           NEW r \in SUBSET {0}
    PROVE  /\ WithRequest(e, d, r) \in [Controller -> DMA_CONTROLLER]
           /\ d = 0 => WithRequest(e, d, r)[1] = e[1]
<1>. DEFINE k == [e[d] EXCEPT !.Request = r]
<1>1. k \in DMA_CONTROLLER
  BY DEF DMA_CONTROLLER
<1>2. WithRequest(e, d, r) = [e EXCEPT ![d] = k]
  BY DEF WithRequest
<1>. HIDE DEF k
<1>. QED BY <1>1, <1>2 DEF Controller
LEMMA ControlFirstGood ==
    ASSUME NEW m, Good(m), NEW e \in [Controller -> DMA_CONTROLLER], e[1] = m.dma[1]
    PROVE  Good(ControlFirst(PutDma(m, e)))
<1>. DEFINE n == PutDma(m, e)
            on == WithRequest(e, 1, {0})
            off == WithRequest(e, 1, {})
<1>1. n.dma = e
  BY OwnDma DEF PutDma, MACHINE
<1>2. /\ [n EXCEPT !.dma[1].Request = {0}] = PutDma(m, on)
      /\ [n EXCEPT !.dma[1].Request = {}] = PutDma(m, off)
  BY OwnDma DEF PutDma, WithRequest, MACHINE
<1>3. /\ on \in [Controller -> DMA_CONTROLLER]
      /\ off \in [Controller -> DMA_CONTROLLER]
  BY RequestPut DEF Controller
<1>4. Good(n)
  <2>1. DmaSame(e, m.dma)
    BY DEF DmaSame
  <2>. QED BY <2>1, DmaPutGood
<1>. HIDE DEF n, on, off
<1>5. Good(ControlSecond(PutDma(m, on))) /\ Good(ControlSecond(PutDma(m, off)))
  BY <1>3, ControlSecondGood
<1>6. /\ DmaSetHoldRequest4(n, TRUE) = ControlSecond(PutDma(m, on))
      /\ DmaSetHoldRequest4(n, FALSE) = ControlSecond(PutDma(m, off))
  BY <1>2 DEF DmaSetHoldRequest4
<1>7. ControlFirst(n) \in {n, DmaSetHoldRequest4(n, TRUE), DmaSetHoldRequest4(n, FALSE)}
  BY DEF ControlFirst
<1>8. Good(ControlFirst(n))
  BY <1>4, <1>5, <1>6, <1>7
<1>. QED BY <1>8 DEF n
LEMMA ControlGood ==
    ASSUME NEW m, Good(m), NEW d \in Controller, NEW e \in [Controller -> DMA_CONTROLLER],
           d = 0 => e[1] = m.dma[1]
    PROVE  Good(DmaControlHoldRequestLine(PutDma(m, e), d))
BY ControlFirstGood, ControlSecondGood DEF DmaControlHoldRequestLine

\* Requests and masks.
LEMMA DmaRequestGood ==
    ASSUME NEW m, Good(m), NEW d \in Controller, NEW on \in BOOLEAN
    PROVE  Good(DmaWriteRequest(m, d, on)) /\ Good(DmaWriteCommand(m, d))
<1>. DEFINE r == IF on THEN {0} ELSE {}
            e == WithRequest(m.dma, d, r)
<1>1. r \in SUBSET {0}
  OBVIOUS
<1>2. [m EXCEPT !.dma[d].Request = r] = PutDma(m, e)
  BY DEF PutDma, WithRequest
<1>3. DmaWriteRequest(m, d, on) = DmaControlHoldRequestLine(PutDma(m, e), d)
  <2>. HIDE DEF e
  <2>. QED BY <1>2 DEF DmaWriteRequest
<1>. HIDE DEF r
<1>4. e \in [Controller -> DMA_CONTROLLER] /\ (d = 0 => e[1] = m.dma[1])
  BY <1>1, OwnDma, RequestPut
<1>. HIDE DEF e
<1>5. m = PutDma(m, m.dma)
  BY OwnDma DEF PutDma, MACHINE
<1>6. Good(DmaControlHoldRequestLine(m, d))
  BY <1>5, OwnDma, ControlGood
<1>. QED BY <1>3, <1>4, <1>6, ControlGood DEF DmaWriteCommand

LEMMA DmaMaskGood ==
    ASSUME NEW m, Good(m), NEW d \in Controller, NEW c \in Channels, NEW on \in BOOLEAN
    PROVE  Good(DmaWriteMask(m, d, c, on))
<1>. DEFINE ch == m.dma[d].Channels[c]
            x == [ch EXCEPT !.MaskRegister = on]
            e == WithChannel(m.dma, d, c, x)
<1>1. x \in DMA_CHANNEL
  BY OwnChannel DEF DMA_CHANNEL
<1>2. DmaWriteMask(m, d, c, on) = DmaControlHoldRequestLine(PutDma(m, e), d)
  BY DEF DmaWriteMask, PutDma, WithChannel
<1>. HIDE DEF x
<1>3. e \in [Controller -> DMA_CONTROLLER]
  BY <1>1, OwnDma, ChannelPut
<1>4. d = 0 => e[1] = m.dma[1]
  BY OwnDma DEF WithChannel, Controller
<1>. HIDE DEF e
<1>. QED BY <1>2, <1>3, <1>4, ControlGood

LEMMA DmaMasksGood ==
    ASSUME NEW m, Good(m), NEW d \in Controller, NEW on \in BOOLEAN
    PROVE  Good(DmaWriteMasks(m, d, on))
<1>. DEFINE f == [c \in Channels |-> [m.dma[d].Channels[c] EXCEPT !.MaskRegister = on]]
            k == [m.dma[d] EXCEPT !.Channels = f]
            e == [m.dma EXCEPT ![d] = k]
<1>1. DmaWriteMasks(m, d, on) = DmaControlHoldRequestLine(PutDma(m, e), d)
  BY DEF DmaWriteMasks, PutDma
<1>2. f \in [Channels -> DMA_CHANNEL]
  <2>1. ASSUME NEW c \in Channels
        PROVE  [m.dma[d].Channels[c] EXCEPT !.MaskRegister = on] \in DMA_CHANNEL
    BY OwnChannel DEF DMA_CHANNEL
  <2>. QED BY <2>1
<1>. HIDE DEF f
<1>3. k \in DMA_CONTROLLER
  <2>1. m.dma[d] \in DMA_CONTROLLER
    BY OwnDma
  <2>. QED BY <1>2, <2>1 DEF DMA_CONTROLLER
<1>. HIDE DEF k
<1>4. e \in [Controller -> DMA_CONTROLLER] /\ (d = 0 => e[1] = m.dma[1])
  BY <1>3, OwnDma DEF Controller
<1>. HIDE DEF e
<1>. QED BY <1>1, <1>4, ControlGood

-----------------------------------------------------------------------------
(***************************************************************************)
(* Configuration space.                                                    *)
(***************************************************************************)

LEMMA BarGood ==
    ASSUME NEW m, Good(m), ~m.exited, NEW b \in Bars, NEW length,
           NEW value \in 0..(DWORD - 1)
    PROVE  Good(PciWriteBar(m, b, length, value))
<1>1. m \in MACHINE /\ PortsGood(m.ports, m.bar, m.exited)
  BY DEF Good
<1>2. BarStep(PciWriteBar(m, b, length, value), m)
  BY <1>1, WriteBarGood
<1>. QED BY <1>2, BarStepGood

\* A write to any register of configuration space.
LEMMA WriteConfGood ==
    ASSUME NEW m, Good(m), ~m.exited, NEW t, NEW length \in {1, 2, 4},
           NEW value \in 0..(DWORD - 1)
    PROVE  Good(PciWriteConfHandler(m, t, length, value))
<1>. DEFINE w1 == PciWriteBar(m, t, length, value)
            w2 == AcpiWriteBase(m, "PM", value)
            w3 == AcpiWriteBase(m, "SM", value)
            w4 == AcpiWriteConf(m, t, value # 0)
            w5 == AcpiWriteRoute(m, {i \in 0..3 : (value \div 2^i) % 2 = 1})
            w6 == I440fxWriteSmram(m, value # 0)
            w7 == I440fxWritePam(m, {b \in 0..8 : (value \div 2^b) % 2 = 1},
                                 IF length = 4 THEN 1 ELSE 0)
            w8 == I440fxWriteRow(m, t, value % 2)
            w9 == [m EXCEPT !.piix3 = Piix3WriteRoutes(@, length, value)]
            w10 == AcpiWritePin(m, value % 256)
            w11 == AcpiWritePin(m, PCI_INTA)
<1>1. t \in Bars => Good(w1)
  BY BarGood
<1>2. Good(w2) /\ Good(w3)
  BY AcpiBaseGood
<1>3. t \in {"PMIOSE", "IOSE", "SMBUS", "SMI"} => Good(w4)
  BY AcpiConfGood
<1>4. Good(w5)
  <2>. DEFINE nines == {i \in 0..3 : (value \div 2^i) % 2 = 1}
  <2>. HIDE DEF nines
  <2>1. Good(AcpiWriteRoute(m, nines))
    BY AcpiRouteGood
  <2>. QED BY <2>1 DEF nines
<1>5. Good(w6)
  <2>. DEFINE open == value # 0
  <2>1. open \in BOOLEAN
    OBVIOUS
  <2>. HIDE DEF open
  <2>2. Good(I440fxWriteSmram(m, open))
    BY <2>1, SmramGood
  <2>. QED BY <2>2 DEF open
<1>6. Good(w7)
  <2>. DEFINE bits == {b \in 0..8 : (value \div 2^b) % 2 = 1}
              i == IF length = 4 THEN 1 ELSE 0
  <2>. HIDE DEF bits, i
  <2>1. Good(I440fxWritePam(m, bits, i))
    BY PamGood
  <2>. QED BY <2>1 DEF bits, i
<1>7. t \in Rows => Good(w8)
  <2>. DEFINE v == value % 2
  <2>1. v \in 0..1
    BY Words
  <2>. HIDE DEF v
  <2>2. t \in Rows => Good(I440fxWriteRow(m, t, v))
    BY <2>1, RowGood
  <2>. QED BY <2>2 DEF v
<1>8. Good(w9)
  <2>1. value \in Nat
    BY Words
  <2>. QED BY <2>1, PirqGood
<1>8a. Good(w10) /\ Good(w11)
  <2>. DEFINE v == value % 256
  <2>1. v \in 0..255 /\ PCI_INTA \in 0..255
    BY Words DEF PCI_INTA
  <2>. HIDE DEF v
  <2>2. Good(AcpiWritePin(m, v)) /\ Good(AcpiWritePin(m, PCI_INTA))
    BY <2>1, AcpiPinGood
  <2>. QED BY <2>2 DEF v
<1>9. PciWriteConfHandler(m, t, length, value) =
        CASE t \in Bars -> w1
          [] t = "PM_BASE" -> w2
          [] t = "SM_BASE" -> w3
          [] t \in {"PMIOSE", "IOSE", "SMBUS", "SMI"} -> w4
          [] t = "ROUTE" -> w5
          [] t = "PIN" -> w10
          [] t = "LINE" -> w11
          [] t = "SMRAM" -> w6
          [] t = "PAM" -> w7
          [] t \in Rows -> w8
          [] t = "PIRQ" -> w9
          [] OTHER -> m
  BY DEF PciWriteConfHandler
<1>. HIDE DEF w1, w2, w3, w4, w5, w6, w7, w8, w9, w10, w11
<1>. QED BY <1>1, <1>2, <1>3, <1>4, <1>5, <1>6, <1>7, <1>8, <1>8a, <1>9

LEMMA ReadConfGood ==
    ASSUME NEW m, Good(m), NEW t
    PROVE  Good(PciReadConfHandler(m, t))
BY ExitGood DEF PciReadConfHandler

-----------------------------------------------------------------------------
(***************************************************************************)
(* The inductive invariant.                                                *)
(***************************************************************************)

ChipsetInv == Good(Machine) /\ session \in Sessions

\* A step to a good machine keeps the invariant.
LEMMA BecomeGood ==
    ASSUME NEW m, Good(m), Become(m), session \in Sessions
    PROVE  ChipsetInv'
<1>1. m \in MACHINE
  BY DEF Good
<1>2. Machine' = m
  BY <1>1 DEF Machine, Become, MACHINE
<1>3. session' \in Sessions
  BY DEF Become
<1>. QED BY <1>2, <1>3 DEF ChipsetInv

LEMMA ChipsetInit == Init => ChipsetInv
<1>. SUFFICES ASSUME Init PROVE ChipsetInv
  OBVIOUS
<1>. DEFINE m == Machine
<1>1. /\ m.ports = PortsInitial /\ m.bar = [b \in Bars |-> PciSetBarIo]
      /\ m.pins = {} /\ m.lines = {}
      /\ m.slots = gvm_register_mmio(gvm_init, VgaWindow, SMM_RAM_SIZE)
      /\ m.smbase = 3 /\ m.acpi = AcpiInitialize /\ m.smi = FALSE
      /\ m.piix3 = Piix3Initialize
      /\ m.i440fx = I440fxInitialize(CHOOSE t \in Targets : TRUE)
      /\ m.dma = DmaInitialize /\ m.event = FALSE /\ m.flash = FlashInitialize
      /\ m.bios = BiosInitialize /\ m.exited = FALSE
  BY DEF Machine, Init
<1>2. m = [ports |-> m.ports, bar |-> m.bar, pins |-> m.pins, lines |-> m.lines,
           slots |-> m.slots, smbase |-> m.smbase, acpi |-> m.acpi, smi |-> m.smi,
           piix3 |-> m.piix3, i440fx |-> m.i440fx, dma |-> m.dma, flash |-> m.flash,
           bios |-> m.bios, event |-> m.event, exited |-> m.exited]
  BY DEF Machine
<1>. HIDE DEF m
<1>3. m.ports \in [Ports -> Handlers] /\ m.bar \in [Bars -> BAR]
  <2>1. PortsInitial \in [Ports -> Handlers]
    BY DEF PortsInitial, Handlers
  <2>2. PciSetBarIo \in BAR /\ PciSetBarIo.addr = 0
    BY Words DEF PciSetBarIo, BAR
  <2>. QED BY <1>1, <2>1, <2>2
<1>4. PortsGood(m.ports, m.bar, m.exited)
  <2>1. \A b \in Bars : m.bar[b].addr = 0
    BY <1>1 DEF PciSetBarIo
  <2>2. Kept(m.ports)
    BY <1>1, PciAssumption DEF Kept, PortsInitial, Ports
  <2>. QED BY <2>1, <2>2 DEF PortsGood, Aligned, Owned, Apart
<1>5. SlotsGood(m.slots, m.smbase, FALSE)
  BY <1>1, SlotsStart
<1>6. m.slots \in [0..mem_slots_num -> SLOT] /\ m.smbase \in Nat
  BY <1>1, <1>5 DEF SlotsGood, Layout
<1>7. m.acpi \in ACPI /\ SciGood(m.acpi, m.pins)
  <2>1. 0 \in 0..(DWORD - 1) /\ 0 \in 0..(SmData - 1)
    BY Words, AcpiAssumption
  <2>. DEFINE route == [i \in 0..3 |-> IF i = 3 THEN 96 ELSE 0]
              a == [PmBase |-> 0, SmBase |-> 0, PmStatus |-> {}, PmEnable |-> {},
                    PmControl |-> {}, PmRegisters |-> 0, SmIndex |-> 0,
                    Active |-> TRUE, conf |-> {}, pin |-> 1, left |-> {},
                    route |-> route]
  <2>2. m.acpi = a
    BY <1>1 DEF AcpiInitialize, PCI_INTA
  <2>3. route \in [0..3 -> {0, 9, 96}]
    OBVIOUS
  <2>. HIDE DEF route
  <2>4. a \in ACPI
    BY <2>1, <2>3 DEF ACPI
  <2>5. a.left = {} /\ a.Active
    OBVIOUS
  <2>. HIDE DEF a
  <2>6. SciGood(a, {})
    BY <2>5 DEF SciGood
  <2>. QED BY <1>1, <2>2, <2>4, <2>6
<1>8. m.piix3 \in PIIX3 /\ RoutesGood(m.piix3)
  <2>1. 0 \in Irq
    BY DEF Irq
  <2>. QED BY <1>1, <2>1 DEF Piix3Initialize, PIIX3, RoutesGood
<1>9. m.i440fx \in I440FX /\ m.i440fx.smram = FALSE
  <2>. DEFINE t == CHOOSE t \in Targets : TRUE
  <2>1. t \in Targets
    BY I440fxAssumption
  <2>. HIDE DEF t
  <2>2. m.i440fx = I440fxInitialize(t)
    BY <1>1 DEF t
  <2>. QED BY <2>1, <2>2 DEF I440fxInitialize, I440FX
<1>10. m.dma \in [Controller -> DMA_CONTROLLER] /\ HoldGood(m.dma, m.event)
  <2>. DEFINE z == [BaseAddressRegister |-> 0, CurrentAddressRegister |-> 0,
                    BaseCountRegister |-> 0, CurrentCountRegister |-> 0,
                    MaskRegister |-> FALSE, ModeRegister |-> 0,
                    PageRegisters |-> 0, HiPageRegisters |-> 0]
              k == [Request |-> {}, FlipFlop |-> FALSE, Channels |-> [c \in Channels |-> z]]
  <2>1. 0 \in 0..(DMA_WORD - 1) /\ 0 \in 0..(DMA_BYTE - 1)
    BY DmaAssumption DEF DMA_WORD
  <2>2. z \in DMA_CHANNEL
    BY <2>1 DEF DMA_CHANNEL
  <2>3. m.dma = [d \in Controller |-> k]
    BY <1>1 DEF DmaInitialize
  <2>. HIDE DEF z
  <2>4. k \in DMA_CONTROLLER /\ k.Request = {}
    BY <2>2 DEF DMA_CONTROLLER
  <2>. HIDE DEF k
  <2>5. 1 \in Controller
    BY DEF Controller
  <2>. QED BY <1>1, <2>3, <2>4, <2>5 DEF HoldGood
<1>11. m.flash \in FLASH /\ FlashGood(m.flash)
  BY <1>1 DEF FlashInitialize, FLASH, FlashGood, Command
<1>12. m.bios \in [Firmware -> MESSAGE]
  <2>1. 0 \in 0..(BX_BIOS_MESSAGE_SIZE - 1)
    BY BiosAssumption
  <2>. QED BY <1>1, <2>1 DEF BiosInitialize, MESSAGE
<1>13. m \in MACHINE
  <2>1. /\ m.pins \in SUBSET Nat /\ m.lines \in SUBSET Irq /\ m.smi \in BOOLEAN
        /\ m.event \in BOOLEAN /\ m.exited \in BOOLEAN
    BY <1>1
  <2>. QED BY <1>2, <1>3, <1>6, <1>7, <1>8, <1>9, <1>10, <1>11, <1>12, <2>1 DEF MACHINE
<1>14. Good(m)
  BY <1>4, <1>5, <1>7, <1>8, <1>9, <1>10, <1>11, <1>13 DEF Good
<1>. QED BY <1>14 DEF ChipsetInv, m, Init

\* What is known of the guest's session.
LEMMA SessionIs ==
    ASSUME session \in Sessions
    PROVE  /\ session.targets \subseteq Targets
           /\ session.lengths \subseteq {1, 2, 4}
           /\ session.values \subseteq 0..(DWORD - 1)
           /\ session.ports \subseteq Ports
BY ChipsetAssumption

LEMMA ChipsetStep == ChipsetInv /\ [Next]_vars => ChipsetInv'
<1>. SUFFICES ASSUME ChipsetInv, [Next]_vars PROVE ChipsetInv'
  OBVIOUS
<1>. DEFINE m == Machine
<1>1. Good(m) /\ session \in Sessions /\ m.exited = exited
  BY DEF ChipsetInv, Machine
<1>2. CASE UNCHANGED vars
  <2>1. Become(m)
    BY <1>2 DEF vars, Become, Machine
  <2>. HIDE DEF m
  <2>. QED BY <1>1, <2>1, BecomeGood
<1>3. CASE Next
  <2>0. ~m.exited
    BY <1>1, <1>3 DEF Next
  <2>. SUFFICES ASSUME NEW n, Good(n), Become(n) PROVE ChipsetInv'
    <3>1. \E n : Good(n) /\ Become(n)
      <4>1. CASE WriteConfAddress
        <5>1. PICK t \in session.targets : Become(I440fxWriteAddress(m, t))
          BY <4>1 DEF WriteConfAddress
        <5>2. Good(I440fxWriteAddress(m, t))
          BY <1>1, SessionIs, AddressGood
        <5>. QED BY <5>1, <5>2
      <4>2. CASE WriteConfData
        <5>1. PICK length \in session.lengths, v \in session.values :
                  Become(PciWriteConfHandler(m, i440fx.confAddress, length, v))
          BY <4>2 DEF WriteConfData
        <5>2. length \in {1, 2, 4} /\ v \in 0..(DWORD - 1)
          BY <1>1, SessionIs
        <5>. HIDE DEF m
        <5>3. Good(PciWriteConfHandler(m, i440fx.confAddress, length, v))
          BY <1>1, <2>0, <5>2, WriteConfGood
        <5>. QED BY <5>1, <5>3
      <4>3. CASE ReadConfData
        <5>1. Become(PciReadConfHandler(m, i440fx.confAddress))
          BY <4>3 DEF ReadConfData
        <5>. HIDE DEF m
        <5>2. Good(PciReadConfHandler(m, i440fx.confAddress))
          BY <1>1, ReadConfGood
        <5>. QED BY <5>1, <5>2
      <4>4. CASE WritePort
        <5>1. PICK a \in session.ports, v \in 0..1, over \in BOOLEAN :
                  Become(CASE PortHandler(m, a) = "ACPI" ->
                                  AcpiWritePortIoHandler(m, a, v, over)
                           [] PortHandler(m, a) = NoHandler -> Exit(m)
                           [] OTHER -> m)
          BY <4>4 DEF WritePort
        <5>. HIDE DEF m
        <5>2. Good(AcpiWritePortIoHandler(m, a, v, over)) /\ Good(Exit(m))
          BY <1>1, AcpiWritePortGood, ExitGood
        <5>. DEFINE n == CASE PortHandler(m, a) = "ACPI" ->
                                  AcpiWritePortIoHandler(m, a, v, over)
                           [] PortHandler(m, a) = NoHandler -> Exit(m)
                           [] OTHER -> m
        <5>3. Good(n)
          BY <1>1, <5>2 DEF NoHandler
        <5>. HIDE DEF n
        <5>4. Become(n)
          BY <5>1 DEF n
        <5>. QED BY <5>3, <5>4
      <4>5. CASE ReadPort
        <5>1. PICK a \in session.ports, over \in BOOLEAN :
                  Become(CASE PortHandler(m, a) = "ACPI" ->
                                  AcpiReadPortIoHandler(m, a, over)
                           [] PortHandler(m, a) = NoHandler -> Exit(m)
                           [] OTHER -> m)
          BY <4>5 DEF ReadPort
        <5>. HIDE DEF m
        <5>2. Good(AcpiReadPortIoHandler(m, a, over)) /\ Good(Exit(m))
          BY <1>1, AcpiReadPortGood, ExitGood
        <5>. DEFINE n == CASE PortHandler(m, a) = "ACPI" ->
                                  AcpiReadPortIoHandler(m, a, over)
                           [] PortHandler(m, a) = NoHandler -> Exit(m)
                           [] OTHER -> m
        <5>3. Good(n)
          BY <1>1, <5>2 DEF NoHandler
        <5>. HIDE DEF n
        <5>4. Become(n)
          BY <5>1 DEF n
        <5>. QED BY <5>3, <5>4
      <4>6. CASE AcpiTick
        <5>1. PICK over \in BOOLEAN : Become(AcpiTimerHandler(m, over))
          BY <4>6 DEF AcpiTick
        <5>. HIDE DEF m
        <5>. QED BY <1>1, <5>1, AcpiTimerGood
      <4>7. CASE WritePort92
        <5>1. PICK a20 \in BOOLEAN : Become(I440fxWritePort92(m, a20))
          BY <4>7 DEF WritePort92
        <5>. HIDE DEF m
        <5>. QED BY <1>1, <5>1, Port92Good
      <4>8. CASE WritePiix3
        <5>1. \/ \E v \in {"NONE", "ACPI_ENABLE", "ACPI_DISABLE"} :
                     Become(AcpiGenerateAcpi([m EXCEPT !.piix3.APMControl = v], v))
              \/ \E v \in 0..1 : Become([m EXCEPT !.piix3 = Piix3WriteStatus(@, v)])
              \/ \E e \in {1, 2}, levels \in SUBSET (0..7) :
                     Become([m EXCEPT !.piix3 = Piix3WriteTrigger(@, e, levels)])
              \/ Become([m EXCEPT !.piix3 = Piix3WriteReset(@)])
          BY <4>8 DEF WritePiix3
        <5>. HIDE DEF m
        <5>2. ASSUME NEW v \in {"NONE", "ACPI_ENABLE", "ACPI_DISABLE"},
                     Become(AcpiGenerateAcpi([m EXCEPT !.piix3.APMControl = v], v))
              PROVE  \E n : Good(n) /\ Become(n)
          BY <1>1, <5>2, AcpiGenerateGood
        <5>3. ASSUME NEW v \in 0..1, Become([m EXCEPT !.piix3 = Piix3WriteStatus(@, v)])
              PROVE  \E n : Good(n) /\ Become(n)
          BY <1>1, <5>3, Piix3PortsGood
        <5>4. ASSUME NEW e \in {1, 2}, NEW levels \in SUBSET (0..7),
                     Become([m EXCEPT !.piix3 = Piix3WriteTrigger(@, e, levels)])
              PROVE  \E n : Good(n) /\ Become(n)
          BY <1>1, <5>4, Piix3PortsGood
        <5>5. ASSUME Become([m EXCEPT !.piix3 = Piix3WriteReset(@)])
              PROVE  \E n : Good(n) /\ Become(n)
          BY <1>1, <5>5, Piix3PortsGood
        <5>. QED BY <5>1, <5>2, <5>3, <5>4, <5>5
      <4>9. CASE WriteDmaWords
        <5>1. PICK v \in 0..(DMA_BYTE - 1), c \in Channels :
                  \/ Become(DmaWriteAddress(m, 0, c, v))
                  \/ Become(DmaWriteCount(m, 0, c, v))
                  \/ Become(DmaReadWord(m, 0))
                  \/ Become(DmaClearFlipFlop(m, 0))
          BY <4>9 DEF WriteDmaWords
        <5>. HIDE DEF m
        <5>2. 0 \in Controller
          BY DEF Controller
        <5>3. /\ Good(DmaWriteAddress(m, 0, c, v)) /\ Good(DmaWriteCount(m, 0, c, v))
              /\ Good(DmaReadWord(m, 0)) /\ Good(DmaClearFlipFlop(m, 0))
          BY <1>1, <5>2, DmaAddressGood, DmaCountGood, TurnGood DEF DmaReadWord
        <5>. QED BY <5>1, <5>3
      <4>10. CASE WriteDmaPages
        <5>1. PICK v \in 0..1, d \in Controller, c \in Channels :
                  \/ Become(DmaWritePage(m, d, c, v))
                  \/ Become(DmaWriteHiPage(m, d, c, v))
                  \/ Become(DmaWriteMode(m, d, c, v))
          BY <4>10 DEF WriteDmaPages
        <5>. HIDE DEF m
        <5>2. v \in 0..(DMA_BYTE - 1)
          BY DmaAssumption
        <5>. QED BY <1>1, <5>1, <5>2, DmaPagesGood, DmaModeGood
      <4>11. CASE WriteDmaControl
        <5>1. PICK d \in Controller, on \in BOOLEAN :
                  \/ Become(DmaWriteRequest(m, d, on))
                  \/ Become(DmaWriteCommand(m, d))
                  \/ Become(DmaWriteMasks(m, d, on))
                  \/ \E c \in Channels : Become(DmaWriteMask(m, d, c, on))
          BY <4>11 DEF WriteDmaControl
        <5>. HIDE DEF m
        <5>. QED BY <1>1, <5>1, DmaRequestGood, DmaMasksGood, DmaMaskGood
      <4>12. CASE AccessFlash
        <5>1. \/ \E data \in Command, fits \in BOOLEAN :
                     Become(FlashWriteMmioHandler(m, data, fits))
              \/ Become(FlashReadMmioHandler(m))
          BY <4>12 DEF AccessFlash
        <5>. HIDE DEF m
        <5>. QED BY <1>1, <5>1, FlashStays
      <4>13. CASE WriteMessage
        <5>1. PICK b \in Firmware, flag \in BOOLEAN :
                  \/ Become(BiosWritePanic(m, b, flag))
                  \/ Become(BiosWriteByte(m, b, flag))
          BY <4>13 DEF WriteMessage
        <5>. HIDE DEF m
        <5>. QED BY <1>1, <5>1, MessageGood
      <4>. QED BY <1>3, <4>1, <4>2, <4>3, <4>4, <4>5, <4>6, <4>7, <4>8, <4>9, <4>10,
                  <4>11, <4>12, <4>13 DEF Next
    <3>. QED BY <3>1
  <2>. QED BY <1>1, BecomeGood
<1>. QED BY <1>2, <1>3

LEMMA ChipsetAlways == Spec => []ChipsetInv
<1>. QED BY ChipsetInit, ChipsetStep, PTL DEF Spec

-----------------------------------------------------------------------------
(***************************************************************************)
(* The theorems.                                                           *)
(***************************************************************************)

\* The state stays in the ranges of the code's structures, the search by halves
\* finds every region, every route is registered with its interrupt, and the
\* firmware is never changed.
THEOREM ChipsetStaysConsistent == Spec => []ChipsetConsistent
<1>1. ChipsetInv => ChipsetConsistent
  <2>. SUFFICES ASSUME ChipsetInv PROVE ChipsetConsistent
    OBVIOUS
  <2>1. Good(Machine) /\ Machine \in MACHINE
    BY DEF ChipsetInv, Good
  <2>2. TypeOK
    BY <2>1 DEF Machine, MACHINE, TypeOK
  <2>3. Layout(slots) /\ RoutesGood(piix3) /\ FlashGood(flash)
    BY <2>1 DEF Good, Machine, SlotsGood
  <2>4. SlotFound
    BY <2>3, EndsFound DEF SlotFound
  <2>5. RouteRegistered
    BY <2>3 DEF RoutesGood, RouteRegistered
  <2>6. FlashReadsArray
    BY <2>3 DEF FlashGood, FlashReadsArray, ReadsArray
  <2>. QED BY <2>2, <2>4, <2>5, <2>6 DEF ChipsetConsistent
<1>. QED BY <1>1, ChipsetAlways, PTL

\* Every access of a port reaches the device that the guest has put there or that
\* was there from the start, however the registers are moved over one another.
THEOREM PortsLeadToDevices == Spec => []PortsLead
<1>1. ChipsetInv => PortsLead
  <2>. SUFFICES ASSUME ChipsetInv PROVE PortsLead
    OBVIOUS
  <2>1. PortsGood(ports, bar, exited)
    BY DEF ChipsetInv, Good, Machine
  <2>. QED BY <2>1 DEF PortsGood, Owned, Kept, PortsLead, BarOwnsPorts, FixedKept
<1>. QED BY <1>1, ChipsetAlways, PTL

\* A guest that asks for the size of a register and writes the address back finds
\* every port as it was.
THEOREM SizingIsTransparent == Spec => []RestoreIsTransparent
<1>1. ChipsetInv => RestoreIsTransparent
  <2>. SUFFICES ASSUME ChipsetInv, ~exited, NEW b \in Bars, bar[b].addr # 0
                PROVE  LET back == PciWriteBar(PciWriteBar(Machine, b, 4, DWORD - 1),
                                               b, 4, bar[b].addr)
                       IN  back.ports = ports /\ ~back.exited
    BY DEF RestoreIsTransparent
  <2>. DEFINE m == Machine
  <2>1. m.ports = ports /\ m.bar = bar /\ m.exited = exited
    BY DEF Machine
  <2>2. m \in MACHINE /\ PortsGood(m.ports, m.bar, m.exited)
    BY DEF ChipsetInv, Good
  <2>. HIDE DEF m
  <2>3. LET back == PciWriteBar(PciWriteBar(m, b, 4, DWORD - 1), b, 4, m.bar[b].addr)
        IN  back.ports = m.ports /\ ~back.exited
    BY <2>1, <2>2, RestoreBar
  <2>. QED BY <2>1, <2>3 DEF m
<1>. QED BY <1>1, ChipsetAlways, PTL

\* The system control interrupt is up only with its event, and never enabled and
\* down without the timer that will raise it, at the pin that the guest's register
\* names; a pin that the guest took it from or gave it to is as it was until
\* AcpiPmUpdateSci next sets it (acpi.c:56).
THEOREM SciFollowsEvent == Spec => []SciFollows
<1>1. ChipsetInv => SciFollows
  BY DEF ChipsetInv, Good, Machine, SciGood, SciFollows, SciJustified, SciArmed
<1>. QED BY <1>1, ChipsetAlways, PTL

\* While system management memory is closed no region that the guest reaches
\* shows it, and the window of the display is the display's.
THEOREM SmramStaysHidden == Spec => []SmramHidden
<1>1. ChipsetInv => SmramHidden
  <2>. SUFFICES ASSUME ChipsetInv, ~i440fx.smram, NEW i \in 0..mem_slots_num, slots[i].mapped
                PROVE  slots[i].host # "SMRAM" /\ slots[i].gpa # VgaWindow
    BY DEF SmramHidden
  <2>1. SlotsGood(slots, smbase, i440fx.smram)
    BY DEF ChipsetInv, Good, Machine
  <2>2. i440fx.smram = FALSE
    <3>1. i440fx \in I440FX
      BY DEF ChipsetInv, Good, MACHINE, Machine
    <3>. QED BY <3>1 DEF I440FX
  <2>. QED BY <2>1, <2>2, ClosedHidden
<1>. QED BY <1>1, ChipsetAlways, PTL

\* The request for the bus is up while an unmasked request asks for it, and down
\* when the second controller has none.
THEOREM HoldFollowsRequests == Spec => []HoldFollows
<1>1. ChipsetInv => HoldFollows
  BY DEF ChipsetInv, Good, Machine, HoldGood, HoldFollows, Unmasked
<1>. QED BY <1>1, ChipsetAlways, PTL

=============================================================================
