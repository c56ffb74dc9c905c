---------------------------- MODULE TimersProofs ----------------------------
(***************************************************************************)
(* Proofs about Timers, for every table of slots, width of a byte, set of  *)
(* timers of the HPET, routes and guests.  The handlers take a machine and *)
(* return one: each is shown to be Smooth, which says what it keeps, and   *)
(* Smooth is passed on from one call to the next.                          *)
(***************************************************************************)
EXTENDS Timers, Rounds, TLAPS

LINES == {PIT_IRQ, RTC_IRQ} \cup Routes
MACHINE ==
    [slots : [Slots -> TIMER], lines : SUBSET LINES, pit : PIT, hpet : HPET,
     rtc : BOOLEAN, exited : BOOLEAN]

-----------------------------------------------------------------------------
(***************************************************************************)
(* What the handlers keep.                                                 *)
(***************************************************************************)

\* A count of zero is that of a counter that was never loaded, or loaded with more
\* than two bytes.
Loaded(p) ==
    \A ch \in Counters :
        p.counter[ch].count = 0 /\ p.counter[ch].countWritten => p.counter[ch].wide

\* A slot of the interval timer that is active waits for a transition.
Awake(s, p) == s[PitSlot].Active => p.counter[0].next # "never"
Deadly(c) == c.mode \in {2, 3} /\ (c.countWritten => c.wide)
Died(p) == \E ch \in Counters : Deadly(p.counter[ch])
Sound(m) ==
    /\ m \in MACHINE
    /\ Loaded(m.pit)
    /\ Awake(m.slots, m.pit)
    /\ m.exited => Died(m.pit)

\* The HPET replaces the interval timer and the clock.
Replaces(m) ==
    LET legacy == "LEGACY" \in m.hpet.GlobalConfiguration
    IN  m.pit.InterruptEnabled = ~legacy /\ m.rtc = ~legacy

\* A level interrupt that is pending has its line.
PendIn(m, b) ==
    /\ b \in m.hpet.InterruptStatus
    /\ Enabled(m)
    /\ {"EDGE_LEVEL", "IRQ_ENABLE"} \subseteq Conf(m, b)
    /\ "FSB_ENABLE" \notin Conf(m, b)
    /\ b = 0 => ~m.pit.InterruptEnabled
OwnIn(m, b) == \A c \in Blocks \ {b} : IrqNumber(m, c) # IrqNumber(m, b)
HeldIn(m, b) == PendIn(m, b) => IrqNumber(m, b) \in m.lines

\* What is latched stays latched as it is.
LatchSame(p, q) ==
    \A ch \in Counters : q.counter[ch].countLatched # 0 =>
        /\ p.counter[ch].outlatch = q.counter[ch].outlatch
        /\ p.counter[ch].countLatched # 0

Smooth(n, m) ==
    /\ Sound(n)
    /\ n.hpet.GlobalConfiguration = m.hpet.GlobalConfiguration
    /\ n.hpet.Timer = m.hpet.Timer
    /\ n.pit.InterruptEnabled = m.pit.InterruptEnabled
    /\ n.rtc = m.rtc
    /\ LatchSame(n.pit, m.pit)
    /\ \A b \in Blocks : OwnIn(m, b) /\ HeldIn(m, b) => HeldIn(n, b)

LEMMA SmoothSelf ==
    ASSUME NEW m, Sound(m)
    PROVE  Smooth(m, m)
BY DEF Smooth, LatchSame

LEMMA SmoothTwice ==
    ASSUME NEW k, NEW n, NEW m, Smooth(k, n), Smooth(n, m)
    PROVE  Smooth(k, m)
<1>1. \A b \in Blocks : OwnIn(m, b) => OwnIn(n, b)
  BY DEF Smooth, OwnIn, IrqNumber, Conf
<1>2. LatchSame(k.pit, m.pit)
  BY DEF Smooth, LatchSame
<1>. QED BY <1>1, <1>2 DEF Smooth

\* The line of a pending interrupt.
LEMMA PendingLine ==
    ASSUME NEW m, NEW b \in Blocks, PendIn(m, b)
    PROVE  /\ b = 0 => IrqNumber(m, b) = PIT_IRQ /\ ~m.pit.InterruptEnabled
           /\ b # 0 => IrqNumber(m, b) = RTC_IRQ
BY DEF PendIn, IrqNumber

-----------------------------------------------------------------------------
(***************************************************************************)
(* Replacing a part of a machine.                                          *)
(***************************************************************************)

\* No pending interrupt loses its line.
Spares(m, l) ==
    \A b \in Blocks : PendIn(m, b) /\ IrqNumber(m, b) \in m.lines => IrqNumber(m, b) \in l

WithPit(m, l, p, s) == [m EXCEPT !.lines = l, !.pit = p, !.slots = s]
LEMMA PitPut ==
    ASSUME NEW m, Sound(m), NEW l \in SUBSET LINES, NEW p \in PIT,
           NEW s \in [Slots -> TIMER], Loaded(p), Awake(s, p), m.exited => Died(p),
           p.InterruptEnabled = m.pit.InterruptEnabled, LatchSame(p, m.pit), Spares(m, l)
    PROVE  Smooth(WithPit(m, l, p, s), m)
<1>. DEFINE n == WithPit(m, l, p, s)
<1>1. m \in MACHINE
  BY DEF Sound
<1>2. n \in MACHINE
  BY <1>1 DEF WithPit, MACHINE
<1>3. /\ n.lines = l /\ n.pit = p /\ n.slots = s /\ n.hpet = m.hpet /\ n.rtc = m.rtc
      /\ n.exited = m.exited
  BY <1>1 DEF WithPit, MACHINE
<1>. HIDE DEF n
<1>4. Sound(n)
  BY <1>2, <1>3 DEF Sound
<1>5. ASSUME NEW b \in Blocks, HeldIn(m, b) PROVE HeldIn(n, b)
  <2>1. IrqNumber(n, b) = IrqNumber(m, b) /\ (PendIn(n, b) => PendIn(m, b))
    BY <1>3 DEF IrqNumber, PendIn, Conf, Enabled
  <2>. QED BY <1>3, <1>5, <2>1 DEF HeldIn, Spares
<1>6. Smooth(n, m)
  BY <1>3, <1>4, <1>5 DEF Smooth
<1>. QED BY <1>6 DEF n

LEMMA OwnParts ==
    ASSUME NEW m, Sound(m)
    PROVE  /\ m \in MACHINE /\ m.slots \in [Slots -> TIMER] /\ m.lines \in SUBSET LINES
           /\ m.pit \in PIT /\ m.pit.counter \in [Counters -> COUNTER]
           /\ m.pit.InterruptEnabled \in BOOLEAN
           /\ m.hpet \in HPET /\ m.rtc \in BOOLEAN /\ m.exited \in BOOLEAN
           /\ Loaded(m.pit) /\ Awake(m.slots, m.pit) /\ (m.exited => Died(m.pit))
           /\ LatchSame(m.pit, m.pit) /\ Spares(m, m.lines)
           /\ m = WithPit(m, m.lines, m.pit, m.slots)
BY DEF Sound, MACHINE, PIT, LatchSame, Spares, WithPit

\* One counter of the interval timer.
WithCounter(p, ch, c) == [p EXCEPT !.counter[ch] = c]
LEMMA CounterPut ==
    ASSUME NEW p \in PIT, NEW ch \in Counters, NEW c \in COUNTER
    PROVE  /\ WithCounter(p, ch, c) \in PIT
           /\ WithCounter(p, ch, c).InterruptEnabled = p.InterruptEnabled
           /\ WithCounter(p, ch, c).counter[ch] = c
           /\ \A x \in Counters \ {ch} : WithCounter(p, ch, c).counter[x] = p.counter[x]
<1>. DEFINE f == [p.counter EXCEPT ![ch] = c]
<1>1. p.counter \in [Counters -> COUNTER]
  BY DEF PIT
<1>2. /\ f \in [Counters -> COUNTER] /\ f[ch] = c
      /\ \A x \in Counters \ {ch} : f[x] = p.counter[x]
  BY <1>1
<1>3. WithCounter(p, ch, c) = [p EXCEPT !.counter = f]
  BY DEF WithCounter
<1>. HIDE DEF f
<1>4. /\ [p EXCEPT !.counter = f] \in PIT /\ [p EXCEPT !.counter = f].counter = f
      /\ [p EXCEPT !.counter = f].InterruptEnabled = p.InterruptEnabled
  BY <1>2 DEF PIT
<1>. QED BY <1>2, <1>3, <1>4

\* What a counter that is written must agree on with what it was.
CounterLike(c, d) ==
    /\ c \in COUNTER
    /\ c.count = 0 /\ c.countWritten => c.wide
    /\ d.countLatched # 0 => c.outlatch = d.outlatch /\ c.countLatched # 0
CounterAlive(c, d) ==
    c.mode = d.mode /\ c.countWritten = d.countWritten /\ c.wide = d.wide
LEMMA CounterLikeSelf ==
    ASSUME NEW m, Sound(m), NEW ch \in Counters
    PROVE  CounterLike(m.pit.counter[ch], m.pit.counter[ch])
BY OwnParts DEF CounterLike, Loaded

\* Counter ch, the lines and the slots are written.
LEMMA CounterStep ==
    ASSUME NEW m, Sound(m), NEW ch \in Counters, NEW c, CounterLike(c, m.pit.counter[ch]),
           m.exited => CounterAlive(c, m.pit.counter[ch]),
           NEW l \in SUBSET LINES, Spares(m, l), NEW s \in [Slots -> TIMER],
           s[PitSlot].Active =>
               IF ch = 0 THEN c.next # "never" ELSE m.pit.counter[0].next # "never"
    PROVE  Smooth(WithPit(m, l, WithCounter(m.pit, ch, c), s), m)
<1>. DEFINE p == WithCounter(m.pit, ch, c)
<1>1. /\ p \in PIT /\ p.InterruptEnabled = m.pit.InterruptEnabled
      /\ p.counter[ch] = c
      /\ \A x \in Counters \ {ch} : p.counter[x] = m.pit.counter[x]
  BY OwnParts, CounterPut DEF CounterLike
<1>. HIDE DEF p
<1>2. Loaded(p)
  BY <1>1, OwnParts DEF Loaded, CounterLike
<1>3. Awake(s, p)
  BY <1>1 DEF Awake, Counters
<1>4. m.exited => Died(p)
  <2>. SUFFICES ASSUME m.exited PROVE Died(p)
    OBVIOUS
  <2>1. PICK x \in Counters : Deadly(m.pit.counter[x])
    BY OwnParts DEF Died
  <2>2. p.counter[x].countWritten = m.pit.counter[x].countWritten
        /\ p.counter[x].wide = m.pit.counter[x].wide
        /\ p.counter[x].mode = m.pit.counter[x].mode
    BY <1>1 DEF CounterAlive
  <2>3. Deadly(p.counter[x])
    BY <2>1, <2>2 DEF Deadly
  <2>. QED BY <2>3 DEF Died
<1>5. LatchSame(p, m.pit)
  BY <1>1 DEF LatchSame, CounterLike
<1>6. Smooth(WithPit(m, l, p, s), m)
  BY <1>1, <1>2, <1>3, <1>4, <1>5, PitPut
<1>. QED BY <1>6 DEF p

\* Only the counter is written.
LEMMA CounterOnly ==
    ASSUME NEW m, Sound(m), NEW ch \in Counters, NEW c, CounterLike(c, m.pit.counter[ch]),
           m.exited => CounterAlive(c, m.pit.counter[ch]),
           ch = 0 => c.next = m.pit.counter[0].next
    PROVE  Smooth(PutCounter(m, ch, c), m)
<1>1. PutCounter(m, ch, c) = WithPit(m, m.lines, WithCounter(m.pit, ch, c), m.slots)
  BY OwnParts DEF PutCounter, WithPit, WithCounter, MACHINE
<1>2. m.slots[PitSlot].Active =>
               IF ch = 0 THEN c.next # "never" ELSE m.pit.counter[0].next # "never"
  BY OwnParts DEF Awake
<1>. DEFINE l == m.lines
            s == m.slots
<1>3. l \in SUBSET LINES /\ Spares(m, l) /\ s \in [Slots -> TIMER]
  BY OwnParts
<1>. HIDE DEF l, s
<1>4. Smooth(WithPit(m, l, WithCounter(m.pit, ch, c), s), m)
  BY <1>2, <1>3, CounterStep DEF s
<1>. QED BY <1>1, <1>4 DEF l, s

\* The monitor dies of a division by zero.
Die(m) == [m EXCEPT !.exited = TRUE]
LEMMA DieSmooth ==
    ASSUME NEW m, Sound(m), NEW ch \in Counters, Divides(m.pit.counter[ch])
    PROVE  Smooth(Die(m), m)
<1>. DEFINE n == Die(m)
<1>1. Died(m.pit)
  BY OwnParts DEF Divides, Died, Deadly, Loaded
<1>2. /\ n \in MACHINE /\ n.pit = m.pit /\ n.slots = m.slots /\ n.hpet = m.hpet
      /\ n.rtc = m.rtc /\ n.lines = m.lines
  BY OwnParts DEF Die, MACHINE
<1>. HIDE DEF n
<1>3. Sound(n)
  BY <1>1, <1>2, OwnParts DEF Sound
<1>4. \A b \in Blocks : HeldIn(m, b) => HeldIn(n, b)
  BY <1>2 DEF HeldIn, PendIn, IrqNumber, Conf, Enabled
<1>5. Smooth(n, m)
  BY <1>2, <1>3, <1>4, OwnParts DEF Smooth
<1>. QED BY <1>5 DEF n

-----------------------------------------------------------------------------
(***************************************************************************)
(* The slots of the timer table.                                           *)
(***************************************************************************)

SlotOn(s, i, ns, oneShot) ==
    [s EXCEPT ![i] = [@ EXCEPT !.Active = TRUE, !.Nseconds = ns, !.OneShot = oneShot]]
SlotOff(s, i) == [s EXCEPT ![i].Active = FALSE]
LEMMA SlotOnIs ==
    ASSUME NEW s \in [Slots -> TIMER], NEW i \in Slots, NEW ns \in Wait,
           NEW oneShot \in BOOLEAN
    PROVE  /\ SlotOn(s, i, ns, oneShot) \in [Slots -> TIMER]
           /\ \A x \in Slots \ {i} : SlotOn(s, i, ns, oneShot)[x] = s[x]
<1>1. ns \in 0..MaxWait
  BY TimerTableAssumption DEF Wait
<1>2. [s[i] EXCEPT !.Active = TRUE, !.Nseconds = ns, !.OneShot = oneShot] \in TIMER
  BY <1>1 DEF TIMER
<1>. QED BY <1>2 DEF SlotOn
LEMMA SlotOffIs ==
    ASSUME NEW s \in [Slots -> TIMER], NEW i \in Slots
    PROVE  /\ SlotOff(s, i) \in [Slots -> TIMER] /\ SlotOff(s, i)[i].Active = FALSE
           /\ \A x \in Slots \ {i} : SlotOff(s, i)[x] = s[x]
<1>1. [s[i] EXCEPT !.Active = FALSE] \in TIMER
  BY DEF TIMER
<1>2. [s[i] EXCEPT !.Active = FALSE].Active = FALSE
  BY DEF TIMER
<1>. QED BY <1>1, <1>2 DEF SlotOff

\* Only slots are written, and that of the interval timer is not woken up.
WithTable(m, s) == [m EXCEPT !.slots = s]
LEMMA SlotsOnly ==
    ASSUME NEW m, Sound(m), NEW s \in [Slots -> TIMER],
           s[PitSlot].Active => m.slots[PitSlot].Active
    PROVE  Smooth(WithTable(m, s), m) /\ WithTable(m, s).slots = s
                                      /\ WithTable(m, s).pit = m.pit
<1>. DEFINE l == m.lines
            p == m.pit
<1>1. WithTable(m, s) = WithPit(m, l, p, s)
  BY OwnParts DEF WithTable, WithPit, MACHINE
<1>2. Awake(s, p)
  BY OwnParts DEF Awake
<1>3. /\ l \in SUBSET LINES /\ Spares(m, l) /\ p \in PIT /\ Loaded(p)
      /\ (m.exited => Died(p)) /\ p.InterruptEnabled = m.pit.InterruptEnabled
      /\ LatchSame(p, m.pit)
  BY OwnParts
<1>. HIDE DEF l, p
<1>4. Smooth(WithPit(m, l, p, s), m)
  BY <1>2, <1>3, PitPut
<1>5. WithTable(m, s).slots = s /\ WithTable(m, s).pit = m.pit
  BY OwnParts DEF WithTable, MACHINE
<1>. QED BY <1>1, <1>4, <1>5

LEMMA WaitsSmooth ==
    ASSUME NEW m, Sound(m), NEW i \in Slots, NEW pass \in Nat
    PROVE  /\ Smooth(TimerWaits(m, i, pass), m)
           /\ TimerWaits(m, i, pass).slots[i].Active = m.slots[i].Active
           /\ TimerWaits(m, i, pass).pit = m.pit
<1>. DEFINE w == m.slots[i].TimeToFire
            v == IF w > pass THEN w - pass ELSE 0
            t == [m.slots[i] EXCEPT !.TimeToFire = v]
            s == [m.slots EXCEPT ![i] = t]
<1>1. w \in 0..MaxWait /\ MaxWait \in Nat /\ m.slots[i] \in TIMER
  BY OwnParts, TimerTableAssumption DEF TIMER
<1>2. v \in 0..MaxWait
  <2>. HIDE DEF w
  <2>. QED BY <1>1
<1>3. TimerWaits(m, i, pass) = WithTable(m, s)
  BY DEF TimerWaits, WithTable
<1>. HIDE DEF v
<1>4. t \in TIMER /\ t.Active = m.slots[i].Active
  BY <1>1, <1>2 DEF TIMER
<1>. HIDE DEF t
<1>5. /\ s \in [Slots -> TIMER] /\ s[i].Active = m.slots[i].Active
      /\ \A x \in Slots : s[x].Active = m.slots[x].Active
  BY <1>4, OwnParts
<1>6. s[PitSlot].Active = m.slots[PitSlot].Active
  BY <1>5, PitAssumption
<1>. HIDE DEF s
<1>. QED BY <1>3, <1>5, <1>6, SlotsOnly

LEMMA FiredSmooth ==
    ASSUME NEW m, Sound(m), NEW i \in Slots
    PROVE  Smooth(TimerFired(m, i), m)
<1>. DEFINE a == m.slots[i].Active /\ ~m.slots[i].OneShot
            t == [m.slots[i] EXCEPT !.Active = a, !.TimeToFire = m.slots[i].Nseconds]
            s == [m.slots EXCEPT ![i] = t]
<1>1. m.slots[i] \in TIMER
  BY OwnParts
<1>2. a \in BOOLEAN /\ m.slots[i].Nseconds \in 0..MaxWait /\ (a => m.slots[i].Active)
  BY <1>1 DEF TIMER
<1>3. TimerFired(m, i) = WithTable(m, s)
  BY DEF TimerFired, WithTable
<1>. HIDE DEF a
<1>4. t \in TIMER /\ t.Active = a
  BY <1>1, <1>2 DEF TIMER
<1>. HIDE DEF t
<1>5. s \in [Slots -> TIMER] /\ \A x \in Slots : s[x].Active => m.slots[x].Active
  BY <1>2, <1>4, OwnParts
<1>6. s[PitSlot].Active => m.slots[PitSlot].Active
  BY <1>5, PitAssumption
<1>. HIDE DEF s
<1>. QED BY <1>3, <1>5, <1>6, SlotsOnly

\* A slot that is not the interval timer's is started.
LEMMA ActivateSmooth ==
    ASSUME NEW m, Sound(m), NEW i \in Slots \ {PitSlot}, NEW ns \in Wait,
           NEW oneShot \in BOOLEAN
    PROVE  Smooth(TimerActivate(m, i, ns, oneShot), m)
<1>. DEFINE s == SlotOn(m.slots, i, ns, oneShot)
<1>1. TimerActivate(m, i, ns, oneShot) = WithTable(m, s)
  BY DEF TimerActivate, WithTable, SlotOn
<1>2. s \in [Slots -> TIMER] /\ s[PitSlot] = m.slots[PitSlot]
  BY OwnParts, SlotOnIs, PitAssumption
<1>. HIDE DEF s
<1>. QED BY <1>1, <1>2, SlotsOnly
LEMMA DeactivateSmooth ==
    ASSUME NEW m, Sound(m), NEW i \in Slots
    PROVE  Smooth(TimerDeactivate(m, i), m)
<1>. DEFINE s == SlotOff(m.slots, i)
<1>1. TimerDeactivate(m, i) = WithTable(m, s)
  BY DEF TimerDeactivate, WithTable, SlotOff
<1>2. /\ s \in [Slots -> TIMER] /\ s[i].Active = FALSE
      /\ \A x \in Slots \ {i} : s[x] = m.slots[x]
  BY OwnParts, SlotOffIs
<1>. HIDE DEF s
<1>3. s[PitSlot].Active => m.slots[PitSlot].Active
  <2>1. CASE i = PitSlot
    BY <1>2, <2>1
  <2>2. CASE i # PitSlot
    BY <1>2, <2>2, PitAssumption
  <2>. QED BY <2>1, <2>2
<1>. QED BY <1>1, <1>2, <1>3, SlotsOnly

-----------------------------------------------------------------------------
(***************************************************************************)
(* The interval timer.                                                     *)
(***************************************************************************)

\* The line of the interval timer moves only while the interval timer has it.
WithLines(m, l) == [m EXCEPT !.lines = l]
LEMMA PitLineIs ==
    ASSUME NEW m, Sound(m), NEW c, NEW Timer \in BOOLEAN
    PROVE  \E l \in SUBSET LINES : PitLine(m, c, Timer) = WithLines(m, l) /\ Spares(m, l)
<1>. DEFINE up == m.lines \cup {PIT_IRQ}
            down == m.lines \ {PIT_IRQ}
<1>1. m.lines \in SUBSET LINES /\ up \in SUBSET LINES /\ down \in SUBSET LINES
  BY OwnParts DEF LINES
<1>2. m.pit.InterruptEnabled => Spares(m, up) /\ Spares(m, down)
  <2>. SUFFICES ASSUME m.pit.InterruptEnabled, NEW b \in Blocks, PendIn(m, b)
                PROVE  IrqNumber(m, b) # PIT_IRQ
    BY DEF Spares
  <2>. QED BY PendingLine DEF PIT_IRQ, RTC_IRQ
<1>3. m = WithLines(m, m.lines)
  BY OwnParts DEF WithLines, MACHINE
<1>4. /\ PicRaiseIrq(m, PIT_IRQ) = WithLines(m, up)
      /\ PicLowerIrq(m, PIT_IRQ) = WithLines(m, down)
  BY DEF PicRaiseIrq, PicLowerIrq, WithLines
<1>5. PicRaiseIrq(PicLowerIrq(m, PIT_IRQ), PIT_IRQ) = WithLines(m, up)
  <2>1. PicRaiseIrq(WithLines(m, down), PIT_IRQ) = WithLines(m, down \cup {PIT_IRQ})
    BY OwnParts DEF PicRaiseIrq, WithLines, MACHINE
  <2>2. down \cup {PIT_IRQ} = up
    OBVIOUS
  <2>. QED BY <1>4, <2>1, <2>2
<1>. HIDE DEF up, down
<1>6. CASE ~m.pit.InterruptEnabled
  <2>1. PitLine(m, c, Timer) = m
    BY <1>6 DEF PitLine
  <2>. QED BY <1>1, <1>3, <2>1, OwnParts
<1>7. CASE m.pit.InterruptEnabled
  <2>1. PitLine(m, c, Timer) \in {m, WithLines(m, up), WithLines(m, down)}
    BY <1>4, <1>5, <1>7 DEF PitLine
  <2>2. Spares(m, m.lines)
    BY OwnParts
  <2>3. CASE PitLine(m, c, Timer) = m
    BY <1>1, <1>3, <2>2, <2>3
  <2>4. CASE PitLine(m, c, Timer) = WithLines(m, up)
    BY <1>1, <1>2, <1>7, <2>4
  <2>5. CASE PitLine(m, c, Timer) = WithLines(m, down)
    BY <1>1, <1>2, <1>7, <2>5
  <2>. QED BY <2>1, <2>3, <2>4, <2>5
<1>. QED BY <1>6, <1>7

LEMMA TransitionIs ==
    ASSUME NEW c
    PROVE  PitGetNextTransitionTime(c) \in Elapsed \cup {"never"}
BY DEF PitGetNextTransitionTime, Elapsed

LEMMA TimerIdIs ==
    ASSUME NEW ch \in Counters
    PROVE  TimerId(ch) \in Slots /\ (TimerId(ch) = PitSlot <=> ch = 0)
BY PitAssumption DEF TimerId

\* The line, the next transition and the slot of a counter are brought up to date.
LEMMA UpdateSmooth ==
    ASSUME NEW m, Sound(m), NEW ch \in Counters, NEW Timer \in BOOLEAN, NEW ns \in Wait
    PROVE  Smooth(PitIrqTimerUpdate(m, ch, Timer, ns), m)
<1>. DEFINE c == m.pit.counter[ch]
            next == PitGetNextTransitionTime(c)
            d == [c EXCEPT !.next = next]
            p == WithCounter(m.pit, ch, d)
            i == TimerId(ch)
            off == SlotOff(m.slots, i)
            on == SlotOn(m.slots, i, ns, FALSE)
<1>1. PICK l \in SUBSET LINES : PitLine(m, c, Timer) = WithLines(m, l) /\ Spares(m, l)
  BY PitLineIs
<1>. DEFINE n == PutCounter(WithLines(m, l), ch, d)
<1>2. i \in Slots /\ (i = PitSlot <=> ch = 0)
  BY TimerIdIs
<1>3. next \in Elapsed \cup {"never"}
  BY TransitionIs
<1>4. PitIrqTimerUpdate(m, ch, Timer, ns) =
        CASE Divides(c) -> Die(m)
          [] ~Divides(c) /\ next = "never" -> TimerDeactivate(n, i)
          [] OTHER -> TimerActivate(n, i, ns, FALSE)
  BY <1>1 DEF PitIrqTimerUpdate, Die
<1>. HIDE DEF next, i
<1>5. /\ TimerDeactivate(n, i) = WithPit(m, l, p, off)
      /\ TimerActivate(n, i, ns, FALSE) = WithPit(m, l, p, on)
  <2>1. n = [m EXCEPT !.lines = l, !.pit = p]
    <3>. HIDE DEF d
    <3>. QED BY OwnParts DEF PutCounter, WithLines, WithCounter, MACHINE
  <2>. HIDE DEF n, p
  <2>2. n.slots = m.slots
    BY <2>1, OwnParts DEF MACHINE
  <2>3. TimerDeactivate(n, i) = [n EXCEPT !.slots = off]
    BY <2>2 DEF TimerDeactivate, SlotOff
  <2>4. TimerActivate(n, i, ns, FALSE) = [n EXCEPT !.slots = on]
    BY <2>2 DEF TimerActivate, SlotOn
  <2>. HIDE DEF off, on
  <2>. QED BY <2>1, <2>3, <2>4 DEF WithPit
<1>6. c \in COUNTER /\ CounterLike(c, c)
  BY OwnParts, CounterLikeSelf
<1>7. CounterLike(d, c) /\ CounterAlive(d, c) /\ d.next = next
  <2>1. /\ d \in COUNTER /\ d.count = c.count /\ d.countWritten = c.countWritten
      /\ d.wide = c.wide
        /\ d.mode = c.mode /\ d.outlatch = c.outlatch /\ d.countLatched = c.countLatched
        /\ d.next = next
    BY <1>3, <1>6 DEF COUNTER
  <2>. HIDE DEF d, c
  <2>. QED BY <1>6, <2>1 DEF CounterLike, CounterAlive
<1>8. /\ off \in [Slots -> TIMER] /\ off[i].Active = FALSE
      /\ \A x \in Slots \ {i} : off[x] = m.slots[x]
  BY <1>2, OwnParts, SlotOffIs
<1>9. /\ on \in [Slots -> TIMER]
      /\ \A x \in Slots \ {i} : on[x] = m.slots[x]
  BY <1>2, OwnParts, SlotOnIs
<1>. HIDE DEF d, on, off, n
<1>10. Smooth(WithPit(m, l, p, off), m)
  <2>1. off[PitSlot].Active =>
            IF ch = 0 THEN d.next # "never" ELSE m.pit.counter[0].next # "never"
    BY <1>2, <1>8, OwnParts, PitAssumption DEF Awake
  <2>. QED BY <1>1, <1>7, <1>8, <2>1, CounterStep
<1>11. next # "never" => Smooth(WithPit(m, l, p, on), m)
  <2>1. next # "never" => (on[PitSlot].Active =>
            IF ch = 0 THEN d.next # "never" ELSE m.pit.counter[0].next # "never")
    BY <1>2, <1>7, <1>9, OwnParts, PitAssumption DEF Awake
  <2>. QED BY <1>1, <1>7, <1>9, <2>1, CounterStep
<1>12. Divides(c) => Smooth(Die(m), m)
  BY DieSmooth
<1>. QED BY <1>4, <1>5, <1>10, <1>11, <1>12

\* The handler of the slot of counter 0, which waits for a transition.
LEMMA PitHandlerSmooth ==
    ASSUME NEW m, Sound(m), m.slots[PitSlot].Active, NEW ns \in Wait
    PROVE  Smooth(PitTimerHandler(m, ns), m)
<1>. DEFINE c == m.pit.counter[0]
            d == [c EXCEPT !.elapsed = c.next]
            n == PutCounter(m, 0, d)
<1>1. c \in COUNTER /\ CounterLike(c, c) /\ 0 \in Counters
  BY OwnParts, CounterLikeSelf DEF Counters
<1>2. c.next \in Elapsed
  BY <1>1, OwnParts DEF COUNTER, Awake
<1>3. PitTimerHandler(m, ns) = PitIrqTimerUpdate(n, 0, TRUE, ns)
  BY DEF PitTimerHandler, PutCounter
<1>4. /\ d \in COUNTER /\ d.count = c.count /\ d.countWritten = c.countWritten
      /\ d.wide = c.wide
      /\ d.mode = c.mode /\ d.outlatch = c.outlatch /\ d.countLatched = c.countLatched
      /\ d.next = c.next
  <2>. HIDE DEF c
  <2>. QED BY <1>1, <1>2 DEF COUNTER
<1>. HIDE DEF d
<1>5. CounterLike(d, c) /\ CounterAlive(d, c)
  <2>. HIDE DEF c
  <2>. QED BY <1>1, <1>4 DEF CounterLike, CounterAlive
<1>6. Smooth(n, m)
  BY <1>1, <1>4, <1>5, CounterOnly
<1>. HIDE DEF n
<1>7. Smooth(PitIrqTimerUpdate(n, 0, TRUE, ns), n)
  BY <1>1, <1>6, UpdateSmooth DEF Smooth
<1>. QED BY <1>3, <1>6, <1>7, SmoothTwice

LEMMA Words == WORD \in Nat /\ WORD > BYTE /\ BYTE \in Nat /\ BYTE > 1
               /\ DWORD \in Nat /\ DWORD >= WORD
<1>1. BYTE \in Nat /\ BYTE > 1
  BY PitAssumption
<1>2. WORD \in Nat /\ WORD > BYTE
  BY <1>1 DEF WORD
<1>3. WORD * WORD \in Nat /\ WORD * WORD >= WORD
  BY <1>1, <1>2
<1>. QED BY <1>1, <1>2, <1>3 DEF DWORD

LEMMA LoadSmooth ==
    ASSUME NEW m, Sound(m), ~m.exited, NEW ch \in Counters, NEW Value \in 0..(DWORD - 1),
           NEW ns \in Wait
    PROVE  Smooth(PitLoadCount(m, ch, Value, ns), m)
<1>. DEFINE c == m.pit.counter[ch]
            v == IF Value = 0 THEN WORD ELSE Value % WORD
            wide == Value >= WORD
            d == [c EXCEPT !.count = v, !.countWritten = TRUE, !.wide = wide,
                           !.elapsed = "loaded"]
            n == PutCounter(m, ch, d)
<1>1. c \in COUNTER /\ CounterLike(c, c)
  BY OwnParts, CounterLikeSelf
<1>2. v \in 0..WORD /\ (v = 0 => wide) /\ wide \in BOOLEAN
  <2>1. WORD \in Nat /\ WORD > 0 /\ Value \in Nat
    BY Words
  <2>2. Value % WORD \in 0..(WORD - 1)
    BY <2>1
  <2>3. Value < WORD => Value % WORD = Value
    BY <2>1
  <2>. DEFINE x == Value % WORD
  <2>4. x \in 0..(WORD - 1) /\ (Value < WORD => x = Value)
    BY <2>2, <2>3
  <2>. HIDE DEF x
  <2>5. v = IF Value = 0 THEN WORD ELSE x
    BY DEF x
  <2>. QED BY <2>1, <2>4, <2>5
<1>3. PitLoadCount(m, ch, Value, ns) = PitIrqTimerUpdate(n, ch, FALSE, ns)
  BY DEF PitLoadCount
<1>. HIDE DEF v, wide
<1>4. /\ d \in COUNTER /\ d.count = v /\ d.wide = wide /\ d.outlatch = c.outlatch
      /\ d.countLatched = c.countLatched /\ d.next = c.next
  <2>1. "loaded" \in Elapsed
    BY DEF Elapsed
  <2>. HIDE DEF c
  <2>. QED BY <1>1, <1>2, <2>1 DEF COUNTER
<1>. HIDE DEF d
<1>5. CounterLike(d, c)
  <2>. HIDE DEF c
  <2>. QED BY <1>1, <1>2, <1>4 DEF CounterLike
<1>6. Smooth(n, m)
  BY <1>4, <1>5, CounterOnly
<1>. HIDE DEF n
<1>7. Smooth(PitIrqTimerUpdate(n, ch, FALSE, ns), n)
  BY <1>6, UpdateSmooth DEF Smooth
<1>. QED BY <1>3, <1>6, <1>7, SmoothTwice

\* A register of a counter that takes no part in any of this.
LEMMA CounterAside ==
    ASSUME NEW m, Sound(m), NEW ch \in Counters, NEW d \in COUNTER,
           d.count = m.pit.counter[ch].count,
           d.countWritten = m.pit.counter[ch].countWritten, d.wide = m.pit.counter[ch].wide,
           d.mode = m.pit.counter[ch].mode, d.next = m.pit.counter[ch].next,
           m.pit.counter[ch].countLatched # 0 =>
               d.outlatch = m.pit.counter[ch].outlatch /\ d.countLatched # 0
    PROVE  Smooth(PutCounter(m, ch, d), m)
<1>1. CounterLike(m.pit.counter[ch], m.pit.counter[ch])
  BY CounterLikeSelf
<1>2. CounterLike(d, m.pit.counter[ch]) /\ CounterAlive(d, m.pit.counter[ch])
  BY <1>1 DEF CounterLike, CounterAlive
<1>. QED BY <1>2, CounterOnly

LEMMA GateSmooth ==
    ASSUME NEW m, Sound(m), NEW Value \in 0..1, NEW ns \in Wait
    PROVE  Smooth(PitSetGate(m, Value, ns), m)
<1>. DEFINE c == m.pit.counter[2]
            d == [c EXCEPT !.elapsed = "loaded"]
            loaded == PutCounter(m, 2, d)
            u == PitIrqTimerUpdate(loaded, 2, FALSE, ns)
            n == IF c.mode \in {1, 2, 3, 5} /\ c.gate < Value THEN u ELSE m
            e == [n.pit.counter[2] EXCEPT !.gate = Value]
<1>0. 2 \in Counters
  BY DEF Counters
<1>1. c \in COUNTER
  BY <1>0, OwnParts
<1>2. PitSetGate(m, Value, ns) = PutCounter(n, 2, e)
  BY DEF PitSetGate, PutCounter
<1>3. /\ d \in COUNTER /\ d.count = c.count /\ d.countWritten = c.countWritten
      /\ d.wide = c.wide
      /\ d.mode = c.mode /\ d.next = c.next /\ d.outlatch = c.outlatch
      /\ d.countLatched = c.countLatched
  <2>1. "loaded" \in Elapsed
    BY DEF Elapsed
  <2>. HIDE DEF c
  <2>. QED BY <1>1, <2>1 DEF COUNTER
<1>. HIDE DEF d
<1>4. Smooth(loaded, m)
  BY <1>0, <1>3, CounterAside
<1>. HIDE DEF loaded
<1>5. Smooth(u, loaded)
  BY <1>0, <1>4, UpdateSmooth DEF Smooth
<1>. HIDE DEF u
<1>6. Smooth(n, m)
  BY <1>4, <1>5, SmoothTwice, SmoothSelf
<1>. HIDE DEF n
<1>7. Sound(n)
  BY <1>6 DEF Smooth
<1>. DEFINE x == n.pit.counter[2]
<1>8. x \in COUNTER
  BY <1>0, <1>7, OwnParts
<1>9. /\ e \in COUNTER /\ e.count = x.count /\ e.countWritten = x.countWritten
      /\ e.wide = x.wide
      /\ e.mode = x.mode /\ e.next = x.next /\ e.outlatch = x.outlatch
      /\ e.countLatched = x.countLatched
  <2>. HIDE DEF x
  <2>1. e = [x EXCEPT !.gate = Value]
    BY DEF x
  <2>. QED BY <1>8, <2>1 DEF COUNTER
<1>. HIDE DEF e
<1>10. Smooth(PutCounter(n, 2, e), n)
  BY <1>0, <1>7, <1>9, CounterAside
<1>. QED BY <1>2, <1>6, <1>10, SmoothTwice

LEMMA WriteDataSmooth ==
    ASSUME NEW m, Sound(m), ~m.exited, NEW Address, NEW Value \in 0..(DWORD - 1),
           NEW ns \in Wait
    PROVE  Smooth(PitWriteData(m, Address, Value, ns), m)
<1>. DEFINE ch == PortCounter(Address)
            c == m.pit.counter[ch]
            w1 == PitLoadCount(m, ch, Value, ns)
            w2 == PitLoadCount(m, ch, (Value * BYTE) % DWORD, ns)
            byte == Value % BYTE
            d == [c EXCEPT !.inlatch = byte, !.writeState = WORD1]
            w3 == PutCounter(m, ch, d)
            n == PitLoadCount(m, ch, c.inlatch + (Value % BYTE) * BYTE, ns)
            e == [n.pit.counter[ch] EXCEPT !.writeState = WORD0]
            w4 == PutCounter(n, ch, e)
<1>1. ch \in Counters
  BY DEF PortCounter, Counters
<1>. HIDE DEF ch
<1>2. c \in COUNTER /\ c.inlatch \in 0..(BYTE - 1) /\ c.writeState \in RW_STATE
  BY <1>1, OwnParts DEF COUNTER
<1>3. /\ byte \in 0..(BYTE - 1) /\ (Value * BYTE) % DWORD \in 0..(DWORD - 1)
      /\ c.inlatch + (Value % BYTE) * BYTE \in 0..(DWORD - 1)
  <2>1. Value \in Nat
    BY Words
  <2>2. byte \in 0..(BYTE - 1)
    BY <2>1, Words
  <2>. DEFINE x == Value * BYTE
  <2>3. x \in Nat
    BY <2>1, Words
  <2>. HIDE DEF x
  <2>4. x % DWORD \in 0..(DWORD - 1)
    BY <2>3, Words
  <2>. DEFINE a == c.inlatch
  <2>5. a \in 0..(BYTE - 1)
    BY <1>2
  <2>. HIDE DEF a, byte
  <2>6. a + byte * BYTE \in 0..(BYTE * BYTE - 1)
    BY <2>2, <2>5, Words
  <2>7. a + byte * BYTE \in 0..(DWORD - 1)
    BY <2>6, Words DEF WORD
  <2>. QED BY <2>2, <2>4, <2>7 DEF a, byte, x
<1>4. Smooth(w1, m) /\ Smooth(w2, m) /\ Smooth(n, m)
  <2>. DEFINE x == (Value * BYTE) % DWORD
              y == c.inlatch + (Value % BYTE) * BYTE
  <2>1. x \in 0..(DWORD - 1) /\ y \in 0..(DWORD - 1)
    BY <1>3
  <2>. HIDE DEF x, y
  <2>2. Smooth(PitLoadCount(m, ch, Value, ns), m) /\ Smooth(PitLoadCount(m, ch, x, ns), m)
        /\ Smooth(PitLoadCount(m, ch, y, ns), m)
    BY <1>1, <2>1, LoadSmooth
  <2>. QED BY <2>2 DEF x, y
<1>5. Smooth(w3, m)
  <2>1. /\ d \in COUNTER /\ d.count = c.count /\ d.countWritten = c.countWritten
      /\ d.wide = c.wide
        /\ d.mode = c.mode /\ d.next = c.next /\ d.outlatch = c.outlatch
        /\ d.countLatched = c.countLatched
    <3>1. WORD1 \in RW_STATE
      BY DEF RW_STATE, WORD1
    <3>2. byte \in 0..(BYTE - 1)
      BY <1>3
    <3>. HIDE DEF c, byte
    <3>. QED BY <1>2, <3>1, <3>2 DEF COUNTER
  <2>. HIDE DEF d
  <2>. QED BY <1>1, <2>1, CounterAside
<1>6. PitWriteData(m, Address, Value, ns) \in {w1, w2, w3, w4}
  <2>1. c.writeState = 1 \/ c.writeState = 2 \/ c.writeState = 3 \/ c.writeState = 4
    BY <1>2 DEF RW_STATE
  <2>2. PitWriteData(m, Address, Value, ns) =
          CASE c.writeState = LSB -> w1
            [] c.writeState = MSB -> w2
            [] c.writeState = WORD0 -> w3
            [] c.writeState = WORD1 -> w4
    BY DEF PitWriteData, ch, PutCounter
  <2>. HIDE DEF w1, w2, w3, w4
  <2>. QED BY <2>1, <2>2 DEF LSB, MSB, WORD0, WORD1
<1>. HIDE DEF n
<1>7. Smooth(w4, n)
  <2>. DEFINE x == n.pit.counter[ch]
  <2>1. Sound(n) /\ x \in COUNTER
    BY <1>1, <1>4, OwnParts DEF Smooth
  <2>2. /\ e \in COUNTER /\ e.count = x.count /\ e.countWritten = x.countWritten
      /\ e.wide = x.wide
        /\ e.mode = x.mode /\ e.next = x.next /\ e.outlatch = x.outlatch
        /\ e.countLatched = x.countLatched
    <3>. HIDE DEF x
    <3>1. e = [x EXCEPT !.writeState = WORD0]
      BY DEF x
    <3>. QED BY <2>1, <3>1 DEF COUNTER, RW_STATE, WORD0
  <2>. HIDE DEF e
  <2>. QED BY <1>1, <2>1, <2>2, CounterAside
<1>. HIDE DEF w1, w2, w3, w4
<1>. QED BY <1>4, <1>5, <1>6, <1>7, SmoothTwice

LEMMA SetModeSmooth ==
    ASSUME NEW m, Sound(m), ~m.exited, NEW ch \in Counters,
           NEW access \in {LSB, MSB, WORD0}, NEW bits \in 0..7
    PROVE  Smooth(PitSetMode(m, ch, access, bits), m)
<1>. DEFINE c == m.pit.counter[ch]
            mode == IF bits > 5 THEN bits - 4 ELSE bits
            d == [c EXCEPT !.readState = access, !.writeState = access,
                           !.rwMode = access, !.mode = mode]
<1>1. c \in COUNTER /\ CounterLike(c, c)
  BY OwnParts, CounterLikeSelf
<1>2. mode \in Mode /\ access \in RW_STATE
  BY DEF Mode, RW_STATE, LSB, MSB, WORD0
<1>3. PitSetMode(m, ch, access, bits) = PutCounter(m, ch, d)
  BY DEF PitSetMode
<1>. HIDE DEF mode
<1>4. /\ d \in COUNTER /\ d.count = c.count /\ d.countWritten = c.countWritten
      /\ d.wide = c.wide
      /\ d.outlatch = c.outlatch /\ d.countLatched = c.countLatched /\ d.next = c.next
  <2>. HIDE DEF c
  <2>. QED BY <1>1, <1>2 DEF COUNTER
<1>. HIDE DEF d
<1>5. CounterLike(d, c)
  <2>. HIDE DEF c
  <2>. QED BY <1>1, <1>4 DEF CounterLike
<1>. QED BY <1>3, <1>4, <1>5, CounterOnly

\* Latching: a count that is latched already stays, and a division by zero ends
\* the monitor.
LEMMA LatchCountSmooth ==
    ASSUME NEW m, Sound(m), NEW ch \in Counters, NEW now \in 0..(WORD - 1)
    PROVE  Smooth(PitLatchCount(m, ch, now), m)
<1>. DEFINE c == m.pit.counter[ch]
            d == [c EXCEPT !.outlatch = now, !.countLatched = c.rwMode]
<1>1. c \in COUNTER /\ c.rwMode \in 0..4
  BY OwnParts DEF COUNTER, RW_STATE
<1>2. PitLatchCount(m, ch, now) =
        CASE c.countLatched # 0 -> m
          [] c.countLatched = 0 /\ Divides(c) -> Die(m)
          [] OTHER -> PutCounter(m, ch, d)
  BY DEF PitLatchCount, Die
<1>3. /\ d \in COUNTER /\ d.count = c.count /\ d.countWritten = c.countWritten
      /\ d.wide = c.wide
      /\ d.mode = c.mode /\ d.next = c.next
  <2>. HIDE DEF c
  <2>. QED BY <1>1 DEF COUNTER
<1>. HIDE DEF d
<1>4. c.countLatched = 0 => Smooth(PutCounter(m, ch, d), m)
  BY <1>3, CounterAside
<1>5. Divides(c) => Smooth(Die(m), m)
  BY DieSmooth
<1>. QED BY <1>2, <1>4, <1>5, SmoothSelf
LEMMA LatchStatusSmooth ==
    ASSUME NEW m, Sound(m), NEW ch \in Counters
    PROVE  Smooth(PitLatchStatus(m, ch), m)
<1>. DEFINE c == m.pit.counter[ch]
            d == [c EXCEPT !.statusLatched = TRUE]
<1>1. c \in COUNTER
  BY OwnParts
<1>2. PitLatchStatus(m, ch) =
        CASE c.statusLatched -> m
          [] ~c.statusLatched /\ Divides(c) -> Die(m)
          [] OTHER -> PutCounter(m, ch, d)
  BY DEF PitLatchStatus, Die
<1>3. /\ d \in COUNTER /\ d.count = c.count /\ d.countWritten = c.countWritten
      /\ d.wide = c.wide
      /\ d.mode = c.mode /\ d.next = c.next /\ d.outlatch = c.outlatch
      /\ d.countLatched = c.countLatched
  <2>. HIDE DEF c
  <2>. QED BY <1>1 DEF COUNTER
<1>. HIDE DEF d
<1>4. Smooth(PutCounter(m, ch, d), m)
  BY <1>3, CounterAside
<1>5. Divides(c) => Smooth(Die(m), m)
  BY DieSmooth
<1>. QED BY <1>2, <1>4, <1>5, SmoothSelf
LEMMA ReadBackSmooth ==
    ASSUME NEW m, Sound(m), NEW which, NEW count \in BOOLEAN, NEW status \in BOOLEAN,
           NEW now \in 0..(WORD - 1)
    PROVE  Smooth(PitReadBack(m, which, count, status, now), m)
<1>. DEFINE counted(n, ch) ==
                IF ch \in which /\ count THEN PitLatchCount(n, ch, now) ELSE n
            latch(n, ch) ==
                IF ch \in which /\ status THEN PitLatchStatus(counted(n, ch), ch)
                ELSE counted(n, ch)
<1>1. ASSUME NEW n, Sound(n), NEW ch \in Counters
      PROVE  Smooth(latch(n, ch), n) /\ Sound(latch(n, ch))
  <2>. DEFINE k == counted(n, ch)
  <2>1. Smooth(k, n)
    BY <1>1, LatchCountSmooth, SmoothSelf
  <2>. HIDE DEF k
  <2>2. Smooth(PitLatchStatus(k, ch), k)
    BY <1>1, <2>1, LatchStatusSmooth DEF Smooth
  <2>3. latch(n, ch) \in {k, PitLatchStatus(k, ch)}
    BY DEF k
  <2>4. Smooth(latch(n, ch), n)
    <3>. HIDE DEF latch
    <3>. QED BY <2>1, <2>2, <2>3, SmoothTwice
  <2>. HIDE DEF latch
  <2>. QED BY <2>4 DEF Smooth
<1>2. PitReadBack(m, which, count, status, now) = latch(latch(latch(m, 0), 1), 2)
  BY DEF PitReadBack
<1>3. 0 \in Counters /\ 1 \in Counters /\ 2 \in Counters
  BY DEF Counters
<1>. HIDE DEF latch
<1>4. Smooth(latch(m, 0), m) /\ Sound(latch(m, 0))
  BY <1>1, <1>3
<1>. DEFINE k == latch(m, 0)
            j == latch(k, 1)
<1>5. Smooth(j, k) /\ Sound(j)
  BY <1>1, <1>3, <1>4
<1>6. Smooth(latch(j, 2), j)
  <2>. HIDE DEF j
  <2>. QED BY <1>1, <1>3, <1>5
<1>7. Smooth(j, m)
  <2>. HIDE DEF j, k
  <2>1. Smooth(k, m)
    BY <1>4 DEF k
  <2>. QED BY <1>5, <2>1, SmoothTwice
<1>8. Smooth(latch(j, 2), m)
  <2>. HIDE DEF j, k
  <2>. QED BY <1>6, <1>7, SmoothTwice
<1>. QED BY <1>2, <1>8

-----------------------------------------------------------------------------
(***************************************************************************)
(* A whole step of the guest: what it keeps, which Smooth is more than.    *)
(***************************************************************************)

Step(n, m) ==
    /\ Sound(n)
    /\ Replaces(m) => Replaces(n)
    /\ \A ch \in Counters : m.pit.counter[ch].countLatched # 0 =>
           n.pit.counter[ch].outlatch = m.pit.counter[ch].outlatch
    /\ \A b \in Blocks :
           /\ n.hpet.GlobalConfiguration \subseteq m.hpet.GlobalConfiguration
           /\ OwnIn(m, b) /\ OwnIn(n, b) /\ HeldIn(m, b)
           => HeldIn(n, b)
LEMMA SmoothStep ==
    ASSUME NEW n, NEW m, Smooth(n, m)
    PROVE  Step(n, m)
BY DEF Smooth, Step, Replaces, LatchSame

\* Reading a counter may take its latch away, but not what it holds.
LEMMA ReadPut ==
    ASSUME NEW m, Sound(m), NEW ch \in Counters, NEW d \in COUNTER,
           d.count = m.pit.counter[ch].count,
           d.countWritten = m.pit.counter[ch].countWritten, d.wide = m.pit.counter[ch].wide,
           d.mode = m.pit.counter[ch].mode, d.next = m.pit.counter[ch].next,
           d.outlatch = m.pit.counter[ch].outlatch
    PROVE  Step(PutCounter(m, ch, d), m)
<1>. DEFINE p == WithCounter(m.pit, ch, d)
            n == PutCounter(m, ch, d)
<1>1. /\ p \in PIT /\ p.InterruptEnabled = m.pit.InterruptEnabled
      /\ p.counter[ch] = d
      /\ \A x \in Counters \ {ch} : p.counter[x] = m.pit.counter[x]
  BY OwnParts, CounterPut
<1>2. n = [m EXCEPT !.pit = p]
  BY DEF PutCounter, WithCounter
<1>. HIDE DEF p, n
<1>3. /\ n \in MACHINE /\ n.pit = p /\ n.slots = m.slots /\ n.hpet = m.hpet
      /\ n.rtc = m.rtc /\ n.exited = m.exited /\ n.lines = m.lines
  BY <1>1, <1>2, OwnParts DEF MACHINE
<1>4. \A x \in Counters : /\ p.counter[x].count = m.pit.counter[x].count
                          /\ p.counter[x].countWritten = m.pit.counter[x].countWritten
                          /\ p.counter[x].wide = m.pit.counter[x].wide
                          /\ p.counter[x].mode = m.pit.counter[x].mode
                          /\ p.counter[x].next = m.pit.counter[x].next
                          /\ p.counter[x].outlatch = m.pit.counter[x].outlatch
  BY <1>1
<1>5. Sound(n)
  <2>0. \A x \in Counters : Deadly(m.pit.counter[x]) => Deadly(p.counter[x])
    BY <1>4 DEF Deadly
  <2>1. Loaded(p) /\ (Died(m.pit) => Died(p))
    BY <1>4, <2>0, OwnParts DEF Loaded, Died
  <2>2. Awake(m.slots, p)
    BY <1>4, OwnParts DEF Awake, Counters
  <2>. QED BY <1>3, <2>1, <2>2, OwnParts DEF Sound
<1>6. \A b \in Blocks : HeldIn(m, b) => HeldIn(n, b)
  BY <1>1, <1>3 DEF HeldIn, PendIn, IrqNumber, Conf, Enabled
<1>7. Step(n, m)
  BY <1>1, <1>3, <1>4, <1>5, <1>6 DEF Step, Replaces
<1>. QED BY <1>7 DEF n

LEMMA ReadDataStep ==
    ASSUME NEW m, Sound(m), NEW Address
    PROVE  Step(PitReadData(m, Address), m)
<1>. DEFINE ch == PortCounter(Address)
            c == m.pit.counter[ch]
            r == IF c.readState = WORD0 THEN MSB
                 ELSE IF c.readState = WORD1 THEN WORD0 ELSE c.readState
            l == IF c.countLatched = WORD0 THEN MSB ELSE 0
            d1 == [c EXCEPT !.statusLatched = FALSE]
            d2 == [c EXCEPT !.countLatched = l]
            d3 == [c EXCEPT !.readState = r]
<1>1. ch \in Counters
  BY DEF PortCounter, Counters
<1>2. PitReadData(m, Address) =
        CASE c.statusLatched -> PutCounter(m, ch, d1)
          [] ~c.statusLatched /\ c.countLatched # 0 -> PutCounter(m, ch, d2)
          [] OTHER -> IF Divides(c) THEN Die(m) ELSE PutCounter(m, ch, d3)
  BY DEF PitReadData, Die
<1>. HIDE DEF ch
<1>3. c \in COUNTER
  BY <1>1, OwnParts
<1>4. r \in RW_STATE /\ l \in 0..4
  BY <1>3 DEF COUNTER, RW_STATE, WORD0, WORD1, MSB
<1>. HIDE DEF r, l
<1>5. /\ d1 \in COUNTER /\ d1.count = c.count /\ d1.countWritten = c.countWritten
      /\ d1.wide = c.wide
      /\ d1.mode = c.mode /\ d1.next = c.next /\ d1.outlatch = c.outlatch
  <2>. HIDE DEF c
  <2>. QED BY <1>3 DEF COUNTER
<1>6. /\ d2 \in COUNTER /\ d2.count = c.count /\ d2.countWritten = c.countWritten
      /\ d2.wide = c.wide
      /\ d2.mode = c.mode /\ d2.next = c.next /\ d2.outlatch = c.outlatch
  <2>. HIDE DEF c
  <2>. QED BY <1>3, <1>4 DEF COUNTER
<1>7. /\ d3 \in COUNTER /\ d3.count = c.count /\ d3.countWritten = c.countWritten
      /\ d3.wide = c.wide
      /\ d3.mode = c.mode /\ d3.next = c.next /\ d3.outlatch = c.outlatch
  <2>. HIDE DEF c
  <2>. QED BY <1>3, <1>4 DEF COUNTER
<1>. HIDE DEF d1, d2, d3
<1>8. /\ Step(PutCounter(m, ch, d1), m) /\ Step(PutCounter(m, ch, d2), m)
      /\ Step(PutCounter(m, ch, d3), m)
  BY <1>1, <1>5, <1>6, <1>7, ReadPut
<1>9. Divides(c) => Step(Die(m), m)
  BY <1>1, DieSmooth, SmoothStep
<1>. QED BY <1>2, <1>8, <1>9

LEMMA Port61Smooth ==
    ASSUME NEW m, Sound(m)
    PROVE  Smooth(PitReadPort61(m), m)
<1>1. 2 \in Counters
  BY DEF Counters
<1>. QED BY <1>1, DieSmooth, SmoothSelf DEF PitReadPort61, Die

-----------------------------------------------------------------------------
(***************************************************************************)
(* The HPET.                                                               *)
(***************************************************************************)

LEMMA OwnHpet ==
    ASSUME NEW m, Sound(m)
    PROVE  /\ m.hpet.GlobalConfiguration \in SUBSET {"ENABLED", "LEGACY"}
           /\ m.hpet.InterruptStatus \in SUBSET Blocks
           /\ m.hpet.Timer \in [Blocks -> HPET_TIMER_BLOCK]
           /\ \A b \in Blocks : IrqNumber(m, b) \in LINES
<1>1. /\ m.hpet.GlobalConfiguration \in SUBSET {"ENABLED", "LEGACY"}
      /\ m.hpet.InterruptStatus \in SUBSET Blocks
      /\ m.hpet.Timer \in [Blocks -> HPET_TIMER_BLOCK]
  BY OwnParts DEF HPET
<1>2. \A b \in Blocks : m.hpet.Timer[b].route \in Routes
  BY <1>1 DEF HPET_TIMER_BLOCK
<1>. QED BY <1>1, <1>2 DEF IrqNumber, LINES

\* The lines and the status are written.
WithIrq(m, l, s) == [m EXCEPT !.lines = l, !.hpet.InterruptStatus = s]
Around(n, m) ==
    /\ n.hpet.GlobalConfiguration = m.hpet.GlobalConfiguration
    /\ n.hpet.Timer = m.hpet.Timer
    /\ n.pit = m.pit
    /\ n.rtc = m.rtc
LEMMA IrqPut ==
    ASSUME NEW m, Sound(m), NEW l \in SUBSET LINES, NEW s \in SUBSET Blocks
    PROVE  /\ Sound(WithIrq(m, l, s)) /\ Around(WithIrq(m, l, s), m)
           /\ WithIrq(m, l, s).lines = l /\ WithIrq(m, l, s).hpet.InterruptStatus = s
<1>. DEFINE h == [m.hpet EXCEPT !.InterruptStatus = s]
            n == WithIrq(m, l, s)
<1>1. /\ h \in HPET /\ h.InterruptStatus = s /\ h.Timer = m.hpet.Timer
      /\ h.GlobalConfiguration = m.hpet.GlobalConfiguration
  BY OwnParts DEF HPET
<1>2. n = [m EXCEPT !.lines = l, !.hpet = h]
  BY DEF WithIrq
<1>. HIDE DEF h, n
<1>3. /\ n \in MACHINE /\ n.lines = l /\ n.hpet = h /\ n.pit = m.pit /\ n.rtc = m.rtc
      /\ n.slots = m.slots /\ n.exited = m.exited
  <2>1. m \in MACHINE /\ h \in HPET
    BY <1>1, OwnParts
  <2>. QED BY <1>2, <2>1 DEF MACHINE
<1>4. Sound(n)
  BY <1>3, OwnParts DEF Sound
<1>5. Around(n, m) /\ n.hpet.InterruptStatus = s
  BY <1>1, <1>3 DEF Around
<1>. QED BY <1>3, <1>4, <1>5 DEF n

LEMMA AroundIs ==
    ASSUME NEW n, NEW m, Around(n, m)
    PROVE  /\ Enabled(n) = Enabled(m)
           /\ \A b \in Blocks : /\ IrqNumber(n, b) = IrqNumber(m, b)
                                /\ Conf(n, b) = Conf(m, b)
                                /\ OwnIn(n, b) = OwnIn(m, b)
                                /\ PendIn(n, b) /\ b \in m.hpet.InterruptStatus
                                       => PendIn(m, b)
<1>1. /\ Enabled(n) = Enabled(m)
      /\ \A b \in Blocks : IrqNumber(n, b) = IrqNumber(m, b) /\ Conf(n, b) = Conf(m, b)
  BY DEF Around, Enabled, IrqNumber, Conf
<1>2. \A b \in Blocks : OwnIn(n, b) = OwnIn(m, b)
  BY <1>1 DEF OwnIn
<1>3. ASSUME NEW b \in Blocks, PendIn(n, b), b \in m.hpet.InterruptStatus
      PROVE  PendIn(m, b)
  BY <1>1, <1>3 DEF PendIn, Around
<1>. QED BY <1>1, <1>2, <1>3
LEMMA AroundSmooth ==
    ASSUME NEW n, NEW m, Sound(n), Sound(m), Around(n, m),
           \A b \in Blocks : OwnIn(m, b) /\ HeldIn(m, b) => HeldIn(n, b)
    PROVE  Smooth(n, m)
BY OwnParts DEF Around, Smooth

\* What HpetUpdateIrq writes.
LinesAfter(m, b, up) ==
    IF ~(up /\ Enabled(m)) THEN m.lines \ {IrqNumber(m, b)}
    ELSE IF "IRQ_ENABLE" \notin Conf(m, b) \/ "FSB_ENABLE" \in Conf(m, b) THEN m.lines
    ELSE m.lines \cup {IrqNumber(m, b)}
StatusAfter(m, b, up) ==
    IF up /\ Enabled(m) /\ "EDGE_LEVEL" \in Conf(m, b)
    THEN m.hpet.InterruptStatus \cup {b} ELSE m.hpet.InterruptStatus
LEMMA UpdateIrqIs ==
    ASSUME NEW m, Sound(m), NEW b \in Blocks, NEW up \in BOOLEAN
    PROVE  /\ HpetUpdateIrq(m, b, up) = WithIrq(m, LinesAfter(m, b, up), StatusAfter(m, b, up))
           /\ LinesAfter(m, b, up) \in SUBSET LINES
           /\ StatusAfter(m, b, up) \in SUBSET Blocks
<1>. DEFINE irq == IrqNumber(m, b)
            st == IF "EDGE_LEVEL" \in Conf(m, b) THEN m.hpet.InterruptStatus \cup {b}
                  ELSE m.hpet.InterruptStatus
            n == IF "EDGE_LEVEL" \in Conf(m, b)
                 THEN [m EXCEPT !.hpet.InterruptStatus = m.hpet.InterruptStatus \cup {b}]
                 ELSE m
<1>1. m \in MACHINE /\ m.hpet \in HPET /\ irq \in LINES /\ m.lines \in SUBSET LINES
  BY OwnParts, OwnHpet
<1>2. n = WithIrq(m, m.lines, st)
  BY <1>1 DEF WithIrq, MACHINE, HPET
<1>3. \A l : PicRaiseIrq(WithIrq(m, l, st), irq) = WithIrq(m, l \cup {irq}, st)
  BY <1>1 DEF PicRaiseIrq, WithIrq, MACHINE
<1>4. PicLowerIrq(WithIrq(m, m.lines, st), irq) = WithIrq(m, m.lines \ {irq}, st)
  BY <1>1 DEF PicLowerIrq, WithIrq, MACHINE
<1>5. PicLowerIrq(m, irq) = WithIrq(m, m.lines \ {irq}, m.hpet.InterruptStatus)
  BY <1>1 DEF PicLowerIrq, WithIrq, MACHINE, HPET
<1>6. (m.lines \ {irq}) \cup {irq} = m.lines \cup {irq}
  OBVIOUS
<1>7. HpetUpdateIrq(m, b, up) =
        CASE ~(up /\ Enabled(m)) -> PicLowerIrq(m, irq)
          [] up /\ Enabled(m)
             /\ ("IRQ_ENABLE" \notin Conf(m, b) \/ "FSB_ENABLE" \in Conf(m, b)) -> n
          [] OTHER -> IF "EDGE_LEVEL" \in Conf(m, b) THEN PicRaiseIrq(n, irq)
                      ELSE PicRaiseIrq(PicLowerIrq(n, irq), irq)
  BY DEF HpetUpdateIrq
<1>. DEFINE down == PicLowerIrq(m, irq)
            a == PicRaiseIrq(n, irq)
            z == PicRaiseIrq(PicLowerIrq(n, irq), irq)
<1>8. a = WithIrq(m, m.lines \cup {irq}, st) /\ z = WithIrq(m, m.lines \cup {irq}, st)
  <2>. HIDE DEF n, irq, st
  <2>1. a = WithIrq(m, m.lines \cup {irq}, st)
    BY <1>2, <1>3
  <2>2. PicLowerIrq(n, irq) = WithIrq(m, m.lines \ {irq}, st)
    BY <1>2, <1>4
  <2>3. z = WithIrq(m, (m.lines \ {irq}) \cup {irq}, st)
    BY <1>3, <2>2
  <2>. QED BY <1>6, <2>1, <2>3
<1>9. down = WithIrq(m, m.lines \ {irq}, m.hpet.InterruptStatus)
  BY <1>5
<1>. HIDE DEF n, a, z, down
<1>10. HpetUpdateIrq(m, b, up) = WithIrq(m, LinesAfter(m, b, up), StatusAfter(m, b, up))
  <2>1. CASE ~(up /\ Enabled(m))
    BY <1>7, <1>9, <2>1 DEF LinesAfter, StatusAfter, down
  <2>2. CASE up /\ Enabled(m) /\ ("IRQ_ENABLE" \notin Conf(m, b) \/ "FSB_ENABLE" \in Conf(m, b))
    BY <1>2, <1>7, <2>2 DEF LinesAfter, StatusAfter
  <2>3. CASE up /\ Enabled(m) /\ ~("IRQ_ENABLE" \notin Conf(m, b) \/ "FSB_ENABLE" \in Conf(m, b))
    BY <1>7, <1>8, <2>3 DEF LinesAfter, StatusAfter, a, z
  <2>. QED BY <2>1, <2>2, <2>3
<1>11. LinesAfter(m, b, up) \in SUBSET LINES
  BY <1>1 DEF LinesAfter
<1>12. StatusAfter(m, b, up) \in SUBSET Blocks
  BY OwnHpet DEF StatusAfter
<1>. QED BY <1>10, <1>11, <1>12

LEMMA UpdateIrqAround ==
    ASSUME NEW m, Sound(m), NEW b \in Blocks, NEW up \in BOOLEAN
    PROVE  LET n == HpetUpdateIrq(m, b, up)
           IN  /\ Sound(n) /\ Around(n, m)
               /\ n.lines = LinesAfter(m, b, up)
               /\ n.hpet.InterruptStatus = StatusAfter(m, b, up)
BY UpdateIrqIs, IrqPut

\* Raising an interrupt, and anything while the HPET is off.
LEMMA RaiseSmooth ==
    ASSUME NEW m, Sound(m), NEW b \in Blocks, NEW up \in BOOLEAN, up \/ ~Enabled(m)
    PROVE  Smooth(HpetUpdateIrq(m, b, up), m)
<1>. DEFINE n == HpetUpdateIrq(m, b, up)
<1>1. /\ Sound(n) /\ Around(n, m) /\ n.lines = LinesAfter(m, b, up)
      /\ n.hpet.InterruptStatus = StatusAfter(m, b, up)
  BY UpdateIrqAround
<1>. HIDE DEF n
<1>2. ASSUME NEW c \in Blocks, HeldIn(m, c), PendIn(n, c) PROVE IrqNumber(n, c) \in n.lines
  <2>1. /\ Enabled(n) = Enabled(m) /\ IrqNumber(n, c) = IrqNumber(m, c)
        /\ Conf(n, c) = Conf(m, c)
        /\ (PendIn(n, c) /\ c \in m.hpet.InterruptStatus => PendIn(m, c))
    BY <1>1, AroundIs
  <2>2. Enabled(m) /\ up
    BY <1>2, <2>1 DEF PendIn
  <2>3. CASE c = b
    <3>1. "IRQ_ENABLE" \in Conf(m, b) /\ "FSB_ENABLE" \notin Conf(m, b)
      BY <1>2, <2>1, <2>3 DEF PendIn
    <3>. QED BY <1>1, <2>1, <2>2, <2>3, <3>1 DEF LinesAfter
  <2>4. CASE c # b
    <3>1. c \in m.hpet.InterruptStatus
      BY <1>1, <1>2, <2>4 DEF PendIn, StatusAfter
    <3>2. IrqNumber(m, c) \in m.lines
      BY <1>2, <2>1, <3>1 DEF HeldIn
    <3>. QED BY <1>1, <2>1, <2>2, <3>2 DEF LinesAfter
  <2>. QED BY <2>3, <2>4
<1>3. Smooth(n, m)
  BY <1>1, <1>2, AroundSmooth DEF HeldIn
<1>. QED BY <1>3 DEF n

\* The guest clears an interrupt.
LEMMA ClearSmooth ==
    ASSUME NEW m, Sound(m), NEW b \in Blocks
    PROVE  Smooth([HpetUpdateIrq(m, b, FALSE) EXCEPT !.hpet.InterruptStatus = @ \ {b}], m)
<1>. DEFINE l == m.lines \ {IrqNumber(m, b)}
            s == m.hpet.InterruptStatus
            k == WithIrq(m, l, s)
            n == WithIrq(m, l, s \ {b})
<1>1. HpetUpdateIrq(m, b, FALSE) = k
  BY UpdateIrqIs DEF LinesAfter, StatusAfter
<1>2. [k EXCEPT !.hpet.InterruptStatus = @ \ {b}] = n
  BY OwnParts DEF WithIrq, MACHINE, HPET
<1>3. l \in SUBSET LINES /\ s \ {b} \in SUBSET Blocks
  BY OwnParts, OwnHpet
<1>4. /\ Sound(n) /\ Around(n, m) /\ n.lines = l /\ n.hpet.InterruptStatus = s \ {b}
  BY <1>3, IrqPut
<1>. HIDE DEF k, n
<1>5. ASSUME NEW c \in Blocks, OwnIn(m, c), HeldIn(m, c), PendIn(n, c)
      PROVE  IrqNumber(n, c) \in n.lines
  <2>1. c # b /\ c \in m.hpet.InterruptStatus
    BY <1>4, <1>5 DEF PendIn
  <2>2. IrqNumber(n, c) = IrqNumber(m, c) /\ PendIn(m, c)
    BY <1>4, <1>5, <2>1, AroundIs
  <2>3. IrqNumber(m, c) # IrqNumber(m, b)
    BY <1>5, <2>1 DEF OwnIn
  <2>. QED BY <1>4, <1>5, <2>2, <2>3 DEF HeldIn
<1>6. Smooth(n, m)
  BY <1>4, <1>5, AroundSmooth DEF HeldIn
<1>. QED BY <1>1, <1>2, <1>6

LEMMA UpdateTimerSmooth ==
    ASSUME NEW m, Sound(m), NEW b \in Blocks, NEW ns \in Wait
    PROVE  Smooth(HpetUpdateTimer(m, b, ns), m)
<1>1. HpetSlot(b) \in Slots \ {PitSlot}
  BY HpetAssumption
<1>. DEFINE i == HpetSlot(b)
            o == "PERIODIC_ENABLED" \in Conf(m, b)
<1>2. HpetUpdateTimer(m, b, ns) = TimerActivate(m, i, ns, o)
  BY DEF HpetUpdateTimer
<1>3. o \in BOOLEAN
  OBVIOUS
<1>. HIDE DEF i, o
<1>4. i \in Slots \ {PitSlot}
  BY <1>1 DEF i
<1>. QED BY <1>2, <1>3, <1>4, ActivateSmooth

LEMMA HpetHandlerSmooth ==
    ASSUME NEW m, Sound(m), NEW b \in Blocks, NEW passed \in BOOLEAN, NEW ns \in Wait
    PROVE  Smooth(HpetTimerHandler(m, b, passed, ns), m)
<1>. DEFINE n == IF passed THEN HpetUpdateIrq(m, b, TRUE) ELSE m
<1>1. Smooth(n, m)
  BY RaiseSmooth, SmoothSelf
<1>2. HpetTimerHandler(m, b, passed, ns) = HpetUpdateTimer(n, b, ns)
  BY DEF HpetTimerHandler
<1>. HIDE DEF n
<1>3. Smooth(HpetUpdateTimer(n, b, ns), n)
  BY <1>1, UpdateTimerSmooth DEF Smooth
<1>. QED BY <1>1, <1>2, <1>3, SmoothTwice

LEMMA CompareSmooth ==
    ASSUME NEW m, Sound(m), NEW b \in Blocks, NEW ns \in Wait
    PROVE  Smooth(WriteCompare(m, b, ns), m)
BY UpdateTimerSmooth, SmoothSelf DEF WriteCompare

\* Clearing the interrupts of the timers one by one.
Clear(n, b, value) ==
    IF b \in value /\ b \in n.hpet.InterruptStatus
    THEN [HpetUpdateIrq(n, b, FALSE) EXCEPT !.hpet.InterruptStatus = @ \ {b}]
    ELSE n
ClearUsed(n, b, value) == IF b \in Blocks THEN Clear(n, b, value) ELSE n
LEMMA ClearUsedSmooth ==
    ASSUME NEW m, Sound(m), NEW b, NEW value
    PROVE  Smooth(ClearUsed(m, b, value), m) /\ Sound(ClearUsed(m, b, value))
<1>1. CASE b \in Blocks /\ b \in value /\ b \in m.hpet.InterruptStatus
  <2>1. ClearUsed(m, b, value) =
            [HpetUpdateIrq(m, b, FALSE) EXCEPT !.hpet.InterruptStatus = @ \ {b}]
    BY <1>1 DEF ClearUsed, Clear
  <2>2. Smooth([HpetUpdateIrq(m, b, FALSE) EXCEPT !.hpet.InterruptStatus = @ \ {b}], m)
    BY <1>1, ClearSmooth
  <2>3. Smooth(ClearUsed(m, b, value), m)
    BY <2>1, <2>2
  <2>. QED BY <2>3 DEF Smooth
<1>2. CASE ~(b \in Blocks /\ b \in value /\ b \in m.hpet.InterruptStatus)
  BY <1>2, SmoothSelf DEF ClearUsed, Clear
<1>. QED BY <1>1, <1>2
LEMMA WriteStatusSmooth ==
    ASSUME NEW m, Sound(m), NEW value
    PROVE  Smooth(WriteStatus(m, value), m)
<1>. DEFINE k == ClearUsed(m, 0, value)
            j == ClearUsed(k, 1, value)
            i == ClearUsed(j, 2, value)
<1>1. WriteStatus(m, value) = i
  BY DEF WriteStatus, ForBlocks, ClearUsed, Clear
<1>2. Smooth(k, m) /\ Sound(k)
  BY ClearUsedSmooth
<1>. HIDE DEF k
<1>3. Smooth(j, k) /\ Sound(j)
  BY <1>2, ClearUsedSmooth
<1>. HIDE DEF j
<1>4. Smooth(i, j)
  BY <1>3, ClearUsedSmooth
<1>. HIDE DEF i
<1>5. Smooth(j, m)
  BY <1>2, <1>3, SmoothTwice
<1>. QED BY <1>1, <1>4, <1>5, SmoothTwice

\* Enabling the timers, while the HPET is off.
Start(n, b, ns) ==
    HpetUpdateTimer(IF "IRQ_ENABLE" \in Conf(n, b) /\ b \in n.hpet.InterruptStatus
                    THEN HpetUpdateIrq(n, b, TRUE) ELSE n, b, ns)
StartUsed(n, b, ns) == IF b \in Blocks THEN Start(n, b, ns) ELSE n
LEMMA StartUsedSmooth ==
    ASSUME NEW m, Sound(m), NEW b, NEW ns \in Wait
    PROVE  Smooth(StartUsed(m, b, ns), m) /\ Sound(StartUsed(m, b, ns))
<1>1. CASE b \in Blocks
  <2>. DEFINE n == IF "IRQ_ENABLE" \in Conf(m, b) /\ b \in m.hpet.InterruptStatus
                   THEN HpetUpdateIrq(m, b, TRUE) ELSE m
  <2>1. Smooth(n, m)
    BY <1>1, RaiseSmooth, SmoothSelf
  <2>2. StartUsed(m, b, ns) = HpetUpdateTimer(n, b, ns)
    BY <1>1 DEF StartUsed, Start
  <2>. HIDE DEF n
  <2>3. Smooth(HpetUpdateTimer(n, b, ns), n)
    BY <1>1, <2>1, UpdateTimerSmooth DEF Smooth
  <2>4. Smooth(StartUsed(m, b, ns), m)
    BY <2>1, <2>2, <2>3, SmoothTwice
  <2>. QED BY <2>4 DEF Smooth
<1>2. CASE b \notin Blocks
  BY <1>2, SmoothSelf DEF StartUsed
<1>. QED BY <1>1, <1>2
LEMMA EnableSmooth ==
    ASSUME NEW m, Sound(m), NEW ns \in Wait
    PROVE  Smooth(HpetEnable(m, ns), m)
<1>. DEFINE k == StartUsed(m, 0, ns)
            j == StartUsed(k, 1, ns)
            i == StartUsed(j, 2, ns)
<1>1. HpetEnable(m, ns) = i
  BY DEF HpetEnable, ForBlocks, StartUsed, Start
<1>2. Smooth(k, m) /\ Sound(k)
  BY StartUsedSmooth
<1>. HIDE DEF k
<1>3. Smooth(j, k) /\ Sound(j)
  BY <1>2, StartUsedSmooth
<1>. HIDE DEF j
<1>4. Smooth(i, j)
  BY <1>3, StartUsedSmooth
<1>. HIDE DEF i
<1>5. Smooth(j, m)
  BY <1>2, <1>3, SmoothTwice
<1>. QED BY <1>1, <1>4, <1>5, SmoothTwice

\* Disabling them takes the lines away: what is Smooth but for the lines.
Calm(n, m) ==
    /\ Sound(n)
    /\ n.hpet.GlobalConfiguration = m.hpet.GlobalConfiguration
    /\ n.hpet.Timer = m.hpet.Timer
    /\ n.pit.InterruptEnabled = m.pit.InterruptEnabled
    /\ n.rtc = m.rtc
    /\ LatchSame(n.pit, m.pit)
LEMMA SmoothCalm ==
    ASSUME NEW n, NEW m, Smooth(n, m)
    PROVE  Calm(n, m)
BY DEF Smooth, Calm
LEMMA CalmTwice ==
    ASSUME NEW k, NEW n, NEW m, Calm(k, n), Calm(n, m)
    PROVE  Calm(k, m)
<1>1. LatchSame(k.pit, m.pit)
  BY DEF Calm, LatchSame
<1>. QED BY <1>1 DEF Calm

StopUsed(n, b) == IF b \in Blocks THEN HpetDisableTimer(n, b) ELSE n
LEMMA StopUsedCalm ==
    ASSUME NEW m, Sound(m), NEW b
    PROVE  Calm(StopUsed(m, b), m) /\ Sound(StopUsed(m, b))
<1>1. CASE b \in Blocks
  <2>. DEFINE i == HpetSlot(b)
              n == TimerDeactivate(m, i)
              k == HpetUpdateIrq(n, b, FALSE)
  <2>1. StopUsed(m, b) = k
    BY <1>1 DEF StopUsed, HpetDisableTimer
  <2>2. i \in Slots
    BY <1>1, HpetAssumption
  <2>. HIDE DEF i
  <2>3. Calm(n, m) /\ Sound(n)
    BY <2>2, DeactivateSmooth, SmoothCalm DEF Smooth
  <2>. HIDE DEF n
  <2>4. Sound(k) /\ Around(k, n)
    BY <1>1, <2>3, UpdateIrqAround
  <2>. HIDE DEF k
  <2>5. Calm(k, n)
    BY <2>3, <2>4, OwnParts DEF Calm, Around
  <2>. QED BY <2>1, <2>3, <2>4, <2>5, CalmTwice
<1>2. CASE b \notin Blocks
  BY <1>2, SmoothSelf, SmoothCalm DEF StopUsed
<1>. QED BY <1>1, <1>2
LEMMA DisableCalm ==
    ASSUME NEW m, Sound(m)
    PROVE  Calm(ForBlocks(m, HpetDisableTimer), m)
<1>. DEFINE k == StopUsed(m, 0)
            j == StopUsed(k, 1)
            i == StopUsed(j, 2)
<1>1. ForBlocks(m, HpetDisableTimer) = i
  BY DEF ForBlocks, StopUsed
<1>2. Calm(k, m) /\ Sound(k)
  BY StopUsedCalm
<1>. HIDE DEF k
<1>3. Calm(j, k) /\ Sound(j)
  BY <1>2, StopUsedCalm
<1>. HIDE DEF j
<1>4. Calm(i, j)
  BY <1>3, StopUsedCalm
<1>. HIDE DEF i
<1>5. Calm(j, m)
  BY <1>2, <1>3, CalmTwice
<1>. QED BY <1>1, <1>4, <1>5, CalmTwice

\* Only disabling takes lines away.
LEMMA SwitchCalm ==
    ASSUME NEW m, Sound(m), NEW value, NEW ns \in Wait
    PROVE  /\ Calm(HpetSwitch(m, value, ns), m)
           /\ value \subseteq m.hpet.GlobalConfiguration /\ "ENABLED" \in value
                  => HpetSwitch(m, value, ns) = m
<1>1. Calm(HpetEnable(m, ns), m) /\ Calm(ForBlocks(m, HpetDisableTimer), m) /\ Calm(m, m)
  BY EnableSmooth, DisableCalm, SmoothSelf, SmoothCalm
<1>. DEFINE e == HpetEnable(m, ns)
            d == ForBlocks(m, HpetDisableTimer)
<1>2. HpetSwitch(m, value, ns) =
          CASE "ENABLED" \in value /\ ~Enabled(m) -> e
            [] Enabled(m) /\ "ENABLED" \notin value -> d
            [] OTHER -> m
  BY DEF HpetSwitch
<1>3. Calm(e, m) /\ Calm(d, m)
  BY <1>1
<1>. HIDE DEF e, d
<1>4. Calm(HpetSwitch(m, value, ns), m)
  BY <1>1, <1>2, <1>3
<1>5. value \subseteq m.hpet.GlobalConfiguration /\ "ENABLED" \in value
          => HpetSwitch(m, value, ns) = m
  BY <1>2 DEF Enabled
<1>. QED BY <1>4, <1>5

\* The global configuration is written, and what follows from its legacy bit.
WithGlobal(k, e, r, g) ==
    [k EXCEPT !.pit.InterruptEnabled = e, !.rtc = r, !.hpet.GlobalConfiguration = g]
LEMMA GlobalPut ==
    ASSUME NEW k, Sound(k), NEW e \in BOOLEAN, NEW r \in BOOLEAN,
           NEW g \in SUBSET {"ENABLED", "LEGACY"}
    PROVE  LET n == WithGlobal(k, e, r, g)
           IN  /\ Sound(n) /\ n.lines = k.lines /\ n.rtc = r
               /\ n.pit.InterruptEnabled = e /\ n.pit.counter = k.pit.counter
               /\ n.hpet.GlobalConfiguration = g /\ n.hpet.Timer = k.hpet.Timer
               /\ n.hpet.InterruptStatus = k.hpet.InterruptStatus
<1>. DEFINE h == [k.hpet EXCEPT !.GlobalConfiguration = g]
            p == [k.pit EXCEPT !.InterruptEnabled = e]
            n == WithGlobal(k, e, r, g)
<1>1. /\ h \in HPET /\ h.GlobalConfiguration = g /\ h.Timer = k.hpet.Timer
      /\ h.InterruptStatus = k.hpet.InterruptStatus
  BY OwnParts DEF HPET
<1>2. p \in PIT /\ p.InterruptEnabled = e /\ p.counter = k.pit.counter
  BY OwnParts DEF PIT
<1>3. n = [k EXCEPT !.pit = p, !.rtc = r, !.hpet = h]
  BY DEF WithGlobal
<1>. HIDE DEF h, p, n
<1>4. k \in MACHINE
  BY OwnParts
<1>5. /\ n \in MACHINE /\ n.lines = k.lines /\ n.hpet = h /\ n.pit = p /\ n.rtc = r
      /\ n.slots = k.slots /\ n.exited = k.exited
  BY <1>1, <1>2, <1>3, <1>4 DEF MACHINE
<1>6. Loaded(p) /\ Awake(n.slots, p) /\ (n.exited => Died(p))
  BY <1>2, <1>5, OwnParts DEF Loaded, Awake, Died
<1>7. Sound(n)
  BY <1>5, <1>6 DEF Sound
<1>8. /\ Sound(n) /\ n.lines = k.lines /\ n.rtc = r
      /\ n.pit.InterruptEnabled = e /\ n.pit.counter = k.pit.counter
      /\ n.hpet.GlobalConfiguration = g /\ n.hpet.Timer = k.hpet.Timer
      /\ n.hpet.InterruptStatus = k.hpet.InterruptStatus
  BY <1>1, <1>2, <1>5, <1>7
<1>. QED BY <1>8 DEF n

LEMMA ConfigureStep ==
    ASSUME NEW m, Sound(m), NEW value \in SUBSET {"ENABLED", "LEGACY"}, NEW ns \in Wait
    PROVE  Step(WriteConfigure(m, value, ns), m)
<1>. DEFINE k == HpetSwitch(m, value, ns)
            legacy == "LEGACY" \in m.hpet.GlobalConfiguration
            same == ("LEGACY" \in value) = legacy
            e == IF same THEN k.pit.InterruptEnabled ELSE legacy
            r == IF same THEN k.rtc ELSE legacy
            n == WithGlobal(k, e, r, value)
<1>1. /\ Calm(k, m)
      /\ value \subseteq m.hpet.GlobalConfiguration /\ "ENABLED" \in value => k = m
  BY SwitchCalm
<1>2. WriteConfigure(m, value, ns) = [HpetLegacy(k, value) EXCEPT !.hpet.GlobalConfiguration = value]
  BY DEF WriteConfigure
<1>. HIDE DEF k
<1>3. Sound(k) /\ k \in MACHINE /\ k.pit \in PIT /\ k.hpet \in HPET
  BY <1>1, OwnParts DEF Calm
<1>4. WriteConfigure(m, value, ns) = n
  <2>1. "LEGACY" \in k.hpet.GlobalConfiguration <=> legacy
    BY <1>1 DEF Calm
  <2>2. CASE same
    <3>1. HpetLegacy(k, value) = k
      BY <2>1, <2>2 DEF HpetLegacy
    <3>2. [k EXCEPT !.hpet.GlobalConfiguration = value] =
              WithGlobal(k, k.pit.InterruptEnabled, k.rtc, value)
      BY <1>3 DEF WithGlobal, MACHINE, PIT, HPET
    <3>. QED BY <1>2, <2>2, <3>1, <3>2
  <2>3. CASE ~same
    <3>. HIDE DEF legacy
    <3>1. HpetLegacy(k, value) = [k EXCEPT !.pit.InterruptEnabled = legacy, !.rtc = legacy]
      BY <1>3, <2>1, <2>3 DEF HpetLegacy, CmosSetInterrupt, PitSetInterrupt, MACHINE
    <3>2. [[k EXCEPT !.pit.InterruptEnabled = legacy, !.rtc = legacy]
                EXCEPT !.hpet.GlobalConfiguration = value] =
              WithGlobal(k, legacy, legacy, value)
      BY <1>3 DEF WithGlobal, MACHINE
    <3>. QED BY <1>2, <2>3, <3>1, <3>2
  <2>. QED BY <2>2, <2>3
<1>5. e \in BOOLEAN /\ r \in BOOLEAN
  <2>1. k.pit.InterruptEnabled \in BOOLEAN /\ k.rtc \in BOOLEAN
    BY <1>3, OwnParts
  <2>2. legacy \in BOOLEAN
    OBVIOUS
  <2>. HIDE DEF legacy, same
  <2>3. CASE same
    BY <2>1, <2>3, Zenon
  <2>4. CASE ~same
    BY <2>2, <2>4, Zenon
  <2>. QED BY <2>3, <2>4
<1>6. /\ Sound(n) /\ n.lines = k.lines /\ n.rtc = r
      /\ n.pit.InterruptEnabled = e /\ n.pit.counter = k.pit.counter
      /\ n.hpet.GlobalConfiguration = value /\ n.hpet.Timer = k.hpet.Timer
      /\ n.hpet.InterruptStatus = k.hpet.InterruptStatus
  <2>. HIDE DEF e, r
  <2>. QED BY <1>3, <1>5, GlobalPut
<1>. HIDE DEF n
<1>7. Replaces(m) => Replaces(n)
  BY <1>1, <1>6 DEF Replaces, Calm
<1>8. \A ch \in Counters : m.pit.counter[ch].countLatched # 0 =>
           n.pit.counter[ch].outlatch = m.pit.counter[ch].outlatch
  BY <1>1, <1>6 DEF Calm, LatchSame
<1>9. ASSUME NEW b \in Blocks, value \subseteq m.hpet.GlobalConfiguration,
             HeldIn(m, b), PendIn(n, b)
      PROVE  IrqNumber(n, b) \in n.lines
  <2>1. k = m
    BY <1>1, <1>6, <1>9 DEF PendIn, Enabled
  <2>2. IrqNumber(n, b) = IrqNumber(m, b) /\ Conf(n, b) = Conf(m, b)
    BY <1>6, <2>1 DEF IrqNumber, Conf
  <2>3. ASSUME b = 0 PROVE ~m.pit.InterruptEnabled
    <3>1. ~e
      BY <1>6, <1>9, <2>3 DEF PendIn
    <3>2. CASE same
      BY <2>1, <3>1, <3>2, Zenon
    <3>3. CASE ~same
      <4>1. ~legacy
        BY <3>1, <3>3, Zenon
      <4>. QED BY <1>9, <3>3, <4>1
    <3>. QED BY <3>2, <3>3
  <2>4. PendIn(m, b)
    BY <1>6, <1>9, <2>1, <2>2, <2>3 DEF PendIn, Enabled
  <2>. QED BY <1>6, <1>9, <2>1, <2>2, <2>4 DEF HeldIn
<1>10. Step(n, m)
  BY <1>6, <1>7, <1>8, <1>9 DEF Step, HeldIn
<1>. QED BY <1>4, <1>10

\* The configuration of one timer is written, and with it the status.
WithTimer(m, b, t, s) == [m EXCEPT !.hpet.Timer[b] = t, !.hpet.InterruptStatus = s]
LEMMA TimerPut ==
    ASSUME NEW m, Sound(m), NEW b \in Blocks, NEW t \in HPET_TIMER_BLOCK,
           NEW s \in SUBSET Blocks
    PROVE  LET n == WithTimer(m, b, t, s)
           IN  /\ Sound(n) /\ n.lines = m.lines /\ n.rtc = m.rtc /\ n.pit = m.pit
               /\ n.hpet.GlobalConfiguration = m.hpet.GlobalConfiguration
               /\ n.hpet.InterruptStatus = s /\ n.hpet.Timer[b] = t
               /\ \A c \in Blocks \ {b} : n.hpet.Timer[c] = m.hpet.Timer[c]
<1>. DEFINE f == [m.hpet.Timer EXCEPT ![b] = t]
            h == [m.hpet EXCEPT !.Timer = f, !.InterruptStatus = s]
            n == WithTimer(m, b, t, s)
<1>1. /\ f \in [Blocks -> HPET_TIMER_BLOCK] /\ f[b] = t
      /\ \A c \in Blocks \ {b} : f[c] = m.hpet.Timer[c]
  BY OwnHpet
<1>2. n = [m EXCEPT !.hpet = h]
  BY DEF WithTimer
<1>. HIDE DEF f
<1>3. /\ h \in HPET /\ h.GlobalConfiguration = m.hpet.GlobalConfiguration
      /\ h.Timer = f /\ h.InterruptStatus = s
  BY <1>1, OwnParts DEF HPET
<1>. HIDE DEF h, n
<1>4. m \in MACHINE
  BY OwnParts
<1>5. /\ n \in MACHINE /\ n.lines = m.lines /\ n.hpet = h /\ n.pit = m.pit
      /\ n.rtc = m.rtc /\ n.slots = m.slots /\ n.exited = m.exited
  BY <1>2, <1>3, <1>4 DEF MACHINE
<1>6. Sound(n)
  BY <1>5, OwnParts DEF Sound
<1>. QED BY <1>1, <1>3, <1>5, <1>6 DEF n

LEMMA TimerConfigStep ==
    ASSUME NEW m, Sound(m), NEW b \in Blocks, NEW conf \in SUBSET CONF,
           NEW route \in Routes, NEW ns \in Wait
    PROVE  Step(WriteTimerConfig(m, b, conf, route, ns), m)
<1>. DEFINE t == [conf |-> conf, route |-> route]
            st == m.hpet.InterruptStatus
            s == IF "FSB_ENABLE" \in conf \/ "EDGE_LEVEL" \notin conf
                 THEN st \ {b} ELSE st
            n == WithTimer(m, b, t, s)
            up == b \in s
            u == IF "IRQ_ENABLE" \in conf THEN HpetUpdateIrq(n, b, up) ELSE n
            w == IF Enabled(m) THEN HpetUpdateTimer(u, b, ns) ELSE n
<1>1. t \in HPET_TIMER_BLOCK /\ t.conf = conf
  BY DEF HPET_TIMER_BLOCK
<1>2. s \in SUBSET Blocks /\ s \subseteq st
  BY OwnHpet
<1>3. /\ Sound(n) /\ n.lines = m.lines /\ n.rtc = m.rtc /\ n.pit = m.pit
      /\ n.hpet.GlobalConfiguration = m.hpet.GlobalConfiguration
      /\ n.hpet.InterruptStatus = s /\ n.hpet.Timer[b] = t
      /\ \A c \in Blocks \ {b} : n.hpet.Timer[c] = m.hpet.Timer[c]
  <2>. HIDE DEF s, t
  <2>. QED BY <1>1, <1>2, TimerPut
<1>4. WriteTimerConfig(m, b, conf, route, ns) = w
  <2>. DEFINE k == [m EXCEPT !.hpet.Timer[b] = [conf |-> conf, route |-> route],
                             !.hpet.InterruptStatus =
                                 IF "FSB_ENABLE" \in conf \/ "EDGE_LEVEL" \notin conf
                                 THEN @ \ {b} ELSE @]
              v == IF "IRQ_ENABLE" \in conf
                   THEN HpetUpdateIrq(k, b, b \in k.hpet.InterruptStatus) ELSE k
  <2>1. WriteTimerConfig(m, b, conf, route, ns) =
            IF Enabled(m) THEN HpetUpdateTimer(v, b, ns) ELSE k
    BY DEF WriteTimerConfig
  <2>2. k = n
    BY DEF WithTimer
  <2>. HIDE DEF n, k
  <2>3. v = u
    BY <1>3, <2>2
  <2>. QED BY <2>1, <2>2, <2>3
<1>. HIDE DEF n, s, t
<1>5. up \in BOOLEAN
  OBVIOUS
<1>6. /\ Sound(u) /\ Around(u, n)
      /\ u.lines = IF "IRQ_ENABLE" \in conf THEN LinesAfter(n, b, up) ELSE n.lines
      /\ u.hpet.InterruptStatus =
            IF "IRQ_ENABLE" \in conf THEN StatusAfter(n, b, up) ELSE s
  <2>1. CASE "IRQ_ENABLE" \in conf
    <3>. HIDE DEF up
    <3>1. u = HpetUpdateIrq(n, b, up)
      BY <2>1
    <3>. QED BY <1>3, <1>5, <2>1, <3>1, UpdateIrqAround
  <2>2. CASE "IRQ_ENABLE" \notin conf
    BY <1>3, <2>2 DEF Around
  <2>. QED BY <2>1, <2>2
<1>. HIDE DEF u
<1>7. /\ Enabled(n) = Enabled(m) /\ Enabled(u) = Enabled(m)
      /\ Conf(n, b) = conf /\ Conf(u, b) = conf /\ IrqNumber(u, b) = IrqNumber(n, b)
      /\ \A c \in Blocks \ {b} : /\ Conf(u, c) = Conf(m, c)
                                 /\ IrqNumber(u, c) = IrqNumber(m, c)
  BY <1>1, <1>3, <1>6 DEF Enabled, Conf, IrqNumber, Around
<1>8. ASSUME NEW c \in Blocks, OwnIn(u, c), HeldIn(m, c), PendIn(u, c), Enabled(m)
      PROVE  IrqNumber(u, c) \in u.lines
  <2>1. CASE c = b
    <3>1. "IRQ_ENABLE" \in conf /\ "FSB_ENABLE" \notin conf /\ b \in u.hpet.InterruptStatus
      BY <1>7, <1>8, <2>1 DEF PendIn
    <3>2. up
      BY <1>3, <1>6, <3>1 DEF StatusAfter
    <3>. QED BY <1>6, <1>7, <1>8, <2>1, <3>1, <3>2 DEF LinesAfter
  <2>2. CASE c # b
    <3>1. c \in st
      BY <1>2, <1>3, <1>6, <1>8, <2>2 DEF PendIn, StatusAfter
    <3>2. PendIn(m, c)
      BY <1>3, <1>6, <1>7, <1>8, <2>2, <3>1 DEF PendIn, Around
    <3>3. IrqNumber(u, c) \in n.lines
      BY <1>3, <1>7, <1>8, <2>2, <3>2 DEF HeldIn
    <3>4. IrqNumber(u, b) # IrqNumber(u, c)
      BY <1>8, <2>2 DEF OwnIn
    <3>. QED BY <1>6, <1>7, <3>3, <3>4 DEF LinesAfter
  <2>. QED BY <2>1, <2>2
<1>9. Enabled(m) => Smooth(w, u)
  BY <1>6, UpdateTimerSmooth
<1>10. CASE Enabled(m)
  <2>1. Smooth(w, u)
    BY <1>9, <1>10
  <2>. HIDE DEF w
  <2>2. \A c \in Blocks : OwnIn(w, c) => OwnIn(u, c)
    BY <2>1 DEF Smooth, OwnIn, IrqNumber, Conf
  <2>3. \A c \in Blocks : OwnIn(w, c) /\ HeldIn(m, c) => HeldIn(w, c)
    BY <1>8, <1>10, <2>1, <2>2 DEF Smooth, HeldIn
  <2>4. u.pit = m.pit /\ u.rtc = m.rtc
        /\ u.hpet.GlobalConfiguration = m.hpet.GlobalConfiguration
    BY <1>3, <1>6 DEF Around
  <2>5. Replaces(m) => Replaces(w)
    BY <2>1, <2>4 DEF Replaces, Smooth
  <2>6. \A ch \in Counters : m.pit.counter[ch].countLatched # 0 =>
            w.pit.counter[ch].outlatch = m.pit.counter[ch].outlatch
    BY <2>1, <2>4 DEF Smooth, LatchSame
  <2>7. Sound(w)
    BY <2>1 DEF Smooth
  <2>8. Step(w, m)
    BY <2>3, <2>5, <2>6, <2>7 DEF Step
  <2>. QED BY <1>4, <2>8
<1>11. CASE ~Enabled(m)
  <2>1. \A c \in Blocks : HeldIn(n, c)
    BY <1>7, <1>11 DEF HeldIn, PendIn
  <2>2. Replaces(m) => Replaces(n)
    BY <1>3 DEF Replaces
  <2>3. Step(n, m)
    BY <1>3, <2>1, <2>2 DEF Step
  <2>. QED BY <1>4, <1>11, <2>3
<1>. QED BY <1>10, <1>11

-----------------------------------------------------------------------------
(***************************************************************************)
(* The tick.                                                               *)
(***************************************************************************)

LEMMA HandlerSmooth ==
    ASSUME NEW m, Sound(m), NEW i \in Slots, m.slots[i].Active, NEW passed \in BOOLEAN,
           NEW ns \in Wait
    PROVE  Smooth(Handler(m, i, passed, ns), m)
<1>1. CASE i = PitSlot
  <2>1. Handler(m, i, passed, ns) = PitTimerHandler(m, ns)
    BY <1>1 DEF Handler
  <2>. QED BY <1>1, <2>1, PitHandlerSmooth
<1>2. CASE i # PitSlot /\ \E b \in Blocks : HpetSlot(b) = i
  <2>. DEFINE b == CHOOSE b \in Blocks : HpetSlot(b) = i
  <2>1. Handler(m, i, passed, ns) = HpetTimerHandler(m, b, passed, ns)
    BY <1>2 DEF Handler
  <2>2. b \in Blocks
    BY <1>2
  <2>. HIDE DEF b
  <2>. QED BY <2>1, <2>2, HpetHandlerSmooth
<1>3. CASE i # PitSlot /\ ~\E b \in Blocks : HpetSlot(b) = i
  <2>1. Handler(m, i, passed, ns) = m
    BY <1>3 DEF Handler
  <2>. QED BY <2>1, SmoothSelf
<1>. QED BY <1>1, <1>2, <1>3

LEMMA TurnSmooth ==
    ASSUME NEW m, Sound(m), NEW i \in Slots, NEW pass \in Nat, NEW passed \in BOOLEAN,
           NEW ns \in Wait
    PROVE  Smooth(TimerTurn(m, i, pass, passed, ns), m)
<1>. DEFINE w == TimerWaits(m, i, pass)
            h == Handler(w, i, passed, ns)
            f == TimerFired(h, i)
<1>1. TimerTurn(m, i, pass, passed, ns) =
        CASE ~m.slots[i].Active -> m
          [] m.slots[i].Active /\ ~TimerDue(m, i, pass) -> w
          [] OTHER -> f
  BY DEF TimerTurn
<1>2. Smooth(w, m) /\ w.slots[i].Active = m.slots[i].Active
  BY WaitsSmooth
<1>. HIDE DEF w
<1>3. m.slots[i].Active => Smooth(h, w)
  BY <1>2, HandlerSmooth DEF Smooth
<1>. HIDE DEF h
<1>4. m.slots[i].Active => Smooth(f, h)
  BY <1>3, FiredSmooth DEF Smooth
<1>. HIDE DEF f
<1>5. m.slots[i].Active => Smooth(f, m)
  BY <1>2, <1>3, <1>4, SmoothTwice
<1>. QED BY <1>1, <1>2, <1>5, SmoothSelf

\* The rounds of the loop over the slots.
TickTo(g, n, m, pass, passed, ns) ==
    g = [i \in 0..n |-> IF i = 0 THEN [m |-> m, fired |-> {}]
                        ELSE TimerRound(g[i - 1], i - 1, pass, passed, ns)]
LEMMA TickRounds ==
    ASSUME NEW m, NEW pass, NEW passed, NEW ns, NEW n \in Nat
    PROVE  \E g : TickTo(g, n, m, pass, passed, ns)
<1>. DEFINE S == {i \in Nat : \E g : TickTo(g, i, m, pass, passed, ns)}
            t == [m |-> m, fired |-> {}]
<1>1. 0 \in S
  <2>. DEFINE g == [i \in 0..0 |-> t]
  <2>1. TickTo(g, 0, m, pass, passed, ns)
    BY DEF TickTo
  <2>. QED BY <2>1
<1>2. ASSUME NEW k \in 0..n, k \in S, k < n PROVE k + 1 \in S
  <2>1. PICK g : TickTo(g, k, m, pass, passed, ns)
    BY <1>2
  <2>2. g = [i \in 0..k |-> IF i = 0 THEN t ELSE TimerRound(g[i - 1], i - 1, pass, passed, ns)]
    BY <2>1 DEF TickTo
  <2>. DEFINE h == [i \in 0..(k + 1) |->
                      IF i = k + 1 THEN TimerRound(g[k], k, pass, passed, ns) ELSE g[i]]
              r == [i \in 0..(k + 1) |->
                      IF i = 0 THEN t ELSE TimerRound(h[i - 1], i - 1, pass, passed, ns)]
  <2>. HIDE DEF t
  <2>3. ASSUME NEW i \in 0..(k + 1) PROVE h[i] = r[i]
    <3>1. CASE i = 0
      <4>1. h[i] = g[0] /\ 0 \in 0..k
        BY <3>1
      <4>2. g[0] = t
        BY <2>2, <4>1
      <4>. QED BY <3>1, <4>1, <4>2
    <3>2. CASE i = k + 1
      <4>1. i # 0 /\ i - 1 = k /\ h[i - 1] = g[k]
        BY <3>2
      <4>. QED BY <3>2, <4>1
    <3>3. CASE i # 0 /\ i # k + 1
      <4>1. i \in 0..k /\ i - 1 \in 0..k /\ i # k + 1 /\ i - 1 # k + 1
        BY <3>3
      <4>2. h[i] = g[i] /\ h[i - 1] = g[i - 1]
        BY <4>1
      <4>3. g[i] = TimerRound(g[i - 1], i - 1, pass, passed, ns)
        BY <2>2, <3>3, <4>1
      <4>. QED BY <3>3, <4>2, <4>3
    <3>. QED BY <3>1, <3>2, <3>3
  <2>4. h = r
    BY <2>3
  <2>5. TickTo(h, k + 1, m, pass, passed, ns)
    BY <2>4 DEF TickTo, t
  <2>. QED BY <2>5
<1>. HIDE DEF S
<1>3. n \in S
  BY <1>1, <1>2, UpTo
<1>. QED BY <1>3 DEF S

LEMMA TickIsRounds ==
    ASSUME NEW m, NEW pass, NEW passed, NEW ns
    PROVE  \E g : /\ TickTo(g, TimersIdx, m, pass, passed, ns)
                  /\ TimerTick(m, pass, passed, ns) = g[TimersIdx]
<1>. DEFINE f[i \in 0..TimersIdx] ==
              IF i = 0 THEN [m |-> m, fired |-> {}]
              ELSE TimerRound(f[i - 1], i - 1, pass, passed, ns)
<1>1. TimersIdx \in Nat
  BY TimerTableAssumption
<1>2. \E g : TickTo(g, TimersIdx, m, pass, passed, ns)
  BY <1>1, TickRounds
<1>3. TickTo(f, TimersIdx, m, pass, passed, ns)
  BY <1>2 DEF TickTo
<1>4. TimerTick(m, pass, passed, ns) = f[TimersIdx]
  BY DEF TimerTick
<1>. HIDE DEF f
<1>. QED BY <1>3, <1>4

LEMMA TickSmooth ==
    ASSUME NEW m, Sound(m), NEW pass \in Nat, NEW passed \in BOOLEAN, NEW ns \in Wait
    PROVE  /\ Smooth(TimerTick(m, pass, passed, ns).m, m)
           /\ TimerTick(m, pass, passed, ns).fired \subseteq Slots
<1>1. PICK g : /\ TickTo(g, TimersIdx, m, pass, passed, ns)
               /\ TimerTick(m, pass, passed, ns) = g[TimersIdx]
  BY TickIsRounds
<1>2. TimersIdx \in Nat /\ 0 \in 0..TimersIdx
  BY TimerTableAssumption
<1>3. /\ g[0] = [m |-> m, fired |-> {}]
      /\ \A i \in 1..TimersIdx : g[i] = TimerRound(g[i - 1], i - 1, pass, passed, ns)
  <2>. DEFINE t == [m |-> m, fired |-> {}]
  <2>1. g = [i \in 0..TimersIdx |->
              IF i = 0 THEN t ELSE TimerRound(g[i - 1], i - 1, pass, passed, ns)]
    BY <1>1 DEF TickTo
  <2>. HIDE DEF t
  <2>2. g[0] = t
    BY <1>2, <2>1
  <2>3. ASSUME NEW i \in 1..TimersIdx
        PROVE  g[i] = TimerRound(g[i - 1], i - 1, pass, passed, ns)
    <3>1. i \in 0..TimersIdx /\ i # 0
      BY <1>2
    <3>. QED BY <2>1, <3>1
  <2>. QED BY <2>2, <2>3 DEF t
<1>. DEFINE S == {i \in 0..TimersIdx : Smooth(g[i].m, m) /\ g[i].fired \subseteq Slots}
<1>4. 0 \in S
  BY <1>2, <1>3, SmoothSelf
<1>5. ASSUME NEW i \in 0..TimersIdx, i \in S, i < TimersIdx PROVE i + 1 \in S
  <2>. DEFINE t == g[i]
              n == TimerTurn(t.m, i, pass, passed, ns)
              d == IF TimerDue(t.m, i, pass) THEN t.fired \cup {i} ELSE t.fired
  <2>1. i + 1 \in 1..TimersIdx /\ (i + 1) - 1 = i /\ i \in Slots
    BY <1>2, <1>5 DEF Slots
  <2>2. g[i + 1] = TimerRound(t, i, pass, passed, ns)
    BY <1>3, <2>1
  <2>3. Smooth(t.m, m) /\ t.fired \subseteq Slots
    BY <1>5
  <2>. HIDE DEF t
  <2>4. g[i + 1].m = n /\ g[i + 1].fired = d
    BY <2>2 DEF TimerRound
  <2>5. d \subseteq Slots
    BY <2>1, <2>3
  <2>6. Smooth(n, t.m)
    BY <2>1, <2>3, TurnSmooth DEF Smooth
  <2>. HIDE DEF n, d
  <2>7. Smooth(n, m)
    BY <2>3, <2>6, SmoothTwice
  <2>8. i + 1 \in 0..TimersIdx
    BY <2>1
  <2>. QED BY <2>4, <2>5, <2>7, <2>8
<1>. HIDE DEF S
<1>6. TimersIdx \in S
  BY <1>2, <1>4, <1>5, UpTo
<1>. QED BY <1>1, <1>6 DEF S

-----------------------------------------------------------------------------
(***************************************************************************)
(* The inductive invariant and the steps.                                  *)
(***************************************************************************)

TimersInv ==
    /\ Sound(Machine)
    /\ Replaces(Machine)
    /\ parity \in 0..1
    /\ fired \subseteq Slots
    /\ session \in Sessions

LEMMA TimersInit == Init => TimersInv
<1>. SUFFICES ASSUME Init PROVE TimersInv
  OBVIOUS
<1>1. slots \in [Slots -> TIMER] /\ slots[PitSlot].Active = FALSE
  <2>1. MaxWait \in 0..MaxWait /\ 0 \in 0..MaxWait
    BY TimerTableAssumption
  <2>2. TimerDeactivated \in TIMER /\ TimerDeactivated.Active = FALSE
    BY <2>1 DEF TimerDeactivated, TimerRegister, TIMER
  <2>3. TimerCreate \in TIMER /\ TimerCreate.Active = FALSE
    BY <2>1 DEF TimerCreate, TIMER
  <2>. QED BY <2>2, <2>3, PitAssumption DEF Init
<1>2. pit \in PIT /\ Loaded(pit) /\ pit.InterruptEnabled = TRUE
  <2>. DEFINE c == [count |-> 0, countWritten |-> FALSE, mode |-> 4, rwMode |-> LSB,
                    readState |-> LSB, writeState |-> LSB, inlatch |-> 0,
                    countLatched |-> 0, outlatch |-> 0, statusLatched |-> FALSE,
                    gate |-> 1, wide |-> FALSE, elapsed |-> "loaded", next |-> "loaded"]
  <2>1. 0 \in 0..WORD /\ 0 \in 0..(BYTE - 1) /\ 0 \in 0..(WORD - 1)
    <3>1. BYTE \in Nat /\ BYTE > 1
      BY PitAssumption
    <3>2. BYTE * BYTE \in Nat /\ BYTE * BYTE > 0
      BY <3>1
    <3>. QED BY <3>1, <3>2 DEF WORD
  <2>2. 4 \in Mode /\ LSB \in RW_STATE /\ "loaded" \in Elapsed
    BY DEF Mode, LSB, RW_STATE, Elapsed
  <2>3. c \in COUNTER /\ c.countWritten = FALSE
    BY <2>1, <2>2 DEF COUNTER
  <2>4. pit = [counter |-> [ch \in Counters |-> c], InterruptEnabled |-> TRUE]
    BY DEF Init, PitInitialize
  <2>. HIDE DEF c
  <2>. QED BY <2>3, <2>4 DEF PIT, Loaded
<1>3. hpet \in HPET /\ hpet.GlobalConfiguration = {}
  <2>1. PICK route \in Routes : hpet = HpetInitialize(route)
    BY DEF Init
  <2>2. [conf |-> {}, route |-> route] \in HPET_TIMER_BLOCK
    BY DEF HPET_TIMER_BLOCK
  <2>. QED BY <2>1, <2>2 DEF HpetInitialize, HPET
<1>4. lines = {} /\ rtc = TRUE /\ exited = FALSE /\ parity = 0 /\ fired = {}
      /\ session \in Sessions
  BY DEF Init
<1>5. Machine \in MACHINE
  BY <1>1, <1>2, <1>3, <1>4 DEF Machine, MACHINE
<1>6. Sound(Machine)
  BY <1>1, <1>2, <1>4, <1>5 DEF Sound, Machine, Awake
<1>7. Replaces(Machine)
  BY <1>2, <1>3, <1>4 DEF Replaces, Machine
<1>. QED BY <1>4, <1>6, <1>7 DEF TimersInv

LEMMA BecomeIs ==
    ASSUME NEW n, n \in MACHINE, Become(n)
    PROVE  Machine' = n /\ session' = session
BY DEF Become, Machine, MACHINE

\* Every step of the guest and every tick is a Step.
LEMMA NextIsStep ==
    ASSUME TimersInv, Next
    PROVE  \E n : Step(n, Machine) /\ Become(n) /\ parity' \in 0..1 /\ fired' \subseteq Slots
<1>. DEFINE m == Machine
<1>1. Sound(m) /\ ~m.exited /\ session \in Sessions /\ parity \in 0..1
  BY DEF TimersInv, Machine, Next
<1>2. /\ session.counters \subseteq Counters /\ session.modes \subseteq 0..7
      /\ session.accesses \subseteq {LSB, MSB, WORD0}
      /\ session.values \subseteq 0..(DWORD - 1) /\ session.ports \subseteq 0..3
      /\ session.shows \subseteq 0..(WORD - 1)
      /\ session.global \subseteq SUBSET {"ENABLED", "LEGACY"}
      /\ session.confs \subseteq SUBSET CONF /\ session.passed \subseteq BOOLEAN
      /\ Passes \subseteq Nat
  BY <1>1, TimersAssumption
<1>3. ASSUME NEW n, Step(n, m), Guest(n)
      PROVE  \E k : Step(k, m) /\ Become(k) /\ parity' \in 0..1 /\ fired' \subseteq Slots
  BY <1>1, <1>3 DEF Guest
<1>4. CASE Tick
  <2>1. PICK pass \in Passes, passed \in session.passed, ns \in Wait :
            LET t == TimerTick(m, pass, passed, ns) IN Become(t.m) /\ fired' = t.fired
    BY <1>4 DEF Tick, Ticked
  <2>. DEFINE t == TimerTick(m, pass, passed, ns)
  <2>. HIDE DEF m
  <2>2. Smooth(t.m, m) /\ t.fired \subseteq Slots
    BY <1>1, <1>2, TickSmooth
  <2>3. parity' \in 0..1
    BY <1>1, <1>4 DEF Tick
  <2>. HIDE DEF t
  <2>4. Step(t.m, m)
    BY <2>2, SmoothStep
  <2>5. Become(t.m) /\ fired' = t.fired
    BY <2>1 DEF t
  <2>. QED BY <2>2, <2>3, <2>4, <2>5 DEF m
<1>5. CASE WritePitData
  <2>1. PICK a \in session.ports, v \in session.values, ns \in Wait :
            Guest(PitWriteData(m, a, v, ns))
    BY <1>5 DEF WritePitData
  <2>. HIDE DEF m
  <2>2. Step(PitWriteData(m, a, v, ns), m)
    BY <1>1, <1>2, WriteDataSmooth, SmoothStep
  <2>. QED BY <1>3, <2>1, <2>2 DEF m
<1>6. CASE WritePitControl
  <2>1. PICK ch \in session.counters :
           \/ \E access \in session.accesses, mode \in session.modes :
                  Guest(PitSetMode(m, ch, access, mode))
           \/ \E now \in session.shows : Guest(PitLatchCount(m, ch, now))
           \/ \E now \in session.shows, count, status \in BOOLEAN :
                  Guest(PitReadBack(m, {ch}, count, status, now))
    BY <1>6 DEF WritePitControl
  <2>. HIDE DEF m
  <2>2. ch \in Counters
    BY <1>2
  <2>3. ASSUME NEW access \in session.accesses, NEW mode \in session.modes
        PROVE  Step(PitSetMode(m, ch, access, mode), m)
    BY <1>1, <1>2, <2>2, SetModeSmooth, SmoothStep
  <2>4. ASSUME NEW now \in session.shows
        PROVE  Step(PitLatchCount(m, ch, now), m)
    BY <1>1, <1>2, <2>2, LatchCountSmooth, SmoothStep
  <2>5. ASSUME NEW now \in session.shows, NEW count \in BOOLEAN, NEW status \in BOOLEAN
        PROVE  Step(PitReadBack(m, {ch}, count, status, now), m)
    BY <1>1, <1>2, ReadBackSmooth, SmoothStep
  <2>. QED BY <1>3, <2>1, <2>3, <2>4, <2>5 DEF m
<1>7. CASE ReadPitData
  <2>1. PICK a \in session.ports : Guest(PitReadData(m, a))
    BY <1>7 DEF ReadPitData
  <2>. HIDE DEF m
  <2>2. Step(PitReadData(m, a), m)
    BY <1>1, ReadDataStep
  <2>. QED BY <1>3, <2>1, <2>2 DEF m
<1>8. CASE Port61
  <2>1. \/ Guest(PitReadPort61(m))
        \/ \E v \in 0..1, ns \in Wait : Guest(PitSetGate(m, v, ns))
    BY <1>8 DEF Port61
  <2>. HIDE DEF m
  <2>2. Step(PitReadPort61(m), m)
    BY <1>1, Port61Smooth, SmoothStep
  <2>3. \A v \in 0..1, ns \in Wait : Step(PitSetGate(m, v, ns), m)
    BY <1>1, GateSmooth, SmoothStep
  <2>. QED BY <1>3, <2>1, <2>2, <2>3 DEF m
<1>9. CASE WriteHpetConfigure
  <2>1. PICK value \in session.global, ns \in Wait : Guest(WriteConfigure(m, value, ns))
    BY <1>9 DEF WriteHpetConfigure
  <2>. HIDE DEF m
  <2>2. Step(WriteConfigure(m, value, ns), m)
    BY <1>1, <1>2, ConfigureStep
  <2>. QED BY <1>3, <2>1, <2>2 DEF m
<1>10. CASE WriteHpetStatus
  <2>1. PICK b \in Blocks : Guest(WriteStatus(m, {b}))
    BY <1>10 DEF WriteHpetStatus
  <2>. HIDE DEF m
  <2>2. Step(WriteStatus(m, {b}), m)
    BY <1>1, WriteStatusSmooth, SmoothStep
  <2>. QED BY <1>3, <2>1, <2>2 DEF m
<1>11. CASE WriteHpetTimer
  <2>1. PICK b \in Blocks, ns \in Wait :
           \/ \E conf \in session.confs, route \in Routes :
                  Guest(WriteTimerConfig(m, b, conf, route, ns))
           \/ Guest(WriteCompare(m, b, ns))
    BY <1>11 DEF WriteHpetTimer
  <2>. HIDE DEF m
  <2>2. ASSUME NEW conf \in session.confs, NEW route \in Routes
        PROVE  Step(WriteTimerConfig(m, b, conf, route, ns), m)
    BY <1>1, <1>2, TimerConfigStep
  <2>3. Step(WriteCompare(m, b, ns), m)
    BY <1>1, CompareSmooth, SmoothStep
  <2>. QED BY <1>3, <2>1, <2>2, <2>3 DEF m
<1>. QED BY <1>4, <1>5, <1>6, <1>7, <1>8, <1>9, <1>10, <1>11 DEF Next

LEMMA TimersStep ==
    ASSUME TimersInv, [Next]_vars
    PROVE  TimersInv' /\ (Step(Machine', Machine) \/ UNCHANGED vars)
<1>1. CASE Next
  <2>1. PICK n : Step(n, Machine) /\ Become(n) /\ parity' \in 0..1 /\ fired' \subseteq Slots
    BY <1>1, NextIsStep
  <2>2. Machine' = n /\ session' = session
    BY <2>1, BecomeIs DEF Step, Sound
  <2>3. Sound(n) /\ Replaces(n)
    BY <2>1 DEF Step, TimersInv
  <2>4. Sound(Machine') /\ Replaces(Machine') /\ Step(Machine', Machine)
    BY <2>1, <2>2, <2>3
  <2>. QED BY <2>1, <2>2, <2>4 DEF TimersInv
<1>2. CASE UNCHANGED vars
  BY <1>2 DEF TimersInv, Machine, vars
<1>. QED BY <1>1, <1>2

LEMMA TimersAlways == Spec => []TimersInv
<1>1. TimersInv /\ [Next]_vars => TimersInv'
  BY TimersStep
<1>. QED BY <1>1, TimersInit, PTL DEF Spec

-----------------------------------------------------------------------------
(***************************************************************************)
(* The theorems.                                                           *)
(***************************************************************************)

\* The state stays in the ranges of the code's structures, and the interval timer
\* and the clock have their lines exactly when the HPET does not replace them,
\* in whatever order the guest switches the HPET and its legacy mode.
THEOREM TimersStayConsistent == Spec => []TimersConsistent
<1>1. TimersInv => TimersConsistent
  <2>. SUFFICES ASSUME TimersInv PROVE TimersConsistent
    OBVIOUS
  <2>1. Machine \in MACHINE /\ Replaces(Machine)
    BY DEF TimersInv, Sound
  <2>2. TypeOK
    BY <2>1 DEF TimersInv, Machine, MACHINE, TypeOK, LINES
  <2>3. LegacyReplaces
    BY <2>1 DEF Replaces, LegacyReplaces, Machine
  <2>. QED BY <2>2, <2>3 DEF TimersConsistent
<1>. QED BY <1>1, TimersAlways, PTL

\* The monitor dies of a division by zero only over a counter that was set to divide
\* and that was never loaded, or loaded last with a value of more than two bytes.  A
\* guest that loads its counters first, with bytes or with words, is safe from it.
THEOREM DeathIsUnloadedOrWide == Spec => []DiesUnloadedOrWide
<1>1. TimersInv => DiesUnloadedOrWide
  BY DEF TimersInv, Sound, Died, Deadly, Machine, DiesUnloadedOrWide
<1>. QED BY <1>1, TimersAlways, PTL

\* A latched count stays as it was latched until it has been read.
THEOREM LatchStays == Spec => LatchedCountKept
<1>1. TimersInv /\ [Next]_vars =>
        [\A ch \in Counters :
          LET c == pit.counter[ch]
          IN  c.countLatched # 0 => pit'.counter[ch].outlatch = c.outlatch]_vars
  <2>. SUFFICES ASSUME TimersInv, [Next]_vars, ~UNCHANGED vars
                PROVE  \A ch \in Counters : pit.counter[ch].countLatched # 0 =>
                           pit'.counter[ch].outlatch = pit.counter[ch].outlatch
    OBVIOUS
  <2>1. Step(Machine', Machine)
    BY TimersStep
  <2>2. Machine.pit = pit /\ (Machine').pit = pit'
    BY DEF Machine
  <2>. QED BY <2>1, <2>2 DEF Step
<1>. QED BY <1>1, TimersAlways, PTL DEF Spec, LatchedCountKept

\* A level interrupt of the HPET that becomes pending raises its line, and the
\* line stays up until the guest clears the interrupt or gives its line to another
\* timer, whatever the interval timer and the other timers do meanwhile.
THEOREM PendingKeepsLine == Spec => PendingRaises
<1>1. TimersInv /\ [Next]_vars =>
        [\A b \in Blocks :
          LET taken == hpet'.GlobalConfiguration \subseteq hpet.GlobalConfiguration
              own == OwnLine(b) /\ OwnLine(b)'
              held == Pending(b) => LineUp(b)
          IN  taken /\ own /\ held /\ Pending(b)' => LineUp(b)']_vars
  <2>. SUFFICES ASSUME TimersInv, [Next]_vars, ~UNCHANGED vars, NEW b \in Blocks,
                       hpet'.GlobalConfiguration \subseteq hpet.GlobalConfiguration,
                       OwnLine(b), OwnLine(b)', Pending(b) => LineUp(b), Pending(b)'
                PROVE  LineUp(b)'
    OBVIOUS
  <2>1. Step(Machine', Machine)
    BY TimersStep
  <2>2. /\ Machine.hpet = hpet /\ Machine.lines = lines /\ Machine.pit = pit
        /\ (Machine').hpet = hpet' /\ (Machine').lines = lines' /\ (Machine').pit = pit'
    BY DEF Machine
  <2>3. OwnIn(Machine, b) /\ HeldIn(Machine, b)
    BY <2>2 DEF OwnIn, HeldIn, PendIn, OwnLine, Pending, LineUp
  <2>4. OwnIn(Machine', b) /\ PendIn(Machine', b)
    BY <2>2 DEF OwnIn, PendIn, OwnLine, Pending, IrqNumber, Conf, Enabled
  <2>5. IrqNumber(Machine', b) \in (Machine').lines
    BY <2>1, <2>2, <2>3, <2>4 DEF Step, HeldIn
  <2>. QED BY <2>2, <2>5 DEF LineUp, IrqNumber, Conf
<1>. QED BY <1>1, TimersAlways, PTL DEF Spec, PendingRaises

=============================================================================
