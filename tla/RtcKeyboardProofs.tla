------------------------- MODULE RtcKeyboardProofs -------------------------
(***************************************************************************)
(* Proofs about RtcKeyboard, for every size of the queue and of the        *)
(* keyboard's memory and for every guest.                                  *)
(***************************************************************************)
EXTENDS RtcKeyboard, TLAPS

Lines == {KEYBOARD_IRQ, RTC_IRQ, MOUSE_IRQ}
MACHINE == [ps2 : PS2, cmos : CMOS, timer0 : TIMER, lines : SUBSET Lines,
            exited : BOOLEAN]

\* What every handler keeps of a machine.
HasReason(m) == RTC_IRQ \in m.lines => "IRQF" \in m.cmos.StatC
Good(m) == m \in MACHINE /\ NotStranded(m.ps2) /\ HasReason(m)

-----------------------------------------------------------------------------
(***************************************************************************)
(* The machine as a record.                                                *)
(***************************************************************************)

\* Replacing the controller of a good machine by a good controller.
LEMMA PutPs2Good ==
    ASSUME NEW m, Good(m), NEW p \in PS2, NotStranded(p)
    PROVE  Good(PutPs2(m, p)) /\ PutPs2(m, p).ps2 = p
BY DEF Good, MACHINE, PutPs2, HasReason

\* Giving up changes nothing else.
LEMMA ExitGood ==
    ASSUME NEW m, Good(m)
    PROVE  Good(Exit(m)) /\ Exit(m).ps2 = m.ps2
BY DEF Good, MACHINE, Exit, HasReason

\* The lines of the controller go up and down freely.
LEMMA RaiseGood ==
    ASSUME NEW m, Good(m), NEW irqs \in SUBSET {KEYBOARD_IRQ, MOUSE_IRQ}
    PROVE  Good(PicRaise(m, irqs))
BY DEF Good, MACHINE, PicRaise, HasReason, Lines, KEYBOARD_IRQ, MOUSE_IRQ,
       RTC_IRQ
LEMMA LowerGood ==
    ASSUME NEW m, Good(m), NEW irq
    PROVE  Good(PicLower(m, irq))
BY DEF Good, MACHINE, PicLower, HasReason

\* Slot 0 is nobody's business here.
LEMMA TimerOps ==
    ASSUME NEW t \in TIMER, NEW b \in BOOLEAN
    PROVE  /\ TimerActivate(t, b) \in TIMER
           /\ TimerDeactivate(t) \in TIMER
           /\ TimerFired(t) \in TIMER
BY DEF TIMER, TimerActivate, TimerDeactivate, TimerFired
LEMMA SlotGood ==
    ASSUME NEW m, Good(m), NEW t \in TIMER
    PROVE  Good([m EXCEPT !.timer0 = t])
BY DEF Good, MACHINE, HasReason

-----------------------------------------------------------------------------
(***************************************************************************)
(* The controller as a record.                                             *)
(***************************************************************************)

\* Bits are bits.
LEMMA BitsType == \A v : Bits(v) \subseteq 0..7
BY DEF Bits

\* The sets the handlers build from the two registers.
LEMMA RegisterSets ==
    ASSUME NEW s \in SUBSET STATUS, NEW d \in SUBSET (0..7)
    PROVE  /\ (s \cup {"KB_BUFFER_FULL"}) \ {"MS_BUFFER_FULL"} \in SUBSET STATUS
           /\ s \cup {"KB_BUFFER_FULL", "MS_BUFFER_FULL"} \in SUBSET STATUS
           /\ s \cup {"KB_BUFFER_FULL"} \in SUBSET STATUS
           /\ d \cup {DATA_KB_INTERRUPT} \in SUBSET (0..7)
           /\ d \cup {DATA_MS_INTERRUPT} \in SUBSET (0..7)
BY DEF STATUS, DATA_KB_INTERRUPT, DATA_MS_INTERRUPT

LEMMA KeyboardByteFull ==
    ASSUME NEW p \in PS2
    PROVE  KeyboardByte(p) \in PS2 /\ Full(KeyboardByte(p))
<1> DEFINE s == (p.StatusRegister \cup {"KB_BUFFER_FULL"}) \ {"MS_BUFFER_FULL"}
           d == p.DataRegister \cup {DATA_KB_INTERRUPT}
<1>1. s \in SUBSET STATUS /\ d \in SUBSET (0..7)
  BY RegisterSets DEF PS2
<1>2. "KB_BUFFER_FULL" \in s
  OBVIOUS
<1>3. KeyboardByte(p) = [p EXCEPT !.StatusRegister = s, !.KeyboardBuffer = TRUE,
                                  !.DataRegister = d]
  BY DEF KeyboardByte
<1> HIDE DEF s, d
<1> QED
  BY <1>1, <1>2, <1>3 DEF PS2, Full
LEMMA MouseByteFull ==
    ASSUME NEW p \in PS2
    PROVE  MouseByte(p) \in PS2 /\ Full(MouseByte(p))
<1> DEFINE s == p.StatusRegister \cup {"KB_BUFFER_FULL", "MS_BUFFER_FULL"}
           d == p.DataRegister \cup {DATA_MS_INTERRUPT}
<1>1. s \in SUBSET STATUS /\ d \in SUBSET (0..7)
  BY RegisterSets DEF PS2
<1>2. "KB_BUFFER_FULL" \in s
  OBVIOUS
<1>3. MouseByte(p) = [p EXCEPT !.StatusRegister = s, !.DataRegister = d]
  BY DEF MouseByte
<1> HIDE DEF s, d
<1> QED
  BY <1>1, <1>2, <1>3 DEF PS2, Full

\* A full buffer strands nothing.
LEMMA FullNotStranded ==
    ASSUME NEW p, Full(p)
    PROVE  NotStranded(p)
BY DEF NotStranded

\* A byte is queued on a machine whose keyboard may be stranded: it is not
\* afterwards, unless nothing but the exit happened.
LEMMA QueueByteGood ==
    ASSUME NEW m, m \in MACHINE, HasReason(m), NEW d
    PROVE  Good(Ps2QueueByte(m, d))
<1> DEFINE p == m.ps2
<1>p. p \in PS2
  BY DEF MACHINE
<1>1. CASE ~Full(p)
  <2> DEFINE q == IF d = "keyboard" THEN KeyboardByte(p) ELSE MouseByte(p)
  <2>1. q \in PS2 /\ Full(q)
    BY <1>p, KeyboardByteFull, MouseByteFull
  <2>2. Ps2QueueByte(m, d) = PutPs2(m, q)
    BY <1>1 DEF Ps2QueueByte
  <2>3. NotStranded(q)
    BY <2>1, FullNotStranded
  <2> HIDE DEF q
  <2> QED
    BY <2>1, <2>2, <2>3 DEF Good, MACHINE, PutPs2, HasReason
<1>2. CASE Full(p) /\ p.ControllerQueueIndex < KBD_CONTROLLER_QSIZE
  <2> DEFINE q == [p EXCEPT !.ControllerQueueIndex = @ + 1]
  <2>1. q \in PS2 /\ Full(q)
    BY <1>p, <1>2, Ps2Assumption DEF PS2, Full
  <2>2. Ps2QueueByte(m, d) = PutPs2(m, q)
    BY <1>2 DEF Ps2QueueByte
  <2>3. NotStranded(q)
    BY <2>1, FullNotStranded
  <2> HIDE DEF q
  <2> QED
    BY <2>1, <2>2, <2>3 DEF Good, MACHINE, PutPs2, HasReason
<1>3. CASE Full(p) /\ ~(p.ControllerQueueIndex < KBD_CONTROLLER_QSIZE)
  <2>1. Ps2QueueByte(m, d) = Exit(m)
    BY <1>3 DEF Ps2QueueByte
  <2>2. NotStranded(m.ps2)
    BY <1>3, FullNotStranded
  <2> QED
    BY <2>1, <2>2, ExitGood DEF Good
<1> QED
  BY <1>1, <1>2, <1>3

-----------------------------------------------------------------------------
(***************************************************************************)
(* The handlers of the keyboard controller.                                *)
(***************************************************************************)

\* A controller whose timer is pending strands nothing.
LEMMA PendingNotStranded ==
    ASSUME NEW p, p.TimerPending = 1
    PROVE  NotStranded(p)
BY DEF NotStranded

\* Taking a byte out leaves the timer pending.
LEMMA TakeMouseOk ==
    ASSUME NEW p \in PS2
    PROVE  TakeMouse(p) \in PS2 /\ NotStranded(TakeMouse(p))
<1> DEFINE s == p.StatusRegister \ {"KB_BUFFER_FULL", "MS_BUFFER_FULL"}
           d == p.DataRegister \ {DATA_MS_INTERRUPT}
           q == [p EXCEPT !.StatusRegister = s, !.DataRegister = d,
                          !.TimerPending = 1]
           r == MouseByte(q)
<1>1. s \in SUBSET STATUS /\ d \in SUBSET (0..7)
  BY DEF PS2
<1>2. /\ q \in PS2 /\ q.TimerPending = 1
      /\ q.ControllerQueueIndex = p.ControllerQueueIndex
  <2> HIDE DEF s, d
  <2>0. 1 \in 0..1
    OBVIOUS
  <2>1. q \in PS2
    BY <1>1, <2>0, Zenon DEF PS2
  <2>2. q.TimerPending = 1 /\ q.ControllerQueueIndex = p.ControllerQueueIndex
    BY DEF PS2
  <2> QED BY <2>1, <2>2
<1>3. TakeMouse(p) = IF p.ControllerQueueIndex = 0 THEN q
                     ELSE [r EXCEPT !.ControllerQueueIndex = @ - 1]
  BY DEF TakeMouse
<1> HIDE DEF q
<1>4. /\ r \in PS2 /\ r.TimerPending = 1
      /\ r.ControllerQueueIndex = p.ControllerQueueIndex
  <2>1. r \in PS2
    BY <1>2, MouseByteFull
  <2>2. r.TimerPending = 1 /\ r.ControllerQueueIndex = p.ControllerQueueIndex
    BY <1>2 DEF MouseByte, PS2
  <2> QED BY <2>1, <2>2
<1> HIDE DEF r
<1>5. CASE p.ControllerQueueIndex = 0
  BY <1>2, <1>3, <1>5, PendingNotStranded
<1>6. CASE p.ControllerQueueIndex # 0
  <2> DEFINE t == [r EXCEPT !.ControllerQueueIndex = @ - 1]
  <2>1. p.ControllerQueueIndex \in 1..KBD_CONTROLLER_QSIZE
    BY <1>6, Ps2Assumption DEF PS2
  <2>2. t \in PS2 /\ t.TimerPending = 1
    BY <1>4, <2>1, Ps2Assumption DEF PS2
  <2> HIDE DEF t
  <2> QED BY <1>3, <1>6, <2>2, PendingNotStranded DEF t
<1> QED BY <1>5, <1>6
LEMMA TakeKeyboardOk ==
    ASSUME NEW p \in PS2
    PROVE  TakeKeyboard(p) \in PS2 /\ NotStranded(TakeKeyboard(p))
<1> DEFINE s == p.StatusRegister \ {"KB_BUFFER_FULL", "MS_BUFFER_FULL"}
           d == p.DataRegister \ {DATA_KB_INTERRUPT}
           q == [p EXCEPT !.StatusRegister = s, !.DataRegister = d,
                          !.KeyboardBuffer = FALSE, !.TimerPending = 1]
           r == KeyboardByte(q)
<1>1. s \in SUBSET STATUS /\ d \in SUBSET (0..7)
  BY DEF PS2
<1>2. /\ q \in PS2 /\ q.TimerPending = 1
      /\ q.ControllerQueueIndex = p.ControllerQueueIndex
  <2> HIDE DEF s, d
  <2>0. 1 \in 0..1
    OBVIOUS
  <2>1. q \in PS2
    BY <1>1, <2>0, Zenon DEF PS2
  <2>2. q.TimerPending = 1 /\ q.ControllerQueueIndex = p.ControllerQueueIndex
    BY DEF PS2
  <2> QED BY <2>1, <2>2
<1>3. TakeKeyboard(p) = IF p.ControllerQueueIndex = 0 THEN q
                        ELSE [r EXCEPT !.ControllerQueueIndex = @ - 1]
  BY DEF TakeKeyboard
<1> HIDE DEF q
<1>4. /\ r \in PS2 /\ r.TimerPending = 1
      /\ r.ControllerQueueIndex = p.ControllerQueueIndex
  <2>1. r \in PS2
    BY <1>2, KeyboardByteFull
  <2>2. r.TimerPending = 1 /\ r.ControllerQueueIndex = p.ControllerQueueIndex
    BY <1>2 DEF KeyboardByte, PS2
  <2> QED BY <2>1, <2>2
<1> HIDE DEF r
<1>5. CASE p.ControllerQueueIndex = 0
  BY <1>2, <1>3, <1>5, PendingNotStranded
<1>6. CASE p.ControllerQueueIndex # 0
  <2> DEFINE t == [r EXCEPT !.ControllerQueueIndex = @ - 1]
  <2>1. p.ControllerQueueIndex \in 1..KBD_CONTROLLER_QSIZE
    BY <1>6, Ps2Assumption DEF PS2
  <2>2. t \in PS2 /\ t.TimerPending = 1
    BY <1>4, <2>1, Ps2Assumption DEF PS2
  <2> HIDE DEF t
  <2> QED BY <1>3, <1>6, <2>2, PendingNotStranded DEF t
<1> QED BY <1>5, <1>6

LEMMA ReadDataGood ==
    ASSUME NEW m, Good(m)
    PROVE  Good(ReadData(m))
<1>p. m.ps2 \in PS2
  BY DEF Good, MACHINE
<1>1. Good(PicLower(PutPs2(m, TakeMouse(m.ps2)), MOUSE_IRQ))
  BY <1>p, TakeMouseOk, PutPs2Good, LowerGood
<1>2. Good(PicLower(PutPs2(m, TakeKeyboard(m.ps2)), KEYBOARD_IRQ))
  BY <1>p, TakeKeyboardOk, PutPs2Good, LowerGood
<1> QED
  BY <1>1, <1>2 DEF ReadData

\* Bytes that go to the keyboard's memory.
LEMMA WriteMemoryOk ==
    ASSUME NEW p \in PS2, NotStranded(p), NEW n \in Nat
    PROVE  /\ Ps2WriteKeyboardMemory(p, n) \in PS2
           /\ NotStranded(Ps2WriteKeyboardMemory(p, n))
<1> DEFINE room == KEYBOARD_MEMORY_SIZE - p.KeyboardMemoryIndex
           stored == IF n < room THEN n ELSE room
           k == p.KeyboardMemoryIndex + stored
           t == IF ~Full(p) /\ p.KeyboardClockEnabled THEN 1 ELSE p.TimerPending
           q == [p EXCEPT !.KeyboardMemoryIndex = k, !.TimerPending = t]
<1>1. k \in 0..KEYBOARD_MEMORY_SIZE
  <2>1. p.KeyboardMemoryIndex \in 0..KEYBOARD_MEMORY_SIZE
    BY DEF PS2
  <2> QED BY <2>1, Ps2Assumption
<1>2. t \in 0..1
  BY DEF PS2
<1>3. Ps2WriteKeyboardMemory(p, n) = IF stored = 0 THEN p ELSE q
  BY DEF Ps2WriteKeyboardMemory
<1>4. q \in PS2
  <2> HIDE DEF k, t
  <2> QED BY <1>1, <1>2 DEF PS2
<1>5. NotStranded(q)
  <2>1. q.TimerPending = t /\ q.KeyboardClockEnabled = p.KeyboardClockEnabled
    BY DEF PS2
  <2>2. Full(q) <=> Full(p)
    BY DEF PS2, Full
  <2> QED BY <2>1, <2>2 DEF NotStranded
<1> HIDE DEF stored, q
<1> QED BY <1>3, <1>4, <1>5

LEMMA ScancodeGood ==
    ASSUME NEW m, Good(m), NEW n \in Nat
    PROVE  Good(Ps2GenerateScancode(m, n))
<1>1. m.ps2 \in PS2 /\ NotStranded(m.ps2)
  BY DEF Good, MACHINE
<1> QED
  BY <1>1, WriteMemoryOk, PutPs2Good DEF Ps2GenerateScancode

\* A reset forgets the keyboard's memory.
LEMMA ResetOk ==
    ASSUME NEW p \in PS2
    PROVE  Ps2KeyboardReset(p) \in PS2 /\ NotStranded(Ps2KeyboardReset(p))
<1> DEFINE s == p.StatusRegister \ {"KB_BUFFER_FULL"}
           q == [p EXCEPT !.KeyboardMemoryIndex = 0, !.ScanCodeEnabled = FALSE,
                          !.StatusRegister = s]
<1>1. s \in SUBSET STATUS
  BY DEF PS2
<1>2. q \in PS2 /\ q.KeyboardMemoryIndex = 0
  <2> HIDE DEF s
  <2>1. 0 \in 0..KEYBOARD_MEMORY_SIZE
    BY Ps2Assumption
  <2>2. q \in PS2
    BY <1>1, <2>1 DEF PS2
  <2>3. q.KeyboardMemoryIndex = 0
    BY DEF PS2
  <2> QED BY <2>2, <2>3
<1>3. Ps2KeyboardReset(p) = q
  BY DEF Ps2KeyboardReset
<1> HIDE DEF q
<1> QED BY <1>2, <1>3 DEF NotStranded

LEMMA ScanCodeOk ==
    ASSUME NEW p \in PS2, NotStranded(p), NEW b \in BOOLEAN
    PROVE  /\ [p EXCEPT !.ScanCodeEnabled = b] \in PS2
           /\ NotStranded([p EXCEPT !.ScanCodeEnabled = b])
BY DEF PS2, NotStranded, Full

LEMMA SendKeyboardGood ==
    ASSUME NEW m, Good(m), NEW v
    PROVE  Good(Ps2SendKeyboard(m, v))
<1> DEFINE p == m.ps2
           on == [p EXCEPT !.ScanCodeEnabled = TRUE]
           off == [p EXCEPT !.ScanCodeEnabled = FALSE]
<1>0. p \in PS2 /\ NotStranded(p) /\ m \in MACHINE /\ HasReason(m)
  BY DEF Good, MACHINE
<1>1. /\ on \in PS2 /\ NotStranded(on)
      /\ off \in PS2 /\ NotStranded(off)
  BY <1>0, ScanCodeOk
<1>2. Replies(v) \in Nat
  BY DEF Replies
<1> HIDE DEF on, off
<1>3. Good(PutPs2(m, Ps2WriteKeyboardMemory(off, IF v = 0 THEN 2 ELSE 1)))
  BY <1>1, WriteMemoryOk, PutPs2Good
<1>4. Good(PutPs2(m, Ps2WriteKeyboardMemory(on, 1)))
  BY <1>1, WriteMemoryOk, PutPs2Good
<1>5. Good(PutPs2(m, Ps2WriteKeyboardMemory(Ps2KeyboardReset(p), Replies(v))))
  BY <1>0, <1>2, ResetOk, WriteMemoryOk, PutPs2Good
<1>6. Good(PutPs2(m, Ps2WriteKeyboardMemory(p, Replies(v))))
  BY <1>0, <1>2, WriteMemoryOk, PutPs2Good
<1>7. Good(Ps2QueueByte(m, "keyboard"))
  BY <1>0, QueueByteGood
<1> QED
  BY <1>3, <1>4, <1>5, <1>6, <1>7 DEF Ps2SendKeyboard, on, off

\* A clock that starts over an empty buffer leaves the timer pending.
LEMMA AwakeOk ==
    ASSUME NEW p \in PS2, NotStranded(p), NEW w \in BOOLEAN
    PROVE  /\ Awake(p, w) \in PS2
           /\ NotStranded(Awake(p, w))
           /\ Full(Awake(p, w)) <=> Full(p)
           /\ w => Awake(p, w).TimerPending = 1
<1> DEFINE t == IF w THEN 1 ELSE p.TimerPending
           q == [p EXCEPT !.TimerPending = t]
<1>1. t \in 0..1
  BY DEF PS2
<1>2. Awake(p, w) = q
  BY DEF Awake
<1>3. q \in PS2 /\ q.TimerPending = t
  <2> HIDE DEF t
  <2> QED BY <1>1 DEF PS2
<1>4. Full(q) <=> Full(p)
  BY DEF PS2, Full
<1>5. NotStranded(q)
  BY <1>4 DEF PS2, NotStranded
<1> QED BY <1>2, <1>3, <1>4, <1>5
LEMMA KeyboardClockOk ==
    ASSUME NEW p \in PS2, NotStranded(p), NEW on \in BOOLEAN
    PROVE  /\ Ps2EnableKeyboardClock(p, on) \in PS2
           /\ NotStranded(Ps2EnableKeyboardClock(p, on))
<1> DEFINE w == on /\ ~Full(p) /\ ~p.KeyboardClockEnabled
           a == Awake(p, w)
           q == [a EXCEPT !.KeyboardClockEnabled = on]
<1>1. a \in PS2 /\ NotStranded(a) /\ (Full(a) <=> Full(p))
      /\ (w => a.TimerPending = 1)
  BY AwakeOk
<1>2. a.KeyboardClockEnabled = p.KeyboardClockEnabled
  BY DEF Awake, PS2
<1>3. Ps2EnableKeyboardClock(p, on) = q
  BY DEF Ps2EnableKeyboardClock
<1> HIDE DEF a
<1>4. q \in PS2
  BY <1>1 DEF PS2
<1>5. NotStranded(q)
  <2>1. /\ q.KeyboardClockEnabled = on /\ q.TimerPending = a.TimerPending
        /\ q.KeyboardMemoryIndex = a.KeyboardMemoryIndex
        /\ q.StatusRegister = a.StatusRegister
    BY <1>1 DEF PS2
  <2> QED BY <1>1, <1>2, <2>1 DEF NotStranded, Full
<1> QED BY <1>3, <1>4, <1>5
LEMMA MouseClockGood ==
    ASSUME NEW m, Good(m), NEW on \in BOOLEAN
    PROVE  Good(Ps2EnableMouseClock(m, on))
<1> DEFINE p == m.ps2
           w == on /\ ~Full(p) /\ ~p.MouseClockEnabled
           a == Awake(p, w)
           q == [a EXCEPT !.MouseClockEnabled = on]
           t == IF w THEN TimerActivate(m.timer0, TRUE) ELSE m.timer0
<1>0. p \in PS2 /\ NotStranded(p) /\ m.timer0 \in TIMER
  BY DEF Good, MACHINE
<1>1. a \in PS2 /\ NotStranded(a)
  BY <1>0, AwakeOk
<1>2. t \in TIMER
  BY <1>0, TimerOps
<1> HIDE DEF a, t
<1>3. q \in PS2
  BY <1>1 DEF PS2
<1>4. NotStranded(q)
  BY <1>1 DEF PS2, NotStranded, Full
<1>5. Ps2EnableMouseClock(m, on) = [m EXCEPT !.ps2 = q, !.timer0 = t]
  BY DEF Ps2EnableMouseClock, a, t
<1> HIDE DEF q
<1> QED
  BY <1>2, <1>3, <1>4, <1>5 DEF Good, MACHINE, HasReason

LEMMA SetModeGood ==
    ASSUME NEW m, Good(m), NEW v
    PROVE  Good(SetMode(m, v))
<1> DEFINE b == Bits(v)
           o == [m.ps2 EXCEPT !.DataRegister = b]
           p == Ps2EnableKeyboardClock(o, DATA_DISABLE_KEYBOARD \notin b)
           n == PutPs2(m, p)
<1>0. m.ps2 \in PS2 /\ NotStranded(m.ps2) /\ b \in SUBSET (0..7)
  BY BitsType DEF Good, MACHINE
<1>1. SetMode(m, v) = Ps2EnableMouseClock(n, DATA_DISABLE_MOUSE \notin b)
  BY DEF SetMode
<1> HIDE DEF b
<1>2. o \in PS2 /\ NotStranded(o)
  BY <1>0 DEF PS2, NotStranded, Full
<1> HIDE DEF o
<1>3. p \in PS2 /\ NotStranded(p)
  BY <1>2, KeyboardClockOk
<1> HIDE DEF p
<1>4. Good(n)
  BY <1>3, PutPs2Good
<1> HIDE DEF n
<1> QED BY <1>1, <1>4, MouseClockGood

LEMMA OperandGood ==
    ASSUME NEW m, Good(m), NEW v
    PROVE  Good(Operand(m, v))
<1>1. \A d : Good(Ps2QueueByte(m, d))
  BY QueueByteGood DEF Good
<1>2. Good(SetMode(m, v))
  BY SetModeGood
<1> QED BY <1>1, <1>2 DEF Operand

LEMMA EndCommandOk ==
    ASSUME NEW p \in PS2, NotStranded(p)
    PROVE  EndCommand(p) \in PS2 /\ NotStranded(EndCommand(p))
<1> DEFINE s == p.StatusRegister \ {"COMMAND_LAST"}
           q == [p EXCEPT !.CommandBuffer = 0, !.StatusRegister = s]
<1>1. s \in SUBSET STATUS /\ ("KB_BUFFER_FULL" \in s <=> Full(p))
  BY DEF PS2, Full
<1>2. EndCommand(p) = q
  BY DEF EndCommand
<1> HIDE DEF s
<1>3. 0 \in Byte
  BY DEF Byte
<1>4. q \in PS2
  BY <1>1, <1>3 DEF PS2
<1>5. NotStranded(q)
  BY <1>1 DEF PS2, NotStranded, Full
<1> QED BY <1>2, <1>4, <1>5

LEMMA WriteDataGood ==
    ASSUME NEW m, Good(m), NEW v
    PROVE  Good(WriteData(m, v))
<1> DEFINE n == IF "COMMAND_LAST" \in m.ps2.StatusRegister THEN Operand(m, v)
                ELSE Ps2SendKeyboard(m, v)
<1>1. Good(n)
  BY OperandGood, SendKeyboardGood
<1>2. WriteData(m, v) = PutPs2(n, EndCommand(n.ps2))
  BY DEF WriteData
<1> HIDE DEF n
<1>3. n.ps2 \in PS2 /\ NotStranded(n.ps2)
  BY <1>1 DEF Good, MACHINE
<1> QED BY <1>1, <1>2, <1>3, EndCommandOk, PutPs2Good

\* The self test may strand the keyboard for a moment, and then fills the
\* buffer.
LEMMA TestControllerGood ==
    ASSUME NEW m, Good(m)
    PROVE  Good(TestController(m))
<1> DEFINE p == Emptied(m.ps2)
           q == Tested(p)
<1>0. m.ps2 \in PS2 /\ m \in MACHINE /\ HasReason(m)
  BY DEF Good, MACHINE
<1>1. p \in PS2
  <2> DEFINE s == m.ps2.StatusRegister \ {"KB_BUFFER_FULL"}
             e == [m.ps2 EXCEPT !.StatusRegister = s, !.ControllerQueueIndex = 0]
  <2>1. s \in SUBSET STATUS
    BY <1>0 DEF PS2
  <2>2. 0 \in 0..KBD_CONTROLLER_QSIZE
    BY Ps2Assumption
  <2>3. e \in PS2
    <3> HIDE DEF s
    <3> QED BY <1>0, <2>1, <2>2 DEF PS2
  <2>4. p = m.ps2 \/ p = e
    BY DEF Emptied
  <2> HIDE DEF e
  <2> QED BY <1>0, <2>3, <2>4
<1>2. q \in PS2
  <2> DEFINE s == p.StatusRegister \cup {"SYSTEM_TEST"}
  <2> HIDE DEF p
  <2>1. s \in SUBSET STATUS
    BY <1>1 DEF PS2, STATUS
  <2>2. q = [p EXCEPT !.StatusRegister = s]
    BY DEF Tested
  <2> HIDE DEF s
  <2> QED BY <1>1, <2>1, <2>2 DEF PS2
<1>3. TestController(m) = IF Full(p) THEN PutPs2(m, p)
                          ELSE Ps2QueueByte(PutPs2(m, q), "keyboard")
  BY DEF TestController
<1> HIDE DEF p, q
<1>4. CASE Full(p)
  BY <1>1, <1>3, <1>4, FullNotStranded, PutPs2Good
<1>5. CASE ~Full(p)
  <2>1. PutPs2(m, q) \in MACHINE /\ HasReason(PutPs2(m, q))
    BY <1>0, <1>2 DEF PutPs2, MACHINE, HasReason
  <2> QED BY <1>3, <1>5, <2>1, QueueByteGood
<1> QED BY <1>4, <1>5

LEMMA WriteCommandGood ==
    ASSUME NEW m, Good(m), NEW v \in Byte
    PROVE  Good(WriteCommand(m, v))
<1> DEFINE p == m.ps2
           s == p.StatusRegister \cup {"COMMAND_LAST"}
           q == [p EXCEPT !.CommandBuffer = v, !.StatusRegister = s]
<1>0. p \in PS2 /\ NotStranded(p) /\ m \in MACHINE /\ HasReason(m)
  BY DEF Good, MACHINE
<1>1. Good(PutPs2(m, q))
  <2>1. s \in SUBSET STATUS /\ ("KB_BUFFER_FULL" \in s <=> Full(p))
    BY <1>0 DEF PS2, STATUS, Full
  <2> HIDE DEF s
  <2>2. q \in PS2
    BY <1>0, <2>1 DEF PS2
  <2>3. NotStranded(q)
    BY <1>0, <2>1 DEF PS2, NotStranded, Full
  <2> QED BY <2>2, <2>3, PutPs2Good
<1>2. \A d : Good(Ps2QueueByte(m, d))
  BY <1>0, QueueByteGood
<1>3. \A d : Good(TestPort(m, d))
  BY <1>2, ExitGood DEF TestPort
<1>4. \A b \in BOOLEAN : Good(Ps2EnableMouseClock(m, b))
  BY MouseClockGood
<1>5. \A b \in BOOLEAN : Good(PutPs2(m, Ps2EnableKeyboardClock(p, b)))
  BY <1>0, KeyboardClockOk, PutPs2Good
<1>6. Good(TestController(m))
  BY TestControllerGood
<1> QED
  BY <1>1, <1>2, <1>3, <1>4, <1>5, <1>6 DEF WriteCommand

\* The timer takes the next byte whenever one waits for it.
LEMMA TimerPeriodicOk ==
    ASSUME NEW p \in PS2, NotStranded(p)
    PROVE  Ps2TimerPeriodic(p) \in PS2 /\ NotStranded(Ps2TimerPeriodic(p))
<1> DEFINE d == p.DataRegister \ {DATA_KB_INTERRUPT, DATA_MS_INTERRUPT}
           q == [p EXCEPT !.DataRegister = d, !.TimerPending = 0]
<1>1. d \in SUBSET (0..7) /\ 0 \in 0..1
  BY DEF PS2
<1>2. Ps2TimerPeriodic(p) = IF Loads(p) THEN Loaded(q) ELSE q
  BY DEF Ps2TimerPeriodic
<1> HIDE DEF d
<1>3. q \in PS2
  BY <1>1, Zenon DEF PS2
<1>4. /\ q.StatusRegister = p.StatusRegister
      /\ q.KeyboardMemoryIndex = p.KeyboardMemoryIndex
      /\ q.KeyboardClockEnabled = p.KeyboardClockEnabled
  BY DEF PS2
<1> HIDE DEF q
<1>5. CASE Loads(p)
  <2> DEFINE s == q.StatusRegister \cup {"KB_BUFFER_FULL"}
             e == q.DataRegister \cup {DATA_KB_INTERRUPT}
             k == q.KeyboardMemoryIndex - 1
             r == [q EXCEPT !.StatusRegister = s, !.KeyboardBuffer = TRUE,
                            !.DataRegister = e, !.KeyboardMemoryIndex = k]
  <2>1. s \in SUBSET STATUS /\ e \in SUBSET (0..7) /\ "KB_BUFFER_FULL" \in s
    BY <1>3, RegisterSets DEF PS2
  <2>2. k \in 0..KEYBOARD_MEMORY_SIZE
    BY <1>3, <1>4, <1>5, Ps2Assumption DEF PS2, Loads
  <2>3. Loaded(q) = r
    BY DEF Loaded
  <2> HIDE DEF s, e, k
  <2>4. r \in PS2
    BY <1>3, <2>1, <2>2, Zenon DEF PS2
  <2>5. Full(r)
    BY <1>3, <2>1 DEF PS2, Full
  <2> HIDE DEF r
  <2> QED BY <1>2, <1>5, <2>3, <2>4, <2>5, FullNotStranded
<1>6. CASE ~Loads(p)
  <2>1. NotStranded(q)
    <3>1. SUFFICES ASSUME q.KeyboardMemoryIndex > 0, q.KeyboardClockEnabled,
                          ~Full(q)
                   PROVE  FALSE
      BY DEF NotStranded
    <3>2. p.TimerPending = 1
      BY <1>4, <3>1 DEF NotStranded, Full
    <3> QED BY <1>4, <1>6, <3>1, <3>2 DEF Loads, Full
  <2> QED BY <1>2, <1>3, <1>6, <2>1
<1> QED BY <1>5, <1>6

LEMMA Ps2TimerGood ==
    ASSUME NEW m, Good(m)
    PROVE  Good(Ps2TimerHandler(m))
<1> DEFINE n == PutPs2(m, Ps2TimerPeriodic(m.ps2))
<1>1. m.ps2 \in PS2 /\ NotStranded(m.ps2)
  BY DEF Good, MACHINE
<1>2. Good(n)
  BY <1>1, TimerPeriodicOk, PutPs2Good
<1> HIDE DEF n
<1>3. PICK irqs \in SUBSET {KEYBOARD_IRQ, MOUSE_IRQ} :
          Ps2TimerHandler(m) = PicRaise(n, irqs)
  BY DEF Ps2TimerHandler, n
<1> QED BY <1>2, <1>3, RaiseGood

-----------------------------------------------------------------------------
(***************************************************************************)
(* The handlers of the clock.                                              *)
(***************************************************************************)

\* Replacing the clock's registers without losing a reason.
LEMMA PutCmosGood ==
    ASSUME NEW m, Good(m), NEW c \in CMOS,
           "IRQF" \in m.cmos.StatC => "IRQF" \in c.StatC
    PROVE  Good(PutCmos(m, c)) /\ PutCmos(m, c).cmos = c
BY DEF Good, MACHINE, PutCmos, HasReason

LEMMA UpdateClockOk ==
    ASSUME NEW c \in CMOS
    PROVE  /\ CmosUpdateClock(c) \in CMOS
           /\ CmosUpdateClock(c).StatC = c.StatC
BY DEF CMOS, CmosUpdateClock

LEMMA UpdateTimevalOk ==
    ASSUME NEW c \in CMOS
    PROVE  /\ CmosUpdateTimeval(c) \in CMOS
           /\ CmosUpdateTimeval(c).StatC = c.StatC
BY DEF CMOS, CmosUpdateTimeval

\* The line goes up together with its reason.
LEMMA InterruptGood ==
    ASSUME NEW m, Good(m), NEW f \in SUBSET {"UF", "AF"}
    PROVE  Good(Interrupt(m, f))
<1> DEFINE c == Flag(m.cmos, f)
           n == PutCmos(m, c)
<1>0. m.cmos \in CMOS
  BY DEF Good, MACHINE
<1>1. /\ c \in CMOS
      /\ "IRQF" \in m.cmos.StatC => "IRQF" \in c.StatC
      /\ f # {} => "IRQF" \in c.StatC
  <2> DEFINE s == m.cmos.StatC \cup f \cup {"IRQF"}
  <2>1. s \in SUBSET {"IRQF", "AF", "UF"} /\ "IRQF" \in s
    BY <1>0 DEF CMOS
  <2>2. c = IF f = {} THEN m.cmos ELSE [m.cmos EXCEPT !.StatC = s]
    BY DEF Flag
  <2> HIDE DEF s, c
  <2>3. CASE f = {}
    BY <1>0, <2>2, <2>3
  <2>4. CASE f # {}
    BY <1>0, <2>1, <2>2, <2>4 DEF CMOS
  <2> QED BY <2>3, <2>4
<1> HIDE DEF c
<1>2. Good(n) /\ n.cmos = c
  BY <1>1, PutCmosGood
<1>3. Interrupt(m, f) = IF f # {} /\ m.cmos.InterruptEnabled
                        THEN PicRaise(n, {RTC_IRQ}) ELSE n
  BY DEF Interrupt, c
<1> HIDE DEF n
<1>4. f # {} => Good(PicRaise(n, {RTC_IRQ}))
  BY <1>1, <1>2 DEF Good, MACHINE, PicRaise, HasReason, Lines
<1> QED BY <1>2, <1>3, <1>4

LEMMA UipTimerGood ==
    ASSUME NEW m, Good(m), NEW alarm
    PROVE  Good(CmosUipTimer(m, alarm))
<1> DEFINE n == PutCmos(m, CmosUpdateClock(m.cmos))
<1>0. m.cmos \in CMOS
  BY DEF Good, MACHINE
<1>1. Good(n)
  BY <1>0, UpdateClockOk, PutCmosGood
<1> HIDE DEF n
<1>2. PICK f \in SUBSET {"UF", "AF"} : CmosUipTimer(m, alarm) = Interrupt(n, f)
  BY DEF CmosUipTimer, n
<1> QED BY <1>1, <1>2, InterruptGood

LEMMA SetInterruptGood ==
    ASSUME NEW m, Good(m), NEW on \in BOOLEAN
    PROVE  Good(CmosSetInterrupt(m, on))
<1> DEFINE c == [m.cmos EXCEPT !.InterruptEnabled = on]
<1>1. c \in CMOS /\ c.StatC = m.cmos.StatC
  BY DEF Good, MACHINE, CMOS
<1>2. CmosSetInterrupt(m, on) = PutCmos(m, c)
  BY DEF CmosSetInterrupt
<1> HIDE DEF c
<1> QED BY <1>1, <1>2, PutCmosGood

\* Reading register C takes reason and line together.
LEMMA CmosReadGood ==
    ASSUME NEW m, Good(m)
    PROVE  Good(CmosRead(m))
<1> DEFINE c == [m.cmos EXCEPT !.StatC = {}]
<1>1. c \in CMOS
  BY DEF Good, MACHINE, CMOS
<1>2. ReadStatC(m) = PicLower(PutCmos(m, c), RTC_IRQ)
  BY DEF ReadStatC
<1> HIDE DEF c
<1>3. Good(ReadStatC(m))
  BY <1>1, <1>2 DEF Good, MACHINE, PutCmos, PicLower, HasReason
<1> QED BY <1>3 DEF CmosRead

LEMMA PeriodicGood ==
    ASSUME NEW m, Good(m), NEW on
    PROVE  Good(Periodic(m, on))
<1> DEFINE t == IF on THEN TimerActivate(m.timer0, FALSE)
                ELSE TimerDeactivate(m.timer0)
<1>1. t \in TIMER
  BY TimerOps DEF Good, MACHINE
<1>2. Periodic(m, on) = [m EXCEPT !.timer0 = t]
  BY DEF Periodic
<1> HIDE DEF t
<1> QED BY <1>1, <1>2, SlotGood

LEMMA CraChangeGood ==
    ASSUME NEW m, Good(m), NEW v
    PROVE  Good(CraChange(m, v))
<1> DEFINE r == v % 16 # 0
           d == Bits(v) \cap {5, 6} # {}
           c == [m.cmos EXCEPT !.Rate = r, !.Divider = d]
<1>0. r \in BOOLEAN /\ d \in BOOLEAN
  OBVIOUS
<1>2. CraChange(m, v) =
          Periodic(PutCmos(m, c), c.Rate /\ c.Divider /\ PERIODIC \in c.StatB)
  BY DEF CraChange
<1> HIDE DEF r, d
<1>1. c \in CMOS /\ c.StatC = m.cmos.StatC
  BY <1>0 DEF Good, MACHINE, CMOS
<1> HIDE DEF c
<1>3. Good(PutCmos(m, c))
  BY <1>1, PutCmosGood
<1> QED BY <1>2, <1>3, PeriodicGood

LEMMA CrbChangeGood ==
    ASSUME NEW m, Good(m), NEW v
    PROVE  Good(CrbChange(m, v))
<1> DEFINE c == m.cmos
           b == NewB(v)
           mode == Changed(c, b, HOURS24) \/ Changed(c, b, BINARY)
           shown == IF mode THEN CmosUpdateClock(c) ELSE c
           ends == SET \in c.StatB /\ SET \notin b /\ c.timeval_change
           kept == IF ends THEN CmosUpdateTimeval(shown) ELSE shown
           ch == kept.timeval_change /\ ~ends
           e == [kept EXCEPT !.StatB = b, !.timeval_change = ch]
           n == PutCmos(m, e)
<1>0. c \in CMOS
  BY DEF Good, MACHINE
<1>1. b \in SUBSET (0..7)
  BY BitsType DEF NewB
<1>2. shown \in CMOS /\ shown.StatC = c.StatC
  BY <1>0, UpdateClockOk
<1>3. \/ CrbChange(m, v) = n
      \/ \E on : CrbChange(m, v) = Periodic(n, on)
  BY DEF CrbChange
<1> HIDE DEF b, shown
<1>21. kept \in CMOS /\ kept.StatC = c.StatC
  BY <1>2, UpdateTimevalOk
<1> HIDE DEF kept
<1>4. ch \in BOOLEAN
  OBVIOUS
<1> HIDE DEF ch
<1>5. e \in CMOS /\ e.StatC = c.StatC
  BY <1>1, <1>21, <1>4 DEF CMOS
<1> HIDE DEF e
<1>6. Good(n)
  BY <1>5, PutCmosGood
<1> HIDE DEF n
<1> QED BY <1>3, <1>6, PeriodicGood

LEMMA CmosWriteGood ==
    ASSUME NEW m, Good(m), NEW v
    PROVE  Good(CmosWrite(m, v))
<1>1. Good(PutCmos(m, WriteTime(m.cmos)))
  <2> DEFINE c == [m.cmos EXCEPT !.Time = "guest", !.timeval_change = TRUE]
  <2>1. m.cmos \in CMOS
    BY DEF Good, MACHINE
  <2>2. c \in CMOS /\ c.StatC = m.cmos.StatC
    BY <2>1 DEF CMOS
  <2>3. WriteTime(m.cmos) \in {c, CmosUpdateTimeval(m.cmos)}
    BY DEF WriteTime
  <2> HIDE DEF c
  <2> QED BY <2>1, <2>2, <2>3, UpdateTimevalOk, PutCmosGood
<1> QED
  BY <1>1, CraChangeGood, CrbChangeGood DEF CmosWrite

LEMMA CmosSelectGood ==
    ASSUME NEW m, Good(m), NEW a \in 0..127
    PROVE  Good(CmosSelect(m, a))
<1> DEFINE c == [m.cmos EXCEPT !.CmosAddress = a]
<1>1. c \in CMOS /\ c.StatC = m.cmos.StatC
  BY DEF Good, MACHINE, CMOS
<1>2. CmosSelect(m, a) = PutCmos(m, c)
  BY DEF CmosSelect
<1> HIDE DEF c
<1> QED BY <1>1, <1>2, PutCmosGood

-----------------------------------------------------------------------------
(***************************************************************************)
(* What a step leaves in step: the output side of the controller, and slot *)
(* 0 with the clock's registers.                                           *)
(***************************************************************************)

\* The output side and the mouse's clock are left alone.
SameOutput(p, q) ==
    /\ Full(q) <=> Full(p)
    /\ HoldsMouse(q) <=> HoldsMouse(p)
    /\ q.ControllerQueueIndex = p.ControllerQueueIndex
    /\ q.KeyboardBuffer = p.KeyboardBuffer
    /\ q.MouseClockEnabled = p.MouseClockEnabled

\* The controller p has become q with the output side still coherent, without
\* having heard of the mouse's clock.
Tidy(p, q) ==
    /\ Coherent(p) => Coherent(q)
    /\ q.MouseClockEnabled = p.MouseClockEnabled

\* The clock is left alone, and so is its slot unless the mouse's clock has
\* been switched on.
Calm(m, n) ==
    /\ n.cmos = m.cmos
    /\ \/ n.timer0 = m.timer0
       \/ n.ps2.MouseClockEnabled /\ ~m.ps2.MouseClockEnabled

LEMMA SameOutputTidy ==
    ASSUME NEW p, NEW q, SameOutput(p, q)
    PROVE  Tidy(p, q)
BY DEF SameOutput, Tidy, Coherent

LEMMA TidySteps ==
    ASSUME NEW p, NEW q, NEW r, SameOutput(p, q), Tidy(q, r)
    PROVE  Tidy(p, r)
BY DEF SameOutput, Tidy, Coherent

\* What replacing the controller leaves alone.
LEMMA PutPs2Parts ==
    ASSUME NEW m, Good(m), NEW p
    PROVE  /\ PutPs2(m, p).ps2 = p
           /\ PutPs2(m, p).cmos = m.cmos
           /\ PutPs2(m, p).timer0 = m.timer0
           /\ PutPs2(m, p).lines = m.lines
           /\ PutPs2(m, p).exited = m.exited
BY DEF Good, MACHINE, PutPs2

\* A tidy change of the controller alone is calm.
LEMMA PutPs2Calm ==
    ASSUME NEW m, Good(m), NEW p, Tidy(m.ps2, p)
    PROVE  Tidy(m.ps2, PutPs2(m, p).ps2) /\ Calm(m, PutPs2(m, p))
BY PutPs2Parts DEF Calm

LEMMA LinesCalm ==
    ASSUME NEW m, Good(m), NEW n, n \in MACHINE, Tidy(m.ps2, n.ps2), Calm(m, n),
           NEW irqs, NEW irq
    PROVE  /\ Tidy(m.ps2, PicRaise(n, irqs).ps2) /\ Calm(m, PicRaise(n, irqs))
           /\ Tidy(m.ps2, PicLower(n, irq).ps2) /\ Calm(m, PicLower(n, irq))
<1>1. /\ PicRaise(n, irqs).ps2 = n.ps2 /\ PicRaise(n, irqs).cmos = n.cmos
      /\ PicRaise(n, irqs).timer0 = n.timer0
  BY DEF MACHINE, PicRaise
<1>2. /\ PicLower(n, irq).ps2 = n.ps2 /\ PicLower(n, irq).cmos = n.cmos
      /\ PicLower(n, irq).timer0 = n.timer0
  BY DEF MACHINE, PicLower
<1> QED BY <1>1, <1>2 DEF Calm

\* A keyboard byte is where port 60h returns it, whatever was there.
LEMMA KeyboardByteTidy ==
    ASSUME NEW p \in PS2
    PROVE  Coherent(KeyboardByte(p)) /\ Tidy(p, KeyboardByte(p))
<1> DEFINE s == (p.StatusRegister \cup {"KB_BUFFER_FULL"}) \ {"MS_BUFFER_FULL"}
           q == KeyboardByte(p)
<1>1. /\ q.StatusRegister = s /\ q.KeyboardBuffer = TRUE
      /\ q.MouseClockEnabled = p.MouseClockEnabled
  BY DEF KeyboardByte, PS2
<1>2. "KB_BUFFER_FULL" \in s /\ "MS_BUFFER_FULL" \notin s
  OBVIOUS
<1> HIDE DEF s, q
<1>3. Full(q) /\ ~HoldsMouse(q)
  BY <1>1, <1>2 DEF Full, HoldsMouse
<1>4. Coherent(q)
  BY <1>1, <1>3 DEF Coherent
<1> QED BY <1>1, <1>4 DEF Tidy, q

\* A mouse byte needs a buffer without a keyboard byte.
LEMMA MouseByteTidy ==
    ASSUME NEW p \in PS2
    PROVE  /\ ~p.KeyboardBuffer => Coherent(MouseByte(p))
           /\ MouseByte(p).MouseClockEnabled = p.MouseClockEnabled
<1> DEFINE s == p.StatusRegister \cup {"KB_BUFFER_FULL", "MS_BUFFER_FULL"}
           q == MouseByte(p)
<1>1. /\ q.StatusRegister = s /\ q.KeyboardBuffer = p.KeyboardBuffer
      /\ q.MouseClockEnabled = p.MouseClockEnabled
  BY DEF MouseByte, PS2
<1>2. "KB_BUFFER_FULL" \in s /\ "MS_BUFFER_FULL" \in s
  OBVIOUS
<1> HIDE DEF s, q
<1>3. Full(q) /\ HoldsMouse(q)
  BY <1>1, <1>2 DEF Full, HoldsMouse
<1>4. ~p.KeyboardBuffer => Coherent(q)
  BY <1>1, <1>3 DEF Coherent
<1> QED BY <1>1, <1>4 DEF q

\* A byte goes into the empty buffer, or behind the full one.
LEMMA QueueByteTidy ==
    ASSUME NEW m, Good(m), NEW d
    PROVE  Tidy(m.ps2, Ps2QueueByte(m, d).ps2) /\ Calm(m, Ps2QueueByte(m, d))
<1> DEFINE p == m.ps2
           q == IF d = "keyboard" THEN KeyboardByte(p) ELSE MouseByte(p)
           r == [p EXCEPT !.ControllerQueueIndex = @ + 1]
<1>0. p \in PS2
  BY DEF Good, MACHINE
<1>1. Ps2QueueByte(m, d) = IF ~Full(p) THEN PutPs2(m, q)
                           ELSE IF p.ControllerQueueIndex < KBD_CONTROLLER_QSIZE
                           THEN PutPs2(m, r) ELSE Exit(m)
  BY DEF Ps2QueueByte
<1>2. ASSUME ~Full(p) PROVE Tidy(p, q)
  <2>1. Coherent(p) => ~p.KeyboardBuffer
    BY <1>2 DEF Coherent
  <2> QED BY <1>0, <2>1, KeyboardByteTidy, MouseByteTidy DEF Tidy
<1>3. ASSUME Full(p) PROVE Tidy(p, r)
  <2>1. /\ r.StatusRegister = p.StatusRegister
        /\ r.KeyboardBuffer = p.KeyboardBuffer
        /\ r.MouseClockEnabled = p.MouseClockEnabled
    BY <1>0 DEF PS2
  <2> HIDE DEF r
  <2> QED BY <1>3, <2>1 DEF Tidy, Coherent, Full, HoldsMouse
<1>4. Tidy(p, Exit(m).ps2) /\ Calm(m, Exit(m))
  <2>1. Exit(m).ps2 = p /\ Exit(m).cmos = m.cmos /\ Exit(m).timer0 = m.timer0
    BY DEF Exit, Good, MACHINE
  <2> QED BY <2>1 DEF Tidy, Calm
<1> HIDE DEF q, r
<1> QED BY <1>1, <1>2, <1>3, <1>4, PutPs2Calm

\* Taking a byte out makes room for the next of the same device.
LEMMA TakeMouseTidy ==
    ASSUME NEW p \in PS2, HoldsMouse(p)
    PROVE  Tidy(p, TakeMouse(p))
<1> DEFINE s == p.StatusRegister \ {"KB_BUFFER_FULL", "MS_BUFFER_FULL"}
           d == p.DataRegister \ {DATA_MS_INTERRUPT}
           q == [p EXCEPT !.StatusRegister = s, !.DataRegister = d,
                          !.TimerPending = 1]
           r == MouseByte(q)
           t == [r EXCEPT !.ControllerQueueIndex = @ - 1]
<1>1. s \in SUBSET STATUS /\ d \in SUBSET (0..7) /\ 1 \in 0..1
  BY DEF PS2
<1>2. TakeMouse(p) = IF p.ControllerQueueIndex = 0 THEN q ELSE t
  BY DEF TakeMouse
<1>3. "KB_BUFFER_FULL" \notin s /\ "MS_BUFFER_FULL" \notin s
  OBVIOUS
<1> HIDE DEF s, d
<1>4. q \in PS2
  BY <1>1, Zenon DEF PS2
<1>5. /\ q.StatusRegister = s /\ q.KeyboardBuffer = p.KeyboardBuffer
      /\ q.ControllerQueueIndex = p.ControllerQueueIndex
      /\ q.MouseClockEnabled = p.MouseClockEnabled
  BY DEF PS2
<1> HIDE DEF q
<1>6. Coherent(p) => ~p.KeyboardBuffer
  BY DEF Coherent
<1>7. ~Full(q) /\ ~HoldsMouse(q)
  BY <1>3, <1>5 DEF Full, HoldsMouse
<1>8. p.ControllerQueueIndex = 0 => Tidy(p, q)
  BY <1>5, <1>6, <1>7 DEF Tidy, Coherent
<1>9. r \in PS2
  BY <1>4, MouseByteFull
<1>10. (Coherent(p) => Coherent(r)) /\ r.MouseClockEnabled = p.MouseClockEnabled
  BY <1>4, <1>5, <1>6, MouseByteTidy
<1>11. Full(r)
  BY <1>4, MouseByteFull
<1> HIDE DEF r
<1>12. /\ t.StatusRegister = r.StatusRegister
       /\ t.KeyboardBuffer = r.KeyboardBuffer
       /\ t.MouseClockEnabled = r.MouseClockEnabled
  BY <1>9 DEF PS2
<1> HIDE DEF t
<1>13. Tidy(p, t)
  BY <1>10, <1>11, <1>12 DEF Tidy, Coherent, Full, HoldsMouse
<1> QED BY <1>2, <1>8, <1>13
LEMMA TakeKeyboardTidy ==
    ASSUME NEW p \in PS2
    PROVE  Tidy(p, TakeKeyboard(p))
<1> DEFINE s == p.StatusRegister \ {"KB_BUFFER_FULL", "MS_BUFFER_FULL"}
           d == p.DataRegister \ {DATA_KB_INTERRUPT}
           q == [p EXCEPT !.StatusRegister = s, !.DataRegister = d,
                          !.KeyboardBuffer = FALSE, !.TimerPending = 1]
           r == KeyboardByte(q)
           t == [r EXCEPT !.ControllerQueueIndex = @ - 1]
<1>1. s \in SUBSET STATUS /\ d \in SUBSET (0..7) /\ 1 \in 0..1
  BY DEF PS2
<1>2. TakeKeyboard(p) = IF p.ControllerQueueIndex = 0 THEN q ELSE t
  BY DEF TakeKeyboard
<1>3. "KB_BUFFER_FULL" \notin s /\ "MS_BUFFER_FULL" \notin s
  OBVIOUS
<1> HIDE DEF s, d
<1>4. q \in PS2
  BY <1>1, Zenon DEF PS2
<1>5. /\ q.StatusRegister = s /\ q.KeyboardBuffer = FALSE
      /\ q.ControllerQueueIndex = p.ControllerQueueIndex
      /\ q.MouseClockEnabled = p.MouseClockEnabled
  BY DEF PS2
<1> HIDE DEF q
<1>7. ~Full(q) /\ ~HoldsMouse(q)
  BY <1>3, <1>5 DEF Full, HoldsMouse
<1>8. p.ControllerQueueIndex = 0 => Tidy(p, q)
  BY <1>5, <1>7 DEF Tidy, Coherent
<1>9. r \in PS2 /\ Full(r)
  BY <1>4, KeyboardByteFull
<1>10. Coherent(r) /\ r.MouseClockEnabled = p.MouseClockEnabled
  BY <1>4, <1>5, KeyboardByteTidy DEF Tidy
<1> HIDE DEF r
<1>12. /\ t.StatusRegister = r.StatusRegister
       /\ t.KeyboardBuffer = r.KeyboardBuffer
       /\ t.MouseClockEnabled = r.MouseClockEnabled
  BY <1>9 DEF PS2
<1> HIDE DEF t
<1>13. Tidy(p, t)
  BY <1>9, <1>10, <1>12 DEF Tidy, Coherent, Full, HoldsMouse
<1> QED BY <1>2, <1>8, <1>13

LEMMA ReadDataTidy ==
    ASSUME NEW m, Good(m)
    PROVE  Tidy(m.ps2, ReadData(m).ps2) /\ Calm(m, ReadData(m))
<1>0. m.ps2 \in PS2
  BY DEF Good, MACHINE
<1> DEFINE a == PutPs2(m, TakeMouse(m.ps2))
           b == PutPs2(m, TakeKeyboard(m.ps2))
<1>1. a \in MACHINE /\ b \in MACHINE
  BY <1>0, TakeMouseOk, TakeKeyboardOk, PutPs2Good DEF Good
<1>2. HoldsMouse(m.ps2) => Tidy(m.ps2, a.ps2) /\ Calm(m, a)
  BY <1>0, TakeMouseTidy, PutPs2Calm
<1>3. Tidy(m.ps2, b.ps2) /\ Calm(m, b)
  BY <1>0, TakeKeyboardTidy, PutPs2Calm
<1>4. ReadData(m) = CASE HoldsMouse(m.ps2) -> PicLower(a, MOUSE_IRQ)
                      [] Full(m.ps2) /\ ~HoldsMouse(m.ps2) ->
                             PicLower(b, KEYBOARD_IRQ)
                      [] OTHER -> m
  BY DEF ReadData
<1> HIDE DEF a, b
<1>5. HoldsMouse(m.ps2) => /\ Tidy(m.ps2, PicLower(a, MOUSE_IRQ).ps2)
                           /\ Calm(m, PicLower(a, MOUSE_IRQ))
  BY <1>1, <1>2, LinesCalm
<1>6. /\ Tidy(m.ps2, PicLower(b, KEYBOARD_IRQ).ps2)
      /\ Calm(m, PicLower(b, KEYBOARD_IRQ))
  BY <1>1, <1>3, LinesCalm
<1>7. Tidy(m.ps2, m.ps2) /\ Calm(m, m)
  BY DEF Tidy, Calm
<1>8. CASE HoldsMouse(m.ps2)
  BY <1>4, <1>5, <1>8
<1>9. CASE ~HoldsMouse(m.ps2)
  BY <1>4, <1>6, <1>7, <1>9
<1> QED BY <1>8, <1>9

\* The keyboard's memory is behind the output side.
LEMMA WriteMemorySame ==
    ASSUME NEW p \in PS2, NEW n
    PROVE  SameOutput(p, Ps2WriteKeyboardMemory(p, n))
<1> DEFINE k == p.KeyboardMemoryIndex
                    + (IF n < KEYBOARD_MEMORY_SIZE - p.KeyboardMemoryIndex THEN n
                       ELSE KEYBOARD_MEMORY_SIZE - p.KeyboardMemoryIndex)
           t == IF ~Full(p) /\ p.KeyboardClockEnabled THEN 1 ELSE p.TimerPending
           q == [p EXCEPT !.KeyboardMemoryIndex = k, !.TimerPending = t]
<1>1. Ps2WriteKeyboardMemory(p, n) \in {p, q}
  BY DEF Ps2WriteKeyboardMemory
<1> HIDE DEF k, t
<1>2. /\ q.StatusRegister = p.StatusRegister
      /\ q.ControllerQueueIndex = p.ControllerQueueIndex
      /\ q.KeyboardBuffer = p.KeyboardBuffer
      /\ q.MouseClockEnabled = p.MouseClockEnabled
  BY DEF PS2
<1> HIDE DEF q
<1> QED BY <1>1, <1>2 DEF SameOutput, Full, HoldsMouse
LEMMA ScanCodeSame ==
    ASSUME NEW p \in PS2, NEW b \in BOOLEAN
    PROVE  SameOutput(p, [p EXCEPT !.ScanCodeEnabled = b])
BY DEF PS2, SameOutput, Full, HoldsMouse

LEMMA ScancodeTidy ==
    ASSUME NEW m, Good(m), NEW n
    PROVE  /\ Tidy(m.ps2, Ps2GenerateScancode(m, n).ps2)
           /\ Calm(m, Ps2GenerateScancode(m, n))
BY WriteMemorySame, SameOutputTidy, PutPs2Calm
   DEF Ps2GenerateScancode, Good, MACHINE

\* What is sent to the keyboard, other than a reset.
LEMMA SendKeyboardTidy ==
    ASSUME NEW m, Good(m), NEW v
    PROVE  /\ ~Resets(v) /\ Coherent(m.ps2) => Coherent(Ps2SendKeyboard(m, v).ps2)
           /\ Ps2SendKeyboard(m, v).ps2.MouseClockEnabled = m.ps2.MouseClockEnabled
           /\ Calm(m, Ps2SendKeyboard(m, v))
<1> DEFINE p == m.ps2
           on == [p EXCEPT !.ScanCodeEnabled = TRUE]
           off == [p EXCEPT !.ScanCodeEnabled = FALSE]
           a == Ps2WriteKeyboardMemory(off, IF v = 0 THEN 2 ELSE 1)
           b == Ps2WriteKeyboardMemory(on, 1)
           c == Ps2WriteKeyboardMemory(p, Replies(v))
           r == Ps2KeyboardReset(p)
           e == Ps2WriteKeyboardMemory(r, Replies(v))
<1>0. p \in PS2 /\ NotStranded(p)
  BY DEF Good, MACHINE
<1>1. /\ on \in PS2 /\ off \in PS2 /\ r \in PS2
      /\ SameOutput(p, on) /\ SameOutput(p, off)
  BY <1>0, ScanCodeOk, ScanCodeSame, ResetOk
<1>2. Ps2SendKeyboard(m, v) =
          CASE p.ScanCodeEnabled -> PutPs2(m, a)
            [] ~p.ScanCodeEnabled /\ v = KBD_CMD_SET_LEDS ->
                   Ps2QueueByte(m, "keyboard")
            [] ~p.ScanCodeEnabled /\ v = KBD_CMD_SCANCODE -> PutPs2(m, b)
            [] ~p.ScanCodeEnabled /\ Resets(v) -> PutPs2(m, e)
            [] OTHER -> PutPs2(m, c)
  BY DEF Ps2SendKeyboard
<1>3. Tidy(p, a) /\ Tidy(p, b) /\ Tidy(p, c)
  <2> HIDE DEF p, on, off
  <2> QED BY <1>0, <1>1, WriteMemorySame, SameOutputTidy, TidySteps
<1>4. e.MouseClockEnabled = p.MouseClockEnabled
  <2>1. r.MouseClockEnabled = p.MouseClockEnabled
    BY <1>0 DEF Ps2KeyboardReset, PS2
  <2> QED BY <1>1, <2>1, WriteMemorySame DEF SameOutput
<1> HIDE DEF a, b, c, e
<1>5. Calm(m, PutPs2(m, e)) /\ PutPs2(m, e).ps2 = e
  BY PutPs2Parts DEF Calm
<1>6. \A x \in {a, b, c} : Tidy(p, PutPs2(m, x).ps2) /\ Calm(m, PutPs2(m, x))
  BY <1>3, PutPs2Calm
<1>7. Tidy(p, Ps2QueueByte(m, "keyboard").ps2) /\ Calm(m, Ps2QueueByte(m, "keyboard"))
  BY QueueByteTidy
<1> HIDE DEF p
<1>8. \/ /\ Tidy(p, Ps2SendKeyboard(m, v).ps2)
         /\ Calm(m, Ps2SendKeyboard(m, v))
      \/ Resets(v) /\ Ps2SendKeyboard(m, v) = PutPs2(m, e)
  BY <1>2, <1>6, <1>7
<1> QED BY <1>4, <1>5, <1>8 DEF Tidy, p

\* The keyboard's clock asks for the timer at most.
LEMMA KeyboardClockSame ==
    ASSUME NEW p \in PS2, NotStranded(p), NEW on \in BOOLEAN
    PROVE  SameOutput(p, Ps2EnableKeyboardClock(p, on))
<1> DEFINE w == on /\ ~Full(p) /\ ~p.KeyboardClockEnabled
           a == Awake(p, w)
           q == [a EXCEPT !.KeyboardClockEnabled = on]
<1>1. a \in PS2
  BY AwakeOk
<1>2. /\ a.StatusRegister = p.StatusRegister
      /\ a.ControllerQueueIndex = p.ControllerQueueIndex
      /\ a.KeyboardBuffer = p.KeyboardBuffer
      /\ a.MouseClockEnabled = p.MouseClockEnabled
  BY DEF Awake, PS2
<1>3. Ps2EnableKeyboardClock(p, on) = q
  BY DEF Ps2EnableKeyboardClock
<1> HIDE DEF a
<1>4. /\ q.StatusRegister = a.StatusRegister
      /\ q.ControllerQueueIndex = a.ControllerQueueIndex
      /\ q.KeyboardBuffer = a.KeyboardBuffer
      /\ q.MouseClockEnabled = a.MouseClockEnabled
  BY <1>1 DEF PS2
<1> QED BY <1>2, <1>3, <1>4 DEF SameOutput, Full, HoldsMouse

\* Slot 0 is armed for the mouse only when its clock is switched on.
LEMMA MouseClockCalm ==
    ASSUME NEW m, Good(m), NEW on \in BOOLEAN
    PROVE  /\ Coherent(m.ps2) => Coherent(Ps2EnableMouseClock(m, on).ps2)
           /\ Calm(m, Ps2EnableMouseClock(m, on))
<1> DEFINE p == m.ps2
           w == on /\ ~Full(p) /\ ~p.MouseClockEnabled
           a == Awake(p, w)
           q == [a EXCEPT !.MouseClockEnabled = on]
           t == IF w THEN TimerActivate(m.timer0, TRUE) ELSE m.timer0
           n == [m EXCEPT !.ps2 = q, !.timer0 = t]
<1>0. p \in PS2 /\ NotStranded(p) /\ m.timer0 \in TIMER
  BY DEF Good, MACHINE
<1>1. a \in PS2
  BY <1>0, AwakeOk
<1>2. /\ a.StatusRegister = p.StatusRegister
      /\ a.ControllerQueueIndex = p.ControllerQueueIndex
      /\ a.KeyboardBuffer = p.KeyboardBuffer
  BY <1>0 DEF Awake, PS2
<1>3. Ps2EnableMouseClock(m, on) = n
  BY DEF Ps2EnableMouseClock
<1>4. w => on /\ ~p.MouseClockEnabled
  OBVIOUS
<1>5. ~w => t = m.timer0
  OBVIOUS
<1> HIDE DEF a, w, t
<1>6. /\ q.StatusRegister = a.StatusRegister
      /\ q.ControllerQueueIndex = a.ControllerQueueIndex
      /\ q.KeyboardBuffer = a.KeyboardBuffer
      /\ q.MouseClockEnabled = on
  BY <1>1 DEF PS2
<1>7. Coherent(p) => Coherent(q)
  BY <1>2, <1>6 DEF Coherent, Full, HoldsMouse
<1> HIDE DEF q
<1>8. n.ps2 = q /\ n.cmos = m.cmos /\ n.timer0 = t
  BY DEF Good, MACHINE
<1> HIDE DEF n
<1> QED BY <1>3, <1>4, <1>5, <1>6, <1>7, <1>8 DEF Calm

LEMMA SetModeCalm ==
    ASSUME NEW m, Good(m), NEW v
    PROVE  /\ Coherent(m.ps2) => Coherent(SetMode(m, v).ps2)
           /\ Calm(m, SetMode(m, v))
<1> DEFINE b == Bits(v)
           o == [m.ps2 EXCEPT !.DataRegister = b]
           p == Ps2EnableKeyboardClock(o, DATA_DISABLE_KEYBOARD \notin b)
           n == PutPs2(m, p)
           r == Ps2EnableMouseClock(n, DATA_DISABLE_MOUSE \notin b)
<1>0. m.ps2 \in PS2 /\ NotStranded(m.ps2) /\ b \in SUBSET (0..7)
  BY BitsType DEF Good, MACHINE
<1>1. SetMode(m, v) = r
  BY DEF SetMode
<1> HIDE DEF b
<1>2. o \in PS2 /\ NotStranded(o) /\ SameOutput(m.ps2, o)
  BY <1>0 DEF PS2, NotStranded, SameOutput, Full, HoldsMouse
<1> HIDE DEF o
<1>3. p \in PS2 /\ NotStranded(p) /\ SameOutput(o, p)
  BY <1>2, KeyboardClockOk, KeyboardClockSame
<1>4. Tidy(m.ps2, p)
  BY <1>2, <1>3, SameOutputTidy, TidySteps
<1> HIDE DEF p
<1>5. /\ Good(n) /\ n.ps2 = p /\ n.cmos = m.cmos /\ n.timer0 = m.timer0
  BY <1>3, PutPs2Good, PutPs2Parts
<1> HIDE DEF n
<1>6. (Coherent(p) => Coherent(r.ps2)) /\ Calm(n, r)
  BY <1>5, MouseClockCalm
<1> QED BY <1>1, <1>4, <1>5, <1>6 DEF Tidy, Calm

LEMMA OperandCalm ==
    ASSUME NEW m, Good(m), NEW v
    PROVE  /\ Coherent(m.ps2) => Coherent(Operand(m, v).ps2)
           /\ Calm(m, Operand(m, v))
<1>1. \A d : Tidy(m.ps2, Ps2QueueByte(m, d).ps2) /\ Calm(m, Ps2QueueByte(m, d))
  BY QueueByteTidy
<1>2. /\ Coherent(m.ps2) => Coherent(SetMode(m, v).ps2)
      /\ Calm(m, SetMode(m, v))
  BY SetModeCalm
<1>3. Calm(m, m)
  BY DEF Calm
<1> QED BY <1>1, <1>2, <1>3 DEF Operand, Tidy

LEMMA WriteDataCalm ==
    ASSUME NEW m, Good(m), NEW v
    PROVE  /\ ~Resets(v) /\ Coherent(m.ps2) => Coherent(WriteData(m, v).ps2)
           /\ Calm(m, WriteData(m, v))
<1> DEFINE n == IF "COMMAND_LAST" \in m.ps2.StatusRegister THEN Operand(m, v)
                ELSE Ps2SendKeyboard(m, v)
           s == n.ps2.StatusRegister \ {"COMMAND_LAST"}
           q == [n.ps2 EXCEPT !.CommandBuffer = 0, !.StatusRegister = s]
<1>1. /\ Good(n) /\ Calm(m, n)
      /\ ~Resets(v) /\ Coherent(m.ps2) => Coherent(n.ps2)
  BY OperandGood, SendKeyboardGood, OperandCalm, SendKeyboardTidy
<1>2. WriteData(m, v) = PutPs2(n, q)
  BY DEF WriteData, EndCommand
<1> HIDE DEF n
<1>3. n.ps2 \in PS2
  BY <1>1 DEF Good, MACHINE
<1>4. ("KB_BUFFER_FULL" \in s <=> Full(n.ps2)) /\ ("MS_BUFFER_FULL" \in s <=> HoldsMouse(n.ps2))
  BY DEF Full, HoldsMouse
<1> HIDE DEF s
<1>5. SameOutput(n.ps2, q)
  BY <1>3, <1>4 DEF PS2, SameOutput, Full, HoldsMouse
<1> HIDE DEF q
<1>6. /\ PutPs2(n, q).ps2 = q /\ PutPs2(n, q).cmos = n.cmos
      /\ PutPs2(n, q).timer0 = n.timer0
  BY <1>1, PutPs2Parts
<1>7. Tidy(n.ps2, q)
  BY <1>5, SameOutputTidy
<1> QED BY <1>1, <1>2, <1>6, <1>7 DEF Tidy, Calm

\* The self test forgets buffer and queue, and announces a keyboard byte.
LEMMA TestControllerTidy ==
    ASSUME NEW m, Good(m)
    PROVE  /\ Tidy(m.ps2, TestController(m).ps2)
           /\ Calm(m, TestController(m))
<1> DEFINE o == m.ps2
           s == o.StatusRegister \ {"KB_BUFFER_FULL"}
           e == [o EXCEPT !.StatusRegister = s, !.ControllerQueueIndex = 0]
           p == Emptied(o)
           q == Tested(p)
           k == KeyboardByte(q)
<1>0. o \in PS2
  BY DEF Good, MACHINE
<1>1. s \in SUBSET STATUS /\ 0 \in 0..KBD_CONTROLLER_QSIZE
  BY <1>0, Ps2Assumption DEF PS2
<1>2. p = (IF "SYSTEM_TEST" \in o.StatusRegister THEN o ELSE e)
  BY DEF Emptied
<1>3. "KB_BUFFER_FULL" \notin s
  OBVIOUS
<1> HIDE DEF s, o
<1>4. /\ e \in PS2 /\ e.MouseClockEnabled = o.MouseClockEnabled
      /\ e.StatusRegister = s
  BY <1>0, <1>1 DEF PS2
<1> HIDE DEF e
<1>5. p \in PS2 /\ p.MouseClockEnabled = o.MouseClockEnabled
      /\ (Full(p) => p = o)
  BY <1>0, <1>2, <1>3, <1>4 DEF Full
<1>6. TestController(m) = IF Full(p) THEN PutPs2(m, p)
                          ELSE Ps2QueueByte(PutPs2(m, q), "keyboard")
  BY DEF TestController, o
<1> HIDE DEF p
<1>7. /\ q \in PS2 /\ (Full(q) <=> Full(p))
      /\ q.MouseClockEnabled = p.MouseClockEnabled
  <2> DEFINE z == p.StatusRegister \cup {"SYSTEM_TEST"}
  <2>1. z \in SUBSET STATUS /\ ("KB_BUFFER_FULL" \in z <=> Full(p))
    BY <1>5 DEF PS2, STATUS, Full
  <2>2. q = [p EXCEPT !.StatusRegister = z]
    BY DEF Tested
  <2> HIDE DEF z, q
  <2> QED BY <1>5, <2>1, <2>2 DEF PS2, Full
<1> HIDE DEF q
<1>8. CASE Full(p)
  <2>1. Tidy(o, p)
    BY <1>5, <1>8 DEF Tidy
  <2> QED BY <1>6, <1>8, <2>1, PutPs2Calm DEF o
<1>9. CASE ~Full(p)
  <2> DEFINE n == PutPs2(m, q)
  <2>1. /\ n.ps2 = q /\ n.cmos = m.cmos /\ n.timer0 = m.timer0
        /\ n \in MACHINE
    <3>1. n \in MACHINE
      BY <1>7 DEF Good, MACHINE, PutPs2
    <3> QED BY <3>1, PutPs2Parts
  <2> HIDE DEF n
  <2>2. Ps2QueueByte(n, "keyboard") = PutPs2(n, k)
    BY <1>7, <1>9, <2>1 DEF Ps2QueueByte
  <2>3. Coherent(k) /\ k.MouseClockEnabled = q.MouseClockEnabled
    BY <1>7, KeyboardByteTidy DEF Tidy
  <2> HIDE DEF k
  <2>4. /\ PutPs2(n, k).ps2 = k /\ PutPs2(n, k).cmos = n.cmos
        /\ PutPs2(n, k).timer0 = n.timer0
    BY <2>1 DEF MACHINE, PutPs2
  <2>5. TestController(m) = PutPs2(n, k)
    BY <1>6, <1>9, <2>2 DEF n
  <2> QED BY <1>5, <1>7, <2>1, <2>3, <2>4, <2>5 DEF Tidy, Calm, o
<1> QED BY <1>8, <1>9

LEMMA WriteCommandCalm ==
    ASSUME NEW m, Good(m), NEW v \in Byte
    PROVE  /\ Coherent(m.ps2) => Coherent(WriteCommand(m, v).ps2)
           /\ Calm(m, WriteCommand(m, v))
<1> DEFINE p == m.ps2
           s == p.StatusRegister \cup {"COMMAND_LAST"}
           q == [p EXCEPT !.CommandBuffer = v, !.StatusRegister = s]
           Fine(n) == (Coherent(p) => Coherent(n.ps2)) /\ Calm(m, n)
<1>0. p \in PS2 /\ NotStranded(p)
  BY DEF Good, MACHINE
<1>1. Fine(PutPs2(m, q))
  <2>1. ("KB_BUFFER_FULL" \in s <=> Full(p)) /\ ("MS_BUFFER_FULL" \in s <=> HoldsMouse(p))
    BY DEF Full, HoldsMouse
  <2> HIDE DEF s
  <2>2. SameOutput(p, q)
    BY <1>0, <2>1 DEF PS2, SameOutput, Full, HoldsMouse
  <2> HIDE DEF q
  <2> QED BY <2>2, SameOutputTidy, PutPs2Calm DEF Tidy
<1>2. \A d : Fine(Ps2QueueByte(m, d))
  BY QueueByteTidy DEF Tidy
<1>3. Fine(Exit(m)) /\ Fine(m)
  <2>1. Exit(m).ps2 = p /\ Exit(m).cmos = m.cmos /\ Exit(m).timer0 = m.timer0
    BY DEF Exit, Good, MACHINE
  <2> QED BY <2>1 DEF Calm
<1>4. \A b \in BOOLEAN : Fine(Ps2EnableMouseClock(m, b))
  BY MouseClockCalm
<1>5. \A b \in BOOLEAN : Fine(PutPs2(m, Ps2EnableKeyboardClock(p, b)))
  BY <1>0, KeyboardClockSame, SameOutputTidy, PutPs2Calm DEF Tidy
<1>6. Fine(TestController(m))
  BY TestControllerTidy DEF Tidy
<1> HIDE DEF Fine
<1>7. \A d : Fine(TestPort(m, d))
  BY <1>2, <1>3 DEF TestPort
<1>8. Fine(WriteCommand(m, v))
  BY <1>1, <1>2, <1>3, <1>4, <1>5, <1>6, <1>7 DEF WriteCommand
<1> QED BY <1>8 DEF Fine

\* The timer fills the empty buffer only.
LEMMA TimerPeriodicTidy ==
    ASSUME NEW p \in PS2
    PROVE  Tidy(p, Ps2TimerPeriodic(p))
<1> DEFINE d == p.DataRegister \ {DATA_KB_INTERRUPT, DATA_MS_INTERRUPT}
           q == [p EXCEPT !.DataRegister = d, !.TimerPending = 0]
           r == Loaded(q)
<1>1. Ps2TimerPeriodic(p) = IF Loads(p) THEN r ELSE q
  BY DEF Ps2TimerPeriodic
<1>2. d \in SUBSET (0..7) /\ 0 \in 0..1
  BY DEF PS2
<1> HIDE DEF d
<1>3. q \in PS2
  BY <1>2, Zenon DEF PS2
<1>4. SameOutput(p, q)
  BY DEF PS2, SameOutput, Full, HoldsMouse
<1> HIDE DEF q
<1>5. /\ r.StatusRegister = q.StatusRegister \cup {"KB_BUFFER_FULL"}
      /\ r.KeyboardBuffer = TRUE
      /\ r.ControllerQueueIndex = q.ControllerQueueIndex
      /\ r.MouseClockEnabled = q.MouseClockEnabled
  BY <1>3 DEF Loaded, PS2
<1> HIDE DEF r
<1>6. Full(r) /\ (HoldsMouse(r) <=> HoldsMouse(q))
  BY <1>5 DEF Full, HoldsMouse
<1>7. Loads(p) => Tidy(p, r)
  BY <1>4, <1>5, <1>6 DEF Loads, SameOutput, Tidy, Coherent
<1> QED BY <1>1, <1>4, <1>7, SameOutputTidy

LEMMA Ps2TimerTidy ==
    ASSUME NEW m, Good(m)
    PROVE  Tidy(m.ps2, Ps2TimerHandler(m).ps2) /\ Calm(m, Ps2TimerHandler(m))
<1> DEFINE n == PutPs2(m, Ps2TimerPeriodic(m.ps2))
<1>1. m.ps2 \in PS2 /\ NotStranded(m.ps2)
  BY DEF Good, MACHINE
<1>2. n \in MACHINE /\ Tidy(m.ps2, n.ps2) /\ Calm(m, n)
  BY <1>1, TimerPeriodicOk, PutPs2Good, TimerPeriodicTidy, PutPs2Calm DEF Good
<1> HIDE DEF n
<1>3. PICK irqs : Ps2TimerHandler(m) = PicRaise(n, irqs)
  BY DEF Ps2TimerHandler, n
<1> QED BY <1>2, <1>3, LinesCalm

-----------------------------------------------------------------------------
(***************************************************************************)
(* The handlers of the clock leave the controller alone and keep slot 0 in *)
(* step with the registers.                                                *)
(***************************************************************************)

\* What the slot's state depends on.
SameRegisters(c, d) ==
    /\ PERIODIC \in d.StatB <=> PERIODIC \in c.StatB
    /\ d.Rate = c.Rate
    /\ d.Divider = c.Divider

InStep(m, n) ==
    /\ n.ps2 = m.ps2
    /\ PeriodicAgrees(m.cmos, m.timer0) => PeriodicAgrees(n.cmos, n.timer0)

LEMMA SameRegistersAgree ==
    ASSUME NEW c, NEW d, SameRegisters(c, d), NEW t, PeriodicAgrees(c, t)
    PROVE  PeriodicAgrees(d, t)
BY DEF SameRegisters, PeriodicAgrees

LEMMA PutCmosParts ==
    ASSUME NEW m, Good(m), NEW c
    PROVE  /\ PutCmos(m, c).ps2 = m.ps2
           /\ PutCmos(m, c).cmos = c
           /\ PutCmos(m, c).timer0 = m.timer0
BY DEF Good, MACHINE, PutCmos

LEMMA PutCmosInStep ==
    ASSUME NEW m, Good(m), NEW c, SameRegisters(m.cmos, c)
    PROVE  InStep(m, PutCmos(m, c))
BY PutCmosParts, SameRegistersAgree DEF InStep

LEMMA SelectInStep ==
    ASSUME NEW m, Good(m), NEW a \in 0..127
    PROVE  InStep(m, CmosSelect(m, a))
<1> DEFINE c == [m.cmos EXCEPT !.CmosAddress = a]
<1>1. SameRegisters(m.cmos, c)
  BY DEF Good, MACHINE, CMOS, SameRegisters
<1>2. CmosSelect(m, a) = PutCmos(m, c)
  BY DEF CmosSelect
<1> HIDE DEF c
<1> QED BY <1>1, <1>2, PutCmosInStep

LEMMA SetInterruptInStep ==
    ASSUME NEW m, Good(m), NEW on \in BOOLEAN
    PROVE  InStep(m, CmosSetInterrupt(m, on))
<1> DEFINE c == [m.cmos EXCEPT !.InterruptEnabled = on]
<1>1. SameRegisters(m.cmos, c)
  BY DEF Good, MACHINE, CMOS, SameRegisters
<1>2. CmosSetInterrupt(m, on) = PutCmos(m, c)
  BY DEF CmosSetInterrupt
<1> HIDE DEF c
<1> QED BY <1>1, <1>2, PutCmosInStep

LEMMA CmosReadInStep ==
    ASSUME NEW m, Good(m)
    PROVE  InStep(m, CmosRead(m))
<1> DEFINE c == [m.cmos EXCEPT !.StatC = {}]
           n == PutCmos(m, c)
<1>1. c \in CMOS /\ SameRegisters(m.cmos, c)
  BY DEF Good, MACHINE, CMOS, SameRegisters
<1>2. CmosRead(m) = IF m.cmos.CmosAddress = REG_STAT_C
                    THEN PicLower(n, RTC_IRQ) ELSE m
  BY DEF CmosRead, ReadStatC
<1> HIDE DEF c
<1>3. InStep(m, n) /\ n \in MACHINE
  BY <1>1, PutCmosInStep DEF PutCmos, Good, MACHINE
<1> HIDE DEF n
<1>4. InStep(m, PicLower(n, RTC_IRQ))
  BY <1>3 DEF InStep, MACHINE, PicLower
<1>5. InStep(m, m)
  BY DEF InStep
<1> QED BY <1>2, <1>4, <1>5

\* A tick records flags, raises the line, and ends a slot that was not
\* periodic.
LEMMA UipTimerInStep ==
    ASSUME NEW m, Good(m), NEW alarm
    PROVE  InStep(m, CmosUipTimer(m, alarm))
<1> DEFINE c == CmosUpdateClock(m.cmos)
           n == PutCmos(m, c)
<1>0. m.cmos \in CMOS
  BY DEF Good, MACHINE
<1>1. c \in CMOS /\ c.StatC = m.cmos.StatC /\ SameRegisters(m.cmos, c)
  BY <1>0, UpdateClockOk DEF CmosUpdateClock, CMOS, SameRegisters
<1>2. Good(n) /\ InStep(m, n) /\ n.cmos = c /\ n.ps2 = m.ps2
  BY <1>1, PutCmosGood, PutCmosInStep, PutCmosParts
<1>3. PICK f \in SUBSET {"UF", "AF"} : CmosUipTimer(m, alarm) = Interrupt(n, f)
  BY DEF CmosUipTimer
<1> HIDE DEF c, n
<1> DEFINE d == Flag(n.cmos, f)
           o == PutCmos(n, d)
<1>4. SameRegisters(n.cmos, d)
  BY <1>1, <1>2 DEF Flag, CMOS, SameRegisters
<1>5. \/ Interrupt(n, f) = o
      \/ Interrupt(n, f) = PicRaise(o, {RTC_IRQ})
  BY DEF Interrupt
<1>6. o.ps2 = n.ps2 /\ o.cmos = d /\ o.timer0 = n.timer0
  BY <1>2, PutCmosParts
<1>7. /\ PicRaise(o, {RTC_IRQ}).ps2 = o.ps2
      /\ PicRaise(o, {RTC_IRQ}).cmos = o.cmos
      /\ PicRaise(o, {RTC_IRQ}).timer0 = o.timer0
  BY <1>2 DEF PicRaise, PutCmos, Good, MACHINE
<1> HIDE DEF d, o
<1>8. PeriodicAgrees(n.cmos, n.timer0) => PeriodicAgrees(d, n.timer0)
  BY <1>4, SameRegistersAgree
<1> QED BY <1>2, <1>3, <1>5, <1>6, <1>7, <1>8 DEF InStep
LEMMA FiredAgrees ==
    ASSUME NEW c, NEW t \in TIMER, PeriodicAgrees(c, t)
    PROVE  PeriodicAgrees(c, TimerFired(t))
BY DEF TIMER, TimerFired, PeriodicAgrees

\* The slot started or stopped as the registers want it.
LEMMA PeriodicInStep ==
    ASSUME NEW m, Good(m), NEW on \in BOOLEAN,
           PERIODIC \in m.cmos.StatB /\ m.cmos.Rate /\ m.cmos.Divider => on,
           on => PERIODIC \in m.cmos.StatB /\ m.cmos.Rate
    PROVE  /\ Periodic(m, on).ps2 = m.ps2
           /\ PeriodicAgrees(Periodic(m, on).cmos, Periodic(m, on).timer0)
<1> DEFINE a == TimerActivate(m.timer0, FALSE)
           d == TimerDeactivate(m.timer0)
           t == IF on THEN a ELSE d
<1>1. /\ a.Active = TRUE /\ a.OneShot = FALSE /\ d.Active = FALSE
  BY DEF Good, MACHINE, TIMER, TimerActivate, TimerDeactivate
<1> HIDE DEF a, d
<1>2. (on => t.Active /\ ~t.OneShot) /\ (~on => ~t.Active)
  BY <1>1
<1>3. Periodic(m, on) = [m EXCEPT !.timer0 = t]
  BY DEF Periodic, a, d
<1> HIDE DEF t
<1>4. /\ Periodic(m, on).ps2 = m.ps2 /\ Periodic(m, on).cmos = m.cmos
      /\ Periodic(m, on).timer0 = t
  BY <1>3 DEF Good, MACHINE
<1> QED BY <1>2, <1>4 DEF PeriodicAgrees

LEMMA CraChangeInStep ==
    ASSUME NEW m, Good(m), NEW v
    PROVE  InStep(m, CraChange(m, v))
<1> DEFINE r == v % 16 # 0
           d == Bits(v) \cap {5, 6} # {}
           c == [m.cmos EXCEPT !.Rate = r, !.Divider = d]
           on == c.Rate /\ c.Divider /\ PERIODIC \in c.StatB
           n == PutCmos(m, c)
<1>0. r \in BOOLEAN /\ d \in BOOLEAN
  OBVIOUS
<1>2. CraChange(m, v) = Periodic(n, on)
  BY DEF CraChange
<1> HIDE DEF r, d
<1>1. c \in CMOS /\ c.StatC = m.cmos.StatC
  BY <1>0 DEF Good, MACHINE, CMOS
<1> HIDE DEF c
<1>3. Good(n) /\ n.cmos = c /\ n.ps2 = m.ps2
  BY <1>1, PutCmosGood, PutCmosParts
<1> HIDE DEF n
<1>4. PICK b \in BOOLEAN : b = on
  OBVIOUS
<1>5. /\ Periodic(n, b).ps2 = n.ps2
      /\ PeriodicAgrees(Periodic(n, b).cmos, Periodic(n, b).timer0)
  BY <1>3, <1>4, PeriodicInStep
<1> QED BY <1>2, <1>3, <1>4, <1>5 DEF InStep

LEMMA CrbChangeInStep ==
    ASSUME NEW m, Good(m), NEW v
    PROVE  InStep(m, CrbChange(m, v))
<1> DEFINE c == m.cmos
           b == NewB(v)
           mode == Changed(c, b, HOURS24) \/ Changed(c, b, BINARY)
           shown == IF mode THEN CmosUpdateClock(c) ELSE c
           ends == SET \in c.StatB /\ SET \notin b /\ c.timeval_change
           kept == IF ends THEN CmosUpdateTimeval(shown) ELSE shown
           ch == kept.timeval_change /\ ~ends
           e == [kept EXCEPT !.StatB = b, !.timeval_change = ch]
           n == PutCmos(m, e)
<1>0. c \in CMOS
  BY DEF Good, MACHINE
<1>1. b \in SUBSET (0..7)
  BY BitsType DEF NewB
<1>2. shown \in CMOS /\ shown.StatC = c.StatC /\ shown.Rate = c.Rate
      /\ shown.Divider = c.Divider
  BY <1>0, UpdateClockOk DEF CmosUpdateClock, CMOS
<1>3. CrbChange(m, v) =
          CASE Changed(c, b, PERIODIC) /\ PERIODIC \notin b -> Periodic(n, FALSE)
            [] Changed(c, b, PERIODIC) /\ PERIODIC \in b /\ c.Rate ->
                   Periodic(n, TRUE)
            [] OTHER -> n
  BY DEF CrbChange
<1> HIDE DEF b, shown
<1>4. kept \in CMOS /\ kept.StatC = c.StatC /\ kept.Rate = c.Rate
      /\ kept.Divider = c.Divider
  BY <1>2, UpdateTimevalOk DEF CmosUpdateTimeval, CMOS
<1> HIDE DEF kept
<1>5. ch \in BOOLEAN
  OBVIOUS
<1> HIDE DEF ch
<1>6. /\ e \in CMOS /\ e.StatC = c.StatC /\ e.StatB = b
      /\ e.Rate = c.Rate /\ e.Divider = c.Divider
  BY <1>1, <1>4, <1>5 DEF CMOS
<1> HIDE DEF e
<1>7. /\ Good(n) /\ n.cmos = e /\ n.ps2 = m.ps2 /\ n.timer0 = m.timer0
  BY <1>6, PutCmosGood, PutCmosParts
<1> HIDE DEF n
<1>8. CASE Changed(c, b, PERIODIC) /\ PERIODIC \notin b
  <2>1. CrbChange(m, v) = Periodic(n, FALSE)
    BY <1>3, <1>8
  <2>2. PERIODIC \notin n.cmos.StatB
    BY <1>6, <1>7, <1>8
  <2> QED BY <1>7, <2>1, <2>2, PeriodicInStep DEF InStep
<1>9. CASE Changed(c, b, PERIODIC) /\ PERIODIC \in b /\ c.Rate
  <2>1. CrbChange(m, v) = Periodic(n, TRUE)
    BY <1>3, <1>9
  <2>2. PERIODIC \in n.cmos.StatB /\ n.cmos.Rate
    BY <1>6, <1>7, <1>9
  <2> QED BY <1>7, <2>1, <2>2, PeriodicInStep DEF InStep
<1>10. CASE Changed(c, b, PERIODIC) /\ PERIODIC \in b /\ ~c.Rate
  <2>1. CrbChange(m, v) = n
    BY <1>3, <1>10
  <2>2. PERIODIC \notin c.StatB
    BY <1>10 DEF Changed
  <2> QED BY <1>6, <1>7, <1>10, <2>1, <2>2 DEF InStep, PeriodicAgrees
<1>11. CASE ~Changed(c, b, PERIODIC)
  <2>1. CrbChange(m, v) = n
    BY <1>3, <1>11
  <2>2. SameRegisters(c, e)
    BY <1>6, <1>11 DEF SameRegisters, Changed
  <2> QED BY <1>7, <2>1, <2>2, SameRegistersAgree DEF InStep
<1> QED BY <1>8, <1>9, <1>10, <1>11

LEMMA CmosWriteInStep ==
    ASSUME NEW m, Good(m), NEW v
    PROVE  InStep(m, CmosWrite(m, v))
<1>1. InStep(m, PutCmos(m, WriteTime(m.cmos)))
  <2> DEFINE c == [m.cmos EXCEPT !.Time = "guest", !.timeval_change = TRUE]
             d == CmosUpdateTimeval(m.cmos)
  <2>1. SameRegisters(m.cmos, c) /\ SameRegisters(m.cmos, d)
    BY DEF Good, MACHINE, CMOS, SameRegisters, CmosUpdateTimeval
  <2>2. WriteTime(m.cmos) = c \/ WriteTime(m.cmos) = d
    BY DEF WriteTime
  <2> HIDE DEF c, d
  <2> QED BY <2>1, <2>2, PutCmosInStep
<1>2. InStep(m, m)
  BY DEF InStep
<1> QED
  BY <1>1, <1>2, CraChangeInStep, CrbChangeInStep DEF CmosWrite

-----------------------------------------------------------------------------
(***************************************************************************)
(* The specification.                                                      *)
(***************************************************************************)

Inv == Good(Machine)

LEMMA InvMeans ==
    Inv <=> TypeOK /\ KeyboardNotStranded /\ RtcLineHasReason
BY DEF Inv, Good, Machine, MACHINE, HasReason, TypeOK, KeyboardNotStranded,
       RtcLineHasReason, Lines

\* A handler that leaves a good machine establishes the invariant.
LEMMA BecomeInv ==
    ASSUME NEW m, Good(m), Become(m)
    PROVE  Inv'
BY DEF Inv, Good, Become, Machine, MACHINE, HasReason

LEMMA InitInv == Init => Inv
<1> SUFFICES ASSUME Init PROVE Inv
  OBVIOUS
<1>1. Ps2Initialize \in PS2 /\ NotStranded(Ps2Initialize)
  <2>1. /\ 0 \in Byte /\ 0 \in 0..KBD_CONTROLLER_QSIZE /\ 0 \in 0..1
        /\ 0 \in 0..KEYBOARD_MEMORY_SIZE
    BY Ps2Assumption DEF Byte
  <2>2. Ps2Initialize \in PS2
    BY <2>1, Zenon DEF Ps2Initialize, PS2
  <2>3. NotStranded(Ps2Initialize)
    BY DEF NotStranded, Ps2Initialize
  <2> QED BY <2>2, <2>3
<1>2. CmosInitialize \in CMOS
  BY DEF CmosInitialize, CMOS, HOURS24
<1>3. TimerDeactivate(TimerRegister) \in TIMER
  BY DEF TimerDeactivate, TimerRegister, TIMER
<1>4. Machine.ps2 \in PS2 /\ NotStranded(Machine.ps2)
  BY <1>1 DEF Init, Machine
<1>5. Machine \in MACHINE
  BY <1>1, <1>2, <1>3 DEF Init, Machine, MACHINE
<1> QED
  BY <1>4, <1>5 DEF Init, Inv, Good, HasReason, Machine

\* Every step keeps the invariant, one handler at a time.
LEMMA StepInv == Inv /\ [Next]_vars => Inv'
<1> SUFFICES ASSUME Inv, [Next]_vars PROVE Inv'
  OBVIOUS
<1> DEFINE m == Machine
<1>0. Good(m)
  BY DEF Inv
<1>u. CASE UNCHANGED vars
  BY <1>u DEF vars, Inv, Machine
<1>n. CASE Next
  <2> HIDE DEF m
  <2>1. CASE GuestRead
    BY <1>0, <2>1, ReadDataGood, BecomeInv DEF GuestRead, m
  <2>2. ASSUME NEW v \in DataBytes, GuestData(v) PROVE Inv'
    BY <1>0, <2>2, WriteDataGood, BecomeInv DEF GuestData, m
  <2>3. ASSUME NEW v \in Commands, GuestCommand(v) PROVE Inv'
    BY <1>0, <2>3, WriteCommandGood, BecomeInv, RtcKeyboardAssumption
       DEF GuestCommand, m
  <2>4. ASSUME NEW n \in CodeLengths, KeyPressed(n) PROVE Inv'
    BY <1>0, <2>4, ScancodeGood, BecomeInv, RtcKeyboardAssumption
       DEF KeyPressed, m
  <2>5. ASSUME NEW a \in CmosAddresses, GuestCmosSelect(a) PROVE Inv'
    BY <1>0, <2>5, CmosSelectGood, BecomeInv, RtcKeyboardAssumption
       DEF GuestCmosSelect, m
  <2>6. CASE GuestCmosRead
    BY <1>0, <2>6, CmosReadGood, BecomeInv DEF GuestCmosRead, m
  <2>7. ASSUME NEW v \in CmosBytes, GuestCmosWrite(v) PROVE Inv'
    BY <1>0, <2>7, CmosWriteGood, BecomeInv DEF GuestCmosWrite, m
  <2>8. ASSUME NEW on \in PitUpdates, PitUpdate(on) PROVE Inv'
    <3> DEFINE a == TimerActivate(m.timer0, FALSE)
               d == TimerDeactivate(m.timer0)
    <3>1. a \in TIMER /\ d \in TIMER
      BY <1>0, TimerOps DEF Good, MACHINE
    <3>2. Become(IF on THEN [m EXCEPT !.timer0 = a] ELSE [m EXCEPT !.timer0 = d])
      BY <2>8 DEF PitUpdate, m
    <3> HIDE DEF a, d
    <3>3. Good([m EXCEPT !.timer0 = a]) /\ Good([m EXCEPT !.timer0 = d])
      BY <1>0, <3>1, SlotGood
    <3> QED BY <3>2, <3>3, BecomeInv
  <2>9. ASSUME NEW on \in LegacyChanges, HpetLegacy(on) PROVE Inv'
    BY <1>0, <2>9, SetInterruptGood, BecomeInv, RtcKeyboardAssumption
       DEF HpetLegacy, m
  <2>10. ASSUME NEW alarm \in BOOLEAN, UipTick(alarm) PROVE Inv'
    <3> DEFINE n == CmosUipTimer(m, alarm)
               t == TimerFired(n.timer0)
    <3>1. Good(n)
      BY <1>0, UipTimerGood
    <3>2. Become([n EXCEPT !.timer0 = t])
      BY <2>10 DEF UipTick, m
    <3> HIDE DEF n
    <3>3. t \in TIMER
      BY <3>1, TimerOps DEF Good, MACHINE
    <3> HIDE DEF t
    <3> QED BY <3>1, <3>2, <3>3, SlotGood, BecomeInv
  <2>11. CASE Ps2Tick
    BY <1>0, <2>11, Ps2TimerGood, BecomeInv DEF Ps2Tick, m
  <2> QED
    BY <1>n, <2>1, <2>2, <2>3, <2>4, <2>5, <2>6, <2>7, <2>8, <2>9, <2>10, <2>11
       DEF Next
<1> QED BY <1>u, <1>n

LEMMA AlwaysInv == Spec => []Inv
BY InitInv, StepInv, PTL DEF Spec

\* The registers keep their domains for all sizes: neither the controller's
\* queue nor the keyboard's memory is ever indexed beyond its array.
THEOREM TypeCorrect == Spec => []TypeOK
BY AlwaysInv, InvMeans, PTL

\* Whatever the guest does to the ports, a byte that the keyboard could hand
\* over has a timer that will do it.
THEOREM KeysNeverStranded == Spec => []KeyboardNotStranded
BY AlwaysInv, InvMeans, PTL

\* The clock's line is never left up without a reason in register C.
THEOREM RtcLineReasoned == Spec => []RtcLineHasReason
BY AlwaysInv, InvMeans, PTL

-----------------------------------------------------------------------------
(***************************************************************************)
(* The action properties.                                                  *)
(***************************************************************************)

\* A handler of the controller that is calm, and one of the clock.
LEMMA BecomeCalm ==
    ASSUME NEW n, Become(n), Calm(Machine, n), PeriodicAgrees(cmos, timer0),
           ~Trespasses
    PROVE  PeriodicAgrees(cmos, timer0)'
<1>1. /\ cmos' = n.cmos /\ ps2' = n.ps2 /\ timer0' = n.timer0
      /\ Machine.cmos = cmos /\ Machine.ps2 = ps2 /\ Machine.timer0 = timer0
  BY DEF Become, Machine
<1>2. cmos' = cmos /\ timer0' = timer0
  BY <1>1 DEF Calm, Trespasses
<1> QED BY <1>2 DEF PeriodicAgrees
LEMMA BecomeInStep ==
    ASSUME NEW n, Become(n), InStep(Machine, n)
    PROVE  /\ ps2' = ps2
           /\ PeriodicAgrees(cmos, timer0) => PeriodicAgrees(cmos', timer0')
BY DEF Become, Machine, InStep

LEMMA CoherentStep ==
    ASSUME Inv, [Next]_vars, Coherent(ps2), ~ResetSends
    PROVE  Coherent(ps2')
<1> DEFINE m == Machine
<1>0. Good(m) /\ m.ps2 = ps2
  BY DEF Inv, Machine
<1>1. ASSUME NEW n, Become(n) PROVE ps2' = n.ps2
  BY <1>1 DEF Become
<1>u. CASE UNCHANGED vars
  BY <1>u DEF vars
<1>n. CASE Next
  <2> SUFFICES Coherent(ps2')
    OBVIOUS
  <2> HIDE DEF m
  <2>1. CASE GuestRead
    BY <1>0, <1>1, <2>1, ReadDataTidy DEF GuestRead, m, Tidy
  <2>2. ASSUME NEW v \in DataBytes, GuestData(v) PROVE Coherent(ps2')
    <3>1. ~Resets(v)
      BY <2>2 DEF ResetSends
    <3> QED BY <1>0, <1>1, <2>2, <3>1, WriteDataCalm DEF GuestData, m
  <2>3. ASSUME NEW v \in Commands, GuestCommand(v) PROVE Coherent(ps2')
    BY <1>0, <1>1, <2>3, WriteCommandCalm, RtcKeyboardAssumption
       DEF GuestCommand, m
  <2>4. ASSUME NEW n \in CodeLengths, KeyPressed(n) PROVE Coherent(ps2')
    BY <1>0, <1>1, <2>4, ScancodeTidy DEF KeyPressed, m, Tidy
  <2>5. ASSUME NEW a \in CmosAddresses, GuestCmosSelect(a) PROVE Coherent(ps2')
    BY <1>0, <2>5, SelectInStep, BecomeInStep, RtcKeyboardAssumption
       DEF GuestCmosSelect, m
  <2>6. CASE GuestCmosRead
    BY <1>0, <2>6, CmosReadInStep, BecomeInStep DEF GuestCmosRead, m
  <2>7. ASSUME NEW v \in CmosBytes, GuestCmosWrite(v) PROVE Coherent(ps2')
    BY <1>0, <2>7, CmosWriteInStep, BecomeInStep DEF GuestCmosWrite, m
  <2>8. ASSUME NEW on \in PitUpdates, PitUpdate(on) PROVE Coherent(ps2')
    BY <2>8 DEF PitUpdate, Become, Machine
  <2>9. ASSUME NEW on \in LegacyChanges, HpetLegacy(on) PROVE Coherent(ps2')
    BY <1>0, <2>9, SetInterruptInStep, BecomeInStep, RtcKeyboardAssumption
       DEF HpetLegacy, m
  <2>10. ASSUME NEW alarm \in BOOLEAN, UipTick(alarm) PROVE Coherent(ps2')
    <3> DEFINE n == CmosUipTimer(m, alarm)
               t == TimerFired(n.timer0)
    <3>1. Good(n) /\ n.ps2 = m.ps2
      BY <1>0, UipTimerGood, UipTimerInStep DEF InStep
    <3>2. Become([n EXCEPT !.timer0 = t])
      BY <2>10 DEF UipTick, m
    <3> HIDE DEF n, t
    <3>3. [n EXCEPT !.timer0 = t].ps2 = n.ps2
      BY <3>1 DEF Good, MACHINE
    <3> QED BY <1>0, <1>1, <3>1, <3>2, <3>3
  <2>11. CASE Ps2Tick
    BY <1>0, <1>1, <2>11, Ps2TimerTidy DEF Ps2Tick, m, Tidy
  <2> QED
    BY <1>n, <2>1, <2>2, <2>3, <2>4, <2>5, <2>6, <2>7, <2>8, <2>9, <2>10, <2>11
       DEF Next
<1> QED BY <1>u, <1>n

LEMMA AgreesStep ==
    ASSUME Inv, [Next]_vars, PeriodicAgrees(cmos, timer0), ~Trespasses
    PROVE  PeriodicAgrees(cmos, timer0)'
<1> DEFINE m == Machine
<1>0. Good(m) /\ m.cmos = cmos /\ m.timer0 = timer0
  BY DEF Inv, Machine
<1>1. ASSUME PeriodicAgrees(cmos', timer0') PROVE PeriodicAgrees(cmos, timer0)'
  BY <1>1 DEF PeriodicAgrees
<1>u. CASE UNCHANGED vars
  BY <1>u DEF vars, PeriodicAgrees
<1>n. CASE Next
  <2> DEFINE Goal == PeriodicAgrees(cmos, timer0)'
  <2> SUFFICES Goal
    OBVIOUS
  <2> HIDE DEF m, Goal
  <2>g. ASSUME NEW n, Become(n), Calm(m, n) PROVE Goal
    BY <2>g, BecomeCalm DEF m, Goal
  <2>h. ASSUME NEW n, Become(n), InStep(m, n) PROVE Goal
    BY <1>1, <2>h, BecomeInStep DEF m, Goal
  <2>1. CASE GuestRead
    BY <1>0, <2>g, <2>1, ReadDataTidy DEF GuestRead, m
  <2>2. ASSUME NEW v \in DataBytes, GuestData(v) PROVE Goal
    BY <1>0, <2>g, <2>2, WriteDataCalm DEF GuestData, m
  <2>3. ASSUME NEW v \in Commands, GuestCommand(v) PROVE Goal
    BY <1>0, <2>g, <2>3, WriteCommandCalm, RtcKeyboardAssumption
       DEF GuestCommand, m
  <2>4. ASSUME NEW n \in CodeLengths, KeyPressed(n) PROVE Goal
    BY <1>0, <2>g, <2>4, ScancodeTidy DEF KeyPressed, m
  <2>5. ASSUME NEW a \in CmosAddresses, GuestCmosSelect(a) PROVE Goal
    BY <1>0, <2>h, <2>5, SelectInStep, RtcKeyboardAssumption
       DEF GuestCmosSelect, m
  <2>6. CASE GuestCmosRead
    BY <1>0, <2>h, <2>6, CmosReadInStep DEF GuestCmosRead, m
  <2>7. ASSUME NEW v \in CmosBytes, GuestCmosWrite(v) PROVE Goal
    BY <1>0, <2>h, <2>7, CmosWriteInStep DEF GuestCmosWrite, m
  <2>8. ASSUME NEW on \in PitUpdates, PitUpdate(on) PROVE Goal
    BY <2>8 DEF Trespasses
  <2>9. ASSUME NEW on \in LegacyChanges, HpetLegacy(on) PROVE Goal
    BY <1>0, <2>h, <2>9, SetInterruptInStep, RtcKeyboardAssumption
       DEF HpetLegacy, m
  <2>10. ASSUME NEW alarm \in BOOLEAN, UipTick(alarm) PROVE Goal
    <3> DEFINE n == CmosUipTimer(m, alarm)
               t == TimerFired(n.timer0)
               o == [n EXCEPT !.timer0 = t]
    <3>1. Good(n) /\ InStep(m, n)
      BY <1>0, UipTimerGood, UipTimerInStep
    <3>2. Become(o)
      BY <2>10 DEF UipTick, m
    <3> HIDE DEF n
    <3>3. PeriodicAgrees(n.cmos, n.timer0) => PeriodicAgrees(n.cmos, t)
      BY <3>1, FiredAgrees DEF Good, MACHINE
    <3> HIDE DEF t
    <3>4. o.ps2 = n.ps2 /\ o.cmos = n.cmos /\ o.timer0 = t
      BY <3>1 DEF Good, MACHINE
    <3>5. InStep(m, o)
      BY <3>1, <3>3, <3>4 DEF InStep
    <3> QED BY <2>h, <3>2, <3>5
  <2>11. CASE Ps2Tick
    BY <1>0, <2>g, <2>11, Ps2TimerTidy DEF Ps2Tick, m
  <2> QED
    BY <1>n, <2>1, <2>2, <2>3, <2>4, <2>5, <2>6, <2>7, <2>8, <2>9, <2>10, <2>11
       DEF Next
<1> QED BY <1>u, <1>n

\* Nothing but a keyboard reset, which empties the output buffer and forgets
\* what else goes with it, brings buffer, flags and queue of the controller out
\* of step, whatever the queue holds and whatever the guest does.
THEOREM ResetAloneConfuses == Spec => OnlyResetConfuses
<1>1. Inv /\ [Next]_vars => [Coherent(ps2) /\ ~ResetSends => Coherent(ps2')]_vars
  BY CoherentStep
<1> QED BY <1>1, AlwaysInv, PTL DEF Spec, OnlyResetConfuses

\* The clock keeps slot 0 in step with its rate, its divider and its enable
\* bit through every register write and every tick, as long as neither the PIT
\* nor the mouse's clock takes the slot.
THEOREM TrespassersAloneDisturb == Spec => OnlyTrespassDisturbs
<1>1. Inv /\ [Next]_vars
        => [PeriodicAgrees(cmos, timer0) /\ ~Trespasses
                => PeriodicAgrees(cmos', timer0')]_vars
  <2> SUFFICES ASSUME Inv, [Next]_vars, PeriodicAgrees(cmos, timer0), ~Trespasses
               PROVE  PeriodicAgrees(cmos', timer0')
    OBVIOUS
  <2> QED BY AgreesStep DEF PeriodicAgrees
<1> QED BY <1>1, AlwaysInv, PTL DEF Spec, OnlyTrespassDisturbs
=============================================================================
