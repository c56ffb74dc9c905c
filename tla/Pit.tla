--------------------------------- MODULE Pit ---------------------------------
(***************************************************************************)
(* The 8254 of SVMM (pit.c) as operators on the machine records of         *)
(* TimerTable, which have for it the fields                                *)
(*     pit      struct Pit                                                 *)
(*     exited   whether the monitor died of a division by zero             *)
(* Bytes have BYTE values.  Of the time since a count was loaded it is     *)
(* kept which transition of the output it has reached; what the running    *)
(* count shows at a moment is arbitrary.                                   *)
(***************************************************************************)
EXTENDS TimerTable

CONSTANTS
    BYTE,      \* values of a byte, 256
    PitSlot,   \* timerId of counter 0
    Slot0      \* timerId of the other counters, which is never assigned: slot 0

ASSUME PitAssumption ==
    /\ BYTE \in Nat /\ BYTE > 1
    /\ {PitSlot, Slot0} \subseteq Slots /\ PitSlot # Slot0

WORD == BYTE * BYTE
DWORD == WORD * WORD
PIT_IRQ == 0
Counters == 0..2
Mode == 0..5

\* RW_STATE_LSB, _MSB, _WORD0 and _WORD1.
RW_STATE == 1..4
LSB == 1
MSB == 2
WORD0 == 3
WORD1 == 4

\* struct Counter; 0 in countLatched is not latched.  elapsed is the time since
\* countLoadTime at the last transition, next that of nextTransitionTime: half a
\* period, a period or more, and with half a period on top.  wide is kept for the
\* properties: the value loaded last had more than two bytes.
Elapsed == {"loaded", "half", "full", "full and half"}
COUNTER ==
    [count : 0..WORD, countWritten : BOOLEAN, mode : Mode, rwMode : RW_STATE,
     readState : RW_STATE, writeState : RW_STATE, inlatch : 0..(BYTE - 1),
     countLatched : 0..4, outlatch : 0..(WORD - 1), statusLatched : BOOLEAN,
     gate : 0..1, wide : BOOLEAN, elapsed : Elapsed, next : Elapsed \cup {"never"}]
PIT == [counter : [Counters -> COUNTER], InterruptEnabled : BOOLEAN]

PitInitialize ==
    [counter |-> [ch \in Counters |->
        [count |-> 0, countWritten |-> FALSE, mode |-> 4, rwMode |-> LSB,
         readState |-> LSB, writeState |-> LSB, inlatch |-> 0,
         countLatched |-> 0, outlatch |-> 0, statusLatched |-> FALSE,
         gate |-> 1, wide |-> FALSE, elapsed |-> "loaded", next |-> "loaded"]],
     InterruptEnabled |-> TRUE]

TimerId(ch) == IF ch = 0 THEN PitSlot ELSE Slot0
PutCounter(m, ch, c) == [m EXCEPT !.pit.counter[ch] = c]

\* Modes 2 and 3 divide by the count.
Divides(c) == c.mode \in {2, 3} /\ c.count = 0

-----------------------------------------------------------------------------
(***************************************************************************)
(* The output and the interrupt.                                           *)
(***************************************************************************)

\* Whether the time is less than the count.
Before(c) == c.elapsed \in {"loaded", "half"} /\ c.count # 0

\* The next transition of the output, or none.
PitGetNextTransitionTime(c) ==
    CASE c.mode = 2 -> "full"
      [] c.mode = 3 ->
             CASE c.elapsed = "loaded" /\ c.count > 1 -> "half"
               [] c.elapsed = "full" /\ c.count > 1 -> "full and half"
               [] OTHER -> "full"
      [] OTHER -> IF Before(c) THEN "full" ELSE "never"

PitGetOut(c) ==
    CASE c.mode = 0 -> ~Before(c)
      [] c.mode = 1 -> Before(c)
      [] c.mode = 3 -> c.elapsed \in {"loaded", "full"}

\* Timer: the call comes from the slot's handler.  Whatever the counter, it is
\* line 0 that follows.
PitLine(m, c, Timer) ==
    CASE ~m.pit.InterruptEnabled -> m
      [] m.pit.InterruptEnabled /\ c.mode \in {2, 4, 5} ->
             IF Timer THEN PicRaiseIrq(PicLowerIrq(m, PIT_IRQ), PIT_IRQ) ELSE m
      [] OTHER -> IF PitGetOut(c) THEN PicRaiseIrq(m, PIT_IRQ)
                  ELSE PicLowerIrq(m, PIT_IRQ)
PitIrqTimerUpdate(m, ch, Timer, ns) ==
    LET c == m.pit.counter[ch]
        next == PitGetNextTransitionTime(c)
        n == PutCounter(PitLine(m, c, Timer), ch, [c EXCEPT !.next = next])
    IN  CASE Divides(c) -> [m EXCEPT !.exited = TRUE]
          [] ~Divides(c) /\ next = "never" -> TimerDeactivate(n, TimerId(ch))
          [] OTHER -> TimerActivate(n, TimerId(ch), ns, FALSE)

\* The slot of counter 0 is due: the time is that of its next transition.
PitTimerHandler(m, ns) ==
    PitIrqTimerUpdate([m EXCEPT !.pit.counter[0].elapsed = m.pit.counter[0].next],
                      0, TRUE, ns)

-----------------------------------------------------------------------------
(***************************************************************************)
(* Ports 40h to 43h and 61h.                                               *)
(***************************************************************************)

\* Mutant: a count of zero is zero.
PitLoadCountZero(m, ch, Value, ns) ==
    PitIrqTimerUpdate(
        PutCounter(m, ch, [m.pit.counter[ch] EXCEPT
            !.count = Value % WORD, !.countWritten = TRUE, !.wide = Value >= WORD,
            !.elapsed = "loaded"]),
        ch, FALSE, ns)

\* A value with two low bytes of zero is a count of zero, unless it is zero itself.
PitLoadCount(m, ch, Value, ns) ==
    PitIrqTimerUpdate(
        PutCounter(m, ch, [m.pit.counter[ch] EXCEPT
            !.count = IF Value = 0 THEN WORD ELSE Value % WORD,
            !.countWritten = TRUE, !.wide = Value >= WORD, !.elapsed = "loaded"]),
        ch, FALSE, ns)

\* A rising gate starts the counters that wait for it; the value always goes to
\* counter 2, the only one with a port for it.
PitSetGate(m, Value, ns) ==
    LET c == m.pit.counter[2]
        loaded == PutCounter(m, 2, [c EXCEPT !.elapsed = "loaded"])
        n == IF c.mode \in {1, 2, 3, 5} /\ c.gate < Value
             THEN PitIrqTimerUpdate(loaded, 2, FALSE, ns) ELSE m
    IN  [n EXCEPT !.pit.counter[2].gate = Value]

\* Only counters 0 and 2 have a data port: 41h is that of counter 0 as well.  The
\* main loop passes four bytes of an OUT of any size (SVMM.c:848): the value is a
\* double word, and only the loads of two bytes cut it down.
PortCounter(Address) == IF Address \in {2, 3} THEN 2 ELSE 0
PitWriteData(m, Address, Value, ns) ==
    LET ch == PortCounter(Address)
        c == m.pit.counter[ch]
        then(n, state) == [n EXCEPT !.pit.counter[ch].writeState = state]
    IN  CASE c.writeState = LSB -> PitLoadCount(m, ch, Value, ns)
          [] c.writeState = MSB -> PitLoadCount(m, ch, (Value * BYTE) % DWORD, ns)
          [] c.writeState = WORD0 ->
                 PutCounter(m, ch, [c EXCEPT !.inlatch = Value % BYTE, !.writeState = WORD1])
          [] c.writeState = WORD1 ->
                 then(PitLoadCount(m, ch, c.inlatch + (Value % BYTE) * BYTE, ns), WORD0)

\* Mutant: a second latch command takes the count again.
PitLatchCountAgain(m, ch, now) ==
    LET c == m.pit.counter[ch]
    IN  IF Divides(c) THEN [m EXCEPT !.exited = TRUE]
        ELSE PutCounter(m, ch, [c EXCEPT !.outlatch = now, !.countLatched = c.rwMode])

\* now is what the running count shows.
PitLatchCount(m, ch, now) ==
    LET c == m.pit.counter[ch]
    IN  CASE c.countLatched # 0 -> m
          [] c.countLatched = 0 /\ Divides(c) -> [m EXCEPT !.exited = TRUE]
          [] OTHER -> PutCounter(m, ch, [c EXCEPT !.outlatch = now,
                                                  !.countLatched = c.rwMode])
PitLatchStatus(m, ch) ==
    LET c == m.pit.counter[ch]
    IN  CASE c.statusLatched -> m
          [] ~c.statusLatched /\ Divides(c) -> [m EXCEPT !.exited = TRUE]
          [] OTHER -> PutCounter(m, ch, [c EXCEPT !.statusLatched = TRUE])

\* Control words: read-back of a set of counters, latch, and set mode.
PitReadBack(m, which, count, status, now) ==
    LET counted(n, ch) ==
            IF ch \in which /\ count THEN PitLatchCount(n, ch, now) ELSE n
        latch(n, ch) ==
            IF ch \in which /\ status THEN PitLatchStatus(counted(n, ch), ch)
            ELSE counted(n, ch)
    IN  latch(latch(latch(m, 0), 1), 2)

PitSetMode(m, ch, access, bits) ==
    PutCounter(m, ch, [m.pit.counter[ch] EXCEPT
        !.readState = access, !.writeState = access, !.rwMode = access,
        !.mode = IF bits > 5 THEN bits - 4 ELSE bits])

\* Reads.  A latched status comes first, then a latched count.  Of a count of
\* two bytes that is not latched, only the first read returns the low one.
PitReadData(m, Address) ==
    LET ch == PortCounter(Address)
        c == m.pit.counter[ch]
        running == [c EXCEPT !.readState = IF @ = WORD0 THEN MSB
                                           ELSE IF @ = WORD1 THEN WORD0 ELSE @]
    IN  CASE c.statusLatched -> PutCounter(m, ch, [c EXCEPT !.statusLatched = FALSE])
          [] ~c.statusLatched /\ c.countLatched # 0 ->
                 PutCounter(m, ch, [c EXCEPT
                     !.countLatched = IF @ = WORD0 THEN MSB ELSE 0])
          [] OTHER -> IF Divides(c) THEN [m EXCEPT !.exited = TRUE]
                      ELSE PutCounter(m, ch, running)
PitReadPort61(m) ==
    IF Divides(m.pit.counter[2]) THEN [m EXCEPT !.exited = TRUE] ELSE m

PitSetInterrupt(m, Enable) == [m EXCEPT !.pit.InterruptEnabled = Enable]
=============================================================================
