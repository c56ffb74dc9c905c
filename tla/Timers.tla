------------------------------- MODULE Timers -------------------------------
(***************************************************************************)
(* The interval timer and the HPET of SVMM on the timer table that the     *)
(* ticks of the hypervisor drive.  The guest keeps to the devices and the  *)
(* values of one of the Sessions.                                          *)
(***************************************************************************)
EXTENDS Hpet

CONSTANTS
    Sessions,   \* what the guest is at
    Passes      \* what a tick takes off the time a slot waits

ASSUME TimersAssumption ==
    /\ \A s \in Sessions :
           /\ s.counters \subseteq Counters
           /\ s.modes \subseteq 0..7
           /\ s.accesses \subseteq {LSB, MSB, WORD0}
           /\ s.values \subseteq 0..(DWORD - 1)
           /\ s.ports \subseteq 0..3
           /\ s.shows \subseteq 0..(WORD - 1)
           /\ s.global \subseteq SUBSET {"ENABLED", "LEGACY"}
           /\ s.confs \subseteq SUBSET CONF
           /\ s.passed \subseteq BOOLEAN
    /\ Passes \subseteq Nat \ {0}

VARIABLES
    slots,      \* Timers
    lines,      \* of the PIC
    pit, hpet,  \* Pit and Hpet
    rtc,        \* Cmos.InterruptEnabled
    exited,     \* the monitor is gone
    parity,     \* of the number of ticks so far
    fired,      \* the slots whose handler the last step called
    session     \* of the guest

vars == <<slots, lines, pit, hpet, rtc, exited, parity, fired, session>>
Machine ==
    [slots |-> slots, lines |-> lines, pit |-> pit, hpet |-> hpet, rtc |-> rtc,
     exited |-> exited]
Become(m) ==
    /\ slots' = m.slots
    /\ lines' = m.lines
    /\ pit' = m.pit
    /\ hpet' = m.hpet
    /\ rtc' = m.rtc
    /\ exited' = m.exited
    /\ UNCHANGED session

Init ==
    /\ slots = [i \in Slots |-> IF i = Slot0 THEN TimerDeactivated ELSE TimerCreate]
    /\ lines = {}
    /\ pit = PitInitialize
    /\ \E route \in Routes : hpet = HpetInitialize(route)
    /\ rtc = TRUE
    /\ exited = FALSE
    /\ parity = 0
    /\ fired = {}
    /\ session \in Sessions

-----------------------------------------------------------------------------
(***************************************************************************)
(* The tick of the hypervisor.                                             *)
(***************************************************************************)

\* The handler of slot 0 is that of the clock, in module Cmos.
Handler(m, i, passed, ns) ==
    CASE i = PitSlot -> PitTimerHandler(m, ns)
      [] i # PitSlot /\ \E b \in Blocks : HpetSlot(b) = i ->
             HpetTimerHandler(m, CHOOSE b \in Blocks : HpetSlot(b) = i, passed, ns)
      [] OTHER -> m
TimerTurn(m, i, pass, passed, ns) ==
    CASE ~m.slots[i].Active -> m
      [] m.slots[i].Active /\ ~TimerDue(m, i, pass) -> TimerWaits(m, i, pass)
      [] OTHER -> TimerFired(Handler(TimerWaits(m, i, pass), i, passed, ns), i)
TimerRound(t, i, pass, passed, ns) ==
    [m |-> TimerTurn(t.m, i, pass, passed, ns),
     fired |-> IF TimerDue(t.m, i, pass) THEN t.fired \cup {i} ELSE t.fired]
TimerTick(m, pass, passed, ns) ==
    LET f[i \in 0..TimersIdx] ==
            IF i = 0 THEN [m |-> m, fired |-> {}]
            ELSE TimerRound(f[i - 1], i - 1, pass, passed, ns)
    IN  f[TimersIdx]
Ticked ==
    {TimerTick(Machine, pass, passed, ns) :
        pass \in Passes, passed \in session.passed, ns \in Wait}
Tick ==
    /\ \E t \in Ticked : Become(t.m) /\ fired' = t.fired
    /\ parity' = 1 - parity

-----------------------------------------------------------------------------
(***************************************************************************)
(* The guest.                                                              *)
(***************************************************************************)

Guest(m) == Become(m) /\ fired' = {} /\ UNCHANGED parity

WritePitData ==
    \E a \in session.ports, v \in session.values, ns \in Wait :
        Guest(PitWriteData(Machine, a, v, ns))
WritePitControl ==
    \E ch \in session.counters :
        \/ \E access \in session.accesses, mode \in session.modes :
               Guest(PitSetMode(Machine, ch, access, mode))
        \/ \E now \in session.shows : Guest(PitLatchCount(Machine, ch, now))
        \/ \E now \in session.shows, count, status \in BOOLEAN :
               Guest(PitReadBack(Machine, {ch}, count, status, now))
ReadPitData == \E a \in session.ports : Guest(PitReadData(Machine, a))
Port61 ==
    /\ session.ports # {}
    /\ \/ Guest(PitReadPort61(Machine))
       \/ \E v \in 0..1, ns \in Wait : Guest(PitSetGate(Machine, v, ns))

WriteHpetConfigure ==
    \E value \in session.global, ns \in Wait : Guest(WriteConfigure(Machine, value, ns))
WriteHpetStatus ==
    /\ session.global # {}
    /\ \E b \in Blocks : Guest(WriteStatus(Machine, {b}))
WriteHpetTimer ==
    \E b \in Blocks, ns \in Wait :
        \/ \E conf \in session.confs, route \in Routes :
               Guest(WriteTimerConfig(Machine, b, conf, route, ns))
        \/ session.confs # {} /\ Guest(WriteCompare(Machine, b, ns))

Next ==
    /\ ~exited
    /\ \/ Tick
       \/ WritePitData
       \/ WritePitControl
       \/ ReadPitData
       \/ Port61
       \/ WriteHpetConfigure
       \/ WriteHpetStatus
       \/ WriteHpetTimer

\* The hypervisor's timer exits the guest again and again, whatever the guest
\* does in between: as long as the monitor runs, the ticks go on.
TicksGoOn == ~exited /\ parity' = 1 - parity
Spec == Init /\ [][Next]_vars /\ WF_parity(TicksGoOn)

-----------------------------------------------------------------------------
(***************************************************************************)
(* Properties.                                                             *)
(***************************************************************************)

\* The state stays in the ranges of the code's structures.
TypeOK ==
    /\ slots \in [Slots -> TIMER]
    /\ lines \subseteq {PIT_IRQ, RTC_IRQ} \cup Routes
    /\ pit \in PIT
    /\ hpet \in HPET
    /\ rtc \in BOOLEAN
    /\ exited \in BOOLEAN
    /\ parity \in 0..1
    /\ fired \subseteq Slots
    /\ session \in Sessions

\* The interval timer divides by its counts.  It dies of it only over a counter that
\* was never loaded, or that one write gave a value of more than two bytes: the code
\* takes a value of zero for a whole period (PitLoadCount) but not one whose two low
\* bytes alone are zero.
DiesUnloadedOrWide ==
    exited => \E ch \in Counters :
                  /\ pit.counter[ch].mode \in {2, 3}
                  /\ pit.counter[ch].countWritten => pit.counter[ch].wide

\* A count that is latched is read as it was latched, whatever is written to
\* the control port between the two bytes of it.
LatchedCountKept ==
    [][\A ch \in Counters :
          LET c == pit.counter[ch]
          IN  c.countLatched # 0 => pit'.counter[ch].outlatch = c.outlatch]_vars

\* The interval timer and the clock have their lines exactly when the HPET does
\* not replace them.
LegacyReplaces ==
    LET legacy == "LEGACY" \in hpet.GlobalConfiguration
    IN  pit.InterruptEnabled = ~legacy /\ rtc = ~legacy

\* Whatever the HPET, the interval timer and the clock keep of one another agrees
\* (HpetWriteHandler with PitSetInterrupt and CmosSetInterrupt).
TimersConsistent == TypeOK /\ LegacyReplaces

\* A level interrupt of the HPET that is neither masked nor written to memory,
\* nor on the line of the interval timer while that has it.
Pending(b) ==
    /\ b \in hpet.InterruptStatus
    /\ Enabled(Machine)
    /\ {"EDGE_LEVEL", "IRQ_ENABLE"} \subseteq Conf(Machine, b)
    /\ "FSB_ENABLE" \notin Conf(Machine, b)
    /\ b = 0 => ~pit.InterruptEnabled
LineUp(b) == IrqNumber(Machine, b) \in lines
OwnLine(b) == \A c \in Blocks \ {b} : IrqNumber(Machine, c) # IrqNumber(Machine, b)

\* A level interrupt of the HPET that becomes pending raises its line, and the
\* line stays up until the guest clears the interrupt or gives its line to another
\* timer.  Only a guest that turns the HPET or its legacy mode on meets a pending
\* interrupt without its line.
PendingRaises ==
    [][\A b \in Blocks :
          LET taken == hpet'.GlobalConfiguration \subseteq hpet.GlobalConfiguration
              own == OwnLine(b) /\ OwnLine(b)'
              held == Pending(b) => LineUp(b)
          IN  taken /\ own /\ held /\ Pending(b)' => LineUp(b)']_vars

\* A slot that stays active fires again and again: a guest that keeps setting
\* its timer up anew does not keep it from firing.
SlotsFire ==
    \A i \in Slots :
        \/ []<>(exited \/ ~slots[i].Active)
        \/ []<>(i \in fired)
=============================================================================
