---------------------------- MODULE RtcKeyboard ----------------------------
(***************************************************************************)
(* The keyboard controller and the real-time clock of SVMM.  Both mean to  *)
(* have timers of their own and both use slot 0, with the PIT as a third;  *)
(* the HPET takes the clock's interrupt over in legacy mode.               *)
(***************************************************************************)
EXTENDS Cmos

CONSTANTS
    DataBytes,        \* the bytes the guest writes to port 60h
    Commands,         \* to port 64h
    CodeLengths,      \* the lengths of the make codes of the keys pressed
    CmosAddresses,    \* the registers it selects at port 70h
    CmosBytes,        \* the bytes it writes to port 71h
    PitUpdates,       \* whether the PIT starts (TRUE) or stops slot 0
    LegacyChanges     \* whether the HPET gives the line back (TRUE)

ASSUME RtcKeyboardAssumption ==
    /\ DataBytes \subseteq Byte
    /\ Commands \subseteq Byte
    /\ CodeLengths \subseteq Nat
    /\ CmosAddresses \subseteq 0..127
    /\ CmosBytes \subseteq Byte
    /\ PitUpdates \subseteq BOOLEAN
    /\ LegacyChanges \subseteq BOOLEAN

VARIABLES
    ps2,      \* Ps2
    cmos,     \* Cmos
    timer0,   \* Timers[0]
    lines,    \* the PIC lines 1, 8 and 12
    exited    \* the monitor called exit(-1)

vars == <<ps2, cmos, timer0, lines, exited>>

Machine ==
    [ps2 |-> ps2, cmos |-> cmos, timer0 |-> timer0, lines |-> lines,
     exited |-> exited]

\* A handler of the running monitor.
Become(m) ==
    /\ ~exited
    /\ ps2' = m.ps2
    /\ cmos' = m.cmos
    /\ timer0' = m.timer0
    /\ lines' = m.lines
    /\ exited' = m.exited

-----------------------------------------------------------------------------
\* CmosInitialize registers slot 0 and stops it.
Init ==
    /\ ps2 = Ps2Initialize
    /\ cmos = CmosInitialize
    /\ timer0 = TimerDeactivate(TimerRegister)
    /\ lines = {}
    /\ exited = FALSE

GuestRead == Become(ReadData(Machine))
GuestData(v) == Become(WriteData(Machine, v))
GuestCommand(v) == Become(WriteCommand(Machine, v))
KeyPressed(n) == Become(Ps2GenerateScancode(Machine, n))

GuestCmosSelect(a) == Become(CmosSelect(Machine, a))
GuestCmosRead == Become(CmosRead(Machine))
GuestCmosWrite(v) == Become(CmosWrite(Machine, v))

\* PitIrqTimerUpdate for a counter other than 0, whose timerId is never set.
PitUpdate(on) ==
    Become(IF on THEN [Machine EXCEPT !.timer0 = TimerActivate(@, FALSE)]
           ELSE [Machine EXCEPT !.timer0 = TimerDeactivate(@)])

HpetLegacy(on) == Become(CmosSetInterrupt(Machine, on))

\* Slot 0 is due: the handler of the clock runs whoever started the slot.
UipTick(alarm) ==
    /\ timer0.Active
    /\ LET m == CmosUipTimer(Machine, alarm)
       IN  Become([m EXCEPT !.timer0 = TimerFired(@)])

\* The slot of the keyboard is due.  No one stops it.
Ps2Tick == Become(Ps2TimerHandler(Machine))

Next ==
    \/ GuestRead
    \/ \E v \in DataBytes : GuestData(v)
    \/ \E v \in Commands : GuestCommand(v)
    \/ \E n \in CodeLengths : KeyPressed(n)
    \/ \E a \in CmosAddresses : GuestCmosSelect(a)
    \/ GuestCmosRead
    \/ \E v \in CmosBytes : GuestCmosWrite(v)
    \/ \E on \in PitUpdates : PitUpdate(on)
    \/ \E on \in LegacyChanges : HpetLegacy(on)
    \/ \E alarm \in BOOLEAN : UipTick(alarm)
    \/ Ps2Tick

Spec == Init /\ [][Next]_vars

\* TimerTick finds an active slot due again and again, and the guest reads
\* what the controller has for it.
FairTick == []<>(exited \/ ps2.TimerPending = 0) \/ []<><<Ps2Tick>>_vars
FairRead == []<>(exited \/ ~Full(ps2)) \/ []<><<GuestRead>>_vars
FairSpec == Spec /\ FairTick /\ FairRead

-----------------------------------------------------------------------------
(***************************************************************************)
(* Properties.                                                             *)
(***************************************************************************)

\* The registers keep their domains; in particular the queue and the keyboard's
\* memory stay within their arrays (ps2.c:49, ps2.c:190).
TypeOK ==
    /\ ps2 \in PS2
    /\ cmos \in CMOS
    /\ timer0 \in TIMER
    /\ lines \subseteq {KEYBOARD_IRQ, RTC_IRQ, MOUSE_IRQ}
    /\ exited \in BOOLEAN

\* A key the keyboard could hand over is never without a timer that will do it:
\* every way to empty the output buffer, to store a byte or to start the clock
\* leaves TimerPending set (ps2.c:34, 89, 108, 196).
NotStranded(p) ==
    p.KeyboardMemoryIndex > 0 /\ p.KeyboardClockEnabled /\ ~Full(p)
        => p.TimerPending = 1
KeyboardNotStranded == NotStranded(ps2)

\* The output side is coherent: a mouse byte and a queue only behind a full
\* buffer, and an unread keyboard byte exactly where port 60h returns it.
Coherent(p) ==
    /\ HoldsMouse(p) => Full(p)
    /\ p.ControllerQueueIndex > 0 => Full(p)
    /\ p.KeyboardBuffer <=> Full(p) /\ ~HoldsMouse(p)

\* Only a keyboard reset, which empties the buffer and forgets the rest
\* (ps2.c:216), ever makes it incoherent.
ResetSends == \E v \in {w \in DataBytes : Resets(w)} : GuestData(v)
OnlyResetConfuses ==
    [][Coherent(ps2) /\ ~ResetSends => Coherent(ps2')]_vars

\* Once the guest only reads, the keyboard's bytes go out as long as its clock
\* runs.
Delivers == Ps2Tick /\ Loads(ps2)
Quiet == GuestRead \/ Ps2Tick \/ \E n \in CodeLengths : KeyPressed(n)
KeyboardDrains ==
    <>[][Quiet]_vars =>
        \/ []<>(exited \/ ps2.KeyboardMemoryIndex = 0
                       \/ ~ps2.KeyboardClockEnabled)
        \/ []<><<Delivers>>_vars

\* The clock's line is up only with a reason in register C, so that the read
\* that clears the reasons (cmos.c:270) makes room for the next edge.
RtcLineHasReason == RTC_IRQ \in lines => "IRQF" \in cmos.StatC

\* Slot 0 as the clock's registers want it: periodic while the periodic
\* interrupt is enabled, a rate selected and the divider running, and not
\* periodic without the first two.
PeriodicAgrees(c, t) ==
    /\ PERIODIC \in c.StatB /\ c.Rate /\ c.Divider => t.Active /\ ~t.OneShot
    /\ t.Active /\ ~t.OneShot => PERIODIC \in c.StatB /\ c.Rate

\* The clock keeps its slot in step with its registers through every write
\* (CraChange, cmos.c:378) and every tick; only those who use the slot by
\* mistake disturb it.
Trespasses ==
    \/ \E on \in PitUpdates : PitUpdate(on)
    \/ ps2'.MouseClockEnabled /\ ~ps2.MouseClockEnabled
OnlyTrespassDisturbs ==
    [][PeriodicAgrees(cmos, timer0) /\ ~Trespasses
          => PeriodicAgrees(cmos', timer0')]_vars
=============================================================================
