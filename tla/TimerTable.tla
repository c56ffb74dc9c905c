----------------------------- MODULE TimerTable -----------------------------
(***************************************************************************)
(* The timer table of SVMM (timer.c) with the time each slot still waits,  *)
(* as operators on machine records with the fields                         *)
(*     slots   the table                                                   *)
(*     lines   the interrupt lines of the PIC that are up                  *)
(* Periods are rounded up to at most MaxWait; devices pass absolute times  *)
(* for periods, so that any period may follow any other.                   *)
(***************************************************************************)
EXTENDS Integers

CONSTANTS
    TimersIdx,   \* the number of slots in use
    MaxWait      \* the longest period

ASSUME TimerTableAssumption ==
    /\ TimersIdx \in 1..32
    /\ MaxWait \in Nat \ {0}

Slots == 0..(TimersIdx - 1)

Wait == 1..MaxWait
TIMER ==
    [Nseconds : 0..MaxWait, TimeToFire : 0..MaxWait,
     Active : BOOLEAN, OneShot : BOOLEAN]

\* Slots that wait for their device, and slots that run from the start.
TimerCreate == [Nseconds |-> 0, TimeToFire |-> 0, Active |-> FALSE, OneShot |-> FALSE]
TimerRegister(ns) ==
    [Nseconds |-> ns, TimeToFire |-> ns, Active |-> TRUE, OneShot |-> FALSE]

TimerDeactivated == [TimerRegister(MaxWait) EXCEPT !.Active = FALSE]

\* Mutant: the slot waits anew.
TimerActivateAnew(m, i, ns, oneShot) ==
    [m EXCEPT !.slots[i] = [Nseconds |-> ns, TimeToFire |-> ns,
                            Active |-> TRUE, OneShot |-> oneShot]]

\* The time the slot still waits is left as it is.
TimerActivate(m, i, ns, oneShot) ==
    [m EXCEPT !.slots[i] =
        [@ EXCEPT !.Active = TRUE, !.Nseconds = ns, !.OneShot = oneShot]]

\* The two other assignments go to the slot behind the last.
TimerDeactivate(m, i) == [m EXCEPT !.slots[i].Active = FALSE]

\* The parts of a turn of the loop of TimerTick; passed is what the total of
\* nanoseconds has grown to.  A one-shot slot is stopped after its handler, even
\* if the handler has started it again.
TimerWaits(m, i, passed) ==
    [m EXCEPT !.slots[i].TimeToFire = IF @ > passed THEN @ - passed ELSE 0]
TimerDue(m, i, passed) == m.slots[i].Active /\ m.slots[i].TimeToFire <= passed
TimerFired(m, i) ==
    [m EXCEPT !.slots[i] =
        [m.slots[i] EXCEPT !.Active = @ /\ ~m.slots[i].OneShot,
                           !.TimeToFire = m.slots[i].Nseconds]]

\* The lines of the PIC.
PicLowerIrq(m, irq) == [m EXCEPT !.lines = @ \ {irq}]
PicRaiseIrq(m, irq) == [m EXCEPT !.lines = @ \cup {irq}]
=============================================================================
