-------------------------------- MODULE Cmos --------------------------------
(***************************************************************************)
(* The real-time clock of SVMM (cmos.c) as operators on machine records    *)
(* with the field cmos, and timer0 and lines as in Ps2.  The time itself   *)
(* is left out; what is kept is whether the date and time registers show   *)
(* the clock, or what the guest has written and the clock has not taken    *)
(* over yet.  The one-second and the periodic timer are never registered.  *)
(***************************************************************************)
EXTENDS Ps2

RTC_IRQ == 8

REG_STAT_A == 10
REG_STAT_B == 11
REG_STAT_C == 12

\* The date and time registers with the two century bytes, as opposed to the
\* alarm registers.
TimeRegister == {0, 2, 4, 6, 7, 8, 9, 50, 55}

\* Bits of status register B.
SET == 7
PERIODIC == 6
ALARM == 5
UPDATE == 4
BINARY == 2
HOURS24 == 1

\* CMOS_STATE.  Of status register A: is a rate selected, does the divider run.
CMOS == [CmosAddress : 0..127,
         Rate : BOOLEAN,
         Divider : BOOLEAN,
         StatB : SUBSET (0..7),
         StatC : SUBSET {"IRQF", "AF", "UF"},
         Time : {"clock", "guest"},
         timeval_change : BOOLEAN,
         InterruptEnabled : BOOLEAN]

\* 26h in status register A, 02h in B.
CmosInitialize ==
    [CmosAddress |-> 0, Rate |-> TRUE, Divider |-> TRUE, StatB |-> {HOURS24},
     StatC |-> {}, Time |-> "clock", timeval_change |-> FALSE,
     InterruptEnabled |-> TRUE]

PutCmos(m, c) == [m EXCEPT !.cmos = c]

\* The registers take the time of the clock, or the clock that of the registers.
CmosUpdateClock(c) == [c EXCEPT !.Time = "clock"]
CmosUpdateTimeval(c) == [c EXCEPT !.Time = "clock"]

-----------------------------------------------------------------------------
\* The interrupt of the clock: the flags are recorded, and the line goes up
\* unless the HPET has taken it over.
Flag(c, flags) == IF flags = {} THEN c ELSE [c EXCEPT !.StatC = @ \cup flags \cup {"IRQF"}]
Interrupt(m, flags) ==
    LET n == PutCmos(m, Flag(m.cmos, flags))
    IN  IF flags # {} /\ m.cmos.InterruptEnabled THEN PicRaise(n, {RTC_IRQ})
        ELSE n

\* The timer of slot 0; alarm tells whether the time is that of the alarm.
CmosUipTimer(m, alarm) ==
    Interrupt(PutCmos(m, CmosUpdateClock(m.cmos)),
              {f \in {"UF", "AF"} :
                  \/ f = "UF" /\ UPDATE \in m.cmos.StatB
                  \/ f = "AF" /\ ALARM \in m.cmos.StatB /\ alarm})

CmosSetInterrupt(m, Enable) == PutCmos(m, [m.cmos EXCEPT !.InterruptEnabled = Enable])

\* Mutant: reading register C leaves the line up.
ReadStatCNoLower(m) == PutCmos(m, [m.cmos EXCEPT !.StatC = {}])

\* A read of port 71h: register C is cleared and the line lowered.
ReadStatC(m) ==
    PicLower(PutCmos(m, [m.cmos EXCEPT !.StatC = {}]), RTC_IRQ)
CmosRead(m) == IF m.cmos.CmosAddress = REG_STAT_C THEN ReadStatC(m) ELSE m

\* PeriodicTimerIndex is never set, so the slot is slot 0.
Periodic(m, on) ==
    [m EXCEPT !.timer0 = IF on THEN TimerActivate(@, FALSE)
                         ELSE TimerDeactivate(@)]

\* Mutant: without a rate the timer is left alone.
CraChangeNoStop(m, v) ==
    LET c == [m.cmos EXCEPT !.Rate = v % 16 # 0,
                            !.Divider = Bits(v) \cap {5, 6} # {}]
    IN  IF c.Rate /\ c.Divider
        THEN Periodic(PutCmos(m, c), PERIODIC \in c.StatB)
        ELSE PutCmos(m, c)

CraChange(m, v) ==
    LET c == [m.cmos EXCEPT !.Rate = v % 16 # 0,
                            !.Divider = Bits(v) \cap {5, 6} # {}]
    IN  Periodic(PutCmos(m, c), c.Rate /\ c.Divider /\ PERIODIC \in c.StatB)

\* A date or time register: the clock follows at once, or when SET is cleared.
WriteTime(c) ==
    IF SET \in c.StatB
    THEN [c EXCEPT !.Time = "guest", !.timeval_change = TRUE]
    ELSE CmosUpdateTimeval(c)

\* Bit 3 stays 0, and SET switches the update interrupt off.
NewB(v) == (Bits(v) \ {3}) \ (IF SET \in Bits(v) THEN {UPDATE} ELSE {})
Changed(c, b, bit) == (bit \in c.StatB) # (bit \in b)

CrbChange(m, v) ==
    LET c == m.cmos
        b == NewB(v)
        mode == Changed(c, b, HOURS24) \/ Changed(c, b, BINARY)
        ends == SET \in c.StatB /\ SET \notin b /\ c.timeval_change
        shown == IF mode THEN CmosUpdateClock(c) ELSE c
        kept == IF ends THEN CmosUpdateTimeval(shown) ELSE shown
        n == PutCmos(m, [kept EXCEPT !.StatB = b,
                                     !.timeval_change = @ /\ ~ends])
    IN  CASE Changed(c, b, PERIODIC) /\ PERIODIC \notin b -> Periodic(n, FALSE)
          [] Changed(c, b, PERIODIC) /\ PERIODIC \in b /\ c.Rate ->
                 Periodic(n, TRUE)
          [] OTHER -> n

\* A write to port 70h, and one to port 71h.  The alarm and the two other status
\* registers only keep their value.
CmosSelect(m, a) == PutCmos(m, [m.cmos EXCEPT !.CmosAddress = a])
CmosWrite(m, v) ==
    CASE m.cmos.CmosAddress = REG_STAT_A -> CraChange(m, v)
      [] m.cmos.CmosAddress = REG_STAT_B -> CrbChange(m, v)
      [] m.cmos.CmosAddress \in TimeRegister -> PutCmos(m, WriteTime(m.cmos))
      [] OTHER -> m
=============================================================================
