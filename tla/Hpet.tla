-------------------------------- MODULE Hpet --------------------------------
(***************************************************************************)
(* The HPET of SVMM (hpet.c) as operators on the machine records of Pit,   *)
(* which have for it the field                                             *)
(*     hpet     struct HPET                                                *)
(*     rtc      whether the clock may use its line (Cmos.InterruptEnabled) *)
(* Of the counter, the comparators and the periods nothing is kept: a slot *)
(* is due when the timer table says so, and whether its handler finds the  *)
(* comparator passed (which only a clock that went back keeps it from) is  *)
(* an input.  A timer that writes to memory instead of a line is external. *)
(***************************************************************************)
EXTENDS Pit

CONSTANTS
    Blocks,         \* the timers in use, of 0..2
    HpetSlot(_),    \* TimerId of a timer
    Routes          \* lines a timer may be routed to

ASSUME HpetAssumption ==
    /\ Blocks \subseteq 0..2
    /\ \A b \in Blocks : HpetSlot(b) \in Slots \ {PitSlot, Slot0}
    /\ Routes \subseteq 0..31

RTC_IRQ == 8

\* The bits of ConfigCapabilities something depends on, and the route.
CONF == {"EDGE_LEVEL", "IRQ_ENABLE", "PERIODIC_ENABLED", "FSB_ENABLE"}
HPET_TIMER_BLOCK == [conf : SUBSET CONF, route : Routes]
HPET ==
    [GlobalConfiguration : SUBSET {"ENABLED", "LEGACY"},
     InterruptStatus : SUBSET Blocks,
     Timer : [Blocks -> HPET_TIMER_BLOCK]]
HpetInitialize(route) ==
    [GlobalConfiguration |-> {}, InterruptStatus |-> {},
     Timer |-> [b \in Blocks |-> [conf |-> {}, route |-> route]]]

Enabled(m) == "ENABLED" \in m.hpet.GlobalConfiguration
Conf(m, b) == m.hpet.Timer[b].conf

-----------------------------------------------------------------------------

\* HPET_CONFIG_LEGACY, a bit of the global configuration, is looked for in the
\* configuration of the timer, where that bit says level triggered.
IrqNumber(m, b) ==
    IF "EDGE_LEVEL" \in Conf(m, b) THEN IF b = 0 THEN PIT_IRQ ELSE RTC_IRQ
    ELSE m.hpet.Timer[b].route

HpetUpdateIrq(m, b, RaiseIrq) ==
    LET conf == Conf(m, b)
        irq == IrqNumber(m, b)
        n == IF "EDGE_LEVEL" \in conf
             THEN [m EXCEPT !.hpet.InterruptStatus = @ \cup {b}] ELSE m
    IN  CASE ~(RaiseIrq /\ Enabled(m)) -> PicLowerIrq(m, irq)
          [] RaiseIrq /\ Enabled(m)
             /\ ("IRQ_ENABLE" \notin conf \/ "FSB_ENABLE" \in conf) -> n
          [] OTHER -> IF "EDGE_LEVEL" \in conf THEN PicRaiseIrq(n, irq)
                      ELSE PicRaiseIrq(PicLowerIrq(n, irq), irq)

\* What makes a timer periodic is passed for what makes a slot one-shot.
HpetUpdateTimer(m, b, ns) ==
    TimerActivate(m, HpetSlot(b), ns, "PERIODIC_ENABLED" \in Conf(m, b))
HpetDisableTimer(m, b) ==
    HpetUpdateIrq(TimerDeactivate(m, HpetSlot(b)), b, FALSE)
HpetTimerHandler(m, b, passed, ns) ==
    HpetUpdateTimer(IF passed THEN HpetUpdateIrq(m, b, TRUE) ELSE m, b, ns)

\* F applied for every timer in use, in order.
ForBlocks(m, F(_, _)) ==
    LET for(n, b) == IF b \in Blocks THEN F(n, b) ELSE n
    IN  for(for(for(m, 0), 1), 2)

\* The timers are switched before the configuration says so: an interrupt that
\* is pending lowers its line when the timers are enabled.
HpetEnable(m, ns) ==
    LET on(n, b) ==
            HpetUpdateTimer(IF "IRQ_ENABLE" \in Conf(n, b)
                               /\ b \in n.hpet.InterruptStatus
                            THEN HpetUpdateIrq(n, b, TRUE) ELSE n, b, ns)
    IN  ForBlocks(m, on)
HpetSwitch(m, value, ns) ==
    CASE "ENABLED" \in value /\ ~Enabled(m) -> HpetEnable(m, ns)
      [] Enabled(m) /\ "ENABLED" \notin value -> ForBlocks(m, HpetDisableTimer)
      [] OTHER -> m

CmosSetInterrupt(m, Enable) == [m EXCEPT !.rtc = Enable]

\* Mutant: the interval timer does not get its line back.
HpetLegacyStays(m, value) ==
    LET legacy == "LEGACY" \in m.hpet.GlobalConfiguration
    IN  IF ("LEGACY" \in value) = legacy THEN m
        ELSE CmosSetInterrupt(PitSetInterrupt(m, FALSE), legacy)

\* In legacy mode the interval timer and the clock are kept off their lines.
HpetLegacy(m, value) ==
    LET legacy == "LEGACY" \in m.hpet.GlobalConfiguration
    IN  IF ("LEGACY" \in value) = legacy THEN m
        ELSE CmosSetInterrupt(PitSetInterrupt(m, legacy), legacy)
WriteConfigure(m, value, ns) ==
    LET n == HpetLegacy(HpetSwitch(m, value, ns), value)
    IN  [n EXCEPT !.hpet.GlobalConfiguration = value]

WriteStatus(m, value) ==
    LET clear(n, b) ==
            IF b \in value /\ b \in n.hpet.InterruptStatus
            THEN [HpetUpdateIrq(n, b, FALSE) EXCEPT
                     !.hpet.InterruptStatus = @ \ {b}]
            ELSE n
    IN  ForBlocks(m, clear)

\* Mutant: an interrupt is enabled without a look at whether it is pending.
WriteTimerConfigQuiet(m, b, conf, route, ns) ==
    LET n == [m EXCEPT !.hpet.Timer[b] = [conf |-> conf, route |-> route],
                       !.hpet.InterruptStatus =
                           IF "FSB_ENABLE" \in conf \/ "EDGE_LEVEL" \notin conf
                           THEN @ \ {b} ELSE @]
    IN  IF Enabled(m) THEN HpetUpdateTimer(n, b, ns) ELSE n

WriteTimerConfig(m, b, conf, route, ns) ==
    LET n == [m EXCEPT !.hpet.Timer[b] = [conf |-> conf, route |-> route],
                       !.hpet.InterruptStatus =
                           IF "FSB_ENABLE" \in conf \/ "EDGE_LEVEL" \notin conf
                           THEN @ \ {b} ELSE @]
        u == IF "IRQ_ENABLE" \in conf
             THEN HpetUpdateIrq(n, b, b \in n.hpet.InterruptStatus) ELSE n
    IN  IF Enabled(m) THEN HpetUpdateTimer(u, b, ns) ELSE n
WriteCompare(m, b, ns) == IF Enabled(m) THEN HpetUpdateTimer(m, b, ns) ELSE m
=============================================================================
