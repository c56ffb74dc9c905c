------------------------------ MODULE MCTimers ------------------------------
(***************************************************************************)
(* Timers with slot 0 of the clock, slot 1 of the interval timer and slots *)
(* 2 and 3 of two timers of the HPET.                                      *)
(***************************************************************************)
EXTENDS Timers

SlotOf(b) == b + 2

PitGuest(counters, modes, accesses, values, ports, shows) ==
    [counters |-> counters, modes |-> modes, accesses |-> accesses,
     values |-> values, ports |-> ports, shows |-> shows,
     global |-> {}, confs |-> {}, passed |-> {TRUE}]
HpetGuest(ports, global, confs, passed) ==
    [counters |-> {}, modes |-> {}, accesses |-> {}, values |-> {1},
     ports |-> ports, shows |-> {}, global |-> global, confs |-> confs,
     passed |-> passed]

GuestSessions ==
    {PitGuest({0}, Mode \cup {7}, {WORD0}, {0, 1}, {0}, {}),
     PitGuest({0}, {2}, {LSB, MSB, WORD0}, {0}, {0}, {1, 2}),
     PitGuest({0}, {0, 2}, {LSB, MSB}, {2, 4}, {0}, {}),
     PitGuest({1, 2}, {0, 3}, {LSB}, {1}, {1, 2}, {}),
     HpetGuest({}, SUBSET {"ENABLED", "LEGACY"},
               {{"EDGE_LEVEL"}, {"EDGE_LEVEL", "IRQ_ENABLE"}, {"IRQ_ENABLE"}},
               BOOLEAN),
     HpetGuest({0}, {{"ENABLED", "LEGACY"}, {"LEGACY"}, {}},
               {{"EDGE_LEVEL", "IRQ_ENABLE", "PERIODIC_ENABLED"},
                {"IRQ_ENABLE", "FSB_ENABLE"}}, {TRUE})}
=============================================================================
