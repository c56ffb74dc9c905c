----------------------------- MODULE MCApicBus -----------------------------
(***************************************************************************)
(* Instances of ApicBus for TLC.                                           *)
(***************************************************************************)
EXTENDS ApicBus

Rte(v, level, masked) ==
    [MaskedEntry EXCEPT !.Vector = v, !.Level = level, !.Masked = masked]
LowPri(v) ==
    [Rte(v, FALSE, FALSE) EXCEPT !.Delivery = "low_pri", !.Logical = TRUE]

\* Two classes, two vectors of one class, both trigger modes.
Entries == {Rte(48, FALSE, FALSE), Rte(49, TRUE, FALSE), Rte(49, TRUE, TRUE),
            Rte(64, FALSE, FALSE)}
OddEntries == {Rte(48, TRUE, FALSE), Rte(48, FALSE, FALSE), LowPri(64),
               Rte(15, FALSE, FALSE)}
PhysicalZero == {{}}
SomeDestinations == {{}, {0}}

NoValues == {}
Bit0 == {{0}}
Svrs == {[class |-> 15, enable |-> TRUE, focusDisable |-> TRUE],
         [class |-> 15, enable |-> FALSE, focusDisable |-> FALSE]}
FocusOff == {[class |-> 15, enable |-> TRUE, focusDisable |-> TRUE]}
Ipi(v, mode, shorthand) ==
    [vector |-> v, logical |-> FALSE, mode |-> mode, level |-> FALSE,
     shorthand |-> shorthand]
SelfIpi == {Ipi(80, "fixed", "self")}
OddIpis == {Ipi(80, "fixed", "all"), Ipi(80, "other", "apicid"),
            Ipi(64, "init", "apicid"), Ipi(64, "fixed", "all_no_self"),
            Ipi(64, "fixed", "self")}
Lvts == {[Vector |-> 80, Masked |-> FALSE, Periodic |-> TRUE],
         [Vector |-> 80, Masked |-> FALSE, Periodic |-> FALSE]}
=============================================================================
