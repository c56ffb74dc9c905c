--------------------------- MODULE MCIntrSystem ---------------------------
(***************************************************************************)
(* Instances of IntrSystem for TLC: one line that reaches both             *)
(* controllers and an inter-processor interrupt of another class.          *)
(***************************************************************************)
EXTENDS IntrSystem

OpenOrClosed == {{}, 0..7}
CascadeOn == {{2}}
Intel == {{"intel"}}
AllAccepted == {0..7}
NoValues == {}
Entry(masked) ==
    [Vector |-> 48, Delivery |-> "fixed", Logical |-> FALSE, Level |-> FALSE,
     Irr |-> FALSE, Pending |-> FALSE, Masked |-> masked]
Entries == {Entry(TRUE), Entry(FALSE)}
PhysicalZero == {{}}
SelfIpi == {[vector |-> 64, logical |-> FALSE, mode |-> "fixed",
             level |-> FALSE, shorthand |-> "self"]}
=============================================================================
