-------------------------- MODULE PriorityNesting --------------------------
(***************************************************************************)
(* What the local APIC promises its guest: interrupts nest by priority.    *)
(* The vector delivered is always the highest one pending, it preempts     *)
(* only interrupts of a lower class, and interrupts end in the reverse     *)
(* order of their delivery.                                                *)
(***************************************************************************)
EXTENDS Naturals

VARIABLES
    pending,  \* the vectors requested
    active    \* the vectors delivered and not ended

nestingVars == <<pending, active>>

Preempts(v, w) == v \div 16 > w \div 16

Init == pending = {} /\ active = {}

Arrive ==
    /\ pending \subseteq pending'
    /\ pending' \ pending \subseteq 16..255
    /\ UNCHANGED active

Deliver(v) ==
    /\ \A w \in pending : w <= v
    /\ \A w \in active : Preempts(v, w)
    /\ pending' = pending \ {v}
    /\ active' = active \cup {v}

End(v) ==
    /\ \A w \in active \ {v} : Preempts(v, w)
    /\ active' = active \ {v}
    /\ UNCHANGED pending

Next ==
    \/ Arrive
    \/ \E v \in pending : Deliver(v)
    \/ \E v \in active : End(v)

Spec == Init /\ [][Next]_nestingVars
=============================================================================
