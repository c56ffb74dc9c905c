------------------------------- MODULE Rounds -------------------------------
(***************************************************************************)
(* Facts about natural numbers that the proofs about loops need.  A loop   *)
(* of the code is a recursive function of the number of rounds; what it    *)
(* computes is shown by looking for the least number that it fails for.    *)
(***************************************************************************)
EXTENDS Integers, TLAPS, WellFoundedInduction

\* A set of naturals that is not empty has a least element.
LEMMA LeastNumber ==
    ASSUME NEW T, T \subseteq Nat, T # {}
    PROVE  \E x \in T : \A y \in T : x <= y
<1>. DEFINE R == OpToRel(<, Nat)
<1>1. IsWellFoundedOn(R, Nat)
  BY NatLessThanWellFounded
<1>2. \A x, y \in Nat : <<y, x>> \in R <=> y < x
  BY DEF OpToRel
<1>3. PICK x \in T : \A y \in T : ~ (<<y, x>> \in R)
  <2>. HIDE DEF R
  <2>. QED BY <1>1, WFMin, Zenon
<1>. HIDE DEF R
<1>4. \A y \in T : ~(y < x)
  BY <1>2, <1>3, Zenon
<1>. QED BY <1>4

\* A set that holds 0 and with a number below n the next one holds all up to n.
LEMMA UpTo ==
    ASSUME NEW n \in Nat, NEW S, 0 \in S,
           \A i \in 0..n : i \in S /\ i < n => i + 1 \in S
    PROVE  \A i \in 0..n : i \in S
<1>. DEFINE T == {i \in 0..n : i \notin S}
<1>1. SUFFICES ASSUME T # {} PROVE FALSE
  OBVIOUS
<1>2. T \subseteq Nat
  OBVIOUS
<1>3. PICK x \in T : \A y \in T : x <= y
  <2>. HIDE DEF T
  <2>. QED BY <1>1, <1>2, LeastNumber, Zenon
<1>4. x \in 1..n /\ x - 1 \in 0..n /\ x - 1 < n /\ x = (x - 1) + 1
  <2>1. x # 0
    OBVIOUS
  <2>. QED BY <2>1
<1>5. x - 1 \in S
  <2>1. x - 1 \notin T
    <3>. HIDE DEF T
    <3>. QED BY <1>2, <1>3, <1>4
  <2>. QED BY <1>4, <2>1
<1>6. x \in S
  BY <1>4, <1>5
<1>. QED BY <1>6

=============================================================================
