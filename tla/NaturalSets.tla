----------------------------- MODULE NaturalSets -----------------------------
(* Sets of natural numbers have least members, and bounded ones greatest   *)
(* members: what the other proofs use in place of induction.               *)
EXTENDS Integers, WellFoundedInduction, TLAPS

Below == {e \in Nat \X Nat : e[1] < e[2]}

LEMMA BelowWellFounded == IsWellFoundedOn(Below, Nat)
  <1>1. Below = OpToRel(<, Nat)
    BY DEF Below, OpToRel
  <1> QED BY <1>1, NatLessThanWellFounded

\* A set of natural numbers that is not empty has a least one.
LEMMA Least ==
  ASSUME NEW T, T \subseteq Nat, T # {}
  PROVE  \E x \in T : \A y \in T : x <= y
  <1>1. PICK x \in T : \A y \in T : ~(<<y, x>> \in Below)
    BY BelowWellFounded, WFMin
  <1>2. ASSUME NEW y \in T PROVE x <= y
    <2>1. x \in Nat /\ y \in Nat
      OBVIOUS
    <2>2. <<y, x>> \in Nat \X Nat /\ <<y, x>>[1] = y /\ <<y, x>>[2] = x
      BY <2>1
    <2>3. ~(y < x)
      BY <1>1, <2>2 DEF Below
    <2> QED BY <2>1, <2>3
  <1> QED BY <1>2

\* A set of natural numbers with a bound has a greatest one.
LEMMA Greatest ==
  ASSUME NEW T, T \subseteq Nat, T # {}, NEW bound \in Nat, \A y \in T : y <= bound
  PROVE  \E x \in T : \A y \in T : x >= y
  <1> DEFINE Distances == {bound - y : y \in T}
  <1>1. Distances \subseteq Nat /\ Distances # {}
    <2>1. PICK y \in T : TRUE
      OBVIOUS
    <2>2. bound - y \in Distances
      BY <2>1
    <2>3. \A z \in T : bound - z \in Nat
      OBVIOUS
    <2> QED BY <2>2, <2>3
  <1>2. PICK d \in Distances : \A e \in Distances : d <= e
    BY <1>1, Least
  <1>3. PICK x \in T : d = bound - x
    OBVIOUS
  <1>4. ASSUME NEW y \in T PROVE x >= y
    <2>1. bound - x <= bound - y
      BY <1>2, <1>3
    <2>2. x \in Nat /\ y \in Nat
      OBVIOUS
    <2> QED BY <2>1, <2>2
  <1> QED BY <1>4
=============================================================================
