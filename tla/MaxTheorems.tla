------------------------------ MODULE MaxTheorems ------------------------------
(***************************************************************************)
(* What Max of the community modules returns, for the proofs about the     *)
(* "largest in use plus one" allocations: tunnel addresses and row ids.    *)
(***************************************************************************)
EXTENDS Integers, FiniteSetsExt, WellFoundedInduction, TLAPS

(* A set of naturals that is not empty has a least element. *)
LEMMA LeastElement ==
  ASSUME NEW T, T \subseteq Nat, T # {}
  PROVE  \E x \in T : \A y \in T : x <= y
<1> DEFINE R == OpToRel(<, Nat)
<1>1. IsWellFoundedOn(R, Nat)
  BY NatLessThanWellFounded
<1>2. \A x, y \in Nat : <<y, x>> \in R <=> y < x
  BY DEF OpToRel
<1> HIDE DEF R
<1>3. PICK x \in T : \A y \in T : ~ (<<y, x>> \in R)
  BY <1>1, WFMin
<1>4. ASSUME NEW y \in T PROVE x <= y
  <2>1. ~ (<<y, x>> \in R)
    BY <1>3
  <2>2. x \in Nat /\ y \in Nat
    OBVIOUS
  <2>3. ~ (y < x)
    BY <2>1, <2>2, <1>2
  <2> QED BY <2>2, <2>3
<1> QED BY <1>4

(* Max picks the greatest element of a set of naturals with an upper bound. *)
LEMMA MaxIsGreatest ==
  ASSUME NEW S, NEW b \in Nat, S \subseteq 0..b, S # {}
  PROVE  Max(S) \in S /\ \A y \in S : Max(S) >= y
<1> DEFINE T == {u \in Nat : \A x \in S : x <= u}
<1>1. b \in T
  OBVIOUS
<1>2. PICK m \in T : \A y \in T : m <= y
  BY <1>1, LeastElement
<1>3. m \in S
  <2> SUFFICES ASSUME m \notin S PROVE FALSE
    OBVIOUS
  <2>1. PICK x \in S : TRUE
    OBVIOUS
  <2>2. m > 0
    BY <2>1
  <2>3. m - 1 \in T
    BY <2>2
  <2> QED BY <2>3, <1>2
<1> QED BY <1>3 DEF Max
================================================================================
