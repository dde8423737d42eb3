------------------------------ MODULE Climbing ------------------------------
(***************************************************************************)
(* Induction over numbers without an operator for a parameter: a set of    *)
(* numbers climbs, and a set of numbers has its ends.  What a definition   *)
(* by recursion gives for every input is shown with these, one set per     *)
(* statement.                                                              *)
(***************************************************************************)
EXTENDS Naturals, TLAPS, WellFoundedInduction

Below == {p \in Nat \X Nat : p[1] < p[2]}

LEMMA BelowWellFounded == IsWellFoundedOn(Below, Nat)
  BY NatLessThanWellFounded DEF OpToRel, Below

\* A set that holds 0, and each number up to m whose predecessor it holds, holds
\* them all.
LEMMA Climbs ==
  ASSUME NEW m \in Nat, NEW S, 0 \in S,
         \A n \in 1 .. m : n - 1 \in S => n \in S
  PROVE  \A n \in 0 .. m : n \in S
<1> DEFINE Missing == {n \in 0 .. m : n \notin S}
<1>1. SUFFICES ASSUME Missing # {} PROVE FALSE
  OBVIOUS
<1>2. PICK n \in Missing : \A k \in Missing : ~(<<k, n>> \in Below)
  <2>1. Missing \subseteq Nat
    OBVIOUS
  <2>2. QED
    BY <2>1, <1>1, BelowWellFounded, WFMin
<1>3. n \in Nat /\ n > 0
  OBVIOUS
<1>4. n - 1 \in Missing
  BY <1>3
<1>5. <<n - 1, n>> \in Below
  BY <1>3 DEF Below
<1>6. QED
  BY <1>2, <1>4, <1>5

\* A set of numbers has a least member.
LEMMA HasLeast ==
  ASSUME NEW S, S \subseteq Nat, S # {}
  PROVE  \E n \in S : \A k \in S : n <= k
<1>1. PICK n \in S : \A k \in S : ~(<<k, n>> \in Below)
  BY BelowWellFounded, WFMin
<1>2. ASSUME NEW k \in S PROVE n <= k
  <2>1. k \in Nat /\ n \in Nat /\ <<k, n>> \in Nat \X Nat
    OBVIOUS
  <2>2. ~(k < n)
    BY <1>1, <2>1 DEF Below
  <2>3. QED
    BY <2>1, <2>2
<1>3. QED
  BY <1>2

\* A set of numbers up to m has a greatest member.
LEMMA HasGreatest ==
  ASSUME NEW m \in Nat, NEW S, S \subseteq 0 .. m, S # {}
  PROVE  \E x \in S : \A y \in S : y <= x
<1> DEFINE Left == {m - x : x \in S}
<1>1. Left \subseteq Nat /\ Left # {}
  <2>1. ASSUME NEW x \in S PROVE m - x \in Nat
    <3>1. x \in 0 .. m
      OBVIOUS
    <3>2. QED
      BY <3>1
  <2>2. QED
    BY <2>1
<1>2. PICK n \in Left : \A k \in Left : n <= k
  <2> HIDE DEF Left
  <2>1. QED
    BY <1>1, HasLeast
<1>3. PICK x \in S : n = m - x
  BY <1>2
<1>4. ASSUME NEW y \in S PROVE y <= x
  <2>1. m - y \in Left /\ m - y \in Nat /\ n \in Nat /\ y \in Nat /\ x \in Nat
    BY <1>1, <1>2
  <2> HIDE DEF Left
  <2>2. n <= m - y
    BY <1>2, <2>1
  <2>3. QED
    BY <1>3, <2>1, <2>2
<1>5. QED
  BY <1>4
=============================================================================
