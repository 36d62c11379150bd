---------------------------- MODULE OrderLemmas ----------------------------
(***************************************************************************)
(* Least and greatest members of sets of numbers.                          *)
(***************************************************************************)
EXTENDS Naturals, FiniteSetsExt, WellFoundedInduction, TLAPS

\* A set of numbers that is not empty has a least member.
LEMMA LeastExists ==
  ASSUME NEW S \in SUBSET Nat, S # {}
  PROVE  \E s \in S : \A t \in S : s <= t
<1> DEFINE Less == {ss \in Nat \X Nat : ss[1] < ss[2]}
<1>1. IsWellFoundedOn(Less, Nat)
  BY NatLessThanWellFounded, Zenon DEF OpToRel
<1> HIDE DEF Less
<1>2. \E s \in S : \A t \in S : ~ (<<t, s>> \in Less)
  BY <1>1, WFMin
<1> USE DEF Less
<1>3. ASSUME NEW s \in S, NEW t \in S, ~ (<<t, s>> \in Less)
      PROVE  s <= t
  BY <1>3
<1> QED
  BY <1>2, <1>3

\* Min finds it.
LEMMA MinIsLeast ==
  ASSUME NEW S \in SUBSET Nat, S # {}
  PROVE  Min(S) \in S /\ \A t \in S : Min(S) <= t
<1>1. \E s \in S : \A t \in S : s <= t
  BY LeastExists
<1> QED
  BY <1>1, Zenon DEF Min

\* Max finds the greatest member of a set that has one.
LEMMA MaxIsGreatest ==
  ASSUME NEW S \in SUBSET Nat, NEW m \in S, \A t \in S : t <= m
  PROVE  Max(S) = m
<1>1. \A t \in S : m >= t
  OBVIOUS
<1>2. Max(S) \in S /\ \A t \in S : Max(S) >= t
  BY <1>1, Zenon DEF Max
<1>3. Max(S) \in Nat /\ m \in Nat /\ Max(S) >= m /\ Max(S) <= m
  BY <1>2
<1> QED
  BY <1>3

\* A set of numbers with a bound has a greatest member.
LEMMA GreatestExists ==
  ASSUME NEW b \in Nat, NEW S \in SUBSET (0..b), S # {}
  PROVE  Max(S) \in S /\ \A t \in S : t <= Max(S)
<1> DEFINE Below == {b - s : s \in S}
<1>1. Below \in SUBSET Nat /\ Below # {}
  <2>1. \A s \in S : b - s \in Nat
    OBVIOUS
  <2> QED
    BY <2>1
<1>2. PICK d \in Below : \A t \in Below : d <= t
  BY <1>1, LeastExists
<1>3. PICK m \in S : d = b - m
  OBVIOUS
<1>4. \A t \in S : t <= m
  <2> SUFFICES ASSUME NEW t \in S PROVE t <= m
    OBVIOUS
  <2>1. b - t \in Below
    OBVIOUS
  <2>2. b - m <= b - t
    BY <1>2, <1>3, <2>1
  <2>3. b \in Nat /\ m \in Nat /\ t \in Nat
    OBVIOUS
  <2> HIDE DEF Below
  <2> QED
    BY <2>2, <2>3
<1> QED
  BY <1>4, MaxIsGreatest
=============================================================================
