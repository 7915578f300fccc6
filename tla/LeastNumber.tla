------------------------------ MODULE LeastNumber ------------------------------
(***************************************************************************)
(* Induction over numbers without an operator as parameter: a non-empty    *)
(* set of numbers has a least one, so a property of all numbers holds if   *)
(* the set of its counterexamples has no least element. A bounded set has  *)
(* a greatest one, too, which is what a CHOOSE of a maximum picks.         *)
(***************************************************************************)
EXTENDS Integers, FiniteSetTheorems, WellFoundedInduction, TLAPS

\* The intervals 0..k of the set's members are finite sets, of which one has no smaller
\* one below it.
LEMMA LeastNumber ==
    ASSUME NEW T \in SUBSET Nat, T # {}
    PROVE  \E m \in T : \A k \in T : m <= k
<1> DEFINE Below == {0..k : k \in T}
           Smaller == StrictSubsetOrdering(Nat)
<1>1. IsWellFoundedOn(Smaller, FiniteSubsetsOf(Nat))
  BY FS_StrictSubsetOrderingWellFounded
<1>2. ASSUME NEW k \in T
      PROVE  0..k \in FiniteSubsetsOf(Nat)
  <2>1. IsFiniteSet(0..k)
    BY FS_Interval
  <2> QED
    BY <2>1 DEF FiniteSubsetsOf
<1>3. Below \subseteq FiniteSubsetsOf(Nat) /\ Below # {}
  BY <1>2
<1>4. PICK s \in Below : \A r \in Below : <<r, s>> \notin Smaller
  <2> HIDE DEF Below, Smaller
  <2> QED
    BY <1>1, <1>3, WFMin
<1>5. PICK m \in T : s = 0..m
  OBVIOUS
<1>6. ASSUME NEW k \in T, k < m
      PROVE  FALSE
  <2>1. 0..k \subseteq 0..m /\ m \in 0..m /\ m \notin 0..k /\ 0..k \subseteq Nat /\ 0..m \subseteq Nat
    BY <1>6
  <2>2. <<0..k, s>> \in Smaller
    BY <1>5, <2>1 DEF StrictSubsetOrdering
  <2> QED
    BY <1>4, <2>2
<1> QED
  BY <1>6

\* Mirrored at the bound, the greatest number is the least.
LEMMA GreatestNumber ==
    ASSUME NEW b \in Nat, NEW T, T \subseteq 0..b, T # {}
    PROVE  \E m \in T : \A k \in T : k <= m
<1> DEFINE U == {b - k : k \in T}
<1>1. \A k \in T : k \in Nat /\ b - k \in Nat
  OBVIOUS
<1>2. U \in SUBSET Nat /\ U # {}
  BY <1>1
<1>3. PICK u \in U : \A v \in U : u <= v
  <2> HIDE DEF U
  <2> QED
    BY <1>2, LeastNumber
<1>4. PICK m \in T : u = b - m
  OBVIOUS
<1>5. ASSUME NEW k \in T
      PROVE  k <= m
  <2>1. b - m <= b - k
    BY <1>3, <1>4
  <2> QED
    BY <1>1, <2>1
<1> QED
  BY <1>5
=============================================================================
