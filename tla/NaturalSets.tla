---------------------------- MODULE NaturalSets ------------------------------
(***************************************************************************)
(* Facts about sets of natural numbers for the proofs of the components, by *)
(* way of a least counterexample.                                           *)
(***************************************************************************)
EXTENDS Integers, FiniteSets, FiniteSetTheorems, WellFoundedInduction, TLAPS

(* A set of natural numbers that is not empty has a least element.          *)
LEMMA HasMinimum ==
  ASSUME NEW S \in SUBSET Nat, S # {}
  PROVE  \E m \in S : \A n \in S : m <= n
  <1>1. PICK m \in S : \A n \in S : <<n, m>> \notin OpToRel(<, Nat)
    BY NatLessThanWellFounded, WFMin, Zenon
  <1>2. \A n \in S : n \in Nat /\ m \in Nat
    OBVIOUS
  <1>3. ASSUME NEW n \in S PROVE ~(n < m)
    BY <1>1, <1>2, Zenon DEF OpToRel
  <1> QED
    BY <1>2, <1>3

(* A nonempty finite set of natural numbers has a greatest element.         *)
LEMMA HasMaximum ==
  ASSUME NEW S \in SUBSET Nat, S # {}, IsFiniteSet(S)
  PROVE  \E m \in S : \A n \in S : n <= m
  <1>1. PICK n \in Nat : ExistsSurjection(1 .. n, S)
    BY FS_NatSurjection
  <1>2. PICK f \in [1 .. n -> S] : \A x \in S : \E i \in 1 .. n : f[i] = x
    BY <1>1 DEF ExistsSurjection, Surjection
  <1> DEFINE Bad == {k \in 1 .. n : ~ \E i \in 1 .. k : \A j \in 1 .. k : f[j] <= f[i]}
  <1>3. Bad = {}
    <2> SUFFICES ASSUME Bad # {} PROVE FALSE
      OBVIOUS
    <2>0. Bad \in SUBSET Nat
      OBVIOUS
    <2>1. PICK k \in Bad : \A l \in Bad : k <= l
      <3> HIDE DEF Bad
      <3> QED BY <2>0, HasMinimum
    <2>2. k \in 1 .. n /\ k - 1 \notin Bad
      <3>1. k \in 1 .. n
        OBVIOUS
      <3>2. ~(k <= k - 1)
        BY <3>1
      <3> QED
        BY <2>1, <3>1, <3>2
    <2>3. \A j \in 1 .. n : f[j] \in Nat
      BY <1>2
    <2>4. CASE k = 1
      BY <2>1, <2>3, <2>4
    <2>5. CASE k # 1
      <3>1. k - 1 \in 1 .. n
        BY <2>2, <2>5
      <3>2. PICK i \in 1 .. k - 1 : \A j \in 1 .. k - 1 : f[j] <= f[i]
        BY <2>2, <3>1
      <3>3. \A j \in 1 .. k : j = k \/ j \in 1 .. k - 1
        BY <2>2
      <3>4. i \in 1 .. k /\ k \in 1 .. k /\ f[i] \in Nat /\ f[k] \in Nat
        BY <2>2, <2>3, <3>1
      <3>5. CASE f[k] <= f[i]
        <4>1. \A j \in 1 .. k : f[j] <= f[i]
          BY <3>2, <3>3, <3>5
        <4> QED
          BY <2>1, <3>4, <4>1
      <3>6. CASE ~(f[k] <= f[i])
        <4>1. \A j \in 1 .. k : f[j] <= f[k]
          <5> SUFFICES ASSUME NEW j \in 1 .. k PROVE f[j] <= f[k]
            OBVIOUS
          <5>1. f[j] \in Nat
            BY <2>2, <2>3
          <5> QED
            BY <3>2, <3>3, <3>4, <3>6, <5>1
        <4> QED
          BY <2>1, <3>4, <4>1
      <3> QED
        BY <3>5, <3>6
    <2> QED
      BY <2>4, <2>5
  <1>4. n \in 1 .. n
    <2>1. PICK x \in S : TRUE
      OBVIOUS
    <2>2. PICK i \in 1 .. n : f[i] = x
      BY <1>2
    <2> QED
      BY <2>2
  <1>5. PICK i \in 1 .. n : \A j \in 1 .. n : f[j] <= f[i]
    <2>1. n \notin Bad
      BY <1>3
    <2> QED
      BY <1>4, <2>1
  <1>6. f[i] \in S
    BY <1>2
  <1>7. \A x \in S : x <= f[i]
    BY <1>2, <1>5
  <1> QED
    BY <1>6, <1>7

(* CHOOSE finds the greatest element, as std::set::rbegin() does.           *)
LEMMA GreatestElement ==
  ASSUME NEW S \in SUBSET Nat, S # {}, IsFiniteSet(S)
  PROVE  LET m == CHOOSE p \in S : \A q \in S : q <= p
         IN  m \in S /\ \A q \in S : q <= m
  BY HasMaximum
=============================================================================
