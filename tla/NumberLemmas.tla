---------------------------- MODULE NumberLemmas ----------------------------
(***************************************************************************)
(* Facts about natural numbers that several components' proofs rest on.    *)
(***************************************************************************)
EXTENDS FiniteSetTheorems, WellFoundedInduction, TLAPS

LEMMA LeastNumber ==
  ASSUME NEW T \in SUBSET Nat, T # {}
  PROVE  \E n \in T : \A m \in T : n <= m
<1>1. PICK n \in T : \A m \in T : ~(<<m, n>> \in OpToRel(<, Nat))
  BY NatLessThanWellFounded, WFMin
<1>2. ASSUME NEW m \in T, m < n PROVE FALSE
  BY <1>1, <1>2 DEF OpToRel
<1> QED BY <1>2

(* Induction, over a set of numbers. *)
LEMMA AllNumbers ==
  ASSUME NEW S \in SUBSET Nat, 0 \in S, \A n \in S : n + 1 \in S
  PROVE  \A n \in Nat : n \in S
<1> SUFFICES ASSUME Nat \ S # {} PROVE FALSE
  OBVIOUS
<1>1. PICK n \in Nat \ S : \A m \in Nat \ S : n <= m
  BY LeastNumber
<1>2. n # 0 /\ n - 1 \in Nat /\ n - 1 \notin S
  OBVIOUS
<1> QED BY <1>1, <1>2

-----------------------------------------------------------------------------
(* A power of two is the number of subsets of a set; one element more      *)
(* makes twice as many.                                                    *)
LEMMA PowerIsSubsets ==
  ASSUME NEW n \in Nat
  PROVE  /\ IsFiniteSet(SUBSET (1..n)) /\ Cardinality(SUBSET (1..n)) = 2^n
         /\ 2^n \in Nat
<1>1. IsFiniteSet(1..n) /\ Cardinality(1..n) = n
  BY FS_Interval
<1>2. IsFiniteSet(SUBSET (1..n)) /\ Cardinality(SUBSET (1..n)) = 2^Cardinality(1..n)
  BY <1>1, FS_SUBSET
<1>3. Cardinality(SUBSET (1..n)) \in Nat
  BY <1>2, FS_CardinalityType
<1> QED BY <1>1, <1>2, <1>3

LEMMA PowersDouble ==
  ASSUME NEW n \in Nat
  PROVE  2^n \in Nat /\ 2^n >= 1 /\ 2^(n + 1) \in Nat /\ 2^(n + 1) = 2^n + 2^n
<1> DEFINE small == SUBSET (1..n)
           large == {X \cup {n + 1} : X \in small}
           grow  == [X \in small |-> X \cup {n + 1}]
<1>1. IsFiniteSet(small) /\ Cardinality(small) = 2^n /\ 2^n \in Nat
  BY PowerIsSubsets
<1>2. Cardinality(SUBSET (1..(n + 1))) = 2^(n + 1) /\ 2^(n + 1) \in Nat
  <2>1. n + 1 \in Nat
    OBVIOUS
  <2> QED BY <2>1, PowerIsSubsets
<1>3. grow \in Bijection(small, large)
  <2>1. grow \in [small -> large]
    OBVIOUS
  <2>2. ASSUME NEW X \in small, NEW Y \in small, grow[X] = grow[Y] PROVE X = Y
    <3>1. X \cup {n + 1} = Y \cup {n + 1} /\ n + 1 \notin X /\ n + 1 \notin Y
      BY <2>2
    <3> QED BY <3>1
  <2>3. \A Z \in large : \E X \in small : grow[X] = Z
    OBVIOUS
  <2> QED BY <2>1, <2>2, <2>3 DEF Bijection, Injection, Surjection, IsInjective
<1>4. IsFiniteSet(large) /\ Cardinality(large) = Cardinality(small)
  <2> HIDE DEF small, large, grow
  <2>1. ExistsBijection(small, large)
    BY <1>3 DEF ExistsBijection
  <2> QED BY <1>1, <2>1, FS_Bijection
<1>5. small \cap large = {}
  OBVIOUS
<1>6. SUBSET (1..(n + 1)) = small \cup large
  <2>1. ASSUME NEW X \in SUBSET (1..(n + 1)) PROVE X \in small \cup large
    <3>1. CASE n + 1 \in X
      <4>1. X \ {n + 1} \in small
        OBVIOUS
      <4>2. X = (X \ {n + 1}) \cup {n + 1}
        BY <3>1
      <4> QED BY <4>1, <4>2
    <3>2. CASE n + 1 \notin X
      BY <3>2
    <3> QED BY <3>1, <3>2
  <2>2. small \subseteq SUBSET (1..(n + 1))
    OBVIOUS
  <2>3. ASSUME NEW Y \in large PROVE Y \in SUBSET (1..(n + 1))
    <3>1. PICK X \in small : Y = X \cup {n + 1}
      OBVIOUS
    <3>2. X \subseteq 1..(n + 1) /\ n + 1 \in 1..(n + 1)
      OBVIOUS
    <3> QED BY <3>1, <3>2
  <2> HIDE DEF small, large
  <2> QED BY <2>1, <2>2, <2>3
<1> HIDE DEF small, large
<1>7. Cardinality(small \cup large) = 2^n + 2^n
  <2>1. Cardinality(small \cup large)
          = Cardinality(small) + Cardinality(large) - Cardinality(small \cap large)
    BY <1>1, <1>4, FS_Union
  <2>2. Cardinality(small \cap large) = 0
    BY <1>5, FS_EmptySet
  <2> QED BY <1>1, <1>4, <2>1, <2>2
<1>8. 2^n >= 1
  <2>1. {} \in small
    BY DEF small
  <2>2. Cardinality(small) # 0
    BY <1>1, <2>1, FS_EmptySet
  <2> QED BY <1>1, <2>2
<1> QED BY <1>1, <1>2, <1>6, <1>7, <1>8
=============================================================================
