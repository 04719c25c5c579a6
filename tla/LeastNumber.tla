---------------------------- MODULE LeastNumber ----------------------------
(***************************************************************************)
(* Induction on numbers.  The theorems of the library take an operator,    *)
(* which no prover here can give a value; these lemmas take a set.         *)
(***************************************************************************)
EXTENDS Integers, FiniteSets, TLAPS, FiniteSetTheorems

(* A set of numbers has a least one: the order of finite sets by inclusion *)
(* is well founded, and the intervals from 0 are ordered by their ends.    *)
LEMMA LeastNatural ==
    ASSUME NEW I \in SUBSET Nat, I # {}
    PROVE  \E n \in I : \A m \in I : n <= m
  <1> DEFINE Intervals == {0..n : n \in I}
  <1>1. Intervals \subseteq FiniteSubsetsOf(Nat) /\ Intervals # {}
    <2>1. \A n \in I : 0..n \in SUBSET Nat /\ IsFiniteSet(0..n)
      BY FS_Interval
    <2> QED
      BY <2>1 DEF FiniteSubsetsOf
  <1>2. IsWellFoundedOn(StrictSubsetOrdering(Nat), FiniteSubsetsOf(Nat))
    BY FS_StrictSubsetOrderingWellFounded
  <1>3. PICK S \in Intervals : \A T \in Intervals : <<T, S>> \notin StrictSubsetOrdering(Nat)
    BY <1>1, <1>2, WFMin
  <1>4. PICK n \in I : S = 0..n
    BY <1>3
  <1>5. ASSUME NEW m \in I, ~(n <= m) PROVE FALSE
    <2>1. (0..m) \subseteq (0..n) /\ 0..m # 0..n
      <3>1. n \in 0..n /\ n \notin 0..m
        BY <1>5
      <3> QED
        BY <1>5, <3>1
    <2>2. 0..m \in Intervals /\ 0..m \in SUBSET Nat /\ 0..n \in SUBSET Nat
      OBVIOUS
    <2> QED
      BY <1>3, <1>4, <2>1, <2>2 DEF StrictSubsetOrdering
  <1> QED
    BY <1>5

(* Induction up to n: a set that holds 0, and with a number the next one.  *)
LEMMA UpTo ==
    ASSUME NEW n \in Nat, NEW P, 0 \in P, \A m \in 0..n - 1 : m \in P => m + 1 \in P
    PROVE  \A m \in 0..n : m \in P
  <1> DEFINE I == {m \in 0..n : m \notin P}
  <1>1. SUFFICES ASSUME I # {} PROVE FALSE
    OBVIOUS
  <1>2. I \in SUBSET Nat
    OBVIOUS
  <1>3. PICK m \in I : \A k \in I : m <= k
    BY <1>1, <1>2, LeastNatural
  <1>4. m # 0 /\ m - 1 \in 0..n - 1 /\ m - 1 \notin I
    BY <1>3
  <1>5. m - 1 \in P
    BY <1>4
  <1> QED
    BY <1>3, <1>4, <1>5
=============================================================================
