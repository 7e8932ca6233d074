------------------------------ MODULE Induction ------------------------------
(***************************************************************************)
(* Induction over the natural numbers, stated for sets of numbers instead of *)
(* predicates: the form first-order provers can apply.  What the loops and   *)
(* the choices of least elements in the models return rests on it.           *)
(***************************************************************************)
EXTENDS Integers, WellFoundedInduction, TLAPS

\* Every set of numbers that is not empty has a least element.
LEMMA LeastNumber ==
    ASSUME NEW T \in SUBSET Nat, T # {}
    PROVE  \E n \in T : \A m \in T : n <= m
<1>. DEFINE R == {ss \in Nat \X Nat : ss[1] < ss[2]}
<1>1. IsWellFoundedOn(R, Nat)
    BY NatLessThanWellFounded DEF OpToRel
<1>2. \A m, n \in Nat : m < n => <<m, n>> \in R
    OBVIOUS
<1>. HIDE DEF R
<1>3. PICK n \in T : \A m \in T : ~(<<m, n>> \in R)
    BY ONLY <1>1, T \in SUBSET Nat, T # {}, WFMin
<1>4. \A m \in T : n \in Nat /\ m \in Nat /\ ~(m < n)
    BY <1>2, <1>3, T \in SUBSET Nat
<1>5. \A m \in T : n <= m
    BY <1>4
<1>. QED
    BY <1>5

\* A set that holds 0 and with each number the next one holds them all.
LEMMA NumbersByInduction ==
    ASSUME NEW S \in SUBSET Nat, 0 \in S, \A n \in S : n + 1 \in S
    PROVE  S = Nat
<1>. DEFINE T == Nat \ S
<1>. SUFFICES ASSUME T # {} PROVE FALSE
    OBVIOUS
<1>1. PICK n \in T : \A m \in T : n <= m
    BY LeastNumber
<1>2. n - 1 \in Nat /\ n - 1 \notin T
    BY <1>1
<1>. QED
    BY <1>1, <1>2
=============================================================================
