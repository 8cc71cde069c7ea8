--------------------------- MODULE NumberInduction ---------------------------
(***************************************************************************)
(* Induction over the natural numbers for a property given as a set.  What *)
(* a recursive function computes for every argument rests on it: Walk of   *)
(* InodeMap and Up of InMemoryFs.                                          *)
(***************************************************************************)
EXTENDS Integers, FiniteSets, FiniteSetTheorems, WellFoundedInduction, TLAPS

(* A set of numbers that is not empty has a least element: the well-founded
   order of finite sets, on the initial segments of its members. *)
LEMMA LeastNumber ==
  ASSUME NEW T \in SUBSET Nat, T # {}
  PROVE  \E x \in T : \A y \in T : x <= y
<1>. DEFINE R == StrictSubsetOrdering(Nat)
            F == {0 .. x : x \in T}
<1>1. IsWellFoundedOn(R, FiniteSubsetsOf(Nat))
  BY FS_StrictSubsetOrderingWellFounded
<1>2. F \subseteq FiniteSubsetsOf(Nat) /\ F # {}
  <2>1. \A x \in T : IsFiniteSet(0 .. x) /\ 0 .. x \subseteq Nat
    BY FS_Interval
  <2>. QED
    BY <2>1 DEF FiniteSubsetsOf
<1>. HIDE DEF R, F
<1>3. PICK s \in F : \A u \in F : ~ (<<u, s>> \in R)
  BY <1>1, <1>2, WFMin
<1>4. PICK x \in T : s = 0 .. x
  BY DEF F
<1>5. ASSUME NEW y \in T, y < x PROVE FALSE
  <2>1. 0 .. y \in F
    BY DEF F
  <2>2. 0 .. y \subseteq s /\ 0 .. y # s /\ s \subseteq Nat
    BY <1>4, <1>5
  <2>3. <<0 .. y, s>> \in R
    BY <2>2 DEF R, StrictSubsetOrdering
  <2>. QED
    BY <2>1, <2>3, <1>3
<1>. QED
  BY <1>5

(* Induction, for a property given as the set of the numbers that have it. *)
LEMMA SetInduction ==
  ASSUME NEW T, 0 \in T, \A n \in Nat : n \in T => n + 1 \in T
  PROVE  Nat \subseteq T
<1>. SUFFICES ASSUME Nat \ T # {} PROVE FALSE
  OBVIOUS
<1>1. PICK x \in Nat \ T : \A y \in Nat \ T : x <= y
  BY LeastNumber
<1>2. x # 0 /\ x - 1 \in Nat /\ x - 1 \in T
  BY <1>1
<1>. QED
  BY <1>1, <1>2
=============================================================================
