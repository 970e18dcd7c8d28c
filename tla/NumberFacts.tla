----------------------------- MODULE NumberFacts -----------------------------
(***************************************************************************)
(* What the proofs of the other modules need to know about sets of natural *)
(* numbers.                                                                *)
(***************************************************************************)
EXTENDS Integers, FiniteSetTheorems, TLAPS

\* A set of natural numbers that is not empty has a least element.
LEMMA LeastExists ==
  ASSUME NEW S \in SUBSET Nat, S # {}
  PROVE  \E x \in S : \A y \in S : x =< y
<1> DEFINE Below(x) == S \cap (0 .. x)
           F == {Below(x) : x \in S}
           R == StrictSubsetOrdering(S)
<1>1. F \subseteq FiniteSubsetsOf(S)
  <2>1. \A x \in S : IsFiniteSet(0 .. x)
    BY FS_Interval
  <2> QED
    BY <2>1, FS_Subset DEF FiniteSubsetsOf
<1>2. F # {}
  OBVIOUS
<1>3. IsWellFoundedOn(R, FiniteSubsetsOf(S))
  BY FS_StrictSubsetOrderingWellFounded
<1> HIDE DEF F, R
<1>4. PICK T \in F : \A U \in F : ~(<<U, T>> \in R)
  BY <1>1, <1>2, <1>3, WFMin
<1>5. PICK x \in S : T = Below(x)
  BY DEF F
<1>6. \A y \in S : x =< y
  <2> SUFFICES ASSUME NEW y \in S, y < x PROVE FALSE
    OBVIOUS
  <2>1. Below(y) \in F /\ Below(y) \subseteq T /\ x \in T /\ x \notin Below(y)
    BY <1>5 DEF F
  <2>2. <<Below(y), T>> \in R
    BY <2>1, <1>5 DEF R, StrictSubsetOrdering
  <2> QED
    BY <1>4, <2>1, <2>2
<1> QED
  BY <1>6

\* So what holds of 0 and, with a number, of the next one holds of all numbers; the
\* set of the numbers it holds of stands for the property.
LEMMA Induction ==
  ASSUME NEW S, 0 \in S, \A n \in Nat : n \in S => n + 1 \in S
  PROVE  Nat \subseteq S
<1> DEFINE F == Nat \ S
<1> SUFFICES ASSUME F # {} PROVE FALSE
  OBVIOUS
<1>1. PICK x \in F : \A y \in F : x =< y
  BY LeastExists
<1>2. x \in Nat /\ x # 0 /\ x \notin S
  OBVIOUS
<1>3. x - 1 \in Nat /\ x - 1 \notin F /\ (x - 1) + 1 = x
  BY <1>1, <1>2
<1> QED
  BY <1>2, <1>3

\* A set of natural numbers that is not empty and has a bound has a greatest element.
LEMMA GreatestExists ==
  ASSUME NEW S \in SUBSET Nat, S # {}, NEW n \in Nat, \A x \in S : x =< n
  PROVE  \E x \in S : \A y \in S : y =< x
<1> DEFINE T == {n - x : x \in S}
<1>1. T \in SUBSET Nat /\ T # {} /\ \A x \in S : n - x \in T
  <2>1. \A x \in S : n - x \in Nat /\ n - x \in T
    OBVIOUS
  <2> QED
    BY <2>1
<1>0. \A t \in T : \E x \in S : t = n - x
  OBVIOUS
<1> HIDE DEF T
<1>2. PICK t \in T : \A u \in T : t =< u
  BY <1>1, LeastExists
<1>3. PICK x \in S : t = n - x
  BY <1>0, <1>2
<1>4. \A y \in S : n - x =< n - y
  BY <1>1, <1>2, <1>3
<1>5. \A y \in S : y =< x
  BY <1>4
<1> QED
  BY <1>5
=============================================================================
