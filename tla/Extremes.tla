------------------------------- MODULE Extremes -------------------------------
(***************************************************************************)
(* Least and greatest numbers of a set.  The models choose the first line  *)
(* of a kind, the last token of a name, the first number that is free; the *)
(* choice has the property it is made for because there is such a number.  *)
(* Among more candidates than names that are used one is free.  And since  *)
(* there would be a least number for which a fact fails, facts are shown   *)
(* from one number to the next.                                            *)
(***************************************************************************)
EXTENDS Integers, FiniteSetTheorems, WellFoundedInduction, TLAPS

\* A set of naturals has a least element: < is well-founded, so no induction over
\* the set is needed.
LEMMA Least ==
    ASSUME NEW T, T \subseteq Nat, T # {}
    PROVE  \E i \in T : \A j \in T : i <= j
<1>1. PICK i \in T : \A j \in T : ~(<<j, i>> \in OpToRel(<, Nat))
  BY WFMin, NatLessThanWellFounded
<1>2. \A j \in T : ~(j < i)
  BY <1>1 DEF OpToRel
<1> QED
  BY <1>2

\* A bounded one has a greatest: the least when counted from the bound.
LEMMA Greatest ==
    ASSUME NEW n \in Nat, NEW T, T \subseteq 1..n, T # {}
    PROVE  \E i \in T : \A j \in T : j <= i
<1> DEFINE D == {d \in 0..n : n - d \in T}
<1>1. ASSUME NEW j \in T PROVE n - j \in D
  <2>1. j \in 1..n /\ n - j \in 0..n /\ n - (n - j) = j
    OBVIOUS
  <2> QED
    BY <2>1
<1>2. D \subseteq Nat /\ D # {}
  <2>1. D \subseteq 0..n
    OBVIOUS
  <2>2. PICK j \in T : TRUE
    OBVIOUS
  <2> QED
    BY <1>1, <2>1, <2>2
<1>3. PICK d \in D : \A e \in D : d <= e
  <2> HIDE DEF D
  <2> QED
    BY <1>2, Least
<1>4. n - d \in T
  OBVIOUS
<1>5. ASSUME NEW j \in T PROVE j <= n - d
  <2>1. d <= n - j
    BY <1>1, <1>3
  <2> QED
    BY <2>1, <1>2
<1> QED
  BY <1>4, <1>5

LEMMA Pigeons ==
    ASSUME NEW a \in Int, NEW b \in Int, NEW T, IsFiniteSet(T), NEW g \in [a..b -> T],
           Cardinality(T) <= b - a
    PROVE  \E x, y \in a..b : x # y /\ g[x] = g[y]
<1>1. Cardinality(T) \in Nat
  BY FS_CardinalityType
<1>2. IsFiniteSet(a..b) /\ Cardinality(a..b) = b - a + 1
  BY <1>1, FS_Interval
<1>3. Cardinality(T) < Cardinality(a..b)
  BY <1>1, <1>2
<1> QED
  BY <1>2, <1>3, FS_PigeonHole

\* A set that has 0 and with a number the next one has all up to N.
LEMMA StepByStep ==
    ASSUME NEW N \in Nat, NEW T, 0 \in T, \A n \in 1..N : n - 1 \in T => n \in T
    PROVE  \A n \in 0..N : n \in T
<1> DEFINE C == {n \in 0..N : n \notin T}
<1> SUFFICES ASSUME C # {} PROVE FALSE
  OBVIOUS
<1>1. PICK i \in C : \A j \in C : i <= j
  <2>1. C \subseteq Nat
    OBVIOUS
  <2> HIDE DEF C
  <2> QED
    BY <2>1, Least
<1>2. i \in 1..N /\ i - 1 \in 0..N
  OBVIOUS
<1>3. i - 1 \in T
  BY <1>1, <1>2
<1> QED
  BY <1>1, <1>2, <1>3
=============================================================================
