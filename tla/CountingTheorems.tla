-------------------------- MODULE CountingTheorems --------------------------
(* Facts about natural numbers that the proofs of this project share.       *)
EXTENDS Integers, FiniteSetTheorems, WellFoundedInduction, TLAPS

\* Every nonempty set of naturals has a least element.  A property P that does
\* not hold everywhere therefore fails first at some number: with T the set
\* {n \in Nat : ~P(n)} this is induction, stated without an operator parameter.
LEMMA LeastNatural ==
  ASSUME NEW T \in SUBSET Nat, T # {}
  PROVE  \E x \in T : \A y \in T : x <= y
<1> DEFINE R == StrictSubsetOrdering(Nat)
           F == {0..x : x \in T}
<1>1. F \subseteq FiniteSubsetsOf(Nat)
  <2> SUFFICES ASSUME NEW x \in T PROVE 0..x \in FiniteSubsetsOf(Nat)
    OBVIOUS
  <2>1. IsFiniteSet(0..x)
    BY FS_Interval
  <2> QED
    BY <2>1 DEF FiniteSubsetsOf
<1>2. IsWellFoundedOn(R, FiniteSubsetsOf(Nat))
  BY FS_StrictSubsetOrderingWellFounded
<1>3. F # {}
  OBVIOUS
<1> HIDE DEF R
<1>4. \E X \in F : \A Y \in F : <<Y, X>> \notin R
  <2> HIDE DEF F
  <2> QED
    BY <1>1, <1>2, <1>3, WFMin
<1>5. PICK x \in T : \A y \in T : <<0..y, 0..x>> \notin R
  BY <1>4
<1>6. ASSUME NEW y \in T, y < x PROVE FALSE
  <2>1. 0..y \subseteq 0..x /\ x \in 0..x /\ x \notin 0..y
    BY <1>6
  <2>2. <<0..y, 0..x>> \in R
    BY <2>1 DEF R, StrictSubsetOrdering
  <2> QED
    BY <2>2, <1>5
<1> QED
  BY <1>6

\* A nonempty set of naturals with an upper bound has a greatest element.
LEMMA GreatestNatural ==
  ASSUME NEW T \in SUBSET Nat, T # {},
         NEW b \in Nat, \A y \in T : y <= b
  PROVE  \E x \in T : \A y \in T : y <= x
<1> DEFINE U == {n \in Nat : \A y \in T : y <= n}
<1>1. PICK u \in U : \A n \in U : u <= n
  <2>1. U \in SUBSET Nat /\ U # {}
    OBVIOUS
  <2> HIDE DEF U
  <2> QED
    BY <2>1, LeastNatural
<1>2. u \in T
  <2> SUFFICES ASSUME u \notin T PROVE FALSE
    OBVIOUS
  <2>1. u \in Nat /\ \A y \in T : y < u /\ y >= 0
    BY <1>1
  <2>2. PICK y \in T : TRUE
    OBVIOUS
  <2>3. u - 1 \in Nat
    BY <2>1, <2>2
  <2>4. \A z \in T : z <= u - 1
    BY <2>1
  <2> QED
    BY <2>1, <2>3, <2>4, <1>1
<1> QED
  BY <1>1, <1>2

\* The values of a sequence of naturals have an upper bound.
LEMMA ValuesBounded ==
  ASSUME NEW n \in Nat, NEW f \in [1..n -> Nat]
  PROVE  \E b \in Nat : \A i \in 1..n : f[i] <= b
<1> DEFINE Bound(m, b) == \A i \in 1..m : f[i] <= b
           T == {m \in 0..n : \A b \in Nat : ~ Bound(m, b)}
<1>1. ASSUME T # {} PROVE FALSE
  <2>1. PICK m \in T : \A k \in T : m <= k
    <3>1. T \in SUBSET Nat
      OBVIOUS
    <3> HIDE DEF T
    <3> QED
      BY <1>1, <3>1, LeastNatural
  <2>2. m \in 0..n
    OBVIOUS
  <2>3. m # 0
    <3>1. Bound(0, 0)
      OBVIOUS
    <3> QED
      BY <3>1
  <2>4. m - 1 \in 0..n /\ m - 1 \notin T /\ f[m] \in Nat
    <3>1. m - 1 \in 0..n /\ f[m] \in Nat
      BY <2>2, <2>3
    <3> HIDE DEF T
    <3>2. m - 1 \notin T
      BY <2>1, <2>2
    <3> QED
      BY <3>1, <3>2
  <2>5. PICK b \in Nat : Bound(m - 1, b)
    BY <2>4
  <2>6. \E c \in Nat : b <= c /\ f[m] <= c
    <3>1. b <= f[m] \/ f[m] <= b
      BY <2>4
    <3> QED
      BY <2>4, <3>1
  <2>7. PICK c \in Nat : b <= c /\ f[m] <= c
    BY <2>6
  <2>8. ASSUME NEW i \in 1..m PROVE f[i] <= c
    <3>1. f[i] \in Nat /\ (i = m \/ i \in 1..(m - 1))
      BY <2>2
    <3> QED
      BY <2>5, <2>7, <3>1
  <2>9. Bound(m, c)
    BY <2>8
  <2> QED
    BY <2>1, <2>9
<1>2. n \notin T
  BY <1>1
<1>3. \E b \in Nat : Bound(n, b)
  BY <1>2
<1> QED
  BY <1>3
=============================================================================
