------------------------- MODULE HybridMultiProofs -------------------------
(* Theorems about HybridMulti, for every finite set of keys, every set of   *)
(* values, every merge threshold and ratio and both types of index: the     *)
(* counters of the stages are exact where the code needs them to be, and     *)
(* the two stages implement IndexMultiMap and IndexBags.                   *)
EXTENDS HybridMulti, SequenceTheorems, CountingTheorems

-----------------------------------------------------------------------------
(* Sums over the keys.  SumFunction takes the keys off one by one; Sums is   *)
(* the function on sets of keys that does so.                               *)

Pick(s) == CHOOSE x \in s : TRUE

IsTotal(g, f) ==
  g = [s \in SUBSET DOMAIN f |-> IF s = {} THEN 0 ELSE f[Pick(s)] + g[s \ {Pick(s)}]]

\* Of some sets of keys one is a smallest; so a fact about sets of keys that
\* does not hold everywhere fails first at one.
LEMMA SmallestSet ==
  ASSUME NEW T \in SUBSET SUBSET Keys, T # {}
  PROVE  \E s \in T : \A x \in s : s \ {x} \notin T
<1> DEFINE sizes == {Cardinality(s) : s \in T}
<1>1. \A s \in SUBSET Keys : IsFiniteSet(s) /\ Cardinality(s) \in Nat
  BY FiniteKeysAssumption, FS_Subset, FS_CardinalityType
<1>2. PICK n \in sizes : \A m \in sizes : n <= m
  <2>1. sizes \in SUBSET Nat /\ sizes # {}
    BY <1>1
  <2> HIDE DEF sizes
  <2> QED
    BY <2>1, LeastNatural
<1>3. PICK s \in T : n = Cardinality(s)
  BY <1>2
<1>4. ASSUME NEW x \in s, s \ {x} \in T PROVE FALSE
  <2>1. Cardinality(s \ {x}) = Cardinality(s) - 1
    BY <1>1, <1>4, FS_RemoveElement
  <2>2. Cardinality(s) <= Cardinality(s \ {x})
    BY <1>2, <1>3, <1>4
  <2>3. Cardinality(s) \in Nat
    BY <1>1
  <2> QED
    BY <2>1, <2>2, <2>3
<1> QED
  BY <1>3, <1>4

\* The places of the values that f counts under the keys of s.
Slots(f, s) == {p \in Keys \X Nat : p[1] \in s /\ p[2] \in 1..f[p[1]]}

LEMMA SlotsWithout ==
  ASSUME NEW f \in [Keys -> Nat], NEW s \in SUBSET Keys, NEW x \in s, IsFiniteSet(Slots(f, s \ {x}))
  PROVE  /\ IsFiniteSet(Slots(f, s))
         /\ Cardinality(Slots(f, s)) = f[x] + Cardinality(Slots(f, s \ {x}))
<1> DEFINE own == {x} \X (1..f[x])
           others == Slots(f, s \ {x})
<1>1. Slots(f, s) = own \cup others /\ own \cap others = {}
  BY DEF Slots
<1>2. IsFiniteSet(own) /\ Cardinality(own) = f[x]
  <2>1. f[x] \in Nat
    OBVIOUS
  <2>2. IsFiniteSet(1..f[x]) /\ Cardinality(1..f[x]) = f[x]
    BY <2>1, FS_Interval
  <2>3. IsFiniteSet({x}) /\ Cardinality({x}) = 1
    BY FS_Singleton
  <2>4. IsFiniteSet(own) /\ Cardinality(own) = Cardinality({x}) * Cardinality(1..f[x])
    BY <2>2, <2>3, FS_Product
  <2> QED
    BY <2>1, <2>2, <2>3, <2>4
<1> HIDE DEF own
<1>3. Cardinality(others) \in Nat
  BY FS_CardinalityType
<1>4. /\ IsFiniteSet(own \cup others)
      /\ Cardinality(own \cup others) = Cardinality(own) + Cardinality(others) - Cardinality(own \cap others)
  BY <1>2, FS_Union
<1>5. Cardinality(own \cap others) = 0
  BY <1>1, FS_EmptySet
<1> HIDE DEF others
<1>6. Cardinality(own \cup others) = f[x] + Cardinality(others)
  BY <1>2, <1>3, <1>4, <1>5
<1> QED
  BY <1>1, <1>4, <1>6 DEF others

LEMMA SlotsFinite ==
  ASSUME NEW f \in [Keys -> Nat], NEW s \in SUBSET Keys
  PROVE  IsFiniteSet(Slots(f, s))
<1> DEFINE T == {t \in SUBSET Keys : ~ IsFiniteSet(Slots(f, t))}
<1>1. ASSUME T # {} PROVE FALSE
  <2>1. PICK t \in T : \A x \in t : t \ {x} \notin T
    <3>1. T \in SUBSET SUBSET Keys
      OBVIOUS
    <3> HIDE DEF T
    <3> QED
      BY <1>1, <3>1, SmallestSet
  <2>2. CASE t = {}
    <3>1. Slots(f, t) = {}
      BY <2>2 DEF Slots
    <3> QED
      BY <2>1, <3>1, FS_EmptySet
  <2>3. CASE t # {}
    <3>1. PICK x \in t : TRUE
      BY <2>3
    <3>2. IsFiniteSet(Slots(f, t \ {x}))
      BY <2>1, <3>1
    <3> QED
      BY <2>1, <3>1, <3>2, SlotsWithout
  <2> QED
    BY <2>2, <2>3
<1> QED
  BY <1>1

\* There is such a function, which is natural, and SumFunction is its last value.
LEMMA SumIs ==
  ASSUME NEW f \in [Keys -> Nat]
  PROVE  \E g \in [SUBSET Keys -> Nat] : IsTotal(g, f) /\ SumFunction(f) = g[Keys]
<1> DEFINE w == [s \in SUBSET Keys |-> Cardinality(Slots(f, s))]
           g == CHOOSE h : IsTotal(h, f)
<1>1. \A s \in SUBSET Keys : s # {} => Pick(s) \in s
  BY DEF Pick
<1>2. IsTotal(w, f)
  <2>1. ASSUME NEW s \in SUBSET Keys
        PROVE  w[s] = IF s = {} THEN 0 ELSE f[Pick(s)] + w[s \ {Pick(s)}]
    <3>1. CASE s = {}
      <4>1. Slots(f, s) = {}
        BY <3>1 DEF Slots
      <4> QED
        BY <3>1, <4>1, FS_EmptySet
    <3>2. CASE s # {}
      <4>1. Pick(s) \in s /\ s \ {Pick(s)} \in SUBSET Keys
        BY <1>1, <3>2
      <4>2. Cardinality(Slots(f, s)) = f[Pick(s)] + Cardinality(Slots(f, s \ {Pick(s)}))
        BY <4>1, SlotsFinite, SlotsWithout
      <4> QED
        BY <3>2, <4>1, <4>2
    <3> QED
      BY <3>1, <3>2
  <2> HIDE DEF w
  <2>2. w = [s \in SUBSET Keys |-> w[s]]
    BY DEF w
  <2> QED
    BY <2>1, <2>2 DEF IsTotal
<1>3. IsTotal(g, f)
  <2> HIDE DEF w
  <2> QED
    BY <1>2
<1>4. SumFunction(f) = g[Keys]
  BY DEF SumFunction, SumFunctionOnSet, FoldFunctionOnSet, MapThenFoldSet, IsTotal, Pick
<1> HIDE DEF g, w
<1>5. \A s \in SUBSET Keys : g[s] = IF s = {} THEN 0 ELSE f[Pick(s)] + g[s \ {Pick(s)}]
  BY <1>3 DEF IsTotal
<1> DEFINE T == {s \in SUBSET Keys : g[s] \notin Nat}
<1>6. ASSUME T # {} PROVE FALSE
  <2>1. PICK t \in T : \A x \in t : t \ {x} \notin T
    <3>1. T \in SUBSET SUBSET Keys
      OBVIOUS
    <3> HIDE DEF T
    <3> QED
      BY <1>6, <3>1, SmallestSet
  <2>2. t # {} /\ Pick(t) \in t
    BY <1>1, <1>5, <2>1
  <2>3. g[t \ {Pick(t)}] \in Nat /\ f[Pick(t)] \in Nat
    BY <2>1, <2>2
  <2> QED
    BY <1>5, <2>1, <2>2, <2>3
<1>7. g \in [SUBSET Keys -> Nat]
  <2>1. g = [s \in SUBSET Keys |-> g[s]]
    BY <1>3 DEF IsTotal
  <2>2. \A s \in SUBSET Keys : g[s] \in Nat
    BY <1>6
  <2> QED
    BY <2>1, <2>2
<1> QED
  BY <1>3, <1>4, <1>7

Steps(g, f) ==
  /\ g[{}] = 0
  /\ \A s \in SUBSET Keys : s # {} =>
       /\ Pick(s) \in s /\ s \ {Pick(s)} \in SUBSET Keys
       /\ g[s] = f[Pick(s)] + g[s \ {Pick(s)}]

LEMMA TotalSteps ==
  ASSUME NEW f \in [Keys -> Nat], NEW g \in [SUBSET Keys -> Nat], IsTotal(g, f)
  PROVE  Steps(g, f)
<1>1. \A s \in SUBSET Keys : s # {} => Pick(s) \in s
  BY DEF Pick
<1>2. \A s \in SUBSET Keys : g[s] = IF s = {} THEN 0 ELSE f[Pick(s)] + g[s \ {Pick(s)}]
  BY DEF IsTotal
<1>3. {} \in SUBSET Keys /\ \A s \in SUBSET Keys : s \ {Pick(s)} \in SUBSET Keys
  OBVIOUS
<1>4. g[{}] = 0
  BY <1>2, <1>3
<1> QED
  BY <1>1, <1>2, <1>3, <1>4 DEF Steps

LEMMA SumSteps ==
  ASSUME NEW f \in [Keys -> Nat]
  PROVE  \E g \in [SUBSET Keys -> Nat] : Steps(g, f) /\ SumFunction(f) = g[Keys]
<1>1. PICK g \in [SUBSET Keys -> Nat] : IsTotal(g, f) /\ SumFunction(f) = g[Keys]
  BY SumIs
<1>2. Steps(g, f)
  BY <1>1, TotalSteps
<1> QED
  BY <1>1, <1>2

\* The sum of what two functions add up to.
LEMMA SumAdd ==
  ASSUME NEW f \in [Keys -> Nat], NEW f1 \in [Keys -> Nat], NEW f2 \in [Keys -> Nat],
         \A k \in Keys : f[k] = f1[k] + f2[k]
  PROVE  SumFunction(f) = SumFunction(f1) + SumFunction(f2)
<1>1. PICK g \in [SUBSET Keys -> Nat] : Steps(g, f) /\ SumFunction(f) = g[Keys]
  BY SumSteps
<1>2. PICK g1 \in [SUBSET Keys -> Nat] : Steps(g1, f1) /\ SumFunction(f1) = g1[Keys]
  BY SumSteps
<1>3. PICK g2 \in [SUBSET Keys -> Nat] : Steps(g2, f2) /\ SumFunction(f2) = g2[Keys]
  BY SumSteps
<1> DEFINE T == {s \in SUBSET Keys : g[s] # g1[s] + g2[s]}
<1>4. ASSUME T # {} PROVE FALSE
  <2>1. PICK t \in T : \A x \in t : t \ {x} \notin T
    <3>1. T \in SUBSET SUBSET Keys
      OBVIOUS
    <3> HIDE DEF T
    <3> QED
      BY <1>4, <3>1, SmallestSet
  <2>2. t \in SUBSET Keys /\ g[t] # g1[t] + g2[t]
    BY <2>1
  <2> DEFINE x == Pick(t)
             r == t \ {x}
  <2>3. IF t = {} THEN g[t] = 0 /\ g1[t] = 0 /\ g2[t] = 0
        ELSE /\ x \in t /\ r \in SUBSET Keys
             /\ g[t] = f[x] + g[r] /\ g1[t] = f1[x] + g1[r] /\ g2[t] = f2[x] + g2[r]
    BY <1>1, <1>2, <1>3, <2>2 DEF Steps
  <2>4. t # {}
    BY <2>2, <2>3
  <2>5. g[r] = g1[r] + g2[r]
    BY <2>1, <2>3, <2>4
  <2> HIDE DEF T, r, x
  <2>6. /\ f[x] \in Nat /\ f1[x] \in Nat /\ f2[x] \in Nat /\ f[x] = f1[x] + f2[x]
        /\ g[r] \in Nat /\ g1[r] \in Nat /\ g2[r] \in Nat
    BY <2>2, <2>3, <2>4
  <2> QED
    BY <2>2, <2>3, <2>4, <2>5, <2>6
<1> QED
  BY <1>1, <1>2, <1>3, <1>4

LEMMA SumType ==
  ASSUME NEW f \in [Keys -> Nat]
  PROVE  SumFunction(f) \in Nat
<1>1. PICK g \in [SUBSET Keys -> Nat] : SumFunction(f) = g[Keys]
  BY SumIs
<1> QED
  BY <1>1

\* A function that differs at one key only.
LEMMA SumPut ==
  ASSUME NEW f \in [Keys -> Nat], NEW k \in Keys, NEW n \in Nat, NEW h,
         h = [f EXCEPT ![k] = n]
  PROVE  SumFunction(h) = SumFunction(f) - f[k] + n
<1>1. h \in [Keys -> Nat]
  OBVIOUS
<1> DEFINE others == [f EXCEPT ![k] = 0]
           at(m) == [j \in Keys |-> IF j = k THEN m ELSE 0]
<1>2. others \in [Keys -> Nat] /\ \A m \in Nat : at(m) \in [Keys -> Nat]
  OBVIOUS
<1>3. SumFunction(f) = SumFunction(others) + SumFunction(at(f[k]))
  <2>1. \A j \in Keys : f[j] = others[j] + at(f[k])[j]
    OBVIOUS
  <2>2. at(f[k]) \in [Keys -> Nat]
    OBVIOUS
  <2> HIDE DEF others, at
  <2> QED
    BY <1>2, <2>1, <2>2, SumAdd
<1>4. SumFunction(h) = SumFunction(others) + SumFunction(at(n))
  <2>1. \A j \in Keys : h[j] = others[j] + at(n)[j]
    OBVIOUS
  <2>2. at(n) \in [Keys -> Nat]
    OBVIOUS
  <2>3. h \in [Keys -> Nat] /\ others \in [Keys -> Nat]
    BY <1>1, <1>2
  <2> HIDE DEF others, at
  <2> QED
    BY <2>1, <2>2, <2>3, SumAdd, ZenonT(40)
<1>5. ASSUME NEW m \in Nat PROVE SumFunction(at(m)) = m
  <2>1. PICK g \in [SUBSET Keys -> Nat] : Steps(g, at(m)) /\ SumFunction(at(m)) = g[Keys]
    <3>1. at(m) \in [Keys -> Nat]
      OBVIOUS
    <3> HIDE DEF at
    <3> QED
      BY <3>1, SumSteps
  <2> DEFINE T == {s \in SUBSET Keys : g[s] # IF k \in s THEN m ELSE 0}
  <2>2. ASSUME T # {} PROVE FALSE
    <3>1. PICK t \in T : \A x \in t : t \ {x} \notin T
      <4>1. T \in SUBSET SUBSET Keys
        OBVIOUS
      <4> HIDE DEF T
      <4> QED
        BY <2>2, <4>1, SmallestSet
    <3>2. t \in SUBSET Keys /\ g[t] # IF k \in t THEN m ELSE 0
      BY <3>1
    <3> DEFINE x == Pick(t)
               r == t \ {x}
    <3>3. IF t = {} THEN g[t] = 0
          ELSE x \in t /\ r \in SUBSET Keys /\ g[t] = at(m)[x] + g[r]
      BY <2>1, <3>2 DEF Steps
    <3>4. t # {}
      BY <3>2, <3>3
    <3>5. g[r] = IF k \in r THEN m ELSE 0
      BY <3>1, <3>3, <3>4
    <3>6. at(m)[x] = IF x = k THEN m ELSE 0
      BY <3>2, <3>3, <3>4
    <3>7. k \in r <=> k \in t /\ x # k
      OBVIOUS
    <3> HIDE DEF T, r, x, at
    <3> QED
      BY <3>2, <3>3, <3>4, <3>5, <3>6, <3>7
  <2> QED
    BY <2>1, <2>2
<1>6. SumFunction(others) \in Nat /\ f[k] \in Nat
  <2> HIDE DEF others
  <2> QED
    BY <1>2, SumType
<1>7. SumFunction(at(f[k])) = f[k] /\ SumFunction(at(n)) = n
  <2> HIDE DEF at
  <2> QED
    BY <1>5, <1>6
<1> HIDE DEF others, at
<1> QED
  BY <1>3, <1>4, <1>6, <1>7

\* No summand exceeds the sum, and it grows with them.
LEMMA SumAtLeast ==
  ASSUME NEW f \in [Keys -> Nat], NEW k \in Keys
  PROVE  f[k] <= SumFunction(f)
<1> DEFINE h == [f EXCEPT ![k] = 0]
<1>1. h \in [Keys -> Nat] /\ f[k] \in Nat
  OBVIOUS
<1>2. SumFunction(h) = SumFunction(f) - f[k] + 0
  BY SumPut
<1> HIDE DEF h
<1>3. SumFunction(h) \in Nat /\ SumFunction(f) \in Nat
  BY <1>1, SumType
<1> QED
  BY <1>1, <1>2, <1>3

LEMMA SumZero ==
  ASSUME NEW f \in [Keys -> Nat], \A k \in Keys : f[k] = 0
  PROVE  SumFunction(f) = 0
<1>1. SumFunction(f) = SumFunction(f) + SumFunction(f)
  BY SumAdd
<1> QED
  BY <1>1, SumType

LEMMA SumLeq ==
  ASSUME NEW f \in [Keys -> Nat], NEW g \in [Keys -> Nat], \A k \in Keys : f[k] <= g[k]
  PROVE  SumFunction(f) <= SumFunction(g)
<1> DEFINE d == [k \in Keys |-> g[k] - f[k]]
<1>1. d \in [Keys -> Nat]
  OBVIOUS
<1>2. \A k \in Keys : g[k] = f[k] + d[k]
  OBVIOUS
<1> HIDE DEF d
<1>3. SumFunction(g) = SumFunction(f) + SumFunction(d)
  BY <1>1, <1>2, SumAdd
<1>4. SumFunction(f) \in Nat /\ SumFunction(g) \in Nat /\ SumFunction(d) \in Nat
  BY <1>1, SumType
<1> QED
  BY <1>3, <1>4

-----------------------------------------------------------------------------
(* The number of values in a stage.                                        *)

Stages == [Keys -> Seq(Values)]

Lengths(s) == [k \in Keys |-> Len(s[k])]

LEMMA LengthsType ==
  ASSUME NEW s \in Stages
  PROVE  /\ Lengths(s) \in [Keys -> Nat] /\ \A k \in Keys : Lengths(s)[k] = Len(s[k])
         /\ Count(s) = SumFunction(Lengths(s))
<1>1. \A k \in Keys : Len(s[k]) \in Nat
  BY LenProperties DEF Stages
<1>2. Lengths(s) \in [Keys -> Nat] /\ \A k \in Keys : Lengths(s)[k] = Len(s[k])
  BY <1>1 DEF Lengths
<1>3. Count(s) = SumFunction(Lengths(s))
  BY DEF Lengths, Count
<1> QED
  BY <1>2, <1>3

LEMMA CountType ==
  ASSUME NEW s \in Stages
  PROVE  /\ Count(s) \in Nat
         /\ \A k \in Keys : Len(s[k]) \in Nat /\ Len(s[k]) <= Count(s)
         /\ Count(s) = 0 => \A k \in Keys : s[k] = <<>>
<1>1. Count(s) \in Nat
  BY LengthsType, SumType
<1>2. ASSUME NEW k \in Keys PROVE Len(s[k]) \in Nat /\ Len(s[k]) <= Count(s)
  BY LengthsType, SumAtLeast
<1>3. ASSUME NEW k \in Keys, Len(s[k]) = 0 PROVE s[k] = <<>>
  BY <1>3, EmptySeq DEF Stages
<1> QED
  BY <1>1, <1>2, <1>3

LEMMA CountEmpty == Empty \in Stages /\ Count(Empty) = 0
<1>1. Empty \in Stages /\ \A k \in Keys : Len(Empty[k]) = 0
  BY EmptySeq DEF Empty, Stages
<1> QED
  BY <1>1, LengthsType, SumZero

\* A stage in which one list has been replaced.
WithList(s, k, list) == [s EXCEPT ![k] = list]

LEMMA CountPut ==
  ASSUME NEW s \in Stages, NEW k \in Keys, NEW list \in Seq(Values)
  PROVE  /\ WithList(s, k, list) \in Stages
         /\ Count(WithList(s, k, list)) = Count(s) - Len(s[k]) + Len(list)
<1> DEFINE t == WithList(s, k, list)
<1>1. t \in Stages /\ Len(list) \in Nat /\ \A j \in Keys : t[j] = IF j = k THEN list ELSE s[j]
  BY LenProperties DEF Stages, WithList
<1> HIDE DEF t
<1> DEFINE f == Lengths(s)
           h == Lengths(t)
<1>2. h = [f EXCEPT ![k] = Len(list)]
  <2>1. f \in [Keys -> Nat] /\ h \in [Keys -> Nat]
    BY <1>1, LengthsType
  <2>2. \A j \in Keys : h[j] = Len(t[j]) /\ f[j] = Len(s[j])
    BY <1>1, LengthsType
  <2> HIDE DEF f, h
  <2> QED
    BY <1>1, <2>1, <2>2
<1>3. Lengths(s) \in [Keys -> Nat] /\ Lengths(s)[k] = Len(s[k]) /\ Count(s) = SumFunction(Lengths(s))
  BY LengthsType
<1>4. SumFunction(Lengths(t)) = SumFunction(Lengths(s)) - Lengths(s)[k] + Len(list)
  <2>1. f \in [Keys -> Nat]
    BY LengthsType
  <2> HIDE DEF f, h
  <2>2. SumFunction(h) = SumFunction(f) - f[k] + Len(list)
    BY <1>1, <1>2, <2>1, SumPut
  <2> QED
    BY <2>2 DEF f, h
<1>5. Count(t) = SumFunction(Lengths(t))
  BY <1>1, LengthsType
<1>6. Count(t) = Count(s) - Len(s[k]) + Len(list)
  BY <1>3, <1>4, <1>5
<1> QED
  BY <1>1, <1>6 DEF t

\* Two stages as one.
LEMMA CountJoined ==
  ASSUME NEW d \in Stages, NEW s \in Stages, NEW t \in JoinedLists(d, s)
  PROVE  t \in Stages /\ Count(t) = Count(d) + Count(s)
<1>1. PICK first \in SUBSET Keys :
        t = [k \in Keys |-> IF k \in first THEN s[k] \o d[k] ELSE d[k] \o s[k]]
  BY DEF JoinedLists
<1>2. ASSUME NEW k \in Keys
      PROVE  t[k] \in Seq(Values) /\ Len(t[k]) = Len(d[k]) + Len(s[k])
  <2>1. s[k] \in Seq(Values) /\ d[k] \in Seq(Values)
    BY DEF Stages
  <2>2. Len(s[k]) \in Nat /\ Len(d[k]) \in Nat
    BY <2>1, LenProperties
  <2>3. /\ s[k] \o d[k] \in Seq(Values) /\ Len(s[k] \o d[k]) = Len(s[k]) + Len(d[k])
        /\ d[k] \o s[k] \in Seq(Values) /\ Len(d[k] \o s[k]) = Len(d[k]) + Len(s[k])
    BY <2>1, ConcatProperties
  <2>4. t[k] = s[k] \o d[k] \/ t[k] = d[k] \o s[k]
    BY <1>1
  <2> DEFINE n == Len(s[k])
             m == Len(d[k])
  <2>5. t[k] \in Seq(Values) /\ (Len(t[k]) = n + m \/ Len(t[k]) = m + n)
    BY <2>3, <2>4, Zenon
  <2> HIDE DEF n, m
  <2>6. n \in Nat /\ m \in Nat
    BY <2>2 DEF n, m
  <2>7. Len(t[k]) = m + n
    BY <2>5, <2>6
  <2> QED
    BY <2>5, <2>7 DEF n, m
<1>3. t \in Stages
  BY <1>1, <1>2 DEF Stages
<1>4. SumFunction(Lengths(t)) = SumFunction(Lengths(d)) + SumFunction(Lengths(s))
  <2>1. \A k \in Keys : Lengths(t)[k] = Lengths(d)[k] + Lengths(s)[k]
    BY <1>2, <1>3, LengthsType
  <2> QED
    BY <1>3, <2>1, LengthsType, SumAdd
<1> QED
  BY <1>3, <1>4, LengthsType

\* A merge that gives up leaves no more than there was.
LEMMA CountOutcomes ==
  ASSUME NEW d \in Stages, static \in Stages, NEW t \in MergeOutcomes(d)
  PROVE  t \in Stages /\ Count(t) <= Count(d) + Count(static)
<1>1. CASE MergeWorks(d)
  BY <1>1, CountJoined, CountType DEF MergeOutcomes
<1>2. CASE ~ MergeWorks(d)
  <2>1. PICK from \in [Keys -> {"static", "dynamic", "none"}] :
          t = [k \in Keys |-> CASE from[k] = "static" -> static[k]
                                [] from[k] = "dynamic" -> d[k]
                                [] OTHER -> <<>>]
    BY <1>2 DEF MergeOutcomes
  <2>2. ASSUME NEW k \in Keys
        PROVE  t[k] \in {static[k], d[k], <<>>}
    BY <2>1
  <2>3. t \in Stages
    BY <2>1, <2>2, EmptySeq DEF Stages
  <2> DEFINE both == [k \in Keys |-> d[k] \o static[k]]
  <2>4. both \in JoinedLists(d, static)
    <3>1. both = [k \in Keys |-> IF k \in {} THEN static[k] \o d[k] ELSE d[k] \o static[k]]
      OBVIOUS
    <3>2. {} \in SUBSET {k \in Keys : d[k] # <<>> /\ static[k] # <<>>}
      OBVIOUS
    <3> DEFINE joined(o) == [k \in Keys |-> IF k \in o THEN static[k] \o d[k] ELSE d[k] \o static[k]]
               S == SUBSET {k \in Keys : d[k] # <<>> /\ static[k] # <<>>}
    <3>3. JoinedLists(d, static) = {joined(o) : o \in S}
      BY DEF JoinedLists
    <3>4. both = joined({}) /\ {} \in S
      BY <3>1, <3>2
    <3> HIDE DEF both, joined, S
    <3> QED
      BY <3>3, <3>4
  <2>5. both \in Stages /\ Count(both) = Count(d) + Count(static)
    BY <2>4, CountJoined
  <2>6. \A k \in Keys : Len(t[k]) <= Len(both[k])
    <3> SUFFICES ASSUME NEW k \in Keys PROVE Len(t[k]) <= Len(both[k])
      OBVIOUS
    <3>1. static[k] \in Seq(Values) /\ d[k] \in Seq(Values)
      BY DEF Stages
    <3>2. Len(static[k]) \in Nat /\ Len(d[k]) \in Nat /\ Len(<<>>) = 0
      BY <3>1, LenProperties, EmptySeq
    <3>3. Len(both[k]) = Len(d[k]) + Len(static[k])
      BY <3>1, ConcatProperties
    <3>4. t[k] = static[k] \/ t[k] = d[k] \/ t[k] = <<>>
      BY <2>2
    <3> DEFINE n == Len(static[k])
               m == Len(d[k])
    <3>5. Len(t[k]) = n \/ Len(t[k]) = m \/ Len(t[k]) = 0
      BY <3>2, <3>4, Zenon
    <3>6. n \in Nat /\ m \in Nat /\ Len(both[k]) = m + n
      BY <3>2, <3>3
    <3> HIDE DEF n, m, both
    <3> QED
      BY <3>5, <3>6
  <2> HIDE DEF both
  <2>7. SumFunction(Lengths(t)) <= SumFunction(Lengths(both))
    BY <2>3, <2>5, <2>6, LengthsType, SumLeq
  <2> QED
    BY <2>3, <2>5, <2>7, LengthsType
<1> QED
  BY <1>1, <1>2

-----------------------------------------------------------------------------
(* Lists.                                                                  *)

\* The first x in a list, and the lists without it and with v in its place.
LEMMA SplitAt ==
  ASSUME NEW s \in Seq(Values), NEW x \in Values, Contains(s, x)
  PROVE  \E a, b \in Seq(Values) :
           /\ s = a \o <<x>> \o b
           /\ RemoveFirst(s, x) = a \o b
           /\ \A v \in Values : Substituted(s, x, v) = a \o <<v>> \o b
<1> DEFINE I == {i \in 1..Len(s) : s[i] = x}
           n == SelectInSeq(s, LAMBDA y : y = x)
<1>1. Len(s) \in Nat /\ I # {} /\ I \in SUBSET Nat
  BY LenProperties DEF Contains
<1>2. n = Min(I)
  BY <1>1 DEF SelectInSeq
<1>3. n \in I
  <2> HIDE DEF I, n
  <2>1. \E i \in I : \A j \in I : i <= j
    BY <1>1, LeastNatural
  <2> QED
    BY <1>2, <2>1 DEF Min
<1>4. RemoveFirst(s, x) = SubSeq(s, 1, n - 1) \o SubSeq(s, n + 1, Len(s))
  BY DEF RemoveFirst, RemoveAt, Contains
<1>5. \A v : Substituted(s, x, v) = [s EXCEPT ![n] = v]
  BY DEF Substituted, ReplaceAt
<1>6. n \in 1..Len(s) /\ s[n] = x
  BY <1>3
<1> HIDE DEF n, I
<1> DEFINE a == SubSeq(s, 1, n - 1)
           b == SubSeq(s, n + 1, Len(s))
<1>7. /\ a \in Seq(Values) /\ Len(a) = n - 1 /\ \A i \in 1..n - 1 : a[i] = s[i]
      /\ b \in Seq(Values) /\ Len(b) = Len(s) - n /\ \A i \in 1..Len(s) - n : b[i] = s[n + i]
  BY <1>1, <1>6
<1> HIDE DEF a, b
<1>8. ASSUME NEW v \in Values, NEW t \in Seq(Values), Len(t) = Len(s), t[n] = v,
             \A i \in 1..Len(s) : i # n => t[i] = s[i]
      PROVE  t = a \o <<v>> \o b
  <2> DEFINE c == a \o <<v>>
  <2>1. /\ c \in Seq(Values) /\ Len(c) = n
        /\ \A i \in 1..n : c[i] = IF i < n THEN a[i] ELSE v
    <3>1. <<v>> \in Seq(Values) /\ Len(<<v>>) = 1 /\ <<v>>[1] = v
      BY <1>8
    <3>2. /\ c \in Seq(Values) /\ Len(c) = Len(a) + 1
          /\ \A i \in 1..Len(a) + 1 : c[i] = IF i <= Len(a) THEN a[i] ELSE <<v>>[i - Len(a)]
      BY <1>7, <3>1, ConcatProperties, ZenonT(30)
    <3>3. \A i \in 1..n : i < n \/ i = n
      BY <1>1, <1>6
    <3> HIDE DEF c
    <3>4. \A i \in 1..n : c[i] = IF i <= n - 1 THEN a[i] ELSE <<v>>[i - (n - 1)]
      <4>1. Len(a) = n - 1 /\ Len(a) + 1 = n
        BY <1>1, <1>6, <1>7
      <4> QED
        BY <3>2, <4>1
    <3>5. c[n] = v
      BY <1>1, <1>6, <3>1, <3>4
    <3>6. \A i \in 1..n - 1 : c[i] = a[i]
      BY <1>1, <1>6, <3>4
    <3> QED
      BY <1>1, <1>6, <1>7, <3>2, <3>5, <3>6
  <2> HIDE DEF c
  <2>2. /\ c \o b \in Seq(Values) /\ Len(c \o b) = Len(s)
        /\ \A i \in 1..Len(s) : (c \o b)[i] = IF i <= n THEN c[i] ELSE b[i - n]
    <3>1. Len(c) = n /\ Len(c) + Len(b) = Len(s)
      BY <1>1, <1>6, <1>7, <2>1
    <3>2. /\ c \o b \in Seq(Values) /\ Len(c \o b) = Len(c) + Len(b)
          /\ \A i \in 1..Len(c) + Len(b) :
               (c \o b)[i] = IF i <= Len(c) THEN c[i] ELSE b[i - Len(c)]
      BY <1>7, <2>1, ConcatProperties, ZenonT(30)
    <3> QED
      BY <3>1, <3>2
  <2>3. \A i \in 1..Len(s) : (c \o b)[i] = t[i]
    <3> SUFFICES ASSUME NEW i \in 1..Len(s) PROVE (c \o b)[i] = t[i]
      OBVIOUS
    <3>1. CASE i < n
      BY <1>1, <1>6, <1>7, <1>8, <2>1, <2>2, <3>1
    <3>2. CASE i = n
      BY <1>1, <1>6, <1>8, <2>1, <2>2, <3>2
    <3>3. CASE i > n
      <4>1. i - n \in 1..Len(s) - n /\ n + (i - n) = i
        BY <1>1, <1>6, <3>3
      <4>2. (c \o b)[i] = b[i - n] /\ b[i - n] = s[n + (i - n)]
        BY <1>1, <1>6, <1>7, <2>2, <3>3, <4>1
      <4> QED
        BY <1>6, <1>8, <3>3, <4>1, <4>2
    <3>4. i < n \/ i = n \/ i > n
      BY <1>1, <1>6
    <3> QED
      BY <3>1, <3>2, <3>3, <3>4
  <2> QED
    BY <1>8, <2>2, <2>3, SeqEqual DEF c
<1>9. s = a \o <<x>> \o b
  BY <1>6, <1>8
<1>10. \A v \in Values : Substituted(s, x, v) = a \o <<v>> \o b
  <2> SUFFICES ASSUME NEW v \in Values PROVE [s EXCEPT ![n] = v] = a \o <<v>> \o b
    BY <1>5
  <2> DEFINE t == [s EXCEPT ![n] = v]
  <2>1. t \in Seq(Values) /\ Len(t) = Len(s) /\ t[n] = v /\ \A i \in 1..Len(s) : i # n => t[i] = s[i]
    BY <1>6, ExceptSeq
  <2> HIDE DEF t
  <2>2. t = a \o <<v>> \o b
    BY <1>8, <2>1
  <2> QED
    BY <2>2 DEF t
<1> QED
  BY <1>4, <1>7, <1>9, <1>10 DEF a, b

LEMMA RemovedLength ==
  ASSUME NEW s \in Seq(Values), NEW x \in Values, Contains(s, x)
  PROVE  /\ RemoveFirst(s, x) \in Seq(Values)
         /\ Len(s) \in Nat \ {0} /\ Len(RemoveFirst(s, x)) = Len(s) - 1
<1>1. PICK a, b \in Seq(Values) : s = a \o <<x>> \o b /\ RemoveFirst(s, x) = a \o b
  BY SplitAt
<1>2. /\ <<x>> \in Seq(Values) /\ Len(<<x>>) = 1
      /\ Len(a) \in Nat /\ Len(b) \in Nat
  BY LenProperties
<1>3. a \o <<x>> \in Seq(Values) /\ Len(a \o <<x>>) = Len(a) + 1
  BY <1>2, ConcatProperties
<1>4. Len((a \o <<x>>) \o b) = Len(a) + 1 + Len(b)
  BY <1>3, ConcatProperties
<1>5. a \o b \in Seq(Values) /\ Len(a \o b) = Len(a) + Len(b)
  BY ConcatProperties
<1>6. Len(s) = Len(a) + 1 + Len(b) /\ Len(RemoveFirst(s, x)) = Len(a) + Len(b)
  BY <1>1, <1>4, <1>5
<1>7. RemoveFirst(s, x) \in Seq(Values)
  BY <1>1, <1>5
<1> QED
  BY <1>2, <1>6, <1>7

LEMMA SubstitutedLength ==
  ASSUME NEW s \in Seq(Values), NEW x \in Values, Contains(s, x), NEW v \in Values
  PROVE  Substituted(s, x, v) \in Seq(Values) /\ Len(Substituted(s, x, v)) = Len(s)
<1>1. PICK a, b \in Seq(Values) : s = a \o <<x>> \o b /\ Substituted(s, x, v) = a \o <<v>> \o b
  BY SplitAt
<1>2. ASSUME NEW u \in Values
      PROVE  a \o <<u>> \o b \in Seq(Values) /\ Len(a \o <<u>> \o b) = Len(a) + 1 + Len(b)
  <2>1. <<u>> \in Seq(Values) /\ Len(<<u>>) = 1
    OBVIOUS
  <2>2. a \o <<u>> \in Seq(Values) /\ Len(a \o <<u>>) = Len(a) + 1
    BY <2>1, ConcatProperties
  <2> QED
    BY <2>2, ConcatProperties
<1>3. Len(a \o <<x>> \o b) = Len(a) + 1 + Len(b) /\ Len(a \o <<v>> \o b) = Len(a) + 1 + Len(b)
  BY <1>2
<1>4. Substituted(s, x, v) \in Seq(Values)
  BY <1>1, <1>2
<1> QED
  BY <1>1, <1>3, <1>4

-----------------------------------------------------------------------------
(* The inductive invariant of the counters.                                *)

IInv ==
  /\ CountersExact
  /\ indexType \in Types /\ used \in Uses
  /\ indexType = 0 => client = "any"
  /\ Count(dynamic) + Count(static) <= ValueLimit

\* What the gates of the lookups let through.
LEMMA Gates ==
  ASSUME IInv
  PROVE  /\ dynamic \in Stages /\ static \in Stages
         /\ ic \in Nat /\ sic \in Nat /\ ValueLimit \in Nat
         /\ Count(dynamic) \in Nat /\ Count(static) \in Nat
         /\ \A k \in Keys : DynamicGet(k) = dynamic[k]
         /\ \A k \in Keys : StaticGet(k) # <<>> => StaticGet(k) = static[k] /\ sic # 0
         /\ sic = Count(static) => \A k \in Keys : StaticGet(k) = static[k]
<1>1. dynamic \in Stages /\ static \in Stages /\ ic \in Nat /\ sic \in Nat /\ ValueLimit \in Nat
  BY MergeAssumption DEF IInv, CountersExact, TypeOK, Stages
<1>2. Count(dynamic) \in Nat /\ Count(static) \in Nat /\ ic = Count(dynamic)
  BY <1>1, CountType DEF IInv, CountersExact
<1>3. \A k \in Keys : DynamicGet(k) = dynamic[k]
  BY <1>1, <1>2, CountType DEF DynamicGet
<1>4. sic = Count(static) => \A k \in Keys : StaticGet(k) = static[k]
  BY <1>1, CountType DEF StaticGet
<1> QED
  BY <1>1, <1>2, <1>3, <1>4 DEF StaticGet

\* Calls that leave the stages and their counters alone.
LEMMA StutterCounts ==
  ASSUME IInv, UNCHANGED <<stages, setting>>
  PROVE  IInv'
BY DEF IInv, CountersExact, TypeOK, StagesDisjoint, stages, setting, Count

LEMMA InitCounts == Init => IInv
<1> SUFFICES ASSUME Init PROVE IInv
  OBVIOUS
<1>1. Count(dynamic) = 0 /\ Count(static) = 0 /\ dynamic \in Stages /\ static \in Stages
  BY CountEmpty DEF Init
<1>2. ValueLimit \in Nat /\ 0 \in 0..ValueLimit
  BY MergeAssumption
<1>3. client \in Clients \cup {"any"} /\ (indexType = 0 => client = "any") /\ indexType \in Types
  BY DEF Init
<1>4. StagesDisjoint
  BY DEF Init, StagesDisjoint, Empty
<1> QED
  BY <1>1, <1>2, <1>3, <1>4 DEF Init, IInv, CountersExact, TypeOK, Stages

\* A merge of the dynamic stage d, which counts c values.
LEMMA MergeCounts ==
  ASSUME IInv, NEW d \in Stages, NEW c \in Nat, c = Count(d),
         c + Count(static) <= ValueLimit,
         client = "careful" => \A k \in Keys : d[k] = <<>> \/ static[k] = <<>>,
         MergeNuv(d, c), UNCHANGED setting
  PROVE  IInv'
<1>1. /\ dynamic' = Empty /\ ic' = 0 /\ sic' = sic + c
      /\ static' \in MergeOutcomes(d) /\ intact' = (intact /\ MergeWorks(d))
  BY DEF MergeNuv
<1>2. /\ static \in Stages /\ sic \in Nat /\ ValueLimit \in Nat /\ Count(static) \in Nat
      /\ intact \in BOOLEAN
  BY Gates DEF IInv, CountersExact, TypeOK
<1>3. Empty \in Stages /\ Count(Empty) = 0
  BY CountEmpty
<1>4. static' \in Stages /\ Count(static') <= c + Count(static)
  BY <1>1, <1>2, CountOutcomes
<1>5. MergeWorks(d) => Count(static') = c + Count(static)
  BY <1>1, <1>2, CountJoined DEF MergeOutcomes
<1>6. Count(static') \in Nat
  BY <1>4, CountType
<1>7. UNCHANGED <<client, used, indexType>>
  BY DEF setting
<1>8. intact' => sic' <= Count(static')
  <2> SUFFICES ASSUME intact' PROVE sic' <= Count(static')
    OBVIOUS
  <2>1. intact /\ MergeWorks(d)
    BY <1>1
  <2>2. sic <= Count(static)
    BY <2>1 DEF IInv, CountersExact
  <2> QED
    BY <1>1, <1>2, <1>5, <1>6, <2>1, <2>2
<1>9. ASSUME indexType = 0 \/ client = "careful"
      PROVE  sic' = Count(static') /\ (client = "careful" => intact')
  <2>1. MergeWorks(d)
    BY <1>9 DEF MergeWorks
  <2>2. sic = Count(static)
    BY <1>9 DEF IInv, CountersExact
  <2>3. client = "careful" => intact
    BY DEF IInv, CountersExact
  <2> QED
    BY <1>1, <1>2, <1>5, <1>6, <2>1, <2>2, <2>3
<1>10. StagesDisjoint'
  BY <1>1 DEF StagesDisjoint, Empty
<1>11. TypeOK'
  <2>1. intact' \in BOOLEAN /\ client' \in Clients \cup {"any"}
    BY <1>1, <1>2, <1>7 DEF IInv, CountersExact, TypeOK
  <2>2. ic' \in 0..ValueLimit /\ sic' \in Nat
    BY <1>1, <1>2
  <2> QED
    BY <1>1, <1>3, <1>4, <2>1, <2>2 DEF TypeOK, Stages
<1>12. ic' = Count(dynamic')
  BY <1>1, <1>3
<1>13. Count(dynamic') + Count(static') <= ValueLimit
  BY <1>1, <1>2, <1>3, <1>4, <1>6
<1>14. Count(dynamic)' = Count(dynamic') /\ Count(static)' = Count(static')
  BY DEF Count
<1>15. /\ indexType' \in Types /\ used' \in Uses
       /\ indexType' = 0 => client' = "any"
  BY <1>7 DEF IInv
<1> QED
  BY <1>7, <1>8, <1>9, <1>10, <1>11, <1>12, <1>13, <1>14, <1>15 DEF IInv, CountersExact

\* Any other step, told by how the stages and the counters change.
LEMMA StepCounts ==
  ASSUME IInv, dynamic' \in Stages, static' \in Stages, UNCHANGED setting, intact' = intact,
         ic' = Count(dynamic'), sic' \in Nat,
         sic' - Count(static') <= sic - Count(static),
         indexType = 0 \/ client = "careful" => sic' - Count(static') = sic - Count(static),
         Count(dynamic') + Count(static') <= ValueLimit,
         client = "careful" => \A k \in Keys : dynamic'[k] = <<>> \/ static'[k] = <<>>
  PROVE  IInv'
<1>1. /\ ic \in Nat /\ sic \in Nat /\ ValueLimit \in Nat /\ Count(dynamic) \in Nat
      /\ Count(static) \in Nat
  BY Gates
<1>2. Count(dynamic') \in Nat /\ Count(static') \in Nat
  BY CountType
<1>3. UNCHANGED <<client, used, indexType>> /\ intact' = intact
  BY DEF setting
<1>4. ic' = Count(dynamic') /\ ic' \in 0..ValueLimit /\ sic' \in Nat
  BY <1>1, <1>2
<1>5. TypeOK'
  BY <1>3, <1>4 DEF IInv, CountersExact, TypeOK, Stages
<1>6. intact' => sic' <= Count(static')
  BY <1>1, <1>2, <1>3 DEF IInv, CountersExact
<1>7. indexType' = 0 \/ client' = "careful" => sic' = Count(static')
  BY <1>1, <1>2, <1>3 DEF IInv, CountersExact
<1>8. client' = "careful" => StagesDisjoint' /\ intact'
  BY <1>3 DEF IInv, CountersExact, StagesDisjoint
<1>9. Count(dynamic)' = Count(dynamic') /\ Count(static)' = Count(static')
  BY DEF Count
<1>10. /\ indexType' \in Types /\ used' \in Uses
       /\ indexType' = 0 => client' = "any"
  BY <1>3 DEF IInv
<1> QED
  BY <1>4, <1>5, <1>6, <1>7, <1>8, <1>9, <1>10 DEF IInv, CountersExact

\* The values of a client are values.
LEMMA UsedValues ==
  ASSUME IInv, NEW k \in Keys, NEW v \in used[k]
  PROVE  v \in Values
BY UsesAssumption DEF IInv

\* A careful client uses type 1, where each key is in one stage.
LEMMA CarefulClient ==
  ASSUME IInv, client = "careful"
  PROVE  /\ indexType = 1
         /\ \A k \in Keys : dynamic[k] = <<>> \/ static[k] = <<>>
         /\ \A k \in Keys : StaticGet(k) = static[k]
<1>1. indexType = 1
  BY TypesAssumption DEF IInv
<1>2. sic = Count(static) /\ StagesDisjoint
  BY DEF IInv, CountersExact
<1> QED
  BY <1>1, <1>2, Gates DEF StagesDisjoint

LEMMA LongerList ==
  ASSUME NEW s \in Stages, NEW k \in Keys, NEW v \in Values, NEW t,
         t = [s EXCEPT ![k] = Cons(v, @)]
  PROVE  t \in Stages /\ Count(t) = Count(s) + 1
<1>1. s[k] \in Seq(Values) /\ <<v>> \in Seq(Values) /\ Len(<<v>>) = 1
  BY DEF Stages
<1>2. Cons(v, s[k]) \in Seq(Values) /\ Len(Cons(v, s[k])) = 1 + Len(s[k])
  BY <1>1, ConcatProperties DEF Cons
<1> DEFINE list == Cons(v, s[k])
<1>3. list \in Seq(Values) /\ t = WithList(s, k, list)
  BY <1>2 DEF WithList
<1>4. t \in Stages /\ Count(t) = Count(s) - Len(s[k]) + Len(list)
  <2> HIDE DEF list
  <2>1. /\ WithList(s, k, list) \in Stages
        /\ Count(WithList(s, k, list)) = Count(s) - Len(s[k]) + Len(list)
    BY <1>3, CountPut
  <2> QED
    BY <1>3, <2>1
<1>5. Len(s[k]) \in Nat /\ Count(s) \in Nat
  BY CountType
<1> QED
  BY <1>2, <1>4, <1>5

LEMMA ShorterList ==
  ASSUME NEW s \in Stages, NEW k \in Keys, NEW v \in Values, Contains(s[k], v), NEW t,
         t = [s EXCEPT ![k] = RemoveFirst(@, v)]
  PROVE  t \in Stages /\ Count(t) = Count(s) - 1
<1>1. s[k] \in Seq(Values)
  BY DEF Stages
<1>2. /\ RemoveFirst(s[k], v) \in Seq(Values)
      /\ Len(s[k]) \in Nat \ {0} /\ Len(RemoveFirst(s[k], v)) = Len(s[k]) - 1
  BY <1>1, RemovedLength
<1> DEFINE list == RemoveFirst(s[k], v)
<1>3. list \in Seq(Values) /\ t = WithList(s, k, list)
  BY <1>2 DEF WithList
<1>4. t \in Stages /\ Count(t) = Count(s) - Len(s[k]) + Len(list)
  <2> HIDE DEF list
  <2>1. /\ WithList(s, k, list) \in Stages
        /\ Count(WithList(s, k, list)) = Count(s) - Len(s[k]) + Len(list)
    BY <1>3, CountPut
  <2> QED
    BY <1>3, <2>1
<1>5. Count(s) \in Nat
  BY CountType
<1> QED
  BY <1>2, <1>4, <1>5

LEMMA PutCounts ==
  ASSUME IInv, NEW k \in Keys, NEW v \in used[k], PutNuv(k, v)
  PROVE  IInv'
<1>1. /\ dynamic \in Stages /\ static \in Stages /\ ic \in Nat /\ sic \in Nat /\ ValueLimit \in Nat
      /\ Count(dynamic) \in Nat /\ Count(static) \in Nat /\ ic = Count(dynamic)
      /\ DynamicGet(k) = dynamic[k] /\ v \in Values
  BY Gates, UsedValues DEF IInv, CountersExact
<1>2. Count(dynamic) + Count(static) < ValueLimit /\ UNCHANGED setting
  BY DEF PutNuv
<1>3. CASE indexType = 1 /\ FoundInStaticOnly(k)
  <2>1. /\ static' = [static EXCEPT ![k] = Cons(v, @)]
        /\ sic' = sic + 1 /\ UNCHANGED <<dynamic, ic, intact>>
    BY <1>3 DEF PutNuv, StaticPut
  <2>2. static' \in Stages /\ Count(static') = Count(static) + 1
    BY <1>1, <2>1, LongerList
  <2>3. client = "careful" => \A j \in Keys : dynamic'[j] = <<>> \/ static'[j] = <<>>
    <3>1. dynamic[k] = <<>>
      BY <1>1, <1>3 DEF FoundInStaticOnly
    <3> QED
      BY <2>1, <3>1, CarefulClient
  <2>4. /\ dynamic' \in Stages /\ ic' = Count(dynamic') /\ sic' \in Nat
        /\ sic' - Count(static') = sic - Count(static)
        /\ Count(dynamic') + Count(static') <= ValueLimit
    BY <1>1, <1>2, <2>1, <2>2
  <2>5. sic' - Count(static') <= sic - Count(static)
    BY <1>1, <2>2, <2>4
  <2> QED
    BY <1>2, <2>1, <2>2, <2>3, <2>4, <2>5, StepCounts
<1>4. CASE ~ (indexType = 1 /\ FoundInStaticOnly(k))
  <2> DEFINE d == [dynamic EXCEPT ![k] = Cons(v, @)]
  <2>1. IF MergeDue(ic + 1, sic)
        THEN MergeNuv(d, ic + 1)
        ELSE dynamic' = d /\ ic' = ic + 1 /\ UNCHANGED <<static, sic, intact>>
    BY <1>4 DEF PutNuv, DynamicPut
  <2>2. d \in Stages /\ Count(d) = Count(dynamic) + 1
    BY <1>1, LongerList
  <2>3. client = "careful" => \A j \in Keys : d[j] = <<>> \/ static[j] = <<>>
    <3> SUFFICES ASSUME client = "careful", NEW j \in Keys, static[j] # <<>>
                 PROVE  d[j] = <<>>
      OBVIOUS
    <3>1. dynamic[j] = <<>>
      BY CarefulClient
    <3>2. j # k
      BY <1>1, <1>4, <3>1, CarefulClient DEF FoundInStaticOnly
    <3> QED
      BY <1>1, <3>1, <3>2 DEF Stages
  <2> HIDE DEF d
  <2>4. CASE MergeDue(ic + 1, sic)
    <3>1. MergeNuv(d, ic + 1)
      BY <2>1, <2>4
    <3>2. ic + 1 \in Nat /\ ic + 1 = Count(d) /\ (ic + 1) + Count(static) <= ValueLimit
      BY <1>1, <1>2, <2>2
    <3> QED
      BY <1>2, <2>2, <2>3, <3>1, <3>2, MergeCounts
  <2>5. CASE ~ MergeDue(ic + 1, sic)
    <3>1. /\ dynamic' = d /\ ic' = ic + 1 /\ static' = static /\ sic' = sic
          /\ intact' = intact
      BY <2>1, <2>5
    <3>2. dynamic' \in Stages /\ static' \in Stages /\ ic' = Count(dynamic') /\ sic' \in Nat
      BY <1>1, <2>2, <3>1
    <3>3. Count(dynamic') + Count(static') <= ValueLimit
      BY <1>1, <1>2, <2>2, <3>1
    <3>4. /\ sic' - Count(static') <= sic - Count(static)
          /\ sic' - Count(static') = sic - Count(static)
      BY <1>1, <3>1
    <3> QED
      BY <1>2, <2>3, <3>1, <3>2, <3>3, <3>4, StepCounts
  <2> QED
    BY <2>4, <2>5
<1> QED
  BY <1>3, <1>4

LEMMA DynamicRemoveCounts ==
  ASSUME IInv, NEW k \in Keys, NEW v \in used[k],
         Contains(DynamicGet(k), v), DynamicRemove(k, v), UNCHANGED setting
  PROVE  IInv'
<1>1. /\ dynamic \in Stages /\ static \in Stages /\ ic \in Nat /\ sic \in Nat /\ ValueLimit \in Nat
      /\ Count(dynamic) \in Nat /\ Count(static) \in Nat /\ ic = Count(dynamic)
      /\ DynamicGet(k) = dynamic[k] /\ v \in Values
  BY Gates, UsedValues DEF IInv, CountersExact
<1>2. /\ dynamic' = [dynamic EXCEPT ![k] = RemoveFirst(@, v)]
      /\ ic' = ic - 1 /\ sic' = sic /\ static' = static /\ intact' = intact
  BY DEF DynamicRemove
<1>3. dynamic' \in Stages /\ Count(dynamic') = Count(dynamic) - 1
  <2>1. Contains(dynamic[k], v)
    BY <1>1
  <2> QED
    BY <1>1, <1>2, <2>1, ShorterList
<1>4. /\ ic' = Count(dynamic') /\ sic' \in Nat /\ static' \in Stages
      /\ sic' - Count(static') <= sic - Count(static)
      /\ sic' - Count(static') = sic - Count(static)
      /\ Count(dynamic') + Count(static') <= ValueLimit
  BY <1>1, <1>2, <1>3 DEF IInv
<1>5. client = "careful" => \A j \in Keys : dynamic'[j] = <<>> \/ static'[j] = <<>>
  <2> SUFFICES ASSUME client = "careful", NEW j \in Keys, static[j] # <<>>
               PROVE  dynamic'[j] = <<>>
    BY <1>2
  <2>1. dynamic[j] = <<>>
    BY CarefulClient
  <2>2. j # k
    BY <1>1, <2>1 DEF Contains
  <2> QED
    BY <1>1, <1>2, <2>1, <2>2 DEF Stages
<1> QED
  BY <1>2, <1>3, <1>4, <1>5, StepCounts

LEMMA StaticRemoveCounts ==
  ASSUME IInv, NEW k \in Keys, NEW v \in used[k], indexType = 1,
         client = "careful" => static[k] # <<v>>,
         Contains(StaticGet(k), v), StaticRemove(k, v), UNCHANGED setting
  PROVE  IInv'
<1>1. /\ dynamic \in Stages /\ static \in Stages /\ ic \in Nat /\ sic \in Nat /\ ValueLimit \in Nat
      /\ Count(dynamic) \in Nat /\ Count(static) \in Nat /\ ic = Count(dynamic)
      /\ v \in Values
  BY Gates, UsedValues DEF IInv, CountersExact
<1>2. StaticGet(k) = static[k] /\ sic # 0
  <2>1. StaticGet(k) # <<>>
    BY DEF Contains
  <2> QED
    BY <2>1, Gates
<1>3. dynamic' = dynamic /\ ic' = ic /\ intact' = intact
  BY DEF StaticRemove
<1>4. ic' = Count(dynamic') /\ dynamic' \in Stages
  BY <1>1, <1>3
<1>5. CASE static[k] = <<v>>
  <2>1. client # "careful" /\ indexType # 0
    BY <1>5
  <2>2. CASE sic = 1
    <3>1. sic' = 0 /\ static' = static
      BY <1>5, <2>2 DEF StaticRemove, StaticRemoveLast
    <3>2. /\ static' \in Stages /\ sic' \in Nat
          /\ sic' - Count(static') <= sic - Count(static)
          /\ Count(dynamic') + Count(static') <= ValueLimit
      BY <1>1, <1>3, <2>2, <3>1 DEF IInv
    <3> QED
      BY <1>3, <1>4, <2>1, <3>2, StepCounts
  <2>3. CASE sic # 1
    <3>1. sic' = sic - 2 /\ static' = [static EXCEPT ![k] = <<>>]
      BY <1>5, <2>3 DEF StaticRemove, StaticRemoveLast
    <3>2. Len(static[k]) = 1
      BY <1>5
    <3>3. static' \in Stages /\ Count(static') = Count(static) - 1
      <4>1. <<>> \in Seq(Values) /\ Len(<<>>) = 0 /\ static' = WithList(static, k, <<>>)
        BY <3>1 DEF WithList
      <4>2. static' \in Stages /\ Count(static') = Count(static) - Len(static[k]) + Len(<<>>)
        BY <1>1, <4>1, CountPut
      <4> QED
        BY <1>1, <3>2, <4>1, <4>2
    <3>4. /\ sic' \in Nat
          /\ sic' - Count(static') <= sic - Count(static)
          /\ Count(dynamic') + Count(static') <= ValueLimit
      BY <1>1, <1>2, <1>3, <2>3, <3>1, <3>3 DEF IInv
    <3> QED
      BY <1>3, <1>4, <2>1, <3>3, <3>4, StepCounts
  <2> QED
    BY <2>2, <2>3
<1>6. CASE static[k] # <<v>>
  <2>1. static' = [static EXCEPT ![k] = RemoveFirst(@, v)] /\ sic' = sic - 1
    BY <1>6 DEF StaticRemove
  <2>2. static' \in Stages /\ Count(static') = Count(static) - 1
    <3>1. Contains(static[k], v)
      BY <1>2
    <3> QED
      BY <1>1, <2>1, <3>1, ShorterList
  <2>3. /\ sic' \in Nat
        /\ sic' - Count(static') <= sic - Count(static)
        /\ sic' - Count(static') = sic - Count(static)
        /\ Count(dynamic') + Count(static') <= ValueLimit
    BY <1>1, <1>2, <1>3, <2>1, <2>2 DEF IInv
  <2>4. client = "careful" => \A j \in Keys : dynamic'[j] = <<>> \/ static'[j] = <<>>
    <3> SUFFICES ASSUME client = "careful", NEW j \in Keys, dynamic[j] # <<>>
                 PROVE  static'[j] = <<>>
      BY <1>3
    <3>1. static[j] = <<>>
      BY CarefulClient
    <3>2. j # k
      BY <1>2, <3>1 DEF Contains
    <3> QED
      BY <1>1, <2>1, <3>1, <3>2 DEF Stages
  <2> QED
    BY <1>3, <1>4, <2>2, <2>3, <2>4, StepCounts
<1> QED
  BY <1>5, <1>6

\* What the removal of one value in type 0 makes of the two stages.
Without(k) == [static EXCEPT ![k] = <<>>]
PutBack(k, v) == [dynamic EXCEPT ![k] = RemoveFirst(static[k], v) \o @]

LEMMA PackedRemoveStages ==
  ASSUME dynamic \in Stages, static \in Stages, NEW k \in Keys, NEW v \in Values,
         Contains(static[k], v)
  PROVE  LET rest == RemoveFirst(static[k], v)
         IN  /\ rest \in Seq(Values) /\ Len(rest) \in Nat
             /\ Without(k) \in Stages /\ Count(Without(k)) = Count(static) - 1 - Len(rest)
             /\ PutBack(k, v) \in Stages /\ Count(PutBack(k, v)) = Count(dynamic) + Len(rest)
<1> DEFINE rest == RemoveFirst(static[k], v)
           list == rest \o dynamic[k]
<1>1. static[k] \in Seq(Values) /\ dynamic[k] \in Seq(Values)
  BY DEF Stages
<1>2. rest \in Seq(Values) /\ Len(static[k]) \in Nat \ {0} /\ Len(rest) = Len(static[k]) - 1
  BY <1>1, RemovedLength
<1> HIDE DEF rest
<1>3. Len(rest) \in Nat /\ Len(dynamic[k]) \in Nat /\ Count(dynamic) \in Nat /\ Count(static) \in Nat
  BY <1>2, CountType
<1>4. list \in Seq(Values) /\ Len(list) = Len(rest) + Len(dynamic[k])
  BY <1>1, <1>2, ConcatProperties
<1>5. Without(k) \in Stages /\ Count(Without(k)) = Count(static) - Len(static[k]) + 0
  <2>1. <<>> \in Seq(Values) /\ Len(<<>>) = 0 /\ Without(k) = WithList(static, k, <<>>)
    BY DEF Without, WithList
  <2> QED
    BY <2>1, CountPut
<1>6. PutBack(k, v) \in Stages /\ Count(PutBack(k, v)) = Count(dynamic) - Len(dynamic[k]) + Len(list)
  <2>1. PutBack(k, v) = WithList(dynamic, k, list)
    BY DEF PutBack, rest, WithList
  <2> HIDE DEF list
  <2> QED
    BY <1>4, <2>1, CountPut
<1> HIDE DEF list
<1>7. Count(Without(k)) = Count(static) - 1 - Len(rest)
  BY <1>2, <1>3, <1>5
<1>8. Count(PutBack(k, v)) = Count(dynamic) + Len(rest)
  BY <1>3, <1>4, <1>6
<1> QED
  BY <1>2, <1>3, <1>5, <1>6, <1>7, <1>8 DEF rest

LEMMA PackedRemoveCounts ==
  ASSUME IInv, NEW k \in Keys, NEW v \in used[k], indexType = 0,
         Contains(StaticGet(k), v), PackedRemove(k, v), UNCHANGED setting
  PROVE  IInv'
<1>1. /\ dynamic \in Stages /\ static \in Stages /\ ic \in Nat /\ sic \in Nat /\ ValueLimit \in Nat
      /\ Count(dynamic) \in Nat /\ Count(static) \in Nat /\ ic = Count(dynamic)
      /\ sic = Count(static) /\ v \in Values /\ client # "careful"
      /\ Count(dynamic) + Count(static) <= ValueLimit
  BY Gates, UsedValues DEF IInv, CountersExact
<1>2. Contains(static[k], v)
  BY <1>1, Gates
<1> DEFINE rest == RemoveFirst(static[k], v)
           c == ic + Len(rest)
<1>3. /\ Len(rest) \in Nat
      /\ Without(k) \in Stages /\ Count(Without(k)) = Count(static) - 1 - Len(rest)
      /\ PutBack(k, v) \in Stages /\ Count(PutBack(k, v)) = Count(dynamic) + Len(rest)
  BY <1>1, <1>2, PackedRemoveStages
<1>4. /\ IF rest # <<>> /\ MergeDue(c, sic - 1)
         THEN /\ static' \in JoinedLists(PutBack(k, v), Without(k))
              /\ dynamic' = Empty /\ ic' = 0 /\ sic' = sic - 1 + c - Len(rest)
         ELSE /\ static' = Without(k) /\ dynamic' = PutBack(k, v)
              /\ ic' = c /\ sic' = sic - 1 - Len(rest)
      /\ intact' = intact
  BY DEF PackedRemove, Without, PutBack
<1> HIDE DEF rest
<1>5. Count(Without(k)) \in Nat /\ Count(PutBack(k, v)) \in Nat
  BY <1>3, CountType
<1>6. CASE rest # <<>> /\ MergeDue(c, sic - 1)
  <2>1. /\ static' \in Stages
        /\ Count(static') = Count(PutBack(k, v)) + Count(Without(k))
    BY <1>3, <1>4, <1>6, CountJoined
  <2>2. dynamic' \in Stages /\ ic' = 0 /\ Count(dynamic') = 0
    BY <1>4, <1>6, CountEmpty
  <2>3. Count(static') = Count(dynamic) + Count(static) - 1
    BY <1>1, <1>3, <2>1
  <2>4. sic' = Count(static')
    BY <1>1, <1>3, <1>4, <1>6, <2>3
  <2>5. /\ ic' = Count(dynamic') /\ sic' \in Nat
        /\ sic' - Count(static') <= sic - Count(static)
        /\ sic' - Count(static') = sic - Count(static)
        /\ Count(dynamic') + Count(static') <= ValueLimit
    <3>1. Count(static') \in Nat
      BY <2>1, CountType
    <3> QED
      BY <1>1, <2>2, <2>3, <2>4, <3>1
  <2> QED
    BY <1>1, <1>4, <2>1, <2>2, <2>5, StepCounts
<1>7. CASE ~ (rest # <<>> /\ MergeDue(c, sic - 1))
  <2>1. /\ static' = Without(k) /\ dynamic' = PutBack(k, v)
        /\ ic' = c /\ sic' = sic - 1 - Len(rest)
    BY <1>4, <1>7
  <2>2. /\ dynamic' \in Stages /\ static' \in Stages
        /\ ic' = Count(dynamic') /\ sic' = Count(static') /\ sic' \in Nat
        /\ Count(dynamic') + Count(static') <= ValueLimit
    BY <1>1, <1>3, <1>5, <2>1
  <2>3. /\ sic' - Count(static') <= sic - Count(static)
        /\ sic' - Count(static') = sic - Count(static)
    BY <1>1, <2>2
  <2> QED
    BY <1>1, <1>4, <2>2, <2>3, StepCounts
<1> QED
  BY <1>6, <1>7

LEMMA RemoveCounts ==
  ASSUME IInv, NEW k \in Keys, NEW v \in used[k], RemoveNuv(k, v)
  PROVE  IInv'
<1>1. UNCHANGED setting /\ (client = "careful" => static[k] # <<v>>)
  BY DEF RemoveNuv
<1>2. \/ Contains(DynamicGet(k), v) /\ DynamicRemove(k, v)
      \/ Contains(StaticGet(k), v) /\ IF indexType = 1 THEN StaticRemove(k, v) ELSE PackedRemove(k, v)
      \/ UNCHANGED stages
  BY DEF RemoveNuv
<1>3. indexType = 0 \/ indexType = 1
  BY TypesAssumption DEF IInv
<1> QED
  BY <1>1, <1>2, <1>3, DynamicRemoveCounts, StaticRemoveCounts, PackedRemoveCounts, StutterCounts

\* Calls that exchange values.
LEMMA SameCounts ==
  ASSUME IInv, UNCHANGED <<ic, sic, setting, intact>>, dynamic' \in Stages, static' \in Stages,
         \A k \in Keys : Len(dynamic'[k]) = Len(dynamic[k]) /\ Len(static'[k]) = Len(static[k])
  PROVE  IInv'
<1>1. dynamic \in Stages /\ static \in Stages /\ sic \in Nat /\ ic = Count(dynamic)
      /\ Count(dynamic) + Count(static) <= ValueLimit
  BY Gates DEF IInv, CountersExact
<1>2. Count(dynamic') = Count(dynamic) /\ Count(static') = Count(static)
  <2>1. [k \in Keys |-> Len(dynamic'[k])] = [k \in Keys |-> Len(dynamic[k])]
    OBVIOUS
  <2>2. [k \in Keys |-> Len(static'[k])] = [k \in Keys |-> Len(static[k])]
    OBVIOUS
  <2> QED
    BY <2>1, <2>2 DEF Count
<1>3. client = "careful" => \A k \in Keys : dynamic'[k] = <<>> \/ static'[k] = <<>>
  <2> SUFFICES ASSUME client = "careful", NEW k \in Keys
               PROVE  dynamic'[k] = <<>> \/ static'[k] = <<>>
    OBVIOUS
  <2>1. dynamic[k] = <<>> \/ static[k] = <<>>
    BY CarefulClient
  <2>2. Len(dynamic'[k]) = 0 \/ Len(static'[k]) = 0
    BY <2>1
  <2>3. dynamic'[k] \in Seq(Values) /\ static'[k] \in Seq(Values)
    BY DEF Stages
  <2> QED
    BY <2>2, <2>3, EmptySeq
<1>4. /\ ic' = Count(dynamic') /\ sic' \in Nat
      /\ sic' - Count(static') <= sic - Count(static)
      /\ sic' - Count(static') = sic - Count(static)
      /\ Count(dynamic') + Count(static') <= ValueLimit
  BY <1>1, <1>2, CountType
<1> QED
  BY <1>3, <1>4, StepCounts

LEMMA ReplaceCounts ==
  ASSUME IInv, NEW k \in Keys, NEW v \in used[k], NEW old \in used[k], Replace(k, v, old)
  PROVE  IInv'
<1>1. dynamic \in Stages /\ static \in Stages /\ v \in Values /\ old \in Values
      /\ DynamicGet(k) = dynamic[k]
  BY Gates, UsedValues
<1>2. UNCHANGED <<ic, sic, setting, intact>>
  BY DEF Replace
<1>3. CASE Contains(DynamicGet(k), old) /\ static' = static
           /\ dynamic' = [dynamic EXCEPT ![k] = Substituted(@, old, v)]
  <2>1. dynamic' \in Stages /\ \A j \in Keys : Len(dynamic'[j]) = Len(dynamic[j])
    <3>1. Contains(dynamic[k], old)
      BY <1>1, <1>3
    <3> DEFINE list == Substituted(dynamic[k], old, v)
    <3>2. dynamic[k] \in Seq(Values)
      BY <1>1 DEF Stages
    <3>3. list \in Seq(Values) /\ Len(list) = Len(dynamic[k])
      BY <1>1, <3>1, <3>2, SubstitutedLength
    <3>4. dynamic' = [dynamic EXCEPT ![k] = list]
      BY <1>3
    <3> HIDE DEF list
    <3>5. dynamic \in [Keys -> Seq(Values)]
      BY <1>1 DEF Stages
    <3> QED
      BY <3>3, <3>4, <3>5 DEF Stages
  <2> QED
    BY <1>1, <1>2, <1>3, <2>1, SameCounts
<1>4. CASE Contains(StaticGet(k), old) /\ dynamic' = dynamic
           /\ static' = [static EXCEPT ![k] = Substituted(@, old, v)]
  <2>1. StaticGet(k) = static[k]
    BY <1>4, Gates DEF Contains
  <2>2. static' \in Stages /\ \A j \in Keys : Len(static'[j]) = Len(static[j])
    <3>1. Contains(static[k], old)
      BY <1>4, <2>1
    <3> DEFINE list == Substituted(static[k], old, v)
    <3>2. static[k] \in Seq(Values)
      BY <1>1 DEF Stages
    <3>3. list \in Seq(Values) /\ Len(list) = Len(static[k])
      BY <1>1, <3>1, <3>2, SubstitutedLength
    <3>4. static' = [static EXCEPT ![k] = list]
      BY <1>4
    <3> HIDE DEF list
    <3>5. static \in [Keys -> Seq(Values)]
      BY <1>1 DEF Stages
    <3> QED
      BY <3>3, <3>4, <3>5 DEF Stages
  <2> QED
    BY <1>1, <1>2, <1>4, <2>2, SameCounts
<1>5. CASE UNCHANGED <<dynamic, static>>
  BY <1>2, <1>5, StutterCounts DEF stages
<1> QED
  BY <1>3, <1>4, <1>5 DEF Replace

LEMMA OverwrittenStage ==
  ASSUME NEW s \in Stages, NEW k \in Keys, NEW v \in Values, s[k] # <<>>
  PROVE  LET list == [s[k] EXCEPT ![1] = v]
         IN  /\ list \in Seq(Values) /\ Len(list) = Len(s[k])
             /\ [s EXCEPT ![k][1] = v] = [s EXCEPT ![k] = list]
<1>1. s[k] \in Seq(Values) /\ 1 \in 1..Len(s[k])
  BY EmptySeq DEF Stages
<1> QED
  BY <1>1, ExceptSeq

LEMMA ReplaceNewestCounts ==
  ASSUME IInv, NEW k \in Keys, NEW v \in used[k], ReplaceNewest(k, v)
  PROVE  IInv'
<1>1. dynamic \in Stages /\ static \in Stages /\ v \in Values
  BY Gates, UsedValues
<1>2. UNCHANGED <<ic, sic, setting, intact>>
  BY DEF ReplaceNewest
<1>3. CASE FoundInStaticOnly(k) /\ static' = [static EXCEPT ![k][1] = v] /\ dynamic' = dynamic
  <2>1. static[k] # <<>>
    BY <1>3, Gates DEF FoundInStaticOnly
  <2>2. static' \in Stages /\ \A j \in Keys : Len(static'[j]) = Len(static[j])
    <3> DEFINE list == [static[k] EXCEPT ![1] = v]
    <3>1. /\ list \in Seq(Values) /\ Len(list) = Len(static[k])
          /\ static' = [static EXCEPT ![k] = list]
      BY <1>1, <2>1, <1>3, OverwrittenStage
    <3>2. static \in [Keys -> Seq(Values)]
      BY <1>1 DEF Stages
    <3> HIDE DEF list
    <3> QED
      BY <3>1, <3>2 DEF Stages
  <2> QED
    BY <1>1, <1>2, <1>3, <2>2, SameCounts
<1>4. CASE dynamic[k] # <<>> /\ dynamic' = [dynamic EXCEPT ![k][1] = v] /\ static' = static
  <2>1. dynamic' \in Stages /\ \A j \in Keys : Len(dynamic'[j]) = Len(dynamic[j])
    <3> DEFINE list == [dynamic[k] EXCEPT ![1] = v]
    <3>1. /\ list \in Seq(Values) /\ Len(list) = Len(dynamic[k])
          /\ dynamic' = [dynamic EXCEPT ![k] = list]
      BY <1>1, <1>4, OverwrittenStage
    <3>2. dynamic \in [Keys -> Seq(Values)]
      BY <1>1 DEF Stages
    <3> HIDE DEF list
    <3> QED
      BY <3>1, <3>2 DEF Stages
  <2> QED
    BY <1>1, <1>2, <1>4, <2>1, SameCounts
<1>5. CASE UNCHANGED <<dynamic, static>>
  BY <1>2, <1>5, StutterCounts DEF stages
<1> QED
  BY <1>3, <1>4, <1>5 DEF ReplaceNewest

LEMMA NextCounts ==
  ASSUME IInv, [Next]_vars
  PROVE  IInv'
<1>1. CASE UNCHANGED vars
  BY <1>1, StutterCounts DEF vars
<1>2. ASSUME NEW k \in Keys, NEW v \in used[k],
             PutNuv(k, v) \/ RemoveNuv(k, v) \/ ReplaceNewest(k, v)
      PROVE  IInv'
  BY <1>2, PutCounts, RemoveCounts, ReplaceNewestCounts
<1>3. ASSUME NEW k \in Keys, NEW v \in used[k], NEW old \in used[k], Replace(k, v, old) PROVE IInv'
  BY <1>3, ReplaceCounts
<1>4. ASSUME NEW k \in Keys, GetNuv(k) \/ ExistNuv(k) PROVE IInv'
  BY <1>4, StutterCounts DEF GetNuv, ExistNuv
<1>5. CASE Merge
  <2>1. MergeNuv(dynamic, ic) /\ UNCHANGED setting
    BY <1>5 DEF Merge
  <2>2. dynamic \in Stages /\ ic \in Nat /\ ic = Count(dynamic) /\ ic + Count(static) <= ValueLimit
    BY Gates DEF IInv, CountersExact
  <2>3. client = "careful" => \A k \in Keys : dynamic[k] = <<>> \/ static[k] = <<>>
    BY CarefulClient
  <2> QED
    BY <2>1, <2>2, <2>3, MergeCounts
<1> QED
  BY <1>1, <1>2, <1>3, <1>4, <1>5 DEF Next

LEMMA Invariance == Spec => []IInv
BY InitCounts, NextCounts, PTL DEF Spec

\* ic counts the dynamic stage exactly, and sic never exceeds what the static
\* stage holds until a merge has failed, whatever a client does; both are exact
\* for a careful client and in type 0, where one removal may move the rest of a
\* list, merge, and correct both counters.
THEOREM CountersAreExact == Spec => []CountersExact
<1>1. IInv => CountersExact
  BY DEF IInv
<1> QED
  BY <1>1, Invariance, PTL

-----------------------------------------------------------------------------
(* What a client sees of the two lists of a key.                           *)

\* The list of a key that is in one stage is what the client sees.
LEMMA OneSide ==
  ASSUME NEW d \in Stages, NEW s \in Stages, NEW k \in Keys
  PROVE  /\ d[k] \in Seq(Values) /\ s[k] \in Seq(Values) /\ d[k] \o s[k] \in Seq(Values)
         /\ d[k] = <<>> => d[k] \o s[k] = s[k] /\ s[k] \o d[k] = s[k]
         /\ s[k] = <<>> => d[k] \o s[k] = d[k] /\ s[k] \o d[k] = d[k]
<1>1. d[k] \in Seq(Values) /\ s[k] \in Seq(Values)
  BY DEF Stages
<1> QED
  BY <1>1, ConcatEmptySeq, ConcatProperties

LEMMA SameOrder ==
  ASSUME NEW d \in Stages, NEW s \in Stages, NEW k \in Keys, d[k] = <<>> \/ s[k] = <<>>
  PROVE  d[k] \o s[k] = s[k] \o d[k]
<1>1. CASE d[k] = <<>>
  <2>1. d[k] \o s[k] = s[k] /\ s[k] \o d[k] = s[k]
    BY <1>1, OneSide
  <2> QED
    BY <2>1
<1>2. CASE s[k] = <<>>
  <2>1. d[k] \o s[k] = d[k] /\ s[k] \o d[k] = d[k]
    BY <1>2, OneSide
  <2> QED
    BY <2>1
<1> QED
  BY <1>1, <1>2

\* A merge that works joins the lists of each key, in one order or the other.
LEMMA MergedView ==
  ASSUME NEW d \in Stages, NEW s \in Stages, dynamic' = Empty, static' \in JoinedLists(d, s)
  PROVE  /\ Apart' = {}
         /\ \A k \in Keys : /\ dynamic'[k] = <<>>
                            /\ View'[k] = d[k] \o s[k] \/ View'[k] = s[k] \o d[k]
<1>1. PICK first \in SUBSET Keys :
        static' = [k \in Keys |-> IF k \in first THEN s[k] \o d[k] ELSE d[k] \o s[k]]
  BY DEF JoinedLists
<1>2. static' \in Stages
  BY CountJoined
<1>3. ASSUME NEW k \in Keys
      PROVE  /\ dynamic'[k] = <<>>
             /\ View'[k] = d[k] \o s[k] \/ View'[k] = s[k] \o d[k]
  <2>1. dynamic'[k] = <<>>
    BY DEF Empty
  <2>2. View'[k] = static'[k]
    BY <1>2, <2>1, ConcatEmptySeq DEF View, Stages
  <2>3. static'[k] = d[k] \o s[k] \/ static'[k] = s[k] \o d[k]
    BY <1>1
  <2> QED
    BY <2>1, <2>2, <2>3
<1> QED
  BY <1>3 DEF Apart

LEMMA WorkingMerge ==
  ASSUME NEW d \in Stages, NEW c, MergeNuv(d, c), MergeWorks(d)
  PROVE  dynamic' = Empty /\ static' \in JoinedLists(d, static)
BY DEF MergeNuv, MergeOutcomes

-----------------------------------------------------------------------------
(* A careful client sees the lists of IndexMultiMap: every call is the call *)
(* of the same name there.                                                 *)

\* Each key is in one stage at most, and its list there is the one that is seen.
Single ==
  \A k \in Keys : /\ dynamic[k] = <<>> \/ static[k] = <<>>
                  /\ View[k] = IF dynamic[k] = <<>> THEN static[k] ELSE dynamic[k]

LEMMA CarefulView ==
  ASSUME IInv, client = "careful"
  PROVE  Single
<1>1. dynamic \in Stages /\ static \in Stages /\ \A k \in Keys : dynamic[k] = <<>> \/ static[k] = <<>>
  BY Gates, CarefulClient
<1>2. \A k \in Keys : View[k] = dynamic[k] \o static[k]
  BY DEF View
<1> QED
  BY <1>1, <1>2, OneSide DEF Single

LEMMA CarefulViewNext ==
  ASSUME IInv', client' = "careful"
  PROVE  Single'
<1>1. TypeOK' /\ StagesDisjoint'
  BY DEF IInv, CountersExact
<1>2. /\ dynamic' \in Stages /\ static' \in Stages
      /\ \A k \in Keys : dynamic'[k] = <<>> \/ static'[k] = <<>>
  BY <1>1 DEF TypeOK, StagesDisjoint, Stages
<1>3. \A k \in Keys : View'[k] = dynamic'[k] \o static'[k]
  BY DEF View
<1> QED
  BY <1>2, <1>3, OneSide DEF Single

\* A call that changes the list of one key.
LEMMA ListChange ==
  ASSUME NEW k \in Keys, NEW list, View'[k] = list, \A j \in Keys \ {k} : View'[j] = View[j]
  PROVE  View' = [View EXCEPT ![k] = list]
BY DEF View

\* What the steps below start from.
LEMMA CarefulStep ==
  ASSUME IInv, client = "careful", IInv', UNCHANGED setting
  PROVE  /\ Single /\ Single' /\ indexType = 1
         /\ dynamic \in Stages /\ static \in Stages
         /\ \A k \in Keys : DynamicGet(k) = dynamic[k] /\ StaticGet(k) = static[k]
<1>1. client' = "careful"
  BY DEF setting
<1> QED
  BY <1>1, CarefulView, CarefulViewNext, CarefulClient, Gates

LEMMA ListPut ==
  ASSUME IInv, client = "careful", IInv', NEW k \in Keys, NEW v \in Values, PutNuv(k, v)
  PROVE  Lists!Put(k, v)
<1>1. /\ Single /\ Single' /\ indexType = 1
      /\ dynamic \in Stages /\ static \in Stages
      /\ DynamicGet(k) = dynamic[k] /\ StaticGet(k) = static[k]
  BY CarefulStep DEF PutNuv
<1>2. last' = [op |-> "put_nuv", key |-> k]
  BY DEF PutNuv
<1>3. View'[k] = Cons(v, View[k]) /\ \A j \in Keys \ {k} : View'[j] = View[j]
  <2>1. CASE FoundInStaticOnly(k)
    <3>1. static' = [static EXCEPT ![k] = Cons(v, @)] /\ dynamic' = dynamic /\ dynamic[k] = <<>>
      BY <1>1, <2>1 DEF PutNuv, StaticPut, FoundInStaticOnly
    <3>2. static'[k] = Cons(v, static[k]) /\ \A j \in Keys \ {k} : static'[j] = static[j]
      BY <1>1, <3>1 DEF Stages
    <3> QED
      BY <1>1, <3>1, <3>2 DEF Single
  <2>2. CASE ~ FoundInStaticOnly(k)
    <3> DEFINE d == [dynamic EXCEPT ![k] = Cons(v, @)]
    <3>1. IF MergeDue(ic + 1, sic)
          THEN MergeNuv(d, ic + 1)
          ELSE dynamic' = d /\ static' = static
      BY <1>1, <2>2 DEF PutNuv, DynamicPut
    <3>2. d \in Stages
      BY <1>1, LongerList
    <3>3. d[k] = Cons(v, dynamic[k]) /\ \A j \in Keys \ {k} : d[j] = dynamic[j]
      BY <1>1 DEF Stages
    <3>4. static[k] = <<>> /\ View[k] = dynamic[k]
      BY <1>1, <2>2 DEF Single, FoundInStaticOnly
    <3>5. \A j \in Keys : d[j] = <<>> \/ static[j] = <<>>
      BY <1>1, <3>3, <3>4 DEF Single
    <3> HIDE DEF d
    <3>6. \A j \in Keys : View[j] = dynamic[j] \o static[j]
      BY DEF View
    <3>7. ASSUME NEW j \in Keys
          PROVE  View'[j] = d[j] \o static[j]
      <4>1. CASE MergeDue(ic + 1, sic)
        <5>1. MergeNuv(d, ic + 1) /\ MergeWorks(d)
          BY <3>1, <3>5, <4>1 DEF MergeWorks
        <5>2. View'[j] = d[j] \o static[j] \/ View'[j] = static[j] \o d[j]
          BY <1>1, <3>2, <5>1, WorkingMerge, MergedView
        <5>3. d[j] \o static[j] = static[j] \o d[j]
          BY <1>1, <3>2, <3>5, SameOrder
        <5> QED
          BY <5>2, <5>3
      <4>2. CASE ~ MergeDue(ic + 1, sic)
        <5>1. dynamic' = d /\ static' = static
          BY <3>1, <4>2
        <5> QED
          BY <5>1 DEF View
      <4> QED
        BY <4>1, <4>2
    <3>8. View'[k] = d[k]
      BY <1>1, <3>2, <3>4, <3>7, OneSide
    <3> QED
      BY <3>3, <3>4, <3>6, <3>7, <3>8
  <2> QED
    BY <2>1, <2>2
<1>4. View' = [View EXCEPT ![k] = Cons(v, View[k])]
  BY <1>3, ListChange
<1> QED
  BY <1>2, <1>4 DEF Lists!Put, Lists!Cons, Cons
LEMMA ListRemove ==
  ASSUME IInv, client = "careful", IInv', NEW k \in Keys, NEW v \in Values, RemoveNuv(k, v)
  PROVE  Lists!RemoveValue(k, v)
<1>1. /\ Single /\ Single' /\ indexType = 1
      /\ dynamic \in Stages /\ static \in Stages
      /\ DynamicGet(k) = dynamic[k] /\ StaticGet(k) = static[k]
  BY CarefulStep DEF RemoveNuv
<1>2. static[k] # <<v>>
  BY DEF RemoveNuv
<1>3. Contains(<<>>, v) <=> FALSE
  BY DEF Contains
<1>4. /\ View'[k] = RemoveFirst(View[k], v)
      /\ \A j \in Keys \ {k} : View'[j] = View[j]
      /\ last' = Reply("remove_nuv", k, Contains(View[k], v))
  <2>1. CASE Contains(dynamic[k], v)
    <3>1. /\ dynamic' = [dynamic EXCEPT ![k] = RemoveFirst(@, v)] /\ static' = static
          /\ last' = Reply("remove_nuv", k, TRUE)
      BY <1>1, <2>1 DEF RemoveNuv, DynamicRemove
    <3>2. /\ dynamic'[k] = RemoveFirst(dynamic[k], v)
          /\ \A j \in Keys \ {k} : dynamic'[j] = dynamic[j]
      BY <1>1, <3>1 DEF Stages
    <3>3. dynamic[k] # <<>> /\ static[k] = <<>> /\ View[k] = dynamic[k]
      BY <1>1, <1>3, <2>1 DEF Single
    <3>4. View'[k] = dynamic'[k]
      BY <1>1, <3>1, <3>3 DEF Single
    <3> QED
      BY <1>1, <2>1, <3>1, <3>2, <3>3, <3>4 DEF Single
  <2>2. CASE ~ Contains(dynamic[k], v) /\ Contains(static[k], v)
    <3>1. /\ static' = [static EXCEPT ![k] = RemoveFirst(@, v)] /\ dynamic' = dynamic
          /\ last' = Reply("remove_nuv", k, TRUE)
      BY <1>1, <1>2, <2>2 DEF RemoveNuv, StaticRemove
    <3>2. /\ static'[k] = RemoveFirst(static[k], v)
          /\ \A j \in Keys \ {k} : static'[j] = static[j]
      BY <1>1, <3>1 DEF Stages
    <3>3. dynamic[k] = <<>> /\ View[k] = static[k]
      BY <1>1, <1>3, <2>2 DEF Single
    <3>4. View'[k] = static'[k]
      BY <1>1, <3>1, <3>3 DEF Single
    <3> QED
      BY <1>1, <2>2, <3>1, <3>2, <3>3, <3>4 DEF Single
  <2>3. CASE ~ Contains(dynamic[k], v) /\ ~ Contains(static[k], v)
    <3>1. dynamic' = dynamic /\ static' = static /\ last' = Reply("remove_nuv", k, FALSE)
      BY <1>1, <2>3 DEF RemoveNuv, stages
    <3>2. ~ Contains(View[k], v)
      BY <1>1, <2>3 DEF Single
    <3>3. RemoveFirst(View[k], v) = View[k] /\ Contains(View[k], v) = FALSE
      BY <3>2 DEF RemoveFirst, Contains
    <3>4. View' = View
      BY <3>1 DEF View
    <3> QED
      BY <3>1, <3>3, <3>4
  <2> QED
    BY <2>1, <2>2, <2>3
<1>5. View' = [View EXCEPT ![k] = RemoveFirst(View[k], v)]
  BY <1>4, ListChange
<1>6. Lists!Holds(k, v) = Contains(View[k], v)
  BY DEF Lists!Holds, Lists!Contains, Contains
<1>7. Lists!RemoveFirst(View[k], v) = RemoveFirst(View[k], v)
  BY DEF Lists!RemoveFirst, RemoveFirst, Lists!RemoveAt, RemoveAt, Lists!SelectInSeq, SelectInSeq,
         Lists!Min, Min
<1> QED
  BY <1>4, <1>5, <1>6, <1>7 DEF Lists!RemoveValue, Lists!Reply, Reply

LEMMA ListReplace ==
  ASSUME IInv, client = "careful", IInv',
         NEW k \in Keys, NEW v \in Values, NEW old \in Values, Replace(k, v, old)
  PROVE  Lists!Replace(k, v, old)
<1>1. /\ Single /\ Single' /\ indexType = 1
      /\ dynamic \in Stages /\ static \in Stages
      /\ DynamicGet(k) = dynamic[k] /\ StaticGet(k) = static[k]
  BY CarefulStep DEF Replace
<1>2. Contains(<<>>, old) <=> FALSE
  BY DEF Contains
<1>3. Contains(View[k], old) = (Contains(dynamic[k], old) \/ Contains(static[k], old))
  <2>1. Contains(View[k], old) <=> Contains(dynamic[k], old) \/ Contains(static[k], old)
    BY <1>1, <1>2 DEF Single
  <2> QED
    BY <2>1 DEF Contains
<1>4. last' = Reply("replace", k, Contains(View[k], old))
  BY <1>1, <1>3 DEF Replace
<1>5. /\ View'[k] = IF Contains(View[k], old) THEN Substituted(View[k], old, v) ELSE View[k]
      /\ \A j \in Keys \ {k} : View'[j] = View[j]
  <2>1. CASE Contains(dynamic[k], old)
    <3>1. dynamic' = [dynamic EXCEPT ![k] = Substituted(@, old, v)] /\ static' = static
      BY <1>1, <2>1 DEF Replace
    <3>2. /\ dynamic'[k] = Substituted(dynamic[k], old, v)
          /\ \A j \in Keys \ {k} : dynamic'[j] = dynamic[j]
      BY <1>1, <3>1 DEF Stages
    <3>3. dynamic[k] # <<>> /\ static[k] = <<>> /\ View[k] = dynamic[k]
      BY <1>1, <1>2, <2>1 DEF Single
    <3>4. View'[k] = dynamic'[k]
      BY <1>1, <3>1, <3>3 DEF Single
    <3> QED
      BY <1>1, <2>1, <3>1, <3>2, <3>3, <3>4 DEF Single
  <2>2. CASE ~ Contains(dynamic[k], old) /\ Contains(static[k], old)
    <3>1. static' = [static EXCEPT ![k] = Substituted(@, old, v)] /\ dynamic' = dynamic
      BY <1>1, <2>2 DEF Replace
    <3>2. /\ static'[k] = Substituted(static[k], old, v)
          /\ \A j \in Keys \ {k} : static'[j] = static[j]
      BY <1>1, <3>1 DEF Stages
    <3>3. dynamic[k] = <<>> /\ View[k] = static[k]
      BY <1>1, <1>2, <2>2 DEF Single
    <3>4. View'[k] = static'[k]
      BY <1>1, <3>1, <3>3 DEF Single
    <3> QED
      BY <1>1, <2>2, <3>1, <3>2, <3>3, <3>4 DEF Single
  <2>3. CASE ~ Contains(dynamic[k], old) /\ ~ Contains(static[k], old)
    <3>1. dynamic' = dynamic /\ static' = static
      BY <1>1, <2>3 DEF Replace
    <3> QED
      BY <1>3, <2>3, <3>1 DEF View
  <2> QED
    BY <2>1, <2>2, <2>3
<1>6. Lists!Holds(k, old) = Contains(View[k], old)
  BY DEF Lists!Holds, Lists!Contains, Contains
<1>7. Lists!Substituted(View[k], old, v) = Substituted(View[k], old, v)
  BY DEF Lists!Substituted, Substituted, Lists!ReplaceAt, ReplaceAt, Lists!SelectInSeq, SelectInSeq,
         Lists!Min, Min
<1>8. CASE Contains(View[k], old)
  <2>1. View' = [View EXCEPT ![k] = Substituted(View[k], old, v)]
    BY <1>5, <1>8, ListChange
  <2> QED
    BY <1>4, <1>6, <1>7, <1>8, <2>1 DEF Lists!Replace, Lists!Reply, Reply
<1>9. CASE ~ Contains(View[k], old)
  <2>1. View' = View
    BY <1>5, <1>9 DEF View
  <2> QED
    BY <1>4, <1>6, <1>9, <2>1 DEF Lists!Replace, Lists!Reply, Reply
<1> QED
  BY <1>8, <1>9
LEMMA ListReplaceNewest ==
  ASSUME IInv, client = "careful", IInv', NEW k \in Keys, NEW v \in Values, ReplaceNewest(k, v)
  PROVE  Lists!ReplaceNewest(k, v)
<1>1. /\ Single /\ Single' /\ indexType = 1
      /\ dynamic \in Stages /\ static \in Stages
      /\ DynamicGet(k) = dynamic[k] /\ StaticGet(k) = static[k]
  BY CarefulStep DEF ReplaceNewest
<1>2. /\ FoundInStaticOnly(k) <=> dynamic[k] = <<>> /\ static[k] # <<>>
      /\ (FoundInStaticOnly(k) \/ dynamic[k] # <<>>) = (View[k] # <<>>)
  BY <1>1 DEF FoundInStaticOnly, Single
<1>3. last' = Reply("replace_first", k, View[k] # <<>>)
  BY <1>2 DEF ReplaceNewest
<1>4. /\ View'[k] = IF View[k] # <<>> THEN [View[k] EXCEPT ![1] = v] ELSE View[k]
      /\ \A j \in Keys \ {k} : View'[j] = View[j]
  <2>1. CASE dynamic[k] # <<>>
    <3>1. dynamic' = [dynamic EXCEPT ![k][1] = v] /\ static' = static
      BY <1>2, <2>1 DEF ReplaceNewest
    <3>2. /\ dynamic'[k] = [dynamic[k] EXCEPT ![1] = v]
          /\ \A j \in Keys \ {k} : dynamic'[j] = dynamic[j]
      BY <1>1, <3>1 DEF Stages
    <3>3. static[k] = <<>> /\ View[k] = dynamic[k]
      BY <1>1, <2>1 DEF Single
    <3>4. View'[k] = dynamic'[k]
      BY <1>1, <3>1, <3>3 DEF Single
    <3> QED
      BY <1>1, <2>1, <3>1, <3>2, <3>3, <3>4 DEF Single
  <2>2. CASE dynamic[k] = <<>> /\ static[k] # <<>>
    <3>1. static' = [static EXCEPT ![k][1] = v] /\ dynamic' = dynamic
      BY <1>2, <2>2 DEF ReplaceNewest
    <3>2. /\ static'[k] = [static[k] EXCEPT ![1] = v]
          /\ \A j \in Keys \ {k} : static'[j] = static[j]
      BY <1>1, <3>1 DEF Stages
    <3>3. View[k] = static[k] /\ View'[k] = static'[k]
      BY <1>1, <2>2, <3>1 DEF Single
    <3> QED
      BY <1>1, <2>2, <3>1, <3>2, <3>3 DEF Single
  <2>3. CASE dynamic[k] = <<>> /\ static[k] = <<>>
    <3>1. dynamic' = dynamic /\ static' = static
      BY <1>2, <2>3 DEF ReplaceNewest
    <3>2. View[k] = <<>> /\ View' = View
      BY <1>1, <2>3, <3>1 DEF Single, View
    <3> QED
      BY <3>2
  <2> QED
    BY <2>1, <2>2, <2>3
<1>5. CASE View[k] # <<>>
  <2>1. View' = [View EXCEPT ![k] = [View[k] EXCEPT ![1] = v]]
    BY <1>4, <1>5, ListChange
  <2> QED
    BY <1>3, <1>5, <2>1 DEF Lists!ReplaceNewest, Lists!Reply, Reply
<1>6. CASE View[k] = <<>>
  <2>1. View' = View
    BY <1>4, <1>6 DEF View
  <2> QED
    BY <1>3, <1>6, <2>1 DEF Lists!ReplaceNewest, Lists!Reply, Reply
<1> QED
  BY <1>5, <1>6

LEMMA ListLookup ==
  ASSUME IInv, client = "careful", NEW k \in Keys
  PROVE  /\ GetNuv(k) => Lists!Get(k)
         /\ ExistNuv(k) => Lists!Exist(k)
<1>1. /\ Single /\ indexType = 1 /\ DynamicGet(k) = dynamic[k] /\ StaticGet(k) = static[k]
  BY CarefulView, CarefulClient, Gates
<1>2. Lookup(k) = View[k]
  BY <1>1 DEF Lookup, Single
<1>3. (DynamicGet(k) # <<>> \/ static[k] # <<>>) = (View[k] # <<>>)
  BY <1>1 DEF Single
<1>4. UNCHANGED stages => UNCHANGED View
  BY DEF stages, View
<1> QED
  BY <1>2, <1>3, <1>4 DEF GetNuv, ExistNuv, Lists!Get, Lists!Exist, Lists!Reply, Reply

LEMMA ListMerge ==
  ASSUME IInv, client = "careful", Merge
  PROVE  Lists!Merge
<1>1. dynamic \in Stages /\ static \in Stages /\ \A k \in Keys : dynamic[k] = <<>> \/ static[k] = <<>>
  BY Gates, CarefulClient
<1>2. MergeNuv(dynamic, ic) /\ MergeWorks(dynamic) /\ last' = [op |-> "merge"]
  BY <1>1 DEF Merge, MergeWorks
<1>3. \A k \in Keys : View'[k] = dynamic[k] \o static[k] \/ View'[k] = static[k] \o dynamic[k]
  BY <1>1, <1>2, WorkingMerge, MergedView
<1>4. \A k \in Keys : dynamic[k] \o static[k] = static[k] \o dynamic[k]
  BY <1>1, SameOrder
<1>5. \A k \in Keys : View'[k] = View[k]
  BY <1>3, <1>4 DEF View
<1>6. View' = View
  BY <1>5 DEF View
<1> QED
  BY <1>2, <1>6 DEF Lists!Merge

LEMMA ListStep ==
  ASSUME IInv, client = "careful", IInv', Next
  PROVE  Lists!Next
<1>1. ASSUME NEW k \in Keys, NEW v \in used[k],
             PutNuv(k, v) \/ RemoveNuv(k, v) \/ ReplaceNewest(k, v)
      PROVE  Lists!Next
  BY <1>1, UsedValues, ListPut, ListRemove, ListReplaceNewest DEF Lists!Next
<1>2. ASSUME NEW k \in Keys, NEW v \in used[k], NEW old \in used[k], Replace(k, v, old)
      PROVE  Lists!Next
  BY <1>2, UsedValues, ListReplace DEF Lists!Next
<1>3. ASSUME NEW k \in Keys, GetNuv(k) \/ ExistNuv(k) PROVE Lists!Next
  BY <1>3, ListLookup DEF Lists!Next
<1>4. CASE Merge
  BY <1>4, ListMerge DEF Lists!Next
<1> QED
  BY <1>1, <1>2, <1>3, <1>4 DEF Next

-----------------------------------------------------------------------------
(* Bags of values.                                                         *)

\* Where v is in a list.
Places(s, v) == {i \in 1..Len(s) : s[i] = v}

LEMMA BagCounts ==
  ASSUME NEW s \in Seq(Values)
  PROVE  /\ BagOf(s) \in [Values -> Nat]
         /\ \A v \in Values : IsFiniteSet(Places(s, v)) /\ BagOf(s)[v] = Cardinality(Places(s, v))
<1>1. Len(s) \in Nat /\ DOMAIN s = 1..Len(s)
  BY LenProperties
<1>2. ASSUME NEW v \in Values
      PROVE  IsFiniteSet(Places(s, v)) /\ Cardinality(Places(s, v)) \in Nat
  <2>1. IsFiniteSet(1..Len(s)) /\ Places(s, v) \subseteq 1..Len(s)
    BY <1>1, FS_Interval DEF Places
  <2> QED
    BY <2>1, FS_Subset, FS_CardinalityType
<1>3. \A v \in Values : Places(s, v) = {i \in DOMAIN s : s[i] = v}
  BY <1>1 DEF Places
<1>4. BagOf(s) = [v \in Values |-> Cardinality(Places(s, v))]
  BY <1>3 DEF BagOf
<1> QED
  BY <1>2, <1>4

LEMMA BagSingle ==
  ASSUME NEW x \in Values, NEW v \in Values
  PROVE  BagOf(<<x>>)[v] = IF x = v THEN 1 ELSE 0
<1>1. <<x>> \in Seq(Values) /\ Len(<<x>>) = 1 /\ <<x>>[1] = x
  OBVIOUS
<1>2. Places(<<x>>, v) = IF x = v THEN {1} ELSE {}
  BY <1>1 DEF Places
<1>3. BagOf(<<x>>)[v] = Cardinality(Places(<<x>>, v))
  BY <1>1, BagCounts
<1> QED
  BY <1>2, <1>3, FS_Singleton, FS_EmptySet

LEMMA BagEmpty ==
  ASSUME NEW v \in Values
  PROVE  BagOf(<<>>)[v] = 0
<1>1. <<>> \in Seq(Values) /\ Places(<<>>, v) = {}
  BY EmptySeq DEF Places
<1> QED
  BY <1>1, BagCounts, FS_EmptySet

LEMMA BagJoined ==
  ASSUME NEW s \in Seq(Values), NEW t \in Seq(Values), NEW v \in Values
  PROVE  BagOf(s \o t)[v] = BagOf(s)[v] + BagOf(t)[v]
<1> DEFINE n == Len(s)
           P == Places(s \o t, v)
           A == Places(s, v)
           B == Places(t, v)
           C == {i \in P : i > n}
           f == [i \in B |-> i + n]
<1>1. /\ s \o t \in Seq(Values) /\ n \in Nat /\ Len(t) \in Nat /\ Len(s \o t) = n + Len(t)
      /\ \A i \in 1..n + Len(t) : (s \o t)[i] = IF i <= n THEN s[i] ELSE t[i - n]
  BY ConcatProperties, LenProperties
<1>2. P = A \cup C /\ A \cap C = {}
  <2>1. \A i \in 1..n : i \in 1..n + Len(t) /\ ~ (i > n) /\ i <= n
    BY <1>1
  <2>2. \A i \in 1..n + Len(t) : i <= n => i \in 1..n
    BY <1>1
  <2>3. \A i \in 1..n + Len(t) : i <= n \/ i > n
    BY <1>1
  <2> QED
    BY <1>1, <2>1, <2>2, <2>3 DEF Places
<1>3. f \in Bijection(B, C)
  <2>1. \A i \in B : i + n \in C
    BY <1>1 DEF Places
  <2>2. \A i, j \in B : i + n = j + n => i = j
    BY <1>1 DEF Places
  <2>3. \A j \in C : j - n \in B /\ (j - n) + n = j
    BY <1>1 DEF Places
  <2> HIDE DEF B, C
  <2> QED
    BY <2>1, <2>2, <2>3 DEF Bijection, Injection, Surjection, IsInjective
<1>4. /\ IsFiniteSet(A) /\ IsFiniteSet(B) /\ BagOf(s)[v] = Cardinality(A)
      /\ BagOf(t)[v] = Cardinality(B) /\ BagOf(s \o t)[v] = Cardinality(P)
  BY <1>1, BagCounts
<1>5. IsFiniteSet(C) /\ Cardinality(C) = Cardinality(B)
  BY <1>3, <1>4, FS_Bijection DEF ExistsBijection
<1> HIDE DEF P, A, B, C, n, f
<1>6. Cardinality(A) \in Nat /\ Cardinality(C) \in Nat
  BY <1>4, <1>5, FS_CardinalityType
<1>7. Cardinality(A \cup C) = Cardinality(A) + Cardinality(C) - Cardinality(A \cap C)
  BY <1>4, <1>5, FS_Union
<1>8. Cardinality(A \cap C) = 0
  BY <1>2, FS_EmptySet
<1> QED
  BY <1>2, <1>4, <1>5, <1>6, <1>7, <1>8

LEMMA BagAround ==
  ASSUME NEW a \in Seq(Values), NEW b \in Seq(Values), NEW x \in Values, NEW v \in Values
  PROVE  /\ BagOf(a \o b)[v] \in Nat
         /\ a \o b \in Seq(Values) /\ a \o <<x>> \o b \in Seq(Values)
         /\ BagOf(a \o <<x>> \o b)[v] = BagOf(a \o b)[v] + (IF x = v THEN 1 ELSE 0)
<1>1. <<x>> \in Seq(Values) /\ a \o <<x>> \in Seq(Values) /\ (a \o <<x>>) \o b \in Seq(Values)
      /\ a \o b \in Seq(Values)
  BY ConcatProperties
<1>2. /\ BagOf((a \o <<x>>) \o b)[v] = BagOf(a \o <<x>>)[v] + BagOf(b)[v]
      /\ BagOf(a \o <<x>>)[v] = BagOf(a)[v] + BagOf(<<x>>)[v]
      /\ BagOf(a \o b)[v] = BagOf(a)[v] + BagOf(b)[v]
  BY <1>1, BagJoined
<1>3. BagOf(a)[v] \in Nat /\ BagOf(b)[v] \in Nat
  BY BagCounts
<1>4. BagOf(<<x>>)[v] = IF x = v THEN 1 ELSE 0
  BY BagSingle
<1> DEFINE n == BagOf(a)[v]
           m == BagOf(b)[v]
           e == BagOf(<<x>>)[v]
           q == BagOf((a \o <<x>>) \o b)[v]
           r == BagOf(a \o b)[v]
<1>5. n \in Nat /\ m \in Nat /\ e = (IF x = v THEN 1 ELSE 0) /\ q = (n + e) + m /\ r = n + m
  BY <1>2, <1>3, <1>4
<1> HIDE DEF n, m, e, q, r
<1>6. r \in Nat /\ q = r + (IF x = v THEN 1 ELSE 0)
  BY <1>5
<1> QED
  BY <1>1, <1>6 DEF q, r

\* The bags of a list without its first x, and with v in its place.
LEMMA BagSplit ==
  ASSUME NEW s \in Seq(Values), NEW x \in Values, Contains(s, x), NEW u \in Values
  PROVE  /\ BagOf(s)[u] = BagOf(RemoveFirst(s, x))[u] + (IF x = u THEN 1 ELSE 0)
         /\ BagOf(RemoveFirst(s, x))[u] \in Nat
         /\ \A v \in Values :
              BagOf(Substituted(s, x, v))[u] = BagOf(RemoveFirst(s, x))[u] + (IF v = u THEN 1 ELSE 0)
<1>1. PICK a, b \in Seq(Values) :
        /\ s = a \o <<x>> \o b
        /\ RemoveFirst(s, x) = a \o b
        /\ \A v \in Values : Substituted(s, x, v) = a \o <<v>> \o b
  BY SplitAt
<1>2. /\ BagOf(a \o b)[u] \in Nat
      /\ \A v \in Values : BagOf(a \o <<v>> \o b)[u] = BagOf(a \o b)[u] + (IF v = u THEN 1 ELSE 0)
  BY <1>1, BagAround
<1> QED
  BY <1>1, <1>2

LEMMA BagContains ==
  ASSUME NEW s \in Seq(Values), NEW v \in Values
  PROVE  Contains(s, v) <=> BagOf(s)[v] > 0
<1>1. Contains(s, v) <=> Places(s, v) # {}
  BY DEF Contains, Places
<1>2. IsFiniteSet(Places(s, v)) /\ BagOf(s)[v] = Cardinality(Places(s, v))
  BY BagCounts
<1>3. Cardinality(Places(s, v)) \in Nat /\ (Cardinality(Places(s, v)) = 0 <=> Places(s, v) = {})
  BY <1>2, FS_CardinalityType, FS_EmptySet
<1> QED
  BY <1>1, <1>2, <1>3

-----------------------------------------------------------------------------
(* In type 0 a client sees the bags of IndexBags: every call is the call of  *)
(* the same name there.                                                    *)

BagView == [k \in Keys |-> BagOf(View[k])]

\* How often v is under k, in both stages.
LEMMA BagSeen ==
  ASSUME NEW d \in Stages, NEW s \in Stages, NEW k \in Keys, NEW v \in Values
  PROVE  /\ d[k] \in Seq(Values) /\ s[k] \in Seq(Values)
         /\ BagOf(d[k])[v] \in Nat /\ BagOf(s[k])[v] \in Nat
         /\ BagOf(d[k] \o s[k]) \in [Values -> Nat]
         /\ BagOf(d[k] \o s[k])[v] = BagOf(d[k])[v] + BagOf(s[k])[v]
         /\ BagOf(s[k] \o d[k]) = BagOf(d[k] \o s[k])
<1>1. /\ d[k] \in Seq(Values) /\ s[k] \in Seq(Values)
      /\ d[k] \o s[k] \in Seq(Values) /\ s[k] \o d[k] \in Seq(Values)
  BY ConcatProperties DEF Stages
<1>2. /\ BagOf(d[k]) \in [Values -> Nat] /\ BagOf(s[k]) \in [Values -> Nat]
      /\ BagOf(d[k] \o s[k]) \in [Values -> Nat] /\ BagOf(s[k] \o d[k]) \in [Values -> Nat]
  BY <1>1, BagCounts
<1>3. ASSUME NEW u \in Values
      PROVE  /\ BagOf(d[k] \o s[k])[u] = BagOf(d[k])[u] + BagOf(s[k])[u]
             /\ BagOf(s[k] \o d[k])[u] = BagOf(d[k] \o s[k])[u]
  <2>1. /\ BagOf(d[k] \o s[k])[u] = BagOf(d[k])[u] + BagOf(s[k])[u]
        /\ BagOf(s[k] \o d[k])[u] = BagOf(s[k])[u] + BagOf(d[k])[u]
    BY <1>1, BagJoined
  <2>2. BagOf(d[k])[u] \in Nat /\ BagOf(s[k])[u] \in Nat
    BY <1>2
  <2> QED
    BY <2>1, <2>2
<1>4. BagOf(s[k] \o d[k]) = BagOf(d[k] \o s[k])
  <2> DEFINE f == BagOf(s[k] \o d[k])
             g == BagOf(d[k] \o s[k])
  <2>1. f \in [Values -> Nat] /\ g \in [Values -> Nat] /\ \A u \in Values : f[u] = g[u]
    BY <1>2, <1>3
  <2> HIDE DEF f, g
  <2>2. f = g
    BY <2>1
  <2> QED
    BY <2>2 DEF f, g
<1> QED
  BY <1>1, <1>2, <1>3, <1>4

\* A call that changes the bag of one key.
LEMMA BagChange ==
  ASSUME NEW k \in Keys, NEW bag, BagOf(View'[k]) = bag,
         \A j \in Keys \ {k} : BagOf(View'[j]) = BagOf(View[j])
  PROVE  BagView' = [BagView EXCEPT ![k] = bag]
<1>1. \A j \in Keys : BagView'[j] = BagOf(View'[j]) /\ BagView[j] = BagOf(View[j])
  BY DEF BagView, BagOf
<1>2. BagView' = [j \in Keys |-> BagView'[j]]
  BY DEF BagView
<1> QED
  BY <1>1, <1>2 DEF BagView

LEMMA BagSame ==
  ASSUME \A j \in Keys : BagOf(View'[j]) = BagOf(View[j])
  PROVE  BagView' = BagView
BY DEF BagView, BagOf

\* Where the bags stand after d has been merged, and which keys are split.
LEMMA MergedBags ==
  ASSUME NEW d \in Stages, NEW s \in Stages, dynamic' = Empty, static' \in JoinedLists(d, s)
  PROVE  Apart' = {} /\ \A k \in Keys : BagOf(View'[k]) = BagOf(d[k] \o s[k])
<1>1. /\ Apart' = {}
      /\ \A k \in Keys : View'[k] = d[k] \o s[k] \/ View'[k] = s[k] \o d[k]
  BY MergedView
<1>2. ASSUME NEW k \in Keys PROVE BagOf(View'[k]) = BagOf(d[k] \o s[k])
  <2>1. BagOf(s[k] \o d[k]) = BagOf(d[k] \o s[k])
    <3>1. ASSUME NEW v \in Values PROVE BagOf(s[k] \o d[k]) = BagOf(d[k] \o s[k])
      BY BagSeen
    <3> QED
      BY <3>1 DEF BagOf
  <2> QED
    BY <1>1, <2>1
<1> QED
  BY <1>1, <1>2

LEMMA BagMerge ==
  ASSUME IInv, indexType = 0, Merge
  PROVE  Bags!Merge
<1>1. /\ MergeNuv(dynamic, ic) /\ MergeWorks(dynamic) /\ last' = [op |-> "merge"]
      /\ dynamic \in Stages /\ static \in Stages
  BY Gates DEF Merge, MergeWorks
<1>2. Apart' = {} /\ \A k \in Keys : BagOf(View'[k]) = BagOf(dynamic[k] \o static[k])
  BY <1>1, WorkingMerge, MergedBags
<1>3. \A k \in Keys : View[k] = dynamic[k] \o static[k]
  BY DEF View
<1>4. BagView' = BagView
  BY <1>2, <1>3, BagSame
<1> QED
  BY <1>1, <1>2, <1>4 DEF Bags!Merge, BagView

\* A bag with one value more, one less, one in exchange for another.
More(bag, v) == [bag EXCEPT ![v] = bag[v] + 1]
Less(bag, v) == [bag EXCEPT ![v] = bag[v] - 1]

LEMMA BagMore ==
  ASSUME NEW f \in [Values -> Nat], NEW g \in [Values -> Nat], NEW v \in Values,
         \A u \in Values : g[u] = f[u] + (IF v = u THEN 1 ELSE 0)
  PROVE  g = More(f, v) /\ f = Less(g, v)
<1>1. \A u \in Values : f[u] \in Nat /\ g[u] \in Nat
  OBVIOUS
<1>2. g[v] = f[v] + 1 /\ f[v] = g[v] - 1
  BY <1>1
<1>3. \A u \in Values : u # v => g[u] = f[u]
  BY <1>1
<1> QED
  BY <1>2, <1>3 DEF More, Less

LEMMA BagExchanged ==
  ASSUME NEW f \in [Values -> Nat], NEW g \in [Values -> Nat], NEW h \in [Values -> Nat],
         NEW v \in Values, NEW old \in Values,
         \A u \in Values : f[u] = h[u] + (IF old = u THEN 1 ELSE 0),
         \A u \in Values : g[u] = h[u] + (IF v = u THEN 1 ELSE 0)
  PROVE  g = More(Less(f, old), v)
<1>1. h = Less(f, old) /\ g = More(h, v)
  BY BagMore
<1> QED
  BY <1>1

\* What the steps below start from.
LEMMA BagStep ==
  ASSUME IInv, indexType = 0, NEW k \in Keys
  PROVE  /\ dynamic \in Stages /\ static \in Stages
         /\ dynamic[k] \in Seq(Values) /\ static[k] \in Seq(Values)
         /\ DynamicGet(k) = dynamic[k] /\ StaticGet(k) = static[k]
         /\ View[k] = dynamic[k] \o static[k] /\ View[k] \in Seq(Values)
         /\ BagView[k] = BagOf(View[k]) /\ BagOf(View[k]) \in [Values -> Nat]
         /\ \A v \in Values : /\ BagOf(dynamic[k])[v] \in Nat /\ BagOf(static[k])[v] \in Nat
                              /\ BagOf(View[k])[v] = BagOf(dynamic[k])[v] + BagOf(static[k])[v]
<1>1. dynamic \in Stages /\ static \in Stages /\ sic = Count(static)
  BY Gates DEF IInv, CountersExact
<1>2. DynamicGet(k) = dynamic[k] /\ StaticGet(k) = static[k]
  BY <1>1, Gates
<1>3. View[k] = dynamic[k] \o static[k] /\ BagView[k] = BagOf(View[k])
  BY DEF View, BagView
<1>4. dynamic[k] \in Seq(Values) /\ static[k] \in Seq(Values) /\ View[k] \in Seq(Values)
  BY <1>1, <1>3, OneSide
<1>5. BagOf(View[k]) \in [Values -> Nat]
  BY <1>4, BagCounts
<1>6. \A v \in Values : /\ BagOf(dynamic[k])[v] \in Nat /\ BagOf(static[k])[v] \in Nat
                        /\ BagOf(View[k])[v] = BagOf(dynamic[k])[v] + BagOf(static[k])[v]
  BY <1>1, <1>3, BagSeen
<1> QED
  BY <1>1, <1>2, <1>3, <1>4, <1>5, <1>6

\* A value is under a key when one of the stages has it, and nothing is when
\* both lists are empty.
LEMMA BagHolds ==
  ASSUME IInv, indexType = 0, NEW k \in Keys
  PROVE  /\ \A v \in Values :
              Bags!Holds(k, v) = (Contains(dynamic[k], v) \/ Contains(static[k], v))
         /\ Bags!IsEmpty(k) <=> dynamic[k] = <<>> /\ static[k] = <<>>
<1>1. \A v \in Values : Bags!Holds(k, v) = (BagView[k][v] > 0)
  BY DEF Bags!Holds, BagView
<1>2. ASSUME NEW v \in Values
      PROVE  Bags!Holds(k, v) = (Contains(dynamic[k], v) \/ Contains(static[k], v))
  <2>1. BagView[k][v] > 0 <=> BagOf(dynamic[k])[v] > 0 \/ BagOf(static[k])[v] > 0
    <3>1. /\ BagOf(dynamic[k])[v] \in Nat /\ BagOf(static[k])[v] \in Nat
          /\ BagView[k][v] = BagOf(dynamic[k])[v] + BagOf(static[k])[v]
      BY BagStep
    <3> QED
      BY <3>1
  <2>2. BagView[k][v] > 0 <=> Contains(dynamic[k], v) \/ Contains(static[k], v)
    BY <2>1, BagStep, BagContains
  <2> QED
    BY <1>1, <2>2 DEF Contains
<1>3. ASSUME NEW s \in Seq(Values)
      PROVE  s = <<>> <=> \A v \in Values : ~ Contains(s, v)
  <2>1. s # <<>> => 1 \in 1..Len(s) /\ s[1] \in Values
    BY <1>3, EmptySeq
  <2> QED
    BY <2>1 DEF Contains
<1>4. Bags!IsEmpty(k) <=> \A v \in Values : ~ Contains(dynamic[k], v) /\ ~ Contains(static[k], v)
  BY <1>2 DEF Bags!IsEmpty
<1> QED
  BY <1>2, <1>3, <1>4, BagStep

LEMMA SplitOnly ==
  ASSUME NEW k \in Keys, \A j \in Keys \ {k} : dynamic'[j] = dynamic[j] /\ static'[j] = static[j]
  PROVE  Bags!SplitAfter(k)
BY DEF Bags!SplitAfter, Apart

LEMMA BagPut ==
  ASSUME IInv, indexType = 0, NEW k \in Keys, NEW v \in Values, PutNuv(k, v)
  PROVE  Bags!Put(k, v)
<1> DEFINE d == [dynamic EXCEPT ![k] = Cons(v, @)]
<1>1. /\ last' = [op |-> "put_nuv", key |-> k]
      /\ IF MergeDue(ic + 1, sic) THEN MergeNuv(d, ic + 1) ELSE dynamic' = d /\ static' = static
  BY DEF PutNuv, DynamicPut
<1>2. /\ d \in Stages /\ d[k] = Cons(v, dynamic[k])
      /\ \A j \in Keys \ {k} : d[j] = dynamic[j]
  BY BagStep, LongerList DEF Stages
<1> HIDE DEF d
<1>3. \A j \in Keys : View[j] = dynamic[j] \o static[j]
  BY DEF View
<1>4. Bags!SplitAfter(k) /\ \A j \in Keys : BagOf(View'[j]) = BagOf(d[j] \o static[j])
  <2>1. CASE MergeDue(ic + 1, sic)
    <3>1. MergeNuv(d, ic + 1) /\ MergeWorks(d) /\ static \in Stages
      BY <1>1, <2>1, BagStep DEF MergeWorks
    <3> QED
      BY <1>2, <3>1, WorkingMerge, MergedBags DEF Bags!SplitAfter
  <2>2. CASE ~ MergeDue(ic + 1, sic)
    <3>1. dynamic' = d /\ static' = static
      BY <1>1, <2>2
    <3>2. \A j \in Keys : View'[j] = d[j] \o static[j]
      BY <3>1 DEF View
    <3> QED
      BY <1>2, <3>1, <3>2, SplitOnly
  <2> QED
    BY <2>1, <2>2
<1>5. BagOf(View'[k]) = More(BagOf(View[k]), v)
  <2> DEFINE f == BagOf(View[k])
             g == BagOf(d[k] \o static[k])
  <2>1. ASSUME NEW u \in Values
        PROVE  g[u] = f[u] + (IF v = u THEN 1 ELSE 0)
    <3>1. <<v>> \in Seq(Values) /\ dynamic[k] \in Seq(Values)
      <4>1. <<v>> \in Seq(Values)
        OBVIOUS
      <4> QED
        BY <4>1, BagStep
    <3>2. BagOf(d[k])[u] = BagOf(<<v>>)[u] + BagOf(dynamic[k])[u]
      <4>1. BagOf(<<v>> \o dynamic[k])[u] = BagOf(<<v>>)[u] + BagOf(dynamic[k])[u]
        BY <3>1, BagJoined
      <4>2. d[k] = <<v>> \o dynamic[k]
        BY <1>2 DEF Cons
      <4> QED
        BY <4>1, <4>2
    <3>3. BagOf(<<v>>)[u] = IF v = u THEN 1 ELSE 0
      BY BagSingle
    <3>4. BagOf(d[k] \o static[k])[u] = BagOf(d[k])[u] + BagOf(static[k])[u]
      BY <1>2, BagStep, BagSeen
    <3>5. /\ BagOf(dynamic[k])[u] \in Nat /\ BagOf(static[k])[u] \in Nat
          /\ BagOf(View[k])[u] = BagOf(dynamic[k])[u] + BagOf(static[k])[u]
      BY BagStep
    <3> DEFINE n == BagOf(dynamic[k])[u]
               m == BagOf(static[k])[u]
               e == BagOf(<<v>>)[u]
    <3>6. /\ g[u] = (e + n) + m /\ f[u] = n + m
          /\ n \in Nat /\ m \in Nat /\ e = IF v = u THEN 1 ELSE 0
      BY <3>2, <3>3, <3>4, <3>5
    <3> HIDE DEF n, m, e, f, g
    <3> QED
      BY <3>6
  <2>2. f \in [Values -> Nat] /\ g \in [Values -> Nat]
    BY <1>2, BagStep, BagSeen
  <2> HIDE DEF f, g
  <2>3. g = More(f, v)
    BY <2>1, <2>2, BagMore
  <2> QED
    BY <1>4, <2>3 DEF f, g
<1>6. \A j \in Keys \ {k} : BagOf(View'[j]) = BagOf(View[j])
  BY <1>2, <1>3, <1>4
<1>7. BagView' = [BagView EXCEPT ![k] = More(BagOf(View[k]), v)]
  BY <1>5, <1>6, BagChange
<1>8. BagView' = [BagView EXCEPT ![k][v] = @ + 1]
  BY <1>7 DEF BagView, More
<1> QED
  BY <1>1, <1>4, <1>8 DEF Bags!Put, BagView

\* The bags around the removal of a value from one stage, the other being m.
LEMMA BagTaken ==
  ASSUME NEW d \in Stages, NEW s \in Stages, NEW t \in Stages, NEW k \in Keys, NEW v \in Values,
         Contains(s[k], v), t[k] = RemoveFirst(s[k], v)
  PROVE  BagOf(d[k] \o t[k]) = Less(BagOf(d[k] \o s[k]), v)
<1> DEFINE f == BagOf(d[k] \o t[k])
           g == BagOf(d[k] \o s[k])
<1>1. ASSUME NEW u \in Values
      PROVE  g[u] = f[u] + (IF v = u THEN 1 ELSE 0)
  <2>1. /\ BagOf(d[k])[u] \in Nat /\ BagOf(t[k])[u] \in Nat /\ s[k] \in Seq(Values)
        /\ BagOf(d[k] \o t[k])[u] = BagOf(d[k])[u] + BagOf(t[k])[u]
        /\ BagOf(d[k] \o s[k])[u] = BagOf(d[k])[u] + BagOf(s[k])[u]
    BY BagSeen
  <2>2. BagOf(s[k])[u] = BagOf(t[k])[u] + (IF v = u THEN 1 ELSE 0)
    BY <2>1, BagSplit
  <2> DEFINE n == BagOf(d[k])[u]
             m == BagOf(t[k])[u]
  <2>3. n \in Nat /\ m \in Nat /\ f[u] = n + m /\ g[u] = n + (m + (IF v = u THEN 1 ELSE 0))
    BY <2>1, <2>2
  <2> HIDE DEF n, m, f, g
  <2> QED
    BY <2>3
<1>2. f \in [Values -> Nat] /\ g \in [Values -> Nat]
  BY BagSeen
<1> HIDE DEF f, g
<1>3. f = Less(g, v)
  BY <1>1, <1>2, BagMore
<1> QED
  BY <1>3 DEF f, g

LEMMA BagRemove ==
  ASSUME IInv, indexType = 0, NEW k \in Keys, NEW v \in Values, RemoveNuv(k, v)
  PROVE  Bags!RemoveValue(k, v)
<1>1. /\ dynamic \in Stages /\ static \in Stages
      /\ dynamic[k] \in Seq(Values) /\ static[k] \in Seq(Values)
      /\ DynamicGet(k) = dynamic[k] /\ StaticGet(k) = static[k]
  BY BagStep
<1>2. \A j \in Keys : View[j] = dynamic[j] \o static[j]
  BY DEF View
<1>3. Bags!Holds(k, v) = (Contains(dynamic[k], v) \/ Contains(static[k], v))
  BY BagHolds
<1>4. ASSUME Bags!SplitAfter(k), last' = Reply("remove_nuv", k, TRUE),
             Contains(dynamic[k], v) \/ Contains(static[k], v),
             BagOf(View'[k]) = Less(BagOf(View[k]), v),
             \A j \in Keys \ {k} : BagOf(View'[j]) = BagOf(View[j])
      PROVE  Bags!RemoveValue(k, v)
  <2>1. BagView' = [BagView EXCEPT ![k] = Less(BagOf(View[k]), v)]
    BY <1>4, BagChange
  <2>2. BagView' = [BagView EXCEPT ![k][v] = @ - 1]
    BY <2>1 DEF BagView, Less
  <2>3. Bags!Holds(k, v) = TRUE
    BY <1>3, <1>4
  <2> QED
    BY <1>4, <2>2, <2>3 DEF Bags!RemoveValue, Bags!Reply, Reply, BagView
<1>5. CASE Contains(dynamic[k], v)
  <2>1. /\ dynamic' = [dynamic EXCEPT ![k] = RemoveFirst(@, v)] /\ static' = static
        /\ last' = Reply("remove_nuv", k, TRUE)
    BY <1>1, <1>5 DEF RemoveNuv, DynamicRemove
  <2>2. /\ dynamic' \in Stages /\ dynamic'[k] = RemoveFirst(dynamic[k], v)
        /\ \A j \in Keys \ {k} : dynamic'[j] = dynamic[j]
    BY <1>1, <1>5, <2>1, ShorterList DEF Stages
  <2>3. BagOf(static[k] \o dynamic'[k]) = Less(BagOf(static[k] \o dynamic[k]), v)
    BY <1>1, <1>5, <2>2, BagTaken
  <2>4. /\ BagOf(static[k] \o dynamic'[k]) = BagOf(dynamic'[k] \o static[k])
        /\ BagOf(static[k] \o dynamic[k]) = BagOf(dynamic[k] \o static[k])
    BY <1>1, <2>2, BagSeen
  <2>5. \A j \in Keys : View'[j] = dynamic'[j] \o static[j]
    BY <2>1 DEF View
  <2>6. BagOf(View'[k]) = Less(BagOf(View[k]), v)
    BY <1>2, <2>3, <2>4, <2>5
  <2>7. \A j \in Keys \ {k} : BagOf(View'[j]) = BagOf(View[j])
    BY <1>2, <2>2, <2>5
  <2>8. Bags!SplitAfter(k)
    BY <2>1, <2>2, SplitOnly
  <2> QED
    BY <1>4, <1>5, <2>1, <2>6, <2>7, <2>8
<1>6. CASE ~ Contains(dynamic[k], v) /\ Contains(static[k], v)
  <2> DEFINE d == PutBack(k, v)
             s == Without(k)
             rest == RemoveFirst(static[k], v)
  <2>1. /\ last' = Reply("remove_nuv", k, TRUE)
        /\ \/ dynamic' = Empty /\ static' \in JoinedLists(d, s)
           \/ dynamic' = d /\ static' = s
    <3>1. PackedRemove(k, v)
      <4>1. indexType # 1
        OBVIOUS
      <4>2. Contains(StaticGet(k), v) /\ ~ Contains(DynamicGet(k), v)
        BY <1>1, <1>6
      <4> QED
        BY <4>1, <4>2, Zenon DEF RemoveNuv
    <3> QED
      BY <3>1 DEF PackedRemove, PutBack, Without
  <2>2. /\ d \in Stages /\ s \in Stages /\ rest \in Seq(Values)
        /\ d[k] = rest \o dynamic[k] /\ s[k] = <<>>
        /\ \A j \in Keys \ {k} : d[j] = dynamic[j] /\ s[j] = static[j]
    <3>1. d \in Stages /\ s \in Stages /\ rest \in Seq(Values)
      BY <1>1, <1>6, PackedRemoveStages
    <3> QED
      BY <1>1, <3>1 DEF PutBack, Without, Stages
  <2> HIDE DEF d, s, rest
  <2>3. Bags!SplitAfter(k) /\ \A j \in Keys : BagOf(View'[j]) = BagOf(d[j] \o s[j])
    <3>1. CASE dynamic' = Empty /\ static' \in JoinedLists(d, s)
      BY <2>2, <3>1, MergedBags DEF Bags!SplitAfter
    <3>2. CASE dynamic' = d /\ static' = s
      <4>1. \A j \in Keys : View'[j] = d[j] \o s[j]
        BY <3>2 DEF View
      <4> QED
        BY <2>2, <3>2, <4>1, SplitOnly
    <3> QED
      BY <2>1, <3>1, <3>2
  <2>4. BagOf(d[k] \o s[k]) = Less(BagOf(dynamic[k] \o static[k]), v)
    <3> DEFINE t == WithList(static, k, rest)
    <3>1. t \in Stages /\ t[k] = rest
      BY <1>1, <2>2, CountPut DEF WithList, Stages
    <3> HIDE DEF t
    <3>2. BagOf(dynamic[k] \o t[k]) = Less(BagOf(dynamic[k] \o static[k]), v)
      BY <1>1, <1>6, <3>1, BagTaken DEF rest
    <3>3. BagOf(t[k] \o dynamic[k]) = BagOf(dynamic[k] \o t[k])
      BY <1>1, <3>1, BagSeen
    <3>4. d[k] \o s[k] = t[k] \o dynamic[k]
      BY <2>2, <3>1, OneSide
    <3> QED
      BY <3>2, <3>3, <3>4
  <2>5. BagOf(View'[k]) = Less(BagOf(View[k]), v)
    BY <1>2, <2>3, <2>4
  <2>6. \A j \in Keys \ {k} : BagOf(View'[j]) = BagOf(View[j])
    BY <1>2, <2>2, <2>3
  <2> QED
    BY <1>4, <1>6, <2>1, <2>3, <2>5, <2>6
<1>7. CASE ~ Contains(dynamic[k], v) /\ ~ Contains(static[k], v)
  <2>1. dynamic' = dynamic /\ static' = static /\ last' = Reply("remove_nuv", k, FALSE)
    BY <1>1, <1>7 DEF RemoveNuv, stages
  <2>2. Bags!Holds(k, v) = FALSE
    BY <1>3, <1>7
  <2>3. BagView' = BagView /\ Apart' = Apart
    BY <2>1 DEF BagView, View, Apart, BagOf
  <2> QED
    BY <2>1, <2>2, <2>3 DEF Bags!RemoveValue, Bags!Reply, Reply, BagView
<1> QED
  BY <1>5, <1>6, <1>7

\* One value of k becomes another: one of the stages has its first old replaced.
LEMMA BagSwap ==
  ASSUME NEW d \in Stages, NEW s \in Stages, NEW t \in Stages,
         NEW k \in Keys, NEW v \in Values, NEW old \in Values,
         Contains(s[k], old), t[k] = Substituted(s[k], old, v)
  PROVE  /\ BagOf(d[k] \o t[k]) = More(Less(BagOf(d[k] \o s[k]), old), v)
         /\ s[k] # <<>> /\ t[k] # <<>>
<1> DEFINE rest == RemoveFirst(s[k], old)
           r == WithList(s, k, rest)
           f == BagOf(d[k] \o s[k])
           g == BagOf(d[k] \o t[k])
           h == BagOf(d[k] \o r[k])
<1>1. s[k] \in Seq(Values) /\ t[k] \in Seq(Values) /\ d[k] \in Seq(Values)
  BY DEF Stages
<1>2. rest \in Seq(Values)
  BY <1>1, RemovedLength
<1> HIDE DEF rest
<1>3. r \in Stages /\ r[k] = rest
  BY <1>2, CountPut DEF WithList, Stages
<1> HIDE DEF r
<1>4. f \in [Values -> Nat] /\ g \in [Values -> Nat] /\ h \in [Values -> Nat]
  BY <1>3, BagSeen
<1>5. ASSUME NEW u \in Values
      PROVE  /\ f[u] = h[u] + (IF old = u THEN 1 ELSE 0)
             /\ g[u] = h[u] + (IF v = u THEN 1 ELSE 0)
  <2>1. /\ BagOf(d[k])[u] \in Nat /\ BagOf(r[k])[u] \in Nat
        /\ f[u] = BagOf(d[k])[u] + BagOf(s[k])[u]
        /\ g[u] = BagOf(d[k])[u] + BagOf(t[k])[u]
        /\ h[u] = BagOf(d[k])[u] + BagOf(r[k])[u]
    <3>1. \A w \in Stages : /\ BagOf(d[k])[u] \in Nat /\ BagOf(w[k])[u] \in Nat
                            /\ BagOf(d[k] \o w[k])[u] = BagOf(d[k])[u] + BagOf(w[k])[u]
      BY BagSeen
    <3> QED
      BY <1>3, <3>1
  <2>2. /\ BagOf(s[k])[u] = BagOf(r[k])[u] + (IF old = u THEN 1 ELSE 0)
        /\ BagOf(t[k])[u] = BagOf(r[k])[u] + (IF v = u THEN 1 ELSE 0)
    BY <1>1, <1>3, BagSplit DEF rest
  <2> DEFINE n == BagOf(d[k])[u]
             m == BagOf(r[k])[u]
  <2>3. /\ n \in Nat /\ m \in Nat /\ h[u] = n + m
        /\ f[u] = n + (m + (IF old = u THEN 1 ELSE 0))
        /\ g[u] = n + (m + (IF v = u THEN 1 ELSE 0))
    BY <2>1, <2>2
  <2> HIDE DEF n, m, f, g, h
  <2> QED
    BY <2>3
<1> HIDE DEF f, g, h
<1>6. g = More(Less(f, old), v)
  <2>1. /\ \A u \in Values : f[u] = h[u] + (IF old = u THEN 1 ELSE 0)
        /\ \A u \in Values : g[u] = h[u] + (IF v = u THEN 1 ELSE 0)
    BY <1>5
  <2> QED
    BY <1>4, <2>1, BagExchanged
<1>7. Len(s[k]) \in Nat \ {0} /\ Len(t[k]) = Len(s[k])
  BY <1>1, RemovedLength, SubstitutedLength
<1>8. s[k] # <<>> /\ t[k] # <<>>
  BY <1>7
<1> QED
  BY <1>6, <1>8 DEF f, g

LEMMA BagReplaced ==
  ASSUME IInv, indexType = 0, NEW k \in Keys, NEW v \in Values, NEW old \in Values,
         \/ /\ Contains(dynamic[k], old) /\ static' = static
            /\ dynamic' = WithList(dynamic, k, Substituted(dynamic[k], old, v))
         \/ /\ Contains(static[k], old) /\ dynamic' = dynamic
            /\ static' = WithList(static, k, Substituted(static[k], old, v))
  PROVE  Apart' = Apart /\ BagView' = Bags!Exchanged(k, v, old)
<1>1. /\ dynamic \in Stages /\ static \in Stages
      /\ dynamic[k] \in Seq(Values) /\ static[k] \in Seq(Values)
  BY BagStep
<1>2. /\ \A j \in Keys : View[j] = dynamic[j] \o static[j]
      /\ \A j \in Keys : View'[j] = dynamic'[j] \o static'[j]
  BY DEF View
<1>3. /\ \A j \in Keys : (dynamic'[j] = <<>>) = (dynamic[j] = <<>>)
      /\ \A j \in Keys : (static'[j] = <<>>) = (static[j] = <<>>)
      /\ \A j \in Keys \ {k} : View'[j] = View[j]
      /\ BagOf(View'[k]) = More(Less(BagOf(View[k]), old), v)
  <2>1. CASE /\ Contains(dynamic[k], old) /\ static' = static
             /\ dynamic' = WithList(dynamic, k, Substituted(dynamic[k], old, v))
    <3> DEFINE list == Substituted(dynamic[k], old, v)
    <3>1. list \in Seq(Values)
      BY <1>1, <2>1, SubstitutedLength
    <3>2. /\ dynamic' \in Stages /\ dynamic'[k] = list
          /\ \A j \in Keys \ {k} : dynamic'[j] = dynamic[j]
      <4>1. dynamic' = WithList(dynamic, k, list)
        BY <2>1
      <4> HIDE DEF list
      <4> QED
        BY <1>1, <3>1, <4>1 DEF WithList, Stages
    <3>3. /\ BagOf(static[k] \o dynamic'[k]) = More(Less(BagOf(static[k] \o dynamic[k]), old), v)
          /\ dynamic[k] # <<>> /\ dynamic'[k] # <<>>
      BY <1>1, <2>1, <3>2, BagSwap
    <3>4. /\ BagOf(static[k] \o dynamic'[k]) = BagOf(dynamic'[k] \o static[k])
          /\ BagOf(static[k] \o dynamic[k]) = BagOf(dynamic[k] \o static[k])
      BY <1>1, <3>2, BagSeen
    <3> HIDE DEF list
    <3> QED
      BY <1>2, <2>1, <3>2, <3>3, <3>4
  <2>2. CASE /\ Contains(static[k], old) /\ dynamic' = dynamic
             /\ static' = WithList(static, k, Substituted(static[k], old, v))
    <3> DEFINE list == Substituted(static[k], old, v)
    <3>1. list \in Seq(Values)
      BY <1>1, <2>2, SubstitutedLength
    <3>2. /\ static' \in Stages /\ static'[k] = list
          /\ \A j \in Keys \ {k} : static'[j] = static[j]
      <4>1. static' = WithList(static, k, list)
        BY <2>2
      <4> HIDE DEF list
      <4> QED
        BY <1>1, <3>1, <4>1 DEF WithList, Stages
    <3>3. /\ BagOf(dynamic[k] \o static'[k]) = More(Less(BagOf(dynamic[k] \o static[k]), old), v)
          /\ static[k] # <<>> /\ static'[k] # <<>>
      BY <1>1, <2>2, <3>2, BagSwap
    <3> HIDE DEF list
    <3> QED
      BY <1>2, <2>2, <3>2, <3>3
  <2> QED
    BY <2>1, <2>2
<1>4. Apart' = Apart
  BY <1>3 DEF Apart
<1>5. BagView' = [BagView EXCEPT ![k] = More(Less(BagOf(View[k]), old), v)]
  BY <1>3, BagChange
<1>6. BagView[k] = BagOf(View[k])
  BY BagStep
<1>7. BagView' = [BagView EXCEPT ![k] = More(Less(BagView[k], old), v)]
  BY <1>5, <1>6
<1>8. Bags!Exchanged(k, v, old) = [BagView EXCEPT ![k] = Bags!Swapped(BagView[k], v, old)]
  BY DEF Bags!Exchanged, BagView
<1>9. Bags!Swapped(BagView[k], v, old) = More(Less(BagView[k], old), v)
  BY DEF Bags!Swapped, More, Less
<1> QED
  BY <1>4, <1>7, <1>8, <1>9

LEMMA BagReplace ==
  ASSUME IInv, indexType = 0,
         NEW k \in Keys, NEW v \in Values, NEW old \in Values, Replace(k, v, old)
  PROVE  Bags!Replace(k, v, old)
<1>1. DynamicGet(k) = dynamic[k] /\ StaticGet(k) = static[k]
  BY BagStep
<1>2. Bags!Holds(k, old) = (Contains(dynamic[k], old) \/ Contains(static[k], old))
  BY BagHolds
<1>3. last' = Reply("replace", k, Bags!Holds(k, old))
  BY <1>1, <1>2 DEF Replace
<1>4. CASE Contains(dynamic[k], old) \/ Contains(static[k], old)
  <2>1. \/ /\ Contains(dynamic[k], old) /\ static' = static
           /\ dynamic' = WithList(dynamic, k, Substituted(dynamic[k], old, v))
        \/ /\ Contains(static[k], old) /\ dynamic' = dynamic
           /\ static' = WithList(static, k, Substituted(static[k], old, v))
    BY <1>1, <1>4 DEF Replace, WithList
  <2>2. Apart' = Apart /\ BagView' = Bags!Exchanged(k, v, old)
    BY <2>1, BagReplaced
  <2>3. Bags!Holds(k, old) = TRUE
    BY <1>2, <1>4
  <2> QED
    BY <1>3, <2>2, <2>3 DEF Bags!Replace, Bags!Reply, Reply, BagView
<1>5. CASE ~ Contains(dynamic[k], old) /\ ~ Contains(static[k], old)
  <2>1. dynamic' = dynamic /\ static' = static
    BY <1>1, <1>5 DEF Replace
  <2>2. Apart' = Apart /\ BagView' = BagView
    BY <2>1 DEF BagView, View, Apart, BagOf
  <2>3. Bags!Holds(k, old) = FALSE
    BY <1>2, <1>5
  <2> QED
    BY <1>3, <2>2, <2>3 DEF Bags!Replace, Bags!Reply, Reply, BagView
<1> QED
  BY <1>4, <1>5

\* To overwrite the first value of a list is to substitute it.
LEMMA FirstSubstituted ==
  ASSUME NEW s \in Seq(Values), s # <<>>, NEW v \in Values
  PROVE  s[1] \in Values /\ Contains(s, s[1]) /\ [s EXCEPT ![1] = v] = Substituted(s, s[1], v)
<1> DEFINE I == {i \in 1..Len(s) : s[i] = s[1]}
<1>1. 1 \in I /\ (\A i \in I : i \in Nat /\ 1 <= i) /\ s[1] \in Values
  BY EmptySeq
<1>2. SelectInSeq(s, LAMBDA y : y = s[1]) = Min(I)
  BY <1>1 DEF SelectInSeq
<1>3. Min(I) = 1
  <2> HIDE DEF I
  <2>1. \A x \in I : (\A y \in I : x <= y) => x = 1
    BY <1>1
  <2> QED
    BY <1>1, <2>1 DEF Min
<1>4. Substituted(s, s[1], v) = [s EXCEPT ![1] = v]
  BY <1>2, <1>3 DEF Substituted, ReplaceAt
<1> QED
  BY <1>1, <1>4 DEF Contains

LEMMA BagReplaceNewest ==
  ASSUME IInv, indexType = 0, NEW k \in Keys, NEW v \in Values, ReplaceNewest(k, v)
  PROVE  Bags!ReplaceNewest(k, v)
<1>1. /\ dynamic \in Stages /\ dynamic[k] \in Seq(Values)
      /\ DynamicGet(k) = dynamic[k] /\ StaticGet(k) = static[k]
  BY BagStep
<1>2. dynamic[k] # <<>> \/ static[k] = <<>>
  BY <1>1 DEF ReplaceNewest, StaticGet
<1>3. FoundInStaticOnly(k) = FALSE
  BY <1>1, <1>2 DEF FoundInStaticOnly
<1>4. Bags!IsEmpty(k) <=> dynamic[k] = <<>>
  BY <1>2, BagHolds
<1>5. last' = Reply("replace_first", k, ~ Bags!IsEmpty(k))
  <2>1. (FoundInStaticOnly(k) \/ dynamic[k] # <<>>) = (~ Bags!IsEmpty(k))
    BY <1>3, <1>4
  <2> QED
    BY <2>1 DEF ReplaceNewest
<1>6. CASE dynamic[k] # <<>>
  <2> DEFINE old == dynamic[k][1]
             list == [dynamic[k] EXCEPT ![1] = v]
  <2>1. dynamic' = [dynamic EXCEPT ![k][1] = v] /\ static' = static
    BY <1>3, <1>6 DEF ReplaceNewest
  <2>2. old \in Values /\ Contains(dynamic[k], old) /\ list = Substituted(dynamic[k], old, v)
    BY <1>1, <1>6, FirstSubstituted
  <2>3. dynamic' = WithList(dynamic, k, list)
    BY <2>1 DEF WithList
  <2> HIDE DEF old, list
  <2>4. Apart' = Apart /\ BagView' = Bags!Exchanged(k, v, old)
    BY <2>1, <2>2, <2>3, BagReplaced
  <2>5. Bags!Holds(k, old)
    BY <2>2, BagHolds
  <2> QED
    BY <1>4, <1>5, <1>6, <2>2, <2>4, <2>5 DEF Bags!ReplaceNewest, Bags!Reply, Reply, BagView
<1>7. CASE dynamic[k] = <<>>
  <2>1. dynamic' = dynamic /\ static' = static
    BY <1>3, <1>7 DEF ReplaceNewest
  <2>2. Apart' = Apart /\ BagView' = BagView
    BY <2>1 DEF BagView, View, Apart, BagOf
  <2> QED
    BY <1>4, <1>5, <1>7, <2>2 DEF Bags!ReplaceNewest, Bags!Reply, Reply, BagView
<1> QED
  BY <1>6, <1>7

LEMMA BagLookup ==
  ASSUME IInv, indexType = 0, NEW k \in Keys
  PROVE  /\ GetNuv(k) => Bags!Get(k)
         /\ ExistNuv(k) => Bags!Exist(k)
<1>1. /\ dynamic \in Stages /\ static \in Stages
      /\ DynamicGet(k) = dynamic[k] /\ StaticGet(k) = static[k]
      /\ View[k] = dynamic[k] \o static[k] /\ BagView[k] = BagOf(View[k])
  BY BagStep
<1>2. UNCHANGED stages => BagView' = BagView /\ Apart' = Apart
  BY DEF stages, BagView, View, Apart, BagOf
<1>3. ASSUME GetNuv(k) PROVE Bags!Get(k)
  <2>1. last' = Reply("get_nuv", k, Lookup(k)) /\ BagView' = BagView /\ Apart' = Apart
    BY <1>2, <1>3 DEF GetNuv
  <2>2. last'.op = "get_nuv" /\ last'.answer = Lookup(k)
    BY <2>1 DEF Reply
  <2>3. IF k \in Apart THEN Lookup(k) = <<>> ELSE Lookup(k) = View[k]
    BY <1>1, OneSide DEF Lookup, Apart
  <2>4. Bags!BagOf(Lookup(k)) = BagOf(Lookup(k))
    BY DEF Bags!BagOf, BagOf, Bags!Cardinality, Cardinality
  <2>5. IF k \in Apart THEN last'.answer = <<>> ELSE Bags!BagOf(last'.answer) = BagView[k]
    BY <1>1, <2>2, <2>3, <2>4
  <2> QED
    BY <2>1, <2>2, <2>5 DEF Bags!Get, Bags!Reply, Reply, BagView
<1>4. ASSUME ExistNuv(k) PROVE Bags!Exist(k)
  <2>1. (DynamicGet(k) # <<>> \/ static[k] # <<>>) = (~ Bags!IsEmpty(k))
    BY <1>1, BagHolds
  <2>2. last' = Reply("exist_nuv", k, ~ Bags!IsEmpty(k)) /\ BagView' = BagView /\ Apart' = Apart
    BY <1>2, <1>4, <2>1 DEF ExistNuv
  <2> QED
    BY <2>2 DEF Bags!Exist, Bags!Reply, Reply, BagView
<1> QED
  BY <1>3, <1>4

LEMMA BagsStep ==
  ASSUME IInv, indexType = 0, Next
  PROVE  Bags!Next
<1>1. ASSUME NEW k \in Keys, NEW v \in used[k],
             PutNuv(k, v) \/ RemoveNuv(k, v) \/ ReplaceNewest(k, v)
      PROVE  Bags!Next
  BY <1>1, UsedValues, BagPut, BagRemove, BagReplaceNewest DEF Bags!Next
<1>2. ASSUME NEW k \in Keys, NEW v \in used[k], NEW old \in used[k], Replace(k, v, old)
      PROVE  Bags!Next
  BY <1>2, UsedValues, BagReplace DEF Bags!Next
<1>3. ASSUME NEW k \in Keys, GetNuv(k) \/ ExistNuv(k) PROVE Bags!Next
  BY <1>3, BagLookup DEF Bags!Next
<1>4. CASE Merge
  BY <1>4, BagMerge DEF Bags!Next
<1> QED
  BY <1>1, <1>2, <1>3, <1>4 DEF Next

\* The two stages are invisible: a careful client of type 1 sees one list per
\* key, each client of type 0 one bag per key, whatever the merges move and
\* whichever counters a removal moves twice.
THEOREM Implements == Spec => MultiMapSpec
<1>1. Init => Lists!Init /\ Bags!Init
  <2> SUFFICES ASSUME Init PROVE Lists!Init /\ Bags!Init
    OBVIOUS
  <2>1. dynamic = Empty /\ static = Empty /\ last = NoCall
    BY DEF Init
  <2>2. ASSUME NEW k \in Keys PROVE View[k] = <<>>
    <3>1. Empty \in Stages /\ Empty[k] = <<>>
      BY CountEmpty DEF Empty
    <3>2. Empty[k] \o Empty[k] = Empty[k]
      BY <3>1, OneSide
    <3> QED
      BY <2>1, <3>1, <3>2 DEF View
  <2>3. View = [k \in Keys |-> <<>>]
    BY <2>2 DEF View
  <2>4. Lists!Init
    BY <2>1, <2>3 DEF Lists!Init, Lists!NoCall, NoCall
  <2>5. Bags!BagOf(<<>>) = BagOf(<<>>)
    BY DEF Bags!BagOf, BagOf, Bags!Cardinality, Cardinality
  <2>6. BagView = [k \in Keys |-> BagOf(<<>>)]
    BY <2>2 DEF BagView
  <2>7. Apart = {}
    BY <2>1 DEF Apart, Empty
  <2>8. Bags!Init
    BY <2>1, <2>5, <2>6, <2>7 DEF Bags!Init, Bags!NoCall, NoCall, BagView
  <2> QED
    BY <2>4, <2>8
<1>2. IInv /\ IInv' /\ [Next]_vars =>
        [IF indexType = 0 THEN Bags!Next
         ELSE client = "careful" => Lists!Next]_<<View, Apart, last>>
  <2> SUFFICES ASSUME IInv, IInv', [Next]_vars
               PROVE  \/ IF indexType = 0 THEN Bags!Next ELSE client = "careful" => Lists!Next
                      \/ UNCHANGED <<View, Apart, last>>
    OBVIOUS
  <2>1. CASE Next
    BY <2>1, BagsStep, ListStep
  <2>2. CASE UNCHANGED vars
    BY <2>2 DEF vars, stages, View, Apart
  <2> QED
    BY <2>1, <2>2
<1> QED
  BY <1>1, <1>2, Invariance, PTL DEF Spec, MultiMapSpec
=============================================================================
