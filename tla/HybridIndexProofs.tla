------------------------- MODULE HybridIndexProofs -------------------------
(* Theorems about HybridIndex, for every finite set of keys, every set of   *)
(* values, every merge threshold and ratio.                                 *)
EXTENDS HybridIndex, FiniteSetTheorems, TLAPS

Stages == [Keys -> Values \cup {NoValue}]

-----------------------------------------------------------------------------
(* How the operations change the number of entries of a stage.              *)

\* The entries of a stage can be counted.
LEMMA StoredFinite ==
  ASSUME NEW f PROVE IsFiniteSet(Stored(f)) /\ Cardinality(Stored(f)) \in Nat
<1>1. Stored(f) \subseteq Keys
  BY DEF Stored
<1>2. IsFiniteSet(Stored(f))
  BY <1>1, KeysAssumption, FS_Subset
<1> QED
  BY <1>2, FS_CardinalityType

\* A fresh stage holds nothing.
LEMMA StoredEmpty == Stored(Empty) = {} /\ Cardinality(Stored(Empty)) = 0
<1>1. Stored(Empty) = {}
  BY DEF Stored, Empty
<1> QED
  BY <1>1, FS_EmptySet

\* Writing a key adds one entry when the key was absent and none otherwise.
LEMMA StoredPut ==
  ASSUME NEW f \in Stages, NEW k \in Keys, NEW v \in Values
  PROVE  LET g == [f EXCEPT ![k] = v]
         IN  /\ g \in Stages
             /\ Stored(g) = Stored(f) \cup {k}
             /\ Cardinality(Stored(g)) = IF f[k] = NoValue
                                         THEN Cardinality(Stored(f)) + 1
                                         ELSE Cardinality(Stored(f))
<1> DEFINE g == [f EXCEPT ![k] = v]
<1>1. g \in Stages
  BY DEF Stages
<1>2. Stored(g) = Stored(f) \cup {k}
  BY NoValueAssumption DEF Stored, Stages
<1>3. f[k] = NoValue <=> k \notin Stored(f)
  BY DEF Stored
<1>4. Cardinality(Stored(f) \cup {k}) = IF k \in Stored(f) THEN Cardinality(Stored(f))
                                                          ELSE Cardinality(Stored(f)) + 1
  BY StoredFinite, FS_AddElement
<1> QED
  BY <1>1, <1>2, <1>3, <1>4

\* Clearing a present key takes exactly one entry away.
LEMMA StoredClear ==
  ASSUME NEW f \in Stages, NEW k \in Keys, f[k] # NoValue
  PROVE  LET g == [f EXCEPT ![k] = NoValue]
         IN  /\ g \in Stages
             /\ Stored(g) = Stored(f) \ {k}
             /\ Cardinality(Stored(g)) = Cardinality(Stored(f)) - 1
             /\ Cardinality(Stored(f)) >= 1
<1> DEFINE g == [f EXCEPT ![k] = NoValue]
<1>1. g \in Stages
  BY DEF Stages
<1>2. Stored(g) = Stored(f) \ {k}
  BY DEF Stored, Stages
<1>3. k \in Stored(f)
  BY DEF Stored
<1>4. Cardinality(Stored(f) \ {k}) = Cardinality(Stored(f)) - 1
  BY <1>3, StoredFinite, FS_RemoveElement
<1>5. Cardinality(Stored(g)) \in Nat
  BY StoredFinite
<1>6. Cardinality(Stored(f)) \in Nat
  BY StoredFinite
<1>7. Cardinality(Stored(f)) >= 1
  BY <1>2, <1>4, <1>5, <1>6
<1> QED
  BY <1>1, <1>2, <1>4, <1>7

\* Unless a merge is undefined, the static stage gains no more entries than the
\* dynamic one held.
LEMMA MergeOutcomeSize ==
  ASSUME NEW d \in Stages, static \in Stages, NEW f \in Unions(d)
  PROVE  /\ f \in Stages
         /\ Stored(f) \subseteq Stored(d) \cup Stored(static)
         /\ Cardinality(Stored(f)) <= Cardinality(Stored(d)) + Cardinality(Stored(static))
<1>1. PICK older \in SUBSET Keys :
        f = [k \in Keys |-> IF k \in older THEN static[k] ELSE Over(d, static)[k]]
  BY DEF Unions, Stored
<1>2. f \in Stages
  BY <1>1 DEF Over, Stages
<1>3. Stored(f) \subseteq Stored(d) \cup Stored(static)
  BY <1>1 DEF Stored, Over, Stages
<1>4. /\ IsFiniteSet(Stored(d)) /\ IsFiniteSet(Stored(static))
      /\ IsFiniteSet(Stored(d) \cap Stored(static))
  BY StoredFinite, FS_Subset
<1>5. /\ IsFiniteSet(Stored(d) \cup Stored(static))
      /\ Cardinality(Stored(d) \cup Stored(static)) =
           Cardinality(Stored(d)) + Cardinality(Stored(static))
             - Cardinality(Stored(d) \cap Stored(static))
  BY <1>4, FS_Union
<1>6. Cardinality(Stored(f)) <= Cardinality(Stored(d) \cup Stored(static))
  BY <1>3, <1>5, FS_Subset
<1>7. /\ Cardinality(Stored(d)) \in Nat /\ Cardinality(Stored(static)) \in Nat
      /\ Cardinality(Stored(d) \cap Stored(static)) \in Nat
      /\ Cardinality(Stored(f)) \in Nat
  BY <1>4, StoredFinite, FS_CardinalityType
<1> QED
  BY <1>2, <1>3, <1>5, <1>6, <1>7

-----------------------------------------------------------------------------
(* The inductive invariant.                                                *)

\* The counters are never too small, unless a merge was undefined ...
Covered ==
  intact => /\ ic >= Cardinality(Stored(dynamic))
            /\ sic >= Cardinality(Stored(static))

\* ... and the dynamic one is exact as long as nothing is overwritten, which is
\* what keeps merges of short keys defined.
Exact == client = "insert" => ic = Cardinality(Stored(dynamic))

IInv == TypeOK /\ Covered /\ Exact /\ StagesDisjoint /\ MergesStayDefined

\* While the counters cover their stages, the shortcuts on ic and sic lose
\* nothing: each lookup sees both stages in full.
LEMMA GatesAreHarmless ==
  ASSUME TypeOK, Covered, intact
  PROVE  \A k \in Keys : /\ DynamicGet(k) = dynamic[k]
                         /\ StaticGet(k) = static[k]
                         /\ Lookup(k) = View[k]
                         /\ Exists(k) <=> View[k] # NoValue
<1> SUFFICES ASSUME NEW k \in Keys
             PROVE  /\ DynamicGet(k) = dynamic[k]
                    /\ StaticGet(k) = static[k]
                    /\ Lookup(k) = View[k]
                    /\ Exists(k) <=> View[k] # NoValue
  OBVIOUS
<1>1. ic = 0 => dynamic[k] = NoValue
  <2> SUFFICES ASSUME ic = 0 PROVE dynamic[k] = NoValue
    OBVIOUS
  <2>1. Cardinality(Stored(dynamic)) = 0
    BY StoredFinite DEF Covered
  <2>2. Stored(dynamic) = {}
    BY <2>1, StoredFinite, FS_EmptySet
  <2> QED
    BY <2>2 DEF Stored
<1>2. sic = 0 => static[k] = NoValue
  <2> SUFFICES ASSUME sic = 0 PROVE static[k] = NoValue
    OBVIOUS
  <2>1. Cardinality(Stored(static)) = 0
    BY StoredFinite DEF Covered
  <2>2. Stored(static) = {}
    BY <2>1, StoredFinite, FS_EmptySet
  <2> QED
    BY <2>2 DEF Stored
<1>3. DynamicGet(k) = dynamic[k]
  BY <1>1 DEF DynamicGet
<1>4. StaticGet(k) = static[k]
  BY <1>2 DEF StaticGet
<1> QED
  BY <1>3, <1>4 DEF Lookup, Exists, View, Over

\* The invariant only speaks about the stages and the set-up.
LEMMA IInvUnchanged ==
  ASSUME IInv, UNCHANGED <<stages, setup>>
  PROVE  IInv'
BY DEF IInv, TypeOK, Covered, Exact, StagesDisjoint, MergesStayDefined,
       Stored, stages, setup

LEMMA InitIInv == Init => IInv
<1> SUFFICES ASSUME Init PROVE IInv
  OBVIOUS
<1>1. client \in Clients /\ shortKeys \in BOOLEAN
  BY SetupsAssumption DEF Init
<1>2. TypeOK
  <2>1. dynamic \in [Keys -> Values \cup {NoValue}] /\ static \in [Keys -> Values \cup {NoValue}]
    BY DEF Init, Empty
  <2>2. ic \in 0..CounterLimit /\ sic \in 0..CounterLimit
    BY MergeAssumption DEF Init
  <2>3. tombstones \in BOOLEAN /\ intact \in BOOLEAN
    BY DEF Init
  <2> QED
    BY <1>1, <2>1, <2>2, <2>3 DEF TypeOK
<1> QED
  BY <1>2, StoredEmpty
     DEF Init, IInv, Covered, Exact, StagesDisjoint, MergesStayDefined

\* Merging any dynamic stage d of c entries, under the conditions in which
\* merge() and put_uv() start a merge.
LEMMA MergePreservesIInv ==
  ASSUME IInv, intact, UNCHANGED setup, NEW d \in Stages, NEW c \in Nat, MergeUv(d, c),
         c >= Cardinality(Stored(d)),
         client = "insert" => c = Cardinality(Stored(d)),
         client \in {"insert", "update"} => Stored(d) \cap Stored(static) = {}
  PROVE  IInv'
<1> USE DEF setup
<1>0. static \in Stages /\ sic \in Nat /\ intact \in BOOLEAN
  BY DEF IInv, TypeOK, Stages
<1>1. /\ static' \in Stages
      /\ intact' => Cardinality(Stored(static'))
                       <= Cardinality(Stored(d)) + Cardinality(Stored(static))
  <2>1. CASE static' \in Unions(d)
    BY <1>0, <2>1, MergeOutcomeSize
  <2>2. CASE static' \in [Keys -> Values \cup {NoValue}] /\ intact' = FALSE
    BY <2>2 DEF Stages
  <2> QED
    BY <2>1, <2>2 DEF MergeUv
<1>2. /\ Cardinality(Stored(d)) \in Nat /\ Cardinality(Stored(static)) \in Nat
      /\ Cardinality(Stored(static')) \in Nat
  BY StoredFinite
<1>3. /\ Stored(dynamic') = {} /\ Cardinality(Stored(dynamic')) = 0
      /\ dynamic' \in Stages
  BY StoredEmpty DEF MergeUv, Empty, Stages
<1>5. sic' = sic + c /\ ic' = 0 /\ sic + c <= CounterLimit
  BY DEF MergeUv
<1>4. TypeOK'
  <2>1. intact' \in BOOLEAN /\ tombstones' \in BOOLEAN
    BY DEF MergeUv, IInv, TypeOK
  <2>2. sic' \in 0..CounterLimit /\ ic' \in 0..CounterLimit
    BY <1>0, <1>5, MergeAssumption
  <2>3. client' \in Clients /\ shortKeys' \in BOOLEAN
    BY DEF IInv, TypeOK
  <2> QED
    BY <1>1, <1>3, <2>1, <2>2, <2>3 DEF TypeOK, Stages
<1>6. Covered'
  <2>1. sic >= Cardinality(Stored(static))
    BY DEF IInv, Covered
  <2>2. intact' => sic' >= Cardinality(Stored(static'))
    BY <1>0, <1>1, <1>2, <1>5, <2>1
  <2>3. ic' >= Cardinality(Stored(dynamic'))
    BY <1>3, <1>5
  <2>4. Stored(dynamic') = Stored(dynamic)' /\ Stored(static') = Stored(static)'
    BY DEF Stored
  <2> QED
    BY <2>2, <2>3, <2>4 DEF Covered
<1>7. Exact'
  BY <1>3, <1>5 DEF Exact, Stored
<1>8. StagesDisjoint'
  BY <1>3 DEF StagesDisjoint, Stored
<1>9. MergesStayDefined'
  <2>1. CASE intact' = intact
    BY <2>1 DEF MergesStayDefined
  <2>2. CASE ~MergeDefined(d, c)
    <3>1. client \in {"insert", "update"} => IF shortKeys THEN c # Cardinality(Stored(d))
                                                         ELSE tombstones
      BY <2>2 DEF MergeDefined
    <3>2. UNCHANGED <<client, shortKeys, tombstones>>
      BY DEF MergeUv
    <3>3. ~(client' = "insert" /\ shortKeys' = TRUE)
      BY <3>1, <3>2
    <3>5. setup' # <<"insert", TRUE>>
      BY <3>3
    <3>4. ~(client' \in {"insert", "update"} /\ ~shortKeys' /\ ~tombstones')
      BY <3>1, <3>2
    <3> QED
      BY <3>4, <3>5 DEF MergesStayDefined
  <2> QED
    BY <2>1, <2>2 DEF MergeUv
<1> QED
  BY <1>4, <1>6, <1>7, <1>8, <1>9 DEF IInv

\* Writing into the dynamic stage.
LEMMA WritePreservesIInv ==
  ASSUME IInv, UNCHANGED <<static, sic, tombstones, intact, setup>>, ic < CounterLimit, ic' = ic + 1,
         NEW k \in Keys, NEW v \in Values, dynamic' = [dynamic EXCEPT ![k] = v],
         client = "insert" => dynamic[k] = NoValue,
         client \in {"insert", "update"} => static[k] = NoValue
  PROVE  IInv'
<1> DEFINE g == [dynamic EXCEPT ![k] = v]
<1>1. dynamic \in Stages /\ ic \in Nat /\ CounterLimit \in Nat
  BY MergeAssumption DEF IInv, TypeOK, Stages
<1>2. /\ g \in Stages
      /\ Stored(g) = Stored(dynamic) \cup {k}
      /\ Cardinality(Stored(g)) = IF dynamic[k] = NoValue
                                  THEN Cardinality(Stored(dynamic)) + 1
                                  ELSE Cardinality(Stored(dynamic))
  BY <1>1, StoredPut
<1>3. Cardinality(Stored(dynamic)) \in Nat
  BY StoredFinite
<1>4. Stored(dynamic)' = Stored(g) /\ Stored(static)' = Stored(static)
  BY DEF Stored
<1>5. TypeOK'
  BY <1>1, <1>2 DEF IInv, TypeOK, Stages, setup
<1>6. Covered'
  BY <1>1, <1>2, <1>3, <1>4 DEF IInv, Covered
<1>7. Exact'
  BY <1>1, <1>2, <1>3, <1>4 DEF IInv, Exact, setup
<1>8. StagesDisjoint'
  BY <1>2, <1>4 DEF IInv, StagesDisjoint, setup, Stored
<1>9. MergesStayDefined'
  BY DEF IInv, MergesStayDefined, setup
<1> QED
  BY <1>5, <1>6, <1>7, <1>8, <1>9 DEF IInv

LEMMA PutUvPreservesIInv ==
  ASSUME IInv, intact, NEW k \in Keys, NEW v \in Values, PutUv(k, v)
  PROVE  IInv'
<1> DEFINE g == [dynamic EXCEPT ![k] = v]
<1>0. dynamic \in Stages /\ ic \in Nat
  BY DEF IInv, TypeOK, Stages
<1>1. client \in {"insert", "update"} => dynamic[k] = NoValue /\ static[k] = NoValue
  BY GatesAreHarmless DEF IInv, PutUv, Exists
<1>2. CASE UNCHANGED stages
  BY <1>2, IInvUnchanged DEF PutUv
<1>3. CASE dynamic[k] = NoValue /\ MergeUv(g, ic + 1)
  <2>1. /\ g \in Stages
        /\ Stored(g) = Stored(dynamic) \cup {k}
        /\ Cardinality(Stored(g)) = Cardinality(Stored(dynamic)) + 1
    BY <1>0, <1>3, StoredPut
  <2>2. Cardinality(Stored(dynamic)) \in Nat
    BY StoredFinite
  <2>3. ic + 1 >= Cardinality(Stored(g)) /\ ic + 1 \in Nat
    BY <1>0, <2>1, <2>2 DEF IInv, Covered
  <2>4. client = "insert" => ic + 1 = Cardinality(Stored(g))
    BY <1>0, <2>1, <2>2 DEF IInv, Exact
  <2>5. client \in {"insert", "update"} => Stored(g) \cap Stored(static) = {}
    BY <1>1, <2>1 DEF IInv, StagesDisjoint, Stored
  <2>6. UNCHANGED setup
    BY DEF PutUv
  <2> QED
    BY <1>3, <2>1, <2>3, <2>4, <2>5, <2>6, MergePreservesIInv
<1>4. CASE /\ ic < CounterLimit
           /\ dynamic' = g
           /\ ic' = ic + 1
           /\ UNCHANGED <<static, sic, tombstones, intact>>
  BY <1>1, <1>4, WritePreservesIInv DEF PutUv, setup
<1> QED
  BY <1>2, <1>3, <1>4 DEF PutUv

LEMMA PutPreservesIInv ==
  ASSUME IInv, NEW k \in Keys, NEW v \in Values, Put(k, v)
  PROVE  IInv'
BY WritePreservesIInv DEF Put, DynamicPut, setup

\* Overwriting a live static entry in place.
LEMMA StaticWritePreservesIInv ==
  ASSUME IInv, UNCHANGED <<dynamic, ic, sic, tombstones, intact, setup>>,
         NEW k \in Keys, NEW v \in Values,
         static[k] # NoValue, static' = [static EXCEPT ![k] = v]
  PROVE  IInv'
<1>1. static \in Stages
  BY DEF IInv, TypeOK, Stages
<1>2. static' \in Stages /\ Stored(static') = Stored(static) \cup {k}
  BY <1>1, StoredPut
<1>3. Stored(static)' = Stored(static) /\ Stored(dynamic)' = Stored(dynamic)
  BY <1>2 DEF Stored
<1> QED
  BY <1>2, <1>3 DEF IInv, TypeOK, Covered, Exact, StagesDisjoint,
                    MergesStayDefined, Stages, setup

LEMMA UpdateUvPreservesIInv ==
  ASSUME IInv, intact, NEW k \in Keys, NEW v \in Values, UpdateUv(k, v)
  PROVE  IInv'
<1>1. DynamicGet(k) = dynamic[k]
  BY GatesAreHarmless DEF IInv
<1>2. CASE dynamic[k] # NoValue /\ DynamicPut(k, v)
  <2>1. client \in {"insert", "update"} => static[k] = NoValue
    BY <1>2 DEF IInv, StagesDisjoint, Stored
  <2>2. client # "insert"
    BY DEF UpdateUv
  <2> QED
    BY <1>2, <2>1, <2>2, WritePreservesIInv DEF UpdateUv, DynamicPut, setup
<1>3. CASE StaticUpdate(k, v)
  <2>1. CASE static[k] # NoValue
    BY <1>3, <2>1, StaticWritePreservesIInv DEF UpdateUv, StaticUpdate, setup
  <2>2. CASE static[k] = NoValue
    BY <1>3, <2>2, IInvUnchanged DEF UpdateUv, StaticUpdate, stages
  <2> QED
    BY <2>1, <2>2
<1> QED
  BY <1>1, <1>2, <1>3 DEF UpdateUv

\* Removing a key that the dynamic stage holds.
LEMMA DynamicRemovePreservesIInv ==
  ASSUME IInv, intact, UNCHANGED setup, NEW k \in Keys, dynamic[k] # NoValue, DynamicRemove(k)
  PROVE  IInv'
<1>1. dynamic \in Stages /\ ic \in Nat /\ ic <= CounterLimit
  BY MergeAssumption DEF IInv, TypeOK, Stages
<1>2. /\ dynamic' \in Stages
      /\ Stored(dynamic') = Stored(dynamic) \ {k}
      /\ Cardinality(Stored(dynamic')) = Cardinality(Stored(dynamic)) - 1
      /\ Cardinality(Stored(dynamic)) >= 1
  BY <1>1, StoredClear DEF DynamicRemove
<1>3. Cardinality(Stored(dynamic)) \in Nat
  BY StoredFinite
<1>4. Stored(dynamic)' = Stored(dynamic') /\ Stored(static)' = Stored(static)
  BY DEF Stored, DynamicRemove
<1>5. ic >= 1 /\ ic' = ic - 1 /\ UNCHANGED <<static, sic, tombstones, intact>>
  BY <1>1, <1>2, <1>3 DEF IInv, Covered, DynamicRemove
<1>6. ic' \in 0..CounterLimit
  BY <1>1, <1>5, MergeAssumption
<1>7. TypeOK'
  BY <1>2, <1>5, <1>6 DEF IInv, TypeOK, Stages, setup
<1>8. Covered'
  BY <1>1, <1>2, <1>3, <1>4, <1>5 DEF IInv, Covered
<1>9. Exact'
  BY <1>1, <1>2, <1>3, <1>4, <1>5 DEF IInv, Exact, setup
<1>10. StagesDisjoint' /\ MergesStayDefined'
  BY <1>2, <1>4, <1>5 DEF IInv, StagesDisjoint, MergesStayDefined, setup
<1> QED
  BY <1>7, <1>8, <1>9, <1>10 DEF IInv

\* Removing a key that the static stage holds.
LEMMA StaticRemovePreservesIInv ==
  ASSUME IInv, intact, UNCHANGED setup, NEW k \in Keys, static[k] # NoValue, StaticRemove(k)
  PROVE  IInv'
<1>1. static \in Stages /\ sic \in Nat /\ sic <= CounterLimit
  BY MergeAssumption DEF IInv, TypeOK, Stages
<1>2. /\ static' \in Stages
      /\ Stored(static') = Stored(static) \ {k}
      /\ Cardinality(Stored(static')) = Cardinality(Stored(static)) - 1
      /\ Cardinality(Stored(static)) >= 1
  BY <1>1, StoredClear DEF StaticRemove
<1>3. Cardinality(Stored(static)) \in Nat
  BY StoredFinite
<1>4. Stored(static)' = Stored(static') /\ Stored(dynamic)' = Stored(dynamic)
  BY DEF Stored, StaticRemove
<1>5. sic >= 1 /\ sic' = sic - 1 /\ UNCHANGED <<dynamic, ic, intact>> /\ tombstones' = TRUE
  BY <1>1, <1>2, <1>3 DEF IInv, Covered, StaticRemove
<1>6. sic' \in 0..CounterLimit
  BY <1>1, <1>5, MergeAssumption
<1>7. TypeOK'
  BY <1>2, <1>5, <1>6 DEF IInv, TypeOK, Stages, setup
<1>8. Covered'
  BY <1>1, <1>2, <1>3, <1>4, <1>5 DEF IInv, Covered
<1>9. Exact' /\ StagesDisjoint' /\ MergesStayDefined'
  BY <1>2, <1>4, <1>5 DEF IInv, Exact, StagesDisjoint, MergesStayDefined, setup
<1> QED
  BY <1>7, <1>8, <1>9 DEF IInv

LEMMA RemovePreservesIInv ==
  ASSUME IInv, intact, NEW k \in Keys, Remove(k)
  PROVE  IInv'
<1>1. DynamicGet(k) = dynamic[k] /\ StaticGet(k) = static[k]
  BY GatesAreHarmless DEF IInv
<1> QED
  BY <1>1, DynamicRemovePreservesIInv, StaticRemovePreservesIInv, IInvUnchanged
     DEF Remove

LEMMA MergeStepPreservesIInv ==
  ASSUME IInv, intact, Merge
  PROVE  IInv'
<1>1. dynamic \in Stages /\ ic \in Nat
  BY DEF IInv, TypeOK, Stages
<1>2. /\ ic >= Cardinality(Stored(dynamic))
      /\ client = "insert" => ic = Cardinality(Stored(dynamic))
      /\ client \in {"insert", "update"} => Stored(dynamic) \cap Stored(static) = {}
  BY DEF IInv, Covered, Exact, StagesDisjoint
<1> QED
  BY <1>1, <1>2, MergePreservesIInv DEF Merge

LEMMA NextIInv == IInv /\ [Next]_vars => IInv'
<1> SUFFICES ASSUME IInv, [Next]_vars PROVE IInv'
  OBVIOUS
<1>0. CASE UNCHANGED vars
  BY <1>0, IInvUnchanged DEF vars
<1> SUFFICES ASSUME intact, Call PROVE IInv'
  BY <1>0 DEF Next, Undefined
<1>1. ASSUME NEW k \in Keys, NEW v \in Values, PutUv(k, v) PROVE IInv'
  BY <1>1, PutUvPreservesIInv
<1>2. ASSUME NEW k \in Keys, NEW v \in Values, Put(k, v) PROVE IInv'
  BY <1>2, PutPreservesIInv
<1>3. ASSUME NEW k \in Keys, NEW v \in Values, UpdateUv(k, v) PROVE IInv'
  BY <1>3, UpdateUvPreservesIInv
<1>4. ASSUME NEW k \in Keys, Remove(k) PROVE IInv'
  BY <1>4, RemovePreservesIInv
<1>5. ASSUME NEW k \in Keys, Get(k) \/ Exist(k) PROVE IInv'
  BY <1>5, IInvUnchanged DEF Get, Exist
<1>6. CASE Merge
  BY <1>6, MergeStepPreservesIInv
<1> QED
  BY <1>1, <1>2, <1>3, <1>4, <1>5, <1>6 DEF Call

-----------------------------------------------------------------------------
(* The theorems.                                                           *)

\* Every reachable state satisfies the invariant.
THEOREM Invariant == Spec => []IInv
BY InitIInv, NextIInv, PTL DEF Spec

\* The variables keep their types: in particular neither counter of mt_index is
\* ever decremented below zero by remove().
THEOREM TypeCorrect == Spec => []TypeOK
<1>1. IInv => TypeOK
  BY DEF IInv
<1> QED
  BY <1>1, Invariant, PTL

\* Until a merge is undefined the counters cover their stages, so that the early
\* returns on ic == 0 and sic == 0 in get, exist and remove never hide an entry.
THEOREM CountersCover == Spec => []CountersCoverStages
<1>1. IInv => CountersCoverStages
  BY GatesAreHarmless DEF IInv, Covered, CountersCoverStages
<1> QED
  BY <1>1, Invariant, PTL

\* A client that checks before inserting never has a key in both stages.
THEOREM Disjointness == Spec => []StagesDisjoint
<1>1. IInv => StagesDisjoint
  BY DEF IInv
<1> QED
  BY <1>1, Invariant, PTL

\* Merges stay defined for short keys that are never overwritten, and for long
\* keys of clients that check before they insert, until the first removal from
\* the static stage.
THEOREM MergesDefined == Spec => []MergesStayDefined
<1>1. IInv => MergesStayDefined
  BY DEF IInv
<1> QED
  BY <1>1, Invariant, PTL

-----------------------------------------------------------------------------
(* The two stages implement one map.                                       *)

\* Writing v under k in front of the other entries of the view.
LEMMA OverPut ==
  ASSUME dynamic \in Stages, static \in Stages, NEW k \in Keys, NEW v \in Values
  PROVE  Over([dynamic EXCEPT ![k] = v], static) = [View EXCEPT ![k] = v]
BY NoValueAssumption DEF Over, View, Stages

\* With an empty front stage the view is the back stage.
LEMMA OverEmpty ==
  ASSUME NEW f \in Stages
  PROVE  Over(Empty, f) = f
BY DEF Over, Empty, Stages

\* A merge of d that stays defined leaves a view that is d in front of the
\* static stage, but for long keys that are in both.
LEMMA DefinedMerge ==
  ASSUME static \in Stages, NEW d \in Stages, NEW c, MergeUv(d, c), intact'
  PROVE  \A k \in Keys :
           \/ View'[k] = Over(d, static)[k]
           \/ ~shortKeys /\ k \in Stored(d) \cap Stored(static) /\ View'[k] = static[k]
<1>1. static' \in Unions(d)
  BY DEF MergeUv
<1>2. PICK older \in SUBSET (IF shortKeys THEN {} ELSE Stored(d) \cap Stored(static)) :
        static' = [k \in Keys |-> IF k \in older THEN static[k] ELSE Over(d, static)[k]]
  BY <1>1 DEF Unions
<1>3. static' \in Stages
  BY <1>2 DEF Over, Stages
<1>4. View' = static'
  BY <1>3, OverEmpty DEF View, MergeUv, Over
<1> QED
  BY <1>2, <1>4

\* Without such keys the view is d in front of the static stage.
LEMMA ExactMerge ==
  ASSUME static \in Stages, NEW d \in Stages, NEW c, MergeUv(d, c), intact',
         shortKeys \/ Stored(d) \cap Stored(static) = {}
  PROVE  View' = Over(d, static)
<1>1. \A k \in Keys : View'[k] = Over(d, static)[k]
  BY DefinedMerge
<1>2. View' = [k \in Keys |-> View'[k]] /\ Over(d, static) = [k \in Keys |-> Over(d, static)[k]]
  BY DEF View, Over
<1> QED
  BY <1>1, <1>2

\* What a step starts from while the two stages are one map.
MapInv == IInv /\ intact /\ setup \in MapSetups

\* In these setups long keys are in one stage only.
LEMMA OneStage ==
  ASSUME MapInv
  PROVE  shortKeys \/ (client \in {"insert", "update"} /\ Stored(dynamic) \cap Stored(static) = {})
BY DEF MapInv, IInv, StagesDisjoint, MapSetups, setup

LEMMA PutUvRefines ==
  ASSUME MapInv, intact', NEW k \in Keys, NEW v \in Values, PutUv(k, v)
  PROVE  Map!Insert(k, v)
<1>1. dynamic \in Stages /\ static \in Stages
  BY DEF MapInv, IInv, TypeOK, Stages
<1>2. CASE dynamic[k] # NoValue /\ UNCHANGED stages /\ last' = Reply("put_uv", k, FALSE)
  BY <1>2 DEF stages, View, Over, Reply, Map!Insert, Map!Present, Map!Reply
<1>3. CASE dynamic[k] = NoValue /\ last' = Reply("put_uv", k, TRUE)
  <2>1. View' = Over([dynamic EXCEPT ![k] = v], static)
    <3>1. CASE MergeUv([dynamic EXCEPT ![k] = v], ic + 1)
      <4>1. /\ [dynamic EXCEPT ![k] = v] \in Stages
            /\ Stored([dynamic EXCEPT ![k] = v]) = Stored(dynamic) \cup {k}
        BY <1>1, StoredPut
      <4>2. client \in {"insert", "update"} => static[k] = NoValue
        BY GatesAreHarmless DEF MapInv, IInv, PutUv, Exists
      <4>3. shortKeys \/ Stored([dynamic EXCEPT ![k] = v]) \cap Stored(static) = {}
        BY <4>1, <4>2, OneStage DEF Stored
      <4> QED
        BY <1>1, <3>1, <4>1, <4>3, ExactMerge
    <3>2. CASE dynamic' = [dynamic EXCEPT ![k] = v] /\ UNCHANGED static
      BY <3>2 DEF View, Over
    <3> QED
      BY <1>3, <3>1, <3>2 DEF PutUv
  <2> QED
    BY <1>1, <1>3, <2>1, OverPut DEF Map!Insert, Map!Reply, Reply
<1> QED
  BY <1>2, <1>3 DEF PutUv

LEMMA PutRefines ==
  ASSUME MapInv, NEW k \in Keys, NEW v \in Values, Put(k, v)
  PROVE  Map!Upsert(k, v)
<1>1. dynamic \in Stages /\ static \in Stages
  BY DEF MapInv, IInv, TypeOK, Stages
<1>2. View' = Over([dynamic EXCEPT ![k] = v], static)
  BY DEF Put, DynamicPut, View, Over
<1> QED
  BY <1>1, <1>2, OverPut DEF Put, Map!Upsert, Map!Reply, Reply

LEMMA UpdateUvRefines ==
  ASSUME MapInv, NEW k \in Keys, NEW v \in Values, UpdateUv(k, v)
  PROVE  Map!Update(k, v)
<1>1. dynamic \in Stages /\ static \in Stages
  BY DEF MapInv, IInv, TypeOK, Stages
<1>2. DynamicGet(k) = dynamic[k]
  BY GatesAreHarmless DEF MapInv, IInv
<1>3. CASE dynamic[k] # NoValue /\ DynamicPut(k, v) /\ last' = Reply("update_uv", k, TRUE)
  <2>1. View' = Over([dynamic EXCEPT ![k] = v], static)
    BY <1>3 DEF DynamicPut, View, Over
  <2>2. Map!Present(k)
    BY <1>3 DEF Map!Present, View, Over
  <2> QED
    BY <1>1, <1>3, <2>1, <2>2, OverPut DEF Map!Update, Map!Reply, Reply
<1>4. CASE /\ dynamic[k] = NoValue /\ StaticUpdate(k, v)
           /\ last' = Reply("update_uv", k, static[k] # NoValue)
  <2>1. Map!Present(k) = (static[k] # NoValue)
    BY <1>4 DEF Map!Present, View, Over
  <2>2. View' = IF static[k] # NoValue THEN [View EXCEPT ![k] = v] ELSE View
    BY <1>1, <1>4 DEF StaticUpdate, View, Over, Stages
  <2>3. last' = Map!Reply("update_uv", k, Map!Present(k))
    BY <1>4, <2>1 DEF Map!Reply, Reply
  <2>4. View' = IF Map!Present(k) THEN [View EXCEPT ![k] = v] ELSE View
    BY <2>1, <2>2
  <2> QED
    BY <2>3, <2>4 DEF Map!Update
<1> QED
  BY <1>2, <1>3, <1>4 DEF UpdateUv

LEMMA RemoveRefines ==
  ASSUME MapInv, NEW k \in Keys, Remove(k)
  PROVE  Map!Remove(k)
<1>1. dynamic \in Stages /\ static \in Stages
  BY DEF MapInv, IInv, TypeOK, Stages
<1>2. DynamicGet(k) = dynamic[k] /\ StaticGet(k) = static[k] /\ Lookup(k) = View[k]
  BY GatesAreHarmless DEF MapInv, IInv
<1>3. dynamic[k] = NoValue \/ static[k] = NoValue
  <2>1. client # "upsert"
    BY DEF Remove
  <2>2. client \in {"insert", "update"}
    BY <2>1 DEF MapInv, MapSetups, setup
  <2> QED
    BY <2>2 DEF MapInv, IInv, StagesDisjoint, Stored
<1>4. CASE dynamic[k] # NoValue /\ DynamicRemove(k) /\ last' = Reply("remove", k, TRUE)
  BY <1>1, <1>3, <1>4
     DEF DynamicRemove, View, Over, Stages, Map!Remove, Map!Present, Map!Reply, Reply
<1>5. CASE /\ dynamic[k] = NoValue /\ static[k] # NoValue /\ StaticRemove(k)
           /\ last' = Reply("remove", k, TRUE)
  BY <1>1, <1>5
     DEF StaticRemove, View, Over, Stages, Map!Remove, Map!Present, Map!Reply, Reply
<1>6. CASE View[k] = NoValue /\ UNCHANGED stages /\ last' = Reply("remove", k, FALSE)
  BY <1>6 DEF stages, View, Over, Map!Remove, Map!Present, Map!Reply, Reply
<1> QED
  BY <1>2, <1>4, <1>5, <1>6 DEF Remove

LEMMA LookupRefines ==
  ASSUME MapInv, NEW k \in Keys
  PROVE  (Get(k) => Map!Get(k)) /\ (Exist(k) => Map!Exist(k))
<1>1. Lookup(k) = View[k] /\ (Exists(k) <=> View[k] # NoValue)
  BY GatesAreHarmless DEF MapInv, IInv
<1>2. Exists(k) \in BOOLEAN
  BY DEF Exists
<1>3. Get(k) => Map!Get(k)
  BY <1>1 DEF Get, Map!Get, Map!Reply, Reply, View, Over, stages
<1>4. Exist(k) => Map!Exist(k)
  BY <1>1, <1>2 DEF Exist, Map!Exist, Map!Present, Map!Reply, Reply, View, Over, stages
<1> QED
  BY <1>3, <1>4

LEMMA MergeRefines ==
  ASSUME MapInv, intact', Merge
  PROVE  Map!Merge
<1>1. dynamic \in Stages /\ static \in Stages
  BY DEF MapInv, IInv, TypeOK, Stages
<1>2. View' = View
  BY <1>1, OneStage, ExactMerge DEF Merge, View
<1> QED
  BY <1>2 DEF Merge, Map!Merge

\* Until a merge runs into undefined behaviour, a client that has no key in both
\* stages, or short keys that it does not remove, sees a single map: every step
\* of the index, its reply included, is a step of IndexMap, whatever merges
\* happen in between.
THEOREM Refinement == Spec => MapSpec
<1>1. Init => Map!Init
  <2>1. Init => View = [k \in Keys |-> NoValue] /\ last = Map!NoCall
    BY DEF Init, View, Over, Empty, NoCall, Map!NoCall
  <2> QED
    BY <2>1 DEF Map!Init
<1>2. IInv /\ [Next]_vars => [intact' /\ setup \in MapSetups => Map!Next]_<<View, last>>
  <2> SUFFICES ASSUME IInv, [Next]_vars, intact', setup \in MapSetups
               PROVE  Map!Next \/ UNCHANGED <<View, last>>
    OBVIOUS
  <2>0. CASE UNCHANGED vars
    BY <2>0 DEF vars, stages, View, Over
  <2> SUFFICES ASSUME intact, Call PROVE Map!Next
    BY <2>0 DEF Next, Undefined
  <2>1. MapInv
    BY DEF MapInv
  <2>2. ASSUME NEW k \in Keys, NEW v \in Values, PutUv(k, v) \/ Put(k, v) \/ UpdateUv(k, v)
        PROVE  Map!Next
    BY <2>1, <2>2, PutUvRefines, PutRefines, UpdateUvRefines DEF Map!Next
  <2>3. ASSUME NEW k \in Keys, Remove(k) \/ Get(k) \/ Exist(k)
        PROVE  Map!Next
    BY <2>1, <2>3, RemoveRefines, LookupRefines DEF Map!Next
  <2>4. CASE Merge
    BY <2>1, <2>4, MergeRefines DEF Map!Next
  <2> QED
    BY <2>2, <2>3, <2>4 DEF Call
<1> QED
  BY <1>1, <1>2, Invariant, PTL DEF Spec, MapSpec

-----------------------------------------------------------------------------
(* Merging is invisible, for every client.                                 *)

\* A merge that stays defined, asked for or triggered by put_uv, changes no key
\* but the one that was put, and long keys that were in both stages.
THEOREM MergesInvisible == Spec => MergeKeepsView
<1> DEFINE Older(k) == /\ ~shortKeys /\ k \in Stored(dynamic) \cap Stored(static)
                       /\ View'[k] = static[k]
           Kept == \A k \in Keys :
                     /\ ic' = 0
                     /\ intact'
                     /\ last' = [op |-> "merge"] \/ (last'.op = "put_uv" /\ last'.key # k)
                     => \/ View'[k] = View[k]
                        \/ /\ ~shortKeys /\ k \in Stored(dynamic) \cap Stored(static)
                           /\ View'[k] = static[k]
<1>1. IInv /\ [Next]_vars => [Kept]_vars
  <2> SUFFICES ASSUME IInv, Call, NEW q \in Keys, intact',
                      last' = [op |-> "merge"] \/ (last'.op = "put_uv" /\ last'.key # q)
               PROVE  View'[q] = View[q] \/ Older(q)
    BY DEF Next, Undefined
  <2>1. dynamic \in Stages /\ static \in Stages
    BY DEF IInv, TypeOK, Stages
  <2>2. CASE Merge
    BY <2>1, <2>2, DefinedMerge DEF Merge, View
  <2>3. ASSUME NEW k \in Keys, NEW v \in Values, PutUv(k, v)
        PROVE  View'[q] = View[q] \/ Older(q)
    <3>1. k # q
      <4>1. \E answer \in BOOLEAN : last' = Reply("put_uv", k, answer)
        BY <2>3 DEF PutUv
      <4>2. last'.op = "put_uv" /\ last'.key = k
        BY <4>1 DEF Reply
      <4> QED
        BY <4>2
    <3>2. CASE UNCHANGED stages
      BY <3>2 DEF stages, View, Over
    <3>3. CASE MergeUv([dynamic EXCEPT ![k] = v], ic + 1)
      <4>1. /\ [dynamic EXCEPT ![k] = v] \in Stages
            /\ Stored([dynamic EXCEPT ![k] = v]) = Stored(dynamic) \cup {k}
        BY <2>1, StoredPut
      <4>2. \/ View'[q] = Over([dynamic EXCEPT ![k] = v], static)[q]
            \/ Older(q)
        BY <2>1, <3>1, <3>3, <4>1, DefinedMerge
      <4>3. Over([dynamic EXCEPT ![k] = v], static)[q] = View[q]
        BY <2>1, <3>1, OverPut DEF View, Over
      <4> QED
        BY <4>2, <4>3
    <3>4. CASE dynamic' = [dynamic EXCEPT ![k] = v] /\ UNCHANGED static
      BY <2>1, <3>1, <3>4 DEF View, Over, Stages
    <3> QED
      BY <2>3, <3>2, <3>3, <3>4 DEF PutUv
  <2>4. ASSUME NEW k \in Keys, NEW v \in Values, Put(k, v) \/ UpdateUv(k, v)
        PROVE  FALSE
    BY <2>4 DEF Put, UpdateUv, Reply
  <2>5. ASSUME NEW k \in Keys, Remove(k) \/ Get(k) \/ Exist(k)
        PROVE  FALSE
    BY <2>5 DEF Remove, Get, Exist, Reply
  <2> QED
    BY <2>2, <2>3, <2>4, <2>5 DEF Call
<1> QED
  BY <1>1, Invariant, PTL DEF Spec, MergeKeepsView
=============================================================================
