---------------------------- MODULE HybridMulti ----------------------------
(***************************************************************************)
(* The hybrid index as a secondary index: mt_index with multivalue_ set,    *)
(* where a key has a list of values (the _nuv functions of                  *)
(* src/hybrid_index/mtIndexAPI.hh).  SECONDARY_INDEX_TYPE says which index  *)
(* is compiled: in type 1 a list of the static stage is a row of its own    *)
(* and is replaced in place; in type 0 the lists of a node are packed into  *)
(* it, and a list can only grow by a merge.  One thread uses the object, so *)
(* each member function is one action.                                     *)
(*                                                                         *)
(* A definition named Faulty... is a plausible slip of the definition after *)
(* it; it is used only to confirm that a property notices the slip.         *)
(***************************************************************************)
EXTENDS Integers, FiniteSets, SequencesExt

CONSTANTS
  Keys,            \* the keys a client uses
  Values,          \* values of VALUE_LEN bytes
  Uses,            \* the values that a client may put under each key, alternatives
  MergeThreshold,  \* MERGE_THRESHOLD
  MergeRatio,      \* merge_ratio
  Types,           \* the values of SECONDARY_INDEX_TYPE that are explored
  Clients,         \* the disciplines to start from
  ValueLimit       \* a bound of the model on the values stored at a time

ASSUME MergeAssumption ==
  MergeThreshold \in Nat /\ MergeRatio \in Nat /\ ValueLimit \in Nat

\* A client uses finitely many keys, so that the values of a stage can be counted.
ASSUME FiniteKeysAssumption == IsFiniteSet(Keys)

ASSUME TypesAssumption == Types \subseteq {0, 1}

ASSUME UsesAssumption == Uses \subseteq [Keys -> SUBSET Values]

\* How the calling program uses an index of type 1.
\*   careful  never removes the only value of a key of the static stage, which
\*            get_nuv reports apart from those of the dynamic stage
\*   any      every operation
ASSUME ClientsAssumption == Clients \subseteq {"careful", "any"}

VARIABLES
  dynamic,   \* table_: the list under each key, <<>> for none
  static,    \* static_table_: the same, a tombstone being <<>>
  ic, sic,   \* the counters of the same names
  indexType, \* SECONDARY_INDEX_TYPE
  client,    \* the discipline of the caller; never changes
  used,      \* the member of Uses that the caller keeps to; never changes
  intact,    \* no merge has failed half way
  last       \* the last call and its reply

stages == <<dynamic, static, ic, sic, intact>>
setting == <<indexType, client, used>>
vars == <<stages, setting, last>>

Empty == [k \in Keys |-> <<>>]

NoCall == [op |-> "none"]
Reply(op, k, answer) == [op |-> op, key |-> k, answer |-> answer]

\* The list s with its first x replaced by v.
Substituted(s, x, v) == ReplaceAt(s, SelectInSeq(s, LAMBDA y : y = x), v)

\* The number of values in a stage.
Count(stage) == SumFunction([k \in Keys |-> Len(stage[k])])

Init ==
  /\ dynamic = Empty /\ static = Empty
  /\ ic = 0 /\ sic = 0
  /\ indexType \in Types
  /\ client \in (IF indexType = 1 THEN Clients ELSE {"any"})
  /\ used \in Uses
  /\ intact = TRUE
  /\ last = NoCall

-----------------------------------------------------------------------------
(* Lookups.  A stage whose counter is zero is not searched.                 *)

DynamicGet(k) == IF ic = 0 THEN <<>> ELSE dynamic[k]

StaticGet(k) == IF sic = 0 THEN <<>> ELSE static[k]

FaultyLookup(k) == DynamicGet(k)

\* In type 1 the static stage is searched only when the dynamic one fails; in
\* type 0 always, and a key that both stages have is reported as absent.
Lookup(k) ==
  IF DynamicGet(k) = <<>> THEN StaticGet(k)
  ELSE IF indexType = 0 /\ StaticGet(k) # <<>> THEN <<>>
  ELSE DynamicGet(k)

FoundInStaticOnly(k) == DynamicGet(k) = <<>> /\ StaticGet(k) # <<>>

GetNuv(k) ==
  /\ last' = Reply("get_nuv", k, Lookup(k))
  /\ UNCHANGED <<stages, setting>>

\* exist_nuv searches the static stage whatever sic says.
ExistNuv(k) ==
  /\ last' = Reply("exist_nuv", k, DynamicGet(k) # <<>> \/ static[k] # <<>>)
  /\ UNCHANGED <<stages, setting>>

-----------------------------------------------------------------------------
(* Merging the dynamic stage d, counted as c values, into the static one.   *)

\* merge_nodes of type 1 gives up, "same key!", when a key is in both stages;
\* that of type 0 joins the two lists.
MergeWorks(d) == indexType = 0 \/ \A k \in Keys : d[k] = <<>> \/ static[k] = <<>>

\* The lists of d and s as one, in the order that the nodes of the key ask for:
\* when the dynamic stage has a layer where the static one has the key itself,
\* it is the older list that is added to the layer, in front of the newer.
JoinedLists(d, s) ==
  {[k \in Keys |-> IF k \in olderFirst THEN s[k] \o d[k] ELSE d[k] \o s[k]]
     : olderFirst \in SUBSET {k \in Keys : d[k] # <<>> /\ s[k] # <<>>}}

\* A merge that gives up leaves the root it has already reallocated: each key
\* is found there, under the slot its new list went to, or not at all.
MergeOutcomes(d) ==
  IF MergeWorks(d) THEN JoinedLists(d, static)
  ELSE {[k \in Keys |-> CASE from[k] = "static" -> static[k]
                          [] from[k] = "dynamic" -> d[k]
                          [] OTHER -> <<>>]
          : from \in [Keys -> {"static", "dynamic", "none"}]}

FaultyMergeNuv(d, c) ==
  /\ static' \in MergeOutcomes(d)
  /\ intact' = (intact /\ MergeWorks(d))
  /\ dynamic' = Empty /\ ic' = ic
  /\ sic' = sic + c

\* The result of the merge is ignored: the counters move and reset() destroys
\* the dynamic stage whether it worked or not.
MergeNuv(d, c) ==
  /\ static' \in MergeOutcomes(d)
  /\ intact' = (intact /\ MergeWorks(d))
  /\ sic' = sic + c
  /\ dynamic' = Empty /\ ic' = 0

\* c values in the dynamic stage, s in the static one.
MergeDue(c, s) == c * MergeRatio >= s /\ c >= MergeThreshold

\* The public merge().
Merge ==
  /\ MergeNuv(dynamic, ic)
  /\ last' = [op |-> "merge"]
  /\ UNCHANGED setting

-----------------------------------------------------------------------------
(* Insertion.                                                              *)

\* In type 1 a key that only the static stage has gets its new value there.
StaticPut(k, v) ==
  /\ static' = [static EXCEPT ![k] = Cons(v, @)]
  /\ sic' = sic + 1
  /\ UNCHANGED <<dynamic, ic, intact>>

DynamicPut(k, v) ==
  LET d == [dynamic EXCEPT ![k] = Cons(v, @)] IN
  IF MergeDue(ic + 1, sic)
  THEN MergeNuv(d, ic + 1)
  ELSE /\ dynamic' = d /\ ic' = ic + 1
       /\ UNCHANGED <<static, sic, intact>>

PutNuv(k, v) ==
  /\ Count(dynamic) + Count(static) < ValueLimit
  /\ IF indexType = 1 /\ FoundInStaticOnly(k) THEN StaticPut(k, v) ELSE DynamicPut(k, v)
  /\ last' = [op |-> "put_nuv", key |-> k]
  /\ UNCHANGED setting

-----------------------------------------------------------------------------
(* Removal of one value.                                                   *)

DynamicRemove(k, v) ==
  /\ dynamic' = [dynamic EXCEPT ![k] = RemoveFirst(@, v)]
  /\ ic' = ic - 1
  /\ UNCHANGED <<static, sic, intact>>

\* The last value of a key is counted out here and once more when the entry is
\* invalidated; and if this was the last one sic knew of, static_remove_nuv1
\* finds sic == 0, refuses, and the entry stays.
StaticRemoveLast(k) ==
  IF sic = 1
  THEN /\ sic' = 0
       /\ last' = Reply("remove_nuv", k, FALSE)
       /\ UNCHANGED static
  ELSE /\ sic' = sic - 2
       /\ last' = Reply("remove_nuv", k, TRUE)
       /\ static' = [static EXCEPT ![k] = <<>>]

StaticRemove(k, v) ==
  /\ IF static[k] = <<v>>
     THEN StaticRemoveLast(k)
     ELSE /\ static' = [static EXCEPT ![k] = RemoveFirst(@, v)]
          /\ sic' = sic - 1
          /\ last' = Reply("remove_nuv", k, TRUE)
  /\ UNCHANGED <<dynamic, ic, intact>>

\* In type 0 the list becomes a tombstone and what is left of it goes to the
\* dynamic stage, where the merge may be due; sic, which merge_nuv may have
\* moved, is then lowered by what put_nuv0 has added to ic.
PackedRemove(k, v) ==
  LET rest == RemoveFirst(static[k], v)
      without == [static EXCEPT ![k] = <<>>]
      d == [dynamic EXCEPT ![k] = rest \o @]
      c == ic + Len(rest)
  IN /\ last' = Reply("remove_nuv", k, TRUE)
     /\ IF rest # <<>> /\ MergeDue(c, sic - 1)
        THEN /\ static' \in JoinedLists(d, without)
             /\ dynamic' = Empty /\ ic' = 0
             /\ sic' = sic - 1 + c - Len(rest)
        ELSE /\ static' = without
             /\ dynamic' = d /\ ic' = c
             /\ sic' = sic - 1 - Len(rest)
     /\ UNCHANGED intact

RemoveNuv(k, v) ==
  /\ client = "careful" => static[k] # <<v>>
  /\ \/ /\ Contains(DynamicGet(k), v)
        /\ DynamicRemove(k, v)
        /\ last' = Reply("remove_nuv", k, TRUE)
     \/ /\ ~Contains(DynamicGet(k), v)
        /\ Contains(StaticGet(k), v)
        /\ IF indexType = 1 THEN StaticRemove(k, v) ELSE PackedRemove(k, v)
     \/ /\ ~Contains(DynamicGet(k), v)
        /\ ~Contains(StaticGet(k), v)
        /\ last' = Reply("remove_nuv", k, FALSE)
        /\ UNCHANGED stages
  /\ UNCHANGED setting

-----------------------------------------------------------------------------
(* Replacement, which never moves a counter.                               *)

Replace(k, v, old) ==
  /\ \/ /\ Contains(DynamicGet(k), old)
        /\ dynamic' = [dynamic EXCEPT ![k] = Substituted(@, old, v)]
        /\ UNCHANGED static
     \/ /\ ~Contains(DynamicGet(k), old)
        /\ Contains(StaticGet(k), old)
        /\ static' = [static EXCEPT ![k] = Substituted(@, old, v)]
        /\ UNCHANGED dynamic
     \/ /\ ~Contains(DynamicGet(k), old)
        /\ ~Contains(StaticGet(k), old)
        /\ UNCHANGED <<dynamic, static>>
  /\ last' = Reply("replace", k, Contains(DynamicGet(k), old) \/ Contains(StaticGet(k), old))
  /\ UNCHANGED <<ic, sic, setting, intact>>

\* replace_first1 overwrites the newest value.  Type 0 calls it too, and its
\* search of the static stage takes the packed nodes for nodes of type 1: what
\* that does is undefined, and only the other calls are modelled.
ReplaceNewest(k, v) ==
  /\ indexType = 0 => DynamicGet(k) # <<>> \/ sic = 0
  /\ \/ /\ FoundInStaticOnly(k)
        /\ static' = [static EXCEPT ![k][1] = v]
        /\ UNCHANGED dynamic
     \/ /\ ~FoundInStaticOnly(k)
        /\ dynamic[k] # <<>>
        /\ dynamic' = [dynamic EXCEPT ![k][1] = v]
        /\ UNCHANGED static
     \/ /\ ~FoundInStaticOnly(k)
        /\ dynamic[k] = <<>>
        /\ UNCHANGED <<dynamic, static>>
  /\ last' = Reply("replace_first", k, FoundInStaticOnly(k) \/ dynamic[k] # <<>>)
  /\ UNCHANGED <<ic, sic, setting, intact>>

Next ==
  \/ \E k \in Keys : \E v \in used[k] :
       PutNuv(k, v) \/ RemoveNuv(k, v) \/ ReplaceNewest(k, v)
  \/ \E k \in Keys : \E v, old \in used[k] : Replace(k, v, old)
  \/ \E k \in Keys : GetNuv(k) \/ ExistNuv(k)
  \/ Merge

Spec == Init /\ [][Next]_vars

-----------------------------------------------------------------------------
(* Properties.                                                             *)

\* The type of every variable; `last' only ever holds an operation's reply.
TypeOK ==
  /\ dynamic \in [Keys -> Seq(Values)] /\ static \in [Keys -> Seq(Values)]
  /\ ic \in 0..ValueLimit /\ sic \in Nat
  /\ client \in Clients \cup {"any"} /\ intact \in BOOLEAN

StagesDisjoint == \A k \in Keys : dynamic[k] = <<>> \/ static[k] = <<>>

\* ic counts the values of the dynamic stage exactly, whoever the client is,
\* although removal of one value from a list goes through put(), which adds the
\* whole remaining list to ic before it is taken off again.  sic never exceeds
\* what the static stage holds until a merge has failed, and is exact for a
\* careful client and in type 0, where the removal of one value of a list moves
\* the others to the dynamic stage and both counters more than once: so the test
\* sic == 0 then skips only an empty stage.  A careful client has no key in both
\* stages, "if NOT found in either dynamic or static, insert a new entry to
\* dynamic", and no merge ever fails.
CountersExact ==
  /\ TypeOK
  /\ ic = Count(dynamic)
  /\ intact => sic <= Count(static)
  /\ indexType = 0 \/ client = "careful" => sic = Count(static)
  /\ client = "careful" => StagesDisjoint /\ intact

\* What a careful client sees is one list per key: every reply of every call is
\* the one IndexMultiMap gives, wherever the merges moved the list.  In type 0
\* each client sees one bag per key, as IndexBags has it: no value is lost or
\* doubled when a removal moves the rest of a list, with a merge or without, and
\* get_nuv fails only for a key that both stages have.
View == [k \in Keys |-> dynamic[k] \o static[k]]

Apart == {k \in Keys : dynamic[k] # <<>> /\ static[k] # <<>>}

Lists == INSTANCE IndexMultiMap WITH lists <- View

BagOf(list) == [v \in Values |-> Cardinality({i \in DOMAIN list : list[i] = v})]

Bags == INSTANCE IndexBags WITH bags <- [k \in Keys |-> BagOf(View[k])], split <- Apart

MultiMapSpec ==
  /\ Lists!Init /\ Bags!Init
  /\ [][IF indexType = 0 THEN Bags!Next
        ELSE client = "careful" => Lists!Next]_<<View, Apart, last>>
=============================================================================
