---------------------------- MODULE HybridIndex ----------------------------
(***************************************************************************)
(* The unique-key hybrid index, class mt_index of                           *)
(* src/hybrid_index/mtIndexAPI.hh: a dynamic Masstree that takes every      *)
(* insertion in front of a read-optimised static trie, and the counters ic  *)
(* and sic that gate lookups, removals and merges.  The object is used by   *)
(* one thread, so each member function is one action.                       *)
(*                                                                         *)
(* A static entry that was removed is a tombstone; at this level it is the  *)
(* same as an absent key, but merges of longer keys may go wrong where one  *)
(* is.  Keys have 8 bytes, or are long enough not to be a prefix of each    *)
(* other, and then no zero byte (suffixes are compared with strncmp).       *)
(*                                                                         *)
(* A definition named Faulty... is a plausible slip of the definition after *)
(* it; it is used only to confirm that a property notices the slip.         *)
(***************************************************************************)
EXTENDS Integers, FiniteSets

CONSTANTS
  Keys,            \* the keys a client uses
  Values,          \* the values it stores, each of VALUE_LEN bytes
  NoValue,         \* what is stored under an absent key
  MergeThreshold,  \* MERGE_THRESHOLD
  MergeRatio,      \* MERGE_RATIO
  Setups,          \* pairs <<client, shortKeys>> to start from
  CounterLimit     \* a bound of the model on ic and sic

ASSUME KeysAssumption == IsFiniteSet(Keys)
ASSUME NoValueAssumption == NoValue \notin Values
ASSUME MergeAssumption ==
  MergeThreshold \in Nat /\ MergeRatio \in Nat /\ CounterLimit \in Nat

\* How the calling program uses the index.
\*   insert  puts a key only while it is absent, removes, never overwrites
\*   update  as insert, and overwrites with update_uv
\*   upsert  put_uv, put and update_uv on any key, no removal
\*   any     every operation on every key
Clients == {"insert", "update", "upsert", "any"}

ASSUME SetupsAssumption == Setups \subseteq Clients \X BOOLEAN

VARIABLES
  dynamic,    \* table_: the dynamic stage
  static,     \* static_table_: the live entries of the static stage
  ic, sic,    \* the counters of the same names
  tombstones, \* an entry of the static stage has been removed
  client,     \* which discipline the caller follows; never changes
  shortKeys,  \* key_size_ <= 8: merges use buildStatic_quick; never changes
  intact,     \* no merge has executed undefined behaviour
  last        \* the last call and its reply

stages == <<dynamic, static, ic, sic, tombstones, intact>>
setup == <<client, shortKeys>>
vars == <<stages, setup, last>>

Empty == [k \in Keys |-> NoValue]

Stored(stage) == {k \in Keys : stage[k] # NoValue}

\* Two stages seen as one: the front one hides the back one.
Over(front, back) == [k \in Keys |-> IF front[k] # NoValue THEN front[k] ELSE back[k]]

NoCall == [op |-> "none"]
Reply(op, k, answer) == [op |-> op, key |-> k, answer |-> answer]

Init ==
  /\ dynamic = Empty /\ static = Empty
  /\ ic = 0 /\ sic = 0
  /\ \E s \in Setups : client = s[1] /\ shortKeys = s[2]
  /\ tombstones = FALSE /\ intact = TRUE
  /\ last = NoCall

-----------------------------------------------------------------------------
(* Lookups.  A stage whose counter is zero is not searched at all.          *)

DynamicGet(k) == IF ic = 0 THEN NoValue ELSE dynamic[k]

StaticGet(k) == IF sic = 0 THEN NoValue ELSE static[k]

FaultyLookup(k) == IF StaticGet(k) # NoValue THEN StaticGet(k) ELSE DynamicGet(k)

Lookup(k) == IF DynamicGet(k) # NoValue THEN DynamicGet(k) ELSE StaticGet(k)

\* exist() searches the static stage whatever sic says.
Exists(k) == DynamicGet(k) # NoValue \/ static[k] # NoValue

Get(k) ==
  /\ last' = Reply("get", k, Lookup(k))
  /\ UNCHANGED <<stages, setup>>

Exist(k) ==
  /\ last' = Reply("exist", k, Exists(k))
  /\ UNCHANGED <<stages, setup>>

-----------------------------------------------------------------------------
(* Merging the dynamic stage d, counted as c entries, into the static one.  *)

\* When a merge is certain to be defined.  For short keys, buildStatic_quick
\* trusts ic for the number of entries, and the merge of two nodes without
\* suffixes compares equal keys through suffix arrays that neither node has.
\* For long keys there are layers: when add_item_to_node of the primary index
\* skips a tombstone or meets an equal key, so that its node shrinks, it gives
\* the node's new address to a pending task of another node.  That task then
\* writes into the wrong node and leaves its own slot as it was in memory.
\* Whether a merge gets there depends on which keys share slices (StaticTrie
\* has the tries), so here any merge with a tombstone or an equal key may.
MergeDefined(d, c) ==
  /\ Stored(d) \cap Stored(static) = {}
  /\ IF shortKeys THEN c = Cardinality(Stored(d)) ELSE ~tombstones

FaultyUnions(d) == {IF d = Empty THEN static ELSE d}

\* What a merge that keeps out of undefined behaviour makes of the two stages.
\* The dynamic entry wins, except where the static one is an item that is added
\* to a layer of the dynamic stage: then it overwrites the newer entry there.
Unions(d) ==
  {[k \in Keys |-> IF k \in older THEN static[k] ELSE Over(d, static)[k]]
     : older \in SUBSET (IF shortKeys THEN {} ELSE Stored(d) \cap Stored(static))}

FaultyMergeUv(d, c) ==
  /\ static' \in Unions(d)
  /\ dynamic' = Empty /\ ic' = 0
  /\ sic' = sic + ic'
  /\ UNCHANGED <<tombstones, intact>>

\* After undefined behaviour the static stage is anything.
MergeUv(d, c) ==
  /\ sic + c <= CounterLimit
  /\ \/ /\ MergeDefined(d, c) \/ ~shortKeys
        /\ static' \in Unions(d)
        /\ UNCHANGED intact
     \/ /\ ~MergeDefined(d, c)
        /\ static' \in [Keys -> Values \cup {NoValue}]
        /\ intact' = FALSE
  /\ sic' = sic + c
  /\ dynamic' = Empty /\ ic' = 0          \* reset()
  /\ UNCHANGED tombstones

MergeDue(c) == c * MergeRatio >= sic /\ c >= MergeThreshold

\* The public merge().
Merge ==
  /\ MergeUv(dynamic, ic)
  /\ last' = [op |-> "merge"]
  /\ UNCHANGED setup

-----------------------------------------------------------------------------
(* Insertion, upsert, update and removal.                                  *)

\* Only the dynamic stage is searched for the key.
PutUv(k, v) ==
  /\ client \in {"insert", "update"} => ~Exists(k)
  /\ UNCHANGED setup
  /\ \/ /\ dynamic[k] # NoValue
        /\ last' = Reply("put_uv", k, FALSE)
        /\ UNCHANGED stages
     \/ /\ dynamic[k] = NoValue
        /\ last' = Reply("put_uv", k, TRUE)
        /\ IF MergeDue(ic + 1)
           THEN MergeUv([dynamic EXCEPT ![k] = v], ic + 1)
           ELSE /\ ic < CounterLimit
                /\ dynamic' = [dynamic EXCEPT ![k] = v]
                /\ ic' = ic + 1
                /\ UNCHANGED <<static, sic, tombstones, intact>>

\* put(), which counts a new value even when it overwrites an old one and
\* never merges.
DynamicPut(k, v) ==
  /\ ic < CounterLimit
  /\ dynamic' = [dynamic EXCEPT ![k] = v]
  /\ ic' = ic + 1
  /\ UNCHANGED <<static, sic, tombstones, intact>>

Put(k, v) ==
  /\ client \in {"upsert", "any"}
  /\ DynamicPut(k, v)
  /\ last' = Reply("put", k, TRUE)
  /\ UNCHANGED setup

\* static_update_uv overwrites the value in place.
StaticUpdate(k, v) ==
  /\ static' = IF static[k] # NoValue THEN [static EXCEPT ![k] = v] ELSE static
  /\ UNCHANGED <<dynamic, ic, sic, tombstones, intact>>

FaultyUpdateUv(k, v) ==
  /\ client # "insert"
  /\ IF Exists(k) THEN DynamicPut(k, v) ELSE UNCHANGED stages
  /\ last' = Reply("update_uv", k, Exists(k))
  /\ UNCHANGED setup

UpdateUv(k, v) ==
  /\ client # "insert"
  /\ \/ /\ DynamicGet(k) # NoValue
        /\ DynamicPut(k, v)
        /\ last' = Reply("update_uv", k, TRUE)
     \/ /\ DynamicGet(k) = NoValue
        /\ StaticUpdate(k, v)
        /\ last' = Reply("update_uv", k, static[k] # NoValue)
  /\ UNCHANGED setup

FaultyDynamicRemove(k) ==
  /\ dynamic' = [dynamic EXCEPT ![k] = NoValue]
  /\ UNCHANGED <<ic, static, sic, tombstones, intact>>

DynamicRemove(k) ==
  /\ dynamic' = [dynamic EXCEPT ![k] = NoValue]
  /\ ic' = ic - 1
  /\ UNCHANGED <<static, sic, tombstones, intact>>

FaultyStaticRemove(k) ==
  /\ static' = [static EXCEPT ![k] = NoValue]
  /\ sic' = sic - 2
  /\ tombstones' = TRUE
  /\ UNCHANGED <<dynamic, ic, intact>>

StaticRemove(k) ==
  /\ static' = [static EXCEPT ![k] = NoValue]
  /\ sic' = sic - 1
  /\ tombstones' = TRUE
  /\ UNCHANGED <<dynamic, ic, intact>>

\* A key found in the dynamic stage is removed there only.
Remove(k) ==
  /\ client # "upsert"
  /\ \/ /\ DynamicGet(k) # NoValue
        /\ DynamicRemove(k)
        /\ last' = Reply("remove", k, TRUE)
     \/ /\ DynamicGet(k) = NoValue
        /\ StaticGet(k) # NoValue
        /\ StaticRemove(k)
        /\ last' = Reply("remove", k, TRUE)
     \/ /\ Lookup(k) = NoValue
        /\ last' = Reply("remove", k, FALSE)
        /\ UNCHANGED stages
  /\ UNCHANGED setup

\* What the index does after undefined behaviour is not followed.
Undefined == ~intact /\ UNCHANGED vars

Call ==
  \/ \E k \in Keys, v \in Values : PutUv(k, v) \/ Put(k, v) \/ UpdateUv(k, v)
  \/ \E k \in Keys : Remove(k) \/ Get(k) \/ Exist(k)
  \/ Merge

Next == (intact /\ Call) \/ Undefined

Spec == Init /\ [][Next]_vars

-----------------------------------------------------------------------------
(* Properties.                                                             *)

\* The map a client sees, computed without the shortcuts on ic and sic.
View == Over(dynamic, static)

\* The type of every variable; `last' only ever holds an operation's reply.
TypeOK ==
  /\ dynamic \in [Keys -> Values \cup {NoValue}]
  /\ static \in [Keys -> Values \cup {NoValue}]
  /\ ic \in 0..CounterLimit /\ sic \in 0..CounterLimit
  /\ client \in Clients
  /\ shortKeys \in BOOLEAN /\ tombstones \in BOOLEAN /\ intact \in BOOLEAN

\* As long as no merge was undefined, the counters never fall below what their
\* stage holds, although upserts, updates and merges of equal keys make both of
\* them drift upwards.  So the tests ic == 0 and sic == 0 of get, remove and
\* exist never skip a stage that holds the key: get() and exist() agree and see
\* every entry.
CountersCoverStages ==
  intact =>
    /\ ic >= Cardinality(Stored(dynamic))
    /\ sic >= Cardinality(Stored(static))
    /\ \A k \in Keys : Lookup(k) = View[k] /\ (Exists(k) <=> View[k] # NoValue)

\* A merge, asked for or triggered by an insertion, changes no key that the
\* call was not about, for every client, as long as the merge executes no
\* undefined behaviour; but a long key that was in both stages may get its older
\* value back.
MergeKeepsView ==
  [][\A k \in Keys :
       /\ ic' = 0
       /\ intact'
       /\ last' = [op |-> "merge"] \/ (last'.op = "put_uv" /\ last'.key # k)
       => \/ View'[k] = View[k]
          \/ /\ ~shortKeys /\ k \in Stored(dynamic) \cap Stored(static)
             /\ View'[k] = static[k]]_vars

\* A client that checks before it inserts never has a key in both stages, so
\* that no removal can uncover an older value of the key.
StagesDisjoint ==
  client \in {"insert", "update"} => Stored(dynamic) \cap Stored(static) = {}

\* The uses that never drive merge_uv() into undefined behaviour: with short
\* keys that of a client that never overwrites, because put() and update_uv()
\* make ic exceed the entries buildStatic_quick will find; with long keys that
\* of a client that checks before it inserts, as long as it has removed nothing
\* from the static stage.  Removals there are not safe with long keys.
MergesStayDefined ==
  /\ setup = <<"insert", TRUE>> => intact
  /\ client \in {"insert", "update"} /\ ~shortKeys /\ ~tombstones => intact

\* Until a merge is undefined, the two stages behave as one map: every reply of
\* every call is the one IndexMap gives.  Excepted are clients that have a key
\* in both stages and remove it, or whose long keys may get an older value back.
MapSetups == ({"insert", "update"} \X BOOLEAN) \cup {<<"upsert", TRUE>>}

Map == INSTANCE IndexMap WITH map <- View

MapSpec == Map!Init /\ [][intact' /\ setup \in MapSetups => Map!Next]_<<View, last>>
=============================================================================
