----------------------------- MODULE StaticTrie -----------------------------
(***************************************************************************)
(* The two tries of the hybrid index and the merge of one into the other.   *)
(* The layers of the dynamic stage come from Masstree (masstree_insert.hh); *)
(* buildStatic makes an array of each, and class stcursor_merge             *)
(* (masstree_get.hh) merges these arrays into those of the static stage.    *)
(*                                                                         *)
(* A key is a sequence of slices of eight bytes; the row of a key is the    *)
(* key itself, so a slot with a wrong row is seen.  A trie is a function    *)
(* from the address of a node, the slices that led to it when it was made,  *)
(* to its entries in order.  The merge is one call; its tasks are actions,  *)
(* and no other action comes between them.                                  *)
(*                                                                         *)
(* A definition named Faulty... is a plausible slip of the definition after *)
(* it; it is used only to confirm that a property notices the slip.         *)
(***************************************************************************)
EXTENDS TrieEntries

CONSTANTS
  Keys,            \* the keys the caller uses, sequences of slices
  MergeThreshold,  \* MERGE_THRESHOLD
  MergeRatio,      \* MERGE_RATIO
  Setups           \* for the values of secondary that are explored, the keys in use

\* No key is a prefix of another: a search may pass an entry by when a
\* tombstone of the same slice is next to it (masstree_get.hh:998).
ASSUME KeysAssumption ==
  /\ Keys \subseteq Seq(Nat) \ {<<>>}
  /\ \A a, b \in Keys : IsPrefix(a, b) => a = b
ASSUME MergeAssumption == MergeThreshold \in Nat /\ MergeRatio \in Nat
ASSUME SetupsAssumption ==
  DOMAIN Setups \subseteq BOOLEAN /\ \A i \in DOMAIN Setups : Setups[i] \subseteq Keys

VARIABLES
  secondary, \* multivalue_: the nodes are massnode_dynamicvalue, not massnode
  dynamic,   \* the keys of the dynamic stage
  static,    \* the live keys of the static stage
  layers,    \* the trie of the dynamic stage
  trie,      \* the trie of the static stage
  tasks,     \* task_, from cur_pos on
  strayed    \* a task was given the wrong parent node

tries == <<layers, trie, tasks, strayed>>
stages == <<secondary, dynamic, static, tries>>

Invalidated(t, key) ==
  LET s == Search(t, <<>>, key)
  IN [t EXCEPT ![s.node][s.at] = Entry(@.slice, "gone", <<>>, <<>>)]

-----------------------------------------------------------------------------
(* The merge, task by task.                                               *)

RECURSIVE Woven(_, _)
\* Two arrays as one.  Tombstones of n are dropped as long as m has entries.
Woven(m, n) ==
  IF m = <<>> THEN n
  ELSE IF n = <<>> THEN m
  ELSE IF ~IsValid(n[1]) THEN Woven(m, Tail(n))
  ELSE IF Lower(m[1], n[1]) THEN <<m[1]>> \o Woven(Tail(m), n)
  ELSE IF Lower(n[1], m[1]) THEN <<n[1]>> \o Woven(m, Tail(n))
  ELSE <<Joined(m[1], n[1])>> \o Woven(Tail(m), Tail(n))

\* All of m comes after all of n: the arrays are put one behind the other.
Disjoint(m, n) == m # <<>> /\ n # <<>> /\ Last(n).slice < m[1].slice

Merged(m, n) == IF Disjoint(m, n) THEN n \o m ELSE Woven(m, n)

EntryAt(n, slice) == n[CHOOSE i \in DOMAIN n : n[i].slice = slice /\ IsLong(n[i])]

\* The tasks for the slots of the new array that are not set, in their order.
NewTasks(node, new, m, n) ==
  LET unset == {p \in DOMAIN new : new[p].kind = "layer" /\ new[p].lv = Unset}
      inOrder == SetToSortSeq(unset, <)
  IN [i \in DOMAIN inOrder |->
        TaskFor(node, inOrder[i], EntryAt(m, new[inOrder[i]].slice),
                                  EntryAt(n, new[inOrder[i]].slice))]

\* The array new of a node is stored, and its address in the slot of the
\* parent; past the end of the parent's values the write hits other data.
Stored(t, task, new) ==
  LET u == (task.node :> new) @@ t
  IN IF task.parent \in DOMAIN u /\ task.pos \in DOMAIN u[task.parent]
     THEN [u EXCEPT ![task.parent][task.pos].lv = task.node]
     ELSE u

MergeNodes ==
  LET t == Head(tasks)
      new == Merged(layers[t.node], trie[t.node])
  IN /\ tasks # <<>> /\ t.kind = "merge"
     /\ trie' = Stored(trie, t, new)
     /\ tasks' = Tail(tasks) \o NewTasks(t.node, new, layers[t.node], trie[t.node])
     /\ UNCHANGED strayed

\* When the array shrank its new address goes to the task that was pushed
\* last, in the primary index whether or not this node has pushed one.
AddItemToNode ==
  LET t == Head(tasks)
      new == Woven(<<t.item>>, trie[t.node])
      pushed == NewTasks(t.node, new, <<t.item>>, trie[t.node])
      pending == Tail(tasks) \o pushed
      shrank == Len(new) < Len(trie[t.node]) + 1
      corrects == shrank /\ pending # <<>> /\ (secondary => pushed # <<>>)
  IN /\ tasks # <<>> /\ t.kind = "add"
     /\ trie' = Stored(trie, t, new)
     /\ tasks' = IF corrects THEN [pending EXCEPT ![Len(pending)].parent = t.node]
                 ELSE pending
     /\ strayed' = (strayed \/ (corrects /\ pushed = <<>>))

CreateNode ==
  LET t == Head(tasks)
      same == t.item.slice = t.other.slice /\ t.item.kind = t.other.kind
      new == IF same THEN <<Joined(t.item, t.other)>> ELSE Pair(t.item, t.other)
  IN /\ tasks # <<>> /\ t.kind = "create"
     /\ trie' = Stored(trie, t, new)
     /\ tasks' = Tail(tasks) \o NewTasks(t.node, new, <<t.item>>, <<t.other>>)
     /\ UNCHANGED strayed

\* merge_uv, merge_nuv: buildStatic makes an array of every layer, an empty
\* one too; these nodes lie beside those of the static stage.
StartMerge(keys, built) ==
  IF trie = NoTrie                           \* merge_nodes finds no node n
  THEN /\ trie' = built /\ layers' = EmptyTrie
       /\ static' = keys /\ dynamic' = {}
       /\ UNCHANGED <<secondary, tasks, strayed>>
  ELSE /\ trie' = trie @@ built /\ layers' = built
       /\ dynamic' = keys
       /\ tasks' = <<Task("merge", NoParent, 1, <<>>, NoItem, NoItem)>>
       /\ UNCHANGED <<secondary, static, strayed>>

\* One task, and reset() after the last.
DoTask ==
  /\ MergeNodes \/ AddItemToNode \/ CreateNode
  /\ IF tasks' = <<>>
     THEN static' = static \cup dynamic /\ dynamic' = {} /\ layers' = EmptyTrie
     ELSE UNCHANGED <<static, dynamic, layers>>
  /\ UNCHANGED secondary

-----------------------------------------------------------------------------
(* The calls.  The caller puts a key only while it is absent, so ic and sic *)
(* are the sizes of the stages (theorem of HybridIndexProofs).  A trie with *)
(* a slot that was never set is not used any more: what such a use reads is *)
(* left over in the memory of the slot.                                     *)

Idle == tasks = <<>> /\ ~strayed

InitStages ==
  /\ secondary \in DOMAIN Setups
  /\ dynamic = {} /\ static = {}
  /\ layers = EmptyTrie /\ trie = NoTrie /\ tasks = <<>> /\ strayed = FALSE

MergeDue(keys) ==
  /\ Cardinality(keys) >= MergeThreshold
  /\ Cardinality(keys) * MergeRatio >= Cardinality(static)

\* put_uv and put_nuv of an absent key
Put(k) ==
  LET added == dynamic \cup {k}
      grown == Inserted(layers, <<>>, ItemOf(k, k))
  IN /\ Idle /\ k \in Setups[secondary] \ (dynamic \cup static)
     /\ IF MergeDue(added) THEN StartMerge(added, grown)
        ELSE /\ dynamic' = added /\ layers' = grown
             /\ UNCHANGED <<secondary, static, trie, tasks, strayed>>

\* remove of a key that is stored
RemoveDynamic(k) ==
  /\ Idle /\ k \in dynamic
  /\ dynamic' = dynamic \ {k} /\ layers' = Deleted(layers, k)
  /\ UNCHANGED <<secondary, static, trie, tasks, strayed>>

RemoveStatic(k) ==
  /\ Idle /\ k \in static
  /\ static' = static \ {k} /\ trie' = Invalidated(trie, k)
  /\ UNCHANGED <<secondary, dynamic, layers, tasks, strayed>>

\* the public merge()
Merge == Idle /\ StartMerge(dynamic, layers)

-----------------------------------------------------------------------------
StagesTypeOK ==
  /\ dynamic \subseteq Keys /\ static \subseteq Keys /\ dynamic \cap static = {}
  /\ <<>> \in DOMAIN layers
  /\ \A t \in {layers, trie} : \A p \in DOMAIN t : \A i \in DOMAIN t[p] :
       /\ t[p][i].kind \in {"end", "suffix", "layer", "gone"}
       /\ t[p][i].kind = "suffix" <=> t[p][i].suffix # <<>>
  /\ \A i \in DOMAIN tasks : tasks[i].kind \in {"merge", "add", "create"}

(* Whatever was put, removed and merged before, and in whatever order: each *)
(* slot without a node is awaited by exactly one pending task of the merge, *)
(* and after the last task a search finds every live key of the static      *)
(* stage, in the slot with its row, and no other key; the arrays are in     *)
(* order, as the binary search needs (merge_nodes, add_item_to_node,        *)
(* create_node).  Except after a task was given the wrong parent, which the *)
(* secondary index never does.                                              *)
MergedRowsAreFound ==
  /\ secondary => ~strayed
  /\ ~strayed =>
       /\ \A p \in DOMAIN trie : \A i \in DOMAIN trie[p] :
            (trie[p][i].kind = "layer" /\ trie[p][i].lv = Unset) =>
               Cardinality({j \in DOMAIN tasks :
                  tasks[j].parent = p /\ tasks[j].pos = i}) = 1
       /\ \A p \in DOMAIN trie : \A i \in 1..(Len(trie[p]) - 1) :
            trie[p][i].slice < trie[p][i + 1].slice
       /\ tasks = <<>> => \A k \in Keys :
            /\ RowOf(trie, k) = (IF k \in static THEN k ELSE <<>>)
            /\ RowOf(layers, k) = (IF k \in dynamic THEN k ELSE <<>>)

(* "resize may change the address, update the parent nodes addr in task_"   *)
(* (masstree_get.hh:3422): after that line each pending task still has the  *)
(* node whose slot awaits it as its parent, so that after the merge every   *)
(* live key is found.                                                       *)
RowsAreFound == tasks = <<>> => \A k \in static : RowOf(trie, k) = k

=============================================================================
