----------------------------- MODULE PackedTrie -----------------------------
(***************************************************************************)
(* The static stage of a secondary index of type 0: class                   *)
(* massnode_multivalue (masstree_struct.hh) and its build, merge, search    *)
(* and removal (masstree_get.hh).  A node has its entries in order and, in  *)
(* one area, the values of all its lists; an entry that is no layer holds   *)
(* where its list begins and how long it is.  The merge reads the areas     *)
(* from front to back, without regard to the positions in the entries.     *)
(***************************************************************************)
EXTENDS TrieEntries

\* A node, and the tasks that its own merge has pushed.
NewNode == [entries |-> <<>>, values |-> <<>>, tasks |-> <<>>]

\* static_multivalue_header
Header(at, len) == [at |-> at, len |-> len]

\* The number of values that an entry has in the area; a tombstone keeps its.
Held(e) == IF e.kind = "layer" THEN 0 ELSE e.lv.len

Entries(t) == [p \in DOMAIN t |-> t[p].entries]

\* find(), then value_ptr() and value_len(): the list of a key, <<>> for none.
ListOf(t, key) ==
  LET s == Search(Entries(t), <<>>, key)
      h == t[s.node].entries[s.at].lv
  IN IF s.at = 0 THEN <<>> ELSE SubSeq(t[s.node].values, h.at + 1, h.at + h.len)

\* remove(): the entry becomes a tombstone and nothing moves.
Invalidated(t, key) ==
  LET s == Search(Entries(t), <<>>, key)
  IN [t EXCEPT ![s.node].entries[s.at] = Entry(@.slice, "gone", <<>>, @.lv)]

\* static_replace0: the first old in the list of the key becomes v, in place.
Overwritten(t, key, old, v) ==
  LET s == Search(Entries(t), <<>>, key)
      at == t[s.node].entries[s.at].lv.at + SelectInSeq(ListOf(t, key), LAMBDA x : x = old)
  IN [t EXCEPT ![s.node].values[at] = v]

-----------------------------------------------------------------------------
(* Writing a node: an entry goes behind those that are there, its list      *)
(* behind the values that are there.                                       *)

Placed(w, e, list) ==
  [w EXCEPT !.entries = Append(@, [e EXCEPT !.lv = Header(Len(w.values), Len(list))]),
            !.values = @ \o list]

PlacedLayer(w, e) == [w EXCEPT !.entries = Append(@, e)]

\* buildStaticMultivalue makes a node of every layer of the dynamic stage; row
\* gives the list of a key.
BuiltNode(entries, row) ==
  FoldLeft(LAMBDA w, e : IF e.kind = "layer" THEN PlacedLayer(w, e) ELSE Placed(w, e, row[e.lv]),
           NewNode, entries)

Built(layers, row) == [p \in DOMAIN layers |-> BuiltNode(layers[p], row)]

-----------------------------------------------------------------------------
(* Reading a node: m and n are what is left of the entries and of the area. *)

FirstList(n) == SubSeq(n.values, 1, Held(n.entries[1]))

FaultyRest(n) ==
  [n EXCEPT !.entries = Tail(@),
            !.values = IF IsValid(n.entries[1])
                       THEN SubSeq(@, Held(n.entries[1]) + 1, Len(@)) ELSE @]

Rest(n) ==
  [n EXCEPT !.entries = Tail(@),
            !.values = SubSeq(@, Held(n.entries[1]) + 1, Len(@))]

\* The entry in front as an item of a task, which has a copy of the list.
Item(n) ==
  IF n.entries[1].kind = "layer" THEN n.entries[1]
  ELSE [n.entries[1] EXCEPT !.lv = FirstList(n)]

Moved(w, n) ==
  IF n.entries[1].kind = "layer" THEN PlacedLayer(w, n.entries[1])
  ELSE Placed(w, n.entries[1], FirstList(n))

IsSameKey(a, b) == a.kind # "layer" /\ b.kind # "layer" /\ a.suffix = b.suffix

\* Entries of the same slice and length: one list of both, newer values first,
\* or a slot that waits for the node of a task.
JoinedAt(node, w, m, n) ==
  IF IsSameKey(m.entries[1], n.entries[1])
  THEN Placed(w, n.entries[1], FirstList(m) \o FirstList(n))
  ELSE [PlacedLayer(w, Joined(m.entries[1], n.entries[1])) EXCEPT
          !.tasks = Append(@, TaskFor(node, Len(w.entries) + 1, Item(m), Item(n)))]

RECURSIVE Weave(_, _, _, _)
\* The loops of merge_nodes: m and n into w.  Tombstones of n are skipped, with
\* the values they still hold, as long as m has entries.
Weave(node, w, m, n) ==
  IF m.entries = <<>> /\ n.entries = <<>> THEN w
  ELSE IF m.entries = <<>> THEN Weave(node, Moved(w, n), m, Rest(n))
  ELSE IF n.entries = <<>> THEN Weave(node, Moved(w, m), Rest(m), n)
  ELSE LET a == m.entries[1]
           b == n.entries[1]
       IN IF ~IsValid(b) THEN Weave(node, w, m, Rest(n))
          ELSE IF Lower(a, b) THEN Weave(node, Moved(w, m), Rest(m), n)
          ELSE IF Lower(b, a) THEN Weave(node, Moved(w, n), m, Rest(n))
          ELSE Weave(node, JoinedAt(node, w, m, n), Rest(m), Rest(n))

\* merge_nodes: both stages have a layer here.
MergedNode(t, m, n) == Weave(t.node, NewNode, m, n)

\* add_item_to_node: the item is woven in like a node of one entry.
GrownNode(t, n) == Weave(t.node, NewNode, Placed(NewNode, t.item, t.item.lv), n)

\* create_node: the two items in order, or a slot that waits for a further node.
CreatedNode(t) ==
  LET m == t.item
      n == t.other
  IN IF m.slice = n.slice /\ m.kind = n.kind
     THEN [PlacedLayer(NewNode, Joined(m, n)) EXCEPT !.tasks = <<TaskFor(t.node, 1, m, n)>>]
     ELSE IF Lower(m, n) THEN Placed(Placed(NewNode, m, m.lv), n, n.lv)
     ELSE Placed(Placed(NewNode, n, n.lv), m, m.lv)

\* set_lv of the parent, once the array has its final address.
Linked(t, task, w) ==
  LET u == (task.node :> [w EXCEPT !.tasks = <<>>]) @@ t
  IN IF task.parent = NoParent THEN u
     ELSE [u EXCEPT ![task.parent].entries[task.pos].lv = task.node]

RECURSIVE Performed(_, _, _)
\* merge(): the tasks in the order in which they were pushed.
Performed(t, built, tasks) ==
  IF tasks = <<>> THEN t
  ELSE LET task == tasks[1]
           w == CASE task.kind = "merge" -> MergedNode(task, built[task.node], t[task.node])
                  [] task.kind = "add" -> GrownNode(task, t[task.node])
                  [] task.kind = "create" -> CreatedNode(task)
       IN Performed(Linked(t, task, w), built, Tail(tasks) \o w.tasks)

\* run_merge_multivalue; with an empty static stage the new nodes become its nodes.
PackedMerge(t, built) ==
  IF t = NoTrie THEN built
  ELSE Performed(t @@ built, built, <<Task("merge", NoParent, 1, <<>>, NoItem, NoItem)>>)

=============================================================================
