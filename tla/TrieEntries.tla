----------------------------- MODULE TrieEntries -----------------------------
(***************************************************************************)
(* What the tries of the two stages are made of, and what the merges of the *)
(* primary and of the secondary index have in common.                      *)
(*                                                                         *)
(* A key is a sequence of slices of eight bytes.  A trie is a function from *)
(* the address of a node, the slices that led to it when it was made, to    *)
(* its entries in order.                                                   *)
(*                                                                         *)
(* A definition named Faulty... is a plausible slip of the definition after *)
(* it; it is used only to confirm that a property notices the slip.         *)
(***************************************************************************)
EXTENDS Integers, SequencesExt

-----------------------------------------------------------------------------
(* Entries.  A slice ends its key, or has the rest of one longer key behind *)
(* it as a suffix, or leads to a layer; or its key was removed (keylenx 0). *)

Entry(slice, kind, suffix, lv) ==
  [slice |-> slice, kind |-> kind, suffix |-> suffix, lv |-> lv]

\* The slot of a layer whose node is not known yet ("lv TBD").
Unset == <<>>

ItemOf(rest, row) ==
  Entry(Head(rest), IF Len(rest) = 1 THEN "end" ELSE "suffix", Tail(rest), row)

\* The item one layer down: make_comparable_sloppy, convert_to_ikeylen.
Deeper(item) == ItemOf(item.suffix, item.lv)

LayerEntry(slice, node) == Entry(slice, "layer", <<>>, node)

IsLong(e) == e.kind \in {"suffix", "layer"}

Lower(a, b) == a.slice < b.slice \/ (a.slice = b.slice /\ ~IsLong(a) /\ IsLong(b))

\* compare_len: a tombstone is of no length, so the search finds none.  The
\* compare of the secondary index forgets to return that result
\* (masstree_key.hh:271); its find() refuses the tombstone it may then meet.
Matches(e, rest) ==
  e.slice = Head(rest) /\ e.kind # "gone" /\ (IsLong(e) <=> Len(rest) > 1)

Position(n, rest) ==
  LET at == {i \in DOMAIN n : Matches(n[i], rest)}
  IN IF at = {} THEN 0 ELSE CHOOSE i \in at : TRUE

IsValid(e) == e.kind # "gone"

\* Where a search for a key ends: the entry's node and position, 0 when there is none.
Nowhere == [node |-> <<>>, at |-> 0]

RECURSIVE Search(_, _, _)
Search(t, node, rest) ==
  IF node \notin DOMAIN t \/ rest = <<>> THEN Nowhere
  ELSE LET at == Position(t[node], rest)
       IN IF at = 0 THEN Nowhere
          ELSE IF t[node][at].kind = "layer" THEN Search(t, t[node][at].lv, Tail(rest))
          ELSE IF t[node][at].suffix = Tail(rest) THEN [node |-> node, at |-> at]
          ELSE Nowhere

Found(t, key) == Search(t, <<>>, key).at # 0

RowOf(t, key) ==
  LET s == Search(t, <<>>, key) IN IF s.at = 0 THEN <<>> ELSE t[s.node][s.at].lv

EmptyTrie == [p \in {<<>>} |-> <<>>]
NoTrie == [p \in {} |-> <<>>]

-----------------------------------------------------------------------------
(* The dynamic stage.  A key whose slice another longer key already has     *)
(* moves with it to a new layer, below as many layers of one entry as they  *)
(* have slices in common.  Removal takes an entry out and leaves the layers.*)

Sorted(items) == SetToSortSeq(items, Lower)

Pair(a, b) == Sorted({a, b})

RECURSIVE Twig(_, _, _)
\* The layers from node on that tell two longer keys apart (check_leaf_new_layer).
Twig(node, a, b) ==
  IF a.slice = b.slice /\ IsLong(a) /\ IsLong(b)
  THEN (node :> <<LayerEntry(a.slice, Append(node, a.slice))>>)
         @@ Twig(Append(node, a.slice), Deeper(a), Deeper(b))
  ELSE node :> Pair(a, b)

RECURSIVE Inserted(_, _, _)
Inserted(t, node, item) ==
  LET n == t[node]
      at == {i \in DOMAIN n : n[i].slice = item.slice /\ IsLong(n[i]) = IsLong(item)}
      below == Append(node, item.slice)
  IN IF at = {} THEN [t EXCEPT ![node] = Sorted(Range(n) \cup {item})]
     ELSE LET i == CHOOSE i \in at : TRUE IN
       IF n[i].kind = "layer" THEN Inserted(t, below, Deeper(item))
       ELSE Twig(below, Deeper(n[i]), Deeper(item))
              @@ [t EXCEPT ![node][i] = LayerEntry(item.slice, below)]

Deleted(t, key) ==
  LET s == Search(t, <<>>, key) IN [t EXCEPT ![s.node] = RemoveAt(@, s.at)]

-----------------------------------------------------------------------------
(* A task of the merge has the position of the slot that waits for its node:*)
(*   merge   the layers that both stages have at a slice (task 0)           *)
(*   add     an item to the layer that the other stage has (task 1)         *)
(*   create  a layer for an item of each stage (task 2)                     *)

Task(kind, parent, pos, node, item, other) ==
  [kind |-> kind, parent |-> parent, pos |-> pos, node |-> node,
   item |-> item, other |-> other]

NoItem == Entry(0, "gone", <<>>, <<>>)
NoParent == <<0>>

\* What becomes of two entries of the same slice and length.
Joined(m, n) == LayerEntry(n.slice, Unset)

FaultyTaskFor(node, pos, m, n) ==
  LET below == Append(node, m.slice)
  IN IF m.kind = "layer" /\ n.kind = "layer"
     THEN Task("merge", node, pos, below, NoItem, NoItem)
     ELSE IF n.kind = "layer" THEN Task("add", node, pos, below, Deeper(m), NoItem)
     ELSE IF m.kind = "layer" THEN Task("add", node, pos, below, Deeper(n), NoItem)
     ELSE Task("create", node, pos, below, Deeper(m), Deeper([n EXCEPT !.lv = m.lv]))

\* The task for the slot at pos, whose slice is in both m and n.
TaskFor(node, pos, m, n) ==
  LET below == Append(node, m.slice)
  IN IF m.kind = "layer" /\ n.kind = "layer"
     THEN Task("merge", node, pos, below, NoItem, NoItem)
     ELSE IF n.kind = "layer" THEN Task("add", node, pos, below, Deeper(m), NoItem)
     ELSE IF m.kind = "layer" THEN Task("add", node, pos, below, Deeper(n), NoItem)
     ELSE Task("create", node, pos, below, Deeper(m), Deeper(n))

=============================================================================
