---------------------------- MODULE PackedMulti ----------------------------
(***************************************************************************)
(* The secondary index of type 0 with the nodes of its two stages: each     *)
(* call of HybridMulti together with what it does to the layers of the      *)
(* dynamic stage and to the packed nodes of the static stage.  An index of  *)
(* type 1 goes through here unchanged.                                     *)
(***************************************************************************)
EXTENDS HybridMulti, PackedTrie

\* No key is a prefix of another: key_compare of packed nodes forgets to return
\* the result of compare_len (masstree_key.hh:262), so an entry that ends with a
\* slice and one that goes on from it are not told apart.
ASSUME KeysAssumption ==
  /\ Keys \subseteq Seq(Nat) \ {<<>>}
  /\ \A a, b \in Keys : IsPrefix(a, b) => a = b

VARIABLES
  layers,  \* the layers of the dynamic stage; a slot has its key for its row
  packed   \* the packed nodes of the static stage

nodes == <<layers, packed>>

PackedInit == Init /\ layers = EmptyTrie /\ packed = NoTrie

\* The static stage has the key itself where the dynamic one has a layer.
IsBelow(k, grown) ==
  LET s == Search(Entries(packed), <<>>, k)
      slice == Entries(packed)[s.node][s.at].slice
  IN /\ s.at # 0 /\ s.node \in DOMAIN grown
     /\ \E i \in DOMAIN grown[s.node] :
          grown[s.node][i].slice = slice /\ grown[s.node][i].kind = "layer"

\* merge_nuv, with reset(): row gives the lists of the dynamic stage, old those
\* of the static stage, t.
Merging(grown, row, old, t) ==
  /\ static' = [k \in Keys |-> IF IsBelow(k, grown) THEN old[k] \o row[k] ELSE row[k] \o old[k]]
  /\ packed' = PackedMerge(t, Built(grown, row))
  /\ layers' = EmptyTrie

\* put_nuv0 of a list of values: a new key gets a slot.
Packing(k, list, s, old, t) ==
  LET grown == IF dynamic[k] = <<>> THEN Inserted(layers, <<>>, ItemOf(k, k)) ELSE layers
      row == [dynamic EXCEPT ![k] = list \o @]
  IN IF MergeDue(ic + Len(list), s)
     THEN Merging(grown, row, old, t)
     ELSE packed' = t /\ layers' = grown

PackedPut(k, v) ==
  /\ PutNuv(k, v)
  /\ IF indexType = 0 THEN Packing(k, <<v>>, sic, static, packed) ELSE UNCHANGED nodes

\* The list of the dynamic stage is replaced, or its slot goes with its last
\* value; of the static stage static_remove_nuv0 makes a tombstone, and puts
\* back the other values.
RemoveFrom(k, v) ==
  LET rest == RemoveFirst(static[k], v)
  IN IF Contains(DynamicGet(k), v)
     THEN /\ layers' = IF dynamic[k] = <<v>> THEN Deleted(layers, k) ELSE layers
          /\ UNCHANGED packed
     ELSE IF ~Contains(StaticGet(k), v) THEN UNCHANGED nodes
     ELSE IF rest = <<>> THEN packed' = Invalidated(packed, k) /\ UNCHANGED layers
     ELSE Packing(k, rest, sic - 1, [static EXCEPT ![k] = <<>>], Invalidated(packed, k))

PackedRemoveNuv(k, v) ==
  /\ RemoveNuv(k, v)
  /\ IF indexType = 0 THEN RemoveFrom(k, v) ELSE UNCHANGED nodes

\* find_insert of a key that is not there, without finish(): the slot stays
\* invisible, but a layer that was made for it remains.
Probed(k) ==
  IF dynamic[k] = <<>> THEN Deleted(Inserted(layers, <<>>, ItemOf(k, k)), k) ELSE layers

PackedReplace(k, v, old) ==
  /\ Replace(k, v, old)
  /\ IF indexType = 1 THEN UNCHANGED nodes
     ELSE /\ layers' = IF ic = 0 THEN layers ELSE Probed(k)
          /\ packed' = IF ~Contains(DynamicGet(k), old) /\ Contains(StaticGet(k), old)
                       THEN Overwritten(packed, k, old, v) ELSE packed

PackedReplaceNewest(k, v) ==
  /\ ReplaceNewest(k, v)
  /\ layers' = IF indexType = 1 THEN layers ELSE Probed(k)
  /\ UNCHANGED packed

PackedMergeCall ==
  /\ Merge
  /\ IF indexType = 1 THEN UNCHANGED nodes
     ELSE Merging(layers, dynamic, static, packed)

PackedNext ==
  \/ \E k \in Keys : \E v \in used[k] :
       PackedPut(k, v) \/ PackedRemoveNuv(k, v) \/ PackedReplaceNewest(k, v)
  \/ \E k \in Keys : \E v, old \in used[k] : PackedReplace(k, v, old)
  \/ \E k \in Keys : (GetNuv(k) \/ ExistNuv(k)) /\ UNCHANGED nodes
  \/ PackedMergeCall

PackedSpec == PackedInit /\ [][PackedNext]_<<vars, nodes>>

-----------------------------------------------------------------------------
(* Properties.                                                             *)

(* Whatever was put, removed, replaced and merged before, a search of the   *)
(* packed nodes finds for every key its list, all its values and in order,  *)
(* and a search of the layers the keys with a list in the dynamic stage.    *)
(* In every node the entries are in order, as the binary search needs, and  *)
(* their lists, those of tombstones too, lie one behind the other and fill  *)
(* the area, as the next merge needs, which reads it without their          *)
(* positions (merge_nodes, add_item_to_node, create_node).                  *)
PackedHoldsLists ==
  indexType = 0 =>
    /\ \A k \in Keys : /\ ListOf(packed, k) = static[k]
                       /\ Found(layers, k) <=> dynamic[k] # <<>>
    /\ \A p \in DOMAIN packed :
         LET es == packed[p].entries
             lists == SelectSeq(es, LAMBDA e : e.kind # "layer")
             ends == [i \in DOMAIN lists |-> lists[i].lv.at + lists[i].lv.len]
         IN /\ \A i \in 1..(Len(es) - 1) : es[i].slice < es[i + 1].slice
            /\ \A i \in DOMAIN lists : lists[i].lv.at = IF i = 1 THEN 0 ELSE ends[i - 1]
            /\ Len(packed[p].values) = IF lists = <<>> THEN 0 ELSE ends[Len(lists)]

=============================================================================
