--------------------------- MODULE IndexMultiMap ---------------------------
(***************************************************************************)
(* What a secondary index of mtIndexAPI.hh promises to a client: under each *)
(* key a list of values, the newest first.  The two stages, the counters    *)
(* and the merges of the hybrid index do not appear.                        *)
(***************************************************************************)
EXTENDS SequencesExt

CONSTANTS Keys, Values

VARIABLES lists,  \* the values under each key, <<>> for an absent key
          last    \* the last call and its reply

NoCall == [op |-> "none"]

Reply(op, k, answer) == [op |-> op, key |-> k, answer |-> answer]

Holds(k, v) == Contains(lists[k], v)

\* The list s with its first x replaced by v.
Substituted(s, x, v) == ReplaceAt(s, SelectInSeq(s, LAMBDA y : y = x), v)

Init == lists = [k \in Keys |-> <<>>] /\ last = NoCall

Put(k, v) == /\ lists' = [lists EXCEPT ![k] = Cons(v, @)]
             /\ last' = [op |-> "put_nuv", key |-> k]

RemoveValue(k, v) ==
  /\ lists' = [lists EXCEPT ![k] = RemoveFirst(@, v)]
  /\ last' = Reply("remove_nuv", k, Holds(k, v))

Replace(k, v, old) ==
  /\ lists' = IF Holds(k, old) THEN [lists EXCEPT ![k] = Substituted(@, old, v)] ELSE lists
  /\ last' = Reply("replace", k, Holds(k, old))

\* Overwrites the newest value of the key.
ReplaceNewest(k, v) ==
  /\ lists' = IF lists[k] # <<>> THEN [lists EXCEPT ![k][1] = v] ELSE lists
  /\ last' = Reply("replace_first", k, lists[k] # <<>>)

Get(k) == last' = Reply("get_nuv", k, lists[k]) /\ UNCHANGED lists

Exist(k) == last' = Reply("exist_nuv", k, lists[k] # <<>>) /\ UNCHANGED lists

\* Maintenance is invisible.
Merge == last' = [op |-> "merge"] /\ UNCHANGED lists

Next == \/ \E k \in Keys, v \in Values :
              Put(k, v) \/ RemoveValue(k, v) \/ ReplaceNewest(k, v)
        \/ \E k \in Keys, v, old \in Values : Replace(k, v, old)
        \/ \E k \in Keys : Get(k) \/ Exist(k)
        \/ Merge

Spec == Init /\ [][Next]_<<lists, last>>
=============================================================================
