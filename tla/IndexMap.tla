------------------------------ MODULE IndexMap ------------------------------
(***************************************************************************)
(* What a unique-key index of mtIndexAPI.hh promises to a client: one map   *)
(* from keys to values.  The two stages, the counters and the merges of the *)
(* hybrid index do not appear; the reply of the last call does.            *)
(***************************************************************************)
CONSTANTS Keys, Values, NoValue

VARIABLES map,   \* what a lookup of each key finds, NoValue when it fails
          last   \* the last call and its reply

NoCall == [op |-> "none"]

\* The record of a call and of what it answered.
Reply(op, k, answer) == [op |-> op, key |-> k, answer |-> answer]

Present(k) == map[k] # NoValue

Init == map = [k \in Keys |-> NoValue] /\ last = NoCall

\* Inserting an absent key always succeeds.  Inserting a present one may be
\* refused; the index only looks at its newest stage, so it may also succeed,
\* and then the new value replaces the old one.
Insert(k, v) ==
  \/ /\ map' = [map EXCEPT ![k] = v]
     /\ last' = Reply("put_uv", k, TRUE)
  \/ /\ Present(k)
     /\ last' = Reply("put_uv", k, FALSE)
     /\ UNCHANGED map

Upsert(k, v) == map' = [map EXCEPT ![k] = v] /\ last' = Reply("put", k, TRUE)

Update(k, v) == /\ map' = IF Present(k) THEN [map EXCEPT ![k] = v] ELSE map
                /\ last' = Reply("update_uv", k, Present(k))

Remove(k) == /\ map' = [map EXCEPT ![k] = NoValue]
             /\ last' = Reply("remove", k, Present(k))

Get(k) == last' = Reply("get", k, map[k]) /\ UNCHANGED map

Exist(k) == last' = Reply("exist", k, Present(k)) /\ UNCHANGED map

\* Maintenance is invisible.
Merge == last' = [op |-> "merge"] /\ UNCHANGED map

Next == \/ \E k \in Keys, v \in Values : Insert(k, v) \/ Upsert(k, v) \/ Update(k, v)
        \/ \E k \in Keys : Remove(k) \/ Get(k) \/ Exist(k)
        \/ Merge

Spec == Init /\ [][Next]_<<map, last>>
=============================================================================
