----------------------------- MODULE IndexBags -----------------------------
(***************************************************************************)
(* What a secondary index of type 0 (SECONDARY_INDEX_TYPE of mtIndexAPI.hh) *)
(* promises to a client: under each key the values that were put and not    *)
(* removed, in some order.  A key may be split, some of its values lying    *)
(* apart from the others; the index then answers that it has none, until a  *)
(* merge brings them together.  Stages and counters do not appear.          *)
(***************************************************************************)
EXTENDS Naturals, Sequences, FiniteSets

CONSTANTS Keys, Values

VARIABLES bags,   \* how often each value is under each key
          split,  \* the keys whose values lie apart
          last    \* the last call and its reply

NoCall == [op |-> "none"]

Reply(op, k, answer) == [op |-> op, key |-> k, answer |-> answer]

Holds(k, v) == bags[k][v] > 0

IsEmpty(k) == \A v \in Values : ~Holds(k, v)

\* The bag of the values of a list.
BagOf(list) == [v \in Values |-> Cardinality({i \in DOMAIN list : list[i] = v})]

Init == /\ bags = [k \in Keys |-> BagOf(<<>>)]
        /\ split = {} /\ last = NoCall

\* What a change of k may do to split; a merge may come with it.
SplitAfter(k) ==
  \/ split' = {}
  \/ split \ {k} \subseteq split' /\ split' \subseteq split \cup {k}

Put(k, v) == /\ last' = [op |-> "put_nuv", key |-> k]
             /\ bags' = [bags EXCEPT ![k][v] = @ + 1]
             /\ SplitAfter(k)

RemoveValue(k, v) ==
  /\ last' = Reply("remove_nuv", k, Holds(k, v))
  /\ IF Holds(k, v) THEN bags' = [bags EXCEPT ![k][v] = @ - 1] /\ SplitAfter(k)
     ELSE UNCHANGED <<bags, split>>

\* A bag in which one value old has become v.
Swapped(bag, v, old) ==
  LET less == [bag EXCEPT ![old] = bag[old] - 1] IN [less EXCEPT ![v] = less[v] + 1]

Exchanged(k, v, old) == [bags EXCEPT ![k] = Swapped(bags[k], v, old)]

Replace(k, v, old) ==
  /\ last' = Reply("replace", k, Holds(k, old))
  /\ bags' = IF Holds(k, old) THEN Exchanged(k, v, old) ELSE bags
  /\ UNCHANGED split

\* Overwrites one value of the key.
ReplaceNewest(k, v) ==
  /\ last' = Reply("replace_first", k, ~IsEmpty(k))
  /\ IF IsEmpty(k) THEN UNCHANGED bags
     ELSE \E old \in Values : Holds(k, old) /\ bags' = Exchanged(k, v, old)
  /\ UNCHANGED split

Get(k) == /\ last'.op = "get_nuv" /\ last' = Reply("get_nuv", k, last'.answer)
          /\ IF k \in split THEN last'.answer = <<>> ELSE BagOf(last'.answer) = bags[k]
          /\ UNCHANGED <<bags, split>>

Exist(k) == last' = Reply("exist_nuv", k, ~IsEmpty(k)) /\ UNCHANGED <<bags, split>>

Merge == last' = [op |-> "merge"] /\ split' = {} /\ UNCHANGED bags

Next == \/ \E k \in Keys, v \in Values :
              Put(k, v) \/ RemoveValue(k, v) \/ ReplaceNewest(k, v)
        \/ \E k \in Keys, v, old \in Values : Replace(k, v, old)
        \/ \E k \in Keys : Get(k) \/ Exist(k)
        \/ Merge

Spec == Init /\ [][Next]_<<bags, split, last>>
=============================================================================
