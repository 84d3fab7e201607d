----------------------------- MODULE MCBPlusTree -----------------------------
(* Small instances of stx::btree for TLC. *)
EXTENDS BPlusTree

UpTo(n) == [i \in 1..n |-> i]
Twice(n) == [i \in 1..2 * n |-> IF i <= n THEN 1 ELSE 2]

(* Nodes as small as they can be: all sets of n keys, all pairs of         *)
(* multiplicities of two keys.                                             *)
SmallMap(leafslots, n) ==
    [allow_duplicates |-> FALSE, leafslots |-> leafslots, innerslots |-> 2, keys |-> 1..n,
     changing |-> 1..n, maxitems |-> n,
     loads |-> {UpTo(i) : i \in 0..n}, ranges |-> {}]

SmallMultimap(n) ==
    [allow_duplicates |-> TRUE, leafslots |-> 4, innerslots |-> 2, keys |-> 1..2,
     changing |-> 1..2, maxitems |-> n,
     loads |-> {Twice(i) : i \in 0..n \div 2}, ranges |-> {}]

(* Larger inner nodes, next to full or half full ones: built by ascending  *)
(* or descending insertion, then changed at both ends.                     *)
LargeMap(n, changing) ==
    [allow_duplicates |-> FALSE, leafslots |-> 4, innerslots |-> 6, keys |-> 1..n,
     changing |-> changing, maxitems |-> n, loads |-> {UpTo(n)},
     ranges |-> {UpTo(n), Reverse(UpTo(n))}]

MCInstances ==
    {SmallMap(4, 12), SmallMap(6, 10), SmallMultimap(12), LargeMap(26, {1, 2, 3, 24, 25, 26})}
=============================================================================
