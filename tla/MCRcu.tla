------------------------------- MODULE MCRcu -------------------------------
(* Instances of Rcu for TLC.                                                *)
EXTENDS Rcu, TLC

CONSTANTS t1, t2, o1, o2, o3

RowSymmetry == Permutations(Objects)
Symmetric == Permutations(Threads) \cup Permutations(Objects)
=============================================================================
