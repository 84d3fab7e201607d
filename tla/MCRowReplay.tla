---------------------------- MODULE MCRowReplay ----------------------------
(* Instances of RowReplay for TLC.                                          *)
EXTENDS RowReplay, TLC

CONSTANTS w1, w2, k1, k2

Symmetric == Permutations({w1, w2}) \cup Permutations({k1, k2})
=============================================================================
