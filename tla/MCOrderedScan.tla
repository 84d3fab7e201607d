--------------------------- MODULE MCOrderedScan ---------------------------
(* Slice 1 leads to a layer, and that to a second one when both of its long *)
(* keys are there; slice 2 has a layer when both of its keys are there.     *)
EXTENDS StageBounds

MCKeys == {<<1, 1, 1>>, <<1, 1, 2>>, <<1, 2>>, <<2, 1>>, <<2, 2>>}

\* Four keys each: in the primary index the two layers one below the other, in
\* the secondary one those two and that of slice 2 beside them.
BothIndexes == FALSE :> MCKeys \ {<<2, 2>>} @@ TRUE :> MCKeys \ {<<1, 2>>}
Primary == FALSE :> MCKeys
=============================================================================
