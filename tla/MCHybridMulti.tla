--------------------------- MODULE MCHybridMulti ---------------------------
(* Instances of PackedMulti for TLC.                                        *)
EXTENDS PackedMulti

CONSTANTS v1, v2

\* Two keys that part in the third slice, one that parts from them in the second.
Left == <<1, 1, 1>>
Middle == <<1, 1, 2>>
Right == <<1, 2>>

ThreeKeys == {Left, Middle, Right}

\* Only these keys get values.
For(ks, vs) == [k \in Keys |-> IF k \in ks THEN vs ELSE {}]

\* Three keys with one value, or the two that part last with two, so that the
\* order of a list shows.
ThreeUses == {For(Keys, {v}) : v \in Values} \cup {For({Left, Middle}, Values)}

Symmetric == Permutations(Values)
=============================================================================
