--------------------------- MODULE MCMasstreeScan ---------------------------
(* Instances of MasstreeScan for TLC.                                       *)
EXTENDS MasstreeScan

CONSTANTS t1, t2, a, b

MyKeys == 1..8
Call(kind, k) == [kind |-> kind, key |-> k, val |-> b]
MyCalls == {Call("get", 7), Call("put", 3), Call("put", 5), Call("put", 8),
            Call("remove", 5), Call("remove", 7), Call("remove", 8)}
MyScanCalls == {Call("put", 1), Call("put", 8), Call("put", 4),
                Call("remove", 5), Call("remove", 6), Call("remove", 8)}
MyScans == {[kind |-> "scan", key |-> 2], [kind |-> "rscan", key |-> 7]}

\* A full first leaf; one with one entry; behind a full first leaf a second one
\* without its bound, with two entries and with one.  Where one call is counted
\* already, those that are left change a tree that needs no more preparation.
Tree(keys, gone, made) == [keys |-> keys, gone |-> gone, calls |-> made]
One == <<<<5>>>>
Full == <<<<5, 6, 7>>>>
TwoLeaves == <<<<1, 2, 4>>, <<5, 6, 7>>>>
Dense == <<<<1, 2, 3>>, <<4, 5, 6>>>>
MyLoads == {Tree(Full, {}, 0), Tree(One, {}, 0), Tree(TwoLeaves, {5}, 0), Tree(TwoLeaves, {5, 6}, 1)}
MyScanLoads == {Tree(Full, {}, 1), Tree(One, {}, 0), Tree(Dense, {4}, 0), Tree(Dense, {4, 5}, 0)}
=============================================================================
