---------------------------- MODULE MCCheckpoint ----------------------------
(* Instances of Checkpoint for TLC.                                         *)
EXTENDS Checkpoint, TLC

CONSTANTS w1, w2, k1, k2

\* One writer for each log, and one checkpoint thread.
OneEach == w1 :> 1 @@ w2 :> 2
OneThread == k1 :> 1 @@ k2 :> 1

\* The only thread reads its keys in any order.
SwapKeys == Permutations({k1, k2})

\* From a new database: the first checkpoint, begun in the first epoch, and one
\* crash.  From the idle one: two crashes, in any phase of the second checkpoint
\* and before it.
New == committed.gen = 0 \/ committed.min = 1
NewDatabase == New => ckpGen <= 1 /\ minEpoch <= 1 /\ globalLogEpoch <= 2

\* What happens after the last recovery is not followed.
FewCrashes ==
  LET last == IF New THEN 1 ELSE MaxCrashes
  IN  crashes < last \/ (crashes = last /\ phase # "up")

\* The last epoch is only followed with one change.
FewChanges == globalLogEpoch < MaxEpoch \/ Len(changes) <= 1
=============================================================================
