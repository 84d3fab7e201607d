---------------------------- MODULE MCLogEpochs ----------------------------
(* Instances of LogEpochs for TLC.                                          *)
EXTENDS LogEpochs, TLC

CONSTANTS w1, w2

\* One writer for each log.
OneEach == w1 :> 1 @@ w2 :> 2

\* Two writers share the only log.
Shared == w1 :> 1 @@ w2 :> 1
=============================================================================
