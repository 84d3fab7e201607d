--------------------------- MODULE MCHybridIndex ---------------------------
(* Instances of HybridIndex for TLC.                                        *)
EXTENDS HybridIndex

CONSTANTS k1, k2, k3, a, b

\* Every client, with keys of either kind.
EverySetup == Clients \X BOOLEAN
=============================================================================
