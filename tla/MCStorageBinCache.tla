------------------------- MODULE MCStorageBinCache --------------------------
(* Instances of StorageBinCache for TLC.                                   *)
EXTENDS StorageBinCache

CONSTANTS t1, t2, a, b

MCThreads == {t1, t2}
MCKeys == {a, b}
MCStripes == {1, 2}
OwnStripes == (a :> 1) @@ (b :> 2)
SharedStripe == (a :> 1) @@ (b :> 1)
=============================================================================
