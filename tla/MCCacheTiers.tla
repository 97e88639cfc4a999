---------------------------- MODULE MCCacheTiers ----------------------------
EXTENDS CacheTiers, TLC

CONSTANTS r1, r2, k1, k2

MCRequests == {r1, r2}
MCKeys == {k1, k2}
MCWeights == 1..3

(* The requests are alike, and so are the keys.                            *)
Alike == {p @@ q : p \in Permutations(MCRequests), q \in Permutations(MCKeys)}
=============================================================================
