--------------------------- MODULE MCLoadBalancer ---------------------------
(* Instances of LoadBalancer for TLC.                                        *)
EXTENDS LoadBalancer, TLC

InstanceSymmetry == Permutations(Requests) \cup Permutations(Backends)
=============================================================================
