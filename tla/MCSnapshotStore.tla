--------------------------- MODULE MCSnapshotStore ---------------------------
(***************************************************************************)
(* Small instances of SnapshotStore.  The handles on the store are         *)
(* interchangeable.                                                        *)
(***************************************************************************)
EXTENDS SnapshotStore, TLC

HandleSymmetry == Permutations(Procs)
=============================================================================
