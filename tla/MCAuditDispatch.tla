-------------------------- MODULE MCAuditDispatch ---------------------------
(* Instances of AuditDispatch for TLC.                                       *)
EXTENDS AuditDispatch, TLC
=============================================================================
