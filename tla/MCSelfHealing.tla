---------------------------- MODULE MCSelfHealing ----------------------------
(* Small instances of SelfHealing.                                          *)
EXTENDS SelfHealing
=============================================================================
