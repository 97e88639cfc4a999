-------------------------- MODULE MCAcmeCertificates --------------------------
(* Instances of AcmeCertificates for TLC.                                    *)
EXTENDS AcmeCertificates, TLC

ProcSymmetry == Permutations(Procs)
=============================================================================
