---------------------------- MODULE FreeAdmissionMC ----------------------------
(* A small instance of FreeAdmission. *)
EXTENDS FreeAdmission

CONSTANTS w1, w2

TwoWorkers == {w1, w2}
=============================================================================
