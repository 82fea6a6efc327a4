---------------------------- MODULE MCAdmission ----------------------------
(* Admission for TLC. *)
EXTENDS Admission
=============================================================================
