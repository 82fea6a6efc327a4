------------------------- MODULE MCUpdateTransaction -------------------------
(* UpdateTransaction for TLC. *)
EXTENDS UpdateTransaction
=============================================================================
