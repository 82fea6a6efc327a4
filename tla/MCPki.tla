------------------------------ MODULE MCPki ------------------------------
(***************************************************************************)
(* Pki for TLC.                                                            *)
(***************************************************************************)
EXTENDS Pki
==============================================================================
