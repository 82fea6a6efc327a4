---------------------------- MODULE MCUserPolicy ----------------------------
(***************************************************************************)
(* UserPolicy for TLC: two writers, which are interchangeable.             *)
(***************************************************************************)
EXTENDS UserPolicy, TLC

WriterSymmetry == Permutations(Writers)

==============================================================================
