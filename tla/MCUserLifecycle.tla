-------------------------- MODULE MCUserLifecycle --------------------------
(***************************************************************************)
(* UserLifecycle for TLC: the handlers are interchangeable.                *)
(***************************************************************************)
EXTENDS UserLifecycle, TLC

ProcSymmetry == Permutations(Procs)

==============================================================================
