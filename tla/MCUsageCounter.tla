---------------------------- MODULE MCUsageCounter ----------------------------
(***************************************************************************)
(* UsageCounter for TLC: two identities, a word of 0..5 so that sums wrap. *)
(***************************************************************************)
EXTENDS UsageCounter

MCByteCounts == 0..3

==============================================================================
