------------------------- MODULE MCSessionAccounting -------------------------
(***************************************************************************)
(* SessionAccounting for TLC: two or three connections of one user.        *)
(***************************************************************************)
EXTENDS SessionAccounting

CONSTANT NConns

MCConns == 1..NConns

MCSids == {"marker", "row"} \X MCConns

\* The first and the third connection come from the same real address.
MCAddrOf == [g \in MCConns |-> g % 2]

==============================================================================
