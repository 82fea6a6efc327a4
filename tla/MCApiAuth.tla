------------------------------ MODULE MCApiAuth ------------------------------
(* Instance of ApiAuth for TLC.  Two requests at a time, from four
   addresses, so that each table can outgrow its bound. *)
EXTENDS ApiAuth, TLC

Symmetric == Permutations(Requests) \union Permutations(Clients) \union Permutations(Panels)
=============================================================================
