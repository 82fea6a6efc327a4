--------------------------- MODULE PolicyRegister ---------------------------
(***************************************************************************)
(* What the store promises of a user's policy: one register that requests  *)
(* change one at a time.  A request names the fields it sets; the others   *)
(* keep the value they have when it takes effect.  A request takes effect  *)
(* once, or never (it failed, or its process died).                        *)
(***************************************************************************)
CONSTANTS
    Writers,    \* programs that change the policy
    Policies,   \* values of the policy
    Requests,   \* what a writer can ask for
    Unset,      \* a field a request leaves alone
    NoRequest,  \* a writer that was asked for nothing
    Lost        \* the policy can no longer be read

VARIABLES
    policy,     \* the policy in force
    want        \* the request of each writer that has not taken effect

vars == <<policy, want>>

Init ==
    /\ policy \in Policies
    /\ want = [w \in Writers |-> NoRequest]

Ask(w, r) ==
    /\ want[w] = NoRequest
    /\ want' = [want EXCEPT ![w] = r]
    /\ UNCHANGED policy

\* Field by field: what the request says, else what the policy says.
Keep(new, old) == IF new = Unset THEN old ELSE new

Updated(p, r) ==
    [limit    |-> Keep(r.limit, p.limit),
     disabled |-> Keep(r.disabled, p.disabled),
     name     |-> Keep(r.name, p.name)]

Apply(w) ==
    /\ want[w] # NoRequest
    /\ policy # Lost
    /\ policy' = Updated(policy, want[w])
    /\ want' = [want EXCEPT ![w] = NoRequest]

Drop(w) ==
    /\ want' = [want EXCEPT ![w] = NoRequest]
    /\ UNCHANGED policy

Lose ==
    /\ policy' = Lost
    /\ UNCHANGED want

Next ==
    \/ \E w \in Writers, r \in Requests : Ask(w, r)
    \/ \E w \in Writers : Apply(w) \/ Drop(w)
    \/ Lose

Spec == Init /\ [][Next]_vars

==============================================================================
