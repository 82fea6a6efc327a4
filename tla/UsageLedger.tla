----------------------------- MODULE UsageLedger -----------------------------
(***************************************************************************)
(* What the usage counter of one user promises the panel that samples it.  *)
(*                                                                         *)
(* A sample is an (epoch, total) pair.  The panel keeps the last pair and  *)
(* bills the difference while the epoch stays the same; it starts over     *)
(* from the new total when the epoch is one it has never seen.  So the     *)
(* counter may add to the total of an epoch, move to an epoch that was     *)
(* never used before, or become unreadable; nothing else.                  *)
(***************************************************************************)
EXTENDS Naturals

VARIABLES
    available,  \* the counter can be read
    epoch,      \* 0 before the counter has its first epoch
    total,      \* bytes counted in this epoch
    used        \* the largest epoch ever handed out

vars == <<available, epoch, total, used>>

Init ==
    /\ available = TRUE
    /\ epoch = 0
    /\ total \in Nat
    /\ used = 0

\* Bytes are added to the running epoch.
Add ==
    /\ available
    /\ epoch # 0
    /\ total' \in Nat
    /\ total' > total
    /\ UNCHANGED <<available, epoch, used>>

\* The first epoch is handed out: what was counted before stays counted.
Open ==
    /\ available
    /\ epoch = 0
    /\ epoch' \in Nat
    /\ epoch' > used
    /\ used' = epoch'
    /\ total' \in Nat
    /\ total' >= total
    /\ UNCHANGED available

\* The counter starts over in an epoch that no sample has carried before.
Rotate ==
    /\ available
    /\ epoch' \in Nat
    /\ epoch' > used
    /\ used' = epoch'
    /\ total' = 0
    /\ UNCHANGED available

\* The file is damaged from outside: there is no sample from now on.
Lose ==
    /\ available
    /\ available' = FALSE
    /\ epoch' = 0
    /\ total' = 0
    /\ UNCHANGED used

Next == Add \/ Open \/ Rotate \/ Lose

Spec == Init /\ [][Next]_vars

==============================================================================
