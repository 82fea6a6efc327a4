-------------------------- MODULE AdmissionProofs --------------------------
(***************************************************************************)
(* Proofs about Admission: types, and the login limit for any number of    *)
(* clients and any limits.                                                 *)
(***************************************************************************)
EXTENDS Admission, FiniteSetTheorems, TLAPS

(***************************************************************************)
(* The type invariant.                                                     *)
(***************************************************************************)

LEMMA FreeLockType == FreeLock \in LockType
BY PollsAssumption DEF FreeLock, LockType, LockSteps

LEMMA InitType == Init => TypeOK
<1> SUFFICES ASSUME Init PROVE TypeOK
  OBVIOUS
<1>1. policy \in [limit : Limits, disabled : BOOLEAN]
  BY DEF Init
<1>2. limitOf \in [Conns -> Limits]
  BY <1>1 DEF Init
<1>3. conn \in [Conns -> Phases] /\ status \in SUBSET Conns /\ lock \in LockType
  BY FreeLockType DEF Init, Phases
<1>4. api \in ApiType /\ settled \in BOOLEAN /\ changes \in 0..MaxChanges
  BY ChangesAssumption DEF Init, ApiType, IdleApi
<1> QED
  BY <1>1, <1>2, <1>3, <1>4 DEF TypeOK

LEMMA StepType == TypeOK /\ [Next]_vars => TypeOK'
<1> SUFFICES ASSUME TypeOK, [Next]_vars PROVE TypeOK'
  OBVIOUS
<1> USE DEF TypeOK
<1>f. FreeLock \in LockType
  BY FreeLockType
<1>k. ASSUME NEW S, SendKill(S)  PROVE conn' \in [Conns -> Phases]
  BY <1>k DEF SendKill, Killed, Phases
<1>1. ASSUME NEW g \in Conns, Arrive(g) \/ Leave(g) \/ DisconnectHook(g)
      PROVE  TypeOK'
  BY <1>1 DEF Arrive, Leave, DisconnectHook, Phases
<1>2. ASSUME WriteStatus  PROVE TypeOK'
  <2>1. status' \in SUBSET Conns /\ settled' = TRUE
    BY <1>2 DEF WriteStatus, Live
  <2> QED
    BY <1>2, <2>1 DEF WriteStatus
<1>3. ASSUME NEW g \in Conns, ReadPolicy(g)  PROVE TypeOK'
  <2>1. conn' \in [Conns -> Phases]
    BY <1>3 DEF ReadPolicy, Phases
  <2>2. limitOf' \in [Conns -> Limits]
    <3>1. policy.limit \in Limits
      OBVIOUS
    <3> QED
      BY <1>3, <3>1 DEF ReadPolicy
  <2> QED
    BY <1>3, <2>1, <2>2 DEF ReadPolicy
<1>16. ASSUME NEW g \in Conns, AdmitUnlimited(g)  PROVE TypeOK'
  <2>1. conn' \in [Conns -> Phases] /\ settled' = FALSE
    BY <1>16 DEF AdmitUnlimited, Phases
  <2> QED
    BY <1>16, <2>1 DEF AdmitUnlimited
<1>17. ASSUME NEW g \in Conns, RefuseUnlocked(g)  PROVE TypeOK'
  BY <1>17 DEF RefuseUnlocked, Phases
<1>4. ASSUME NEW g \in Conns, TakeLock(g)  PROVE TypeOK'
  <2>1. Reading(g) \in LockType
    BY PollsAssumption DEF Reading, LockType, LockSteps
  <2> QED
    BY <1>4, <2>1 DEF TakeLock
<1>5. ASSUME NEW g \in Conns, Admitted(g)  PROVE TypeOK'
  BY <1>5, <1>f DEF Admitted, Phases
<1>6. ASSUME NEW g \in Conns, Refused(g)  PROVE TypeOK'
  BY <1>6, <1>f DEF Refused, Phases
<1>7. ASSUME NEW g \in Conns,
             StartTakeover(g) \/ TakeoverKilled(g) \/ VerifyPasses(g)
      PROVE  TypeOK'
  <2>1. lock' \in LockType
    BY <1>7 DEF StartTakeover, TakeoverKilled, VerifyPasses, LockType, LockSteps
  <2> QED
    BY <1>7, <2>1 DEF StartTakeover, TakeoverKilled, VerifyPasses
<1>8. ASSUME NEW g \in Conns, VerifyAgain(g)  PROVE TypeOK'
  <2>1. lock.polls + 1 \in 0..VerifyPolls
    BY <1>8, PollsAssumption DEF VerifyAgain, LockType
  <2>2. lock' \in LockType
    BY <1>8, <2>1 DEF VerifyAgain, LockType
  <2> QED
    BY <1>8, <2>2 DEF VerifyAgain
<1>9. ASSUME NEW g \in Conns, NEW h \in Conns, TakeoverKill(g, h)  PROVE TypeOK'
  <2>1. lock' \in LockType
    BY <1>9 DEF TakeoverKill, LockType
  <2> QED
    BY <1>9, <1>k, <2>1 DEF TakeoverKill
<1>10. ASSUME NEW l \in Limits, SetUserLimit(l)  PROVE TypeOK'
  BY <1>10, ChangesAssumption DEF SetUserLimit
<1>11. ASSUME NEW l \in Limits, NEW d \in BOOLEAN, ApplyUserPolicy(l, d)
       PROVE  TypeOK'
  BY <1>11, ChangesAssumption DEF ApplyUserPolicy, ApiType, IdleApi
<1>12. ASSUME DisconnectList \/ DisconnectDone  PROVE TypeOK'
  BY <1>12 DEF DisconnectList, DisconnectDone, ApiType, IdleApi
<1>13. ASSUME NEW h \in Conns, DisconnectKill(h)  PROVE TypeOK'
  BY <1>13, <1>k DEF DisconnectKill, ApiType
<1>14. ASSUME DisconnectKillCN  PROVE TypeOK'
  BY <1>14, <1>k DEF DisconnectKillCN, ApiType, IdleApi
<1>15. CASE UNCHANGED vars
  BY <1>15 DEF vars
<1> QED
  BY <1>1, <1>2, <1>3, <1>4, <1>5, <1>6, <1>7, <1>8, <1>9, <1>10, <1>11, <1>12,
     <1>13, <1>14, <1>15, <1>16, <1>17
     DEF Next, HookStep, HookFault, ApiStep, Admit, AdmitDegraded, RefuseAtLimit,
         RefuseUnwritten, VerifyTimeout

(***************************************************************************)
(* Every reachable state has its types; the verify loop of a takeover      *)
(* never exceeds its budget of polls (Takeover).                           *)
(***************************************************************************)
THEOREM TypeCorrect == Spec => []TypeOK
<1> QED
  BY InitType, StepType, PTL DEF Spec

------------------------------------------------------------------------------
(***************************************************************************)
(* The login limit.                                                        *)
(***************************************************************************)

\* The holder of the lock is a hook that waits for its answer, and a takeover
\* is under way only for limit 1.
HolderInv ==
    lock.step # "free" =>
        /\ lock.of \in Conns
        /\ conn[lock.of] = "waiting"
        /\ lock.step # "decide" => limitOf[lock.of] = 1

\* What a holder that is sure read is not less than what is live: nobody else is
\* admitted while it holds the lock, and before it did the status file was
\* complete.
SnapshotInv ==
    /\ settled => Live \subseteq status
    /\ lock.step = "decide" /\ lock.sure => Live \subseteq lock.rows
    /\ lock.step = "admit" /\ lock.sure => Live = {}

LimitInv == TypeOK /\ HolderInv /\ SnapshotInv

\* Steps that admit nobody and leave the lock and the status file alone.
LEMMA LiveShrinks ==
    ASSUME LimitInv, TypeOK',
           lock' = lock, status' = status, settled' = settled, limitOf' = limitOf,
           Live' \subseteq Live,
           \A g \in Conns : conn[g] = "waiting" => conn'[g] = "waiting"
    PROVE  LimitInv'
<1>1. HolderInv'
  BY DEF LimitInv, HolderInv
<1>2. SnapshotInv'
  BY DEF LimitInv, SnapshotInv
<1> QED
  BY <1>1, <1>2 DEF LimitInv

LEMMA KillShrinks ==
    ASSUME TypeOK, NEW S, SendKill(S)
    PROVE  /\ Live' \subseteq Live
           /\ \A g \in Conns : conn[g] = "waiting" => conn'[g] = "waiting"
BY DEF TypeOK, SendKill, Killed, Live

LEMMA StepLimit ==
    ASSUME LimitInv, [Next]_vars
    PROVE  LimitInv'
<1>t. TypeOK /\ TypeOK'
  BY StepType DEF LimitInv
<1>c. conn \in [Conns -> Phases]
  BY <1>t DEF TypeOK
<1>1. ASSUME NEW g \in Conns, Arrive(g) \/ Leave(g) \/ DisconnectHook(g)
      PROVE  LimitInv'
  <2>1. /\ Live' \subseteq Live
        /\ \A h \in Conns : conn[h] = "waiting" => conn'[h] = "waiting"
    BY <1>1, <1>c DEF Arrive, Leave, DisconnectHook, Live
  <2> QED
    BY <1>1, <1>t, <2>1, LiveShrinks DEF Arrive, Leave, DisconnectHook
<1>2. ASSUME WriteStatus  PROVE LimitInv'
  <2>1. status' = Live /\ Live' = Live /\ lock' = lock
        /\ conn' = conn /\ limitOf' = limitOf
    BY <1>2 DEF WriteStatus, Live
  <2> QED
    BY <1>t, <2>1 DEF LimitInv, HolderInv, SnapshotInv
<1>3. ASSUME NEW g \in Conns, ReadPolicy(g)  PROVE LimitInv'
  <2>1. /\ Live' = Live
        /\ \A h \in Conns \ {g} : conn'[h] = conn[h] /\ limitOf'[h] = limitOf[h]
        /\ conn[g] = "asking"
        /\ lock' = lock /\ status' = status /\ settled' = settled
    BY <1>3, <1>t DEF ReadPolicy, Live, TypeOK
  <2> QED
    BY <1>t, <2>1 DEF LimitInv, HolderInv, SnapshotInv
<1>17. ASSUME NEW g \in Conns, RefuseUnlocked(g)  PROVE LimitInv'
  <2>1. /\ Live' = Live
        /\ \A h \in Conns \ {g} : conn'[h] = conn[h]
        /\ lock.of # g
        /\ UNCHANGED <<limitOf, status, lock, settled>>
    BY <1>17, <1>c DEF RefuseUnlocked, Live
  <2> QED
    BY <1>t, <2>1 DEF LimitInv, HolderInv, SnapshotInv
<1>4. ASSUME NEW g \in Conns, AdmitUnlimited(g)  PROVE LimitInv'
  BY <1>4, <1>t DEF AdmitUnlimited, LimitInv, HolderInv, SnapshotInv
<1>5. ASSUME NEW g \in Conns, TakeLock(g)  PROVE LimitInv'
  <2>1. /\ lock'.step = "decide" /\ lock'.of = g /\ lock'.rows = status
        /\ lock'.sure = settled
        /\ Live' = Live /\ conn[g] = "waiting"
        /\ UNCHANGED <<conn, limitOf, status, settled>>
    BY <1>5 DEF TakeLock, Reading, Live
  <2> QED
    BY <1>t, <2>1 DEF LimitInv, HolderInv, SnapshotInv
<1>6. ASSUME NEW g \in Conns, Admitted(g)  PROVE LimitInv'
  BY <1>6, <1>t DEF Admitted, FreeLock, LimitInv, HolderInv, SnapshotInv
<1>7. ASSUME NEW g \in Conns, Refused(g)  PROVE LimitInv'
  <2>1. Live' \subseteq Live /\ lock'.step = "free"
        /\ status' = status /\ settled' = settled
    BY <1>7, <1>c DEF Refused, FreeLock, Live
  <2> QED
    BY <1>t, <2>1 DEF LimitInv, HolderInv, SnapshotInv
<1>8. ASSUME NEW g \in Conns, StartTakeover(g)  PROVE LimitInv'
  <2>1. /\ lock'.step \in {"kill", "degrade"} /\ lock'.of = lock.of
        /\ lock.step = "decide" /\ limitOf[lock.of] = 1
        /\ Live' = Live
        /\ UNCHANGED <<conn, limitOf, status, settled>>
    BY <1>8, <1>t DEF StartTakeover, At, TypeOK, LockType, Live
  <2> QED
    BY <1>t, <2>1 DEF LimitInv, HolderInv, SnapshotInv
<1>9. ASSUME NEW g \in Conns, TakeoverKilled(g) \/ VerifyAgain(g)  PROVE LimitInv'
  <2>1. /\ lock'.step = "verify" /\ lock'.of = lock.of
        /\ lock.step \in {"kill", "verify"}
        /\ Live' = Live
        /\ UNCHANGED <<conn, limitOf, status, settled>>
    BY <1>9, <1>t DEF TakeoverKilled, VerifyAgain, At, TypeOK, LockType, Live
  <2> QED
    BY <1>t, <2>1 DEF LimitInv, HolderInv, SnapshotInv
<1>10. ASSUME NEW g \in Conns, VerifyPasses(g)  PROVE LimitInv'
  <2>1. /\ lock'.step = "admit" /\ lock'.of = lock.of
        /\ lock.step = "verify"
        /\ Live' = Live /\ (lock'.sure => Live = {})
        /\ UNCHANGED <<conn, limitOf, status, settled>>
    BY <1>10, <1>t DEF VerifyPasses, NoRowSeen, At, TypeOK, LockType, Live
  <2> QED
    BY <1>t, <2>1 DEF LimitInv, HolderInv, SnapshotInv
<1>11. ASSUME NEW g \in Conns, NEW h \in Conns, TakeoverKill(g, h)  PROVE LimitInv'
  <2>1. /\ lock'.step = "kill" /\ lock'.of = lock.of /\ lock.step = "kill"
        /\ UNCHANGED <<limitOf, status, settled>>
    BY <1>11, <1>t DEF TakeoverKill, At, TypeOK, LockType
  <2>2. /\ Live' \subseteq Live
        /\ \A f \in Conns : conn[f] = "waiting" => conn'[f] = "waiting"
    BY <1>11, <1>t, KillShrinks DEF TakeoverKill
  <2> QED
    BY <1>t, <2>1, <2>2 DEF LimitInv, HolderInv, SnapshotInv
<1>12. ASSUME UNCHANGED <<conn, limitOf, status, lock, settled>>  PROVE LimitInv'
  BY <1>12, <1>t, LiveShrinks DEF Live
<1>13. ASSUME NEW S, SendKill(S), UNCHANGED <<limitOf, status, lock, settled>>
       PROVE  LimitInv'
  BY <1>13, <1>t, KillShrinks, LiveShrinks
<1>14. CASE ApiStep
  BY <1>14, <1>12, <1>13
     DEF ApiStep, DisconnectList, DisconnectKillCN, DisconnectDone, DisconnectKill
<1>15. ASSUME NEW l \in Limits, SetUserLimit(l) \/ \E d \in BOOLEAN : ApplyUserPolicy(l, d)
       PROVE  LimitInv'
  BY <1>15, <1>12 DEF SetUserLimit, ApplyUserPolicy
<1>16. CASE UNCHANGED vars
  BY <1>16, <1>12 DEF vars
<1> QED
  BY <1>1, <1>2, <1>3, <1>4, <1>5, <1>6, <1>7, <1>8, <1>9, <1>10, <1>11, <1>14,
     <1>15, <1>16, <1>17
     DEF Next, HookStep, HookFault, Admit, AdmitDegraded, RefuseAtLimit, RefuseUnwritten,
         VerifyTimeout

LEMMA AdmitWithinLimit ==
    ASSUME LimitInv, NEW g \in Conns, Admit(g), lock.sure
    PROVE  Cardinality(Live') <= limitOf[g]
<1>1. Live' = Live \cup {g} /\ IsFiniteSet(Live) /\ limitOf[g] \in Nat
  <2>1. Live' = Live \cup {g}
    BY DEF Admit, Admitted, Live, LimitInv, TypeOK
  <2>2. IsFiniteSet(Live)
    BY ConnsAssumption, FS_Subset DEF Live
  <2>3. limitOf[g] \in Nat
    BY LimitsAssumption DEF LimitInv, TypeOK
  <2> QED
    BY <2>1, <2>2, <2>3
<1>2. CASE At(g, "decide") /\ UnderLimit(g)
  <2>1. Live \subseteq lock.rows /\ lock.rows \subseteq Conns
    BY <1>2 DEF At, LimitInv, SnapshotInv, TypeOK, LockType
  <2>2. IsFiniteSet(lock.rows)
    BY <2>1, ConnsAssumption, FS_Subset
  <2>3. Cardinality(Live) <= Cardinality(lock.rows)
    BY <2>1, <2>2, FS_Subset
  <2>4. Cardinality(lock.rows) < limitOf[g]
    BY <1>2 DEF UnderLimit
  <2>5. Cardinality(Live) \in Nat /\ Cardinality(lock.rows) \in Nat
    BY <1>1, <2>2, FS_CardinalityType
  <2>6. Cardinality(Live') <= Cardinality(Live) + 1
    <3>1. Cardinality(Live \cup {g}) =
            IF g \in Live THEN Cardinality(Live) ELSE Cardinality(Live) + 1
      BY <1>1, FS_AddElement
    <3> QED
      BY <1>1, <2>5, <3>1
  <2>7. Cardinality(Live') \in Nat
    BY <1>1, FS_AddElement, FS_CardinalityType
  <2> QED
    BY <1>1, <2>3, <2>4, <2>5, <2>6, <2>7
<1>3. CASE At(g, "admit")
  <2>1. Live = {} /\ limitOf[g] = 1
    BY <1>3 DEF At, LimitInv, SnapshotInv, HolderInv
  <2>2. Live' = {g}
    BY <1>1, <2>1
  <2>3. Cardinality({g}) = 1
    BY FS_Singleton
  <2> QED
    BY <2>1, <2>2, <2>3
<1> QED
  BY <1>2, <1>3 DEF Admit

(***************************************************************************)
(* The login limit, for any number of clients and any limits, however      *)
(* hooks, takeovers, ends and policy changes interleave: a client let in   *)
(* under limit N, on a status file rewritten since the last admission or   *)
(* after a takeover that OpenVPN answered, leaves at most N sessions up    *)
(* (connectLocked under the session lock).                                 *)
(***************************************************************************)
THEOREM LimitIsKept == Spec => AdmissionKeepsLimit
<1>1. Init => LimitInv
  <2> SUFFICES ASSUME Init PROVE HolderInv /\ SnapshotInv
    BY InitType DEF LimitInv
  <2>1. lock.step = "free" /\ Live = {}
    BY DEF Init, FreeLock, Live
  <2> QED
    BY <2>1 DEF HolderInv, SnapshotInv
<1>2. LimitInv /\ [Next]_vars => LimitInv'
  BY StepLimit
<1>3. LimitInv /\ [Next]_vars =>
        [\A g \in Conns :
           Admit(g) /\ lock.sure => Cardinality(Live') <= limitOf[g]]_vars
  BY AdmitWithinLimit
<1> QED
  BY <1>1, <1>2, <1>3, PTL DEF Spec, AdmissionKeepsLimit

==============================================================================
