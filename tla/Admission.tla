----------------------------- MODULE Admission -----------------------------
(***************************************************************************)
(* Who may be connected: the login limit and the disabled flag of one      *)
(* user, as the connect hook, the takeover over OpenVPN's management       *)
(* socket and the agent's policy calls enforce them.                       *)
(*                                                                         *)
(* The hook decides from three things it reads at different times: the     *)
(* policy (before it takes the session lock), the status file (once, under *)
(* the lock; OpenVPN rewrites it every few seconds) and, for a takeover,   *)
(* what the management socket says.  Users are independent, so one user is *)
(* modelled.  Accounting, which shares the lock, is SessionAccounting.     *)
(***************************************************************************)
EXTENDS Naturals, FiniteSets

CONSTANTS
    Conns,        \* connection attempts of the user
    Limits,       \* values of max_logins the panel sets; 0 is unlimited
    VerifyPolls,  \* `status 2' requests that fit the takeover's verify budget
    MaxChanges,   \* bound on policy changes
    NoConn        \* no connection

ASSUME NoConnAssumption == NoConn \notin Conns
ASSUME ConnsAssumption == IsFiniteSet(Conns)
ASSUME LimitsAssumption == Limits \subseteq Nat /\ Limits # {}
ASSUME PollsAssumption == VerifyPolls \in Nat \ {0}
ASSUME ChangesAssumption == MaxChanges \in Nat

VARIABLES
    policy,    \* the user's limit and disabled flag on disk
    conn,      \* the phase of each connection
    limitOf,   \* the limit a hook read before it asked for the lock
    status,    \* the user's rows in the status file
    lock,      \* the session lock and where its holder is in its work
    api,       \* the agent's policy call, serialised by the lifecycle lock
    settled,   \* the status file was rewritten since the last admission
    changes    \* policy changes so far

vars == <<policy, conn, limitOf, status, lock, api, settled, changes>>

Phases == {"new", "asking", "waiting", "live", "refused", "ending", "gone"}

LockSteps == {"free", "decide", "kill", "verify", "admit", "degrade"}

\* sure, a ghost: what the holder goes by was written since the last admission
\* or answered by OpenVPN itself.
LockType ==
    [step : LockSteps, of : Conns \cup {NoConn}, rows : SUBSET Conns,
     todo : SUBSET Conns, polls : 0..VerifyPolls, sure : BOOLEAN]

FreeLock ==
    [step |-> "free", of |-> NoConn, rows |-> {}, todo |-> {}, polls |-> 0,
     sure |-> FALSE]

ApiType == [step : {"idle", "list", "kill", "killcn"}, todo : SUBSET Conns]

IdleApi == [step |-> "idle", todo |-> {}]

TypeOK ==
    /\ policy \in [limit : Limits, disabled : BOOLEAN]
    /\ conn \in [Conns -> Phases]
    /\ limitOf \in [Conns -> Limits]
    /\ status \in SUBSET Conns
    /\ lock \in LockType
    /\ api \in ApiType
    /\ settled \in BOOLEAN
    /\ changes \in 0..MaxChanges

Init ==
    /\ policy \in [limit : Limits, disabled : {FALSE}]
    /\ conn = [g \in Conns |-> "new"]
    /\ limitOf \in [Conns -> {policy.limit}]
    /\ status = {}
    /\ lock = FreeLock
    /\ api = IdleApi
    /\ settled = TRUE
    /\ changes = 0

Live == {g \in Conns : conn[g] = "live"}

------------------------------------------------------------------------------
(***************************************************************************)
(* External: the clients and OpenVPN.                                      *)
(***************************************************************************)

\* A client passes the handshake and OpenVPN starts the connect hook.
Arrive(g) ==
    /\ conn[g] = "new"
    /\ conn' = [conn EXCEPT ![g] = "asking"]
    /\ UNCHANGED <<policy, limitOf, status, lock, api, settled, changes>>

\* A session ends by itself; OpenVPN starts the disconnect hook.
Leave(g) ==
    /\ conn[g] = "live"
    /\ conn' = [conn EXCEPT ![g] = "ending"]
    /\ UNCHANGED <<policy, limitOf, status, lock, api, settled, changes>>

WriteStatus ==
    /\ status' = Live
    /\ settled' = TRUE
    /\ <<status', settled'>> # <<status, settled>>
    /\ UNCHANGED <<policy, conn, limitOf, lock, api, changes>>

\* The sessions OpenVPN closes for a kill: those it still has.
Killed(S) == [g \in Conns |-> IF g \in S \cap Live THEN "ending" ELSE conn[g]]

(***************************************************************************)
(* A kill command over the management socket.  It takes effect, unless the *)
(* socket is down or the daemon does not attend to it.                     *)
(***************************************************************************)
SendKill(S) ==
    \/ conn' = Killed(S)
    \/ conn' = conn

------------------------------------------------------------------------------
(***************************************************************************)
(* The connect hook.                                                       *)
(***************************************************************************)

\* Connect, up to the lock: a disabled user is refused, the limit is kept.
ReadPolicy(g) ==
    /\ conn[g] = "asking"
    /\ conn' = [conn EXCEPT ![g] = IF policy.disabled THEN "refused" ELSE "waiting"]
    /\ limitOf' = IF policy.disabled THEN limitOf
                  ELSE [limitOf EXCEPT ![g] = policy.limit]
    /\ UNCHANGED <<policy, status, lock, api, settled, changes>>

\* Limit 0: the marker is written under the lock and the client admitted.
AdmitUnlimited(g) ==
    /\ conn[g] = "waiting"
    /\ limitOf[g] = 0
    /\ lock.step = "free"
    /\ conn' = [conn EXCEPT ![g] = "live"]
    /\ settled' = FALSE
    /\ UNCHANGED <<policy, limitOf, status, lock, api, changes>>

\* The lock as the hook leaves it after reading the status file.
Reading(g) ==
    [step |-> "decide", of |-> g, rows |-> status, todo |-> {}, polls |-> 0,
     sure |-> settled]

\* connectLocked: one read of the status file for the whole hook.
TakeLock(g) ==
    /\ conn[g] = "waiting"
    /\ limitOf[g] # 0
    /\ lock.step = "free"
    /\ lock' = Reading(g)
    /\ UNCHANGED <<policy, conn, limitOf, status, api, settled, changes>>

\* The holder of the lock is at a step.
At(g, step) == lock.of = g /\ lock.step = step

\* Mutant of UnderLimit: the client itself is not counted.
UnderLimitOffByOne(g) == Cardinality(lock.rows) <= limitOf[g]

UnderLimit(g) == Cardinality(lock.rows) < limitOf[g]

Admitted(g) ==
    /\ conn' = [conn EXCEPT ![g] = "live"]
    /\ lock' = FreeLock
    /\ settled' = FALSE
    /\ UNCHANGED <<policy, limitOf, status, api, changes>>

Refused(g) ==
    /\ conn' = [conn EXCEPT ![g] = "refused"]
    /\ lock' = FreeLock
    /\ UNCHANGED <<policy, limitOf, status, api, settled, changes>>

Admit(g) ==
    /\ \/ At(g, "decide") /\ UnderLimit(g)
       \/ At(g, "admit")
    /\ Admitted(g)

RefuseAtLimit(g) ==
    /\ At(g, "decide")
    /\ ~UnderLimit(g)
    /\ limitOf[g] # 1
    /\ Refused(g)

\* The state file cannot be read or the lock not taken, or a client without a
\* limit gets no marker: refused, without a decision.
RefuseUnlocked(g) ==
    /\ conn[g] \in {"asking", "waiting"}
    /\ lock.of # g
    /\ conn' = [conn EXCEPT ![g] = "refused"]
    /\ UNCHANGED <<policy, limitOf, status, lock, api, settled, changes>>

\* Banking the displaced generation or writing the marker fails.
RefuseUnwritten(g) ==
    /\ \/ At(g, "decide") /\ UnderLimit(g)
       \/ At(g, "admit") \/ At(g, "degrade")
    /\ Refused(g)

(***************************************************************************)
(* takeover and Takeover, for limit 1: kill what the status file listed,   *)
(* then ask `status 2' until no row of the user is left.                   *)
(***************************************************************************)
StartTakeover(g) ==
    /\ At(g, "decide")
    /\ ~UnderLimit(g)
    /\ limitOf[g] = 1
    /\ \/ lock' = [lock EXCEPT !.step = "kill", !.todo = lock.rows]
       \/ lock' = [lock EXCEPT !.step = "degrade"]
    /\ UNCHANGED <<policy, conn, limitOf, status, api, settled, changes>>

\* The socket could not be used: the client is admitted all the same.
AdmitDegraded(g) == At(g, "degrade") /\ Admitted(g)

\* One client-kill; a failed one is logged and the next one is sent.
TakeoverKill(g, h) ==
    /\ At(g, "kill")
    /\ h \in lock.todo
    /\ SendKill({h})
    /\ lock' = [lock EXCEPT !.todo = @ \ {h}]
    /\ UNCHANGED <<policy, limitOf, status, api, settled, changes>>

TakeoverKilled(g) ==
    /\ At(g, "kill")
    /\ lock.todo = {}
    /\ lock' = [lock EXCEPT !.step = "verify"]
    /\ UNCHANGED <<policy, conn, limitOf, status, api, settled, changes>>

\* mgmtHasCN finds no row: none is left, or the reply never came.
NoRowSeen(answered) == answered => Live = {}

VerifyPasses(g) ==
    /\ At(g, "verify")
    /\ lock.polls < VerifyPolls
    /\ \E answered \in BOOLEAN :
         /\ NoRowSeen(answered)
         /\ lock' = [lock EXCEPT !.step = "admit", !.sure = answered]
    /\ UNCHANGED <<policy, conn, limitOf, status, api, settled, changes>>

\* Mutant of VerifyAgain: the verify loop has no deadline.
VerifyAgainUnbounded(g) ==
    /\ At(g, "verify")
    /\ Live # {}
    /\ lock' = [lock EXCEPT !.polls = @ + 1]
    /\ UNCHANGED <<policy, conn, limitOf, status, api, settled, changes>>

VerifyAgain(g) ==
    /\ At(g, "verify")
    /\ lock.polls < VerifyPolls
    /\ Live # {}
    /\ lock' = [lock EXCEPT !.polls = @ + 1]
    /\ UNCHANGED <<policy, conn, limitOf, status, api, settled, changes>>

\* Mutant of VerifyTimeout: the client is refused and the lock stays taken.
VerifyTimeoutKeepsLock(g) ==
    /\ At(g, "verify")
    /\ conn' = [conn EXCEPT ![g] = "refused"]
    /\ UNCHANGED <<policy, limitOf, status, lock, api, settled, changes>>

\* The budget is spent, or `status 2' could not be written.
VerifyTimeout(g) ==
    /\ At(g, "verify")
    /\ Refused(g)

\* The disconnect hook needs the lock too.
DisconnectHook(g) ==
    /\ conn[g] = "ending"
    /\ lock.step = "free"
    /\ conn' = [conn EXCEPT ![g] = "gone"]
    /\ UNCHANGED <<policy, limitOf, status, lock, api, settled, changes>>

------------------------------------------------------------------------------
(***************************************************************************)
(* The agent: ApplyUserPolicy and SetUserLimit, one at a time.             *)
(***************************************************************************)

\* SetUserLimit keeps the disabled flag and disconnects nobody.
SetUserLimit(limit) ==
    /\ api.step = "idle"
    /\ changes < MaxChanges
    /\ policy' = [policy EXCEPT !.limit = limit]
    /\ changes' = changes + 1
    /\ UNCHANGED <<conn, limitOf, status, lock, api, settled>>

\* ApplyUserPolicy writes the policy; deactivating goes on to disconnect.
ApplyUserPolicy(limit, disabled) ==
    /\ api.step = "idle"
    /\ changes < MaxChanges
    /\ policy' = [limit |-> limit, disabled |-> disabled]
    /\ api' = IF disabled THEN [IdleApi EXCEPT !.step = "list"] ELSE api
    /\ changes' = changes + 1
    /\ UNCHANGED <<conn, limitOf, status, lock, settled>>

\* DisconnectUser reads the status file once.
DisconnectList ==
    /\ api.step = "list"
    /\ api' = [step |-> IF status = {} THEN "killcn" ELSE "kill", todo |-> status]
    /\ UNCHANGED <<policy, conn, limitOf, status, lock, settled, changes>>

DisconnectKill(h) ==
    /\ api.step = "kill"
    /\ h \in api.todo
    /\ SendKill({h})
    /\ api' = [api EXCEPT !.todo = @ \ {h}]
    /\ UNCHANGED <<policy, limitOf, status, lock, settled, changes>>

\* No row, no client id: `kill <cn>' closes every session of the user.
DisconnectKillCN ==
    /\ api.step = "killcn"
    /\ SendKill(Conns)
    /\ api' = IdleApi
    /\ UNCHANGED <<policy, limitOf, status, lock, settled, changes>>

\* The call answers success whether or not the kills were acknowledged.
DisconnectDone ==
    /\ api.step = "kill"
    /\ api.todo = {}
    /\ api' = IdleApi
    /\ UNCHANGED <<policy, conn, limitOf, status, lock, settled, changes>>

------------------------------------------------------------------------------
HookStep(g) ==
    \/ ReadPolicy(g) \/ AdmitUnlimited(g) \/ TakeLock(g)
    \/ Admit(g) \/ RefuseAtLimit(g)
    \/ StartTakeover(g) \/ AdmitDegraded(g) \/ TakeoverKilled(g)
    \/ \E h \in Conns : TakeoverKill(g, h)
    \/ VerifyPasses(g) \/ VerifyAgain(g) \/ VerifyTimeout(g)
    \/ DisconnectHook(g)

ApiStep ==
    \/ DisconnectList \/ DisconnectKillCN \/ DisconnectDone
    \/ \E h \in Conns : DisconnectKill(h)

HookFault(g) == RefuseUnlocked(g) \/ RefuseUnwritten(g)

Next ==
    \/ \E g \in Conns : Arrive(g) \/ Leave(g) \/ HookStep(g) \/ HookFault(g)
    \/ WriteStatus
    \/ \E l \in Limits : SetUserLimit(l)
    \/ \E l \in Limits, d \in BOOLEAN : ApplyUserPolicy(l, d)
    \/ ApiStep

(***************************************************************************)
(* Fairness: a hook that was started runs on, and gets the lock once it    *)
(* stays free.  Nothing is assumed of clients, OpenVPN or the panel.       *)
(***************************************************************************)
Fairness == \A g \in Conns : WF_vars(HookStep(g))

Spec == Init /\ [][Next]_vars

FairSpec == Spec /\ Fairness

------------------------------------------------------------------------------
(***************************************************************************)
(* Properties.                                                             *)
(***************************************************************************)

(***************************************************************************)
(* "`N' rejects the N+1th": a client let in under limit N leaves at most N *)
(* sessions up, however hooks, takeovers, ends and policy changes          *)
(* interleave (connectLocked and its lock), when the status file it was    *)
(* decided from had been rewritten since the last admission, or the        *)
(* takeover's question was answered.  The degraded takeover, where the     *)
(* code accepts a double session, is another action.                       *)
(***************************************************************************)
AdmissionKeepsLimit ==
    [][\A g \in Conns :
         Admit(g) /\ lock.sure => Cardinality(Live') <= limitOf[g]]_vars

(***************************************************************************)
(* Every client gets an answer and every disconnect hook returns: the lock *)
(* a takeover holds while it waits for OpenVPN, and OpenVPN's own hooks    *)
(* queueing behind it, never stop the user's sessions for good.            *)
(***************************************************************************)
EveryHookReturns ==
    \A g \in Conns :
        /\ conn[g] = "asking" ~> conn[g] \in {"live", "refused", "ending", "gone"}
        /\ conn[g] = "ending" ~> conn[g] = "gone"

==============================================================================
