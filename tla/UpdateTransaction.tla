-------------------------- MODULE UpdateTransaction --------------------------
(***************************************************************************)
(* The transaction that replaces an installed release (do_update,          *)
(* node_failover and do_recover_update in install.sh): release trees that  *)
(* are renamed, a journal that is replaced in one rename, a maintenance    *)
(* marker, a bundle of the node's state and an agent that systemd runs.    *)
(*                                                                         *)
(* Every rename, journal write, service command and check is a step, and   *)
(* the host may lose power or the installer be killed between any two, or  *)
(* half way through the removal of a tree.                                 *)
(* Releases are numbered in the order they were published and `data' is    *)
(* the release whose format the node's state has.  The operation lock      *)
(* lets one installer work at a time.  The script runs under set -e: a     *)
(* command that fails where nothing handles it ends the installer.         *)
(***************************************************************************)
EXTENDS Naturals

CONSTANTS
    MaxRelease,    \* releases are 1 .. MaxRelease, 1 is installed
    MaxUpdates, MaxRecoveries,     \* bound of the commands run
    MaxInterrupts, MaxFailures     \* bound of interruptions and of failed renames

ASSUME UpdateAssumption ==
    /\ MaxRelease \in Nat \ {0}
    /\ {MaxUpdates, MaxRecoveries, MaxInterrupts, MaxFailures} \subseteq Nat

VARIABLES
    app, prev, stage,  \* the trees at APP_DIR, .ovnode.previous, .ovnode.staging
    journal,           \* update-state.json
    marker,            \* update-maintenance is there
    data,              \* what format users, counters and settings are in
    agent,             \* the release systemd runs
    inst,              \* the installer at work
    counts,            \* updates, recoveries, interruptions and failed renames so far
    hist               \* ghost: releases that have passed verification; whether an
                       \* earlier update's previous tree is still beside the last
                       \* one's; whether a command began on an unverified tree

vars == <<app, prev, stage, journal, marker, data, agent, inst, counts, hist>>

Releases == 1 .. MaxRelease
None == 0
Mixed == 0
Partial == MaxRelease + 1

\* ver: the release unpacked here, Partial when files are missing; agent: the
\* release of its ovnode-server, the binary that runs as the agent and also
\* keeps the journal; inner: the trees that were moved inside.
Tree(v, a) == [ver |-> v, agent |-> a, inner |-> {}]
NoTree == Tree(None, None)
Remnant(t) == t.ver = Partial

\* What `rm -rf' has left of a tree when it is cut short, or fails.
Cut(t) == IF t = NoTree THEN {t} ELSE {t} \union {Tree(Partial, a) : a \in {None, t.agent}}

NoJournal == [phase |-> "none"]

\* The journal is renamed into place unsynced; power may take its bytes.
Torn == [phase |-> "torn"]
Idle == [pc |-> "idle"]

\* AGENT_BIN is APP_DIR/ovnode-server.
AgentBin == app.agent # None

Finished == journal.phase \in {"none", "committed", "failed_over"}

Init ==
    /\ app = Tree(1, 1)
    /\ prev = NoTree /\ stage = NoTree
    /\ journal = NoJournal
    /\ marker = FALSE
    /\ data = 1
    /\ agent = 1
    /\ inst = Idle
    /\ counts = [updates |-> 0, recoveries |-> 0, interrupts |-> 0, failures |-> 0]
    /\ hist = [good |-> {1}, leftover |-> FALSE, astray |-> FALSE]

-----------------------------------------------------------------------------
(* Helpers *)

Goto(pc) == inst' = [inst EXCEPT !.pc = pc]
Die == inst' = Idle

\* A rename that works, or one that fails and leaves the trees alone.
Works == UNCHANGED counts
Fails ==
    /\ counts.failures < MaxFailures
    /\ counts' = [counts EXCEPT !.failures = @ + 1]
    /\ UNCHANGED <<app, prev, stage>>

Entry(phase, tx) ==
    [phase |-> phase, from |-> tx.from, to |-> tx.to, safety |-> tx.safety]

\* update_state runs the agent's binary; without it the installer dies here.
UpdateState(phase, next) ==
    IF AgentBin
      THEN journal' = Entry(phase, inst) /\ inst' = next
      ELSE journal' = journal /\ Die

\* The unit is restarted with whatever binary is in place.
StartAgent == agent' = app.agent

\* The tree holds a release that has passed verification, perhaps in a tree
\* that was moved inside.
Holds(t, releases) == releases \intersect ({t.ver} \union t.inner) # {}
Verified(t) == Holds(t, hist.good)

-----------------------------------------------------------------------------
(* do_update *)

\* delegate_update recovers first when the journal asks for it, and ends there.
NeedsRecovery == journal.phase = "recovery_required"

\* `ovnode update' looks at the journal first; TriggerUpdate, for the panel,
\* runs the installer whatever the journal says.  Either may begin over an
\* update that was interrupted.
UpdateBegin(t, via) ==
    /\ inst = Idle
    /\ counts.updates < MaxUpdates
    /\ via = "cli" => ~NeedsRecovery
    /\ AgentBin
    /\ LET tx == [pc |-> "backup", via |-> via, from |-> app.agent, to |-> t,
                  safety |-> None]
       IN  inst' = tx /\ journal' = Entry("preflight", tx)
    /\ counts' = [counts EXCEPT !.updates = @ + 1]
    /\ hist' = [hist EXCEPT !.leftover = prev # NoTree, !.astray = @ \/ ~Verified(app)]
    /\ UNCHANGED <<app, prev, stage, marker, data, agent>>

\* [1/6] The state is bundled and the code archived, or nothing is done.
UpdateBackup ==
    /\ inst.pc = "backup"
    /\ \/ LET tx == [inst EXCEPT !.safety = data, !.pc = "stage"]
          IN  inst' = tx /\ journal' = Entry("staging", tx)
       \/ Die /\ UNCHANGED journal
    /\ UNCHANGED <<app, prev, stage, marker, data, agent, counts, hist>>

\* [2/6] The release is fetched and unpacked; it has no ovnode-server yet.
UpdateStage ==
    /\ inst.pc = "stage"
    /\ \/ stage' = Tree(inst.to, None) /\ Goto("mark")
       \/ stage' = Tree(Partial, None) /\ Die
    /\ UNCHANGED <<app, prev, journal, marker, data, agent, counts, hist>>

\* [3/6] Maintenance: marker, journal, then the agent is stopped.
UpdateMark ==
    /\ inst.pc = "mark"
    /\ marker' = TRUE
    /\ Goto("activating")
    /\ UNCHANGED <<app, prev, stage, journal, data, agent, counts, hist>>

UpdateActivating ==
    /\ inst.pc = "activating"
    /\ UpdateState("activating", [inst EXCEPT !.pc = "stop"])
    /\ UNCHANGED <<app, prev, stage, marker, data, agent, counts, hist>>

\* An installer the agent started is in the unit's control group, so stopping
\* the unit may end it as well.
UpdateStop ==
    /\ inst.pc = "stop"
    /\ agent' = None
    /\ \/ Goto("remove_previous")
       \/ inst.via = "panel" /\ Die
    /\ UNCHANGED <<app, prev, stage, journal, marker, data, counts, hist>>

\* [4/6] The trees change places.
RemovePrevious ==
    /\ inst.pc = "remove_previous"
    /\ prev' = NoTree
    /\ Goto("move_out")
    /\ hist' = [hist EXCEPT !.leftover = FALSE]
    /\ UNCHANGED <<app, stage, journal, marker, data, agent, counts>>

\* Mutant of MoveOut: the old tree is removed, not set aside.
MoveOutRemoves ==
    /\ inst.pc = "move_out"
    /\ app' = NoTree
    /\ Goto("move_in")
    /\ UNCHANGED <<prev, stage, journal, marker, data, agent, counts, hist>>

MoveOut ==
    /\ inst.pc = "move_out"
    /\ \/ Works /\ prev' = app /\ app' = NoTree /\ UNCHANGED stage /\ Goto("move_in")
       \/ Fails /\ Goto("give_up")
    /\ UNCHANGED <<journal, marker, data, agent, hist>>

MoveIn ==
    /\ inst.pc = "move_in"
    /\ \/ Works /\ app' = stage /\ stage' = NoTree /\ UNCHANGED prev /\ Goto("install")
       \/ Fails /\ Goto("put_back")
    /\ UNCHANGED <<journal, marker, data, agent, hist>>

\* The old tree goes back.  If it cannot, there is no binary left to write
\* `recovery_required' with.
PutBack ==
    /\ inst.pc = "put_back"
    /\ \/ Works /\ app' = prev /\ prev' = NoTree /\ Goto("give_up") /\ UNCHANGED <<stage, journal>>
       \/ Fails /\ UpdateState("recovery_required", Idle)
    /\ UNCHANGED <<marker, data, agent, hist>>

\* The agent stays stopped on this path.
GiveUp ==
    /\ inst.pc = "give_up"
    /\ marker' = FALSE
    /\ Goto("failed_over")
    /\ UNCHANGED <<app, prev, stage, journal, data, agent, counts, hist>>

\* Mutant of InstallBinary: the binary of the release being replaced is kept.
InstallBinaryOld ==
    /\ inst.pc = "install"
    /\ app' = [app EXCEPT !.agent = inst.from]
    /\ Goto("start")
    /\ UNCHANGED <<prev, stage, journal, marker, data, agent, counts, hist>>

\* install_agent_binary may fail; the update goes on.
InstallBinary ==
    /\ inst.pc = "install"
    /\ app' \in {app, [app EXCEPT !.agent = app.ver]}
    /\ Goto("start")
    /\ UNCHANGED <<prev, stage, journal, marker, data, agent, counts, hist>>

StartCandidate ==
    /\ inst.pc = "start"
    /\ StartAgent
    /\ Goto("verifying")
    /\ UNCHANGED <<app, prev, stage, journal, marker, data, counts, hist>>

\* [5/6] Verify
UpdateVerifying ==
    /\ inst.pc = "verifying"
    /\ UpdateState("verifying", [inst EXCEPT !.pc = "verify"])
    /\ UNCHANGED <<app, prev, stage, marker, data, agent, counts, hist>>

\* Healthy, the version that was asked for, OpenVPN up, the same identity.
UpdateVerify ==
    /\ inst.pc = "verify"
    /\ \/ agent = inst.to /\ hist' = [hist EXCEPT !.good = @ \union {inst.to}] /\ Goto("commit")
       \/ UNCHANGED hist /\ Goto("failing_over")
    /\ UNCHANGED <<app, prev, stage, journal, marker, data, agent, counts>>

\* Mutant of Commit: the marker is left to the next start of the agent.
CommitKeepsMarker ==
    /\ inst.pc = "commit"
    /\ Goto("final_check")
    /\ UNCHANGED <<app, prev, stage, journal, marker, data, agent, counts, hist>>

\* [6/6] Commit
Commit ==
    /\ inst.pc = "commit"
    /\ marker' = FALSE
    /\ Goto("final_check")
    /\ UNCHANGED <<app, prev, stage, journal, data, agent, counts, hist>>

FinalCheck ==
    /\ inst.pc = "final_check"
    /\ \/ agent # None /\ Goto("committed") /\ UNCHANGED marker
       \/ marker' = TRUE /\ Goto("recovery_required")
    /\ UNCHANGED <<app, prev, stage, journal, data, agent, counts, hist>>

\* The journal's last entry of a run.
Conclude ==
    /\ inst.pc \in {"committed", "failed_over", "recovery_required"}
    /\ UpdateState(inst.pc, Idle)
    /\ UNCHANGED <<app, prev, stage, marker, data, agent, counts, hist>>

-----------------------------------------------------------------------------
(* node_failover, and the failover of do_recover_update *)

FailingOver ==
    /\ inst.pc = "failing_over"
    /\ UpdateState("failing_over", [inst EXCEPT !.pc = "failover_stop"])
    /\ UNCHANGED <<app, prev, stage, marker, data, agent, counts, hist>>

FailoverStop ==
    /\ inst.pc = "failover_stop"
    /\ agent' = None
    /\ Goto("failover_clear")
    /\ UNCHANGED <<app, prev, stage, journal, marker, data, counts, hist>>

FailoverClear ==
    /\ inst.pc = "failover_clear"
    /\ stage' = NoTree
    /\ Goto("failover_out")
    /\ UNCHANGED <<app, prev, journal, marker, data, agent, counts, hist>>

\* The candidate is set aside.  The update goes on when that fails, the
\* recovery does not.
FailoverOut ==
    /\ inst.pc = "failover_out"
    /\ \/ Works /\ stage' = app /\ app' = NoTree /\ UNCHANGED prev /\ Goto("failover_in")
       \/ Fails /\ IF inst.via = "recover" THEN Die ELSE Goto("failover_in")
    /\ UNCHANGED <<journal, marker, data, agent, hist>>

\* The previous tree is moved to APP_DIR, or into it when it is still there.
FailoverIn ==
    /\ inst.pc = "failover_in"
    /\ \/ /\ Works
          /\ app' = IF app = NoTree
                      THEN prev
                      ELSE [app EXCEPT !.inner = @ \union {prev.ver} \union prev.inner]
          /\ prev' = NoTree
          /\ Goto("failover_restore")
          /\ UNCHANGED <<stage, journal>>
       \/ /\ Fails
          /\ IF inst.via = "recover" THEN Die /\ UNCHANGED journal
                                     ELSE UpdateState("recovery_required", Idle)
    /\ UNCHANGED <<marker, data, agent, hist>>

\* installer.Restore verifies the bundle and then replaces file by file; a file
\* the bundle does not have, of a user created since, stays as it is.
HalfRestored == {data} \union (IF AgentBin THEN {Mixed} ELSE {})
Restored == {inst.safety} \union (IF data = inst.safety THEN {} ELSE {Mixed})

FailoverRestore ==
    /\ inst.pc = "failover_restore"
    /\ \/ AgentBin /\ data' \in Restored /\ Goto("failover_start") /\ UNCHANGED journal
       \/ /\ data' \in HalfRestored
          /\ IF inst.via = "recover" THEN Die /\ UNCHANGED journal
                                     ELSE UpdateState("recovery_required", Idle)
    /\ UNCHANGED <<app, prev, stage, marker, agent, counts, hist>>

FailoverStart ==
    /\ inst.pc = "failover_start"
    /\ StartAgent
    /\ Goto("failover_health")
    /\ UNCHANGED <<app, prev, stage, journal, marker, data, counts, hist>>

FailoverHealth ==
    /\ inst.pc = "failover_health"
    /\ \/ agent # None /\ marker' = FALSE /\ Goto("failed_over")
       \/ UNCHANGED marker /\ Goto("recovery_required")
    /\ UNCHANGED <<app, prev, stage, journal, data, agent, counts, hist>>

-----------------------------------------------------------------------------
(* do_recover_update *)

\* Mutant of BeforeActivation: one phase too many.
BeforeActivationIncl == journal.phase \in {"preflight", "staging", "activating"}

BeforeActivation == journal.phase \in {"preflight", "staging"}

\* The journal is read with the agent's binary, so without it, or with a
\* journal that does not parse, the command ends here; a finished transaction
\* is left alone unless the marker is there.
RecoverBegin ==
    /\ inst = Idle
    /\ counts.recoveries < MaxRecoveries
    /\ AgentBin
    /\ journal \notin {NoJournal, Torn}
    /\ ~Finished \/ marker
    /\ inst' = [pc |-> IF BeforeActivation THEN "clear" ELSE "recover_check",
                via |-> "recover", from |-> journal.from,
                to |-> journal.to, safety |-> journal.safety]
    /\ marker' = (marker \/ ~BeforeActivation)
    /\ counts' = [counts EXCEPT !.recoveries = @ + 1]
    /\ hist' = [hist EXCEPT !.astray = @ \/ (~Verified(app) /\ prev = NoTree)]
    /\ UNCHANGED <<app, prev, stage, journal, data, agent>>

\* Activation had not begun.
RecoverClear ==
    /\ inst.pc = "clear"
    /\ stage' = NoTree
    /\ marker' = FALSE
    /\ Goto("failed_over")
    /\ UNCHANGED <<app, prev, journal, data, agent, counts, hist>>

\* Mutant of RecoverCommits: any healthy agent will do.
RecoverCommitsAny ==
    /\ inst.pc = "recover_check"
    /\ agent # None
    /\ marker' = FALSE
    /\ hist' = [hist EXCEPT !.good = @ \union {inst.to}]
    /\ Goto("committed")
    /\ UNCHANGED <<app, prev, stage, journal, data, agent, counts>>

\* The candidate runs and is healthy.
RecoverCommits ==
    /\ inst.pc = "recover_check"
    /\ agent = inst.to
    /\ marker' = FALSE
    /\ hist' = [hist EXCEPT !.good = @ \union {inst.to}]
    /\ Goto("committed")
    /\ UNCHANGED <<app, prev, stage, journal, data, agent, counts>>

\* The previous release runs and is healthy, and there is no previous tree.
RecoverPrevious ==
    /\ inst.pc = "recover_check"
    /\ agent = inst.from /\ agent # inst.to
    /\ prev = NoTree
    /\ marker' = FALSE
    /\ Goto("failed_over")
    /\ UNCHANGED <<app, prev, stage, journal, data, agent, counts, hist>>

\* Neither answers and there is no previous tree: taken for an activation
\* that never swapped the trees.
RecoverRestart ==
    /\ inst.pc = "recover_check"
    /\ prev = NoTree
    /\ stage' = NoTree
    /\ StartAgent
    /\ Goto("failover_health")
    /\ UNCHANGED <<app, prev, journal, marker, data, counts, hist>>

\* Neither is healthy and there is a previous tree, or what is left of one.
RecoverFailsOver ==
    /\ inst.pc = "recover_check"
    /\ prev # NoTree
    /\ Goto("failover_stop")
    /\ UNCHANGED <<app, prev, stage, journal, marker, data, agent, counts, hist>>

-----------------------------------------------------------------------------
(* Around it *)

\* The trees that the commands cut at this step may leave.
CutPrevious == IF inst.pc = "remove_previous" THEN Cut(prev) ELSE {prev}
CutStage ==
    CASE inst.pc = "stage" -> Cut(stage) \union {Tree(Partial, None)}
      [] inst.pc \in {"failover_clear", "clear"} -> Cut(stage)
      [] inst.pc = "recover_check" /\ prev = NoTree -> Cut(stage)
      [] OTHER -> {stage}

\* The installer, if one is at work, ends here, in the middle of a restore or
\* of a removal perhaps.
Interrupted ==
    /\ counts.interrupts < MaxInterrupts
    /\ counts' = [counts EXCEPT !.interrupts = @ + 1]
    /\ data' \in IF inst.pc = "failover_restore" THEN HalfRestored ELSE {data}
    /\ prev' \in CutPrevious
    /\ stage' \in CutStage
    /\ Die
    /\ UNCHANGED <<app, marker, hist>>

\* The host loses power; at boot systemd starts what is at APP_DIR.
PowerLoss ==
    /\ Interrupted
    /\ journal' \in {journal} \union (IF journal = NoJournal THEN {} ELSE {Torn})
    /\ StartAgent

\* The installer alone is ended, by a signal, a closed terminal or a command
\* that fails.
Killed ==
    /\ inst # Idle
    /\ Interrupted
    /\ UNCHANGED <<journal, agent>>

\* The running agent rewrites the state in its own format.
AgentWrites ==
    /\ agent # None /\ data # agent
    /\ data' = agent
    /\ UNCHANGED <<app, prev, stage, journal, marker, agent, inst, counts, hist>>

Update ==
    \/ \E t \in Releases, via \in {"cli", "panel"} : UpdateBegin(t, via)
    \/ UpdateBackup
    \/ UpdateStage
    \/ UpdateMark
    \/ UpdateActivating
    \/ UpdateStop
    \/ RemovePrevious
    \/ MoveOut
    \/ MoveIn
    \/ PutBack
    \/ GiveUp
    \/ InstallBinary
    \/ StartCandidate
    \/ UpdateVerifying
    \/ UpdateVerify
    \/ Commit
    \/ FinalCheck
    \/ Conclude

Failover ==
    \/ FailingOver
    \/ FailoverStop
    \/ FailoverClear
    \/ FailoverOut
    \/ FailoverIn
    \/ FailoverRestore
    \/ FailoverStart
    \/ FailoverHealth

Recover ==
    \/ RecoverBegin
    \/ RecoverClear
    \/ RecoverCommits
    \/ RecoverPrevious
    \/ RecoverRestart
    \/ RecoverFailsOver

Next == Update \/ Failover \/ Recover \/ PowerLoss \/ Killed \/ AgentWrites

Spec == Init /\ [][Next]_vars

-----------------------------------------------------------------------------
(* Properties *)

Trees == [ver : Releases \union {None, Partial}, agent : Releases \union {None},
          inner : SUBSET (Releases \union {Partial})]

\* Types of the state; the binary of a whole tree is of its release, and the
\* marker is only read while a journal is there.
TypeOK ==
    /\ {app, prev, stage} \subseteq Trees
    /\ \A t \in {app, prev, stage} : Remnant(t) \/ t.agent \in {None, t.ver}
    /\ journal \in {NoJournal, Torn} \/ journal \in
         [phase : {"preflight", "staging", "activating", "verifying", "failing_over",
                   "recovery_required", "committed", "failed_over"},
          from : Releases, to : Releases, safety : Releases \union {None}]
    /\ marker => journal # NoJournal
    /\ data \in Releases \union {Mixed}
    /\ agent \in Releases \union {None}
    /\ hist.good \subseteq Releases

\* A release that has passed verification is on the disk, at APP_DIR or set
\* aside, wherever the power fails, a rename does or a removal is cut, also
\* under an update begun over an interrupted one.  Once a recovery has taken
\* what a cut removal left for the previous release, it is in the staging
\* directory.  That ends with a command begun on a tree that has not passed
\* verification: an update removes what was set aside, a recovery the staging
\* directory (do_update, node_failover, do_recover_update).
VerifiedReleaseSurvives ==
    \/ hist.astray
    \/ Verified(app) \/ Verified(prev)
    \/ Verified(stage) /\ \E t \in {app, prev} : Remnant(t)

\* A journal that says committed speaks of a release that has passed
\* verification, its binary is the one at APP_DIR, and the tree around it is
\* that release's, unless a recovery had put a half removed one there.
CommittedIsInPlace ==
    inst = Idle /\ journal.phase = "committed"
      => /\ app.agent = journal.to /\ journal.to \in hist.good
         /\ app.ver = journal.to \/ Remnant(app)

\* The marker, which makes `ovnode rollback' refuse, never outlives the
\* transaction: whatever is interrupted, a finished journal has none beside it.
FinishedHasNoMarker == inst = Idle /\ Finished => ~marker

\* install.sh: the update "failed over safely" to the release it started from.
\* Whatever was interrupted, a journal that says so speaks of the binary at
\* APP_DIR, unless a rename failed or the update ended before it had removed
\* the previous tree of an earlier one, which the recovery takes for its own
\* (do_recover_update).
FailedOverIsThePrevious ==
    /\ inst = Idle /\ journal.phase = "failed_over"
    /\ ~hist.leftover /\ counts.failures = 0
    => app.agent = journal.from
=============================================================================
