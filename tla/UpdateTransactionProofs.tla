----------------------- MODULE UpdateTransactionProofs -----------------------
(***************************************************************************)
(* Proofs about UpdateTransaction, for any number of releases, commands,   *)
(* interruptions and failed renames.  The invariant is built in layers:    *)
(* types and where the trees are (Placed), the agent, the marker and the   *)
(* commit (Concluded), where a failover goes back to (Returns), and which  *)
(* trees hold a verified release (Kept).  A layer uses the ones before it. *)
(***************************************************************************)
EXTENDS UpdateTransaction, TLAPS

\* The steps up to the swap: the tree at APP_DIR is the one the update found.
BeforeSwap == {"backup", "stage", "mark", "activating", "stop",
               "remove_previous", "move_out"}

\* The steps with the release to be activated in the staging directory.
Staged == {"mark", "activating", "stop", "remove_previous", "move_out", "move_in"}

\* The steps with the tree of the replaced release set aside.
SetAside == {"move_in", "put_back", "install", "start", "verifying", "verify",
             "failing_over", "failover_stop", "failover_clear", "failover_out", "failover_in"}

\* The first of them are of the activation, the last of a failover.
Activates == {"move_in", "put_back", "install", "start", "verifying", "verify",
              "failing_over"}
FailsOver == {"recover_check", "failover_stop", "failover_clear", "failover_out"}

\* The steps after the previous tree went back.
WentBack == {"failover_restore", "failover_start", "failover_health"}

Others == {"give_up", "commit", "final_check", "committed", "failed_over",
           "recovery_required", "clear", "recover_check"}

Steps == BeforeSwap \union SetAside \union WentBack \union Others

Running == [pc : Steps, via : {"cli", "panel", "recover"}, from : Releases,
            to : Releases, safety : Releases \union {None}]

\* A tree without a release is no tree, and the binary of a whole one is of
\* its release.
IsTree(t) ==
    /\ t \in Trees
    /\ Remnant(t) \/ t.agent \in {None, t.ver}
    /\ t.ver = None => t = NoTree

Histories == [good : SUBSET Releases, leftover : BOOLEAN, astray : BOOLEAN]

Unfinished == {"preflight", "staging", "activating", "verifying", "failing_over",
               "recovery_required"}
Entries == [phase : Unfinished \union {"committed", "failed_over"},
            from : Releases, to : Releases, safety : Releases \union {None}]

\* Types, and where the trees are at each step.
Placed ==
    /\ IsTree(app) /\ IsTree(prev) /\ IsTree(stage)
    /\ journal \in {NoJournal, Torn} \/ journal \in Entries
    /\ data \in Releases \union {Mixed}
    /\ agent \in Releases \union {None}
    /\ hist \in Histories
    /\ counts \in [updates : Nat, recoveries : Nat, interrupts : Nat, failures : Nat]
    /\ inst = Idle \/ inst \in Running
    /\ inst # Idle => /\ journal.phase \in Unfinished
                      /\ journal.from = inst.from
                      /\ journal.to = inst.to
    /\ inst # Idle /\ BeforeActivation
         => inst.pc \in {"backup", "stage", "mark", "activating", "clear", "failed_over"}
    /\ inst.pc \in BeforeSwap => app.agent # None /\ app.agent = inst.from
    /\ inst.pc = "move_out" => prev = NoTree
    /\ inst.pc \in {"move_in", "put_back"} => app = NoTree
    /\ inst.pc \in SetAside => prev # NoTree
    /\ inst.pc \in WentBack => prev = NoTree
    /\ inst.pc \in Staged => ~Remnant(stage)
    /\ inst.pc = "install" => ~Remnant(app)

\* The marker has a journal beside it, and is gone before that says so.
Marked ==
    /\ marker => journal # NoJournal
    /\ inst.pc \in {"final_check", "committed", "failed_over"} => ~marker
    /\ inst = Idle /\ Finished => ~marker

\* The steps at which systemd runs nothing.
Stopped == {"remove_previous", "move_out", "move_in", "put_back", "give_up", "install",
            "start", "failover_clear", "failover_out", "failover_in", "failover_restore", "failover_start"}

\* What runs is what is in place, and what is about to be committed is in
\* place and has passed verification.
InPlace(v) == app.agent = v /\ v \in hist.good /\ (app.ver = v \/ Remnant(app))

Concluded ==
    /\ agent \in {None, app.agent}
    /\ inst.pc \in Stopped => agent = None
    /\ inst.pc \in {"commit", "final_check", "committed"} => InPlace(inst.to)
    /\ inst = Idle /\ journal.phase = "committed" => InPlace(journal.to)

\* With no failed rename and no leftover of an earlier update, the binary the
\* update began with is in the previous tree or, when there is none, in APP_DIR.
Clean == ~hist.leftover /\ counts.failures = 0
Whence == IF prev = NoTree THEN app.agent ELSE prev.agent

Returns ==
    Clean =>
      /\ journal.phase \in Unfinished => Whence = journal.from
      /\ BeforeActivation => prev = NoTree
      /\ inst.pc \in BeforeSwap \union {"clear"} => prev = NoTree
      /\ inst.pc = "failover_in" => app = NoTree
      /\ inst.pc \notin {"put_back", "give_up"}
      /\ inst.pc = "failed_over" => app.agent = inst.from
      /\ inst = Idle /\ journal.phase = "failed_over" => app.agent = journal.from

\* Until a command begins on an unverified tree: the tree set aside holds a
\* release that has passed verification, unless it is a remnant, and APP_DIR
\* does where none is set aside, up to the swap, and beside a remnant up to the
\* renames of a failover.  Once these have taken the remnant for the previous
\* release, the staging directory holds one.
Safe ==
    /\ prev = NoTree => Verified(app) \/ (Remnant(app) /\ Verified(stage))
    /\ prev # NoTree =>
         \/ Verified(prev)
         \/ Remnant(prev) /\ (Verified(app) \/ (app = NoTree /\ Verified(stage)))
    /\ inst.pc \in BeforeSwap \union {"clear"} => Verified(app)
    /\ inst.pc = "recover_check" /\ prev = NoTree => Verified(app)
    /\ inst.pc \in FailsOver /\ prev # NoTree /\ ~Verified(prev)
         => Verified(app) /\ inst.via = "recover"
    /\ inst.pc = "failover_in" /\ ~Verified(prev) => app = NoTree
    /\ inst.pc \in Activates => Verified(prev)
    /\ BeforeActivation => Verified(app)

Kept == hist.astray \/ Safe

-----------------------------------------------------------------------------

LEMMA ReleaseFacts ==
  None \notin Releases /\ 1 \in Releases /\ Partial \notin Releases /\ Partial # None
BY UpdateAssumption DEF Releases, None, Partial

LEMMA NoTreeIsTree ==
  IsTree(NoTree) /\ NoTree.ver = None /\ NoTree.agent = None /\ ~Remnant(NoTree)
BY ReleaseFacts DEF IsTree, NoTree, Tree, Trees, Remnant

\* What is left of a tree is a tree, the whole of it or a remnant.
LEMMA CutIsTree ==
  ASSUME NEW t, IsTree(t), NEW u \in Cut(t)
  PROVE  IsTree(u) /\ (u = t \/ (u # NoTree /\ Remnant(u)))
BY ReleaseFacts, NoTreeIsTree DEF Cut, IsTree, Tree, Trees, Remnant

LEMMA PartialIsTree == IsTree(Tree(Partial, None)) /\ Remnant(Tree(Partial, None))
BY ReleaseFacts DEF IsTree, Tree, Trees, Remnant

\* An installer at work has a step, an idle one has none.
LEMMA IdleFacts == Idle.pc = "idle" /\ Idle \notin Running
BY DEF Idle, Running, Steps, BeforeSwap, SetAside, WentBack, Others

LEMMA NoJournalFacts ==
  /\ NoJournal.phase = "none" /\ NoJournal \notin Entries
  /\ Torn.phase = "torn" /\ Torn \notin Entries
BY DEF NoJournal, Torn, Entries, Unfinished

LEMMA RunningFacts ==
  ASSUME NEW tx \in Running
  PROVE  /\ tx.pc \in Steps /\ tx.pc # "idle"
         /\ tx.via \in {"cli", "panel", "recover"}
         /\ tx.from \in Releases /\ tx.to \in Releases
         /\ tx.safety \in Releases \union {None}
BY DEF Running, Steps, BeforeSwap, SetAside, WentBack, Others

LEMMA GotoFacts ==
  ASSUME NEW tx \in Running, NEW p \in Steps
  PROVE  LET ty == [tx EXCEPT !.pc = p]
         IN  /\ ty \in Running /\ ty.pc = p /\ ty.via = tx.via
             /\ ty.from = tx.from /\ ty.to = tx.to /\ ty.safety = tx.safety
BY DEF Running

LEMMA EntryFacts ==
  ASSUME NEW tx \in Running, NEW ph \in Unfinished \union {"committed", "failed_over"}
  PROVE  /\ Entry(ph, tx) \in Entries /\ Entry(ph, tx).phase = ph
         /\ Entry(ph, tx).from = tx.from /\ Entry(ph, tx).to = tx.to
BY RunningFacts DEF Entry, Entries

LEMMA TreeFacts ==
  ASSUME NEW t, IsTree(t)
  PROVE  /\ t.ver \in Releases \union {None, Partial}
         /\ Remnant(t) \/ t.agent \in {None, t.ver}
         /\ t.agent \in Releases \union {None}
         /\ t.inner \subseteq Releases \union {Partial}
         /\ t.agent # None => t # NoTree
         /\ t # NoTree => t.ver \in Releases \union {Partial}
BY NoTreeIsTree DEF IsTree, Trees

LEMMA InitPlaced == Init => Placed
<1> SUFFICES ASSUME Init  PROVE Placed
  OBVIOUS
<1>1. IsTree(app) /\ IsTree(prev) /\ IsTree(stage)
  BY ReleaseFacts, NoTreeIsTree DEF Init, IsTree, Tree, Trees
<1>2. /\ hist \in Histories
      /\ counts \in [updates : Nat, recoveries : Nat, interrupts : Nat, failures : Nat]
  BY ReleaseFacts DEF Init, Histories
<1> QED
  BY <1>1, <1>2, ReleaseFacts, IdleFacts
     DEF Init, Placed, BeforeSwap, Staged, SetAside, WentBack

\* What the invariant says of the trees and of an installer at work, and the
\* ways one step of the installer can end.
TreesPlaced ==
    \A t \in {app, prev, stage} :
        /\ t.ver \in Releases \union {None, Partial}
        /\ Remnant(t) \/ t.agent \in {None, t.ver}
        /\ t.agent \in Releases \union {None}
        /\ t.inner \subseteq Releases \union {Partial}
        /\ t.agent # None => t # NoTree
        /\ t # NoTree => t.ver \in Releases \union {Partial}

AtWork ==
    /\ inst \in Running
    /\ inst.via \in {"cli", "panel", "recover"}
    /\ inst.from \in Releases /\ inst.to \in Releases
    /\ inst.safety \in Releases \union {None}

Moved(p) ==
    /\ inst' \in Running /\ inst'.pc = p /\ inst'.via = inst.via
    /\ inst'.from = inst.from /\ inst'.to = inst.to /\ inst'.safety = inst.safety

Died == inst' = Idle /\ journal' = journal

Wrote(ph) ==
    /\ AgentBin
    /\ journal' \in Entries /\ journal'.phase = ph
    /\ journal'.from = inst.from /\ journal'.to = inst.to

LEMMA PlacedTrees == Placed => TreesPlaced
BY TreeFacts DEF Placed, TreesPlaced

LEMMA PlacedAtWork == Placed /\ inst.pc # "idle" => AtWork
BY RunningFacts, IdleFacts DEF Placed, AtWork

LEMMA GotoMoves ==
  ASSUME Placed, inst.pc # "idle", NEW p \in Steps, Goto(p)
  PROVE  Moved(p)
BY PlacedAtWork, GotoFacts DEF AtWork, Goto, Moved

LEMMA StateMoves ==
  ASSUME Placed, inst.pc # "idle", NEW ph \in Unfinished, NEW p \in Steps,
         UpdateState(ph, [inst EXCEPT !.pc = p])
  PROVE  Died \/ (Moved(p) /\ Wrote(ph))
<1> DEFINE tx == [inst EXCEPT !.pc = p]
<1>1. /\ tx \in Running /\ tx.pc = p /\ tx.via = inst.via
      /\ tx.from = inst.from /\ tx.to = inst.to /\ tx.safety = inst.safety
  BY PlacedAtWork, GotoFacts DEF AtWork
<1>2. /\ Entry(ph, inst) \in Entries /\ Entry(ph, inst).phase = ph
      /\ Entry(ph, inst).from = inst.from /\ Entry(ph, inst).to = inst.to
  BY PlacedAtWork, EntryFacts DEF AtWork
<1>3. UpdateState(ph, tx)
  OBVIOUS
<1> QED
  BY <1>1, <1>2, <1>3 DEF UpdateState, Died, Die, Moved, Wrote

LEMMA StateEnds ==
  ASSUME Placed, inst.pc # "idle",
         NEW ph \in Unfinished \union {"committed", "failed_over"}, UpdateState(ph, Idle)
  PROVE  Died \/ (inst' = Idle /\ Wrote(ph))
BY PlacedAtWork, EntryFacts DEF AtWork, UpdateState, Died, Die, Wrote

LEMMA StepPlaced == Placed /\ Marked /\ [Next]_vars => Placed'
<1> SUFFICES ASSUME Placed, Marked, [Next]_vars  PROVE Placed'
  OBVIOUS
<1> USE ReleaseFacts, NoTreeIsTree, IdleFacts, NoJournalFacts
    DEF Placed, Die, Works, Fails, AgentBin, StartAgent,
        BeforeActivation, BeforeSwap, Staged, SetAside, WentBack, TreesPlaced, AtWork, Moved,
        Died, Wrote
<1>t. TreesPlaced
  BY PlacedTrees
<1>s. inst.pc # "idle" => AtWork
  BY PlacedAtWork
<1>g. ASSUME NEW p \in Steps, Goto(p), inst.pc # "idle"  PROVE Moved(p)
  BY <1>g, GotoMoves
<1>u. ASSUME NEW ph \in Unfinished, NEW p \in Steps, inst.pc # "idle",
             UpdateState(ph, [inst EXCEPT !.pc = p])
      PROVE  Died \/ (Moved(p) /\ Wrote(ph))
  BY <1>u, StateMoves
<1>e. ASSUME NEW ph \in Unfinished \union {"committed", "failed_over"}, inst.pc # "idle",
             UpdateState(ph, Idle)
      PROVE  Died \/ (inst' = Idle /\ Wrote(ph))
  BY <1>e, StateEnds
<1>p. Steps = BeforeSwap \union SetAside \union WentBack \union Others
  BY DEF Steps
<1>1. ASSUME UpdateBackup  PROVE Placed'
  <2>1. inst.pc = "backup"
    BY <1>1 DEF UpdateBackup
  <2>2. CASE Die /\ UNCHANGED journal
    BY <1>1, <2>2, <1>t DEF UpdateBackup
  <2> DEFINE tx == [inst EXCEPT !.safety = data, !.pc = "stage"]
  <2>3. CASE inst' = tx /\ journal' = Entry("staging", tx)
    <3>1. /\ tx \in Running /\ tx.pc = "stage" /\ tx.from = inst.from /\ tx.to = inst.to
      <4>1. data \in Releases \union {None} /\ "stage" \in Steps
        BY <1>p DEF Mixed, None
      <4> QED
        BY <2>1, <1>s, <4>1 DEF Running
    <3>2. /\ journal' \in Entries /\ journal'.phase = "staging"
          /\ journal'.from = inst.from /\ journal'.to = inst.to
      BY <2>3, <3>1, EntryFacts DEF Unfinished
    <3> HIDE DEF tx
    <3> QED
      BY <1>1, <2>1, <2>3, <3>1, <3>2, <1>t DEF UpdateBackup, Unfinished
  <2> QED
    BY <1>1, <2>2, <2>3 DEF UpdateBackup
<1>2. ASSUME UpdateStage  PROVE Placed'
  <2>1. inst.pc = "stage"
    BY <1>2 DEF UpdateStage
  <2>2. IsTree(Tree(inst.to, None)) /\ ~Remnant(Tree(inst.to, None))
    BY <2>1, <1>s DEF IsTree, Tree, Trees, Remnant
  <2> QED
    BY <1>2, <2>1, <2>2, <1>t, <1>g, <1>p, PartialIsTree DEF UpdateStage
<1>3. ASSUME UpdateMark  PROVE Placed'
  BY <1>3, <1>t, <1>s, <1>g, <1>p DEF UpdateMark, Others
<1>4. ASSUME UpdateActivating  PROVE Placed'
  BY <1>4, <1>t, <1>u, <1>p DEF UpdateActivating, Unfinished
<1>5. ASSUME UpdateStop  PROVE Placed'
  BY <1>5, <1>t, <1>s, <1>g, <1>p DEF UpdateStop, Others
<1>6. ASSUME RemovePrevious  PROVE Placed'
  <2>1. hist' \in Histories
    BY <1>6 DEF RemovePrevious, Histories
  <2> QED
    BY <1>6, <2>1, <1>t, <1>s, <1>g, <1>p DEF RemovePrevious, Others
<1>7. ASSUME MoveOut  PROVE Placed'
  BY <1>7, <1>t, <1>s, <1>g, <1>p DEF MoveOut, Others
<1>8. ASSUME MoveIn  PROVE Placed'
  BY <1>8, <1>t, <1>s, <1>g, <1>p DEF MoveIn, Others
<1>9. ASSUME PutBack  PROVE Placed'
  BY <1>9, <1>t, <1>g, <1>e, <1>p DEF PutBack, Others, Unfinished
<1>10. ASSUME GiveUp  PROVE Placed'
  BY <1>10, <1>t, <1>s, <1>g, <1>p DEF GiveUp, Others
<1>11. ASSUME InstallBinary  PROVE Placed'
  <2>1. IsTree([app EXCEPT !.agent = app.ver])
    BY <1>11 DEF InstallBinary, IsTree, Trees, NoTree, Tree, Remnant
  <2> QED
    BY <1>11, <2>1, <1>t, <1>g, <1>p DEF InstallBinary
<1>12. ASSUME StartCandidate  PROVE Placed'
  BY <1>12, <1>t, <1>s, <1>g, <1>p DEF StartCandidate, Others
<1>13. ASSUME UpdateVerifying  PROVE Placed'
  BY <1>13, <1>t, <1>u, <1>p DEF UpdateVerifying, Unfinished
<1>14. ASSUME UpdateVerify  PROVE Placed'
  BY <1>14, <1>t, <1>s, <1>g, <1>p DEF UpdateVerify, Others, Histories
<1>15. ASSUME Commit  PROVE Placed'
  BY <1>15, <1>t, <1>s, <1>g, <1>p DEF Commit, Others
<1>16. ASSUME FinalCheck  PROVE Placed'
  BY <1>16, <1>t, <1>s, <1>g, <1>p DEF FinalCheck, Others
<1>17. ASSUME Conclude  PROVE Placed'
  BY <1>17, <1>e, <1>t DEF Conclude, Unfinished
<1>18. ASSUME FailingOver  PROVE Placed'
  BY <1>18, <1>t, <1>u, <1>p DEF FailingOver, Unfinished
<1>19. ASSUME FailoverStop  PROVE Placed'
  BY <1>19, <1>t, <1>s, <1>g, <1>p DEF FailoverStop, Others
<1>35. ASSUME FailoverClear  PROVE Placed'
  BY <1>35, <1>t, <1>s, <1>g, <1>p DEF FailoverClear, Others
<1>20. ASSUME FailoverOut  PROVE Placed'
  BY <1>20, <1>t, <1>s, <1>g, <1>p DEF FailoverOut, Others
<1>21. ASSUME FailoverIn  PROVE Placed'
  <2>1. inst.pc = "failover_in" /\ prev # NoTree
    BY <1>21 DEF FailoverIn
  <2>2. IsTree([app EXCEPT !.inner = @ \union {prev.ver} \union prev.inner]) \/ app = NoTree
    BY <2>1, <1>t DEF IsTree, Trees, Remnant
  <2>3. CASE Fails
    BY <1>21, <2>1, <2>3, <1>t, <1>e DEF FailoverIn, Unfinished
  <2>4. CASE Works /\ prev' = NoTree /\ Goto("failover_restore") /\ UNCHANGED <<stage, journal>>
    <3>1. IsTree(app')
      BY <1>21, <2>1, <2>2, <2>4 DEF FailoverIn
    <3>2. /\ inst' \in Running /\ inst'.pc = "failover_restore"
          /\ inst'.from = inst.from /\ inst'.to = inst.to
      BY <2>1, <2>4, <1>g, <1>p
    <3> QED
      BY <1>21, <2>1, <2>4, <3>1, <3>2 DEF FailoverIn
  <2> QED
    BY <1>21, <2>3, <2>4 DEF FailoverIn
<1>22. ASSUME FailoverRestore  PROVE Placed'
  <2>1. inst.pc = "failover_restore" /\ prev = NoTree
    BY <1>22 DEF FailoverRestore
  <2>2. data' \in Releases \union {Mixed}
    BY <1>22, <2>1, <1>s DEF FailoverRestore, Restored, HalfRestored, Mixed, None
  <2> QED
    BY <1>22, <2>1, <2>2, <1>t, <1>g, <1>e, <1>p DEF FailoverRestore, Unfinished
<1>23. ASSUME FailoverStart  PROVE Placed'
  BY <1>23, <1>t, <1>s, <1>g, <1>p DEF FailoverStart, Others
<1>24. ASSUME FailoverHealth  PROVE Placed'
  BY <1>24, <1>t, <1>s, <1>g, <1>p DEF FailoverHealth, Others
<1>25. ASSUME RecoverBegin  PROVE Placed'
  <2>1. journal \in Entries /\ inst = Idle /\ ~Finished
    BY <1>25 DEF RecoverBegin, Marked
  <2>2. journal.phase \in Unfinished
    BY <2>1 DEF Finished, Entries
  <2>3. /\ journal.from \in Releases /\ journal.to \in Releases
        /\ journal.safety \in Releases \union {None}
    BY <2>1 DEF Entries
  <2>4. /\ inst' \in Running /\ inst'.from = journal.from /\ inst'.to = journal.to
        /\ inst'.pc = IF BeforeActivation THEN "clear" ELSE "recover_check"
    BY <1>25, <2>3, <1>p DEF RecoverBegin, Running, Others
  <2>5. counts' \in [updates : Nat, recoveries : Nat, interrupts : Nat, failures : Nat]
    BY <1>25 DEF RecoverBegin
  <2>6. hist' \in Histories
    BY <1>25 DEF RecoverBegin, Histories
  <2> QED
    BY <1>25, <2>1, <2>2, <2>4, <2>5, <2>6 DEF RecoverBegin
<1>26. ASSUME RecoverClear  PROVE Placed'
  BY <1>26, <1>t, <1>s, <1>g, <1>p DEF RecoverClear, Others
<1>27. ASSUME RecoverCommits  PROVE Placed'
  BY <1>27, <1>t, <1>s, <1>g, <1>p DEF RecoverCommits, Others, Histories
<1>28. ASSUME RecoverPrevious  PROVE Placed'
  BY <1>28, <1>t, <1>s, <1>g, <1>p DEF RecoverPrevious, Others
<1>29. ASSUME RecoverRestart  PROVE Placed'
  BY <1>29, <1>t, <1>s, <1>g, <1>p DEF RecoverRestart, Others
<1>30. ASSUME RecoverFailsOver  PROVE Placed'
  BY <1>30, <1>t, <1>s, <1>g, <1>p DEF RecoverFailsOver, Others
<1>31. ASSUME NEW t \in Releases, NEW via \in {"cli", "panel"}, UpdateBegin(t, via)
       PROVE  Placed'
  <2> DEFINE tx == [pc |-> "backup", via |-> via, from |-> app.agent, to |-> t, safety |-> None]
  <2>1. app.agent \in Releases
    BY <1>31, <1>t DEF UpdateBegin
  <2>2. tx \in Running /\ tx.pc = "backup" /\ tx.from = app.agent /\ tx.to = t
    BY <2>1, <1>p DEF Running
  <2>3. inst' = tx /\ journal' = Entry("preflight", tx)
    BY <1>31 DEF UpdateBegin
  <2> HIDE DEF tx
  <2>4. /\ journal' \in Entries /\ journal'.phase = "preflight"
        /\ journal'.from = tx.from /\ journal'.to = tx.to
    BY <2>2, <2>3, EntryFacts DEF Unfinished
  <2>5. hist' \in Histories
    BY <1>31 DEF UpdateBegin, Histories
  <2>6. counts' \in [updates : Nat, recoveries : Nat, interrupts : Nat, failures : Nat]
    BY <1>31 DEF UpdateBegin
  <2> QED
    BY <1>31, <2>2, <2>3, <2>4, <2>5, <2>6, <1>t DEF UpdateBegin, Unfinished
<1>32. ASSUME PowerLoss \/ Killed  PROVE Placed'
  <2>1. Interrupted /\ agent' \in Releases \union {None}
    BY <1>32, <1>t DEF PowerLoss, Killed
  <2>2. data' \in Releases \union {Mixed}
    BY <2>1 DEF Interrupted, HalfRestored
  <2>3. counts' \in [updates : Nat, recoveries : Nat, interrupts : Nat, failures : Nat]
    BY <2>1 DEF Interrupted
  <2>4. IsTree(prev') /\ IsTree(stage')
    BY <2>1, CutIsTree, PartialIsTree DEF Interrupted, CutPrevious, CutStage
  <2>5. journal' \in {journal, Torn}
    BY <1>32 DEF PowerLoss, Killed
  <2>6. inst' = Idle /\ UNCHANGED <<app, marker, hist>>
    BY <2>1 DEF Interrupted
  <2> QED
    BY <2>1, <2>2, <2>3, <2>4, <2>5, <2>6, <1>t
<1>33. ASSUME AgentWrites  PROVE Placed'
  BY <1>33 DEF AgentWrites
<1>34. CASE UNCHANGED vars
  BY <1>34 DEF vars
<1> QED
  <2> HIDE DEF Placed
  <2> QED
    BY <1>1, <1>2, <1>3, <1>4, <1>5, <1>6, <1>7, <1>8, <1>9, <1>10, <1>11, <1>12,
       <1>13, <1>14, <1>15, <1>16, <1>17, <1>18, <1>19, <1>20, <1>21, <1>22, <1>23, <1>24,
       <1>25, <1>26, <1>27, <1>28, <1>29, <1>30, <1>31, <1>32, <1>33, <1>34, <1>35
       DEF Next, Update, Failover, Recover

LEMMA StepMarked == Placed /\ Placed' /\ Marked /\ [Next]_vars => Marked'
<1> SUFFICES ASSUME Placed, Placed', Marked, [Next]_vars  PROVE Marked'
  OBVIOUS
<1>s. inst.pc # "idle" => AtWork
  BY PlacedAtWork
<1>p. Steps = BeforeSwap \union SetAside \union WentBack \union Others
  BY DEF Steps
<1>i. /\ inst.pc # "idle" => inst # Idle /\ journal # NoJournal /\ ~Finished
      /\ inst'.pc # "idle" => inst' # Idle /\ journal' # NoJournal
  BY IdleFacts, NoJournalFacts DEF Placed, Unfinished, Finished
<1> USE IdleFacts, NoJournalFacts
    DEF Marked, Finished, Die, BeforeSwap, SetAside, WentBack, Others, Moved, Died, Wrote, Unfinished
<1>1. ASSUME UpdateBackup  PROVE Marked'
  <2>1. CASE Die
    BY <1>1, <2>1, <1>i, NoJournalFacts DEF UpdateBackup, Entry
  <2>2. CASE inst' = [inst EXCEPT !.safety = data, !.pc = "stage"]
    <3>1. inst'.pc = "stage"
      BY <1>1, <2>2, <1>s DEF AtWork, Running, UpdateBackup
    <3> QED
      BY <1>1, <3>1, <1>i DEF UpdateBackup
  <2> QED
    BY <1>1, <2>1, <2>2 DEF UpdateBackup
<1>2. ASSUME UpdateStage  PROVE Marked'
  BY <1>2, <1>i, <1>p, GotoMoves DEF UpdateStage
<1>3. ASSUME UpdateMark  PROVE Marked'
  BY <1>3, <1>i, <1>p, GotoMoves DEF UpdateMark
<1>4. ASSUME UpdateActivating  PROVE Marked'
  BY <1>4, <1>i, <1>p, StateMoves DEF UpdateActivating
<1>5. ASSUME UpdateStop  PROVE Marked'
  BY <1>5, <1>i, <1>p, GotoMoves DEF UpdateStop
<1>6. ASSUME RemovePrevious  PROVE Marked'
  BY <1>6, <1>i, <1>p, GotoMoves DEF RemovePrevious
<1>7. ASSUME MoveOut  PROVE Marked'
  BY <1>7, <1>i, <1>p, GotoMoves DEF MoveOut
<1>8. ASSUME MoveIn  PROVE Marked'
  BY <1>8, <1>i, <1>p, GotoMoves DEF MoveIn
<1>9. ASSUME PutBack  PROVE Marked'
  BY <1>9, <1>i, <1>p, GotoMoves, StateEnds DEF PutBack
<1>10. ASSUME GiveUp  PROVE Marked'
  BY <1>10, <1>i, <1>p, GotoMoves DEF GiveUp
<1>11. ASSUME InstallBinary  PROVE Marked'
  BY <1>11, <1>i, <1>p, GotoMoves DEF InstallBinary
<1>12. ASSUME StartCandidate  PROVE Marked'
  BY <1>12, <1>i, <1>p, GotoMoves DEF StartCandidate
<1>13. ASSUME UpdateVerifying  PROVE Marked'
  BY <1>13, <1>i, <1>p, StateMoves DEF UpdateVerifying
<1>14. ASSUME UpdateVerify  PROVE Marked'
  BY <1>14, <1>i, <1>p, GotoMoves DEF UpdateVerify
<1>15. ASSUME Commit  PROVE Marked'
  BY <1>15, <1>i, <1>p, GotoMoves DEF Commit
<1>16. ASSUME FinalCheck  PROVE Marked'
  <2>1. CASE Goto("committed") /\ UNCHANGED marker
    BY <1>16, <2>1, <1>i, <1>p, GotoMoves DEF FinalCheck
  <2>2. CASE Goto("recovery_required")
    BY <1>16, <2>2, <1>i, <1>p, GotoMoves DEF FinalCheck
  <2> QED
    BY <1>16, <2>1, <2>2 DEF FinalCheck
<1>17. ASSUME Conclude  PROVE Marked'
  BY <1>17, <1>i, <1>p, StateEnds DEF Conclude
<1>18. ASSUME FailingOver  PROVE Marked'
  BY <1>18, <1>i, <1>p, StateMoves DEF FailingOver
<1>19. ASSUME FailoverStop  PROVE Marked'
  BY <1>19, <1>i, <1>p, GotoMoves DEF FailoverStop
<1>35. ASSUME FailoverClear  PROVE Marked'
  BY <1>35, <1>i, <1>p, GotoMoves DEF FailoverClear
<1>20. ASSUME FailoverOut  PROVE Marked'
  BY <1>20, <1>i, <1>p, GotoMoves DEF FailoverOut
<1>21. ASSUME FailoverIn  PROVE Marked'
  BY <1>21, <1>i, <1>p, GotoMoves, StateEnds DEF FailoverIn
<1>22. ASSUME FailoverRestore  PROVE Marked'
  BY <1>22, <1>i, <1>p, GotoMoves, StateEnds DEF FailoverRestore
<1>23. ASSUME FailoverStart  PROVE Marked'
  BY <1>23, <1>i, <1>p, GotoMoves DEF FailoverStart
<1>24. ASSUME FailoverHealth  PROVE Marked'
  BY <1>24, <1>i, <1>p, GotoMoves DEF FailoverHealth
<1>25. ASSUME RecoverBegin  PROVE Marked'
  BY <1>25, <1>i, <1>p DEF RecoverBegin
<1>26. ASSUME RecoverClear  PROVE Marked'
  BY <1>26, <1>i, <1>p, GotoMoves DEF RecoverClear
<1>27. ASSUME RecoverCommits  PROVE Marked'
  BY <1>27, <1>i, <1>p, GotoMoves DEF RecoverCommits
<1>28. ASSUME RecoverPrevious  PROVE Marked'
  BY <1>28, <1>i, <1>p, GotoMoves DEF RecoverPrevious
<1>29. ASSUME RecoverRestart  PROVE Marked'
  BY <1>29, <1>i, <1>p, GotoMoves DEF RecoverRestart
<1>30. ASSUME RecoverFailsOver  PROVE Marked'
  BY <1>30, <1>i, <1>p, GotoMoves DEF RecoverFailsOver
<1>31. ASSUME NEW t \in Releases, NEW via \in {"cli", "panel"}, UpdateBegin(t, via)
       PROVE  Marked'
  BY <1>31, <1>i DEF UpdateBegin, Entry
<1>32. ASSUME PowerLoss \/ Killed  PROVE Marked'
  <2>1. inst' = Idle /\ UNCHANGED marker
    BY <1>32 DEF PowerLoss, Killed, Interrupted
  <2>2. CASE UNCHANGED journal
    <3>1. inst = Idle \/ ~Finished
      BY DEF Placed
    <3> QED
      BY <2>1, <2>2, <3>1
  <2>3. CASE journal' = Torn
    BY <2>1, <2>3
  <2> QED
    BY <1>32, <2>2, <2>3 DEF PowerLoss, Killed
<1>33. ASSUME AgentWrites  PROVE Marked'
  BY <1>33, <1>i DEF AgentWrites
<1>34. CASE UNCHANGED vars
  BY <1>34 DEF vars
<1> QED
  <2> HIDE DEF Marked
  <2> QED
    BY <1>1, <1>2, <1>3, <1>4, <1>5, <1>6, <1>7, <1>8, <1>9, <1>10, <1>11, <1>12,
       <1>13, <1>14, <1>15, <1>16, <1>17, <1>18, <1>19, <1>20, <1>21, <1>22, <1>23, <1>24,
       <1>25, <1>26, <1>27, <1>28, <1>29, <1>30, <1>31, <1>32, <1>33, <1>34, <1>35
       DEF Next, Update, Failover, Recover

\* A step of the installer keeps what runs and what is committed in place.
LEMMA StepConcluded == Placed /\ Placed' /\ Concluded /\ [Next]_vars => Concluded'
<1> SUFFICES ASSUME Placed, Placed', Concluded, [Next]_vars  PROVE Concluded'
  OBVIOUS
<1>p. Steps = BeforeSwap \union SetAside \union WentBack \union Others
  BY DEF Steps
<1>t. TreesPlaced
  BY PlacedTrees
<1>s. inst.pc # "idle" => AtWork /\ inst # Idle /\ journal # NoJournal /\ ~Finished
  BY PlacedAtWork, IdleFacts, NoJournalFacts DEF Placed, Unfinished, Finished
<1> USE IdleFacts, NoJournalFacts, NoTreeIsTree, ReleaseFacts
    DEF Concluded, InPlace, Stopped, Finished, Die, Works, Fails, StartAgent, BeforeSwap, SetAside,
        WentBack, Others, Moved, Died, Wrote, Unfinished, TreesPlaced, AtWork
<1>1. ASSUME UpdateBackup  PROVE Concluded'
  <2>1. CASE Die /\ UNCHANGED journal
    BY <1>1, <2>1, <1>s DEF UpdateBackup
  <2>2. CASE inst' = [inst EXCEPT !.safety = data, !.pc = "stage"]
    <3>1. inst'.pc = "stage" /\ inst' # Idle
      BY <1>1, <2>2, <1>s DEF Running, UpdateBackup
    <3>2. journal'.phase \in Unfinished /\ journal'.from = journal.from
      BY <1>1, <2>2, <1>s DEF Running, UpdateBackup, Entry, Placed
    <3> QED
      BY <1>1, <3>1, <3>2, <1>s DEF UpdateBackup
  <2> QED
    BY <1>1, <2>1, <2>2 DEF UpdateBackup
<1>2. ASSUME UpdateStage  PROVE Concluded'
  BY <1>2, <1>p, <1>t, <1>s, GotoMoves DEF UpdateStage
<1>3. ASSUME UpdateMark  PROVE Concluded'
  BY <1>3, <1>p, <1>t, <1>s, GotoMoves DEF UpdateMark
<1>4. ASSUME UpdateActivating  PROVE Concluded'
  BY <1>4, <1>p, <1>t, <1>s, StateMoves DEF UpdateActivating
<1>5. ASSUME UpdateStop  PROVE Concluded'
  BY <1>5, <1>p, <1>t, <1>s, GotoMoves DEF UpdateStop
<1>6. ASSUME RemovePrevious  PROVE Concluded'
  BY <1>6, <1>p, <1>t, <1>s, GotoMoves DEF RemovePrevious
<1>7. ASSUME MoveOut  PROVE Concluded'
  BY <1>7, <1>p, <1>t, <1>s, GotoMoves DEF MoveOut
<1>8. ASSUME MoveIn  PROVE Concluded'
  BY <1>8, <1>p, <1>t, <1>s, GotoMoves DEF MoveIn
<1>9. ASSUME PutBack  PROVE Concluded'
  BY <1>9, <1>p, <1>t, <1>s, GotoMoves, StateEnds DEF PutBack
<1>10. ASSUME GiveUp  PROVE Concluded'
  BY <1>10, <1>p, <1>t, <1>s, GotoMoves DEF GiveUp
<1>11. ASSUME InstallBinary  PROVE Concluded'
  BY <1>11, <1>p, <1>t, <1>s, GotoMoves DEF InstallBinary
<1>12. ASSUME StartCandidate  PROVE Concluded'
  BY <1>12, <1>p, <1>t, <1>s, GotoMoves DEF StartCandidate
<1>13. ASSUME UpdateVerifying  PROVE Concluded'
  BY <1>13, <1>p, <1>t, <1>s, StateMoves DEF UpdateVerifying
<1>14. ASSUME UpdateVerify  PROVE Concluded'
  <2>1. CASE Goto("failing_over") /\ UNCHANGED hist
    BY <1>14, <2>1, <1>p, <1>s, GotoMoves DEF UpdateVerify
  <2>2. CASE agent = inst.to /\ hist' = [hist EXCEPT !.good = @ \union {inst.to}] /\ Goto("commit")
    <3>1. inst.to \in hist'.good
      BY <2>2 DEF Placed, Histories
    <3>2. app.agent = inst.to /\ (app.ver = inst.to \/ Remnant(app))
      BY <1>14, <2>2, <1>t, <1>s DEF UpdateVerify
    <3> QED
      BY <1>14, <2>2, <3>1, <3>2, <1>p, <1>s, GotoMoves DEF UpdateVerify
  <2> QED
    BY <1>14, <2>1, <2>2 DEF UpdateVerify
<1>15. ASSUME Commit  PROVE Concluded'
  BY <1>15, <1>p, <1>t, <1>s, GotoMoves DEF Commit
<1>16. ASSUME FinalCheck  PROVE Concluded'
  BY <1>16, <1>p, <1>t, <1>s, GotoMoves DEF FinalCheck
<1>17. ASSUME Conclude  PROVE Concluded'
  BY <1>17, <1>p, <1>t, <1>s, StateEnds DEF Conclude
<1>18. ASSUME FailingOver  PROVE Concluded'
  BY <1>18, <1>p, <1>t, <1>s, StateMoves DEF FailingOver
<1>19. ASSUME FailoverStop  PROVE Concluded'
  BY <1>19, <1>p, <1>t, <1>s, GotoMoves DEF FailoverStop
<1>35. ASSUME FailoverClear  PROVE Concluded'
  BY <1>35, <1>p, <1>t, <1>s, GotoMoves DEF FailoverClear
<1>20. ASSUME FailoverOut  PROVE Concluded'
  BY <1>20, <1>p, <1>t, <1>s, GotoMoves DEF FailoverOut
<1>21. ASSUME FailoverIn  PROVE Concluded'
  BY <1>21, <1>p, <1>t, <1>s, GotoMoves, StateEnds DEF FailoverIn
<1>22. ASSUME FailoverRestore  PROVE Concluded'
  BY <1>22, <1>p, <1>t, <1>s, GotoMoves, StateEnds DEF FailoverRestore
<1>23. ASSUME FailoverStart  PROVE Concluded'
  BY <1>23, <1>p, <1>t, <1>s, GotoMoves DEF FailoverStart
<1>24. ASSUME FailoverHealth  PROVE Concluded'
  BY <1>24, <1>p, <1>t, <1>s, GotoMoves DEF FailoverHealth
<1>25. ASSUME RecoverBegin  PROVE Concluded'
  BY <1>25, <1>p, <1>t, <1>s DEF RecoverBegin
<1>26. ASSUME RecoverClear  PROVE Concluded'
  BY <1>26, <1>p, <1>t, <1>s, GotoMoves DEF RecoverClear
<1>27. ASSUME RecoverCommits  PROVE Concluded'
  BY <1>27, <1>p, <1>t, <1>s, GotoMoves DEF RecoverCommits
<1>28. ASSUME RecoverPrevious  PROVE Concluded'
  BY <1>28, <1>p, <1>t, <1>s, GotoMoves DEF RecoverPrevious
<1>29. ASSUME RecoverRestart  PROVE Concluded'
  BY <1>29, <1>p, <1>t, <1>s, GotoMoves DEF RecoverRestart
<1>30. ASSUME RecoverFailsOver  PROVE Concluded'
  BY <1>30, <1>p, <1>t, <1>s, GotoMoves DEF RecoverFailsOver
<1>31. ASSUME NEW t \in Releases, NEW via \in {"cli", "panel"}, UpdateBegin(t, via)
       PROVE  Concluded'
  BY <1>31, <1>t DEF UpdateBegin, Entry
<1>32. ASSUME PowerLoss \/ Killed  PROVE Concluded'
  <2>1. /\ inst' = Idle /\ agent' \in {agent, app.agent} /\ journal' \in {journal, Torn}
        /\ UNCHANGED <<app, hist>>
    BY <1>32 DEF PowerLoss, Killed, Interrupted
  <2>2. inst = Idle \/ ~Finished
    BY DEF Placed
  <2> QED
    BY <2>1, <2>2
<1>33. ASSUME AgentWrites  PROVE Concluded'
  BY <1>33 DEF AgentWrites
<1>34. CASE UNCHANGED vars
  BY <1>34 DEF vars
<1> QED
  <2> HIDE DEF Concluded
  <2> QED
    BY <1>1, <1>2, <1>3, <1>4, <1>5, <1>6, <1>7, <1>8, <1>9, <1>10, <1>11, <1>12,
       <1>13, <1>14, <1>15, <1>16, <1>17, <1>18, <1>19, <1>20, <1>21, <1>22, <1>23, <1>24,
       <1>25, <1>26, <1>27, <1>28, <1>29, <1>30, <1>31, <1>32, <1>33, <1>34, <1>35
       DEF Next, Update, Failover, Recover

\* A step keeps the release that a clean failover goes back to.
LEMMA StepReturns == Placed /\ Placed' /\ Returns /\ [Next]_vars => Returns'
<1> SUFFICES ASSUME Placed, Placed', Returns, [Next]_vars  PROVE Returns'
  OBVIOUS
<1>p. Steps = BeforeSwap \union SetAside \union WentBack \union Others
  BY DEF Steps
<1>t. TreesPlaced
  BY PlacedTrees
<1>s. inst.pc # "idle" => AtWork /\ inst # Idle /\ journal # NoJournal /\ ~Finished
  BY PlacedAtWork, IdleFacts, NoJournalFacts DEF Placed, Unfinished, Finished
<1>l. /\ inst.pc # "idle" => /\ journal.phase \in Unfinished
                             /\ journal.from = inst.from
                             /\ BeforeActivation => inst.pc \in {"backup", "stage", "mark",
                                  "activating", "clear", "failed_over"}
      /\ inst.pc \in BeforeSwap => app.agent # None /\ app.agent = inst.from
      /\ inst.pc = "move_out" => prev = NoTree
      /\ inst.pc \in {"move_in", "put_back"} => app = NoTree
      /\ inst.pc \in SetAside => prev # NoTree
      /\ inst.pc \in WentBack => prev = NoTree
  BY IdleFacts DEF Placed
<1>f. Fails => counts'.failures # 0 /\ UNCHANGED <<app, prev, stage>>
  BY DEF Fails, Placed
<1> USE IdleFacts, NoJournalFacts, NoTreeIsTree, ReleaseFacts
    DEF Returns, Clean, Whence, Finished, Die, Works, BeforeActivation, BeforeSwap, SetAside,
        WentBack, Others, Moved, Died, Wrote, Unfinished, TreesPlaced, AtWork
<1>1. ASSUME UpdateBackup  PROVE Returns'
  <2>1. CASE Die /\ UNCHANGED journal
    BY <1>1, <2>1, <1>s, <1>l DEF UpdateBackup
  <2>2. CASE inst' = [inst EXCEPT !.safety = data, !.pc = "stage"]
    <3>1. inst'.pc = "stage" /\ inst' # Idle
      BY <1>1, <2>2, <1>s DEF Running, UpdateBackup
    <3>2. journal'.phase \in Unfinished /\ journal'.from = journal.from
      BY <1>1, <2>2, <1>s DEF Running, UpdateBackup, Entry, Placed
    <3> QED
      BY <1>1, <3>1, <3>2, <1>s, <1>l DEF UpdateBackup
  <2> QED
    BY <1>1, <2>1, <2>2 DEF UpdateBackup
<1>2. ASSUME UpdateStage  PROVE Returns'
  BY <1>2, <1>p, <1>t, <1>s, <1>l, GotoMoves DEF UpdateStage
<1>3. ASSUME UpdateMark  PROVE Returns'
  BY <1>3, <1>p, <1>t, <1>s, <1>l, GotoMoves DEF UpdateMark
<1>4. ASSUME UpdateActivating  PROVE Returns'
  BY <1>4, <1>p, <1>t, <1>s, <1>l, StateMoves DEF UpdateActivating
<1>5. ASSUME UpdateStop  PROVE Returns'
  BY <1>5, <1>p, <1>t, <1>s, <1>l, GotoMoves DEF UpdateStop
<1>6. ASSUME RemovePrevious  PROVE Returns'
  <2>1. inst.pc = "remove_previous" /\ prev' = NoTree /\ UNCHANGED <<app, journal, counts>>
    BY <1>6 DEF RemovePrevious
  <2>2. Moved("move_out")
    BY <1>6, <2>1, <1>p, GotoMoves DEF RemovePrevious
  <2> QED
    BY <2>1, <2>2, <1>s, <1>l
<1>7. ASSUME MoveOut  PROVE Returns'
  BY <1>7, <1>p, <1>t, <1>s, <1>l, <1>f, GotoMoves DEF MoveOut
<1>8. ASSUME MoveIn  PROVE Returns'
  BY <1>8, <1>p, <1>t, <1>s, <1>l, <1>f, GotoMoves DEF MoveIn
<1>9. ASSUME PutBack  PROVE Returns'
  BY <1>9, <1>p, <1>t, <1>s, <1>l, <1>f, GotoMoves, StateEnds DEF PutBack
<1>10. ASSUME GiveUp  PROVE Returns'
  BY <1>10, <1>p, <1>t, <1>s, <1>l, GotoMoves DEF GiveUp
<1>11. ASSUME InstallBinary  PROVE Returns'
  BY <1>11, <1>p, <1>t, <1>s, <1>l, GotoMoves DEF InstallBinary
<1>12. ASSUME StartCandidate  PROVE Returns'
  BY <1>12, <1>p, <1>t, <1>s, <1>l, GotoMoves DEF StartCandidate
<1>13. ASSUME UpdateVerifying  PROVE Returns'
  BY <1>13, <1>p, <1>t, <1>s, <1>l, StateMoves DEF UpdateVerifying
<1>14. ASSUME UpdateVerify  PROVE Returns'
  <2>1. hist'.leftover = hist.leftover
    BY <1>14 DEF UpdateVerify, Placed, Histories
  <2> QED
    BY <1>14, <2>1, <1>p, <1>l, <1>s, GotoMoves DEF UpdateVerify
<1>15. ASSUME Commit  PROVE Returns'
  BY <1>15, <1>p, <1>t, <1>s, <1>l, GotoMoves DEF Commit
<1>16. ASSUME FinalCheck  PROVE Returns'
  BY <1>16, <1>p, <1>t, <1>s, <1>l, GotoMoves DEF FinalCheck
<1>17. ASSUME Conclude  PROVE Returns'
  BY <1>17, <1>p, <1>t, <1>s, <1>l, StateEnds DEF Conclude
<1>18. ASSUME FailingOver  PROVE Returns'
  BY <1>18, <1>p, <1>t, <1>s, <1>l, StateMoves DEF FailingOver
<1>19. ASSUME FailoverStop  PROVE Returns'
  BY <1>19, <1>p, <1>t, <1>s, <1>l, GotoMoves DEF FailoverStop
<1>35. ASSUME FailoverClear  PROVE Returns'
  BY <1>35, <1>p, <1>t, <1>s, <1>l, GotoMoves DEF FailoverClear
<1>20. ASSUME FailoverOut  PROVE Returns'
  BY <1>20, <1>p, <1>t, <1>s, <1>l, <1>f, GotoMoves DEF FailoverOut
<1>21. ASSUME FailoverIn  PROVE Returns'
  BY <1>21, <1>p, <1>t, <1>s, <1>l, <1>f, GotoMoves, StateEnds DEF FailoverIn
<1>22. ASSUME FailoverRestore  PROVE Returns'
  BY <1>22, <1>p, <1>t, <1>s, <1>l, GotoMoves, StateEnds DEF FailoverRestore
<1>23. ASSUME FailoverStart  PROVE Returns'
  BY <1>23, <1>p, <1>t, <1>s, <1>l, GotoMoves DEF FailoverStart
<1>24. ASSUME FailoverHealth  PROVE Returns'
  BY <1>24, <1>p, <1>t, <1>s, <1>l, GotoMoves DEF FailoverHealth
<1>25. ASSUME RecoverBegin  PROVE Returns'
  BY <1>25, <1>p, <1>t, <1>s, <1>l DEF RecoverBegin
<1>26. ASSUME RecoverClear  PROVE Returns'
  BY <1>26, <1>p, <1>t, <1>s, <1>l, GotoMoves DEF RecoverClear
<1>27. ASSUME RecoverCommits  PROVE Returns'
  BY <1>27, <1>p, <1>t, <1>s, <1>l, GotoMoves DEF RecoverCommits
<1>28. ASSUME RecoverPrevious  PROVE Returns'
  BY <1>28, <1>p, <1>t, <1>s, <1>l, GotoMoves DEF RecoverPrevious
<1>29. ASSUME RecoverRestart  PROVE Returns'
  BY <1>29, <1>p, <1>t, <1>s, <1>l, GotoMoves DEF RecoverRestart
<1>30. ASSUME RecoverFailsOver  PROVE Returns'
  BY <1>30, <1>p, <1>t, <1>s, <1>l, GotoMoves DEF RecoverFailsOver
<1>31. ASSUME NEW t \in Releases, NEW via \in {"cli", "panel"}, UpdateBegin(t, via)
       PROVE  Returns'
  <2>1. /\ hist'.leftover = (prev # NoTree) /\ UNCHANGED <<app, prev>>
        /\ app.agent # None
    BY <1>31 DEF UpdateBegin, Placed, AgentBin
  <2>2. /\ inst'.pc = "backup" /\ inst'.from = app.agent
        /\ journal'.phase = "preflight" /\ journal'.from = app.agent
    BY <1>31 DEF UpdateBegin, Entry
  <2> QED
    BY <2>1, <2>2, <1>t
<1>32. ASSUME PowerLoss \/ Killed  PROVE Returns'
  <2>1. /\ inst' = Idle /\ journal' \in {journal, Torn} /\ UNCHANGED <<app, hist>>
        /\ counts'.failures = counts.failures
    BY <1>32 DEF PowerLoss, Killed, Interrupted, Placed
  <2>2. Clean => prev' = prev
    <3>1. CASE inst.pc = "remove_previous"
      BY <1>32, <3>1 DEF PowerLoss, Killed, Interrupted, CutPrevious, Cut
    <3>2. CASE inst.pc # "remove_previous"
      BY <1>32, <3>2 DEF PowerLoss, Killed, Interrupted, CutPrevious
    <3> QED
      BY <3>1, <3>2
  <2>3. inst = Idle \/ ~Finished
    BY DEF Placed
  <2> QED
    BY <2>1, <2>2, <2>3
<1>33. ASSUME AgentWrites  PROVE Returns'
  BY <1>33 DEF AgentWrites
<1>34. CASE UNCHANGED vars
  BY <1>34 DEF vars
<1> QED
  <2> HIDE DEF Returns
  <2> QED
    BY <1>1, <1>2, <1>3, <1>4, <1>5, <1>6, <1>7, <1>8, <1>9, <1>10, <1>11, <1>12,
       <1>13, <1>14, <1>15, <1>16, <1>17, <1>18, <1>19, <1>20, <1>21, <1>22, <1>23, <1>24,
       <1>25, <1>26, <1>27, <1>28, <1>29, <1>30, <1>31, <1>32, <1>33, <1>34, <1>35
       DEF Next, Update, Failover, Recover

LEMMA HoldsOwn ==
  ASSUME NEW t, NEW releases, t.ver \in releases
  PROVE  Holds(t, releases)
BY DEF Holds

LEMMA HoldsMore ==
  ASSUME NEW old, NEW new, old \subseteq new, NEW t, Holds(t, old)
  PROVE  Holds(t, new)
BY DEF Holds

\* The failover whose first rename failed: the previous tree ends up inside.
LEMMA HoldsInside ==
  ASSUME NEW t, NEW u, IsTree(t), NEW releases, Holds(u, releases)
  PROVE  Holds([t EXCEPT !.inner = @ \union {u.ver} \union u.inner], releases)
BY DEF Holds, IsTree, Trees

\* A command begun on an unverified tree stays on record.
LEMMA AstrayStays == Placed /\ [Next]_vars => (hist.astray => hist'.astray)
<1> SUFFICES ASSUME Placed, [Next]_vars, hist.astray  PROVE hist'.astray
  OBVIOUS
<1>1. CASE UNCHANGED hist
  BY <1>1
<1>2. CASE RemovePrevious \/ UpdateVerify \/ RecoverCommits \/ RecoverBegin
  BY <1>2 DEF RemovePrevious, UpdateVerify, RecoverCommits, RecoverBegin, Placed, Histories
<1>3. CASE \E t \in Releases, via \in {"cli", "panel"} : UpdateBegin(t, via)
  BY <1>3 DEF UpdateBegin, Placed, Histories
<1>4. UNCHANGED vars => UNCHANGED hist
  BY DEF vars
<1>5. Update => UNCHANGED hist \/ RemovePrevious \/ UpdateVerify
                  \/ \E t \in Releases, via \in {"cli", "panel"} : UpdateBegin(t, via)
  BY DEF Update, UpdateBackup, UpdateStage, UpdateMark, UpdateActivating, UpdateStop, MoveOut,
         MoveIn, PutBack, GiveUp, InstallBinary, StartCandidate, UpdateVerifying, Commit,
         FinalCheck, Conclude
<1>6. Failover => UNCHANGED hist
  BY DEF Failover, FailingOver, FailoverStop, FailoverClear, FailoverOut, FailoverIn,
         FailoverRestore, FailoverStart, FailoverHealth
<1>7. Recover => UNCHANGED hist \/ RecoverBegin \/ RecoverCommits
  BY DEF Recover, RecoverClear, RecoverPrevious, RecoverRestart, RecoverFailsOver
<1>8. PowerLoss \/ Killed \/ AgentWrites => UNCHANGED hist
  BY DEF PowerLoss, Killed, Interrupted, AgentWrites
<1> QED
  BY <1>1, <1>2, <1>3, <1>4, <1>5, <1>6, <1>7, <1>8 DEF Next

\* A step keeps a verified release in the trees, or begins on an unverified one.
LEMMA StepKept == Placed /\ Placed' /\ Kept /\ [Next]_vars => Kept'
<1> SUFFICES ASSUME Placed, Placed', Safe, [Next]_vars  PROVE Kept'
  BY AstrayStays DEF Kept
<1>p. Steps = BeforeSwap \union SetAside \union WentBack \union Others
  BY DEF Steps
<1>t. TreesPlaced
  BY PlacedTrees
<1>s. inst.pc # "idle" => AtWork /\ inst # Idle /\ journal # NoJournal /\ ~Finished
  BY PlacedAtWork, IdleFacts, NoJournalFacts DEF Placed, Unfinished, Finished
<1>l. /\ inst.pc # "idle" => /\ journal.phase \in Unfinished
                             /\ BeforeActivation => inst.pc \in {"backup", "stage", "mark",
                                  "activating", "clear", "failed_over"}
      /\ inst.pc \in BeforeSwap => app.agent # None
      /\ inst.pc = "move_out" => prev = NoTree
      /\ inst.pc \in {"move_in", "put_back"} => app = NoTree
      /\ inst.pc \in SetAside => prev # NoTree
      /\ inst.pc \in WentBack => prev = NoTree
  BY IdleFacts DEF Placed
<1>f. Fails => UNCHANGED <<app, prev, stage>>
  BY DEF Fails
<1> USE IdleFacts, NoJournalFacts, NoTreeIsTree, ReleaseFacts
    DEF Safe, FailsOver, Activates, Verified, Finished, Die, Works, BeforeActivation, BeforeSwap, SetAside,
        WentBack, Others, Moved, Died, Wrote, Unfinished, TreesPlaced, AtWork
<1>1. ASSUME UpdateBackup  PROVE Safe'
  <2>1. CASE Die /\ UNCHANGED journal
    BY <1>1, <2>1, <1>s, <1>l DEF UpdateBackup
  <2>2. CASE inst' = [inst EXCEPT !.safety = data, !.pc = "stage"]
    <3>1. inst'.pc = "stage" /\ inst' # Idle
      BY <1>1, <2>2, <1>s DEF Running, UpdateBackup
    <3> QED
      BY <1>1, <3>1, <1>s, <1>l DEF UpdateBackup
  <2> QED
    BY <1>1, <2>1, <2>2 DEF UpdateBackup
<1>2. ASSUME UpdateStage  PROVE Safe'
  BY <1>2, <1>p, <1>t, <1>s, <1>l, GotoMoves DEF UpdateStage
<1>3. ASSUME UpdateMark  PROVE Safe'
  BY <1>3, <1>p, <1>t, <1>s, <1>l, GotoMoves DEF UpdateMark
<1>4. ASSUME UpdateActivating  PROVE Safe'
  BY <1>4, <1>p, <1>t, <1>s, <1>l, StateMoves DEF UpdateActivating
<1>5. ASSUME UpdateStop  PROVE Safe'
  BY <1>5, <1>p, <1>t, <1>s, <1>l, GotoMoves DEF UpdateStop
<1>6. ASSUME RemovePrevious  PROVE Safe'
  <2>1. hist'.good = hist.good
    BY <1>6 DEF RemovePrevious, Placed, Histories
  <2> QED
    BY <1>6, <2>1, <1>p, <1>t, <1>s, <1>l, GotoMoves DEF RemovePrevious
<1>7. ASSUME MoveOut  PROVE Safe'
  BY <1>7, <1>p, <1>t, <1>s, <1>l, <1>f, GotoMoves DEF MoveOut
<1>8. ASSUME MoveIn  PROVE Safe'
  BY <1>8, <1>p, <1>t, <1>s, <1>l, <1>f, GotoMoves DEF MoveIn
<1>9. ASSUME PutBack  PROVE Safe'
  BY <1>9, <1>p, <1>t, <1>s, <1>l, <1>f, GotoMoves, StateEnds DEF PutBack
<1>10. ASSUME GiveUp  PROVE Safe'
  BY <1>10, <1>p, <1>t, <1>s, <1>l, GotoMoves DEF GiveUp
<1>11. ASSUME InstallBinary  PROVE Safe'
  BY <1>11, <1>p, <1>t, <1>s, <1>l, GotoMoves DEF InstallBinary
<1>12. ASSUME StartCandidate  PROVE Safe'
  BY <1>12, <1>p, <1>t, <1>s, <1>l, GotoMoves DEF StartCandidate
<1>13. ASSUME UpdateVerifying  PROVE Safe'
  BY <1>13, <1>p, <1>t, <1>s, <1>l, StateMoves DEF UpdateVerifying
<1>14. ASSUME UpdateVerify  PROVE Safe'
  <2>1. hist.good \subseteq hist'.good
    BY <1>14 DEF UpdateVerify, Placed, Histories
  <2>2. \A t : Holds(t, hist.good) => Holds(t, hist'.good)
    BY <2>1, HoldsMore
  <2> QED
    BY <1>14, <2>2, <1>p, <1>l, <1>s, GotoMoves DEF UpdateVerify
<1>15. ASSUME Commit  PROVE Safe'
  BY <1>15, <1>p, <1>t, <1>s, <1>l, GotoMoves DEF Commit
<1>16. ASSUME FinalCheck  PROVE Safe'
  BY <1>16, <1>p, <1>t, <1>s, <1>l, GotoMoves DEF FinalCheck
<1>17. ASSUME Conclude  PROVE Safe'
  BY <1>17, <1>p, <1>t, <1>s, <1>l, StateEnds DEF Conclude
<1>18. ASSUME FailingOver  PROVE Safe'
  BY <1>18, <1>p, <1>t, <1>s, <1>l, StateMoves DEF FailingOver
<1>19. ASSUME FailoverStop  PROVE Safe'
  BY <1>19, <1>p, <1>t, <1>s, <1>l, GotoMoves DEF FailoverStop
<1>35. ASSUME FailoverClear  PROVE Safe'
  BY <1>35, <1>p, <1>t, <1>s, <1>l, GotoMoves DEF FailoverClear
<1>20. ASSUME FailoverOut  PROVE Safe'
  BY <1>20, <1>p, <1>t, <1>s, <1>l, <1>f, GotoMoves DEF FailoverOut
<1>21. ASSUME FailoverIn  PROVE Safe'
  <2>1. inst.pc = "failover_in" /\ prev # NoTree /\ UNCHANGED hist
    BY <1>21, <1>l DEF FailoverIn
  <2>2. Holds(prev, hist.good)
          => Holds([app EXCEPT !.inner = @ \union {prev.ver} \union prev.inner], hist.good)
    BY HoldsInside DEF Placed
  <2>3. CASE Fails
    BY <1>21, <2>1, <2>3, <1>l, <1>f, <1>s, StateEnds DEF FailoverIn
  <2>4. CASE Works /\ prev' = NoTree /\ Goto("failover_restore") /\ UNCHANGED <<stage, journal>>
    <3>1. Moved("failover_restore")
      BY <2>1, <2>4, <1>p, GotoMoves
    <3>2. CASE app = NoTree
      <4>1. app' = prev
        BY <1>21, <2>1, <2>4, <3>2, <1>f DEF FailoverIn
      <4>2. ~Verified(app)
        BY <3>2 DEF Holds, NoTree, Tree, Placed, Histories
      <4> QED
        BY <2>1, <2>4, <3>1, <3>2, <4>1, <4>2, <1>l
    <3>3. CASE app # NoTree
      <4>1. Holds(app', hist'.good)
        BY <1>21, <2>1, <2>2, <2>4, <3>3, <1>f DEF FailoverIn
      <4> QED
        BY <2>1, <2>4, <3>1, <4>1, <1>l
    <3> QED
      BY <3>2, <3>3
  <2> QED
    BY <1>21, <2>3, <2>4 DEF FailoverIn
<1>22. ASSUME FailoverRestore  PROVE Safe'
  BY <1>22, <1>p, <1>t, <1>s, <1>l, GotoMoves, StateEnds DEF FailoverRestore
<1>23. ASSUME FailoverStart  PROVE Safe'
  BY <1>23, <1>p, <1>t, <1>s, <1>l, GotoMoves DEF FailoverStart
<1>24. ASSUME FailoverHealth  PROVE Safe'
  BY <1>24, <1>p, <1>t, <1>s, <1>l, GotoMoves DEF FailoverHealth
<1>25. ASSUME RecoverBegin  PROVE Kept'
  <2>1. /\ inst'.pc = IF BeforeActivation THEN "clear" ELSE "recover_check"
        /\ inst'.via = "recover" /\ UNCHANGED <<app, prev, stage, journal>>
        /\ app.agent # None
    BY <1>25 DEF RecoverBegin, AgentBin
  <2>2. /\ hist'.good = hist.good
        /\ hist'.astray = (hist.astray \/ (~Verified(app) /\ prev = NoTree))
    BY <1>25 DEF RecoverBegin, Placed, Histories
  <2>3. CASE ~Verified(app) /\ prev = NoTree
    BY <2>2, <2>3 DEF Kept
  <2>4. CASE Verified(app) \/ prev # NoTree
    BY <2>1, <2>2, <2>4, <1>t DEF Kept
  <2> QED
    BY <2>3, <2>4
<1>26. ASSUME RecoverClear  PROVE Safe'
  BY <1>26, <1>p, <1>t, <1>s, <1>l, GotoMoves DEF RecoverClear
<1>27. ASSUME RecoverCommits  PROVE Safe'
  <2>1. hist.good \subseteq hist'.good
    BY <1>27 DEF RecoverCommits, Placed, Histories
  <2>2. \A t : Holds(t, hist.good) => Holds(t, hist'.good)
    BY <2>1, HoldsMore
  <2>3. inst.pc = "recover_check" /\ UNCHANGED <<app, prev, journal>> /\ Goto("committed")
    BY <1>27 DEF RecoverCommits
  <2>4. Moved("committed") /\ inst' # Idle /\ ~BeforeActivation
    BY <2>3, <1>p, <1>l, <1>s, GotoMoves
  <2> QED
    BY <2>2, <2>3, <2>4
<1>28. ASSUME RecoverPrevious  PROVE Safe'
  BY <1>28, <1>p, <1>t, <1>s, <1>l, GotoMoves DEF RecoverPrevious
<1>29. ASSUME RecoverRestart  PROVE Safe'
  BY <1>29, <1>p, <1>t, <1>s, <1>l, GotoMoves DEF RecoverRestart
<1>30. ASSUME RecoverFailsOver  PROVE Safe'
  BY <1>30, <1>p, <1>t, <1>s, <1>l, GotoMoves DEF RecoverFailsOver
<1>31. ASSUME NEW t \in Releases, NEW via \in {"cli", "panel"}, UpdateBegin(t, via)
       PROVE  Kept'
  <2>1. inst'.pc = "backup" /\ UNCHANGED <<app, prev, stage>>
    BY <1>31 DEF UpdateBegin
  <2>2. hist'.good = hist.good /\ hist'.astray = (hist.astray \/ ~Verified(app))
    BY <1>31 DEF UpdateBegin, Placed, Histories
  <2>3. CASE ~Verified(app)
    BY <2>2, <2>3 DEF Kept
  <2>4. CASE Verified(app)
    BY <2>1, <2>2, <2>4 DEF Kept
  <2> QED
    BY <2>3, <2>4
<1>32. ASSUME PowerLoss \/ Killed  PROVE Safe'
  <2>1. /\ inst' = Idle /\ journal' \in {journal, Torn} /\ UNCHANGED <<app, hist>>
        /\ prev' \in CutPrevious /\ stage' \in CutStage
    BY <1>32 DEF PowerLoss, Killed, Interrupted
  <2>2. prev' = prev \/ (prev # NoTree /\ prev' # NoTree /\ Remnant(prev') /\ Verified(app))
    <3>1. CASE inst.pc = "remove_previous"
      <4>1. prev' = prev \/ (prev' # NoTree /\ Remnant(prev'))
        BY <2>1, <3>1, CutIsTree DEF CutPrevious, Placed
      <4>2. prev = NoTree => prev' = prev
        BY <2>1, <3>1 DEF CutPrevious, Cut
      <4> QED
        BY <3>1, <4>1, <4>2
    <3>2. CASE inst.pc # "remove_previous"
      BY <2>1, <3>2 DEF CutPrevious
    <3> QED
      BY <3>1, <3>2
  <2>3. \/ stage' = stage
        \/ Verified(app)
        \/ prev # NoTree /\ Verified(prev)
    <3>1. CASE inst.pc \in {"stage", "clear"} \/ (inst.pc = "recover_check" /\ prev = NoTree)
      BY <3>1
    <3>2. CASE inst.pc = "failover_clear"
      BY <3>2, <1>l
    <3>3. CASE /\ inst.pc \notin {"stage", "clear", "failover_clear"}
               /\ ~(inst.pc = "recover_check" /\ prev = NoTree)
      BY <2>1, <3>3 DEF CutStage
    <3> QED
      BY <3>1, <3>2, <3>3
  <2>4. inst'.pc = "idle"
    BY <2>1
  <2> QED
    BY <2>1, <2>2, <2>3, <2>4
<1>33. ASSUME AgentWrites  PROVE Safe'
  BY <1>33 DEF AgentWrites
<1>34. CASE UNCHANGED vars
  BY <1>34 DEF vars, Kept
<1> QED
  <2> HIDE DEF Safe
  <2> QED
    BY <1>1, <1>2, <1>3, <1>4, <1>5, <1>6, <1>7, <1>8, <1>9, <1>10, <1>11, <1>12,
       <1>13, <1>14, <1>15, <1>16, <1>17, <1>18, <1>19, <1>20, <1>21, <1>22, <1>23, <1>24,
       <1>25, <1>26, <1>27, <1>28, <1>29, <1>30, <1>31, <1>32, <1>33, <1>34, <1>35
       DEF Kept, Next, Update, Failover, Recover

-----------------------------------------------------------------------------
(* The theorems *)

LEMMA InitRest == Init => Marked /\ Concluded /\ Returns /\ Kept
<1> SUFFICES ASSUME Init  PROVE Marked /\ Concluded /\ Returns /\ Kept
  OBVIOUS
<1>1. /\ app.ver = 1 /\ app.agent = 1 /\ hist.good = {1} /\ inst.pc = "idle"
      /\ journal.phase = "none" /\ prev = NoTree /\ agent = 1 /\ ~marker
  BY DEF Init, Tree, Idle, NoJournal
<1>2. Marked /\ Concluded
  BY <1>1 DEF Marked, Concluded, Stopped
<1>3. Returns
  BY <1>1 DEF Returns, Clean, Unfinished, BeforeActivation, BeforeSwap
<1>4. Verified(app)
  BY <1>1, HoldsOwn DEF Verified
<1>5. Kept
  BY <1>1, <1>4 DEF Kept, Safe, BeforeActivation, BeforeSwap, FailsOver, Activates
<1> QED
  BY <1>2, <1>3, <1>5

\* The inductive invariant of the update transaction.
THEOREM PlacedAlways == Spec => [](Placed /\ Marked /\ Concluded /\ Returns)
<1>1. Init => Placed /\ Marked /\ Concluded /\ Returns
  BY InitPlaced, InitRest
<1>2. Placed /\ Marked /\ Concluded /\ Returns /\ [Next]_vars
        => (Placed /\ Marked /\ Concluded /\ Returns)'
  BY StepPlaced, StepMarked, StepConcluded, StepReturns
<1> QED
  BY <1>1, <1>2, PTL DEF Spec

\* Every state of the update has its types: a tree holds a release and the
\* binary of that release, the journal an entry, and a marker a journal.
THEOREM TypeCorrect == Spec => []TypeOK
<1>1. Placed /\ Marked => TypeOK
  <2> SUFFICES ASSUME Placed, Marked  PROVE TypeOK
    OBVIOUS
  <2>1. \A t \in {app, prev, stage} : t \in Trees /\ (Remnant(t) \/ t.agent \in {None, t.ver})
    BY DEF Placed, IsTree
  <2>2. journal \in {NoJournal, Torn} \/ journal \in
         [phase : {"preflight", "staging", "activating", "verifying", "failing_over",
                   "recovery_required", "committed", "failed_over"},
          from : Releases, to : Releases, safety : Releases \union {None}]
    BY DEF Placed, Entries, Unfinished
  <2>3. hist.good \subseteq Releases
    BY DEF Placed, Histories
  <2> QED
    BY <2>1, <2>2, <2>3 DEF Placed, Marked, TypeOK
<1> QED
  BY <1>1, PlacedAlways, PTL

\* A maintenance marker never outlives its transaction, wherever the installer
\* is interrupted (do_update, node_failover, do_recover_update).
THEOREM NoMarkerLeft == Spec => []FinishedHasNoMarker
<1>1. Marked => FinishedHasNoMarker
  BY DEF Marked, FinishedHasNoMarker
<1> QED
  BY <1>1, PlacedAlways, PTL

\* A journal that says committed speaks of the verified release at APP_DIR.
THEOREM CommitInPlace == Spec => []CommittedIsInPlace
<1>1. Concluded => CommittedIsInPlace
  BY DEF Concluded, InPlace, CommittedIsInPlace
<1> QED
  BY <1>1, PlacedAlways, PTL

\* A clean failover leaves the release the update began with at APP_DIR.
THEOREM FailoverReturns == Spec => []FailedOverIsThePrevious
<1>1. Returns => FailedOverIsThePrevious
  BY DEF Returns, Clean, FailedOverIsThePrevious
<1> QED
  BY <1>1, PlacedAlways, PTL

\* A verified release is on the disk at every moment, whatever is interrupted,
\* also a removal half way, whichever rename fails and however updates and
\* recoveries follow each other, until one of them begins on a tree that has not
\* passed verification.
THEOREM VerifiedSurvives == Spec => []VerifiedReleaseSurvives
<1>1. Init => Kept
  BY InitRest
<1>2. Placed /\ Placed' /\ Kept /\ [Next]_vars => Kept'
  BY StepKept
<1>3. Kept => VerifiedReleaseSurvives
  BY DEF Kept, Safe, VerifiedReleaseSurvives
<1> QED
  BY <1>1, <1>2, <1>3, PlacedAlways, PTL DEF Spec
=============================================================================
