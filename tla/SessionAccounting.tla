-------------------------- MODULE SessionAccounting --------------------------
(***************************************************************************)
(* How the traffic of one user's VPN sessions reaches the user's counter.  *)
(*                                                                         *)
(* Four programs share three sets of files and take two locks:             *)
(*   - OpenVPN (external) creates and ends sessions, hands out pool        *)
(*     addresses and rewrites the status file every few seconds;           *)
(*   - the connect and disconnect hooks write and remove a marker file per *)
(*     session, under the user's session lock, and record final bytes;     *)
(*   - the usage poll of the agent records what the status file lists,     *)
(*     under the session lock, then prunes receipts without it;            *)
(*   - the sweeps (purge and disconnect?only_stale) remove markers and     *)
(*     take no lock at all.                                                *)
(*                                                                         *)
(* Users are independent (locks, markers and counters are per user), so    *)
(* one user is modelled.  A hook's critical section is split where another *)
(* process can see a difference: between the counter's commit and the      *)
(* change of the marker.                                                   *)
(***************************************************************************)
EXTENDS CounterFile, FiniteSets

CONSTANTS
    Conns,              \* connections of the user: 1..n, in order of arrival
    Pools,              \* pool addresses
    AddrOf,             \* the client's real address, per connection
    TTL,                \* age in seconds after which purge may drop a marker
    Refresh,            \* period in seconds of OpenVPN's status file
    Lag,                \* seconds a handshake may take before the hook runs
    DelayedDisconnect,  \* a pool address may be reused before the old
                        \* session's disconnect hook has run
    TornStatus,         \* the status file can be seen half written
    MaxTime, MaxBytes, MaxCrashes, MaxFaults, MaxResets, MaxSweeps, MaxPolls

ASSUME ConnsAssumption == Conns = 1..Cardinality(Conns)
ASSUME SidsAssumption == Sids = {"marker", "row"} \X Conns
\* The word holds whatever the sessions of an instance can move.
ASSUME BytesAssumption == MaxBytes \in Word /\ MaxBytes * Cardinality(Sids) <= MaxCount
ASSUME BoundsAssumption ==
    /\ Pools # {} /\ IsFiniteSet(Conns)
    /\ MaxTime \in Nat \ {0}
    /\ {TTL, Refresh, Lag, MaxCrashes, MaxFaults, MaxResets, MaxSweeps, MaxPolls} \subseteq Nat

VARIABLES
    now,        \* the clock, in seconds
    conn,       \* the sessions as OpenVPN knows them
    status,     \* the status file
    marker,     \* the user's marker file per pool address
    file,       \* the user's counter file
    minted,     \* epochs handed out
    lock,       \* the user's session lock and the program holding it
    poll,       \* the usage poll
    reported,   \* the last sample the poll answered with
    sweep,      \* a running sweep
    spent,      \* environment events so far, against their bounds
    credit      \* ghost: bytes ever added to the counter, by identity

vars == <<now, conn, status, marker, file, minted, lock, poll, reported,
          sweep, spent, credit>>

NoConn == 0

\* The accounting identities: a marker's session id, and the id derived from
\* a status row when the user has no marker at all (derivedSessionID).
MarkerSid(g) == <<"marker", g>>
RowSid(g) == <<"row", g>>

Phases == {"new", "asking", "live", "ending", "done", "refused", "lost"}

Times == 0..MaxTime

ConnType ==
    [phase : Phases, pool : Pools, start : Times, bytes : 0..MaxBytes,
     crossed : BOOLEAN]     \* ghost, see Crosses and Overtaken

StatusType ==
    [listed : SUBSET Conns, bytes : [Conns -> 0..MaxBytes],
     at : Times, complete : BOOLEAN]

MarkerType == [of : Conns \cup {NoConn}, created : Times]

NoMarker == [of |-> NoConn, created |-> 0]

LockType ==
    [holder : {"free", "connect", "disconnect", "poll"},
     of : Conns \cup {NoConn}]

FreeLock == [holder |-> "free", of |-> NoConn]

PollType ==
    [step : {"idle", "snapshot", "record", "collect", "report", "prune"},
     snap : StatusType, cands : SUBSET Conns, todo : SUBSET Conns,
     present : SUBSET Sids]

SweepType ==
    [kind : {"none", "purge", "stale"}, at : Times,
     step : {"idle", "scan", "remove", "collect", "prune"},
     live : SUBSET Pools, todo : SUBSET Pools, victims : SUBSET Pools,
     hit : BOOLEAN, present : SUBSET Sids]

Budgets == [crashes : 0..MaxCrashes, faults : 0..MaxFaults,
            resets : 0..MaxResets, sweeps : 0..MaxSweeps, polls : 0..MaxPolls]

TypeOK ==
    /\ now \in Times
    /\ conn \in [Conns -> ConnType]
    /\ status \in StatusType
    /\ marker \in [Pools -> MarkerType]
    /\ file \in CounterFile
    /\ minted \in Nat
    /\ lock \in LockType
    /\ poll \in PollType
    /\ reported \in [epoch : Nat, total : Word]
    /\ sweep \in SweepType
    /\ spent \in Budgets
    /\ credit \in [Sids -> Nat]

EmptyStatus(at) ==
    [listed |-> {}, bytes |-> [g \in Conns |-> 0], at |-> at, complete |-> TRUE]

IdlePoll ==
    [step |-> "idle", snap |-> EmptyStatus(0), cands |-> {}, todo |-> {},
     present |-> {}]

IdleSweep ==
    [kind |-> "none", at |-> 0, step |-> "idle", live |-> {}, todo |-> {},
     victims |-> {}, hit |-> FALSE, present |-> {}]

Init ==
    /\ now = 1
    /\ conn = [g \in Conns |-> [phase |-> "new", pool |-> CHOOSE p \in Pools : TRUE,
                                start |-> 0, bytes |-> 0, crossed |-> FALSE]]
    /\ status = EmptyStatus(1)
    /\ marker = [p \in Pools |-> NoMarker]
    /\ file = AbsentFile
    /\ minted = 0
    /\ lock = FreeLock
    /\ poll = IdlePoll
    /\ reported = [epoch |-> 0, total |-> 0]
    /\ sweep = IdleSweep
    /\ spent = [crashes |-> 0, faults |-> 0, resets |-> 0, sweeps |-> 0, polls |-> 0]
    /\ credit = [s \in Sids |-> 0]

InPhase(ps) == {g \in Conns : conn[g].phase \in ps}

Live == InPhase({"live"})

Spend(what) == spent' = [spent EXCEPT ![what] = @ + 1]

------------------------------------------------------------------------------
(***************************************************************************)
(* The counter, as the callers below use it.                               *)
(***************************************************************************)

RecordUsage(s, bytes, closed) ==
    /\ RecordSucceeds(file, s, bytes)
    /\ file' = RecordSessionUsage(file, minted + 1, s, bytes, closed)
    /\ minted' = IF MintsEpoch(file) THEN minted + 1 ELSE minted
    /\ credit' = [credit EXCEPT ![s] = @ + (file'.total - file.total)]

NoRecord == UNCHANGED <<file, minted, credit>>

------------------------------------------------------------------------------
(***************************************************************************)
(* External: the clock and OpenVPN.                                        *)
(***************************************************************************)

\* The clock does not run past the next rewrite of the status file.
Tick ==
    /\ now < MaxTime
    /\ now < status.at + Refresh
    /\ now' = now + 1
    /\ UNCHANGED <<conn, status, marker, file, minted, lock, poll, reported,
                   sweep, spent, credit>>

Traffic(g) ==
    /\ conn[g].phase = "live"
    /\ conn[g].bytes < MaxBytes
    /\ conn' = [conn EXCEPT ![g].bytes = @ + 1]
    /\ UNCHANGED <<now, status, marker, file, minted, lock, poll, reported,
                   sweep, spent, credit>>

\* Sessions that keep their pool address from being handed out again.
HoldingPool ==
    InPhase({"asking", "live"} \cup
            (IF DelayedDisconnect THEN {} ELSE {"ending"}))

ListedAt(st, p) == {h \in st.listed : conn[h].pool = p}

(***************************************************************************)
(* Ghosts: the two ways in which the status file can tell the code of      *)
(* another session than it says.  A connection crosses if a status file    *)
(* from after its handshake began, or the poll's copy, still has its pool  *)
(* address with an earlier session when it arrives.  A session whose       *)
(* marker is in place is overtaken if its address is handed out again      *)
(* while the status file has the address with a session before it.         *)
(***************************************************************************)
Crosses(p, start) ==
    \E st \in {status, poll.snap} : st.at > start /\ ListedAt(st, p) # {}

Overtaken(p) ==
    {m \in {marker[p].of} \ {NoConn} : ListedAt(status, p) \ {m} # {}}

(***************************************************************************)
(* OpenVPN accepts a client, gives it a pool address and starts the        *)
(* connect hook.  start is the time_unix it passes: when the handshake     *)
(* began.  No two connections agree in pool address, start second and real *)
(* address.                                                                *)
(***************************************************************************)
Arrive(g, p, start) ==
    /\ conn[g].phase = "new"
    /\ \A h \in Conns : h < g => conn[h].phase # "new"
    /\ \A h \in HoldingPool : conn[h].pool # p
    /\ start \in 1..now
    /\ start + Lag >= now
    /\ \A h \in Conns : conn[h].phase # "new" =>
         <<conn[h].pool, conn[h].start, AddrOf[h]>> # <<p, start, AddrOf[g]>>
    /\ conn' = [h \in Conns |->
                  IF h = g
                    THEN [conn[g] EXCEPT !.phase = "asking", !.pool = p,
                                         !.start = start,
                                         !.crossed = Crosses(p, start)]
                    ELSE [conn[h] EXCEPT !.crossed = @ \/ h \in Overtaken(p)]]
    /\ UNCHANGED <<now, status, marker, file, minted, lock, poll, reported,
                   sweep, spent, credit>>

\* The session ends; OpenVPN starts the disconnect hook.
End(g) ==
    /\ conn[g].phase = "live"
    /\ conn' = [conn EXCEPT ![g].phase = "ending"]
    /\ UNCHANGED <<now, status, marker, file, minted, lock, poll, reported,
                   sweep, spent, credit>>

StatusOf(listed, complete) ==
    [listed |-> listed,
     bytes |-> [g \in Conns |-> IF g \in listed THEN conn[g].bytes ELSE 0],
     at |-> now, complete |-> complete]

\* The periodic rewrite of the status file.
WriteStatus ==
    /\ status' = StatusOf(Live, TRUE)
    /\ status' # status
    /\ UNCHANGED <<now, conn, marker, file, minted, lock, poll, reported,
                   sweep, spent, credit>>

\* The rewrite in progress: some rows are there, END is not.
TearStatus(part) ==
    /\ TornStatus
    /\ status.complete
    /\ status' = StatusOf(part, FALSE)
    /\ UNCHANGED <<now, conn, marker, file, minted, lock, poll, reported,
                   sweep, spent, credit>>

(***************************************************************************)
(* OpenVPN dies and is started again: no disconnect hook will run for the  *)
(* sessions it had, and it opens the status file truncated.  Connect hooks *)
(* go with it.  Disconnect hooks that were started may go on (orphans),    *)
(* while their pool addresses are free again.  A hook that dies inside its *)
(* critical section is a fault of its own; the kernel releases its lock.   *)
(***************************************************************************)
DaemonCrash(orphans) ==
    LET lost  == InPhase({"asking", "live", "ending"}) \ orphans
        kills == lock.of \in lost
    IN  /\ spent.crashes < MaxCrashes
        /\ InPhase({"asking", "live", "ending"}) # {}
        /\ orphans # {} => DelayedDisconnect
        /\ kills => spent.faults < MaxFaults
        /\ conn' = [g \in Conns |->
                      IF g \in lost THEN [conn[g] EXCEPT !.phase = "lost"]
                                    ELSE conn[g]]
        /\ status' = [EmptyStatus(now) EXCEPT !.complete = FALSE]
        /\ lock' = IF kills THEN FreeLock ELSE lock
        /\ spent' = [spent EXCEPT !.crashes = @ + 1,
                                  !.faults = IF kills THEN @ + 1 ELSE @]
        /\ UNCHANGED <<now, marker, file, minted, poll, reported, sweep,
                       credit>>

------------------------------------------------------------------------------
(***************************************************************************)
(* The connect hook, from the session lock on.                             *)
(***************************************************************************)

\* The rows of the status file, read with ParseSessions: a torn file counts.
RowsAtPool(p) == ListedAt(status, p)

\* bankDisplacedGeneration has something to bank.
Displaces(g) ==
    /\ marker[conn[g].pool].of # NoConn
    /\ RowsAtPool(conn[g].pool) # {}

(***************************************************************************)
(* bankDisplacedGeneration: a marker left at the pool address is closed    *)
(* with the bytes of the row that holds the address in the status file.    *)
(***************************************************************************)
ConnectBank(g) ==
    /\ conn[g].phase = "asking"
    /\ lock.holder = "free"
    /\ lock' = [holder |-> "connect", of |-> g]
    /\ IF Displaces(g)
         THEN \E h \in RowsAtPool(conn[g].pool) :
                RecordUsage(MarkerSid(marker[conn[g].pool].of),
                            status.bytes[h], TRUE)
         ELSE NoRecord
    /\ UNCHANGED <<now, conn, status, marker, poll, reported, sweep, spent>>

\* Mutant of ConnectWrite: the marker carries its expiry for its creation.
ConnectWriteStampsExpiry(g) ==
    /\ lock = [holder |-> "connect", of |-> g]
    /\ marker' = [marker EXCEPT ![conn[g].pool] =
                     [of |-> g, created |-> now + TTL]]
    /\ conn' = [conn EXCEPT ![g].phase = "live"]
    /\ lock' = FreeLock
    /\ UNCHANGED <<now, status, file, minted, poll, reported, sweep, spent,
                   credit>>

\* WriteMarker, and the client is admitted.
ConnectWrite(g) ==
    /\ lock = [holder |-> "connect", of |-> g]
    /\ marker' = [marker EXCEPT ![conn[g].pool] = [of |-> g, created |-> now]]
    /\ conn' = [conn EXCEPT ![g].phase = "live"]
    /\ lock' = FreeLock
    /\ UNCHANGED <<now, status, file, minted, poll, reported, sweep, spent,
                   credit>>

\* Banking or writing the marker fails, or the hook is killed: refused.
ConnectFails(g) ==
    /\ spent.faults < MaxFaults
    /\ \/ conn[g].phase = "asking" /\ lock.holder = "free" /\ Displaces(g)
       \/ lock = [holder |-> "connect", of |-> g]
    /\ conn' = [conn EXCEPT ![g].phase = "refused"]
    /\ lock' = FreeLock
    /\ Spend("faults")
    /\ UNCHANGED <<now, status, marker, file, minted, poll, reported, sweep,
                   credit>>

------------------------------------------------------------------------------
(***************************************************************************)
(* The disconnect hook, from the session lock on.                          *)
(***************************************************************************)

\* Mutant of DisconnectMatches: only the start second is compared.
DisconnectMatchesStart(m, g) == conn[m].start = conn[g].start

\* disconnectMatches for markers with a generation.
DisconnectMatches(m, g) ==
    conn[m].start = conn[g].start /\ AddrOf[m] = AddrOf[g]

OwnsMarker(g) ==
    LET m == marker[conn[g].pool].of
    IN  m # NoConn /\ DisconnectMatches(m, g)

\* No marker, or another generation's: nothing is recorded or removed.
DisconnectIgnored(g) ==
    /\ conn[g].phase = "ending"
    /\ lock.holder = "free"
    /\ ~OwnsMarker(g)
    /\ conn' = [conn EXCEPT ![g].phase = "done"]
    /\ UNCHANGED <<now, status, marker, file, minted, lock, poll, reported,
                   sweep, spent, credit>>

\* The final bytes are committed as a closed receipt.
DisconnectBank(g) ==
    /\ conn[g].phase = "ending"
    /\ lock.holder = "free"
    /\ OwnsMarker(g)
    /\ RecordUsage(MarkerSid(marker[conn[g].pool].of), conn[g].bytes, TRUE)
    /\ lock' = [holder |-> "disconnect", of |-> g]
    /\ UNCHANGED <<now, conn, status, marker, poll, reported, sweep, spent>>

\* The receipt could not be written: the marker is kept.
DisconnectBankFails(g) ==
    /\ spent.faults < MaxFaults
    /\ conn[g].phase = "ending"
    /\ lock.holder = "free"
    /\ OwnsMarker(g)
    /\ conn' = [conn EXCEPT ![g].phase = "done"]
    /\ Spend("faults")
    /\ UNCHANGED <<now, status, marker, file, minted, lock, poll, reported,
                   sweep, credit>>

DisconnectRemove(g) ==
    /\ lock = [holder |-> "disconnect", of |-> g]
    /\ marker' = [marker EXCEPT ![conn[g].pool] = NoMarker]
    /\ conn' = [conn EXCEPT ![g].phase = "done"]
    /\ lock' = FreeLock
    /\ UNCHANGED <<now, status, file, minted, poll, reported, sweep, spent,
                   credit>>

\* The marker cannot be removed, or the hook is killed before it is.
DisconnectRemoveFails(g) ==
    /\ spent.faults < MaxFaults
    /\ lock = [holder |-> "disconnect", of |-> g]
    /\ conn' = [conn EXCEPT ![g].phase = "done"]
    /\ lock' = FreeLock
    /\ Spend("faults")
    /\ UNCHANGED <<now, status, marker, file, minted, poll, reported, sweep,
                   credit>>

------------------------------------------------------------------------------
(***************************************************************************)
(* The usage poll (UsersUsage).                                            *)
(***************************************************************************)

\* ReadStatusSnapshot refuses a file without END; no rows, no session lock.
PollSnapshot ==
    /\ poll.step = "idle"
    /\ spent.polls < MaxPolls
    /\ status.complete
    /\ poll' = [IdlePoll EXCEPT
                  !.step = IF status.listed = {} THEN "collect" ELSE "snapshot",
                  !.snap = status]
    /\ Spend("polls")
    /\ UNCHANGED <<now, conn, status, marker, file, minted, lock, reported,
                   sweep, credit>>

OnDisk == {marker[p].of : p \in Pools} \ {NoConn}

\* The session lock is taken and the user's markers are read.
PollLock ==
    /\ poll.step = "snapshot"
    /\ lock.holder = "free"
    /\ lock' = [holder |-> "poll", of |-> NoConn]
    /\ poll' = [poll EXCEPT !.step = "record", !.cands = OnDisk,
                            !.todo = poll.snap.listed]
    /\ UNCHANGED <<now, conn, status, marker, file, minted, reported, sweep,
                   spent, credit>>

\* Mutant of ChooseMarker: a marker newer than the snapshot is not skipped.
ChooseMarkerAnyAge(g) ==
    {m \in poll.cands : conn[m].pool = conn[g].pool}

\* chooseMarker: the marker at the row's pool address, unless the snapshot is
\* not newer than the marker's connection.
ChooseMarker(g) ==
    {m \in poll.cands : /\ conn[m].start < poll.snap.at
                        /\ conn[m].pool = conn[g].pool}

\* The identity a row is recorded under; none when the user has markers and
\* no one of them fits.
RowIdentity(g) ==
    IF ChooseMarker(g) # {} THEN {MarkerSid(m) : m \in ChooseMarker(g)}
    ELSE IF poll.cands = {} THEN {RowSid(g)}
    ELSE {}

\* Mutant of AfterRow: the lock is not released after the last row.
AfterRowKeepsLock(g, present) ==
    /\ poll' = [poll EXCEPT !.step = IF poll.todo = {g} THEN "collect" ELSE @,
                            !.todo = @ \ {g}, !.present = present]
    /\ UNCHANGED lock

\* The lock goes with the last row.
AfterRow(g, present) ==
    IF poll.todo = {g}
      THEN /\ lock' = FreeLock
           /\ poll' = [poll EXCEPT !.step = "collect", !.todo = {},
                                   !.cands = {}, !.present = present]
      ELSE /\ poll' = [poll EXCEPT !.todo = @ \ {g}, !.present = present]
           /\ UNCHANGED lock

\* Mutant of PollRecord: a polled row is recorded as final.
PollRecordCloses(g) ==
    /\ poll.step = "record"
    /\ g \in poll.todo
    /\ \E s \in RowIdentity(g) :
         /\ RecordUsage(s, poll.snap.bytes[g], TRUE)
         /\ AfterRow(g, poll.present \cup {s})
    /\ UNCHANGED <<now, conn, status, marker, reported, sweep, spent>>

PollRecord(g) ==
    /\ poll.step = "record"
    /\ g \in poll.todo
    /\ \E s \in RowIdentity(g) :
         /\ RecordUsage(s, poll.snap.bytes[g], FALSE)
         /\ AfterRow(g, poll.present \cup {s})
    /\ UNCHANGED <<now, conn, status, marker, reported, sweep, spent>>

PollSkip(g) ==
    /\ poll.step = "record"
    /\ g \in poll.todo
    /\ RowIdentity(g) = {}
    /\ AfterRow(g, poll.present)
    /\ NoRecord
    /\ UNCHANGED <<now, conn, status, marker, reported, sweep, spent>>

\* A record that fails aborts the poll: no sample, nothing is pruned.
PollAborts ==
    /\ poll.step = "record"
    /\ spent.faults < MaxFaults
    /\ poll' = IdlePoll
    /\ lock' = FreeLock
    /\ Spend("faults")
    /\ UNCHANGED <<now, conn, status, marker, file, minted, reported, sweep,
                   credit>>

\* The counter file is looked for and the markers on disk are read once more,
\* without the lock; a user without a counter file has no sample.
PollCollect ==
    /\ poll.step = "collect"
    /\ poll' = IF file.kind = "absent" THEN IdlePoll
               ELSE [IdlePoll EXCEPT
                       !.step = "report",
                       !.present = poll.present \cup {MarkerSid(m) : m \in OnDisk}]
    /\ UNCHANGED <<now, conn, status, marker, file, minted, lock, reported,
                   sweep, spent, credit>>

\* The sample.
PollReport ==
    /\ poll.step = "report"
    /\ reported' = [epoch |-> file.epoch, total |-> file.total]
    /\ poll' = [poll EXCEPT !.step = "prune"]
    /\ UNCHANGED <<now, conn, status, marker, file, minted, lock, sweep,
                   spent, credit>>

PollPrune ==
    /\ poll.step = "prune"
    /\ file' = PruneReceipts(file, poll.present)
    /\ poll' = IdlePoll
    /\ UNCHANGED <<now, conn, status, marker, minted, lock, reported, sweep,
                   spent, credit>>

\* The reset handler of the API: one call of the store.
Reset ==
    /\ spent.resets < MaxResets
    /\ file' = ResetUsage(file, minted + 1)
    /\ minted' = minted + 1
    /\ Spend("resets")
    /\ UNCHANGED <<now, conn, status, marker, lock, poll, reported, sweep,
                   credit>>

------------------------------------------------------------------------------
(***************************************************************************)
(* The sweeps.  Neither takes the session lock, so each reads the status   *)
(* file, reads markers and removes files in separate steps.                *)
(***************************************************************************)

PoolsListed == {conn[g].pool : g \in status.listed}

Markers == {p \in Pools : marker[p] # NoMarker}

StartSweep(kind) ==
    /\ sweep.step = "idle"
    /\ spent.sweeps < MaxSweeps
    /\ sweep' = [IdleSweep EXCEPT !.kind = kind, !.step = "scan",
                                  !.at = now, !.live = PoolsListed]
    /\ Spend("sweeps")
    /\ UNCHANGED <<now, conn, status, marker, file, minted, lock, poll,
                   reported, credit>>

\* PurgeStale keeps every marker when the snapshot is incomplete.
PurgeStart == status.complete /\ StartSweep("purge")

\* DisconnectUser(only_stale) reads with ParseSessions: torn files count.
StaleStart == StartSweep("stale")

\* The directory is listed; only_stale also reads every marker here.
SweepList ==
    /\ sweep.step = "scan"
    /\ sweep' =
         IF sweep.kind = "purge"
           THEN [sweep EXCEPT !.step = "remove", !.todo = Markers]
           ELSE [sweep EXCEPT !.step = "remove",
                              !.victims = Markers \ sweep.live]
    /\ UNCHANGED <<now, conn, status, marker, file, minted, lock, poll,
                   reported, spent, credit>>

\* PurgeStale reads one marker and decides by its age and pool address.
PurgeRead(p) ==
    /\ sweep.step = "remove"
    /\ sweep.victims = {}
    /\ p \in sweep.todo
    /\ sweep' = [sweep EXCEPT
                   !.todo = @ \ {p},
                   !.victims = IF /\ marker[p] # NoMarker
                                  /\ sweep.at > marker[p].created + TTL
                                  /\ p \notin sweep.live
                               THEN {p} ELSE {}]
    /\ UNCHANGED <<now, conn, status, marker, file, minted, lock, poll,
                   reported, spent, credit>>

\* os.Remove by name: whatever marker has the name by now.
SweepRemove(p) ==
    /\ sweep.step = "remove"
    /\ p \in sweep.victims
    /\ marker' = [marker EXCEPT ![p] = NoMarker]
    /\ sweep' = [sweep EXCEPT !.victims = @ \ {p},
                              !.hit = @ \/ marker[p] # NoMarker]
    /\ UNCHANGED <<now, conn, status, file, minted, lock, poll, reported,
                   spent, credit>>

\* Purge goes on to retire receipts when it removed a marker.
SweepEnd ==
    /\ sweep.step = "remove"
    /\ sweep.todo = {} /\ sweep.victims = {}
    /\ sweep' = IF sweep.kind = "purge" /\ sweep.hit
                  THEN [IdleSweep EXCEPT !.kind = "purge", !.step = "collect"]
                  ELSE IdleSweep
    /\ UNCHANGED <<now, conn, status, marker, file, minted, lock, poll,
                   reported, spent, credit>>

PurgeCollect ==
    /\ sweep.step = "collect"
    /\ sweep' = [sweep EXCEPT !.step = "prune",
                              !.present = {MarkerSid(m) : m \in OnDisk}]
    /\ UNCHANGED <<now, conn, status, marker, file, minted, lock, poll,
                   reported, spent, credit>>

PurgePrune ==
    /\ sweep.step = "prune"
    /\ file' = PruneReceipts(file, sweep.present)
    /\ sweep' = IdleSweep
    /\ UNCHANGED <<now, conn, status, marker, minted, lock, poll, reported,
                   spent, credit>>

------------------------------------------------------------------------------
HookStep(g) ==
    \/ ConnectBank(g) \/ ConnectWrite(g)
    \/ DisconnectIgnored(g) \/ DisconnectBank(g) \/ DisconnectRemove(g)

HookFault(g) ==
    ConnectFails(g) \/ DisconnectBankFails(g) \/ DisconnectRemoveFails(g)

PollStep ==
    \/ PollLock \/ PollCollect \/ PollReport \/ PollPrune
    \/ \E g \in Conns : PollRecord(g) \/ PollSkip(g)

SweepStep ==
    \/ SweepList \/ SweepEnd \/ PurgeCollect \/ PurgePrune
    \/ \E p \in Pools : PurgeRead(p) \/ SweepRemove(p)

Next ==
    \/ Tick
    \/ \E g \in Conns : Traffic(g) \/ End(g)
    \/ \E g \in Conns, p \in Pools, start \in Times : Arrive(g, p, start)
    \/ WriteStatus
    \/ \E part \in SUBSET Live : TearStatus(part)
    \/ \E orphans \in SUBSET InPhase({"ending"}) : DaemonCrash(orphans)
    \/ \E g \in Conns : HookStep(g) \/ HookFault(g)
    \/ PollSnapshot \/ PollStep \/ PollAborts
    \/ Reset
    \/ PurgeStart \/ StaleStart \/ SweepStep

(***************************************************************************)
(* Fairness: a program that was started keeps running.  Locks are flocks,  *)
(* so a hook waiting for one gets it when the holder is done; the holder   *)
(* of a lock never waits for another hook.                                 *)
(***************************************************************************)
Fairness ==
    /\ \A g \in Conns : WF_vars(HookStep(g))
    /\ WF_vars(PollStep)

Spec == Init /\ [][Next]_vars

FairSpec == Spec /\ Fairness

------------------------------------------------------------------------------
(***************************************************************************)
(* Properties.                                                             *)
(***************************************************************************)

(***************************************************************************)
(* While no file operation has failed, an accounting identity is never     *)
(* credited with more than its own session moved: neither a stale status   *)
(* row of an earlier session at the same pool address nor a repeated       *)
(* observation adds to it (chooseMarker, bankDisplacedGeneration,          *)
(* RecordSessionUsage).  Excepted are sessions that crossed or were        *)
(* overtaken: there the status file misleads the code.  A hook that closes *)
(* its receipt and fails to remove the marker can have it counted again,   *)
(* after a reset or a prune.                                               *)
(***************************************************************************)
IdentityCountedOnce ==
    spent.faults = 0 =>
        /\ \A g \in Conns :
             credit[MarkerSid(g)] <= conn[g].bytes \/ conn[g].crossed
        /\ \A g \in Conns : credit[RowSid(g)] <= conn[g].bytes

(***************************************************************************)
(* When the disconnect hook of a session is through, every byte of the     *)
(* session has been counted under its marker's identity, and nothing else  *)
(* unless it crossed, whatever polls and resets ran in between             *)
(* (Disconnect).                                                           *)
(***************************************************************************)
FinishedIsCounted ==
    \A g \in Conns : conn[g].phase = "done" =>
        /\ credit[MarkerSid(g)] >= conn[g].bytes
        /\ credit[MarkerSid(g)] = conn[g].bytes \/ conn[g].crossed

(***************************************************************************)
(* Two samples of one epoch never go down, however the poll interleaves    *)
(* with hooks, sweeps and resets (UsersUsage, ResetUsage).                 *)
(***************************************************************************)
ReportsGrow ==
    [][reported'.epoch = reported.epoch
         => reported'.total >= reported.total]_vars

(***************************************************************************)
(* A disconnect hook, however delayed, removes and closes only its own     *)
(* session's marker and receipt, never those of the session that took over *)
(* its pool address (disconnectMatches and the session lock).              *)
(***************************************************************************)
DisconnectTouchesOnlyItsOwn ==
    [][\A g \in Conns : DisconnectBank(g) \/ DisconnectRemove(g) =>
         /\ marker' # marker => marker[conn[g].pool].of = g
         /\ \A h \in Conns \ {g} :
              file'.sessions[MarkerSid(h)] = file.sessions[MarkerSid(h)]]_vars

(***************************************************************************)
(* A session that ends is banked: nothing makes its disconnect hook wait   *)
(* for the session lock for ever.                                          *)
(***************************************************************************)
EndIsBanked ==
    \A g \in Conns :
        conn[g].phase = "ending" ~> credit[MarkerSid(g)] >= conn[g].bytes

(***************************************************************************)
(* What README.md says of the counter, per session: "per-session           *)
(* increments are counted once across polls, disconnects, replay, restart, *)
(* and reset".  A session has two identities, and both together must not   *)
(* exceed its bytes.                                                       *)
(***************************************************************************)
SessionCountedOnce ==
    \A g \in Conns :
        credit[MarkerSid(g)] + credit[RowSid(g)] <= conn[g].bytes

==============================================================================
