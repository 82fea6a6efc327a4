------------------------ MODULE SessionAccountingProofs ------------------------
(***************************************************************************)
(* Proofs about SessionAccounting, for any number of connections, pool     *)
(* addresses, polls, resets, crashes, sweeps and faults.                   *)
(***************************************************************************)
EXTENDS SessionAccounting, FiniteSetTheorems, TLAPS

(***************************************************************************)
(* The invariant, in layers.                                               *)
(***************************************************************************)
StoreType ==
    /\ file \in CounterFile
    /\ minted \in Nat
    /\ reported \in [epoch : Nat, total : Word]
    /\ credit \in [Sids -> Nat]

\* Every epoch was minted, and a sample of the epoch that runs is not above
\* the total.
Sampled ==
    /\ file.kind \in {"absent", "v2"}
    /\ file.kind = "absent" => file.epoch = NoEpoch
    /\ file.kind = "v2" => file.epoch # NoEpoch
    /\ file.epoch <= minted /\ reported.epoch <= minted
    /\ reported.epoch = file.epoch => reported.total <= file.total

\* No two connections agree in pool address, start and real address.
Distinct ==
    \A g, h \in Conns :
        /\ g # h /\ conn[g].phase # "new" /\ conn[h].phase # "new"
        /\ conn[g].pool = conn[h].pool /\ conn[g].start = conn[h].start
        => AddrOf[g] # AddrOf[h]

\* A marker is at the pool address of the connection that wrote it.
Placed ==
    \A p \in Pools :
        /\ marker[p].of = NoConn => marker[p] = NoMarker
        /\ marker[p].of # NoConn =>
             conn[marker[p].of].pool = p /\ conn[marker[p].of].phase # "new"

\* Who holds the session lock, and what it finds at its pool address.
Locked ==
    /\ lock.holder \in {"free", "poll"} => lock.of = NoConn
    /\ lock.holder = "connect" => lock.of \in Conns /\ conn[lock.of].phase = "asking"
    /\ lock.holder = "disconnect" =>
         /\ lock.of \in Conns /\ conn[lock.of].phase = "ending"
         /\ marker[conn[lock.of].pool].of \in {lock.of, NoConn}
    /\ lock.holder = "poll" <=> poll.step = "record"

\* Connections arrive in the order of their numbers, and a pool address has
\* one connection at a time that is admitted or asks to be; its marker is
\* there or was swept.
Ordered ==
    /\ \A g, h \in Conns : g < h /\ conn[h].phase # "new" =>
         /\ conn[g].phase # "new"
         /\ conn[g].pool = conn[h].pool => conn[g].phase \notin {"asking", "live"}
    /\ \A g \in Conns : conn[g].phase = "live" => marker[conn[g].pool].of \in {g, NoConn}
    /\ \A p \in Pools : marker[p].of # NoConn => conn[marker[p].of].phase # "asking"

\* What a status file, or a copy of one, says: rows of connections that were
\* admitted.  The marker at a row's pool address is not an earlier one's, and
\* who came to the address later began after the file was written or crossed.
Rows(st) ==
    \A h \in st.listed :
        /\ conn[h].phase \notin {"new", "asking"}
        /\ st.bytes[h] <= conn[h].bytes
        /\ \A g \in Conns : conn[g].pool = conn[h].pool =>
             /\ g < h => marker[conn[h].pool].of # g
             /\ g > h /\ conn[g].phase # "new" => conn[g].start >= st.at \/ conn[g].crossed

\* The poll's rows are those of its copy, and no marker it found is of an
\* earlier session at the address of a row.
Matching ==
    poll.step = "record" =>
        /\ poll.todo \subseteq poll.snap.listed
        /\ \A m \in poll.cands : /\ conn[m].phase \notin {"new", "asking"}
                                 /\ \A h \in poll.todo : m < h => conn[m].pool # conn[h].pool

\* The row a connect hook banks is that of the marker it displaces, or the
\* marker's session was overtaken.
Displaced ==
    \A g \in Conns : conn[g].phase = "asking" /\ marker[conn[g].pool].of # NoConn =>
        \A h \in status.listed : conn[h].pool = conn[g].pool =>
            h = marker[conn[g].pool].of \/ conn[marker[conn[g].pool].of].crossed

\* Something may yet be recorded for the session's marker identity.
Reach(g) ==
    \/ conn[g].phase \in {"new", "asking"}
    \/ marker[conn[g].pool].of = g
    \/ poll.step = "record" /\ g \in poll.cands

\* A hook has committed the last record and is about to change the marker.
Closing(g) ==
    \/ lock.holder = "disconnect" /\ lock.of = g
    \/ lock.holder = "connect" /\ marker[conn[lock.of].pool].of = g

Pending(g) == Reach(g) /\ ~Closing(g)

\* Until a write fails: what an identity was credited with.
Credited ==
    spent.faults = 0 =>
        \A g \in Conns :
            /\ Pending(g) => /\ ~file.sessions[MarkerSid(g)].closed
                             /\ credit[MarkerSid(g)] = file.sessions[MarkerSid(g)].bytes
            /\ \/ credit[MarkerSid(g)] <= conn[g].bytes
               \/ conn[g].crossed /\ conn[g].phase # "new"
            /\ ~file.sessions[RowSid(g)].closed
            /\ credit[RowSid(g)] = file.sessions[RowSid(g)].bytes
            /\ credit[RowSid(g)] <= conn[g].bytes

(***************************************************************************)
(* While a pool address is not used again before the disconnect hook has   *)
(* run, no sweep runs and no write fails.                                  *)
(***************************************************************************)
Prompt == ~DelayedDisconnect /\ MaxSweeps = 0 /\ MaxFaults = 0

\* A session has its pool address and its marker until its hook is through.
Attended ==
    /\ sweep.step = "idle"
    /\ \A g, h \in Conns :
         g < h /\ conn[h].phase # "new" /\ conn[g].pool = conn[h].pool => conn[g].phase # "ending"
    /\ \A g \in Conns : conn[g].phase \in {"live", "ending"} => marker[conn[g].pool].of = g

\* The final bytes of a session whose hook has committed are in the counter.
Settled ==
    \A g \in Conns :
        conn[g].phase = "done" \/ (lock.holder = "disconnect" /\ lock.of = g)
          => credit[MarkerSid(g)] >= conn[g].bytes

LEMMA Numbers ==
    /\ MaxCount \in Nat \ {0} /\ MaxBytes \in Nat /\ MaxBytes <= MaxCount
    /\ MaxTime \in Nat \ {0} /\ Lag \in Nat /\ TTL \in Nat /\ Refresh \in Nat
    /\ MaxCrashes \in Nat /\ MaxFaults \in Nat /\ MaxResets \in Nat /\ MaxSweeps \in Nat
    /\ MaxPolls \in Nat /\ Pools # {}
BY MaxCountAssumption, BytesAssumption, BoundsAssumption
   DEF BytesAssumption, BoundsAssumption, MaxCountAssumption, Word

LEMMA ConnsAreNumbers == Conns \subseteq Nat /\ NoConn \notin Conns
<1>1. Cardinality(Conns) \in Nat
  BY BoundsAssumption, FS_CardinalityType DEF BoundsAssumption
<1> QED  BY <1>1, ConnsAssumption DEF ConnsAssumption, NoConn

\* The two identities of a connection.
LEMMA Identities ==
    /\ \A g \in Conns : MarkerSid(g) \in Sids /\ RowSid(g) \in Sids
    /\ \A g, h : MarkerSid(g) # RowSid(h)
    /\ \A g, h : MarkerSid(g) = MarkerSid(h) => g = h
    /\ \A g, h : RowSid(g) = RowSid(h) => g = h
    /\ \A s \in Sids : \E g \in Conns : (s = MarkerSid(g) \/ s = RowSid(g)) /\ s[2] = g
BY SidsAssumption DEF SidsAssumption, MarkerSid, RowSid

(***************************************************************************)
(* The counter file.                                                       *)
(***************************************************************************)
LEMMA NoSessionType == NoSession \in UsageSession
BY MaxCountAssumption DEF NoSession, UsageSession, Word

\* What a record adds, to the total and to the offset of its identity.
LEMMA RecordEffect ==
    ASSUME NEW f \in CounterFile, NEW e \in Nat \ {0}, NEW s \in Sids,
           NEW bytes \in Word, NEW closed \in BOOLEAN, RecordSucceeds(f, s, bytes)
    PROVE  LET k == RecordSessionUsage(f, e, s, bytes, closed)
               d == Delta(f.sessions[s], bytes)
           IN  /\ k \in CounterFile /\ k.kind = "v2"
               /\ k.epoch = IF f.kind = "absent" \/ f.epoch = NoEpoch THEN e ELSE f.epoch
               /\ d \in Nat /\ k.total = f.total + d
               /\ k.sessions[s].bytes = f.sessions[s].bytes + d
               /\ k.sessions[s].closed <=> f.sessions[s].closed \/ closed
               /\ \A t \in Sids \ {s} : k.sessions[t] = f.sessions[t]
<1> DEFINE k == RecordSessionUsage(f, e, s, bytes, closed)
           d == Delta(f.sessions[s], bytes)
<1>1. f.sessions[s] \in UsageSession /\ f.total \in Word
  BY DEF CounterFile
<1>2. d \in Nat /\ f.sessions[s].bytes + d \in Word /\ d \in Word
  BY <1>1, MaxCountAssumption DEF Delta, UsageSession, Word
<1>3. AddWord(f.total, d) = f.total + d /\ f.total + d \in Word
  BY <1>1, <1>2, MaxCountAssumption DEF RecordSucceeds, Overflows, AddWord, Word
<1> DEFINE entry == [known |-> TRUE, bytes |-> f.sessions[s].bytes + d,
                     closed |-> f.sessions[s].closed \/ closed]
<1>4. k = [kind |-> "v2",
           epoch |-> IF f.kind = "absent" \/ f.epoch = NoEpoch THEN e ELSE f.epoch,
           total |-> f.total + d,
           sessions |-> [f.sessions EXCEPT ![s] = entry]]
  BY <1>3 DEF RecordSessionUsage, WriteUsageState, EpochToWrite, ReadUsageState, NoEpoch
<1>5. entry \in UsageSession
  BY <1>1, <1>2 DEF UsageSession
<1>6. entry.bytes = f.sessions[s].bytes + d /\ (entry.closed <=> f.sessions[s].closed \/ closed)
  OBVIOUS
<1> HIDE DEF entry
<1>7. [f.sessions EXCEPT ![s] = entry] \in [Sids -> UsageSession]
  BY <1>5 DEF CounterFile
<1>8. k \in CounterFile
  BY <1>3, <1>4, <1>7 DEF CounterFile
<1>9. k.sessions[s] = entry /\ \A t \in Sids \ {s} : k.sessions[t] = f.sessions[t]
  BY <1>4 DEF CounterFile
<1>10. k.kind = "v2" /\ k.total = f.total + d
         /\ k.epoch = IF f.kind = "absent" \/ f.epoch = NoEpoch THEN e ELSE f.epoch
  BY <1>4
<1> HIDE DEF k, d
<1>11. /\ k.sessions[s].bytes = f.sessions[s].bytes + d
       /\ k.sessions[s].closed <=> f.sessions[s].closed \/ closed
  BY <1>6, <1>9
<1> QED  BY <1>2, <1>8, <1>9, <1>10, <1>11 DEF k, d

LEMMA PruneEffect ==
    ASSUME NEW f \in CounterFile, NEW present
    PROVE  LET k == PruneReceipts(f, present)
           IN  /\ k \in CounterFile
               /\ k.kind = f.kind /\ k.epoch = f.epoch /\ k.total = f.total
               /\ \A t \in Sids : ~f.sessions[t].closed => k.sessions[t] = f.sessions[t]
BY NoSessionType DEF PruneReceipts, Prunable, CounterFile

LEMMA ResetEffect ==
    ASSUME NEW f \in CounterFile, NEW e \in Nat
    PROVE  LET k == ResetUsage(f, e)
           IN  /\ k \in CounterFile
               /\ k.kind = "v2" /\ k.epoch = e /\ k.total = 0
               /\ \A t \in Sids : ~f.sessions[t].closed => k.sessions[t] = f.sessions[t]
BY NoSessionType, MaxCountAssumption DEF ResetUsage, WriteUsageState, CounterFile, Word

(***************************************************************************)
(* What a step may do to the counter and to the sample.                    *)
(***************************************************************************)
Recorded(s, b, closed) == RecordUsage(s, b, closed) /\ reported' = reported

Untouched == UNCHANGED <<file, minted, credit, reported>>

Pruned ==
    /\ \E present : file' = PruneReceipts(file, present)
    /\ UNCHANGED <<minted, credit, reported>>

Rotated ==
    /\ file' = ResetUsage(file, minted + 1)
    /\ minted' = minted + 1
    /\ UNCHANGED <<credit, reported>>

Answered ==
    /\ reported' = [epoch |-> file.epoch, total |-> file.total]
    /\ UNCHANGED <<file, minted, credit>>

StoreStep ==
    \/ Untouched \/ Pruned \/ Rotated \/ Answered
    \/ \E s \in Sids, b \in 0 .. MaxBytes, closed \in BOOLEAN : Recorded(s, b, closed)

LEMMA RecordedEffect ==
    ASSUME StoreType, NEW s \in Sids, NEW b \in 0 .. MaxBytes, NEW closed \in BOOLEAN,
           Recorded(s, b, closed)
    PROVE  /\ StoreType'
           /\ file'.kind = "v2"
           /\ file'.epoch = IF file.kind = "absent" \/ file.epoch = NoEpoch
                              THEN minted + 1 ELSE file.epoch
           /\ minted' = IF MintsEpoch(file) THEN minted + 1 ELSE minted
           /\ file'.total >= file.total /\ reported' = reported
           /\ \E d \in Nat : /\ d = Delta(file.sessions[s], b)
                             /\ file'.sessions[s].bytes = file.sessions[s].bytes + d
                             /\ credit'[s] = credit[s] + d
           /\ file'.sessions[s].closed <=> file.sessions[s].closed \/ closed
           /\ \A t \in Sids \ {s} : file'.sessions[t] = file.sessions[t] /\ credit'[t] = credit[t]
<1> DEFINE d == Delta(file.sessions[s], b)
<1>1. /\ file \in CounterFile /\ minted + 1 \in Nat \ {0} /\ b \in Word /\ minted \in Nat
      /\ RecordSucceeds(file, s, b)
  BY Numbers DEF StoreType, Recorded, RecordUsage, Word
<1>2. /\ file' \in CounterFile /\ file'.kind = "v2"
      /\ file'.epoch = IF file.kind = "absent" \/ file.epoch = NoEpoch
                         THEN minted + 1 ELSE file.epoch
      /\ d \in Nat /\ file'.total = file.total + d
      /\ file'.sessions[s].bytes = file.sessions[s].bytes + d
      /\ file'.sessions[s].closed <=> file.sessions[s].closed \/ closed
      /\ \A t \in Sids \ {s} : file'.sessions[t] = file.sessions[t]
  BY <1>1, RecordEffect DEF Recorded, RecordUsage
<1>3. file.total \in Nat
  BY <1>1, Numbers DEF CounterFile, Word
<1> HIDE DEF d
<1>4. credit' = [credit EXCEPT ![s] = @ + d]
  <2>1. file'.total - file.total = d
    BY <1>2, <1>3
  <2> QED  BY <2>1 DEF Recorded, RecordUsage
<1>5. credit' \in [Sids -> Nat] /\ credit'[s] = credit[s] + d
        /\ \A t \in Sids \ {s} : credit'[t] = credit[t]
  BY <1>2, <1>4 DEF StoreType
<1>6. minted' = (IF MintsEpoch(file) THEN minted + 1 ELSE minted) /\ reported' = reported
  BY DEF Recorded, RecordUsage
<1>7. StoreType'
  BY <1>1, <1>2, <1>5, <1>6 DEF StoreType
<1> QED  BY <1>2, <1>3, <1>5, <1>6, <1>7 DEF d

LEMMA StoreKept ==
    ASSUME StoreType, Sampled, StoreStep
    PROVE  /\ StoreType' /\ Sampled'
           /\ reported'.epoch = reported.epoch => reported'.total >= reported.total
<1>0. /\ file \in CounterFile /\ minted \in Nat /\ file.epoch \in Nat /\ file.total \in Nat
      /\ file.total \in Word /\ reported.epoch \in Nat /\ reported.total \in Nat
  BY Numbers DEF StoreType, CounterFile, Word
<1>1. CASE Untouched
  BY <1>0, <1>1 DEF Untouched, StoreType, Sampled
<1>2. CASE Pruned
  <2>1. PICK present : file' = PruneReceipts(file, present)
    BY <1>2 DEF Pruned
  <2>2. /\ file' \in CounterFile
        /\ file'.kind = file.kind /\ file'.epoch = file.epoch /\ file'.total = file.total
    BY <1>0, <2>1, PruneEffect
  <2> QED  BY <1>0, <1>2, <2>2 DEF Pruned, StoreType, Sampled
<1>3. CASE Rotated
  <2>1. minted + 1 \in Nat /\ file' = ResetUsage(file, minted + 1)
    BY <1>0, <1>3 DEF Rotated
  <2>2. /\ file' \in CounterFile
        /\ file'.kind = "v2" /\ file'.epoch = minted + 1 /\ file'.total = 0
    BY <1>0, <2>1, ResetEffect
  <2> QED  BY <1>0, <1>3, <2>1, <2>2 DEF Rotated, StoreType, Sampled, NoEpoch
<1>4. CASE Answered
  <2>1. reported'.epoch = file.epoch /\ reported'.total = file.total
          /\ reported' \in [epoch : Nat, total : Word]
    BY <1>0, <1>4 DEF Answered
  <2> QED  BY <1>0, <1>4, <2>1 DEF Answered, StoreType, Sampled
<1>5. ASSUME NEW s \in Sids, NEW b \in 0 .. MaxBytes, NEW closed \in BOOLEAN,
             Recorded(s, b, closed)
      PROVE  /\ StoreType' /\ Sampled'
             /\ reported'.epoch = reported.epoch => reported'.total >= reported.total
  <2>1. /\ StoreType'
        /\ file'.kind = "v2"
        /\ file'.epoch = IF file.kind = "absent" \/ file.epoch = NoEpoch
                           THEN minted + 1 ELSE file.epoch
        /\ minted' = IF MintsEpoch(file) THEN minted + 1 ELSE minted
        /\ file'.total >= file.total /\ reported' = reported
    BY <1>5, RecordedEffect
  <2>2. file'.total \in Nat
    BY <2>1, Numbers DEF StoreType, CounterFile, Word
  <2>3. CASE file.kind = "absent"
    <3>1. file'.epoch = minted + 1 /\ minted' = minted + 1
      BY <2>1, <2>3 DEF MintsEpoch
    <3> QED  BY <1>0, <2>1, <2>2, <3>1 DEF Sampled, NoEpoch
  <2>4. CASE file.kind = "v2"
    <3>1. file'.epoch = file.epoch /\ minted' = minted
      BY <2>1, <2>4 DEF MintsEpoch, Sampled
    <3> QED  BY <1>0, <2>1, <2>2, <2>4, <3>1 DEF Sampled
  <2> QED  BY <2>3, <2>4 DEF Sampled
<1> QED  BY <1>1, <1>2, <1>3, <1>4, <1>5 DEF StoreStep

(***************************************************************************)
(* The rest of the state has its type.                                     *)
(***************************************************************************)
StateType ==
    /\ now \in Times
    /\ conn \in [Conns -> ConnType]
    /\ status \in StatusType
    /\ marker \in [Pools -> MarkerType]
    /\ lock \in LockType
    /\ poll \in PollType
    /\ sweep \in SweepType
    /\ spent \in Budgets

LEMMA EmptyTypes ==
    /\ \A t \in Times, c \in BOOLEAN : [EmptyStatus(t) EXCEPT !.complete = c] \in StatusType
    /\ \A t \in Times : EmptyStatus(t) \in StatusType
    /\ 0 \in Times /\ 1 \in Times
    /\ IdlePoll \in PollType /\ IdleSweep \in SweepType
    /\ FreeLock \in LockType /\ NoMarker \in MarkerType
<1>1. 0 \in Times /\ 1 \in Times /\ 0 \in 0 .. MaxBytes
  BY Numbers DEF Times
<1>2. /\ \A t \in Times, c \in BOOLEAN : [EmptyStatus(t) EXCEPT !.complete = c] \in StatusType
      /\ \A t \in Times : EmptyStatus(t) \in StatusType
  BY <1>1 DEF EmptyStatus, StatusType
<1>3. IdlePoll \in PollType
  BY <1>1, <1>2 DEF IdlePoll, PollType
<1>4. IdleSweep \in SweepType
  BY <1>1 DEF IdleSweep, SweepType
<1>5. FreeLock \in LockType /\ NoMarker \in MarkerType
  BY <1>1 DEF FreeLock, LockType, NoMarker, MarkerType
<1> QED  BY <1>1, <1>2, <1>3, <1>4, <1>5

LEMMA OnDiskType ==
    ASSUME StateType
    PROVE  OnDisk \subseteq Conns
BY DEF StateType, OnDisk, MarkerType

LEMMA StatusOfType ==
    ASSUME StateType, NEW listed \in SUBSET Conns, NEW c \in BOOLEAN
    PROVE  StatusOf(listed, c) \in StatusType
<1>1. [g \in Conns |-> IF g \in listed THEN conn[g].bytes ELSE 0] \in [Conns -> 0 .. MaxBytes]
  BY Numbers DEF StateType, ConnType
<1> QED  BY <1>1 DEF StateType, StatusOf, StatusType

\* The identity a row is recorded under is one of the user's.
LEMMA RowIdentityType ==
    ASSUME StateType, NEW g \in Conns, NEW s \in RowIdentity(g)
    PROVE  s \in Sids
<1>1. poll.cands \subseteq Conns
  BY DEF StateType, PollType
<1> QED  BY <1>1, Identities DEF RowIdentity, ChooseMarker

LEMMA SpendType ==
    ASSUME StateType, NEW w \in {"crashes", "faults", "resets", "sweeps", "polls"},
           w = "crashes" => spent.crashes < MaxCrashes,
           w = "faults" => spent.faults < MaxFaults,
           w = "resets" => spent.resets < MaxResets,
           w = "sweeps" => spent.sweeps < MaxSweeps,
           w = "polls" => spent.polls < MaxPolls,
           Spend(w)
    PROVE  spent' \in Budgets
BY Numbers DEF StateType, Spend, Budgets

\* One connection changes.
LEMMA ConnPhase ==
    ASSUME StateType, NEW g \in Conns, NEW ph \in Phases,
           conn' = [conn EXCEPT ![g].phase = ph]
    PROVE  /\ conn' \in [Conns -> ConnType]
           /\ \A h \in Conns : h # g => conn'[h] = conn[h]
           /\ conn'[g].phase = ph /\ conn'[g].pool = conn[g].pool
           /\ conn'[g].start = conn[g].start /\ conn'[g].bytes = conn[g].bytes
           /\ conn'[g].crossed = conn[g].crossed
BY DEF StateType, ConnType

\* A connection arrives; the ghost of others may change.
LEMMA ArriveMeans ==
    ASSUME StateType, NEW g \in Conns, NEW p \in Pools, NEW start \in Times,
           Arrive(g, p, start)
    PROVE  /\ conn' \in [Conns -> ConnType]
           /\ conn[g].phase = "new" /\ conn'[g].phase = "asking" /\ conn'[g].pool = p
           /\ conn'[g].start = start /\ conn'[g].bytes = conn[g].bytes
           /\ Crosses(p, start) => conn'[g].crossed
           /\ \A h \in Conns : h # g =>
                /\ conn'[h].phase = conn[h].phase /\ conn'[h].pool = conn[h].pool
                /\ conn'[h].start = conn[h].start /\ conn'[h].bytes = conn[h].bytes
                /\ conn[h].crossed \/ h \in Overtaken(p) => conn'[h].crossed
<1>1. Crosses(p, start) \in BOOLEAN
  BY DEF Crosses
<1>2. \A h \in Conns : conn[h] \in ConnType
  BY DEF StateType
<1>3. /\ conn[g].phase = "new"
      /\ conn' = [h \in Conns |->
                   IF h = g
                     THEN [conn[g] EXCEPT !.phase = "asking", !.pool = p, !.start = start,
                                          !.crossed = Crosses(p, start)]
                     ELSE [conn[h] EXCEPT !.crossed = @ \/ h \in Overtaken(p)]]
  BY DEF Arrive
<1>4. \A h \in Conns : conn'[h] \in ConnType
  BY <1>1, <1>2, <1>3 DEF ConnType, Phases
<1>5. /\ conn'[g].phase = "asking" /\ conn'[g].pool = p
      /\ conn'[g].start = start /\ conn'[g].bytes = conn[g].bytes
      /\ conn'[g].crossed = Crosses(p, start)
  BY <1>2, <1>3 DEF ConnType
<1>6. \A h \in Conns : h # g =>
        /\ conn'[h].phase = conn[h].phase /\ conn'[h].pool = conn[h].pool
        /\ conn'[h].start = conn[h].start /\ conn'[h].bytes = conn[h].bytes
        /\ conn'[h].crossed = (conn[h].crossed \/ h \in Overtaken(p))
  BY <1>2, <1>3 DEF ConnType
<1>7. conn' \in [Conns -> ConnType]
  BY <1>3, <1>4
<1> QED  BY <1>3, <1>5, <1>6, <1>7

\* The connections a crash ends; orphans are disconnect hooks that go on.
Lost(orphans) == InPhase({"asking", "live", "ending"}) \ orphans

LEMMA CrashMeans ==
    ASSUME StateType, NEW orphans \in SUBSET InPhase({"ending"}), DaemonCrash(orphans)
    PROVE  /\ conn' \in [Conns -> ConnType]
           /\ \A h \in Conns :
                /\ conn'[h].pool = conn[h].pool /\ conn'[h].start = conn[h].start
                /\ conn'[h].bytes = conn[h].bytes /\ conn'[h].crossed = conn[h].crossed
                /\ h \in Lost(orphans) =>
                     conn'[h].phase = "lost" /\ conn[h].phase \in {"asking", "live", "ending"}
                /\ h \notin Lost(orphans) =>
                     conn'[h].phase = conn[h].phase /\ conn[h].phase \notin {"asking", "live"}
           /\ lock.of \in Lost(orphans) => lock' = FreeLock /\ spent'.faults # 0
           /\ lock.of \notin Lost(orphans) => lock' = lock
           /\ spent'.faults = 0 => spent.faults = 0
           /\ spent' \in Budgets
<1>1. \A h \in Conns : conn[h] \in ConnType
  BY DEF StateType
<1>2. conn' = [h \in Conns |-> IF h \in Lost(orphans) THEN [conn[h] EXCEPT !.phase = "lost"]
                               ELSE conn[h]]
  BY DEF DaemonCrash, Lost
<1>3. \A h \in Conns :
        /\ h \in Lost(orphans) => conn[h].phase \in {"asking", "live", "ending"}
        /\ h \notin Lost(orphans) => conn[h].phase \notin {"asking", "live"}
  BY DEF Lost, InPhase
<1>4. \A h \in Conns : conn'[h] \in ConnType
  BY <1>1, <1>2 DEF ConnType, Phases
<1>5. \A h \in Conns :
        /\ conn'[h].pool = conn[h].pool /\ conn'[h].start = conn[h].start
        /\ conn'[h].bytes = conn[h].bytes /\ conn'[h].crossed = conn[h].crossed
        /\ h \in Lost(orphans) => conn'[h].phase = "lost"
        /\ h \notin Lost(orphans) => conn'[h].phase = conn[h].phase
  BY <1>1, <1>2 DEF ConnType
<1>6. spent.crashes \in Nat /\ spent.faults \in Nat
  BY Numbers DEF StateType, Budgets
<1>7. CASE lock.of \in Lost(orphans)
  <2>1. /\ spent.crashes < MaxCrashes /\ spent.faults < MaxFaults /\ lock' = FreeLock
        /\ spent' = [spent EXCEPT !.crashes = @ + 1, !.faults = @ + 1]
    BY <1>7 DEF DaemonCrash, Lost, StateType, Budgets
  <2>2. spent.crashes + 1 \in 0 .. MaxCrashes /\ spent.faults + 1 \in 0 .. MaxFaults
    BY <2>1, Numbers DEF StateType, Budgets
  <2>3. spent' \in Budgets /\ spent'.faults = spent.faults + 1
    BY <2>1, <2>2 DEF StateType, Budgets
  <2>4. spent'.faults # 0
    BY <1>6, <2>3
  <2> QED  BY <1>2, <1>3, <1>4, <1>5, <1>7, <2>1, <2>3, <2>4
<1>8. CASE lock.of \notin Lost(orphans)
  <2>1. /\ spent.crashes < MaxCrashes /\ lock' = lock
        /\ spent' = [spent EXCEPT !.crashes = @ + 1]
    BY <1>8 DEF DaemonCrash, Lost, StateType, Budgets
  <2>2. spent' \in Budgets /\ spent'.faults = spent.faults
    BY <2>1, Numbers DEF StateType, Budgets
  <2> QED  BY <1>2, <1>3, <1>4, <1>5, <1>8, <2>1, <2>2
<1> QED  BY <1>7, <1>8

LEMMA LockTypes ==
    /\ \A g \in Conns : [holder |-> "connect", of |-> g] \in LockType
    /\ \A g \in Conns : [holder |-> "disconnect", of |-> g] \in LockType
    /\ [holder |-> "poll", of |-> NoConn] \in LockType
BY DEF LockType

LEMMA TypesOpenVpn ==
    ASSUME StateType,
           \/ Tick
           \/ \E g \in Conns : Traffic(g) \/ End(g)
           \/ \E g \in Conns, p \in Pools, start \in Times : Arrive(g, p, start)
           \/ WriteStatus
           \/ \E part \in SUBSET Live : TearStatus(part)
           \/ \E orphans \in SUBSET InPhase({"ending"}) : DaemonCrash(orphans)
    PROVE  StateType'
<1>1. CASE Tick
  <2>1. now + 1 \in Times
    BY <1>1, Numbers DEF Tick, StateType, Times
  <2> QED  BY <1>1, <2>1 DEF Tick, StateType
<1>2. ASSUME NEW g \in Conns, Traffic(g)
      PROVE  StateType'
  <2>1. conn' \in [Conns -> ConnType]
    BY <1>2, Numbers DEF Traffic, StateType, ConnType
  <2> QED  BY <1>2, <2>1 DEF Traffic, StateType
<1>3. ASSUME NEW g \in Conns, End(g)
      PROVE  StateType'
  <2>1. conn' \in [Conns -> ConnType]
    BY <1>3, ConnPhase DEF End, Phases
  <2> QED  BY <1>3, <2>1 DEF End, StateType
<1>4. ASSUME NEW g \in Conns, NEW p \in Pools, NEW start \in Times, Arrive(g, p, start)
      PROVE  StateType'
  <2>1. conn' \in [Conns -> ConnType]
    BY <1>4, ArriveMeans
  <2> QED  BY <1>4, <2>1 DEF Arrive, StateType
<1>5. CASE WriteStatus
  <2>1. Live \subseteq Conns
    BY DEF Live, InPhase
  <2>2. status' \in StatusType
    BY <1>5, <2>1, StatusOfType DEF WriteStatus
  <2> QED  BY <1>5, <2>2 DEF WriteStatus, StateType
<1>6. ASSUME NEW part \in SUBSET Live, TearStatus(part)
      PROVE  StateType'
  <2>1. part \subseteq Conns
    BY DEF Live, InPhase
  <2>2. status' \in StatusType
    BY <1>6, <2>1, StatusOfType DEF TearStatus
  <2> QED  BY <1>6, <2>2 DEF TearStatus, StateType
<1>7. ASSUME NEW orphans \in SUBSET InPhase({"ending"}), DaemonCrash(orphans)
      PROVE  StateType'
  <2>1. status' \in StatusType
    BY <1>7, EmptyTypes DEF DaemonCrash, StateType
  <2>2. conn' \in [Conns -> ConnType] /\ spent' \in Budgets
    BY <1>7, CrashMeans
  <2>3. lock' \in LockType
    BY <1>7, CrashMeans, EmptyTypes DEF StateType
  <2> QED  BY <1>7, <2>1, <2>2, <2>3 DEF DaemonCrash, StateType
<1> QED  BY <1>1, <1>2, <1>3, <1>4, <1>5, <1>6, <1>7

LEMMA TypesHooks ==
    ASSUME StateType, NEW g \in Conns, HookStep(g) \/ HookFault(g)
    PROVE  StateType'
<1>0. conn[g].pool \in Pools
  BY DEF StateType, ConnType
<1>1. CASE ConnectBank(g)
  BY <1>1, LockTypes DEF ConnectBank, StateType
<1>2. CASE ConnectWrite(g)
  <2>1. conn' \in [Conns -> ConnType]
    BY <1>2, ConnPhase DEF ConnectWrite, Phases
  <2>2. marker' \in [Pools -> MarkerType]
    BY <1>2 DEF ConnectWrite, StateType, MarkerType
  <2> QED  BY <1>2, <2>1, <2>2, EmptyTypes DEF ConnectWrite, StateType
<1>3. CASE DisconnectIgnored(g)
  <2>1. conn' \in [Conns -> ConnType]
    BY <1>3, ConnPhase DEF DisconnectIgnored, Phases
  <2> QED  BY <1>3, <2>1 DEF DisconnectIgnored, StateType
<1>4. CASE DisconnectBank(g)
  BY <1>4, LockTypes DEF DisconnectBank, StateType
<1>5. CASE DisconnectRemove(g)
  <2>1. conn' \in [Conns -> ConnType]
    BY <1>5, ConnPhase DEF DisconnectRemove, Phases
  <2>2. marker' \in [Pools -> MarkerType]
    BY <1>5, EmptyTypes DEF DisconnectRemove, StateType
  <2> QED  BY <1>5, <2>1, <2>2, EmptyTypes DEF DisconnectRemove, StateType
<1>6. CASE ConnectFails(g)
  <2>1. conn' \in [Conns -> ConnType]
    BY <1>6, ConnPhase DEF ConnectFails, Phases
  <2>2. spent' \in Budgets
    BY <1>6, SpendType DEF ConnectFails
  <2> QED  BY <1>6, <2>1, <2>2, EmptyTypes DEF ConnectFails, StateType
<1>7. CASE DisconnectBankFails(g)
  <2>1. conn' \in [Conns -> ConnType]
    BY <1>7, ConnPhase DEF DisconnectBankFails, Phases
  <2>2. spent' \in Budgets
    BY <1>7, SpendType DEF DisconnectBankFails
  <2> QED  BY <1>7, <2>1, <2>2 DEF DisconnectBankFails, StateType
<1>8. CASE DisconnectRemoveFails(g)
  <2>1. conn' \in [Conns -> ConnType]
    BY <1>8, ConnPhase DEF DisconnectRemoveFails, Phases
  <2>2. spent' \in Budgets
    BY <1>8, SpendType DEF DisconnectRemoveFails
  <2> QED  BY <1>8, <2>1, <2>2, EmptyTypes DEF DisconnectRemoveFails, StateType
<1> QED  BY <1>1, <1>2, <1>3, <1>4, <1>5, <1>6, <1>7, <1>8 DEF HookStep, HookFault

\* The end of a row.
LEMMA AfterRowType ==
    ASSUME StateType, NEW g \in poll.todo, NEW present \in SUBSET Sids, AfterRow(g, present)
    PROVE  poll' \in PollType /\ lock' \in LockType
<1>1. CASE poll.todo = {g}
  BY <1>1, EmptyTypes DEF AfterRow, StateType, PollType
<1>2. CASE poll.todo # {g}
  BY <1>2 DEF AfterRow, StateType, PollType
<1> QED  BY <1>1, <1>2

LEMMA TypesPoll ==
    ASSUME StateType, PollSnapshot \/ PollStep \/ PollAborts \/ Reset
    PROVE  StateType'
<1>0. poll.present \subseteq Sids /\ poll.todo \subseteq Conns
  BY DEF StateType, PollType
<1>00. {MarkerSid(m) : m \in OnDisk} \subseteq Sids
  BY OnDiskType, Identities
<1>1. CASE PollSnapshot
  <2>1. spent' \in Budgets
    BY <1>1, SpendType DEF PollSnapshot
  <2>2. poll' \in PollType
    BY <1>1, EmptyTypes DEF PollSnapshot, StateType, PollType
  <2> QED  BY <1>1, <2>1, <2>2 DEF PollSnapshot, StateType
<1>2. CASE PollLock
  <2>1. poll.snap.listed \subseteq Conns
    BY DEF StateType, PollType, StatusType
  <2>2. poll' \in PollType
    BY <1>2, <2>1, OnDiskType DEF PollLock, StateType, PollType
  <2> QED  BY <1>2, <2>2, LockTypes DEF PollLock, StateType
<1>3. CASE PollCollect
  <2>1. poll' \in PollType
    BY <1>0, <1>00, <1>3, EmptyTypes DEF PollCollect, StateType, PollType
  <2> QED  BY <1>3, <2>1 DEF PollCollect, StateType
<1>4. CASE PollReport
  <2>1. poll' \in PollType
    BY <1>4 DEF PollReport, StateType, PollType
  <2> QED  BY <1>4, <2>1 DEF PollReport, StateType
<1>5. CASE PollPrune
  BY <1>5, EmptyTypes DEF PollPrune, StateType
<1>6. ASSUME NEW g \in Conns, PollRecord(g)
      PROVE  StateType'
  <2>1. PICK s \in RowIdentity(g) : AfterRow(g, poll.present \cup {s})
    BY <1>6 DEF PollRecord
  <2>2. g \in poll.todo /\ poll.present \cup {s} \subseteq Sids
    BY <1>0, <1>6, <2>1, RowIdentityType DEF PollRecord
  <2>3. poll' \in PollType /\ lock' \in LockType
    BY <2>1, <2>2, AfterRowType
  <2> QED  BY <1>6, <2>3 DEF PollRecord, StateType
<1>7. ASSUME NEW g \in Conns, PollSkip(g)
      PROVE  StateType'
  <2>3. poll' \in PollType /\ lock' \in LockType
    BY <1>0, <1>7, AfterRowType DEF PollSkip
  <2> QED  BY <1>7, <2>3 DEF PollSkip, StateType
<1>8. CASE PollAborts
  <2>1. spent' \in Budgets
    BY <1>8, SpendType DEF PollAborts
  <2> QED  BY <1>8, <2>1, EmptyTypes DEF PollAborts, StateType
<1>9. CASE Reset
  <2>1. spent' \in Budgets
    BY <1>9, SpendType DEF Reset
  <2> QED  BY <1>9, <2>1 DEF Reset, StateType
<1> QED  BY <1>1, <1>2, <1>3, <1>4, <1>5, <1>6, <1>7, <1>8, <1>9 DEF PollStep

\* A sweep touches markers only to remove them, and nothing else but its own
\* state and, when it retires receipts, the counter.
LEMMA TypesSweep ==
    ASSUME StateType, PurgeStart \/ StaleStart \/ SweepStep
    PROVE  StateType'
<1>1. ASSUME NEW kind \in {"purge", "stale"}, StartSweep(kind)
      PROVE  StateType'
  <2>1. spent' \in Budgets
    BY <1>1, SpendType DEF StartSweep
  <2>2. PoolsListed \subseteq Pools
    BY DEF PoolsListed, StateType, StatusType, ConnType
  <2>3. sweep' \in SweepType
    BY <1>1, <2>2, EmptyTypes DEF StartSweep, StateType, SweepType
  <2> QED  BY <1>1, <2>1, <2>3 DEF StartSweep, StateType
<1>2. CASE SweepList
  <2>1. Markers \subseteq Pools
    BY DEF Markers
  <2>2. sweep' \in SweepType
    BY <1>2, <2>1 DEF SweepList, StateType, SweepType
  <2> QED  BY <1>2, <2>2 DEF SweepList, StateType
<1>3. CASE SweepEnd
  <2>1. sweep' \in SweepType
    BY <1>3, EmptyTypes DEF SweepEnd, StateType, SweepType
  <2> QED  BY <1>3, <2>1 DEF SweepEnd, StateType
<1>4. CASE PurgeCollect
  <2>1. {MarkerSid(m) : m \in OnDisk} \subseteq Sids
    BY OnDiskType, Identities
  <2>2. sweep' \in SweepType
    BY <1>4, <2>1 DEF PurgeCollect, StateType, SweepType
  <2> QED  BY <1>4, <2>2 DEF PurgeCollect, StateType
<1>5. CASE PurgePrune
  BY <1>5, EmptyTypes DEF PurgePrune, StateType
<1>6. ASSUME NEW p \in Pools, PurgeRead(p)
      PROVE  StateType'
  <2>1. sweep' \in SweepType
    BY <1>6 DEF PurgeRead, StateType, SweepType
  <2> QED  BY <1>6, <2>1 DEF PurgeRead, StateType
<1>7. ASSUME NEW p \in Pools, SweepRemove(p)
      PROVE  StateType'
  <2>1. marker' \in [Pools -> MarkerType]
    BY <1>7, EmptyTypes DEF SweepRemove, StateType
  <2>2. sweep' \in SweepType
    BY <1>7 DEF SweepRemove, StateType, SweepType
  <2> QED  BY <1>7, <2>1, <2>2 DEF SweepRemove, StateType
<1> QED
  BY <1>1, <1>2, <1>3, <1>4, <1>5, <1>6, <1>7 DEF SweepStep, PurgeStart, StaleStart

LEMMA TypesKept ==
    ASSUME StateType, Next
    PROVE  StateType'
BY TypesOpenVpn, TypesHooks, TypesPoll, TypesSweep DEF Next

Records(g) == ConnectBank(g) \/ DisconnectBank(g) \/ PollRecord(g)

LEMMA OtherSteps ==
    ASSUME Next, \A g \in Conns : ~Records(g)
    PROVE  Untouched \/ Pruned \/ Rotated \/ Answered
<1>1. CASE \/ Tick
           \/ \E g \in Conns : Traffic(g) \/ End(g)
           \/ \E g \in Conns, p \in Pools, start \in Times : Arrive(g, p, start)
           \/ WriteStatus
           \/ \E part \in SUBSET Live : TearStatus(part)
           \/ \E orphans \in SUBSET InPhase({"ending"}) : DaemonCrash(orphans)
  BY <1>1 DEF Tick, Traffic, End, Arrive, WriteStatus, TearStatus, DaemonCrash, Untouched
<1>2. ASSUME NEW g \in Conns, HookFault(g) \/ HookStep(g)
      PROVE  Untouched
  BY <1>2 DEF Records, HookStep, HookFault, ConnectWrite, DisconnectIgnored, DisconnectRemove,
              ConnectFails, DisconnectBankFails, DisconnectRemoveFails, Untouched
<1>3. CASE PollSnapshot \/ PollLock \/ PollCollect \/ PollAborts
  BY <1>3 DEF PollSnapshot, PollLock, PollCollect, PollAborts, Untouched
<1>4. CASE PollReport
  BY <1>4 DEF PollReport, Answered
<1>5. CASE PollPrune
  BY <1>5 DEF PollPrune, Pruned
<1>6. ASSUME NEW g \in Conns, PollSkip(g)
      PROVE  Untouched
  BY <1>6 DEF PollSkip, NoRecord, Untouched
<1>7. CASE Reset
  BY <1>7 DEF Reset, Rotated
<1>8. CASE PurgeStart \/ StaleStart
  BY <1>8 DEF PurgeStart, StaleStart, StartSweep, Untouched
<1>9. CASE PurgePrune
  BY <1>9 DEF PurgePrune, Pruned
<1>10. CASE SweepList \/ SweepEnd \/ PurgeCollect \/ \E p \in Pools : PurgeRead(p) \/ SweepRemove(p)
  BY <1>10 DEF SweepList, SweepEnd, PurgeCollect, PurgeRead, SweepRemove, Untouched
<1> QED
  BY <1>1, <1>2, <1>3, <1>4, <1>5, <1>6, <1>7, <1>8, <1>9, <1>10
     DEF Next, PollStep, SweepStep, Records

LEMMA StepsOfStore ==
    ASSUME StateType, Next
    PROVE  StoreStep
<1>0. \A g \in Conns : conn[g].pool \in Pools /\ conn[g].bytes \in 0 .. MaxBytes
  BY DEF StateType, ConnType
<1>1. ASSUME NEW g \in Conns, marker[conn[g].pool].of # NoConn
      PROVE  MarkerSid(marker[conn[g].pool].of) \in Sids
  BY <1>0, <1>1, Identities DEF StateType, MarkerType
<1>2. ASSUME NEW g \in Conns, ConnectBank(g)
      PROVE  StoreStep
  <2>1. CASE Displaces(g)
    <3>1. PICK h \in RowsAtPool(conn[g].pool) :
                 RecordUsage(MarkerSid(marker[conn[g].pool].of), status.bytes[h], TRUE)
      BY <1>2, <2>1 DEF ConnectBank
    <3>2. status.bytes[h] \in 0 .. MaxBytes
      BY DEF RowsAtPool, ListedAt, StateType, StatusType
    <3>3. Recorded(MarkerSid(marker[conn[g].pool].of), status.bytes[h], TRUE)
      BY <1>2, <3>1 DEF ConnectBank, Recorded
    <3> QED  BY <1>1, <2>1, <3>2, <3>3 DEF Displaces, StoreStep
  <2>2. CASE ~Displaces(g)
    BY <1>2, <2>2 DEF ConnectBank, NoRecord, StoreStep, Untouched
  <2> QED  BY <2>1, <2>2
<1>3. ASSUME NEW g \in Conns, DisconnectBank(g)
      PROVE  StoreStep
  <2>1. Recorded(MarkerSid(marker[conn[g].pool].of), conn[g].bytes, TRUE)
    BY <1>3 DEF DisconnectBank, Recorded
  <2>2. MarkerSid(marker[conn[g].pool].of) \in Sids
    BY <1>1, <1>3 DEF DisconnectBank, OwnsMarker
  <2> QED  BY <1>0, <2>1, <2>2 DEF StoreStep
<1>4. ASSUME NEW g \in Conns, PollRecord(g)
      PROVE  StoreStep
  <2>1. PICK s \in RowIdentity(g) : RecordUsage(s, poll.snap.bytes[g], FALSE)
    BY <1>4 DEF PollRecord
  <2>2. s \in Sids
    BY <2>1, RowIdentityType
  <2>3. poll.snap.bytes[g] \in 0 .. MaxBytes
    BY DEF StateType, PollType, StatusType
  <2>4. Recorded(s, poll.snap.bytes[g], FALSE)
    BY <1>4, <2>1 DEF PollRecord, Recorded
  <2> QED  BY <2>2, <2>3, <2>4 DEF StoreStep
<1> QED  BY <1>2, <1>3, <1>4, OtherSteps DEF StoreStep, Records

(***************************************************************************)
(* Connections, markers and the lock.                                      *)
(***************************************************************************)
Owned == Distinct /\ Placed /\ Locked

\* The connections keep their addresses, starts and phases.
SameConns ==
    \A g \in Conns : /\ conn'[g].pool = conn[g].pool
                     /\ conn'[g].start = conn[g].start
                     /\ conn'[g].phase = conn[g].phase

LEMMA Unmoved ==
    ASSUME StateType, Owned, SameConns, marker' = marker, lock' = lock,
           poll'.step = "record" <=> poll.step = "record"
    PROVE  Owned'
<1>1. Distinct'
  BY DEF Owned, Distinct, SameConns
<1>2. Placed'
  BY DEF Owned, Placed, SameConns, StateType, MarkerType
<1>3. Locked'
  BY DEF Owned, Locked, SameConns, StateType, ConnType
<1> QED  BY <1>1, <1>2, <1>3 DEF Owned

\* A step that only moves one connection to another phase.
LEMMA DistinctPhase ==
    ASSUME StateType, Owned, NEW g \in Conns, NEW ph \in Phases,
           conn[g].phase # "new", conn' = [conn EXCEPT ![g].phase = ph]
    PROVE  /\ Distinct'
           /\ \A h \in Conns : conn'[h].pool = conn[h].pool /\ conn'[h].start = conn[h].start
           /\ \A h \in Conns : h # g => conn'[h].phase = conn[h].phase
           /\ conn'[g].phase = ph
<1>1. /\ \A h \in Conns : conn'[h].pool = conn[h].pool /\ conn'[h].start = conn[h].start
      /\ \A h \in Conns : h # g => conn'[h].phase = conn[h].phase
      /\ conn'[g].phase = ph
  BY ConnPhase
<1>2. Distinct'
  BY <1>1 DEF Owned, Distinct
<1> QED  BY <1>1, <1>2

\* The marker of a pool address is replaced or removed.
LEMMA PlacedKept ==
    ASSUME StateType, Owned, NEW g \in Conns, NEW ph \in Phases \ {"new"},
           conn[g].phase # "new", conn' = [conn EXCEPT ![g].phase = ph],
           marker' = marker \/ marker' = [marker EXCEPT ![conn[g].pool] = NoMarker]
             \/ \E t \in Times : marker' = [marker EXCEPT ![conn[g].pool] =
                                               [of |-> g, created |-> t]]
    PROVE  Placed'
<1>0. /\ \A h \in Conns : conn'[h].pool = conn[h].pool
      /\ \A h \in Conns : conn[h].phase # "new" => conn'[h].phase # "new"
      /\ conn[g].pool \in Pools
  BY DistinctPhase DEF StateType, ConnType
<1>1. ASSUME NEW p \in Pools
      PROVE  \/ marker'[p] = marker[p] \/ marker'[p] = NoMarker
             \/ p = conn[g].pool /\ marker'[p].of = g
  <2>1. CASE marker' = [marker EXCEPT ![conn[g].pool] = NoMarker]
    BY <1>0, <2>1 DEF StateType
  <2>2. ASSUME NEW t \in Times,
               marker' = [marker EXCEPT ![conn[g].pool] = [of |-> g, created |-> t]]
        PROVE  marker'[p] = marker[p] \/ (p = conn[g].pool /\ marker'[p].of = g)
    BY <1>0, <2>2 DEF StateType
  <2> QED  BY <2>1, <2>2
<1>2. ASSUME NEW p \in Pools
      PROVE  /\ marker'[p].of = NoConn => marker'[p] = NoMarker
             /\ marker'[p].of # NoConn =>
                  conn'[marker'[p].of].pool = p /\ conn'[marker'[p].of].phase # "new"
  <2>1. CASE marker'[p] = marker[p]
    BY <1>0, <2>1 DEF Owned, Placed, StateType, MarkerType
  <2>2. CASE marker'[p] = NoMarker
    BY <2>2 DEF NoMarker
  <2>3. CASE p = conn[g].pool /\ marker'[p].of = g
    BY <1>0, <2>3, ConnsAreNumbers
  <2> QED  BY <1>1, <2>1, <2>2, <2>3
<1> QED  BY <1>2 DEF Placed

LEMMA OwnedOpenVpn ==
    ASSUME StateType, Owned,
           \/ Tick
           \/ \E g \in Conns : Traffic(g) \/ End(g)
           \/ \E g \in Conns, p \in Pools, start \in Times : Arrive(g, p, start)
           \/ WriteStatus
           \/ \E part \in SUBSET Live : TearStatus(part)
           \/ \E orphans \in SUBSET InPhase({"ending"}) : DaemonCrash(orphans)
    PROVE  Owned'
<1>1. CASE Tick \/ WriteStatus \/ \E part \in SUBSET Live : TearStatus(part)
  BY <1>1, Unmoved DEF Tick, WriteStatus, TearStatus, SameConns
<1>2. ASSUME NEW g \in Conns, Traffic(g)
      PROVE  Owned'
  <2>1. SameConns
    BY <1>2 DEF Traffic, SameConns, StateType, ConnType
  <2> QED  BY <1>2, <2>1, Unmoved DEF Traffic
<1>3. ASSUME NEW g \in Conns, End(g)
      PROVE  Owned'
  <2>1. conn[g].phase = "live" /\ conn' = [conn EXCEPT ![g].phase = "ending"]
    BY <1>3 DEF End
  <2>2. /\ Distinct'
        /\ \A h \in Conns : conn'[h].pool = conn[h].pool /\ conn'[h].start = conn[h].start
        /\ \A h \in Conns : h # g => conn'[h].phase = conn[h].phase
    BY <2>1, DistinctPhase DEF Phases
  <2>3. Placed'
    BY <1>3, <2>1, PlacedKept DEF Phases, End
  <2>4. Locked'
    BY <1>3, <2>1, <2>2 DEF End, Owned, Locked
  <2> QED  BY <2>2, <2>3, <2>4 DEF Owned
<1>4. ASSUME NEW g \in Conns, NEW p \in Pools, NEW start \in Times, Arrive(g, p, start)
      PROVE  Owned'
  <2>1. /\ conn[g].phase = "new" /\ conn'[g].phase = "asking"
        /\ conn'[g].pool = p /\ conn'[g].start = start
        /\ \A h \in Conns : h # g => /\ conn'[h].phase = conn[h].phase
                                     /\ conn'[h].pool = conn[h].pool
                                     /\ conn'[h].start = conn[h].start
    BY <1>4, ArriveMeans
  <2>0. \A h \in Conns : conn[h].phase # "new" =>
             <<conn[h].pool, conn[h].start, AddrOf[h]>> # <<p, start, AddrOf[g]>>
    BY <1>4 DEF Arrive
  <2>2. Distinct'
    BY <2>0, <2>1 DEF Owned, Distinct
  <2>3. Placed'
    <3>1. marker' = marker /\ \A q \in Pools : marker[q].of \in Conns \union {NoConn}
      BY <1>4 DEF Arrive, StateType, MarkerType
    <3>2. \A q \in Pools : marker[q].of # NoConn => marker[q].of # g
      BY <2>1 DEF Owned, Placed
    <3> QED  BY <2>1, <3>1, <3>2 DEF Owned, Placed
  <2>4. Locked'
    BY <1>4, <2>1 DEF Arrive, Owned, Locked
  <2> QED  BY <2>2, <2>3, <2>4 DEF Owned
<1>5. ASSUME NEW orphans \in SUBSET InPhase({"ending"}), DaemonCrash(orphans)
      PROVE  Owned'
  <2>1. \A h \in Conns : /\ conn'[h].pool = conn[h].pool /\ conn'[h].start = conn[h].start
                         /\ conn'[h].phase = "new" <=> conn[h].phase = "new"
                         /\ h \notin Lost(orphans) => conn'[h].phase = conn[h].phase
    BY <1>5, CrashMeans
  <2>2. Distinct'
    BY <2>1 DEF Owned, Distinct
  <2>3. marker' = marker /\ poll' = poll
    BY <1>5 DEF DaemonCrash
  <2>4. Placed'
    BY <2>1, <2>3 DEF Owned, Placed, StateType, MarkerType
  <2>5. CASE lock.of \in Lost(orphans)
    <3>1. lock' = FreeLock
      BY <1>5, <2>5, CrashMeans
    <3>2. lock.holder \notin {"free", "poll"}
      BY <2>5, ConnsAreNumbers DEF Lost, InPhase, Owned, Locked
    <3> QED  BY <2>2, <2>3, <2>4, <3>1, <3>2 DEF Owned, Locked, FreeLock
  <2>6. CASE lock.of \notin Lost(orphans)
    <3>1. lock' = lock
      BY <1>5, <2>6, CrashMeans
    <3>2. Locked'
      BY <2>1, <2>3, <2>6, <3>1 DEF Owned, Locked
    <3> QED  BY <2>2, <2>4, <3>2 DEF Owned
  <2> QED  BY <2>5, <2>6
<1> QED  BY <1>1, <1>2, <1>3, <1>4, <1>5

\* disconnectMatches finds the hook's own marker or none: the connections at
\* one pool address differ in start or real address.
LEMMA OwnMarker ==
    ASSUME StateType, Owned, NEW g \in Conns, conn[g].phase # "new", OwnsMarker(g)
    PROVE  marker[conn[g].pool].of = g
<1>1. conn[g].pool \in Pools /\ marker[conn[g].pool].of \in Conns
  BY DEF StateType, ConnType, MarkerType, OwnsMarker
<1> QED  BY <1>1 DEF Owned, Placed, Distinct, OwnsMarker, DisconnectMatches

LEMMA OwnedHooks ==
    ASSUME StateType, Owned, NEW g \in Conns, HookStep(g) \/ HookFault(g)
    PROVE  Owned'
<1>0. /\ \A h \in Conns : h # NoConn
      /\ conn[g].pool \in Pools /\ marker[conn[g].pool].of \in Conns \union {NoConn}
  BY ConnsAreNumbers DEF StateType, ConnType, MarkerType
<1>1. CASE ConnectBank(g)
  <2>1. lock' = [holder |-> "connect", of |-> g] /\ conn' = conn /\ marker' = marker
          /\ poll' = poll /\ conn[g].phase = "asking" /\ lock.holder = "free"
    BY <1>1 DEF ConnectBank
  <2> QED  BY <2>1 DEF Owned, Distinct, Placed, Locked
<1>2. CASE DisconnectBank(g)
  <2>1. lock' = [holder |-> "disconnect", of |-> g] /\ conn' = conn /\ marker' = marker
          /\ poll' = poll /\ conn[g].phase = "ending" /\ lock.holder = "free"
    BY <1>2 DEF DisconnectBank
  <2>2. marker[conn[g].pool].of = g
    BY <1>2, <2>1, OwnMarker DEF DisconnectBank
  <2> QED  BY <2>1, <2>2 DEF Owned, Distinct, Placed, Locked
<1>3. ASSUME NEW ph \in Phases \ {"new"}, conn' = [conn EXCEPT ![g].phase = ph],
             conn[g].phase # "new", lock' = FreeLock, poll' = poll,
             lock.holder # "poll",
             marker' = marker \/ marker' = [marker EXCEPT ![conn[g].pool] = NoMarker]
               \/ \E t \in Times : marker' = [marker EXCEPT ![conn[g].pool] =
                                                 [of |-> g, created |-> t]]
      PROVE  Owned'
  <2>1. Distinct'
    BY <1>3, DistinctPhase
  <2>2. Placed'
    BY <1>3, PlacedKept
  <2>3. Locked'
    BY <1>3 DEF Owned, Locked, FreeLock
  <2> QED  BY <2>1, <2>2, <2>3 DEF Owned
<1>4. CASE ConnectWrite(g)
  BY <1>3, <1>4 DEF ConnectWrite, Owned, Locked, Phases, StateType
<1>5. CASE DisconnectRemove(g)
  BY <1>3, <1>5 DEF DisconnectRemove, Owned, Locked, Phases, StateType
<1>6. CASE ConnectFails(g)
  <2>1. conn[g].phase # "new" /\ lock.holder # "poll"
    BY <1>6 DEF ConnectFails, Owned, Locked
  <2> QED  BY <1>3, <1>6, <2>1 DEF ConnectFails, Phases
<1>7. CASE DisconnectRemoveFails(g)
  BY <1>3, <1>7 DEF DisconnectRemoveFails, Owned, Locked, Phases, StateType
<1>8. ASSUME DisconnectIgnored(g) \/ DisconnectBankFails(g)
      PROVE  Owned'
  <2>1. lock.holder = "free" /\ lock' = lock /\ poll' = poll /\ marker' = marker
          /\ conn[g].phase = "ending" /\ conn' = [conn EXCEPT ![g].phase = "done"]
    BY <1>8 DEF DisconnectIgnored, DisconnectBankFails
  <2>2. lock = FreeLock
    BY <2>1 DEF Owned, Locked, FreeLock, StateType, LockType
  <2> QED  BY <1>3, <2>1, <2>2 DEF Phases
<1> QED
  BY <1>1, <1>2, <1>4, <1>5, <1>6, <1>7, <1>8 DEF HookStep, HookFault

LEMMA OwnedPoll ==
    ASSUME StateType, Owned, PollSnapshot \/ PollStep \/ PollAborts \/ Reset
    PROVE  Owned'
<1>0. SameConns /\ marker' = marker
  BY DEF PollSnapshot, PollStep, PollAborts, Reset, PollLock, PollCollect, PollReport,
         PollPrune, PollRecord, PollSkip, SameConns
<1>00. Distinct' /\ Placed'
  BY <1>0 DEF Owned, Distinct, Placed, SameConns, StateType, MarkerType
<1>1. CASE PollSnapshot \/ PollCollect \/ PollReport \/ PollPrune \/ Reset
  <2>1. lock' = lock /\ (poll'.step = "record" <=> poll.step = "record")
    <3>1. CASE PollSnapshot \/ PollReport
      BY <3>1 DEF PollSnapshot, PollReport, IdlePoll, StateType, PollType
    <3>2. CASE PollPrune \/ Reset
      BY <3>2 DEF PollPrune, Reset, IdlePoll
    <3>3. CASE PollCollect
      BY <3>3 DEF PollCollect, IdlePoll
    <3> QED  BY <1>1, <3>1, <3>2, <3>3
  <2> QED  BY <1>0, <2>1, Unmoved
<1>2. CASE PollLock
  <2>1. lock' = [holder |-> "poll", of |-> NoConn] /\ poll'.step = "record"
    BY <1>2 DEF PollLock, StateType, PollType
  <2> QED  BY <1>00, <2>1 DEF Owned, Locked
<1>3. ASSUME NEW g \in Conns, NEW present, poll.step = "record", AfterRow(g, present)
      PROVE  Owned'
  <2>1. CASE poll.todo = {g}
    <3>1. lock' = FreeLock /\ poll'.step = "collect"
      BY <1>3, <2>1 DEF AfterRow, StateType, PollType
    <3> QED  BY <1>00, <3>1 DEF Owned, Locked, FreeLock
  <2>2. CASE poll.todo # {g}
    <3>1. lock' = lock /\ poll'.step = poll.step
      BY <1>3, <2>2 DEF AfterRow, StateType, PollType
    <3> QED  BY <1>0, <3>1, Unmoved
  <2> QED  BY <2>1, <2>2
<1>4. ASSUME NEW g \in Conns, PollRecord(g) \/ PollSkip(g)
      PROVE  Owned'
  BY <1>3, <1>4 DEF PollRecord, PollSkip
<1>5. CASE PollAborts
  <2>1. lock' = FreeLock /\ poll'.step = "idle"
    BY <1>5 DEF PollAborts, IdlePoll
  <2> QED  BY <1>00, <2>1 DEF Owned, Locked, FreeLock
<1> QED  BY <1>1, <1>2, <1>4, <1>5 DEF PollStep

LEMMA OwnedSweep ==
    ASSUME StateType, Owned, PurgeStart \/ StaleStart \/ SweepStep
    PROVE  Owned'
<1>1. ASSUME NEW p \in Pools, SweepRemove(p)
      PROVE  Owned'
  <2>1. conn' = conn /\ lock' = lock /\ poll' = poll
          /\ marker' = [marker EXCEPT ![p] = NoMarker]
    BY <1>1 DEF SweepRemove
  <2>2. \A q \in Pools : marker'[q] = marker[q] \/ marker'[q] = NoMarker
    BY <2>1 DEF StateType
  <2>3. Distinct' /\ Placed'
    BY <2>1, <2>2 DEF Owned, Distinct, Placed, NoMarker
  <2>4. Locked'
    BY <2>1, <2>2 DEF Owned, Locked, NoMarker, StateType, ConnType
  <2> QED  BY <2>3, <2>4 DEF Owned
<1>2. CASE ~ \E p \in Pools : SweepRemove(p)
  <2>1. SameConns /\ marker' = marker /\ lock' = lock /\ poll' = poll
    BY <1>2 DEF PurgeStart, StaleStart, StartSweep, SweepStep, SweepList, SweepEnd,
                PurgeCollect, PurgePrune, PurgeRead, SameConns
  <2> QED  BY <2>1, Unmoved
<1> QED  BY <1>1, <1>2

LEMMA OwnedKept ==
    ASSUME StateType, Owned, Next
    PROVE  Owned'
BY OwnedOpenVpn, OwnedHooks, OwnedPoll, OwnedSweep DEF Next

(***************************************************************************)
(* What holds whatever the environment does.                               *)
(***************************************************************************)
FilesInv == StoreType /\ Sampled /\ StateType /\ Owned

LEMMA FilesInit == Init => FilesInv
<1> SUFFICES ASSUME Init PROVE FilesInv
  OBVIOUS
<1>1. PICK p0 \in Pools : \A g \in Conns :
        conn[g] = [phase |-> "new", pool |-> p0, start |-> 0, bytes |-> 0, crossed |-> FALSE]
  <2>1. (CHOOSE p \in Pools : TRUE) \in Pools
    BY Numbers
  <2> QED  BY <2>1 DEF Init
<1>2. StateType
  <2>1. conn \in [Conns -> ConnType]
    <3>1. 0 \in Times /\ 0 \in 0 .. MaxBytes
      BY Numbers, EmptyTypes
    <3>2. ASSUME NEW g \in Conns
          PROVE  conn[g] \in ConnType
      <4> DEFINE c == [phase |-> "new", pool |-> p0, start |-> 0, bytes |-> 0, crossed |-> FALSE]
      <4>1. conn[g] = c
        BY <1>1
      <4>2. c \in ConnType
        BY <1>1, <3>1 DEF ConnType, Phases
      <4> QED  BY <4>1, <4>2
    <3> QED  BY <3>2 DEF Init
  <2>2. spent \in Budgets
    BY Numbers DEF Init, Budgets
  <2> QED  BY <2>1, <2>2, EmptyTypes DEF Init, StateType
<1>3. StoreType /\ Sampled
  <2>1. AbsentFile \in CounterFile /\ 0 \in Word
    BY NoSessionType, Numbers DEF AbsentFile, CounterFile, NoSessions, Word, NoEpoch
  <2>2. file.kind = "absent" /\ file.epoch = 0 /\ file.total = 0
    BY DEF Init, AbsentFile, NoEpoch
  <2> QED  BY <2>1, <2>2 DEF Init, StoreType, Sampled, NoEpoch
<1>4. Owned
  <2>1. Distinct
    BY <1>1 DEF Distinct
  <2>2. Placed
    BY DEF Init, Placed, NoMarker
  <2>3. Locked
    BY DEF Init, Locked, FreeLock, IdlePoll
  <2> QED  BY <2>1, <2>2, <2>3 DEF Owned
<1> QED  BY <1>2, <1>3, <1>4 DEF FilesInv

LEMMA FilesStep ==
    ASSUME FilesInv, [Next]_vars
    PROVE  FilesInv'
<1>1. CASE Next
  BY <1>1, StepsOfStore, StoreKept, TypesKept, OwnedKept DEF FilesInv
<1>2. CASE UNCHANGED vars
  BY <1>2 DEF vars, FilesInv, StoreType, Sampled, StateType, Owned, Distinct, Placed, Locked
<1> QED  BY <1>1, <1>2

\* The invariant of the files, the markers and the session lock.
THEOREM FilesInvAlways == Spec => []FilesInv
BY FilesInit, FilesStep, PTL DEF Spec

(***************************************************************************)
(* The counter, the markers and the programs at work on them stay well     *)
(* formed, for any number of connections, polls, sweeps, crashes and       *)
(* faults; in particular no total or offset leaves its word.               *)
(***************************************************************************)
THEOREM TypeCorrect == Spec => []TypeOK
<1>1. FilesInv => TypeOK
  BY DEF FilesInv, StoreType, StateType, TypeOK
<1> QED  BY <1>1, FilesInvAlways, PTL

(***************************************************************************)
(* Two samples of one epoch never go down (UsersUsage, ResetUsage): a      *)
(* sample was the total of its epoch and that total only grows.            *)
(***************************************************************************)
THEOREM ReportsNeverShrink == Spec => ReportsGrow
<1>1. FilesInv /\ [Next]_vars
        => [reported'.epoch = reported.epoch => reported'.total >= reported.total]_vars
  BY StepsOfStore, StoreKept DEF FilesInv
<1> QED  BY <1>1, FilesInvAlways, PTL DEF Spec, ReportsGrow

(***************************************************************************)
(* The disconnect hook.                                                    *)
(***************************************************************************)
OwnTouched(g) ==
    /\ marker' # marker => marker[conn[g].pool].of = g
    /\ \A h \in Conns \ {g} : file'.sessions[MarkerSid(h)] = file.sessions[MarkerSid(h)]

LEMMA OwnTouchedOnly ==
    ASSUME FilesInv, NEW g \in Conns, DisconnectBank(g) \/ DisconnectRemove(g)
    PROVE  OwnTouched(g)
<1>0. /\ conn[g].pool \in Pools /\ conn[g].bytes \in 0 .. MaxBytes
      /\ \A h \in Conns : MarkerSid(h) \in Sids
      /\ \A h \in Conns \ {g} : MarkerSid(h) # MarkerSid(g)
  BY Identities DEF FilesInv, StateType, ConnType
<1>1. CASE DisconnectBank(g)
  <2>1. marker[conn[g].pool].of = g
    BY <1>1, OwnMarker DEF DisconnectBank, FilesInv
  <2>2. Recorded(MarkerSid(g), conn[g].bytes, TRUE) /\ marker' = marker
    BY <1>1, <2>1 DEF DisconnectBank, Recorded
  <2>3. \A t \in Sids \ {MarkerSid(g)} : file'.sessions[t] = file.sessions[t]
    BY <1>0, <2>2, RecordedEffect DEF FilesInv
  <2> QED  BY <1>0, <2>2, <2>3 DEF OwnTouched
<1>2. CASE DisconnectRemove(g)
  <2>1. /\ lock.holder = "disconnect" /\ lock.of = g /\ file' = file
        /\ marker' = [marker EXCEPT ![conn[g].pool] = NoMarker]
    BY <1>2 DEF DisconnectRemove
  <2>2. marker[conn[g].pool].of \in {g, NoConn}
    BY <2>1 DEF FilesInv, Owned, Locked
  <2>3. marker[conn[g].pool].of = NoConn => marker' = marker
    BY <1>0, <2>1 DEF FilesInv, Owned, Placed, StateType
  <2> QED  BY <2>1, <2>2, <2>3 DEF OwnTouched
<1> QED  BY <1>1, <1>2

(***************************************************************************)
(* A disconnect hook touches its own session's marker and receipt only     *)
(* (disconnectMatches), also with delayed hooks, slow handshakes, torn     *)
(* status files, sweeps that take no lock and failed writes.               *)
(***************************************************************************)
THEOREM OnlyItsOwn == Spec => DisconnectTouchesOnlyItsOwn
<1>1. FilesInv /\ [Next]_vars
        => [\A g \in Conns : DisconnectBank(g) \/ DisconnectRemove(g) =>
              /\ marker' # marker => marker[conn[g].pool].of = g
              /\ \A h \in Conns \ {g} :
                   file'.sessions[MarkerSid(h)] = file.sessions[MarkerSid(h)]]_vars
  BY OwnTouchedOnly DEF OwnTouched
<1> QED  BY <1>1, FilesInvAlways, PTL DEF Spec, DisconnectTouchesOnlyItsOwn

(***************************************************************************)
(* The ledger the panel relies on, read off the counter the hooks, the     *)
(* poll and the sweeps share.                                              *)
(***************************************************************************)
Ledger ==
    INSTANCE UsageLedger WITH
        available <- Readable(file), epoch <- file.epoch,
        total <- file.total, used <- minted

LEMMA LedgerStep ==
    ASSUME FilesInv, [Next]_vars
    PROVE  [Ledger!Next]_(Ledger!vars)
<1>0. /\ file \in CounterFile /\ minted \in Nat /\ file.epoch \in Nat /\ file.total \in Nat
      /\ file.kind \in {"absent", "v2"} /\ StoreType /\ Sampled
  BY Numbers DEF FilesInv, StoreType, Sampled, CounterFile, Word
<1>1. file'.kind \in {"absent", "v2"} /\ file'.total \in Nat
  BY FilesStep, Numbers DEF FilesInv, StoreType, Sampled, CounterFile, Word
<1>2. Readable(file) = TRUE /\ Readable(file)' = TRUE
  BY <1>0, <1>1 DEF Readable
<1>3. CASE UNCHANGED vars \/ Untouched \/ Answered
  BY <1>2, <1>3 DEF vars, Untouched, Answered, Ledger!vars
<1>4. CASE Pruned
  <2>1. file'.epoch = file.epoch /\ file'.total = file.total /\ minted' = minted
    BY <1>0, <1>4, PruneEffect DEF Pruned
  <2> QED  BY <1>2, <2>1 DEF Ledger!vars
<1>5. CASE Rotated
  <2>0. file' = ResetUsage(file, minted + 1) /\ minted' = minted + 1 /\ minted + 1 \in Nat
    BY <1>0, <1>5 DEF Rotated
  <2>1. minted' = minted + 1 /\ file'.epoch = minted + 1 /\ file'.total = 0
    BY <1>0, <2>0, ResetEffect
  <2> QED  BY <1>0, <1>2, <2>1 DEF Ledger!Next, Ledger!Rotate
<1>6. ASSUME NEW s \in Sids, NEW b \in 0 .. MaxBytes, NEW closed \in BOOLEAN,
             Recorded(s, b, closed)
      PROVE  [Ledger!Next]_(Ledger!vars)
  <2>1. /\ file'.epoch = IF file.kind = "absent" \/ file.epoch = NoEpoch
                           THEN minted + 1 ELSE file.epoch
        /\ minted' = IF MintsEpoch(file) THEN minted + 1 ELSE minted
        /\ file'.total >= file.total
    BY <1>0, <1>6, RecordedEffect
  <2>2. CASE file.kind = "absent"
    <3>1. file.epoch = 0 /\ file'.epoch = minted + 1 /\ minted' = minted + 1
      BY <1>0, <2>1, <2>2 DEF Sampled, MintsEpoch, NoEpoch
    <3> QED  BY <1>0, <1>1, <1>2, <2>1, <3>1 DEF Ledger!Next, Ledger!Open
  <2>3. CASE file.kind = "v2"
    <3>1. file.epoch # 0 /\ file'.epoch = file.epoch /\ minted' = minted
      BY <1>0, <2>1, <2>3 DEF Sampled, MintsEpoch, NoEpoch
    <3>2. CASE file'.total = file.total
      BY <1>2, <3>1, <3>2 DEF Ledger!vars
    <3>3. CASE file'.total # file.total
      BY <1>0, <1>1, <1>2, <2>1, <3>1, <3>3 DEF Ledger!Next, Ledger!Add
    <3> QED  BY <3>2, <3>3
  <2> QED  BY <1>0, <2>2, <2>3
<1> QED
  BY <1>3, <1>4, <1>5, <1>6, StepsOfStore DEF FilesInv, StoreStep

(***************************************************************************)
(* Hooks, poll, reset and sweeps together implement the ledger: whatever   *)
(* they interleave, the panel sees totals that grow within an epoch and    *)
(* epochs that are never used again (store/counter.go and its callers).    *)
(***************************************************************************)
THEOREM AccountingImplementsLedger == Spec => Ledger!Spec
<1>1. Init => Ledger!Init
  BY DEF Init, Ledger!Init, AbsentFile, Readable, NoEpoch
<1> QED  BY <1>1, FilesInvAlways, LedgerStep, PTL DEF Spec, Ledger!Spec

(***************************************************************************)
(* What a step does to connections and markers.                            *)
(***************************************************************************)
LEMMA Values ==
    ASSUME StateType
    PROVE  /\ status \in StatusType /\ poll.snap \in StatusType
           /\ \A g \in Conns : /\ conn[g].pool \in Pools /\ conn[g].bytes \in Nat
                               /\ conn[g].start \in Nat
           /\ \A p \in Pools : marker[p].of \in Conns \union {NoConn}
           /\ status.listed \subseteq Conns /\ poll.snap.listed \subseteq Conns
           /\ status.at \in Nat /\ poll.snap.at \in Nat
           /\ \A g \in Conns : status.bytes[g] \in 0 .. MaxBytes /\ poll.snap.bytes[g] \in 0 .. MaxBytes
           /\ poll.cands \subseteq Conns /\ poll.todo \subseteq Conns
BY Numbers DEF StateType, StatusType, PollType, ConnType, MarkerType, Times

\* A connection that does not arrive in this step.
Goes(h) ==
    /\ conn'[h].pool = conn[h].pool /\ conn'[h].start = conn[h].start
    /\ conn'[h].bytes \in Nat /\ conn'[h].bytes >= conn[h].bytes
    /\ conn[h].phase # "live" => conn'[h].bytes = conn[h].bytes
    /\ conn[h].crossed => conn'[h].crossed
    /\ \/ conn'[h].phase = conn[h].phase
       \/ conn[h].phase = "asking" /\ conn'[h].phase \in {"refused", "lost"}
       \/ /\ conn[h].phase = "asking" /\ conn'[h].phase = "live"
          /\ marker'[conn[h].pool].of = h
       \/ conn[h].phase = "live" /\ conn'[h].phase \in {"ending", "lost"}
       \/ conn[h].phase = "ending" /\ conn'[h].phase \in {"done", "lost"}

\* A marker stays, goes, or is that of the connection admitted in this step.
MarkerGoes(p) ==
    \/ marker'[p].of \in {marker[p].of, NoConn}
    \/ \E g \in Conns : /\ conn[g].pool = p /\ conn[g].phase = "asking"
                        /\ conn'[g].phase = "live" /\ marker'[p].of = g

Arrives(k) == \E p \in Pools, start \in Times : Arrive(k, p, start)

Moves ==
    /\ \A h \in Conns : Goes(h) \/ Arrives(h)
    /\ \A p \in Pools : MarkerGoes(p)
    /\ spent'.faults = 0 => spent.faults = 0

\* The steps that leave connections and markers alone.
LEMMA StillMoves ==
    ASSUME FilesInv, conn' = conn, marker' = marker, spent'.faults = 0 => spent.faults = 0
    PROVE  Moves
BY Values DEF FilesInv, Moves, Goes, MarkerGoes

\* One connection goes from one phase to the next.
LEMMA PhaseMoves ==
    ASSUME FilesInv, NEW g \in Conns, NEW ph \in Phases,
           conn' = [conn EXCEPT ![g].phase = ph],
           \/ conn[g].phase = "asking" /\ ph = "refused"
           \/ conn[g].phase = "asking" /\ ph = "live" /\ marker'[conn[g].pool].of = g
           \/ conn[g].phase = "live" /\ ph = "ending"
           \/ conn[g].phase = "ending" /\ ph = "done"
    PROVE  \A h \in Conns : Goes(h)
<1>1. /\ \A h \in Conns : h # g => conn'[h] = conn[h]
      /\ conn'[g].phase = ph /\ conn'[g].pool = conn[g].pool
      /\ conn'[g].start = conn[g].start /\ conn'[g].bytes = conn[g].bytes
      /\ conn'[g].crossed = conn[g].crossed
  BY ConnPhase DEF FilesInv
<1>2. \A h \in Conns : conn[h].bytes \in Nat
  BY Values DEF FilesInv
<1> QED  BY <1>1, <1>2 DEF Goes

LEMMA StepMoves ==
    ASSUME FilesInv, Next
    PROVE  Moves
<1>0. StateType /\ Locked
  BY DEF FilesInv, Owned
<1>00. /\ \A g \in Conns : conn[g].bytes \in Nat /\ conn[g].pool \in Pools
       /\ spent.faults \in Nat
  BY <1>0, Values, Numbers DEF StateType, Budgets
<1>000. /\ \A w \in {"polls", "resets", "sweeps"} : Spend(w) => spent'.faults = spent.faults
        /\ Spend("faults") => spent'.faults # 0
  <2>1. Spend("faults") => spent'.faults = spent.faults + 1
    BY <1>0 DEF Spend, StateType, Budgets
  <2>2. \A w \in {"polls", "resets", "sweeps"} : Spend(w) => spent'.faults = spent.faults
    BY <1>0 DEF Spend, StateType, Budgets
  <2> QED  BY <1>00, <2>1, <2>2
<1>1. ASSUME marker' = marker, spent'.faults = 0 => spent.faults = 0,
             \A h \in Conns : Goes(h) \/ Arrives(h)
      PROVE  Moves
  BY <1>1 DEF Moves, MarkerGoes
<1>2. CASE Tick \/ WriteStatus \/ \E part \in SUBSET Live : TearStatus(part)
  BY <1>2, StillMoves DEF Tick, WriteStatus, TearStatus
<1>3. ASSUME NEW g \in Conns, Traffic(g)
      PROVE  Moves
  <2>1. /\ \A h \in Conns : h # g => conn'[h] = conn[h]
        /\ conn'[g].pool = conn[g].pool /\ conn'[g].start = conn[g].start
        /\ conn'[g].phase = conn[g].phase /\ conn'[g].bytes = conn[g].bytes + 1
        /\ conn'[g].crossed = conn[g].crossed /\ conn[g].phase = "live"
    BY <1>0, <1>3 DEF Traffic, StateType, ConnType
  <2>2. \A h \in Conns : Goes(h)
    BY <1>00, <2>1 DEF Goes
  <2> QED  BY <1>1, <1>3, <2>2 DEF Traffic
<1>4. ASSUME NEW g \in Conns, End(g)
      PROVE  Moves
  <2>1. \A h \in Conns : Goes(h)
    BY <1>4, PhaseMoves DEF End, Phases
  <2> QED  BY <1>1, <1>4, <2>1 DEF End
<1>5. ASSUME NEW g \in Conns, NEW p \in Pools, NEW start \in Times, Arrive(g, p, start)
      PROVE  Moves
  <2>1. \A h \in Conns : h # g =>
          /\ conn'[h].phase = conn[h].phase /\ conn'[h].pool = conn[h].pool
          /\ conn'[h].start = conn[h].start /\ conn'[h].bytes = conn[h].bytes
          /\ conn[h].crossed => conn'[h].crossed
    BY <1>0, <1>5, ArriveMeans
  <2>2. \A h \in Conns : Goes(h) \/ Arrives(h)
    BY <1>00, <1>5, <2>1 DEF Goes, Arrives
  <2> QED  BY <1>1, <1>5, <2>2 DEF Arrive
<1>6. ASSUME NEW orphans \in SUBSET InPhase({"ending"}), DaemonCrash(orphans)
      PROVE  Moves
  <2>1. /\ \A h \in Conns :
             /\ conn'[h].pool = conn[h].pool /\ conn'[h].start = conn[h].start
             /\ conn'[h].bytes = conn[h].bytes /\ conn'[h].crossed = conn[h].crossed
             /\ \/ conn'[h].phase = "lost" /\ conn[h].phase \in {"asking", "live", "ending"}
                \/ conn'[h].phase = conn[h].phase
        /\ spent'.faults = 0 => spent.faults = 0
    BY <1>0, <1>6, CrashMeans
  <2>2. \A h \in Conns : Goes(h)
    BY <1>00, <2>1 DEF Goes
  <2> QED  BY <1>1, <1>6, <2>1, <2>2 DEF DaemonCrash
<1>7. ASSUME NEW g \in Conns, ConnectBank(g) \/ DisconnectBank(g)
      PROVE  Moves
  BY <1>7, StillMoves DEF ConnectBank, DisconnectBank
<1>8. ASSUME NEW g \in Conns, ConnectWrite(g)
      PROVE  Moves
  <2>1. conn[g].phase = "asking" /\ conn' = [conn EXCEPT ![g].phase = "live"] /\ spent' = spent
    BY <1>0, <1>8 DEF ConnectWrite, Locked
  <2>3. conn'[g].phase = "live"
    BY <1>0, <2>1 DEF StateType
  <2>4. /\ \A p \in Pools : p # conn[g].pool => marker'[p] = marker[p]
        /\ marker'[conn[g].pool].of = g
    BY <1>0, <1>00, <1>8 DEF ConnectWrite, StateType
  <2>2. \A h \in Conns : Goes(h)
    BY <2>1, <2>4, PhaseMoves DEF Phases
  <2>5. \A p \in Pools : MarkerGoes(p)
    BY <2>1, <2>3, <2>4 DEF MarkerGoes
  <2> QED  BY <2>1, <2>2, <2>5 DEF Moves
<1>9. ASSUME NEW g \in Conns, DisconnectRemove(g)
      PROVE  Moves
  <2>1. conn[g].phase = "ending" /\ conn' = [conn EXCEPT ![g].phase = "done"] /\ spent' = spent
    BY <1>0, <1>9 DEF DisconnectRemove, Locked
  <2>2. \A h \in Conns : Goes(h)
    BY <2>1, PhaseMoves DEF Phases
  <2>3. \A p \in Pools : MarkerGoes(p)
    BY <1>0, <1>00, <1>9 DEF DisconnectRemove, StateType, NoMarker, MarkerGoes
  <2> QED  BY <2>1, <2>2, <2>3 DEF Moves
<1>10. ASSUME NEW g \in Conns, DisconnectIgnored(g) \/ DisconnectBankFails(g) \/ DisconnectRemoveFails(g)
       PROVE  Moves
  <2>1. /\ conn[g].phase = "ending" /\ conn' = [conn EXCEPT ![g].phase = "done"]
        /\ marker' = marker /\ (spent' = spent \/ Spend("faults"))
    BY <1>0, <1>10 DEF DisconnectIgnored, DisconnectBankFails, DisconnectRemoveFails, Locked
  <2>2. \A h \in Conns : Goes(h)
    BY <2>1, PhaseMoves DEF Phases
  <2> QED  BY <1>000, <1>1, <2>1, <2>2
<1>11. ASSUME NEW g \in Conns, ConnectFails(g)
       PROVE  Moves
  <2>1. /\ conn[g].phase = "asking" /\ conn' = [conn EXCEPT ![g].phase = "refused"]
        /\ marker' = marker /\ Spend("faults")
    BY <1>0, <1>11 DEF ConnectFails, Locked
  <2>2. \A h \in Conns : Goes(h)
    BY <2>1, PhaseMoves DEF Phases
  <2> QED  BY <1>000, <1>1, <2>1, <2>2
<1>12. CASE PollSnapshot \/ PollStep \/ PollAborts \/ Reset
  <2>1. /\ conn' = conn /\ marker' = marker
        /\ spent' = spent \/ Spend("polls") \/ Spend("resets") \/ Spend("faults")
    BY <1>12 DEF PollSnapshot, PollStep, PollAborts, Reset, PollLock, PollCollect, PollReport,
                 PollPrune, PollRecord, PollSkip
  <2> QED  BY <1>000, <2>1, StillMoves
<1>13. ASSUME NEW p \in Pools, SweepRemove(p)
       PROVE  Moves
  <2>1. conn' = conn /\ spent' = spent /\ marker' = [marker EXCEPT ![p] = NoMarker]
    BY <1>13 DEF SweepRemove
  <2>2. \A q \in Pools : MarkerGoes(q)
    BY <1>0, <2>1 DEF StateType, NoMarker, MarkerGoes
  <2>3. \A h \in Conns : Goes(h)
    BY <1>00, <2>1 DEF Goes
  <2> QED  BY <2>1, <2>2, <2>3 DEF Moves
<1>14. CASE (PurgeStart \/ StaleStart \/ SweepStep) /\ ~ \E p \in Pools : SweepRemove(p)
  <2>1. conn' = conn /\ marker' = marker /\ (spent' = spent \/ Spend("sweeps"))
    BY <1>14 DEF PurgeStart, StaleStart, StartSweep, SweepStep, SweepList, SweepEnd,
                 PurgeCollect, PurgePrune, PurgeRead
  <2> QED  BY <1>000, <2>1, StillMoves
<1> QED
  BY <1>2, <1>3, <1>4, <1>5, <1>6, <1>7, <1>8, <1>9, <1>10, <1>11, <1>12, <1>13, <1>14
     DEF Next, HookStep, HookFault

(***************************************************************************)
(* Connections in order.                                                   *)
(***************************************************************************)

\* What an arrival finds and leaves.
LEMMA Arrival ==
    ASSUME FilesInv, Ordered, NEW k \in Conns, Arrives(k)
    PROVE  /\ conn[k].phase = "new" /\ conn'[k].phase = "asking"
           /\ marker' = marker /\ status' = status /\ poll' = poll /\ lock' = lock
           /\ file' = file /\ credit' = credit /\ spent' = spent /\ sweep' = sweep
           /\ \A h \in Conns : h < k => conn[h].phase # "new"
           /\ \A h \in Conns : h > k => conn[h].phase = "new"
           /\ \A h \in Conns : conn[h].phase \in {"asking", "live"} => conn[h].pool # conn'[k].pool
           /\ ~DelayedDisconnect =>
                \A h \in Conns : conn[h].phase = "ending" => conn[h].pool # conn'[k].pool
           /\ \A h \in Conns : h # k => Goes(h)
           /\ \A st \in {status, poll.snap}, h \in Conns :
                h \in st.listed /\ conn[h].pool = conn'[k].pool /\ st.at > conn'[k].start
                  => conn'[k].crossed
           /\ \A h \in Conns, m \in Conns :
                /\ h \in status.listed /\ conn[h].pool = conn'[k].pool
                /\ m = marker[conn'[k].pool].of /\ h # m /\ m # k
                => conn'[m].crossed
           /\ conn'[k].bytes = conn[k].bytes /\ conn'[k].pool \in Pools
<1>1. PICK p \in Pools, start \in Times : Arrive(k, p, start)
  BY DEF Arrives
<1>2. /\ conn[k].phase = "new" /\ conn'[k].phase = "asking" /\ conn'[k].pool = p
      /\ conn'[k].start = start /\ conn'[k].bytes = conn[k].bytes
      /\ Crosses(p, start) => conn'[k].crossed
      /\ \A h \in Conns : h # k =>
           /\ conn'[h].phase = conn[h].phase /\ conn'[h].pool = conn[h].pool
           /\ conn'[h].start = conn[h].start /\ conn'[h].bytes = conn[h].bytes
           /\ conn[h].crossed \/ h \in Overtaken(p) => conn'[h].crossed
  BY <1>1, ArriveMeans DEF FilesInv
<1>3. /\ marker' = marker /\ status' = status /\ poll' = poll /\ lock' = lock
      /\ file' = file /\ credit' = credit /\ spent' = spent /\ sweep' = sweep
      /\ \A h \in Conns : h < k => conn[h].phase # "new"
      /\ \A h \in HoldingPool : conn[h].pool # p
  BY <1>1 DEF Arrive
<1>4. \A h \in Conns : h > k => conn[h].phase = "new"
  BY <1>2, ConnsAreNumbers DEF Ordered
<1>5. /\ \A h \in Conns : conn[h].phase \in {"asking", "live"} => conn[h].pool # p
      /\ ~DelayedDisconnect => \A h \in Conns : conn[h].phase = "ending" => conn[h].pool # p
  BY <1>3 DEF HoldingPool, InPhase
<1>6. \A h \in Conns : h # k => Goes(h)
  BY <1>2, Values DEF Goes, FilesInv
<1>7. \A st \in {status, poll.snap}, h \in Conns :
        h \in st.listed /\ conn[h].pool = p /\ st.at > start => conn'[k].crossed
  BY <1>2 DEF Crosses, ListedAt
<1>8. ASSUME NEW h \in Conns, NEW m \in Conns, h \in status.listed, conn[h].pool = p,
             m = marker[p].of, h # m, m # k
      PROVE  conn'[m].crossed
  <2>1. m \in Overtaken(p)
    BY <1>8, ConnsAreNumbers DEF Overtaken, ListedAt
  <2> QED  BY <1>2, <1>8, <2>1
<1> QED  BY <1>2, <1>3, <1>4, <1>5, <1>6, <1>7, <1>8

\* One connection at a time has a pool address.
LEMMA OneHolder ==
    ASSUME FilesInv, Ordered, NEW g \in Conns, NEW h \in Conns, g # h,
           conn[g].phase \in {"asking", "live"}, conn[h].phase \in {"asking", "live"}
    PROVE  conn[g].pool # conn[h].pool
<1>1. g \in Nat /\ h \in Nat
  BY ConnsAreNumbers
<1> QED  BY <1>1 DEF Ordered

LEMMA OrderedKept ==
    ASSUME FilesInv, Ordered, Moves
    PROVE  Ordered'
<1>0. /\ \A g \in Conns : g \in Nat /\ g # NoConn /\ conn[g].pool \in Pools
      /\ \A p \in Pools : marker[p].of \in Conns \union {NoConn}
      /\ \A p \in Pools : marker[p].of # NoConn =>
           conn[marker[p].of].pool = p /\ conn[marker[p].of].phase # "new"
  BY Values, ConnsAreNumbers DEF FilesInv, Owned, Placed
<1>1. ASSUME NEW k \in Conns, Arrives(k)
      PROVE  Ordered'
  <2>1. /\ conn[k].phase = "new" /\ conn'[k].phase = "asking" /\ marker' = marker
        /\ \A h \in Conns : h < k => conn[h].phase # "new"
        /\ \A h \in Conns : h > k => conn[h].phase = "new"
        /\ \A h \in Conns : conn[h].phase \in {"asking", "live"} => conn[h].pool # conn'[k].pool
    BY <1>1, Arrival
  <2>2. \A h \in Conns : h # k => conn'[h].pool = conn[h].pool /\ conn'[h].phase = conn[h].phase
    <3>1. PICK p \in Pools, start \in Times : Arrive(k, p, start)
      BY <1>1 DEF Arrives
    <3> QED  BY <3>1, ArriveMeans DEF FilesInv
  <2>3. ASSUME NEW g \in Conns, NEW h \in Conns, g < h, conn'[h].phase # "new"
        PROVE  /\ conn'[g].phase # "new"
               /\ conn'[g].pool = conn'[h].pool => conn'[g].phase \notin {"asking", "live"}
    <3>1. CASE h = k
      BY <1>0, <2>1, <2>2, <2>3, <3>1
    <3>2. CASE h # k
      <4>1. conn[h].phase # "new" /\ g # k
        BY <2>1, <2>2, <2>3, <3>2
      <4> QED  BY <2>2, <2>3, <3>2, <4>1 DEF Ordered
    <3> QED  BY <3>1, <3>2
  <2>4. \A g \in Conns : conn'[g].phase = "live" => marker'[conn'[g].pool].of \in {g, NoConn}
    BY <2>1, <2>2 DEF Ordered
  <2>5. \A p \in Pools : marker'[p].of # NoConn => conn'[marker'[p].of].phase # "asking"
    BY <1>0, <2>1, <2>2 DEF Ordered
  <2> QED  BY <2>3, <2>4, <2>5 DEF Ordered
<1>2. CASE \A h \in Conns : Goes(h)
  <2>1. ASSUME NEW g \in Conns, NEW h \in Conns, g < h, conn'[h].phase # "new"
        PROVE  /\ conn'[g].phase # "new"
               /\ conn'[g].pool = conn'[h].pool => conn'[g].phase \notin {"asking", "live"}
    <3>1. conn[h].phase # "new" /\ conn'[h].pool = conn[h].pool /\ conn'[g].pool = conn[g].pool
      BY <1>2, <2>1 DEF Goes
    <3>2. /\ conn[g].phase # "new"
          /\ conn[g].pool = conn[h].pool => conn[g].phase \notin {"asking", "live"}
      BY <2>1, <3>1 DEF Ordered
    <3>3. Goes(g)
      BY <1>2
    <3> QED  BY <3>1, <3>2, <3>3 DEF Goes
  <2>2. ASSUME NEW g \in Conns, conn'[g].phase = "live"
        PROVE  marker'[conn'[g].pool].of \in {g, NoConn}
    <3>1. Goes(g) /\ conn[g].pool \in Pools /\ conn'[g].pool = conn[g].pool
            /\ conn[g].phase \in {"asking", "live"}
      BY <1>0, <1>2, <2>2 DEF Goes
    <3>2. CASE \E h \in Conns : /\ conn[h].pool = conn[g].pool /\ conn[h].phase = "asking"
                                /\ marker'[conn[g].pool].of = h
      BY <3>1, <3>2, OneHolder
    <3>3. CASE marker'[conn[g].pool].of = marker[conn[g].pool].of /\ conn[g].phase = "live"
      BY <3>1, <3>3 DEF Ordered
    <3>4. CASE conn[g].phase = "asking"
      BY <2>2, <3>1, <3>4 DEF Goes
    <3> QED  BY <3>1, <3>2, <3>3, <3>4 DEF Moves, MarkerGoes
  <2>3. ASSUME NEW p \in Pools, marker'[p].of # NoConn
        PROVE  conn'[marker'[p].of].phase # "asking"
    <3>1. CASE marker'[p].of = marker[p].of
      BY <1>0, <1>2, <2>3, <3>1 DEF Ordered, Goes
    <3>2. CASE \E g \in Conns : conn'[g].phase = "live" /\ marker'[p].of = g
      BY <3>2
    <3> QED  BY <2>3, <3>1, <3>2 DEF Moves, MarkerGoes
  <2> QED  BY <2>1, <2>2, <2>3 DEF Ordered
<1> QED  BY <1>1, <1>2 DEF Moves

(***************************************************************************)
(* A copy of the status file stays true of the connections that follow.    *)
(***************************************************************************)
RowsAfter(st) ==
    \A h \in st.listed :
        /\ conn'[h].phase \notin {"new", "asking"}
        /\ st.bytes[h] <= conn'[h].bytes
        /\ \A g \in Conns : conn'[g].pool = conn'[h].pool =>
             /\ g < h => marker'[conn'[h].pool].of # g
             /\ g > h /\ conn'[g].phase # "new" => conn'[g].start >= st.at \/ conn'[g].crossed

LEMMA RowsKept ==
    ASSUME FilesInv, Ordered, Moves, NEW st \in {status, poll.snap}, Rows(st)
    PROVE  RowsAfter(st)
<1>0. /\ st.listed \subseteq Conns /\ st.at \in Nat
      /\ \A h \in Conns : st.bytes[h] \in Nat /\ conn[h].pool \in Pools
      /\ \A h \in Conns : conn[h].bytes \in Nat /\ conn[h].start \in Nat
      /\ \A h \in Conns : h \in Nat /\ h # NoConn
  BY Values, ConnsAreNumbers, Numbers DEF FilesInv
<1> SUFFICES ASSUME NEW h \in st.listed
             PROVE  /\ conn'[h].phase \notin {"new", "asking"}
                    /\ st.bytes[h] <= conn'[h].bytes
                    /\ \A g \in Conns : conn'[g].pool = conn'[h].pool =>
                         /\ g < h => marker'[conn'[h].pool].of # g
                         /\ g > h /\ conn'[g].phase # "new" =>
                              conn'[g].start >= st.at \/ conn'[g].crossed
  BY DEF RowsAfter
<1>1. /\ h \in Conns /\ conn[h].phase \notin {"new", "asking"} /\ st.bytes[h] <= conn[h].bytes
      /\ \A g \in Conns : conn[g].pool = conn[h].pool =>
           /\ g < h => marker[conn[h].pool].of # g
           /\ g > h /\ conn[g].phase # "new" => conn[g].start >= st.at \/ conn[g].crossed
  BY <1>0 DEF Rows
<1>2. Goes(h)
  <2>1. ~Arrives(h)
    BY <1>1, Arrival
  <2> QED  BY <1>1, <2>1 DEF Moves
<1>3. conn'[h].phase \notin {"new", "asking"} /\ conn'[h].pool = conn[h].pool
  BY <1>1, <1>2 DEF Goes
<1>4. st.bytes[h] <= conn'[h].bytes
  BY <1>0, <1>1, <1>2 DEF Goes
<1>5. ASSUME NEW g \in Conns, conn'[g].pool = conn'[h].pool, g < h
      PROVE  marker'[conn'[h].pool].of # g
  <2>1. conn[g].phase # "new"
    BY <1>1, <1>5 DEF Ordered
  <2>2. Goes(g) /\ conn[g].pool = conn[h].pool
    BY <1>3, <1>5, <2>1, Arrival DEF Moves, Goes
  <2>3. conn[g].phase # "asking"
    BY <1>1, <1>5, <2>2 DEF Ordered
  <2>4. MarkerGoes(conn[h].pool) /\ marker[conn[h].pool].of # g
    BY <1>0, <1>1, <1>5, <2>2 DEF Moves
  <2> QED  BY <1>0, <1>3, <2>3, <2>4 DEF MarkerGoes
<1>6. ASSUME NEW g \in Conns, conn'[g].pool = conn'[h].pool, g > h, conn'[g].phase # "new"
      PROVE  conn'[g].start >= st.at \/ conn'[g].crossed
  <2>1. CASE Goes(g)
    <3>1. conn[g].pool = conn[h].pool /\ conn[g].phase # "new"
      BY <1>3, <1>6, <2>1 DEF Goes
    <3> QED  BY <1>1, <1>6, <2>1, <3>1 DEF Goes
  <2>2. CASE Arrives(g)
    <3>1. st.at > conn'[g].start => conn'[g].crossed
      BY <1>1, <1>3, <1>6, <2>2, Arrival
    <3>2. conn'[g].start \in Nat
      <4>1. PICK p \in Pools, start \in Times : Arrive(g, p, start)
        BY <2>2 DEF Arrives
      <4> QED  BY <4>1, ArriveMeans, Numbers DEF FilesInv, Times
    <3> QED  BY <1>0, <3>1, <3>2
  <2> QED  BY <2>1, <2>2 DEF Moves
<1> QED  BY <1>3, <1>4, <1>5, <1>6

\* What a step does to the status file and to the poll's copy of it.
LEMMA StatusSteps ==
    ASSUME FilesInv, Next
    PROVE  \/ status' = status
           \/ /\ conn' = conn /\ marker' = marker /\ status'.listed \subseteq Live
              /\ \A h \in status'.listed : status'.bytes[h] = conn[h].bytes
           \/ status'.listed = {}
<1>0. Live \subseteq Conns
  BY DEF Live, InPhase
<1>1. ASSUME NEW part \in SUBSET Live, NEW c \in BOOLEAN, status' = StatusOf(part, c)
      PROVE  /\ status'.listed \subseteq Live
             /\ \A h \in status'.listed : status'.bytes[h] = conn[h].bytes
  BY <1>0, <1>1 DEF StatusOf
<1>2. CASE WriteStatus
  BY <1>1, <1>2 DEF WriteStatus
<1>3. ASSUME NEW part \in SUBSET Live, TearStatus(part)
      PROVE  /\ conn' = conn /\ marker' = marker /\ status'.listed \subseteq Live
             /\ \A h \in status'.listed : status'.bytes[h] = conn[h].bytes
  BY <1>1, <1>3 DEF TearStatus
<1>4. ASSUME NEW orphans \in SUBSET InPhase({"ending"}), DaemonCrash(orphans)
      PROVE  status'.listed = {}
  BY <1>4 DEF DaemonCrash, EmptyStatus
<1>5. CASE \/ Tick
           \/ \E g \in Conns : Traffic(g) \/ End(g)
           \/ \E g \in Conns, p \in Pools, start \in Times : Arrive(g, p, start)
  BY <1>5 DEF Tick, Traffic, End, Arrive
<1>6. ASSUME NEW g \in Conns, HookStep(g) \/ HookFault(g)
      PROVE  status' = status
  BY <1>6 DEF HookStep, HookFault, ConnectBank, ConnectWrite, DisconnectIgnored,
              DisconnectBank, DisconnectRemove, ConnectFails, DisconnectBankFails,
              DisconnectRemoveFails
<1>7. CASE PollSnapshot \/ PollStep \/ PollAborts \/ Reset
  BY <1>7 DEF PollSnapshot, PollStep, PollAborts, Reset, PollLock, PollCollect, PollReport,
              PollPrune, PollRecord, PollSkip
<1>8. CASE PurgeStart \/ StaleStart \/ SweepStep
  BY <1>8 DEF PurgeStart, StaleStart, StartSweep, SweepStep, SweepList, SweepEnd,
              PurgeCollect, PurgePrune, PurgeRead, SweepRemove
<1> QED  BY <1>2, <1>3, <1>4, <1>5, <1>6, <1>7, <1>8 DEF Next

LEMMA PollSteps ==
    ASSUME FilesInv, Next
    PROVE  /\ poll'.snap \in {poll.snap, status, EmptyStatus(0)}
           /\ poll'.step = "record" =>
                /\ poll'.snap = poll.snap
                /\ \/ /\ poll'.cands = OnDisk /\ poll'.todo = poll.snap.listed
                      /\ lock.holder = "free" /\ conn' = conn
                   \/ /\ poll.step = "record"
                      /\ poll'.cands = poll.cands /\ poll'.todo \subseteq poll.todo
<1>0. StateType /\ poll \in PollType
  BY DEF FilesInv, StateType
<1>1. CASE \/ Tick
           \/ \E g \in Conns : Traffic(g) \/ End(g)
           \/ \E g \in Conns, p \in Pools, start \in Times : Arrive(g, p, start)
           \/ WriteStatus
           \/ \E part \in SUBSET Live : TearStatus(part)
           \/ \E orphans \in SUBSET InPhase({"ending"}) : DaemonCrash(orphans)
           \/ Reset
  <2>1. poll' = poll
    BY <1>1 DEF Tick, Traffic, End, Arrive, WriteStatus, TearStatus, DaemonCrash, Reset
  <2> QED  BY <2>1
<1>2. ASSUME NEW g \in Conns, HookStep(g) \/ HookFault(g)
      PROVE  poll' = poll
  BY <1>2 DEF HookStep, HookFault, ConnectBank, ConnectWrite, DisconnectIgnored,
              DisconnectBank, DisconnectRemove, ConnectFails, DisconnectBankFails,
              DisconnectRemoveFails
<1>3. CASE PollSnapshot
  <2>1. poll'.snap = status /\ poll'.step # "record"
    BY <1>3 DEF PollSnapshot, IdlePoll
  <2> QED  BY <2>1
<1>4. CASE PollLock
  <2>1. /\ poll'.snap = poll.snap /\ poll'.cands = OnDisk /\ poll'.todo = poll.snap.listed
        /\ lock.holder = "free" /\ conn' = conn
    BY <1>0, <1>4 DEF PollLock, PollType
  <2> QED  BY <2>1
<1>5. CASE PollPrune \/ PollAborts
  <2>1. poll'.snap = EmptyStatus(0) /\ poll'.step # "record"
    BY <1>5 DEF PollPrune, PollAborts, IdlePoll
  <2> QED  BY <2>1
<1>6. CASE PollCollect
  <2>1. poll'.snap = EmptyStatus(0) /\ poll'.step # "record"
    BY <1>6 DEF PollCollect, IdlePoll
  <2> QED  BY <2>1
<1>7. CASE PollReport
  <2>1. poll'.snap = poll.snap /\ poll'.step # "record"
    BY <1>0, <1>7 DEF PollReport, PollType
  <2> QED  BY <2>1
<1>8. ASSUME NEW g \in Conns, NEW present, AfterRow(g, present)
      PROVE  /\ poll'.snap = poll.snap
             /\ poll'.step = "record" => poll'.cands = poll.cands /\ poll'.todo \subseteq poll.todo
  <2>1. CASE poll.todo = {g}
    BY <1>0, <1>8, <2>1 DEF AfterRow, PollType
  <2>2. CASE poll.todo # {g}
    BY <1>0, <1>8, <2>2 DEF AfterRow, PollType
  <2> QED  BY <2>1, <2>2
<1>9. ASSUME NEW g \in Conns, PollRecord(g) \/ PollSkip(g)
      PROVE  /\ poll'.snap = poll.snap /\ poll.step = "record"
             /\ poll'.step = "record" => poll'.cands = poll.cands /\ poll'.todo \subseteq poll.todo
  BY <1>8, <1>9 DEF PollRecord, PollSkip
<1>10. CASE PurgeStart \/ StaleStart \/ SweepStep
  <2>1. poll' = poll
    BY <1>10 DEF PurgeStart, StaleStart, StartSweep, SweepStep, SweepList, SweepEnd,
                 PurgeCollect, PurgePrune, PurgeRead, SweepRemove
  <2> QED  BY <2>1
<1> QED  BY <1>1, <1>2, <1>3, <1>4, <1>5, <1>6, <1>7, <1>9, <1>10 DEF Next, PollStep

Reading == Rows(status) /\ Rows(poll.snap) /\ Matching

LEMMA ReadingKept ==
    ASSUME FilesInv, Ordered, Reading, Next, Moves
    PROVE  Reading'
<1>0. /\ \A g \in Conns : conn[g].bytes \in Nat /\ conn[g].pool \in Pools
      /\ \A g \in Conns : g \in Nat /\ g # NoConn
      /\ poll.snap.listed \subseteq Conns /\ poll.cands \subseteq Conns /\ poll.todo \subseteq Conns
  BY Values, ConnsAreNumbers DEF FilesInv
<1>1. RowsAfter(status) /\ RowsAfter(poll.snap)
  BY RowsKept DEF Reading
<1>2. Rows(status)'
  <2>1. CASE status' = status
    BY <1>1, <2>1 DEF Rows, RowsAfter
  <2>2. CASE /\ conn' = conn /\ marker' = marker /\ status'.listed \subseteq Live
             /\ \A h \in status'.listed : status'.bytes[h] = conn[h].bytes
    <3>1. \A h \in status'.listed : h \in Conns /\ conn[h].phase = "live"
      BY <2>2 DEF Live, InPhase
    <3>2. ASSUME NEW h \in status'.listed, NEW g \in Conns, conn[g].pool = conn[h].pool
          PROVE  /\ g < h => marker[conn[h].pool].of # g
                 /\ g > h => conn[g].phase = "new"
      BY <1>0, <3>1, <3>2 DEF Ordered
    <3> QED  BY <1>0, <2>2, <3>1, <3>2 DEF Rows
  <2>3. CASE status'.listed = {}
    BY <2>3 DEF Rows
  <2> QED  BY <2>1, <2>2, <2>3, StatusSteps
<1>3. Rows(poll.snap)'
  <2>1. CASE poll'.snap = poll.snap
    BY <1>1, <2>1 DEF Rows, RowsAfter
  <2>2. CASE poll'.snap = status
    BY <1>1, <2>2 DEF Rows, RowsAfter
  <2>3. CASE poll'.snap = EmptyStatus(0)
    <3>1. poll'.snap.listed = {}
      BY <2>3 DEF EmptyStatus
    <3> QED  BY <3>1 DEF Rows
  <2> QED  BY <2>1, <2>2, <2>3, PollSteps
<1>4. Matching'
  <2> SUFFICES ASSUME poll'.step = "record"
               PROVE  /\ poll'.todo \subseteq poll'.snap.listed
                      /\ \A m \in poll'.cands :
                           /\ conn'[m].phase \notin {"new", "asking"}
                           /\ \A h \in poll'.todo : m < h => conn'[m].pool # conn'[h].pool
    BY DEF Matching
  <2>1. CASE /\ poll'.snap = poll.snap /\ poll'.cands = OnDisk /\ poll'.todo = poll.snap.listed
             /\ lock.holder = "free" /\ conn' = conn
    <3>1. ASSUME NEW m \in OnDisk
          PROVE  /\ m \in Conns /\ conn[m].phase \notin {"new", "asking"}
                 /\ marker[conn[m].pool].of = m
      <4>1. PICK p \in Pools : marker[p].of = m /\ m # NoConn
        BY DEF OnDisk
      <4>2. conn[m].pool = p /\ conn[m].phase # "new"
        BY <4>1 DEF FilesInv, Owned, Placed
      <4>3. m \in Conns /\ conn[m].phase # "asking"
        BY <4>1, OnDiskType DEF Ordered, FilesInv
      <4> QED  BY <4>1, <4>2, <4>3
    <3>2. ASSUME NEW m \in OnDisk, NEW h \in poll.snap.listed, m < h
          PROVE  conn[m].pool # conn[h].pool
      BY <3>1, <3>2 DEF Reading, Rows
    <3> QED  BY <2>1, <3>1, <3>2
  <2>2. CASE /\ poll'.snap = poll.snap /\ poll.step = "record"
             /\ poll'.cands = poll.cands /\ poll'.todo \subseteq poll.todo
    <3>1. poll.todo \subseteq poll.snap.listed
      BY <2>2 DEF Reading, Matching
    <3>2. ASSUME NEW h \in Conns, conn[h].phase \notin {"new", "asking"}
          PROVE  conn'[h].phase \notin {"new", "asking"} /\ conn'[h].pool = conn[h].pool
      <4>1. Goes(h)
        BY <3>2, Arrival DEF Moves
      <4> QED  BY <3>2, <4>1 DEF Goes
    <3>3. \A h \in poll.snap.listed : conn[h].phase \notin {"new", "asking"}
      BY DEF Reading, Rows
    <3>4. \A h \in poll.todo : conn'[h].pool = conn[h].pool
      BY <1>0, <3>1, <3>2, <3>3
    <3>5. \A m \in poll.cands :
            /\ conn[m].phase \notin {"new", "asking"}
            /\ \A h \in poll.todo : m < h => conn[m].pool # conn[h].pool
      BY <2>2 DEF Reading, Matching
    <3>6. \A m \in poll.cands : conn'[m].phase \notin {"new", "asking"} /\ conn'[m].pool = conn[m].pool
      BY <1>0, <3>2, <3>5
    <3> QED  BY <2>2, <3>1, <3>4, <3>5, <3>6
  <2> QED  BY <2>1, <2>2, PollSteps
<1> QED  BY <1>2, <1>3, <1>4 DEF Reading

LEMMA DisplacedKept ==
    ASSUME FilesInv, Ordered, Reading, Displaced, Next, Moves
    PROVE  Displaced'
<1>0. /\ \A g \in Conns : g \in Nat /\ g # NoConn /\ conn[g].pool \in Pools
      /\ status.listed \subseteq Conns
      /\ \A p \in Pools : marker[p].of \in Conns \union {NoConn}
      /\ \A p \in Pools : marker[p].of # NoConn => conn[marker[p].of].phase # "new"
  BY Values, ConnsAreNumbers DEF FilesInv, Owned, Placed
<1> SUFFICES ASSUME NEW g \in Conns, conn'[g].phase = "asking",
                    marker'[conn'[g].pool].of # NoConn,
                    NEW h \in status'.listed, conn'[h].pool = conn'[g].pool
             PROVE  h = marker'[conn'[g].pool].of \/ conn'[marker'[conn'[g].pool].of].crossed
  BY DEF Displaced
<1>1. \A k \in Conns : conn[k].phase \notin {"new"} => Goes(k)
  BY Arrival DEF Moves
<1>2. \A k \in status.listed : k \in Conns /\ conn[k].phase \notin {"new", "asking"}
  BY <1>0 DEF Reading, Rows
<1>3. CASE Arrives(g)
  <2> DEFINE p == conn'[g].pool
             m == marker[p].of
  <2>1. /\ marker' = marker /\ status' = status /\ p \in Pools /\ conn[g].phase = "new"
        /\ \A a \in Conns, b \in Conns :
             /\ a \in status.listed /\ conn[a].pool = p /\ b = m /\ a # b /\ b # g
             => conn'[b].crossed
    BY <1>3, Arrival
  <2>2. m \in Conns /\ m # g
    BY <1>0, <2>1
  <2>3. conn[h].pool = p /\ h \in status.listed /\ h \in Conns
    BY <1>1, <1>2, <2>1 DEF Goes
  <2> QED  BY <2>1, <2>2, <2>3
<1>4. CASE Goes(g)
  <2>1. conn[g].phase = "asking" /\ conn'[g].pool = conn[g].pool
    BY <1>4 DEF Goes
  <2>2. marker'[conn[g].pool].of = marker[conn[g].pool].of
    <3>1. MarkerGoes(conn[g].pool)
      BY <1>0 DEF Moves
    <3>2. ASSUME NEW k \in Conns, conn[k].pool = conn[g].pool, conn[k].phase = "asking",
                 conn'[k].phase = "live"
          PROVE  FALSE
      BY <2>1, <3>2, OneHolder
    <3> QED  BY <2>1, <3>1, <3>2 DEF MarkerGoes
  <2>3. CASE status' = status
    <3>1. h \in status.listed /\ conn[h].pool = conn[g].pool
      BY <1>1, <1>2, <2>1, <2>3 DEF Goes
    <3>2. h = marker[conn[g].pool].of \/ conn[marker[conn[g].pool].of].crossed
      BY <2>1, <2>2, <3>1 DEF Displaced
    <3>3. marker[conn[g].pool].of \in Conns /\ Goes(marker[conn[g].pool].of)
      BY <1>0, <1>1, <2>1, <2>2
    <3> QED  BY <2>1, <2>2, <3>2, <3>3 DEF Goes
  <2>4. CASE conn' = conn /\ status'.listed \subseteq Live
    <3>1. h \in Conns /\ conn[h].phase = "live" /\ conn[h].pool = conn[g].pool
      BY <2>4 DEF Live, InPhase
    <3> QED  BY <2>1, <3>1, OneHolder
  <2> QED  BY <2>3, <2>4, StatusSteps
<1> QED  BY <1>3, <1>4 DEF Moves

(***************************************************************************)
(* The credit of the identities.                                           *)
(***************************************************************************)
PendingAfter(g) ==
    /\ \/ conn'[g].phase \in {"new", "asking"}
       \/ marker'[conn'[g].pool].of = g
       \/ poll'.step = "record" /\ g \in poll'.cands
    /\ ~ \/ lock'.holder = "disconnect" /\ lock'.of = g
         \/ lock'.holder = "connect" /\ marker'[conn'[lock'.of].pool].of = g

\* An entry that takes further bytes is open, and holds what was credited.
Open(s) == ~file.sessions[s].closed /\ credit[s] = file.sessions[s].bytes

OpenAfter(s) == ~file'.sessions[s].closed /\ credit'[s] = file'.sessions[s].bytes

CreditedAfter(g) ==
    /\ PendingAfter(g) => OpenAfter(MarkerSid(g))
    /\ \/ credit'[MarkerSid(g)] <= conn'[g].bytes
       \/ conn'[g].crossed /\ conn'[g].phase # "new"
    /\ OpenAfter(RowSid(g)) /\ credit'[RowSid(g)] <= conn'[g].bytes

CreditedNow(g) ==
    /\ Pending(g) => Open(MarkerSid(g))
    /\ \/ credit[MarkerSid(g)] <= conn[g].bytes
       \/ conn[g].crossed /\ conn[g].phase # "new"
    /\ Open(RowSid(g)) /\ credit[RowSid(g)] <= conn[g].bytes

LEMMA CreditedMeans ==
    /\ Credited <=> (spent.faults = 0 => \A g \in Conns : CreditedNow(g))
    /\ Credited' <=> (spent'.faults = 0 => \A g \in Conns : CreditedAfter(g))
BY DEF Credited, Open, OpenAfter, Pending, PendingAfter, Reach, Closing, CreditedAfter, CreditedNow

\* A marker is at its owner's pool address, and its owner was admitted.
LEMMA MarkerOwner ==
    ASSUME FilesInv, Ordered, NEW p \in Pools, NEW g \in Conns, marker[p].of = g
    PROVE  conn[g].pool = p /\ conn[g].phase \notin {"new", "asking"}
BY ConnsAreNumbers DEF FilesInv, Owned, Placed, Ordered

LEMMA FaultCounts ==
    ASSUME StateType, Spend("faults")
    PROVE  spent'.faults # 0
<1>1. spent.faults \in Nat
  BY Numbers DEF StateType, Budgets
<1>2. spent'.faults = spent.faults + 1
  BY DEF Spend, StateType, Budgets
<1> QED  BY <1>1, <1>2

\* Where markers and the lock stay, nothing becomes pending.
LEMMA QuietPending ==
    ASSUME FilesInv, Ordered, Moves, marker' = marker, lock' = lock,
           poll'.step = "record" => poll.step = "record" /\ poll'.cands = poll.cands,
           NEW g \in Conns, PendingAfter(g)
    PROVE  Pending(g)
<1>1. Reach(g)
  <2>1. CASE Arrives(g)
    BY <2>1, Arrival DEF Reach
  <2>2. CASE Goes(g)
    BY <2>2 DEF Goes, Reach, PendingAfter
  <2> QED  BY <2>1, <2>2 DEF Moves
<1>2. ~Closing(g)
  <2>1. CASE lock.holder = "connect"
    <3>1. lock.of \in Conns /\ conn[lock.of].phase = "asking"
      BY <2>1 DEF FilesInv, Owned, Locked
    <3>2. Goes(lock.of)
      BY <3>1, Arrival DEF Moves
    <3> QED  BY <2>1, <3>2 DEF Goes, Closing, PendingAfter
  <2>2. CASE lock.holder # "connect"
    BY <2>2 DEF Closing, PendingAfter
  <2> QED  BY <2>1, <2>2
<1> QED  BY <1>1, <1>2 DEF Pending

\* An identity is pending from the start, and is so no more when a hook has
\* committed its last record or its marker is gone.
LEMMA PendingSteps ==
    ASSUME FilesInv, Ordered, Next, Moves, spent'.faults = 0, NEW g \in Conns,
           \A k \in Conns : ~ConnectBank(k) /\ ~DisconnectBank(k), PendingAfter(g)
    PROVE  Pending(g)
<1>0. StateType /\ Owned /\ Locked /\ poll \in PollType /\ conn[g].pool \in Pools
        /\ \A k \in Conns : conn[k].pool \in Pools
  BY Values DEF FilesInv, Owned, StateType
<1>00. poll.step = "record" <=> lock.holder = "poll"
  BY <1>0 DEF Locked
<1>1. CASE \/ Tick \/ WriteStatus
           \/ \E part \in SUBSET Live : TearStatus(part)
           \/ \E k \in Conns : Traffic(k) \/ End(k) \/ DisconnectIgnored(k)
           \/ \E k \in Conns, p \in Pools, start \in Times : Arrive(k, p, start)
           \/ Reset
  <2>1. marker' = marker /\ lock' = lock /\ poll' = poll
    BY <1>1 DEF Tick, WriteStatus, TearStatus, Traffic, End, DisconnectIgnored, Arrive, Reset
  <2> QED  BY <2>1, QuietPending
<1>2. ASSUME NEW orphans \in SUBSET InPhase({"ending"}), DaemonCrash(orphans)
      PROVE  Pending(g)
  <2>1. marker' = marker /\ poll' = poll
    BY <1>2 DEF DaemonCrash
  <2>2. lock' = lock
    BY <1>0, <1>2, CrashMeans
  <2> QED  BY <2>1, <2>2, QuietPending
<1>3. CASE PollSnapshot \/ PollCollect \/ PollReport \/ PollPrune
  <2>1. marker' = marker /\ lock' = lock
    BY <1>3 DEF PollSnapshot, PollCollect, PollReport, PollPrune
  <2>2. poll'.step # "record"
    <3>0. CASE PollSnapshot
      BY <3>0 DEF PollSnapshot, IdlePoll
    <3>1. CASE PollPrune
      BY <3>1 DEF PollPrune, IdlePoll
    <3>2. CASE PollCollect
      BY <3>2 DEF PollCollect, IdlePoll
    <3>3. CASE PollReport
      BY <1>0, <3>3 DEF PollReport, PollType
    <3> QED  BY <1>3, <3>0, <3>1, <3>2, <3>3
  <2> QED  BY <2>1, <2>2, QuietPending
<1>4. CASE (PurgeStart \/ StaleStart \/ SweepStep) /\ ~ \E p \in Pools : SweepRemove(p)
  <2>1. marker' = marker /\ lock' = lock /\ poll' = poll
    BY <1>4 DEF PurgeStart, StaleStart, StartSweep, SweepStep, SweepList, SweepEnd,
                PurgeCollect, PurgePrune, PurgeRead
  <2> QED  BY <2>1, QuietPending
<1>5. ASSUME NEW p \in Pools, SweepRemove(p)
      PROVE  Pending(g)
  <2>1. /\ conn' = conn /\ lock' = lock /\ poll' = poll
        /\ \A q \in Pools : q # p => marker'[q] = marker[q]
        /\ marker'[p].of = NoConn
    BY <1>0, <1>5 DEF SweepRemove, StateType, NoMarker
  <2>2. Reach(g)
    BY <1>0, <2>1, ConnsAreNumbers DEF PendingAfter, Reach
  <2>3. ASSUME lock.holder = "connect", marker[conn[lock.of].pool].of = g
        PROVE  FALSE
    <3>1. lock.of \in Conns /\ conn[lock.of].pool \in Pools
      BY <1>0, <2>3 DEF Locked
    <3>2. conn[g].pool = conn[lock.of].pool /\ conn[g].phase \notin {"new", "asking"}
      BY <2>3, <3>1, MarkerOwner
    <3>3. marker'[conn[g].pool].of = g
      BY <1>00, <2>1, <2>3, <3>2 DEF PendingAfter
    <3> QED  BY <2>1, <2>3, <3>2, <3>3 DEF PendingAfter
  <2> QED  BY <2>1, <2>2, <2>3 DEF PendingAfter, Pending, Closing
<1>6. ASSUME NEW k \in Conns, ConnectWrite(k)
      PROVE  Pending(g)
  <2>1. /\ lock.holder = "connect" /\ lock.of = k /\ poll' = poll
        /\ conn' = [conn EXCEPT ![k].phase = "live"]
        /\ \A q \in Pools : q # conn[k].pool => marker'[q] = marker[q]
        /\ marker'[conn[k].pool].of = k
    BY <1>0, <1>6 DEF ConnectWrite, StateType
  <2>2. /\ conn'[k].phase = "live" /\ \A h \in Conns : conn'[h].pool = conn[h].pool
        /\ \A h \in Conns : h # k => conn'[h].phase = conn[h].phase
        /\ conn[k].phase = "asking"
    <3>1. conn[k].phase = "asking"
      BY <1>0, <2>1 DEF Locked
    <3>2. "live" \in Phases
      BY DEF Phases
    <3> QED  BY <1>0, <2>1, <3>1, <3>2, ConnPhase
  <2>3. CASE conn[g].phase \in {"new", "asking"}
    <3>1. marker[conn[k].pool].of # g
      BY <1>0, <2>3, MarkerOwner
    <3> QED  BY <2>1, <2>3, <3>1 DEF Pending, Reach, Closing
  <2>4. CASE conn[g].phase \notin {"new", "asking"}
    <3>1. g # k /\ marker'[conn[g].pool].of = g
      BY <1>00, <2>1, <2>2, <2>4 DEF PendingAfter
    <3>2. conn[g].pool # conn[k].pool /\ marker[conn[g].pool].of = g
      BY <1>0, <2>1, <3>1
    <3>3. marker[conn[k].pool].of # g
      BY <1>0, <3>2, MarkerOwner
    <3> QED  BY <2>1, <3>2, <3>3 DEF Pending, Reach, Closing
  <2> QED  BY <2>3, <2>4
<1>7. ASSUME NEW k \in Conns, DisconnectRemove(k)
      PROVE  Pending(g)
  <2>1. /\ lock.holder = "disconnect" /\ lock.of = k /\ poll' = poll
        /\ conn' = [conn EXCEPT ![k].phase = "done"]
        /\ \A q \in Pools : q # conn[k].pool => marker'[q] = marker[q]
        /\ marker'[conn[k].pool].of = NoConn
    BY <1>0, <1>7 DEF DisconnectRemove, StateType, NoMarker
  <2>2. /\ conn'[k].phase = "done" /\ \A h \in Conns : conn'[h].pool = conn[h].pool
        /\ \A h \in Conns : h # k => conn'[h].phase = conn[h].phase
        /\ g # NoConn
    BY <1>0, <2>1, ConnPhase, ConnsAreNumbers DEF Phases
  <2>3. g # k /\ Reach(g)
    BY <1>0, <1>00, <2>1, <2>2 DEF PendingAfter, Reach
  <2> QED  BY <2>1, <2>3 DEF Pending, Closing
<1>8. CASE PollLock
  <2>1. /\ lock.holder = "free" /\ conn' = conn /\ marker' = marker
        /\ poll'.cands = OnDisk
    BY <1>0, <1>8 DEF PollLock, PollType
  <2>2. g \in OnDisk => marker[conn[g].pool].of = g
    BY MarkerOwner DEF OnDisk
  <2>3. Reach(g)
    BY <2>1, <2>2 DEF Reach, PendingAfter
  <2> QED  BY <2>1, <2>3 DEF Pending, Closing
<1>9. ASSUME NEW k \in Conns, PollRecord(k) \/ PollSkip(k)
      PROVE  Pending(g)
  <2>1. conn' = conn /\ marker' = marker /\ lock.holder = "poll"
    BY <1>00, <1>9 DEF PollRecord, PollSkip
  <2>2. poll'.step = "record" => poll.step = "record" /\ poll'.cands = poll.cands
    <3>1. PICK present : AfterRow(k, present) /\ poll.step = "record"
      BY <1>9 DEF PollRecord, PollSkip
    <3>2. CASE poll.todo = {k}
      BY <1>0, <3>1, <3>2 DEF AfterRow, PollType
    <3>3. CASE poll.todo # {k}
      BY <1>0, <3>1, <3>3 DEF AfterRow, PollType
    <3> QED  BY <3>2, <3>3
  <2>3. Reach(g)
    BY <2>1, <2>2 DEF Reach, PendingAfter
  <2> QED  BY <2>1, <2>3 DEF Pending, Closing
<1>10. ASSUME PollAborts \/ \E k \in Conns : HookFault(k)
       PROVE  FALSE
  <2>1. Spend("faults")
    BY <1>10 DEF PollAborts, HookFault, ConnectFails, DisconnectBankFails, DisconnectRemoveFails
  <2> QED  BY <1>0, <2>1, FaultCounts
<1> QED
  BY <1>1, <1>2, <1>3, <1>4, <1>5, <1>6, <1>7, <1>8, <1>9, <1>10
     DEF Next, HookStep, PollStep

\* A step that leaves open entries and credits alone.
Spared ==
    \A s \in Sids : /\ credit'[s] = credit[s]
                    /\ ~file.sessions[s].closed => file'.sessions[s] = file.sessions[s]

\* Traffic only grows, a session stays crossed once it arrived.
LEMMA Grown ==
    ASSUME FilesInv, Ordered, Moves, NEW g \in Conns
    PROVE  /\ conn[g].bytes \in Nat /\ conn'[g].bytes \in Nat /\ conn'[g].bytes >= conn[g].bytes
           /\ conn[g].crossed /\ conn[g].phase # "new" => conn'[g].crossed /\ conn'[g].phase # "new"
           /\ conn[g].phase # "live" => conn'[g].bytes = conn[g].bytes
<1>1. conn[g].bytes \in Nat
  BY Values DEF FilesInv
<1>2. CASE Goes(g)
  BY <1>1, <1>2 DEF Goes
<1>3. CASE Arrives(g)
  BY <1>1, <1>3, Arrival
<1> QED  BY <1>2, <1>3 DEF Moves

LEMMA CreditedStill ==
    ASSUME FilesInv, Ordered, Moves, Spared, spent'.faults = 0, NEW g \in Conns,
           CreditedNow(g), PendingAfter(g) => Pending(g)
    PROVE  CreditedAfter(g)
<1>1. /\ conn[g].bytes \in Nat /\ conn'[g].bytes \in Nat /\ conn'[g].bytes >= conn[g].bytes
      /\ conn[g].crossed /\ conn[g].phase # "new" => conn'[g].crossed /\ conn'[g].phase # "new"
  BY Grown
<1>2. MarkerSid(g) \in Sids /\ RowSid(g) \in Sids /\ \A s \in Sids : credit[s] \in Nat
  BY Identities DEF FilesInv, StoreType
<1>3. \A s \in Sids : Open(s) => OpenAfter(s)
  BY DEF Open, OpenAfter, Spared
<1>4. /\ credit'[MarkerSid(g)] = credit[MarkerSid(g)] /\ credit'[RowSid(g)] = credit[RowSid(g)]
      /\ credit[MarkerSid(g)] \in Nat /\ credit[RowSid(g)] \in Nat
  BY <1>2 DEF Spared
<1>5. credit'[RowSid(g)] <= conn'[g].bytes /\ OpenAfter(RowSid(g))
  BY <1>1, <1>2, <1>3, <1>4 DEF CreditedNow
<1>6. \/ credit'[MarkerSid(g)] <= conn'[g].bytes
      \/ conn'[g].crossed /\ conn'[g].phase # "new"
  BY <1>1, <1>4 DEF CreditedNow
<1>7. PendingAfter(g) => OpenAfter(MarkerSid(g))
  BY <1>2, <1>3 DEF CreditedNow
<1> QED  BY <1>5, <1>6, <1>7 DEF CreditedAfter

\* A record for an open entry.
LEMMA OpenRecorded ==
    ASSUME FilesInv, NEW s \in Sids, NEW b \in 0 .. MaxBytes, NEW closed \in BOOLEAN,
           Recorded(s, b, closed), Open(s)
    PROVE  /\ ~closed => OpenAfter(s)
           /\ credit[s] \in Nat /\ b \in Nat
           /\ credit'[s] = IF b > credit[s] THEN b ELSE credit[s]
           /\ \A t \in Sids \ {s} : file'.sessions[t] = file.sessions[t] /\ credit'[t] = credit[t]
<1>1. PICK d \in Nat : /\ d = Delta(file.sessions[s], b)
                       /\ file'.sessions[s].bytes = file.sessions[s].bytes + d
                       /\ credit'[s] = credit[s] + d
  BY RecordedEffect DEF FilesInv
<1>2. /\ file'.sessions[s].closed <=> file.sessions[s].closed \/ closed
      /\ \A t \in Sids \ {s} : file'.sessions[t] = file.sessions[t] /\ credit'[t] = credit[t]
  BY RecordedEffect DEF FilesInv
<1>3. credit[s] \in Nat /\ b \in Nat /\ credit[s] = file.sessions[s].bytes
        /\ ~file.sessions[s].closed
  BY Numbers DEF FilesInv, StoreType, Open
<1>4. /\ credit'[s] = (IF b > credit[s] THEN b ELSE credit[s])
      /\ credit'[s] = file'.sessions[s].bytes
  BY <1>1, <1>3 DEF Delta
<1>5. ~closed => ~file'.sessions[s].closed
  BY <1>2, <1>3
<1> QED  BY <1>2, <1>3, <1>4, <1>5 DEF OpenAfter

\* A record for the session m: of its own bytes, or m crossed.  No other
\* identity is touched, and m is not pending afterwards if its entry closed.
LEMMA CreditedRecord ==
    ASSUME FilesInv, Moves, conn' = conn, \A h \in Conns : CreditedNow(h),
           NEW m \in Conns, Pending(m), conn[m].phase # "new",
           NEW b \in 0 .. MaxBytes, NEW closed \in BOOLEAN,
           Recorded(MarkerSid(m), b, closed),
           b <= conn[m].bytes \/ conn[m].crossed,
           closed => ~PendingAfter(m),
           NEW g \in Conns, PendingAfter(g) => Pending(g)
    PROVE  CreditedAfter(g)
<1>1. /\ MarkerSid(m) \in Sids /\ MarkerSid(g) \in Sids /\ RowSid(g) \in Sids
      /\ RowSid(g) # MarkerSid(m) /\ (g # m => MarkerSid(g) # MarkerSid(m))
      /\ conn[g].bytes \in Nat
  BY Identities, Values DEF FilesInv
<1>2. Open(MarkerSid(m))
  BY DEF CreditedNow
<1>3. /\ ~closed => OpenAfter(MarkerSid(m))
      /\ credit[MarkerSid(m)] \in Nat /\ b \in Nat
      /\ credit'[MarkerSid(m)] = IF b > credit[MarkerSid(m)] THEN b ELSE credit[MarkerSid(m)]
      /\ \A t \in Sids \ {MarkerSid(m)} :
           file'.sessions[t] = file.sessions[t] /\ credit'[t] = credit[t]
  <2>1. PICK c \in BOOLEAN : c = closed /\ Recorded(MarkerSid(m), b, c)
    OBVIOUS
  <2> QED  BY <1>1, <1>2, <2>1, OpenRecorded
<1>4. \A t \in Sids \ {MarkerSid(m)} : Open(t) => OpenAfter(t)
  BY <1>3 DEF Open, OpenAfter
<1>5. OpenAfter(RowSid(g)) /\ credit'[RowSid(g)] <= conn'[g].bytes
  BY <1>1, <1>3, <1>4 DEF CreditedNow
<1>6. CASE g = m
  <2>1. \/ credit'[MarkerSid(m)] <= conn[m].bytes
        \/ conn[m].crossed /\ conn[m].phase # "new"
    BY <1>1, <1>3, <1>6 DEF CreditedNow
  <2> QED  BY <1>3, <1>5, <1>6, <2>1 DEF CreditedAfter
<1>7. CASE g # m
  BY <1>1, <1>3, <1>4, <1>5, <1>7 DEF CreditedNow, CreditedAfter
<1> QED  BY <1>6, <1>7

LEMMA CreditedConnect ==
    ASSUME FilesInv, Ordered, Reading, Displaced, Moves, \A h \in Conns : CreditedNow(h),
           spent'.faults = 0, NEW k \in Conns, ConnectBank(k), NEW g \in Conns
    PROVE  CreditedAfter(g)
<1>1. /\ conn' = conn /\ marker' = marker /\ poll' = poll /\ reported' = reported
      /\ conn[k].phase = "asking" /\ lock.holder = "free"
      /\ lock'.holder = "connect" /\ lock'.of = k
  BY DEF ConnectBank
<1>2. PendingAfter(g) => Pending(g)
  BY <1>1 DEF PendingAfter, Pending, Reach, Closing
<1>3. CASE Displaces(k)
  <2> DEFINE m == marker[conn[k].pool].of
  <2>0. conn[k].pool \in Pools /\ m \in Conns /\ status.listed \subseteq Conns
    BY <1>3, Values DEF Displaces, FilesInv
  <2>1. PICK h \in RowsAtPool(conn[k].pool) : RecordUsage(MarkerSid(m), status.bytes[h], TRUE)
    BY <1>3 DEF ConnectBank
  <2>2. h \in status.listed /\ h \in Conns /\ conn[h].pool = conn[k].pool
    BY <2>0 DEF RowsAtPool, ListedAt
  <2>3. conn[m].pool = conn[k].pool /\ conn[m].phase \notin {"new", "asking"}
    BY <2>0, MarkerOwner
  <2>4. Pending(m) /\ ~PendingAfter(m)
    BY <1>1, <2>3 DEF Pending, Reach, Closing, PendingAfter
  <2>5. status.bytes[h] <= conn[m].bytes \/ conn[m].crossed
    <3>1. h = m \/ conn[m].crossed
      BY <1>1, <2>0, <2>2, ConnsAreNumbers DEF Displaced
    <3>2. status.bytes[h] <= conn[h].bytes
      BY <2>2 DEF Reading, Rows
    <3> QED  BY <3>1, <3>2
  <2>6. Recorded(MarkerSid(m), status.bytes[h], TRUE) /\ status.bytes[h] \in 0 .. MaxBytes
    BY <1>1, <2>1, <2>2, Values DEF Recorded, FilesInv
  <2> HIDE DEF m
  <2> QED  BY <1>1, <1>2, <2>0, <2>3, <2>4, <2>5, <2>6, CreditedRecord
<1>4. CASE ~Displaces(k)
  <2>1. Spared
    BY <1>4 DEF ConnectBank, NoRecord, Spared
  <2> QED  BY <1>2, <2>1, CreditedStill
<1> QED  BY <1>3, <1>4

LEMMA CreditedDisconnect ==
    ASSUME FilesInv, Ordered, Moves, \A h \in Conns : CreditedNow(h),
           spent'.faults = 0, NEW k \in Conns, DisconnectBank(k), NEW g \in Conns
    PROVE  CreditedAfter(g)
<1>1. /\ conn' = conn /\ marker' = marker /\ poll' = poll /\ reported' = reported
      /\ conn[k].phase = "ending" /\ lock.holder = "free" /\ OwnsMarker(k)
      /\ lock'.holder = "disconnect" /\ lock'.of = k
  BY DEF DisconnectBank
<1>2. marker[conn[k].pool].of = k
  BY <1>1, OwnMarker DEF FilesInv
<1>3. PendingAfter(g) => Pending(g)
  BY <1>1 DEF PendingAfter, Pending, Reach, Closing
<1>4. Pending(k) /\ ~PendingAfter(k)
  BY <1>1, <1>2 DEF Pending, Reach, Closing, PendingAfter
<1>5. /\ Recorded(MarkerSid(k), conn[k].bytes, TRUE) /\ conn[k].bytes \in 0 .. MaxBytes
      /\ conn[k].bytes <= conn[k].bytes
  <2>1. conn[k].bytes \in Nat /\ conn[k].bytes \in 0 .. MaxBytes
    BY Values DEF FilesInv, StateType, ConnType
  <2>2. conn[k].bytes <= conn[k].bytes
    BY <2>1
  <2>3. RecordUsage(MarkerSid(k), conn[k].bytes, TRUE) /\ reported' = reported
    BY <1>2 DEF DisconnectBank
  <2>4. Recorded(MarkerSid(k), conn[k].bytes, TRUE)
    BY <2>3 DEF Recorded
  <2> QED  BY <2>1, <2>2, <2>4
<1> QED  BY <1>1, <1>3, <1>4, <1>5, CreditedRecord

\* The poll: a marker it chose for a row is that of the row's session, or one
\* that crossed; none is of an earlier session.
LEMMA CreditedPoll ==
    ASSUME FilesInv, Ordered, Reading, Moves, Next, \A h \in Conns : CreditedNow(h),
           spent'.faults = 0, NEW k \in Conns, PollRecord(k), NEW g \in Conns
    PROVE  CreditedAfter(g)
<1>1. conn' = conn /\ marker' = marker /\ reported' = reported /\ poll.step = "record" /\ k \in poll.todo
  BY DEF PollRecord
<1>2. /\ lock.holder = "poll"
      /\ \A j \in Conns : ~ConnectBank(j) /\ ~DisconnectBank(j)
  BY <1>1 DEF FilesInv, Owned, Locked, ConnectBank, DisconnectBank
<1>3. PendingAfter(g) => Pending(g)
  BY <1>2, PendingSteps
<1>4. /\ k \in poll.snap.listed /\ poll.snap.bytes[k] <= conn[k].bytes
      /\ poll.snap.bytes[k] \in 0 .. MaxBytes /\ poll.snap.bytes[k] \in Nat
      /\ conn[k].bytes \in Nat /\ poll.snap.at \in Nat /\ poll.cands \subseteq Conns
  BY <1>1, Values, Numbers DEF Reading, Matching, Rows, FilesInv
<1>5. PICK s \in RowIdentity(k) : Recorded(s, poll.snap.bytes[k], FALSE)
  BY <1>1 DEF PollRecord, Recorded
<1>6. ASSUME NEW m \in ChooseMarker(k), s = MarkerSid(m)
      PROVE  CreditedAfter(g)
  <2>1. /\ m \in Conns /\ m \in poll.cands /\ conn[m].pool = conn[k].pool
        /\ conn[m].start < poll.snap.at /\ conn[m].phase \notin {"new", "asking"}
        /\ ~(m < k)
    BY <1>1, <1>4 DEF ChooseMarker, Reading, Matching
  <2>2. Pending(m)
    BY <1>1, <1>2, <2>1 DEF Pending, Reach, Closing
  <2>3. poll.snap.bytes[k] <= conn[m].bytes \/ conn[m].crossed
    <3>1. CASE m = k
      BY <1>4, <3>1
    <3>2. CASE m > k
      <4>1. conn[m].start >= poll.snap.at \/ conn[m].crossed
        BY <1>4, <2>1, <3>2 DEF Reading, Rows
      <4>2. conn[m].start \in Nat
        BY <2>1, Values DEF FilesInv
      <4> QED  BY <1>4, <2>1, <4>1, <4>2
    <3> QED  BY <2>1, <3>1, <3>2, ConnsAreNumbers
  <2>4. Recorded(MarkerSid(m), poll.snap.bytes[k], FALSE)
    BY <1>5, <1>6
  <2> QED  BY <1>1, <1>3, <1>4, <2>1, <2>2, <2>3, <2>4, CreditedRecord
<1>7. CASE s = RowSid(k)
  <2>1. /\ RowSid(k) \in Sids /\ RowSid(g) \in Sids /\ MarkerSid(g) \in Sids
        /\ MarkerSid(g) # RowSid(k) /\ (g # k => RowSid(g) # RowSid(k))
    BY Identities
  <2>2. Open(RowSid(k)) /\ credit[RowSid(k)] <= conn[k].bytes
    BY DEF CreditedNow
  <2>3. /\ OpenAfter(RowSid(k))
        /\ credit[RowSid(k)] \in Nat
        /\ credit'[RowSid(k)] = IF poll.snap.bytes[k] > credit[RowSid(k)]
                                  THEN poll.snap.bytes[k] ELSE credit[RowSid(k)]
        /\ \A t \in Sids \ {RowSid(k)} : file'.sessions[t] = file.sessions[t] /\ credit'[t] = credit[t]
    BY <1>4, <1>5, <1>7, <2>1, <2>2, OpenRecorded
  <2>4. credit'[RowSid(k)] <= conn[k].bytes
    BY <1>4, <2>2, <2>3
  <2>5. \A t \in Sids \ {RowSid(k)} : Open(t) => OpenAfter(t)
    BY <2>3 DEF Open, OpenAfter
  <2>6. OpenAfter(RowSid(g)) /\ credit'[RowSid(g)] <= conn'[g].bytes
    <3>1. CASE g = k
      BY <1>1, <2>3, <2>4, <3>1
    <3>2. CASE g # k
      BY <1>1, <2>1, <2>3, <2>5, <3>2 DEF CreditedNow
    <3> QED  BY <3>1, <3>2
  <2>7. \/ credit'[MarkerSid(g)] <= conn'[g].bytes
        \/ conn'[g].crossed /\ conn'[g].phase # "new"
    BY <1>1, <2>1, <2>3 DEF CreditedNow
  <2>8. PendingAfter(g) => OpenAfter(MarkerSid(g))
    BY <1>3, <2>1, <2>5 DEF CreditedNow
  <2> QED  BY <2>6, <2>7, <2>8 DEF CreditedAfter
<1> QED  BY <1>5, <1>6, <1>7 DEF RowIdentity

LEMMA CreditedKept ==
    ASSUME FilesInv, Ordered, Reading, Displaced, Credited, Next, Moves
    PROVE  Credited'
<1> SUFFICES ASSUME spent'.faults = 0, NEW g \in Conns
             PROVE  CreditedAfter(g)
  BY CreditedMeans
<1>1. \A h \in Conns : CreditedNow(h)
  BY CreditedMeans DEF Moves
<1>2. CASE \E k \in Conns : Records(k)
  BY <1>1, <1>2, CreditedConnect, CreditedDisconnect, CreditedPoll DEF Records
<1>3. CASE \A k \in Conns : ~Records(k)
  <2>1. PendingAfter(g) => Pending(g)
    BY <1>3, PendingSteps DEF Records
  <2>2. Spared
    <3>0. file \in CounterFile /\ minted \in Nat /\ minted + 1 \in Nat
      BY DEF FilesInv, StoreType
    <3>1. CASE Untouched \/ Answered
      BY <3>1 DEF Untouched, Answered, Spared
    <3>2. CASE Pruned
      BY <3>0, <3>2, PruneEffect DEF Pruned, Spared
    <3>3. CASE Rotated
      BY <3>0, <3>3, ResetEffect DEF Rotated, Spared
    <3> QED  BY <1>3, <3>1, <3>2, <3>3, OtherSteps
  <2> QED  BY <1>1, <2>1, <2>2, CreditedStill
<1> QED  BY <1>2, <1>3

AccountInv == Ordered /\ Reading /\ Displaced /\ Credited

LEMMA AccountInit == Init => AccountInv
<1> SUFFICES ASSUME Init PROVE AccountInv
  OBVIOUS
<1>1. /\ \A g \in Conns : /\ conn[g].phase = "new" /\ conn[g].bytes = 0
      /\ \A p \in Pools : marker[p].of = NoConn
      /\ status.listed = {} /\ poll.snap.listed = {} /\ poll.step = "idle"
      /\ \A s \in Sids : file.sessions[s].closed = FALSE /\ file.sessions[s].bytes = 0
      /\ \A s \in Sids : credit[s] = 0
  <2>1. \A g \in Conns : conn[g].phase = "new" /\ conn[g].bytes = 0
    BY DEF Init
  <2>2. \A p \in Pools : marker[p].of = NoConn
    BY DEF Init, NoMarker
  <2>3. status.listed = {} /\ poll.snap.listed = {} /\ poll.step = "idle"
    BY DEF Init, EmptyStatus, IdlePoll
  <2>4. \A s \in Sids : file.sessions[s].closed = FALSE /\ file.sessions[s].bytes = 0
    <3>1. \A s \in Sids : file.sessions[s] = NoSession
      BY DEF Init, AbsentFile, NoSessions
    <3>2. NoSession.closed = FALSE /\ NoSession.bytes = 0
      BY DEF NoSession
    <3> QED  BY <3>1, <3>2
  <2>5. \A s \in Sids : credit[s] = 0
    BY DEF Init
  <2> QED  BY <2>1, <2>2, <2>3, <2>4, <2>5
<1>2. Ordered /\ Displaced
  BY <1>1 DEF Ordered, Displaced
<1>3. Reading
  BY <1>1 DEF Reading, Rows, Matching
<1>4. \A g \in Conns : CreditedNow(g)
  <2> SUFFICES ASSUME NEW g \in Conns PROVE CreditedNow(g)
    OBVIOUS
  <2>1. MarkerSid(g) \in Sids /\ RowSid(g) \in Sids
    BY Identities
  <2>2. Open(MarkerSid(g)) /\ Open(RowSid(g))
    BY <1>1, <2>1 DEF Open
  <2>3. credit[MarkerSid(g)] <= conn[g].bytes /\ credit[RowSid(g)] <= conn[g].bytes
    BY <1>1, <2>1
  <2> QED  BY <2>2, <2>3 DEF CreditedNow
<1> QED  BY <1>2, <1>3, <1>4, CreditedMeans DEF AccountInv

LEMMA AccountStep ==
    ASSUME FilesInv, AccountInv, [Next]_vars
    PROVE  AccountInv'
<1>1. CASE Next
  BY <1>1, StepMoves, OrderedKept, ReadingKept, DisplacedKept, CreditedKept DEF AccountInv
<1>2. CASE UNCHANGED vars
  BY <1>2 DEF vars, AccountInv, Ordered, Reading, Rows, Matching, Displaced, Credited,
              Pending, Reach, Closing
<1> QED  BY <1>1, <1>2

\* The invariant of connections, rows and credits.
THEOREM AccountInvAlways == Spec => [](FilesInv /\ AccountInv)
<1>1. Init => FilesInv /\ AccountInv
  BY FilesInit, AccountInit
<1>2. FilesInv /\ AccountInv /\ [Next]_vars => (FilesInv /\ AccountInv)'
  BY FilesStep, AccountStep
<1> QED  BY <1>1, <1>2, PTL DEF Spec

(***************************************************************************)
(* No identity is credited with more than its own session moved, unless    *)
(* the status file had its address with another session when it arrived or *)
(* was overtaken: with any handshake time, delayed and orphaned disconnect *)
(* hooks, torn status files, sweeps, resets and crashes of OpenVPN, until  *)
(* a write fails (chooseMarker, bankDisplacedGeneration,                   *)
(* RecordSessionUsage).                                                    *)
(***************************************************************************)
THEOREM IdentityIsCountedOnce == Spec => []IdentityCountedOnce
<1>1. AccountInv => IdentityCountedOnce
  BY DEF AccountInv, Credited, IdentityCountedOnce
<1> QED  BY <1>1, AccountInvAlways, PTL

(***************************************************************************)
(* Hooks that run before their address is used again.                      *)
(***************************************************************************)
PromptInv == Attended /\ Settled

\* Credits only grow.
LEMMA CreditGrows ==
    ASSUME FilesInv, Next, NEW s \in Sids
    PROVE  credit[s] \in Nat /\ credit'[s] \in Nat /\ credit'[s] >= credit[s]
<1>0. credit[s] \in Nat
  BY DEF FilesInv, StoreType
<1>1. CASE Untouched \/ Pruned \/ Rotated \/ Answered
  BY <1>0, <1>1 DEF Untouched, Pruned, Rotated, Answered
<1>2. ASSUME NEW t \in Sids, NEW b \in 0 .. MaxBytes, NEW closed \in BOOLEAN,
             Recorded(t, b, closed)
      PROVE  credit'[s] \in Nat /\ credit'[s] >= credit[s]
  <2>1. /\ \E d \in Nat : credit'[t] = credit[t] + d
        /\ s # t => credit'[s] = credit[s]
    BY <1>2, RecordedEffect DEF FilesInv
  <2> QED  BY <1>0, <2>1
<1> QED  BY <1>0, <1>1, <1>2, StepsOfStore DEF FilesInv, StoreStep

\* Under Prompt no write fails and no sweep starts.
LEMMA PromptSteps ==
    ASSUME Prompt, FilesInv, Attended, Next
    PROVE  /\ sweep' = sweep
           /\ \A k \in Conns : ~HookFault(k) /\ ~DisconnectIgnored(k)
           /\ \A p \in Pools : ~SweepRemove(p)
           /\ spent.faults = 0
<1>0. spent.faults = 0 /\ MaxFaults = 0 /\ MaxSweeps = 0 /\ spent.sweeps = 0 /\ sweep.step = "idle"
  BY DEF Prompt, FilesInv, StateType, Budgets, Attended
<1>1. ~PurgeStart /\ ~StaleStart /\ ~SweepStep
  BY <1>0 DEF PurgeStart, StaleStart, StartSweep, SweepStep, SweepList, SweepEnd, PurgeCollect,
              PurgePrune, PurgeRead, SweepRemove
<1>2. \A p \in Pools : ~SweepRemove(p)
  BY <1>0 DEF SweepRemove
<1>3. \A k \in Conns : ~HookFault(k)
  BY <1>0 DEF HookFault, ConnectFails, DisconnectBankFails, DisconnectRemoveFails
<1>4. \A k \in Conns : ~DisconnectIgnored(k)
  BY ConnsAreNumbers DEF DisconnectIgnored, OwnsMarker, DisconnectMatches, Attended
<1>5. sweep' = sweep
  BY <1>1 DEF Next, Tick, Traffic, End, Arrive, WriteStatus, TearStatus, DaemonCrash, HookStep,
              HookFault, ConnectBank, ConnectWrite, DisconnectIgnored, DisconnectBank,
              DisconnectRemove, ConnectFails, DisconnectBankFails, DisconnectRemoveFails,
              PollSnapshot, PollStep, PollAborts, PollLock, PollCollect, PollReport, PollPrune,
              PollRecord, PollSkip, Reset
<1> QED  BY <1>0, <1>2, <1>3, <1>4, <1>5

\* The steps that change a marker.
LEMMA MarkerSteps ==
    ASSUME FilesInv, Next, marker' # marker
    PROVE  \/ \E k \in Conns : ConnectWrite(k) \/ DisconnectRemove(k)
           \/ \E p \in Pools : SweepRemove(p)
BY DEF Next, Tick, Traffic, End, Arrive, WriteStatus, TearStatus, DaemonCrash, HookStep,
       HookFault, ConnectBank, DisconnectIgnored, DisconnectBank, ConnectFails,
       DisconnectBankFails, DisconnectRemoveFails, PollSnapshot, PollStep, PollAborts, PollLock,
       PollCollect, PollReport, PollPrune, PollRecord, PollSkip, Reset, PurgeStart, StaleStart,
       StartSweep, SweepStep, SweepList, SweepEnd, PurgeCollect, PurgePrune, PurgeRead

LEMMA AttendedKept ==
    ASSUME Prompt, FilesInv, Ordered, Attended, Next, Moves
    PROVE  Attended'
<1>0. /\ \A g \in Conns : g \in Nat /\ g # NoConn /\ conn[g].pool \in Pools
      /\ StateType /\ Locked
  BY Values, ConnsAreNumbers DEF FilesInv, Owned
<1>1. sweep'.step = "idle"
  BY PromptSteps DEF Attended
<1>2. ASSUME NEW g \in Conns, NEW h \in Conns, g < h, conn'[h].phase # "new",
             conn'[g].pool = conn'[h].pool
      PROVE  conn'[g].phase # "ending"
  <2>1. CASE Arrives(h)
    <3>1. /\ g # h /\ Goes(g)
          /\ \A i \in Conns : conn[i].phase \in {"asking", "live", "ending"}
                                => conn[i].pool # conn'[h].pool
      BY <1>0, <1>2, <2>1, Arrival DEF Prompt
    <3> QED  BY <1>2, <3>1 DEF Goes
  <2>2. CASE Goes(h)
    <3>1. conn[h].phase # "new" /\ conn'[h].pool = conn[h].pool
      BY <1>2, <2>2 DEF Goes
    <3>2. conn[g].phase # "new"
      BY <1>2, <3>1 DEF Ordered
    <3>3. Goes(g)
      BY <3>2, Arrival DEF Moves
    <3>4. conn[g].pool = conn[h].pool
      BY <1>2, <3>1, <3>3 DEF Goes
    <3>5. conn[g].phase \notin {"asking", "live", "ending"}
      BY <1>2, <3>1, <3>4 DEF Ordered, Attended
    <3> QED  BY <3>3, <3>5 DEF Goes
  <2> QED  BY <2>1, <2>2 DEF Moves
<1>3. ASSUME NEW g \in Conns, conn'[g].phase \in {"live", "ending"}
      PROVE  marker'[conn'[g].pool].of = g
  <2>1. Goes(g)
    BY <1>3, Arrival DEF Moves
  <2>2. conn'[g].pool = conn[g].pool
    BY <2>1 DEF Goes
  <2>3. CASE conn[g].phase = "asking"
    BY <1>3, <2>1, <2>2, <2>3 DEF Goes
  <2>4. CASE conn[g].phase # "asking"
    <3>1. conn[g].phase \in {"live", "ending"} /\ marker[conn[g].pool].of = g
      BY <1>3, <2>1, <2>4 DEF Goes, Attended
    <3>2. CASE marker' = marker
      BY <2>2, <3>1, <3>2
    <3>3. ASSUME NEW k \in Conns, ConnectWrite(k)
          PROVE  marker'[conn[g].pool].of = g
      <4>1. /\ lock.of = k /\ conn[k].phase = "asking"
            /\ \A q \in Pools : q # conn[k].pool => marker'[q] = marker[q]
        BY <1>0, <3>3 DEF ConnectWrite, Locked, StateType
      <4>2. k # g /\ (k < g \/ g < k)
        BY <1>0, <2>4, <4>1
      <4>3. conn[k].pool # conn[g].pool
        BY <3>1, <4>1, <4>2 DEF Ordered, Attended
      <4> QED  BY <1>0, <3>1, <4>1, <4>3
    <3>4. ASSUME NEW k \in Conns, DisconnectRemove(k)
          PROVE  marker'[conn[g].pool].of = g
      <4>1. /\ lock.of = k /\ conn[k].phase = "ending"
            /\ conn' = [conn EXCEPT ![k].phase = "done"]
            /\ \A q \in Pools : q # conn[k].pool => marker'[q] = marker[q]
        BY <1>0, <3>4 DEF DisconnectRemove, Locked, StateType
      <4>2. marker[conn[k].pool].of = k /\ conn'[k].phase = "done"
        BY <1>0, <4>1 DEF Attended, StateType
      <4>3. k # g /\ conn[k].pool # conn[g].pool
        BY <1>3, <3>1, <4>2
      <4> QED  BY <1>0, <3>1, <4>1, <4>3
    <3> QED  BY <2>2, <3>2, <3>3, <3>4, MarkerSteps, PromptSteps
  <2> QED  BY <2>3, <2>4
<1> QED  BY <1>1, <1>2, <1>3 DEF Attended

\* The disconnect hook has the lock: it had it, or commits in this step.
LEMMA DisconnectSteps ==
    ASSUME FilesInv, Next, lock'.holder = "disconnect"
    PROVE  lock' = lock \/ \E k \in Conns : DisconnectBank(k) /\ lock'.of = k
<1>0. lock' # FreeLock
  BY DEF FreeLock
<1>1. CASE \/ Tick
           \/ \E g \in Conns : Traffic(g) \/ End(g)
           \/ \E g \in Conns, p \in Pools, start \in Times : Arrive(g, p, start)
           \/ WriteStatus
           \/ \E part \in SUBSET Live : TearStatus(part)
  BY <1>1 DEF Tick, Traffic, End, Arrive, WriteStatus, TearStatus
<1>2. ASSUME NEW orphans \in SUBSET InPhase({"ending"}), DaemonCrash(orphans)
      PROVE  lock' = lock
  BY <1>0, <1>2, CrashMeans DEF FilesInv
<1>3. ASSUME NEW k \in Conns, HookStep(k) \/ HookFault(k)
      PROVE  lock' = lock \/ (DisconnectBank(k) /\ lock'.of = k)
  <2>1. CASE ConnectBank(k)
    BY <2>1 DEF ConnectBank
  <2>2. CASE DisconnectBank(k)
    BY <2>2 DEF DisconnectBank
  <2>3. CASE DisconnectIgnored(k) \/ DisconnectBankFails(k)
    BY <2>3 DEF DisconnectIgnored, DisconnectBankFails
  <2>4. CASE ConnectWrite(k) \/ DisconnectRemove(k) \/ ConnectFails(k) \/ DisconnectRemoveFails(k)
    BY <1>0, <2>4 DEF ConnectWrite, DisconnectRemove, ConnectFails, DisconnectRemoveFails
  <2> QED  BY <1>3, <2>1, <2>2, <2>3, <2>4 DEF HookStep, HookFault
<1>4. CASE PollSnapshot \/ PollCollect \/ PollReport \/ PollPrune \/ Reset
  BY <1>4 DEF PollSnapshot, PollCollect, PollReport, PollPrune, Reset
<1>5. CASE PollAborts
  BY <1>0, <1>5 DEF PollAborts
<1>6. CASE PollLock
  BY <1>6 DEF PollLock
<1>7. ASSUME NEW k \in Conns, PollRecord(k) \/ PollSkip(k)
      PROVE  lock' = lock
  BY <1>0, <1>7 DEF PollRecord, PollSkip, AfterRow
<1>8. CASE PurgeStart \/ StaleStart \/ SweepStep
  BY <1>8 DEF PurgeStart, StaleStart, StartSweep, SweepStep, SweepList, SweepEnd, PurgeCollect,
              PurgePrune, PurgeRead, SweepRemove
<1> QED  BY <1>1, <1>2, <1>3, <1>4, <1>5, <1>6, <1>7, <1>8 DEF Next, PollStep

\* The connections whose hook is through in this step.
LEMMA DoneSteps ==
    ASSUME Prompt, FilesInv, Ordered, Attended, Next, NEW g \in Conns,
           conn'[g].phase = "done", conn[g].phase # "done"
    PROVE  lock.holder = "disconnect" /\ lock.of = g
<1>0. StateType /\ \A h \in Conns : conn[h] \in ConnType
  BY DEF FilesInv, StateType
<1>1. CASE \/ Tick \/ WriteStatus
           \/ \E part \in SUBSET Live : TearStatus(part)
  BY <1>1 DEF Tick, WriteStatus, TearStatus
<1>2. ASSUME NEW k \in Conns, Traffic(k) \/ End(k)
      PROVE  FALSE
  BY <1>0, <1>2 DEF Traffic, End, ConnType, StateType
<1>3. ASSUME NEW k \in Conns, NEW p \in Pools, NEW start \in Times, Arrive(k, p, start)
      PROVE  FALSE
  BY <1>0, <1>3, ArriveMeans
<1>4. ASSUME NEW orphans \in SUBSET InPhase({"ending"}), DaemonCrash(orphans)
      PROVE  FALSE
  BY <1>0, <1>4, CrashMeans
<1>5. ASSUME NEW k \in Conns, HookStep(k)
      PROVE  lock.holder = "disconnect" /\ lock.of = g
  <2>1. CASE ConnectBank(k) \/ DisconnectBank(k)
    BY <2>1 DEF ConnectBank, DisconnectBank
  <2>2. CASE ConnectWrite(k)
    BY <1>0, <2>2 DEF ConnectWrite, StateType
  <2>3. CASE DisconnectRemove(k)
    BY <1>0, <2>3 DEF DisconnectRemove, StateType
  <2> QED  BY <1>5, <2>1, <2>2, <2>3, PromptSteps DEF HookStep
<1>6. CASE PollSnapshot \/ PollStep \/ PollAborts \/ Reset
  BY <1>6 DEF PollSnapshot, PollStep, PollAborts, Reset, PollLock, PollCollect, PollReport,
              PollPrune, PollRecord, PollSkip
<1>7. CASE PurgeStart \/ StaleStart \/ SweepStep
  BY <1>7 DEF PurgeStart, StaleStart, StartSweep, SweepStep, SweepList, SweepEnd,
              PurgeCollect, PurgePrune, PurgeRead, SweepRemove
<1> QED  BY <1>1, <1>2, <1>3, <1>4, <1>5, <1>6, <1>7, PromptSteps DEF Next

LEMMA SettledKept ==
    ASSUME Prompt, FilesInv, AccountInv, Attended, Settled, Next, Moves
    PROVE  Settled'
<1>0. Ordered /\ Credited /\ spent.faults = 0 /\ \A h \in Conns : CreditedNow(h)
  BY PromptSteps, CreditedMeans DEF AccountInv
<1> SUFFICES ASSUME NEW g \in Conns,
                    conn'[g].phase = "done" \/ (lock'.holder = "disconnect" /\ lock'.of = g)
             PROVE  credit'[MarkerSid(g)] >= conn'[g].bytes
  BY DEF Settled
<1>1. /\ MarkerSid(g) \in Sids /\ conn[g].bytes \in Nat /\ conn'[g].bytes \in Nat
      /\ conn[g].phase # "live" => conn'[g].bytes = conn[g].bytes
  BY <1>0, Identities, Grown
<1>2. credit[MarkerSid(g)] \in Nat /\ credit'[MarkerSid(g)] \in Nat
        /\ credit'[MarkerSid(g)] >= credit[MarkerSid(g)]
  BY <1>1, CreditGrows
<1>3. CASE conn[g].phase = "done" \/ (lock.holder = "disconnect" /\ lock.of = g)
  <2>1. conn[g].phase # "live" /\ credit[MarkerSid(g)] >= conn[g].bytes
    BY <1>3 DEF Settled, FilesInv, Owned, Locked
  <2> QED  BY <1>1, <1>2, <2>1
<1>4. CASE DisconnectBank(g)
  <2>1. /\ conn[g].phase = "ending" /\ conn' = conn /\ reported' = reported
        /\ OwnsMarker(g) /\ lock.holder = "free"
    BY <1>4 DEF DisconnectBank
  <2>2. marker[conn[g].pool].of = g
    BY <2>1 DEF Attended
  <2>3. Open(MarkerSid(g))
    BY <1>0, <2>1, <2>2 DEF CreditedNow, Pending, Reach, Closing
  <2>4. RecordUsage(MarkerSid(g), conn[g].bytes, TRUE)
    BY <1>4, <2>2 DEF DisconnectBank
  <2>5. Recorded(MarkerSid(g), conn[g].bytes, TRUE) /\ conn[g].bytes \in 0 .. MaxBytes
    BY <2>1, <2>4 DEF Recorded, FilesInv, StateType, ConnType
  <2>6. credit'[MarkerSid(g)] = IF conn[g].bytes > credit[MarkerSid(g)]
                                  THEN conn[g].bytes ELSE credit[MarkerSid(g)]
    BY <1>1, <2>3, <2>5, OpenRecorded
  <2> QED  BY <1>1, <1>2, <2>1, <2>6
<1>5. CASE conn'[g].phase = "done" /\ conn[g].phase # "done"
  BY <1>0, <1>3, <1>5, DoneSteps
<1>6. CASE lock'.holder = "disconnect" /\ lock'.of = g
  BY <1>3, <1>4, <1>6, DisconnectSteps
<1> QED  BY <1>3, <1>5, <1>6

LEMMA PromptInit == Init => PromptInv
<1> SUFFICES ASSUME Init PROVE PromptInv
  OBVIOUS
<1>1. /\ \A g \in Conns : conn[g].phase = "new"
      /\ lock.holder = "free" /\ sweep.step = "idle"
  BY DEF Init, FreeLock, IdleSweep
<1> QED  BY <1>1 DEF PromptInv, Attended, Settled

LEMMA PromptStep ==
    ASSUME Prompt, FilesInv, AccountInv, PromptInv, [Next]_vars
    PROVE  PromptInv'
<1>1. CASE Next
  <2>1. Moves /\ Ordered
    BY <1>1, StepMoves DEF AccountInv
  <2> QED  BY <1>1, <2>1, AttendedKept, SettledKept DEF PromptInv
<1>2. CASE UNCHANGED vars
  BY <1>2 DEF vars, PromptInv, Attended, Settled
<1> QED  BY <1>1, <1>2

(***************************************************************************)
(* A session whose disconnect hook is through is counted in full, if pool  *)
(* addresses are not used again before the hook has run, no sweep runs and *)
(* no write fails: for any number of sessions, addresses, polls, resets    *)
(* and crashes and any handshake time (Disconnect in disconnect.go).       *)
(***************************************************************************)
THEOREM FinishedCounted == Prompt => (Spec => []FinishedIsCounted)
<1> SUFFICES ASSUME Prompt PROVE Spec => []FinishedIsCounted
  OBVIOUS
<1>1. Init => FilesInv /\ AccountInv /\ PromptInv
  BY FilesInit, AccountInit, PromptInit
<1>2. FilesInv /\ AccountInv /\ PromptInv /\ [Next]_vars
        => (FilesInv /\ AccountInv /\ PromptInv)'
  BY FilesStep, AccountStep, PromptStep
<1>3. FilesInv /\ AccountInv /\ PromptInv => FinishedIsCounted
  <2> SUFFICES ASSUME FilesInv, AccountInv, PromptInv, NEW g \in Conns, conn[g].phase = "done"
               PROVE  /\ credit[MarkerSid(g)] >= conn[g].bytes
                      /\ credit[MarkerSid(g)] = conn[g].bytes \/ conn[g].crossed
    BY DEF FinishedIsCounted
  <2>1. spent.faults = 0 /\ conn[g].bytes \in Nat /\ credit[MarkerSid(g)] \in Nat
    BY Values, Identities DEF Prompt, FilesInv, StateType, StoreType, Budgets
  <2>2. credit[MarkerSid(g)] >= conn[g].bytes
    BY DEF PromptInv, Settled
  <2>3. credit[MarkerSid(g)] <= conn[g].bytes \/ conn[g].crossed
    BY <2>1 DEF AccountInv, Credited
  <2> QED  BY <2>1, <2>2, <2>3
<1> QED  BY <1>1, <1>2, <1>3, PTL DEF Spec

==============================================================================
