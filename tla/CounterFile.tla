----------------------------- MODULE CounterFile -----------------------------
(***************************************************************************)
(* The per-user usage counter file of internal/store/counter.go as a value,*)
(* and the store's operations on it as functions of that value.            *)
(*                                                                         *)
(* Each operation of the store runs under the file's own flock and commits *)
(* with one rename, so an operation is one function from the old contents  *)
(* to the new ones; an operation that returns an error leaves the file as  *)
(* it was.  Both UsageCounter (the store alone, for any caller) and        *)
(* SessionAccounting (the store as the hooks and the poll use it) are      *)
(* built from these functions.                                             *)
(***************************************************************************)
EXTENDS Naturals

CONSTANTS
    Sids,       \* accounting session identities of one user
    MaxCount    \* largest value of the counter's unsigned word (2^64 - 1)

ASSUME MaxCountAssumption == MaxCount \in Nat \ {0}

Word == 0..MaxCount

\* The sum of two words as the machine computes it.
AddWord(m, n) ==
    IF m + n > MaxCount THEN m + n - (MaxCount + 1) ELSE m + n

\* No epoch: a counter file that is still an unsigned integer carries none.
NoEpoch == 0

\* An entry of the sessions map: known says that the identity is in the map.
UsageSession == [known : BOOLEAN, bytes : Word, closed : BOOLEAN]

NoSession == [known |-> FALSE, bytes |-> 0, closed |-> FALSE]

NoSessions == [s \in Sids |-> NoSession]

(***************************************************************************)
(* What a counter file can hold: nothing, a legacy unsigned integer, a     *)
(* version 2 document, or contents the strict decoder refuses (empty,      *)
(* truncated, another version, missing fields).                            *)
(***************************************************************************)
CounterFile ==
    [kind : {"absent", "digits", "v2", "bad"},
     epoch : Nat, total : Word, sessions : [Sids -> UsageSession]]

AbsentFile ==
    [kind |-> "absent", epoch |-> NoEpoch, total |-> 0, sessions |-> NoSessions]

DigitsFile(n) ==
    [kind |-> "digits", epoch |-> NoEpoch, total |-> n, sessions |-> NoSessions]

BadFile ==
    [kind |-> "bad", epoch |-> NoEpoch, total |-> 0, sessions |-> NoSessions]

\* Mutant of Readable: a refused file is taken for an empty counter.
ReadableAlways(f) == TRUE

Readable(f) == f.kind # "bad"

\* The value newEpoch would return is used: there is no epoch in the file.
MintsEpoch(f) == f.kind \in {"absent", "digits"}

(***************************************************************************)
(* ReadUsageState, defined for readable files: an absent file is a fresh   *)
(* counter at zero, a digits file (version 0) starts at its total with no  *)
(* epoch.                                                                  *)
(***************************************************************************)
ReadUsageState(f, fresh) ==
    [epoch    |-> IF f.kind = "absent" THEN fresh ELSE f.epoch,
     total    |-> f.total,
     sessions |-> f.sessions]

\* The epoch a writer leaves behind: a legacy counter gets its first one.
EpochToWrite(st, fresh) == IF st.epoch = NoEpoch THEN fresh ELSE st.epoch

WriteUsageState(epoch, total, sessions) ==
    [kind |-> "v2", epoch |-> epoch, total |-> total, sessions |-> sessions]

(***************************************************************************)
(* RecordSessionUsage.  A closed entry takes no more bytes, an observation *)
(* that is not larger than the offset adds nothing, and the sum is refused *)
(* when the unsigned word wraps.                                           *)
(***************************************************************************)
\* Mutant of Delta: an observation is taken for an increment.
DeltaWhole(entry, bytes) ==
    IF ~entry.closed THEN bytes ELSE 0

Delta(entry, bytes) ==
    IF ~entry.closed /\ bytes > entry.bytes THEN bytes - entry.bytes ELSE 0

Overflows(total, delta) == AddWord(total, delta) < total

RecordSucceeds(f, s, bytes) ==
    Readable(f) /\ ~Overflows(f.total, Delta(f.sessions[s], bytes))

RecordSessionUsage(f, fresh, s, bytes, closed) ==
    LET st    == ReadUsageState(f, fresh)
        entry == st.sessions[s]
        delta == Delta(entry, bytes)
    IN  WriteUsageState(
          EpochToWrite(st, fresh),
          AddWord(st.total, delta),
          [st.sessions EXCEPT ![s] = [known  |-> TRUE,
                                      bytes  |-> entry.bytes + delta,
                                      closed |-> entry.closed \/ closed]])

(***************************************************************************)
(* PruneReceipts drops the closed entries that present does not name, and  *)
(* writes nothing when there is none.                                      *)
(***************************************************************************)
Prunable(f, present) ==
    {s \in Sids : f.sessions[s].closed /\ s \notin present}

PruneReceipts(f, present) ==
    [f EXCEPT !.sessions =
       [s \in Sids |-> IF s \in Prunable(f, present) THEN NoSession
                                                     ELSE f.sessions[s]]]

\* Mutants of ResetUsage: the offsets of open sessions are forgotten too; the
\* total is zeroed without rotating the epoch.
ResetForgetsOffsets(f, fresh) ==
    [kind |-> "v2", epoch |-> fresh, total |-> 0, sessions |-> NoSessions]

ResetKeepsEpoch(f, fresh) ==
    [kind |-> "v2", epoch |-> IF f.epoch = NoEpoch THEN fresh ELSE f.epoch,
     total |-> 0,
     sessions |-> [s \in Sids |-> IF f.sessions[s].closed THEN NoSession
                                                          ELSE f.sessions[s]]]

\* ResetUsage: closed entries go, the offsets of open ones stay.
ResetUsage(f, fresh) ==
    WriteUsageState(fresh, 0,
        [s \in Sids |-> IF f.sessions[s].closed THEN NoSession
                                                 ELSE f.sessions[s]])

\* BankUsage: a bare delta, no session offset.
BankSucceeds(f, delta) ==
    delta > 0 /\ Readable(f) /\ ~Overflows(f.total, delta)

BankUsage(f, fresh, delta) ==
    LET st == ReadUsageState(f, fresh)
    IN  WriteUsageState(EpochToWrite(st, fresh), AddWord(st.total, delta),
                        st.sessions)

==============================================================================
