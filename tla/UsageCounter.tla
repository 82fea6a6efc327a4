---------------------------- MODULE UsageCounter ----------------------------
(***************************************************************************)
(* The usage counter of one user under every sequence of store calls.      *)
(*                                                                         *)
(* The callers (connect hook, disconnect hook, usage poll, reset handler,  *)
(* purge sweep) are separate processes.  Every call takes the flock of the *)
(* counter, so a call is one action here; which caller comes next, with    *)
(* which observation, is open: observations arrive late, twice and out of  *)
(* order.                                                                  *)
(***************************************************************************)
EXTENDS CounterFile

CONSTANTS
    ByteCounts,  \* byte totals a caller can have observed
    MaxEpochs    \* bound on the epochs handed out

ASSUME ByteCountsAssumption == ByteCounts \subseteq Word
ASSUME MaxEpochsAssumption == MaxEpochs \in Nat

VARIABLES
    file,       \* contents of <usageDir>/<cn>
    minted,     \* epochs handed out by newEpoch, each one fresh
    lifetime,   \* ghost: growth of the total, by the identity recorded
    dropped     \* ghost: identities whose closed receipt was dropped

vars == <<file, minted, lifetime, dropped>>

TypeOK ==
    /\ file \in CounterFile
    /\ minted \in Nat
    /\ lifetime \in [Sids -> Nat]
    /\ dropped \subseteq Sids

Init ==
    /\ file \in {AbsentFile} \cup {DigitsFile(n) : n \in ByteCounts}
    /\ minted = 0
    /\ lifetime = [s \in Sids |-> 0]
    /\ dropped = {}

fresh == minted + 1

Mint(now) == minted' = IF now THEN fresh ELSE minted

Record(s, bytes, closed) ==
    /\ RecordSucceeds(file, s, bytes)
    /\ MintsEpoch(file) => minted < MaxEpochs
    /\ file' = RecordSessionUsage(file, fresh, s, bytes, closed)
    /\ Mint(MintsEpoch(file))
    /\ lifetime' = [lifetime EXCEPT ![s] = @ + (file'.total - file.total)]
    /\ UNCHANGED dropped

\* Unreadable file or a sum that does not fit: an error and nothing written.
RecordFails(s, bytes) ==
    /\ ~RecordSucceeds(file, s, bytes)
    /\ UNCHANGED vars

Prune(present) ==
    /\ Readable(file)
    /\ file' = PruneReceipts(file, present)
    /\ dropped' = dropped \cup Prunable(file, present)
    /\ UNCHANGED <<minted, lifetime>>

Reset ==
    /\ Readable(file)
    /\ minted < MaxEpochs
    /\ file' = ResetUsage(file, fresh)
    /\ Mint(TRUE)
    /\ dropped' = dropped \cup Prunable(file, {})
    /\ UNCHANGED lifetime

Bank(delta) ==
    /\ BankSucceeds(file, delta)
    /\ MintsEpoch(file) => minted < MaxEpochs
    /\ file' = BankUsage(file, fresh, delta)
    /\ Mint(MintsEpoch(file))
    /\ UNCHANGED <<lifetime, dropped>>

\* External: the file is damaged by something other than the store.
Damage ==
    /\ file.kind = "v2"
    /\ file' = BadFile
    /\ UNCHANGED <<minted, lifetime, dropped>>

Next ==
    \/ \E s \in Sids, b \in ByteCounts, c \in BOOLEAN : Record(s, b, c)
    \/ \E s \in Sids, b \in ByteCounts : RecordFails(s, b)
    \/ \E present \in SUBSET Sids : Prune(present)
    \/ Reset
    \/ \E d \in ByteCounts : Bank(d)
    \/ Damage

Spec == Init /\ [][Next]_vars

------------------------------------------------------------------------------
(***************************************************************************)
(* Properties.                                                             *)
(***************************************************************************)

(***************************************************************************)
(* "Counted once across polls, disconnects, replay and reset": until its   *)
(* receipt is dropped, an identity has added to the totals, over every     *)
(* epoch, exactly the offset kept for it; a late, repeated or reordered    *)
(* observation adds nothing, and a reset forgets no live offset            *)
(* (RecordSessionUsage, ResetUsage, PruneReceipts).                        *)
(***************************************************************************)
CountedOnce ==
    Readable(file) =>
        \A s \in Sids \ dropped : lifetime[s] = file.sessions[s].bytes

(***************************************************************************)
(* Within an epoch the total never decreases, whatever mix of records,     *)
(* banks, prunes, resets and migrations runs; a panel that keeps the last  *)
(* sample of an epoch never sees it shrink (ResetUsage rotates the epoch   *)
(* in the same rename that zeroes the total).                              *)
(***************************************************************************)
EpochTotalNeverShrinks ==
    [][/\ file.kind = "v2"
       /\ file'.kind = "v2"
       /\ file'.epoch = file.epoch
       => file'.total >= file.total]_vars

\* The panel's view: the counter implements the ledger.
Ledger ==
    INSTANCE UsageLedger WITH
        available <- file.kind # "bad",
        epoch     <- file.epoch,
        total     <- file.total,
        used      <- minted

(***************************************************************************)
(* Every sample the panel can take follows the ledger: totals grow within  *)
(* an epoch and a new epoch is always one that was never used.             *)
(***************************************************************************)
ImplementsLedger == Ledger!Spec

==============================================================================
