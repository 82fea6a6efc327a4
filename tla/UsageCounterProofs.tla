-------------------------- MODULE UsageCounterProofs --------------------------
(***************************************************************************)
(* Proofs about UsageCounter, for every set of identities, every word size *)
(* and every set of observations.                                          *)
(***************************************************************************)
EXTENDS UsageCounter, TLAPS

(***************************************************************************)
(* Facts about the operations on the file.                                 *)
(***************************************************************************)

\* A recorded observation adds at most what keeps the offset a word.
LEMMA DeltaFits ==
  ASSUME NEW entry \in UsageSession, NEW bytes \in Word
  PROVE  /\ Delta(entry, bytes) \in Nat
         /\ entry.bytes + Delta(entry, bytes) \in Word
         /\ Delta(entry, bytes) \in Word
  BY MaxCountAssumption DEF Delta, UsageSession, Word

\* The overflow test of the store is exact: it passes the sums that fit.
LEMMA NoOverflowIsExact ==
  ASSUME NEW total \in Word, NEW delta \in Word, ~Overflows(total, delta)
  PROVE  AddWord(total, delta) = total + delta /\ total + delta \in Word
  BY MaxCountAssumption DEF Overflows, AddWord, Word

\* What a successful RecordSessionUsage leaves in the file.
LEMMA RecordEffect ==
  ASSUME NEW f \in CounterFile, NEW e \in Nat \ {0}, NEW s \in Sids,
         NEW bytes \in Word, NEW closed \in BOOLEAN,
         RecordSucceeds(f, s, bytes)
  PROVE  LET g == RecordSessionUsage(f, e, s, bytes, closed)
             d == Delta(f.sessions[s], bytes)
         IN  /\ g \in CounterFile
             /\ g.kind = "v2"
             /\ g.epoch = IF f.kind = "absent" \/ f.epoch = NoEpoch
                            THEN e ELSE f.epoch
             /\ g.total = f.total + d
             /\ d \in Nat
             /\ g.sessions[s].bytes = f.sessions[s].bytes + d
             /\ \A t \in Sids \ {s} : g.sessions[t] = f.sessions[t]
  <1> DEFINE d == Delta(f.sessions[s], bytes)
  <1> DEFINE g == RecordSessionUsage(f, e, s, bytes, closed)
  <1>1. f.sessions[s] \in UsageSession /\ f.total \in Word
    BY DEF CounterFile
  <1>2. d \in Nat /\ f.sessions[s].bytes + d \in Word /\ d \in Word
    BY <1>1, DeltaFits
  <1>3. AddWord(f.total, d) = f.total + d /\ f.total + d \in Word
    BY <1>1, <1>2, NoOverflowIsExact DEF RecordSucceeds
  <1> DEFINE entry == [known  |-> TRUE,
                       bytes  |-> f.sessions[s].bytes + d,
                       closed |-> f.sessions[s].closed \/ closed]
  <1>4. g = [kind |-> "v2",
             epoch |-> IF f.kind = "absent" \/ f.epoch = NoEpoch
                         THEN e ELSE f.epoch,
             total |-> f.total + d,
             sessions |-> [f.sessions EXCEPT ![s] = entry]]
    BY <1>3 DEF RecordSessionUsage, WriteUsageState, EpochToWrite,
                ReadUsageState, NoEpoch
  <1>5. entry \in UsageSession
    BY <1>1, <1>2 DEF UsageSession
  <1>6. [f.sessions EXCEPT ![s] = entry] \in [Sids -> UsageSession]
    BY <1>5 DEF CounterFile
  <1>7. g \in CounterFile
    BY <1>4, <1>6, <1>3 DEF CounterFile
  <1> HIDE DEF entry
  <1>8. QED
    BY <1>2, <1>4, <1>5, <1>7 DEF CounterFile, entry


\* What a successful BankUsage leaves in the file.
LEMMA BankEffect ==
  ASSUME NEW f \in CounterFile, NEW e \in Nat \ {0}, NEW delta \in Word,
         BankSucceeds(f, delta)
  PROVE  LET g == BankUsage(f, e, delta)
         IN  /\ g \in CounterFile
             /\ g.kind = "v2"
             /\ g.epoch = IF f.kind = "absent" \/ f.epoch = NoEpoch
                            THEN e ELSE f.epoch
             /\ g.total = f.total + delta
             /\ g.sessions = f.sessions
  <1>1. AddWord(f.total, delta) = f.total + delta /\ f.total + delta \in Word
    BY NoOverflowIsExact DEF BankSucceeds, CounterFile
  <1>2. BankUsage(f, e, delta) =
            [kind |-> "v2",
             epoch |-> IF f.kind = "absent" \/ f.epoch = NoEpoch
                         THEN e ELSE f.epoch,
             total |-> f.total + delta,
             sessions |-> f.sessions]
    BY <1>1 DEF BankUsage, WriteUsageState, EpochToWrite, ReadUsageState,
                NoEpoch
  <1>3. QED
    BY <1>1, <1>2 DEF CounterFile

\* Dropping receipts leaves every entry a well formed one.
LEMMA NoSessionType == NoSession \in UsageSession
  BY MaxCountAssumption DEF NoSession, UsageSession, Word

LEMMA PruneEffect ==
  ASSUME NEW f \in CounterFile, NEW present
  PROVE  LET g == PruneReceipts(f, present)
         IN  /\ g \in CounterFile
             /\ g.kind = f.kind /\ g.epoch = f.epoch /\ g.total = f.total
             /\ \A t \in Sids \ Prunable(f, present) :
                   g.sessions[t] = f.sessions[t]
  BY NoSessionType DEF PruneReceipts, CounterFile

LEMMA ResetEffect ==
  ASSUME NEW f \in CounterFile, NEW e \in Nat
  PROVE  LET g == ResetUsage(f, e)
         IN  /\ g \in CounterFile
             /\ g.kind = "v2" /\ g.epoch = e /\ g.total = 0
             /\ \A t \in Sids \ Prunable(f, {}) :
                   g.sessions[t] = f.sessions[t]
  BY NoSessionType, MaxCountAssumption
     DEF ResetUsage, WriteUsageState, CounterFile, Prunable, Word

LEMMA BadFileType == BadFile \in CounterFile
  BY NoSessionType, MaxCountAssumption
     DEF BadFile, CounterFile, NoSessions, NoEpoch, Word

-------------------------------------------------------------------------------
(***************************************************************************)
(* The inductive invariant.  CountedOnce is preserved by each step from    *)
(* the types alone; the ledger also needs to know where epochs come from:  *)
(* only a version 2 file has one, and it was handed out.                   *)
(***************************************************************************)
EpochInv ==
    /\ MintsEpoch(file) => file.epoch = NoEpoch /\ minted = 0
    /\ file.kind = "v2" => file.epoch \in 1..minted
    /\ file.kind = "bad" => file = BadFile

Inv == TypeOK /\ CountedOnce /\ EpochInv

\* Initially the file is missing or an unsigned integer.
LEMMA InitFile ==
  ASSUME Init
  PROVE  /\ file.kind \in {"absent", "digits"}
         /\ file.epoch = 0
         /\ file.total \in Word
         /\ file.sessions = NoSessions
  <1>1. file = AbsentFile \/ \E n \in ByteCounts : file = DigitsFile(n)
    BY DEF Init
  <1>2. CASE file = AbsentFile
    BY <1>2, MaxCountAssumption DEF AbsentFile, NoEpoch, Word
  <1>3. ASSUME NEW n \in ByteCounts, file = DigitsFile(n)
        PROVE  /\ file.kind \in {"absent", "digits"}
               /\ file.epoch = 0
               /\ file.total \in Word
               /\ file.sessions = NoSessions
    BY <1>3, ByteCountsAssumption DEF DigitsFile, NoEpoch
  <1>4. QED
    BY <1>1, <1>2, <1>3

LEMMA InitInv == Init => Inv
  <1> SUFFICES ASSUME Init PROVE Inv
    OBVIOUS
  <1>1. NoSessions \in [Sids -> UsageSession]
    BY NoSessionType DEF NoSessions
  <1>2. file \in CounterFile
    BY <1>1, ByteCountsAssumption, MaxCountAssumption
       DEF Init, AbsentFile, DigitsFile, CounterFile, NoEpoch, Word
  <1>3. TypeOK
    BY <1>2 DEF Init, TypeOK
  <1>4. CountedOnce
    <2>1. file.sessions = NoSessions
      BY InitFile
    <2>2. ASSUME NEW s \in Sids PROVE file.sessions[s].bytes = 0
      <3>1. file.sessions[s] = NoSession
        BY <2>1 DEF NoSessions
      <3>2. QED
        BY <3>1 DEF NoSession
    <2>3. QED
      BY <2>2 DEF Init, CountedOnce
  <1>5. EpochInv
    BY InitFile DEF Init, EpochInv, MintsEpoch, NoEpoch
  <1>6. QED
    BY <1>3, <1>4, <1>5 DEF Inv

\* Every store call, and damage from outside, keeps the invariant.
LEMMA StepInv == Inv /\ [Next]_vars => Inv'
  <1> SUFFICES ASSUME Inv, [Next]_vars PROVE Inv'
    OBVIOUS
  <1> USE DEF Inv
  <1>0. fresh \in Nat \ {0} /\ fresh = minted + 1
    BY DEF TypeOK, fresh
  <1>1. ASSUME NEW s \in Sids, NEW b \in ByteCounts, NEW c \in BOOLEAN,
               Record(s, b, c)
        PROVE  Inv'
    <2> DEFINE d == Delta(file.sessions[s], b)
    <2>1. b \in Word /\ file \in CounterFile /\ RecordSucceeds(file, s, b)
      BY <1>1, ByteCountsAssumption DEF Record, TypeOK
    <2>2. /\ file' \in CounterFile
          /\ file'.kind = "v2"
          /\ file'.epoch = IF file.kind = "absent" \/ file.epoch = NoEpoch
                             THEN fresh ELSE file.epoch
          /\ file'.total = file.total + d
          /\ d \in Nat
          /\ file'.sessions[s].bytes = file.sessions[s].bytes + d
          /\ \A t \in Sids \ {s} : file'.sessions[t] = file.sessions[t]
      BY <1>0, <1>1, <2>1, RecordEffect DEF Record
    <2> HIDE DEF d
    <2>3. file.total \in Nat
      BY <2>1, MaxCountAssumption DEF CounterFile, Word
    <2>4. lifetime' = [lifetime EXCEPT ![s] = @ + d]
      <3>1. file'.total - file.total = d
        BY <2>2, <2>3
      <3>2. QED
        BY <1>1, <3>1 DEF Record
    <2>5. TypeOK'
      BY <1>0, <1>1, <2>2, <2>4 DEF TypeOK, Record, Mint
    <2>6. CountedOnce'
      BY <1>1, <2>1, <2>2, <2>4
         DEF CountedOnce, Record, RecordSucceeds, TypeOK
    <2>7. EpochInv'
      BY <1>0, <1>1, <2>1, <2>2
         DEF EpochInv, Record, Mint, MintsEpoch, RecordSucceeds, Readable,
             TypeOK, CounterFile, NoEpoch
    <2>8. QED
      BY <2>5, <2>6, <2>7
  <1>2. ASSUME NEW s \in Sids, NEW b \in ByteCounts, RecordFails(s, b)
        PROVE  Inv'
    BY <1>2 DEF RecordFails, vars, TypeOK, CountedOnce, EpochInv
  <1>3. ASSUME NEW present \in SUBSET Sids, Prune(present)
        PROVE  Inv'
    <2>1. /\ file' \in CounterFile
          /\ file'.kind = file.kind /\ file'.epoch = file.epoch
          /\ file'.total = file.total
          /\ \A t \in Sids \ Prunable(file, present) :
                file'.sessions[t] = file.sessions[t]
      BY <1>3, PruneEffect DEF Prune, TypeOK
    <2>2. TypeOK'
      BY <1>3, <2>1 DEF TypeOK, Prune, Prunable
    <2>3. CountedOnce'
      BY <1>3, <2>1 DEF CountedOnce, Prune, Readable
    <2>4. EpochInv'
      BY <1>3, <2>1 DEF EpochInv, Prune, Readable, MintsEpoch
    <2>5. QED
      BY <2>2, <2>3, <2>4
  <1>4. CASE Reset
    <2>1. /\ file' \in CounterFile
          /\ file'.kind = "v2" /\ file'.epoch = fresh /\ file'.total = 0
          /\ \A t \in Sids \ Prunable(file, {}) :
                file'.sessions[t] = file.sessions[t]
      BY <1>0, <1>4, ResetEffect DEF Reset, TypeOK
    <2>2. TypeOK'
      BY <1>0, <1>4, <2>1 DEF TypeOK, Reset, Mint, Prunable
    <2>3. CountedOnce'
      BY <1>4, <2>1 DEF CountedOnce, Reset, Readable
    <2>4. EpochInv'
      BY <1>0, <1>4, <2>1 DEF EpochInv, Reset, Mint, MintsEpoch, TypeOK
    <2>5. QED
      BY <2>2, <2>3, <2>4
  <1>5. ASSUME NEW delta \in ByteCounts, Bank(delta)
        PROVE  Inv'
    <2>1. delta \in Word /\ file \in CounterFile /\ BankSucceeds(file, delta)
      BY <1>5, ByteCountsAssumption DEF Bank, TypeOK
    <2>2. /\ file' \in CounterFile
          /\ file'.kind = "v2"
          /\ file'.epoch = IF file.kind = "absent" \/ file.epoch = NoEpoch
                             THEN fresh ELSE file.epoch
          /\ file'.sessions = file.sessions
      BY <1>0, <1>5, <2>1, BankEffect DEF Bank
    <2>3. TypeOK'
      BY <1>0, <1>5, <2>2 DEF TypeOK, Bank, Mint
    <2>4. CountedOnce'
      BY <1>5, <2>1, <2>2 DEF CountedOnce, Bank, BankSucceeds
    <2>5. EpochInv'
      BY <1>0, <1>5, <2>1, <2>2
         DEF EpochInv, Bank, Mint, MintsEpoch, BankSucceeds, Readable,
             TypeOK, CounterFile, NoEpoch
    <2>6. QED
      BY <2>3, <2>4, <2>5
  <1>6. CASE Damage
    <2>1. TypeOK'
      BY <1>6, BadFileType DEF TypeOK, Damage
    <2>2. CountedOnce' /\ EpochInv'
      BY <1>6 DEF CountedOnce, EpochInv, Damage, BadFile, Readable, MintsEpoch
    <2>3. QED
      BY <2>1, <2>2
  <1>7. CASE UNCHANGED vars
    BY <1>7 DEF vars, TypeOK, CountedOnce, EpochInv
  <1>8. QED
    BY <1>1, <1>2, <1>3, <1>4, <1>5, <1>6, <1>7 DEF Next

LEMMA InvHolds == Spec => []Inv
  BY InitInv, StepInv, PTL DEF Spec

-------------------------------------------------------------------------------
(***************************************************************************)
(* Theorems.                                                               *)
(***************************************************************************)

\* The counter file is always one of the forms the code writes or refuses.
THEOREM TypeCorrect == Spec => []TypeOK
  <1>1. Inv => TypeOK
    BY DEF Inv
  <1>2. QED
    BY <1>1, InvHolds, PTL

(***************************************************************************)
(* However late, often and out of order observations arrive, an identity   *)
(* adds its bytes once, over all epochs (RecordSessionUsage, ResetUsage).  *)
(***************************************************************************)
THEOREM BytesAreCountedOnce == Spec => []CountedOnce
  <1>1. Inv => CountedOnce
    BY DEF Inv
  <1>2. QED
    BY <1>1, InvHolds, PTL

\* The steps of the ledger that a step of the counter amounts to.
LEMMA LedgerStep == Inv /\ Inv' /\ [Next]_vars => [Ledger!Next]_(Ledger!vars)
  <1> SUFFICES ASSUME Inv, Inv', [Next]_vars
               PROVE  [Ledger!Next]_(Ledger!vars)
    OBVIOUS
  <1> USE DEF Inv
  <1>0. /\ fresh \in Nat \ {0} /\ fresh = minted + 1 /\ minted \in Nat
        /\ file.total \in Nat /\ file'.total \in Nat
        /\ file.epoch \in Nat
    BY MaxCountAssumption DEF TypeOK, fresh, CounterFile, Word
  <1>1. ASSUME NEW s \in Sids, NEW b \in ByteCounts, NEW c \in BOOLEAN,
               Record(s, b, c)
        PROVE  [Ledger!Next]_(Ledger!vars)
    <2> DEFINE d == Delta(file.sessions[s], b)
    <2>1. b \in Word /\ file \in CounterFile /\ RecordSucceeds(file, s, b)
      BY <1>1, ByteCountsAssumption DEF Record, TypeOK
    <2>2. /\ file'.kind = "v2"
          /\ file'.epoch = IF file.kind = "absent" \/ file.epoch = NoEpoch
                             THEN fresh ELSE file.epoch
          /\ file'.total = file.total + d
          /\ d \in Nat
      BY <1>0, <1>1, <2>1, RecordEffect DEF Record
    <2> HIDE DEF d
    <2>3. file.kind \in {"absent", "digits", "v2"}
      BY <2>1 DEF RecordSucceeds, Readable, CounterFile
    <2>4. CASE MintsEpoch(file)
      BY <1>0, <1>1, <2>2, <2>4
         DEF Record, Mint, MintsEpoch, EpochInv, NoEpoch,
             Ledger!Next, Ledger!Open
    <2>5. CASE ~MintsEpoch(file)
      <3>1. /\ file.kind = "v2" /\ file.epoch # 0 /\ minted' = minted
            /\ file'.epoch = file.epoch
        BY <1>1, <2>2, <2>3, <2>5
           DEF Record, Mint, MintsEpoch, EpochInv, NoEpoch
      <3>2. CASE d = 0
        BY <1>0, <2>2, <3>1, <3>2 DEF Ledger!vars
      <3>3. CASE d # 0
        BY <1>0, <2>2, <3>1, <3>3 DEF Ledger!Next, Ledger!Add
      <3>4. QED
        BY <3>2, <3>3
    <2>6. QED
      BY <2>4, <2>5
  <1>2. ASSUME NEW s \in Sids, NEW b \in ByteCounts, RecordFails(s, b)
        PROVE  [Ledger!Next]_(Ledger!vars)
    BY <1>2 DEF RecordFails, vars, Ledger!vars
  <1>3. ASSUME NEW present \in SUBSET Sids, Prune(present)
        PROVE  [Ledger!Next]_(Ledger!vars)
    <2>1. /\ file'.kind = file.kind /\ file'.epoch = file.epoch
          /\ file'.total = file.total /\ minted' = minted
      BY <1>3, PruneEffect DEF Prune, TypeOK
    <2>2. QED
      BY <2>1 DEF Ledger!vars
  <1>4. CASE Reset
    <2>1. file'.kind = "v2" /\ file'.epoch = fresh /\ file'.total = 0
      BY <1>0, <1>4, ResetEffect DEF Reset, TypeOK
    <2>2. QED
      BY <1>0, <1>4, <2>1
         DEF Reset, Mint, Readable, Ledger!Next, Ledger!Rotate
  <1>5. ASSUME NEW delta \in ByteCounts, Bank(delta)
        PROVE  [Ledger!Next]_(Ledger!vars)
    <2>1. /\ delta \in Word /\ file \in CounterFile
          /\ BankSucceeds(file, delta) /\ delta \in Nat /\ delta > 0
      BY <1>5, ByteCountsAssumption, MaxCountAssumption
         DEF Bank, TypeOK, BankSucceeds, Word
    <2>2. /\ file'.kind = "v2"
          /\ file'.epoch = IF file.kind = "absent" \/ file.epoch = NoEpoch
                             THEN fresh ELSE file.epoch
          /\ file'.total = file.total + delta
      BY <1>0, <1>5, <2>1, BankEffect DEF Bank
    <2>3. file.kind \in {"absent", "digits", "v2"}
      BY <2>1 DEF BankSucceeds, Readable, CounterFile
    <2>4. CASE MintsEpoch(file)
      BY <1>0, <1>5, <2>1, <2>2, <2>4
         DEF Bank, Mint, MintsEpoch, EpochInv, NoEpoch,
             Ledger!Next, Ledger!Open
    <2>5. CASE ~MintsEpoch(file)
      BY <1>0, <1>5, <2>1, <2>2, <2>3, <2>5
         DEF Bank, Mint, MintsEpoch, EpochInv, NoEpoch,
             Ledger!Next, Ledger!Add
    <2>6. QED
      BY <2>4, <2>5
  <1>6. CASE Damage
    BY <1>6 DEF Damage, BadFile, NoEpoch, Ledger!Next, Ledger!Lose
  <1>7. CASE UNCHANGED vars
    BY <1>7 DEF vars, Ledger!vars
  <1>8. QED
    BY <1>1, <1>2, <1>3, <1>4, <1>5, <1>6, <1>7 DEF Next

(***************************************************************************)
(* The store implements the panel's ledger: totals grow within an epoch, a *)
(* new epoch was never used before, and an unreadable file is not a zero.  *)
(***************************************************************************)
THEOREM StoreImplementsLedger == Spec => ImplementsLedger
  <1>1. Init => Ledger!Init
    BY InitFile, MaxCountAssumption DEF Init, Ledger!Init, Word
  <1>2. QED
    BY <1>1, InvHolds, LedgerStep, PTL DEF Spec, ImplementsLedger, Ledger!Spec

\* Within an epoch the persisted total never shrinks, whoever writes it.
THEOREM TotalsGrowWithinAnEpoch == Spec => EpochTotalNeverShrinks
  <1>1. Inv /\ Inv' /\ [Next]_vars =>
          [/\ file.kind = "v2"
           /\ file'.kind = "v2"
           /\ file'.epoch = file.epoch
           => file'.total >= file.total]_vars
    <2> SUFFICES ASSUME Inv, Inv', [Next]_vars, file.kind = "v2",
                        file'.kind = "v2", file'.epoch = file.epoch
                 PROVE  file'.total >= file.total
      OBVIOUS
    <2>1. [Ledger!Next]_(Ledger!vars)
      BY LedgerStep
    <2>2. /\ file.epoch \in 1..minted /\ minted \in Nat
          /\ file.total \in Nat /\ file'.total \in Nat
      BY MaxCountAssumption DEF Inv, EpochInv, TypeOK, CounterFile, Word
    <2>3. QED
      BY <2>1, <2>2
         DEF Ledger!Next, Ledger!Add, Ledger!Open, Ledger!Rotate,
             Ledger!Lose, Ledger!vars
  <1>2. QED
    BY <1>1, InvHolds, PTL DEF Spec, EpochTotalNeverShrinks

===============================================================================
