-------------------------- MODULE UserPolicyProofs --------------------------
(***************************************************************************)
(* Proofs about UserPolicy: the files implement the policy register for    *)
(* any number of writers and hooks, and an unlocked read returns the       *)
(* policy in force when it began unless a writer overtook it.              *)
(***************************************************************************)
EXTENDS UserPolicy, TLAPS

(***************************************************************************)
(* The inductive invariant.                                                *)
(***************************************************************************)

\* The lock: two writers are never between its taking and its release.
OneWriter ==
    \A v, w \in Writers :
        writer[v].step \in LockSteps /\ writer[w].step \in LockSteps => v = w

\* A writer about to rename has merged its request with what the files say.
BodyIsMerged ==
    \A w \in Writers : writer[w].step = "merging" =>
        /\ merged.kind # "bad"
        /\ writer[w].body = MergedFile(Merge(Current, writer[w].req))

\* A writer that waits has a request; one that cleans up has renamed.
WriterSteps ==
    \A w \in Writers :
        /\ Pending(w) => writer[w].req \in Requests
        /\ writer[w].step \in LockSteps \ {"merging"} => merged.kind = "merged"

\* A field the merged file leaves out is not in the split files either.
MergedCovers ==
    /\ merged.kind # "merged" => merged.limit = Unset /\ merged.name = Unset
    /\ merged.kind = "merged" =>
         /\ merged.limit = Unset => legacy.limit = Unset
         /\ merged.name = Unset => legacy.name = Unset

Inv == TypeOK /\ OneWriter /\ BodyIsMerged /\ WriterSteps /\ MergedCovers

------------------------------------------------------------------------------
(***************************************************************************)
(* Types of the operators.                                                 *)
(***************************************************************************)

LEMMA CurrentType ==
    ASSUME merged \in MergedType, legacy \in LegacyType
    PROVE  Current \in [limit : OptLimit, disabled : BOOLEAN, name : OptName]
BY DEF Current, Or, MergedType, LegacyType, OptLimit, OptName

LEMMA MergeType ==
    ASSUME NEW p \in [limit : OptLimit, disabled : BOOLEAN, name : OptName],
           NEW r \in Requests
    PROVE  MergedFile(Merge(p, r)) \in MergedType
<1>1. Or(r.limit, Or(p.limit, 1)) \in Limits
  BY LimitsAssumption DEF Or, OptLimit, Requests
<1>2. Or(r.disabled, p.disabled) \in BOOLEAN
  BY DEF Or, Requests
<1>3. Or(r.name, p.name) \in OptName
  BY DEF Or, Requests, OptName
<1> QED
  BY <1>1, <1>2, <1>3 DEF Merge, MergedFile, MergedType, OptLimit

LEMMA VerdictType ==
    ASSUME TypeOK
    PROVE  Verdict \in Verdicts \cup {Lost}
<1>1. Current \in [limit : OptLimit, disabled : BOOLEAN, name : OptName]
  BY CurrentType DEF TypeOK
<1>2. Or(Current.limit, DefaultLimit) \in Limits
  BY <1>1, LimitsAssumption DEF Or, OptLimit, DefaultLimit
<1>3. CASE merged.kind = "bad"
  BY <1>3 DEF Verdict, Policy
<1>4. CASE merged.kind # "bad"
  <2>1. Policy = [limit |-> Or(Current.limit, DefaultLimit),
                  disabled |-> Current.disabled, name |-> Current.name]
    BY <1>4, <1>1 DEF Policy
  <2> QED
    BY <2>1, <1>1, <1>2 DEF Verdict, Verdicts
<1> QED
  BY <1>3, <1>4

------------------------------------------------------------------------------
(***************************************************************************)
(* The invariant holds initially and is preserved.                         *)
(***************************************************************************)

LEMMA InitInv == Init => Inv
<1> SUFFICES ASSUME Init PROVE Inv
  OBVIOUS
<1>1. NoMerged \in MergedType /\ NoLegacy \in LegacyType
  BY DEF NoMerged, NoLegacy, MergedType, LegacyType, OptLimit, OptName
<1>2. IdleWriter \in WriterType
  BY <1>1 DEF IdleWriter, WriterType
<1>3. IdleReader \in ReaderType
  BY DEF IdleReader, ReaderType, OptLimit
<1>4. TypeOK
  BY <1>1, <1>2, <1>3 DEF Init, TypeOK
<1> QED
  BY <1>4 DEF Init, Inv, OneWriter, BodyIsMerged, WriterSteps, MergedCovers,
              IdleWriter, LockSteps, Pending, NoMerged

LEMMA StepType ==
    ASSUME TypeOK, WriterSteps, Next
    PROVE  TypeOK'
<1> USE DEF TypeOK
<1>a. NoMerged \in MergedType /\ IdleWriter \in WriterType
  BY DEF NoMerged, MergedType, OptLimit, OptName, IdleWriter, WriterType
<1>b. Verdict \in Verdicts \cup {Lost}
  BY VerdictType
<1>1. ASSUME NEW w \in Writers, Read(w)  PROVE TypeOK'
  <2>1. MergedFile(Merge(Current, writer[w].req)) \in MergedType
    BY <1>1, CurrentType, MergeType DEF WriterSteps, Pending, Read
  <2> QED
    BY <1>1, <2>1 DEF Read, WriterType
<1>2. ASSUME NEW w \in Writers, ReadFails(w)  PROVE TypeOK'
  BY <1>2, <1>a DEF ReadFails
<1>3. ASSUME NEW steps, NEW there, reader' = Torn(steps, there)
      PROVE  reader' \in [Hooks -> ReaderType]
  BY <1>3 DEF Torn, ReaderType
<1>4. ASSUME NEW w \in Writers, Commit(w)  PROVE TypeOK'
  <2>1. merged' \in MergedType /\ legacy' \in LegacyType
    BY <1>4 DEF Commit, WriterType
  <2>2. writer' \in [Writers -> WriterType]
    BY <1>4, <1>a DEF Commit, WriterType, IdleWriter
  <2> QED
    BY <1>4, <2>1, <2>2 DEF Commit
<1>5. ASSUME NEW w \in Writers, RemoveLimit(w)  PROVE TypeOK'
  <2>1. legacy' \in LegacyType
    BY <1>5 DEF RemoveLimit, LegacyType, OptLimit
  <2>2. writer' \in [Writers -> WriterType]
    BY <1>5 DEF RemoveLimit, WriterType
  <2> QED
    BY <1>3, <1>5, <2>1, <2>2 DEF RemoveLimit
<1>10. ASSUME NEW w \in Writers, RemoveDisabled(w)  PROVE TypeOK'
  <2>1. legacy' \in LegacyType
    BY <1>10 DEF RemoveDisabled, LegacyType
  <2>2. writer' \in [Writers -> WriterType]
    BY <1>10 DEF RemoveDisabled, WriterType
  <2> QED
    BY <1>3, <1>10, <2>1, <2>2 DEF RemoveDisabled
<1>11. ASSUME NEW w \in Writers, RemoveName(w)  PROVE TypeOK'
  <2>1. legacy' \in LegacyType
    BY <1>11 DEF RemoveName, LegacyType, OptName
  <2> QED
    BY <1>11, <1>a, <2>1 DEF RemoveName
<1>6. ASSUME NEW w \in Writers, Die(w)  PROVE TypeOK'
  BY <1>6, <1>a DEF Die
<1>7. ASSUME NEW w \in Writers, NEW r \in Requests, Ask(w, r)  PROVE TypeOK'
  BY <1>7, <1>a DEF Ask, WriterType, IdleWriter
<1>8. ASSUME Damage  PROVE TypeOK'
  <2>1. merged' \in MergedType /\ legacy' \in LegacyType
    BY <1>8, <1>a DEF Damage, MergedType, NoMerged
  <2> QED
    BY <1>8, <2>1 DEF Damage
<1>9. ASSUME NEW h \in Hooks, ReadStep(h)  PROVE TypeOK'
  <2>1. CASE ReadState(h)
    BY <2>1, <1>b DEF ReadState, NextRead, ReaderType, MergedType
  <2>2. CASE ReadDisabled(h)
    BY <2>2 DEF ReadDisabled, ReaderType, LegacyType
  <2>3. CASE ReadLimit(h)
    BY <2>3 DEF ReadLimit, ReaderType, LegacyType
  <2>4. CASE ReadEnd(h)
    BY <2>4 DEF ReadEnd, ReaderType, IdleReader, OptLimit
  <2> QED
    BY <1>9, <2>1, <2>2, <2>3, <2>4 DEF ReadStep
<1> QED
  BY <1>1, <1>2, <1>4, <1>5, <1>6, <1>7, <1>8, <1>9, <1>10, <1>11
     DEF Next, WriteStep



\* Reading twice: the body written is what the files will say.
LEMMA CommitCurrent ==
    ASSUME Inv, NEW w \in Writers, Commit(w)
    PROVE  /\ Current' = Merge(Current, writer[w].req)
           /\ merged'.kind = "merged"
           /\ MergedCovers'
<1> DEFINE c == Current
           r == writer[w].req
<1>1. merged' = MergedFile(Merge(c, r)) /\ legacy' = legacy
  BY DEF Commit, Inv, BodyIsMerged
<1>2. c \in [limit : OptLimit, disabled : BOOLEAN, name : OptName] /\ r \in Requests
  BY CurrentType DEF Inv, TypeOK, WriterSteps, Pending, Commit
<1>3. merged' = [kind |-> "merged", limit |-> Merge(c, r).limit,
                 disabled |-> Merge(c, r).disabled, name |-> Merge(c, r).name]
  BY <1>1 DEF MergedFile
<1>4. Merge(c, r).limit = Unset => legacy.limit = Unset
  <2>1. Merge(c, r).limit = Unset => c.limit = Unset
    BY <1>2, LimitsAssumption, UnsetAssumption DEF Merge, WritesLimit, Or, OptLimit, Requests
  <2> QED
    BY <2>1, UnsetAssumption DEF Current, Or, Inv, MergedCovers, TypeOK, MergedType, LegacyType, OptLimit
<1>5. Merge(c, r).name = Unset => legacy.name = Unset
  <2>1. Merge(c, r).name = Unset => c.name = Unset
    BY <1>2, UnsetAssumption DEF Merge, Or, OptName, Requests
  <2> QED
    BY <2>1, UnsetAssumption DEF Current, Or, Inv, MergedCovers, TypeOK, MergedType, LegacyType, OptName
<1>6. MergedCovers'
  BY <1>1, <1>3, <1>4, <1>5 DEF MergedCovers
<1>7. Current' = [limit |-> Merge(c, r).limit, disabled |-> Merge(c, r).disabled,
                  name |-> Merge(c, r).name]
  BY <1>1, <1>3, <1>4, <1>5 DEF Current, Or
<1> QED
  BY <1>3, <1>6, <1>7 DEF Merge

\* The split files can go once the merged file is there.
LEMMA RemoveKeepsCurrent ==
    ASSUME Inv, NEW w \in Writers,
           RemoveLimit(w) \/ RemoveDisabled(w) \/ RemoveName(w)
    PROVE  Current' = Current /\ MergedCovers' /\ merged' = merged
<1>1. merged.kind = "merged" /\ merged' = merged
  BY DEF Inv, WriterSteps, LockSteps, RemoveLimit, RemoveDisabled, RemoveName
<1>2. /\ legacy'.limit \in {legacy.limit, Unset}
      /\ legacy'.name \in {legacy.name, Unset}
  BY DEF Inv, TypeOK, LegacyType, RemoveLimit, RemoveDisabled, RemoveName
<1>3. MergedCovers'
  BY <1>1, <1>2 DEF Inv, MergedCovers
<1>4. /\ Or(merged.limit, legacy'.limit) = Or(merged.limit, legacy.limit)
      /\ Or(merged.name, legacy'.name) = Or(merged.name, legacy.name)
  BY <1>1, <1>2 DEF Inv, MergedCovers, Or
<1> QED
  BY <1>1, <1>3, <1>4 DEF Current

LEMMA StepInv == Inv /\ [Next]_vars => Inv'
<1> SUFFICES ASSUME Inv, [Next]_vars PROVE Inv'
  OBVIOUS
<1>u. CASE UNCHANGED vars
  BY <1>u DEF vars, Inv, TypeOK, OneWriter, BodyIsMerged, WriterSteps,
              MergedCovers, Current, Pending
<1>t. CASE Next
  <2>t. TypeOK'
    BY <1>t, StepType DEF Inv
  <2>n. \A v \in Writers : writer[v] \in WriterType
    BY DEF Inv, TypeOK
  <2>1. ASSUME NEW w \in Writers, Read(w)  PROVE Inv'
    <3>1. Current' = Current /\ merged' = merged /\ legacy' = legacy
      BY <2>1 DEF Read, Current
    <3>2. /\ writer'[w].step = "merging" /\ writer'[w].req = writer[w].req
          /\ writer'[w].body = MergedFile(Merge(Current, writer[w].req))
          /\ \A v \in Writers \ {w} : writer'[v] = writer[v]
          /\ \A v \in Writers : writer[v].step \notin LockSteps
      BY <2>1, <2>n DEF Read, Locked, WriterType, Inv, TypeOK
    <3>3. OneWriter'
      BY <3>2 DEF OneWriter
    <3>4. BodyIsMerged'
      BY <2>1, <3>1, <3>2 DEF BodyIsMerged, LockSteps, Read
    <3>5. WriterSteps' /\ MergedCovers'
      BY <2>1, <3>1, <3>2 DEF Inv, WriterSteps, MergedCovers, Pending, LockSteps, Read
    <3> QED
      BY <2>t, <3>3, <3>4, <3>5 DEF Inv
  <2>2. ASSUME NEW w \in Writers, ReadFails(w) \/ Die(w)  PROVE Inv'
    <3>1. Current' = Current /\ merged' = merged /\ legacy' = legacy
      BY <2>2 DEF ReadFails, Die, Current
    <3>2. /\ writer'[w].step = "idle"
          /\ \A v \in Writers \ {w} : writer'[v] = writer[v]
      BY <2>2, <2>n DEF ReadFails, Die, IdleWriter, Inv, TypeOK
    <3> QED
      BY <2>t, <3>1, <3>2 DEF Inv, OneWriter, BodyIsMerged, WriterSteps, MergedCovers,
                              Pending, LockSteps
  <2>3. ASSUME NEW w \in Writers, Commit(w)  PROVE Inv'
    <3>1. MergedCovers' /\ merged'.kind = "merged"
      BY <2>3, CommitCurrent
    <3>2. /\ writer[w].step = "merging" /\ writer'[w].step = "rmlimit"
          /\ \A v \in Writers \ {w} : writer'[v] = writer[v]
      BY <2>3, <2>n DEF Commit, IdleWriter, Inv, TypeOK
    <3>3. \A v \in Writers \ {w} : writer'[v].step \notin LockSteps
      BY <3>2 DEF Inv, OneWriter, LockSteps
    <3> QED
      BY <2>t, <3>1, <3>2, <3>3 DEF Inv, OneWriter, BodyIsMerged, WriterSteps,
                                    Pending, LockSteps
  <2>4. ASSUME NEW w \in Writers,
               RemoveLimit(w) \/ RemoveDisabled(w) \/ RemoveName(w)
        PROVE  Inv'
    <3>1. MergedCovers' /\ merged' = merged
      BY <2>4, RemoveKeepsCurrent
    <3>2. /\ writer[w].step \in LockSteps
          /\ writer'[w].step \in {"rmdisabled", "rmname", "idle"}
          /\ \A v \in Writers \ {w} : writer'[v] = writer[v]
          /\ merged.kind = "merged"
      BY <2>4, <2>n DEF RemoveLimit, RemoveDisabled, RemoveName, IdleWriter, LockSteps,
                        Inv, TypeOK, WriterType, WriterSteps
    <3>3. \A v \in Writers \ {w} : writer'[v].step \notin LockSteps
      BY <3>2 DEF Inv, OneWriter
    <3> QED
      BY <2>t, <3>1, <3>2, <3>3 DEF Inv, OneWriter, BodyIsMerged, WriterSteps,
                                    Pending, LockSteps
  <2>5. ASSUME NEW w \in Writers, NEW r \in Requests, Ask(w, r)  PROVE Inv'
    <3>1. Current' = Current /\ merged' = merged /\ legacy' = legacy
      BY <2>5 DEF Ask, Current
    <3>2. /\ writer'[w].step = "asked" /\ writer'[w].req = r
          /\ \A v \in Writers \ {w} : writer'[v] = writer[v]
      BY <2>5, <2>n DEF Ask, IdleWriter, Inv, TypeOK
    <3> QED
      BY <2>t, <3>1, <3>2 DEF Inv, OneWriter, BodyIsMerged, WriterSteps, MergedCovers,
                              Pending, LockSteps
  <2>6. ASSUME Damage  PROVE Inv'
    <3>1. /\ writer' = writer
          /\ \A v \in Writers : writer[v].step \notin LockSteps
          /\ merged'.kind = "bad" /\ merged'.limit = Unset /\ merged'.name = Unset
      BY <2>6 DEF Damage, Locked, NoMerged
    <3> QED
      BY <2>t, <3>1 DEF Inv, OneWriter, BodyIsMerged, WriterSteps, MergedCovers,
                        Pending, LockSteps
  <2>7. ASSUME NEW h \in Hooks, ReadStep(h)  PROVE Inv'
    <3>1. UNCHANGED <<merged, legacy, writer>>
      BY <2>7 DEF ReadStep, ReadState, ReadDisabled, ReadLimit, ReadEnd
    <3> QED
      BY <2>t, <3>1 DEF Inv, OneWriter, BodyIsMerged, WriterSteps, MergedCovers,
                        Current, Pending
  <2> QED
    BY <1>t, <2>1, <2>2, <2>3, <2>4, <2>5, <2>6, <2>7 DEF Next, WriteStep
<1> QED
  BY <1>u, <1>t

LEMMA Invariance == Spec => []Inv
BY InitInv, StepInv, PTL DEF Spec

------------------------------------------------------------------------------
(***************************************************************************)
(* Theorems.                                                               *)
(***************************************************************************)

(***************************************************************************)
(* The files and programs keep their types: in particular no writer ever   *)
(* leaves a nil field of its request in the merged file (WriteUserPolicy). *)
(***************************************************************************)
THEOREM TypeCorrect == Spec => []TypeOK
BY Invariance, PTL DEF Inv

\* Lemma: a policy in force is never the lost one.
LEMMA CurrentIsNotLost ==
    ASSUME Inv, merged.kind # "bad"
    PROVE  /\ Policy = [limit |-> Or(Current.limit, DefaultLimit),
                        disabled |-> Current.disabled, name |-> Current.name]
           /\ Policy \in Policies
           /\ Policy # Lost
<1>1. Current \in [limit : OptLimit, disabled : BOOLEAN, name : OptName]
  BY CurrentType DEF Inv, TypeOK
<1>2. Policy = [limit |-> Or(Current.limit, DefaultLimit),
                disabled |-> Current.disabled, name |-> Current.name]
  BY <1>1 DEF Policy
<1>3. Or(Current.limit, DefaultLimit) \in Limits
  BY <1>1, LimitsAssumption DEF Or, OptLimit, DefaultLimit
<1> QED
  BY <1>1, <1>2, <1>3, LostAssumption DEF Policies

\* Lemma: the rename does to the policy what the register's Apply does.
LEMMA CommitUpdates ==
    ASSUME Inv, NEW w \in Writers, Commit(w)
    PROVE  Policy' = Register!Updated(Policy, writer[w].req)
<1> DEFINE c == Current
           r == writer[w].req
<1>1. Current' = Merge(c, r) /\ merged'.kind = "merged"
  BY CommitCurrent
<1>2. merged.kind # "bad"
  BY DEF Inv, BodyIsMerged, Commit
<1>3. Policy = [limit |-> Or(c.limit, DefaultLimit),
                disabled |-> c.disabled, name |-> c.name]
  BY <1>2, CurrentIsNotLost
<1>4. c \in [limit : OptLimit, disabled : BOOLEAN, name : OptName] /\ r \in Requests
  BY CurrentType DEF Inv, TypeOK, WriterSteps, Pending, Commit
<1>5. Policy' = [limit |-> Or(Merge(c, r).limit, DefaultLimit),
                 disabled |-> Merge(c, r).disabled, name |-> Merge(c, r).name]
  BY <1>1 DEF Policy, Merge
<1>6. Or(Merge(c, r).limit, DefaultLimit) = Or(r.limit, Or(c.limit, DefaultLimit))
  BY <1>4, LimitsAssumption, UnsetAssumption
     DEF Merge, WritesLimit, Or, DefaultLimit, OptLimit, Requests
<1>7. /\ Merge(c, r).disabled = Or(r.disabled, c.disabled)
      /\ Merge(c, r).name = Or(r.name, c.name)
  BY DEF Merge
<1> QED
  BY <1>3, <1>5, <1>6, <1>7 DEF Register!Updated, Register!Keep, Or

(***************************************************************************)
(* The store implements the policy register, in either file format, for    *)
(* any writers running at once and dying anywhere: a request takes effect  *)
(* once, at the rename, and leaves the fields it does not name as they are *)
(* (WriteUserPolicy).                                                      *)
(***************************************************************************)
THEOREM StoreImplementsRegister == Spec => ImplementsRegister
<1>1. Init => Register!Init
  <2> SUFFICES ASSUME Init PROVE Register!Init
    OBVIOUS
  <2>1. Inv /\ merged.kind # "bad"
    BY InitInv DEF Init, NoMerged
  <2>2. Policy \in Policies
    BY <2>1, CurrentIsNotLost
  <2>3. \A w \in Writers : ~Pending(w)
    BY DEF Init, Pending, IdleWriter
  <2> QED
    BY <2>2, <2>3 DEF Register!Init
<1>2. Inv /\ [Next]_vars => [Register!Next]_(Register!vars)
  <2> SUFFICES ASSUME Inv, [Next]_vars PROVE [Register!Next]_(Register!vars)
    OBVIOUS
  <2> DEFINE want == [w \in Writers |-> IF Pending(w) THEN writer[w].req ELSE NoRequest]
  <2>n. writer \in [Writers -> WriterType]
    BY DEF Inv, TypeOK
  <2>p. merged' = merged /\ legacy' = legacy => Policy' = Policy
    BY DEF Policy, Current
  <2>1. ASSUME NEW w \in Writers, Read(w)
        PROVE  UNCHANGED Register!vars
    <3>1. want' = want
      BY <2>1, <2>n DEF Read, Pending, WriterType
    <3> QED
      BY <2>1, <2>p, <3>1 DEF Read, Register!vars
  <2>2. ASSUME NEW w \in Writers, ReadFails(w) \/ Die(w)
        PROVE  Register!Drop(w)
    <3>1. want' = [want EXCEPT ![w] = NoRequest]
      <4>1. /\ writer'[w].step = "idle"
            /\ \A v \in Writers \ {w} : writer'[v] = writer[v]
        BY <2>2, <2>n DEF ReadFails, Die, IdleWriter
      <4> QED
        BY <4>1 DEF Pending
    <3> QED
      BY <2>2, <2>p, <3>1 DEF ReadFails, Die, Register!Drop
  <2>3. ASSUME NEW w \in Writers, Commit(w)
        PROVE  Register!Apply(w)
    <3>1. Pending(w) /\ writer[w].req \in Requests
      BY <2>3 DEF Commit, Pending, Inv, WriterSteps
    <3>2. want[w] = writer[w].req /\ want[w] # NoRequest
      BY <3>1, NoRequestAssumption
    <3>3. want' = [want EXCEPT ![w] = NoRequest]
      <4>1. /\ writer'[w].step = "rmlimit"
            /\ \A v \in Writers \ {w} : writer'[v] = writer[v]
        BY <2>3, <2>n DEF Commit, IdleWriter
      <4> QED
        BY <4>1 DEF Pending
    <3>4. Policy' = Register!Updated(Policy, want[w])
      BY <2>3, <3>2, CommitUpdates
    <3>5. Policy # Lost
      BY <2>3, CurrentIsNotLost DEF Inv, BodyIsMerged, Commit
    <3> QED
      BY <3>2, <3>3, <3>4, <3>5 DEF Register!Apply
  <2>4. ASSUME NEW w \in Writers,
               RemoveLimit(w) \/ RemoveDisabled(w) \/ RemoveName(w)
        PROVE  UNCHANGED Register!vars
    <3>1. want' = want
      BY <2>4, <2>n DEF RemoveLimit, RemoveDisabled, RemoveName, Pending, IdleWriter,
                        WriterType
    <3>2. Policy' = Policy
      BY <2>4, RemoveKeepsCurrent DEF Policy
    <3> QED
      BY <3>1, <3>2 DEF Register!vars
  <2>5. ASSUME NEW w \in Writers, NEW r \in Requests, Ask(w, r)
        PROVE  Register!Ask(w, r)
    <3>1. want[w] = NoRequest /\ want' = [want EXCEPT ![w] = r]
      BY <2>5, <2>n DEF Ask, Pending, IdleWriter
    <3> QED
      BY <2>5, <2>p, <3>1 DEF Ask, Register!Ask
  <2>6. ASSUME Damage  PROVE Register!Lose
    <3>1. Policy' = Lost
      BY <2>6 DEF Damage, Policy, NoMerged
    <3>2. want' = want
      BY <2>6 DEF Damage, Pending
    <3> QED
      BY <3>1, <3>2 DEF Register!Lose
  <2>7. ASSUME NEW h \in Hooks, ReadStep(h)  PROVE UNCHANGED Register!vars
    <3>1. UNCHANGED <<merged, legacy, writer>>
      BY <2>7 DEF ReadStep, ReadState, ReadDisabled, ReadLimit, ReadEnd
    <3> QED
      BY <2>p, <3>1 DEF Register!vars, Pending
  <2>8. CASE UNCHANGED vars
    BY <2>8, <2>p DEF vars, Register!vars, Pending
  <2> QED
    BY <2>1, <2>2, <2>3, <2>4, <2>5, <2>6, <2>7, <2>8
       DEF Next, WriteStep, Register!Next
<1> QED
  BY <1>1, <1>2, Invariance, PTL DEF Spec, ImplementsRegister, Register!Spec

(***************************************************************************)
(* The unlocked read.                                                      *)
(***************************************************************************)

\* What the split files still hold agrees with the policy a reader began with.
FilesAgree(rd) ==
    /\ rd.limit = Unset /\ ~rd.error
    /\ legacy.limit # Unset => legacy.limit = rd.began.limit
    /\ ~rd.torn => Or(legacy.limit, DefaultLimit) = rd.began.limit

\* How far a reader has come, and what it has yet to find.
ReaderAgrees(rd) ==
    /\ rd.step \in {"disabled", "limit"} => rd.began \in Verdicts /\ FilesAgree(rd)
    /\ rd.step = "disabled" =>
         /\ legacy.disabled => rd.began.disabled
         /\ ~rd.torn => legacy.disabled = rd.began.disabled
    /\ rd.step = "limit" =>
         /\ rd.disabled => rd.began.disabled
         /\ ~rd.torn => rd.disabled = rd.began.disabled
    /\ rd.step = "done" =>
         \/ Outcome(rd) = rd.began
         \/ /\ rd.torn /\ ~rd.error
            /\ rd.disabled => rd.began.disabled
            /\ rd.limit # Unset => rd.limit = rd.began.limit

ReadInv == \A h \in Hooks : ReaderAgrees(reader[h])

LEMMA ReadStateAgrees ==
    ASSUME Inv, ReadInv, NEW h \in Hooks, ReadState(h)
    PROVE  ReaderAgrees(reader[h])'
<1>r. reader \in [Hooks -> ReaderType]
  BY DEF Inv, TypeOK
<1>1. /\ reader'[h].step = NextRead
      /\ reader'[h].limit = merged.limit
      /\ reader'[h].disabled = merged.disabled
      /\ reader'[h].error = (merged.kind = "bad")
      /\ reader'[h].torn = FALSE
      /\ reader'[h].began = Verdict
      /\ legacy' = legacy
  BY <1>r DEF ReadState
<1>2. merged.kind \in {"absent", "merged", "bad"}
  BY DEF Inv, TypeOK, MergedType
<1>3. CASE merged.kind = "bad"
  <2>1. reader'[h].step = "done" /\ reader'[h].error /\ Verdict = Lost
    BY <1>1, <1>3 DEF NextRead, Verdict, Policy
  <2> QED
    BY <1>1, <2>1 DEF ReaderAgrees, Outcome
<1>4. CASE merged.kind # "bad"
  <2>1. /\ Verdict = [limit |-> Or(Current.limit, DefaultLimit),
                      disabled |-> Current.disabled]
        /\ Policy # Lost
    BY <1>4, CurrentIsNotLost DEF Verdict
  <2>2. Verdict \in Verdicts
    BY <1>4, <2>1, CurrentIsNotLost DEF Policies, Verdicts
  <2>3. CASE NextRead = "done"
    <3>1. merged.kind = "merged" /\ merged.limit # Unset
      BY <1>2, <1>4, <2>3 DEF NextRead
    <3>2. Current.limit = merged.limit /\ Current.disabled = merged.disabled
      BY <3>1 DEF Current, Or
    <3> QED
      BY <1>1, <1>4, <2>1, <2>3, <3>1, <3>2 DEF ReaderAgrees, Outcome, Or
  <2>4. CASE NextRead # "done"
    <3>1. merged.limit = Unset /\ Current.limit = legacy.limit
      BY <1>2, <2>4 DEF NextRead, Inv, MergedCovers, Current, Or
    <3>2. Verdict.limit = Or(legacy.limit, DefaultLimit)
      BY <2>1, <3>1
    <3>3. FilesAgree(reader[h])'
      BY <1>1, <1>4, <3>1, <3>2 DEF FilesAgree, Or
    <3>4. CASE merged.kind = "absent"
      <4>1. NextRead = "disabled" /\ Verdict.disabled = legacy.disabled
        BY <2>1, <3>4 DEF NextRead, Current
      <4> QED
        BY <1>1, <2>2, <3>3, <4>1 DEF ReaderAgrees
    <3>5. CASE merged.kind = "merged"
      <4>1. NextRead = "limit" /\ Verdict.disabled = merged.disabled
        BY <2>1, <2>4, <3>5 DEF NextRead, Current
      <4> QED
        BY <1>1, <2>2, <3>3, <4>1 DEF ReaderAgrees
    <3> QED
      BY <1>2, <1>4, <3>4, <3>5
  <2> QED
    BY <2>3, <2>4
<1> QED
  BY <1>3, <1>4

\* A removed split file is one the reader is told of, or past.
LEMMA RemovalAgrees ==
    ASSUME Inv, ReadInv, NEW w \in Writers, NEW h \in Hooks,
           RemoveLimit(w) \/ RemoveDisabled(w)
    PROVE  ReaderAgrees(reader[h])'
<1>r. reader \in [Hooks -> ReaderType] /\ legacy \in LegacyType /\ ReaderAgrees(reader[h])
  BY DEF Inv, TypeOK, ReadInv
<1>1. /\ reader'[h].step = reader[h].step
      /\ reader'[h].limit = reader[h].limit
      /\ reader'[h].disabled = reader[h].disabled
      /\ reader'[h].error = reader[h].error
      /\ reader'[h].began = reader[h].began
      /\ reader[h].torn => reader'[h].torn
  BY <1>r DEF RemoveLimit, RemoveDisabled, Torn, ReaderType
<1>2. CASE RemoveLimit(w)
  <2>1. legacy'.limit = Unset /\ legacy'.disabled = legacy.disabled
    BY <1>2, <1>r DEF RemoveLimit, LegacyType
  <2>2. reader[h].step \in {"disabled", "limit"} /\ ~reader'[h].torn =>
           legacy.limit = Unset
    BY <1>2, <1>r DEF RemoveLimit, Torn, ReaderType
  <2> QED
    BY <1>1, <1>r, <2>1, <2>2 DEF ReaderAgrees, FilesAgree, Outcome, Or
<1>3. CASE RemoveDisabled(w)
  <2>1. legacy'.limit = legacy.limit /\ legacy'.disabled = FALSE
    BY <1>3, <1>r DEF RemoveDisabled, LegacyType
  <2>2. reader[h].step = "disabled" /\ ~reader'[h].torn => legacy.disabled = FALSE
    BY <1>3, <1>r DEF RemoveDisabled, Torn, ReaderType, LegacyType
  <2> QED
    BY <1>1, <1>r, <2>1, <2>2 DEF ReaderAgrees, FilesAgree, Outcome, Or
<1> QED
  BY <1>2, <1>3

(***************************************************************************)
(* The hook's read, which takes no lock and opens up to three files one    *)
(* after the other, returns the policy in force when it began, in either   *)
(* file format, for any writers running at once and dying anywhere; a read *)
(* that was overtaken by the removal of a split file takes no other value  *)
(* than that or the default of the field (ReadUserState).                  *)
(***************************************************************************)
THEOREM UnlockedReadIsCurrent == Spec => []ReadIsCurrent
<1>1. Init => ReadInv
  BY DEF Init, ReadInv, ReaderAgrees, IdleReader
<1>2. Inv /\ ReadInv /\ [Next]_vars => ReadInv'
  <2> SUFFICES ASSUME Inv, ReadInv, [Next]_vars PROVE ReadInv'
    OBVIOUS
  <2>r. reader \in [Hooks -> ReaderType] /\ legacy \in LegacyType
    BY DEF Inv, TypeOK
  <2>1. CASE UNCHANGED <<legacy, reader>>
    BY <2>1 DEF ReadInv, ReaderAgrees, FilesAgree, Outcome, Or
  <2>2. ASSUME NEW w \in Writers, RemoveLimit(w) \/ RemoveDisabled(w)  PROVE ReadInv'
    BY <2>2, RemovalAgrees DEF ReadInv
  <2>3. ASSUME NEW w \in Writers, RemoveName(w)  PROVE ReadInv'
    <3>1. reader' = reader /\ legacy'.limit = legacy.limit /\ legacy'.disabled = legacy.disabled
      BY <2>3, <2>r DEF RemoveName, LegacyType
    <3> QED
      BY <3>1 DEF ReadInv, ReaderAgrees, FilesAgree, Outcome, Or
  <2>4. ASSUME NEW h \in Hooks, ReadStep(h)  PROVE ReadInv'
    <3>1. /\ legacy' = legacy
          /\ \A g \in Hooks \ {h} : reader'[g] = reader[g]
      BY <2>4, <2>r DEF ReadStep, ReadState, ReadDisabled, ReadLimit, ReadEnd
    <3>2. \A g \in Hooks \ {h} : ReaderAgrees(reader[g])'
      BY <3>1 DEF ReadInv, ReaderAgrees, FilesAgree, Outcome, Or
    <3>3. ReaderAgrees(reader[h])
      BY DEF ReadInv
    <3> SUFFICES ReaderAgrees(reader[h])'
      BY <3>2 DEF ReadInv
    <3>4. CASE ReadState(h)
      BY <3>4, ReadStateAgrees
    <3>5. CASE ReadDisabled(h)
      <4>1. /\ reader[h].step = "disabled" /\ reader'[h].step = "limit"
            /\ reader'[h].disabled = legacy.disabled
            /\ reader'[h].limit = reader[h].limit /\ reader'[h].error = reader[h].error
            /\ reader'[h].torn = reader[h].torn /\ reader'[h].began = reader[h].began
        BY <3>5, <2>r DEF ReadDisabled, ReaderType
      <4> QED
        BY <3>1, <3>3, <4>1 DEF ReaderAgrees, FilesAgree
    <3>6. CASE ReadLimit(h)
      <4>1. /\ reader[h].step = "limit" /\ reader'[h].step = "done"
            /\ reader'[h].disabled = reader[h].disabled
            /\ reader'[h].limit = legacy.limit /\ reader'[h].error = reader[h].error
            /\ reader'[h].torn = reader[h].torn /\ reader'[h].began = reader[h].began
        BY <3>6, <2>r DEF ReadLimit, ReaderType
      <4>2. reader[h].began \in Verdicts /\ FilesAgree(reader[h])
        BY <3>3, <4>1 DEF ReaderAgrees
      <4>3. CASE reader[h].torn
        BY <3>1, <3>3, <4>1, <4>2, <4>3 DEF ReaderAgrees, FilesAgree
      <4>4. CASE ~reader[h].torn
        <5>1. /\ Or(legacy.limit, DefaultLimit) = reader[h].began.limit
              /\ reader[h].disabled = reader[h].began.disabled
          BY <3>3, <4>1, <4>2, <4>4 DEF ReaderAgrees, FilesAgree
        <5>2. Outcome(reader'[h]) = reader'[h].began
          BY <4>1, <4>2, <5>1 DEF Outcome, Verdicts, FilesAgree
        <5> QED
          BY <4>1, <5>2 DEF ReaderAgrees
      <4> QED
        BY <4>3, <4>4
    <3>7. CASE ReadEnd(h)
      BY <3>7, <2>r DEF ReadEnd, ReaderAgrees, IdleReader
    <3> QED
      BY <2>4, <3>4, <3>5, <3>6, <3>7 DEF ReadStep
  <2>5. ASSUME NEW w \in Writers, WriteStep(w) \/ Die(w)  PROVE ReadInv'
    BY <2>5, <2>1, <2>2, <2>3 DEF WriteStep, Read, ReadFails, Commit, Die
  <2>6. ASSUME NEW w \in Writers, NEW q \in Requests, Ask(w, q)  PROVE ReadInv'
    BY <2>6, <2>1 DEF Ask
  <2>7. CASE Damage
    BY <2>7, <2>1 DEF Damage
  <2> QED
    BY <2>1, <2>4, <2>5, <2>6, <2>7 DEF Next, vars
<1>3. ReadInv => ReadIsCurrent
  BY DEF ReadInv, ReaderAgrees, ReadIsCurrent
<1> QED
  BY <1>1, <1>2, <1>3, Invariance, PTL DEF Spec

==============================================================================
