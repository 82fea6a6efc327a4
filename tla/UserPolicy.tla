----------------------------- MODULE UserPolicy -----------------------------
(***************************************************************************)
(* The policy of one user on disk: login limit, disabled flag and display  *)
(* name (internal/store/state.go and store.go).                            *)
(*                                                                         *)
(* Two formats coexist: the merged `state' file, and the split files of    *)
(* older installs (a `limit' value, a `disabled' marker, a `name').        *)
(* Writers hold the user's .state.lock, merge what they read with what     *)
(* they were asked for, rename a new merged file into place and then       *)
(* remove the split files one by one; a writer can die between any two of  *)
(* these.  The connect hook reads the same files and takes no lock.        *)
(***************************************************************************)
EXTENDS Naturals

CONSTANTS
    Writers,      \* programs that change the policy
    Hooks,        \* connect hooks that read it
    Limits,       \* values of the limit
    Names,        \* display names
    Unset,        \* a field that is not there
    Lost,         \* a policy that cannot be parsed
    NoRequest     \* a writer that was asked for nothing

ASSUME LimitsAssumption == Limits \subseteq Nat /\ 1 \in Limits
ASSUME UnsetAssumption ==
    Unset \notin Limits /\ Unset \notin Names /\ Unset \notin BOOLEAN

\* The limit of a user whose files name none.
DefaultLimit == 1

OptLimit == Limits \cup {Unset}
OptName == Names \cup {Unset}

\* nil pointers in a request leave the field alone.
Requests == [limit : OptLimit, disabled : BOOLEAN \cup {Unset}, name : OptName]

\* The merged file; a store-written one always speaks about disabled.
MergedType ==
    [kind : {"absent", "merged", "bad"},
     limit : OptLimit, disabled : BOOLEAN, name : OptName]

LegacyType == [limit : OptLimit, disabled : BOOLEAN, name : OptName]

NoMerged ==
    [kind |-> "absent", limit |-> Unset, disabled |-> FALSE, name |-> Unset]
NoLegacy == [limit |-> Unset, disabled |-> FALSE, name |-> Unset]

\* The policy in force.
Policies == [limit : Limits, disabled : BOOLEAN, name : OptName]

\* What the hook goes by.
Verdicts == [limit : Limits, disabled : BOOLEAN]

ASSUME LostAssumption == Lost \notin Policies \cup Verdicts
ASSUME NoRequestAssumption == NoRequest \notin Requests

VARIABLES
    merged,   \* the file `state'
    legacy,   \* the files `limit', `disabled' and `name'
    writer,   \* each writer: where it is, its request, the body it will write
    reader    \* each hook: where it is, what it read, and as ghosts the verdict
              \* in force when it began and whether a split file it had still to
              \* read was removed meanwhile

vars == <<merged, legacy, writer, reader>>

WriterType ==
    [step : {"idle", "asked", "merging", "rmlimit", "rmdisabled", "rmname"},
     req : Requests \cup {NoRequest}, body : MergedType]

IdleWriter == [step |-> "idle", req |-> NoRequest, body |-> NoMerged]

ReaderType ==
    [step : {"idle", "disabled", "limit", "done"},
     limit : OptLimit, disabled : BOOLEAN, error : BOOLEAN, torn : BOOLEAN,
     began : Verdicts \cup {Lost}]

IdleReader ==
    [step |-> "idle", limit |-> Unset, disabled |-> FALSE, error |-> FALSE,
     torn |-> FALSE, began |-> Lost]

TypeOK ==
    /\ merged \in MergedType
    /\ legacy \in LegacyType
    /\ writer \in [Writers -> WriterType]
    /\ reader \in [Hooks -> ReaderType]

Init ==
    /\ merged = NoMerged
    /\ legacy \in LegacyType
    /\ writer = [w \in Writers |-> IdleWriter]
    /\ reader = [h \in Hooks |-> IdleReader]

------------------------------------------------------------------------------
(***************************************************************************)
(* Reading and merging.                                                    *)
(***************************************************************************)

\* Field by field: what the merged file says, else the split file.
Or(value, fallback) == IF value = Unset THEN fallback ELSE value

\* ReadUserState in one go, with the name WriteUserPolicy adds to it.
Current ==
    [limit    |-> Or(merged.limit, legacy.limit),
     disabled |-> IF merged.kind = "merged" THEN merged.disabled
                                            ELSE legacy.disabled,
     name     |-> Or(merged.name, legacy.name)]

\* What the files stand for: no limit is the default limit.
Policy ==
    IF merged.kind = "bad" THEN Lost
    ELSE [Current EXCEPT !.limit = Or(@, DefaultLimit)]

\* The verdict a hook should come to.
Verdict ==
    IF Policy = Lost THEN Lost
    ELSE [limit |-> Policy.limit, disabled |-> Policy.disabled]

\* A name alone, for a user who has no limit, leaves the limit out.
WritesLimit(p, r) ==
    p.limit # Unset \/ r.limit # Unset \/ r.disabled # Unset \/ r.name = Unset

\* Mutant of Merge: a nil disabled flag is written as it came.
MergeNilFlag(p, r) ==
    [limit |-> Or(r.limit, Or(p.limit, 1)), disabled |-> r.disabled,
     name |-> Or(r.name, p.name)]

Merge(p, r) ==
    [limit    |-> IF WritesLimit(p, r) THEN Or(r.limit, Or(p.limit, 1)) ELSE Unset,
     disabled |-> Or(r.disabled, p.disabled),
     name     |-> Or(r.name, p.name)]

MergedFile(p) ==
    [kind |-> "merged", limit |-> p.limit, disabled |-> p.disabled,
     name |-> p.name]

------------------------------------------------------------------------------
(***************************************************************************)
(* WriteUserPolicy.                                                        *)
(***************************************************************************)

LockSteps == {"merging", "rmlimit", "rmdisabled", "rmname"}

\* Mutant of Locked: the lock is not taken.
LockedNever == FALSE

Locked == \E w \in Writers : writer[w].step \in LockSteps

Ask(w, r) ==
    /\ writer[w].step = "idle"
    /\ writer' = [writer EXCEPT ![w] = [IdleWriter EXCEPT !.step = "asked",
                                                          !.req = r]]
    /\ UNCHANGED <<merged, legacy, reader>>

\* The lock is taken, the files are read and merged with the request.
Read(w) ==
    /\ writer[w].step = "asked"
    /\ ~Locked
    /\ merged.kind # "bad"
    /\ writer' = [writer EXCEPT
                    ![w].step = "merging",
                    ![w].body = MergedFile(Merge(Current, writer[w].req))]
    /\ UNCHANGED <<merged, legacy, reader>>

\* A policy that cannot be parsed is an error and stays as it is.
ReadFails(w) ==
    /\ writer[w].step = "asked"
    /\ ~Locked
    /\ merged.kind = "bad"
    /\ writer' = [writer EXCEPT ![w] = IdleWriter]
    /\ UNCHANGED <<merged, legacy, reader>>

\* The rename: the request takes effect.
Commit(w) ==
    /\ writer[w].step = "merging"
    /\ merged' = writer[w].body
    /\ writer' = [writer EXCEPT ![w] = [IdleWriter EXCEPT !.step = "rmlimit"]]
    /\ UNCHANGED <<legacy, reader>>

\* The ghost of the readers: a split file is removed before they came to it.
Torn(steps, there) ==
    [h \in Hooks |-> IF there /\ reader[h].step \in steps
                       THEN [reader[h] EXCEPT !.torn = TRUE]
                       ELSE reader[h]]

RemoveLimit(w) ==
    /\ writer[w].step = "rmlimit"
    /\ legacy' = [legacy EXCEPT !.limit = Unset]
    /\ writer' = [writer EXCEPT ![w].step = "rmdisabled"]
    /\ reader' = Torn({"disabled", "limit"}, legacy.limit # Unset)
    /\ merged' = merged

RemoveDisabled(w) ==
    /\ writer[w].step = "rmdisabled"
    /\ legacy' = [legacy EXCEPT !.disabled = FALSE]
    /\ writer' = [writer EXCEPT ![w].step = "rmname"]
    /\ reader' = Torn({"disabled"}, legacy.disabled)
    /\ merged' = merged

RemoveName(w) ==
    /\ writer[w].step = "rmname"
    /\ legacy' = [legacy EXCEPT !.name = Unset]
    /\ writer' = [writer EXCEPT ![w] = IdleWriter]
    /\ UNCHANGED <<merged, reader>>

\* The writer fails or dies; the kernel releases its lock.
Die(w) ==
    /\ writer[w].step # "idle"
    /\ writer' = [writer EXCEPT ![w] = IdleWriter]
    /\ UNCHANGED <<merged, legacy, reader>>

\* External: something else leaves a file that does not parse, while no writer
\* is about to replace it.
Damage ==
    /\ merged.kind = "merged"
    /\ ~Locked
    /\ merged' = [NoMerged EXCEPT !.kind = "bad"]
    /\ UNCHANGED <<legacy, writer, reader>>

------------------------------------------------------------------------------
(***************************************************************************)
(* ReadUserState as the connect hook runs it: three files, no lock.        *)
(***************************************************************************)

\* Mutant of NextRead: the split files are read whatever `state' says.
NextReadAlways == IF merged.kind = "bad" THEN "done" ELSE "disabled"

\* The file to open after `state': a split file for a field it lacks.
NextRead ==
    IF merged.kind = "absent" THEN "disabled"
    ELSE IF merged.kind = "merged" /\ merged.limit = Unset THEN "limit"
    ELSE "done"

ReadState(h) ==
    /\ reader[h].step = "idle"
    /\ reader' = [reader EXCEPT ![h] =
         [step     |-> NextRead,
          limit    |-> merged.limit,
          disabled |-> merged.disabled,
          error    |-> merged.kind = "bad",
          torn     |-> FALSE,
          began    |-> Verdict]]
    /\ UNCHANGED <<merged, legacy, writer>>

ReadDisabled(h) ==
    /\ reader[h].step = "disabled"
    /\ reader' = [reader EXCEPT ![h].step = "limit",
                                ![h].disabled = legacy.disabled]
    /\ UNCHANGED <<merged, legacy, writer>>

ReadLimit(h) ==
    /\ reader[h].step = "limit"
    /\ reader' = [reader EXCEPT ![h].step = "done", ![h].limit = legacy.limit]
    /\ UNCHANGED <<merged, legacy, writer>>

\* What the hook makes of what it read: an error is a refusal, a limit that is
\* not set is the default.
Outcome(rd) ==
    IF rd.error THEN Lost
    ELSE [limit |-> Or(rd.limit, DefaultLimit), disabled |-> rd.disabled]

\* The hook goes on with what it read; another one may start.
ReadEnd(h) ==
    /\ reader[h].step = "done"
    /\ reader' = [reader EXCEPT ![h] = IdleReader]
    /\ UNCHANGED <<merged, legacy, writer>>

------------------------------------------------------------------------------
WriteStep(w) ==
    \/ Read(w) \/ ReadFails(w) \/ Commit(w)
    \/ RemoveLimit(w) \/ RemoveDisabled(w) \/ RemoveName(w)

ReadStep(h) == ReadState(h) \/ ReadDisabled(h) \/ ReadLimit(h) \/ ReadEnd(h)

Next ==
    \/ \E w \in Writers : WriteStep(w) \/ Die(w)
    \/ \E w \in Writers, r \in Requests : Ask(w, r)
    \/ Damage
    \/ \E h \in Hooks : ReadStep(h)

Spec == Init /\ [][Next]_vars

------------------------------------------------------------------------------
(***************************************************************************)
(* Properties.                                                             *)
(***************************************************************************)

Pending(w) == writer[w].step \in {"asked", "merging"}

\* The register: the rename is where a request takes effect.
Register ==
    INSTANCE PolicyRegister WITH
        policy <- Policy,
        want   <- [w \in Writers |-> IF Pending(w) THEN writer[w].req
                                                   ELSE NoRequest]

(***************************************************************************)
(* "A caller that only changes the limit never clears the disabled flag":  *)
(* whatever format the files are in, whichever requests run at once and    *)
(* wherever a writer dies, the files always hold the policy of the         *)
(* requests that took effect, one after the other (WriteUserPolicy).       *)
(***************************************************************************)
ImplementsRegister == Register!Spec

(***************************************************************************)
(* The hook opens up to three files and takes no lock.  What it makes of   *)
(* them is the policy in force when it began, split files or not, whatever *)
(* is written meanwhile and wherever writers died before.  The exception   *)
(* is a read that a writer overtook, which removed a split file before the *)
(* hook came to it: then each field is as it was when the read began or    *)
(* the default of a field that no file names, so that nobody is refused as *)
(* disabled who was enabled (ReadUserState).                               *)
(***************************************************************************)
ReadIsCurrent ==
    \A h \in Hooks : reader[h].step = "done" =>
        LET rd == reader[h]
        IN  \/ Outcome(rd) = rd.began
            \/ /\ rd.torn /\ ~rd.error
               /\ rd.disabled => rd.began.disabled
               /\ rd.limit # Unset => rd.limit = rd.began.limit

==============================================================================
