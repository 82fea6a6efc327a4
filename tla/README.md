# OVNode: specifications, model checking and proofs

OVNode is the node agent of a VPN panel. It runs next to OpenVPN on a server:
an HTTP API for the panel, hooks that OpenVPN starts when a client connects or
disconnects, a small PKI, and the files they share. Nothing is in a database.
The state is a few directories of small files that separate processes read and
replace, some of them under `flock`, some not; and OpenVPN tells what it is
doing through a status file that is rewritten every few seconds. That is what
makes the code hard to test, and what these modules are about.

Paths below are relative to `src/internal/` unless they say otherwise.

## 1. Inventory

| Part | State it keeps | Operations | Talks to |
|---|---|---|---|
| usage counter store, `store/counter.go` | one file per user: epoch, total, an offset per session identity, closed receipts; flock `.lock.<cn>` | record, prune, reset, bank, strict read, migration of a bare integer | called by both hooks, the poll, purge, the reset handler |
| session accounting, `hooks/connect.go`, `hooks/disconnect.go`, `ovpn/usage.go`, `store/sessions.go`, `ovpn/sessions.go`, `ovpn/status.go` | one marker file per user and pool address; session lock `.lock.<cn>` | bank the displaced generation, write marker, close receipt, remove marker, poll | reads the status file; nests the counter's lock inside the session lock |
| marker sweeps, `hooks/purge.go`, `ovpn/disconnect.go` | none of their own | `purge` by age, `only_stale` by status | remove marker files, take no session lock |
| admission, `hooks/connect.go`, `ovpn/mgmt.go`, `ovpn/users.go` | the hook's reading of policy and status | limit check, takeover (kill, verify), disable and disconnect | policy files, status file, management socket |
| user policy store, `store/state.go`, `store/store.go` | merged `state` file, split `limit`/`disabled`/`name` files of older installs, `.state.lock` | locked read-merge-rename-remove, unlocked read by the hook | API handlers, connect hook |
| user lifecycle and profiles, `ovpn/users.go`, `ovpn/lifecycle.go`, `ovpn/profile.go` | users' folders, `.lifecycle.<cn>` | create, push, delete, profile download | policy store, PKI, disconnect |
| PKI, `pki/` | serial, index, CRL number, CRL, certificates and keys, one flock | issue, revoke, renew, regenerate the CRL | lifecycle; OpenVPN reads the CRL |
| configuration changes, `ovpn/control.go`, `ovpn/serverconf.go`, `policy/`, `nat/` | `server.conf`, client template, three files of desired state, NAT configuration, redirects | snapshot, apply, restore on failure, restart or reload | supervisor, cached profiles |
| API authentication, `httpapi/auth.go`, `ratelimit/`, `pairing/` | sliding windows in memory, a lease file | allow, record failure, enforce the lease | every handler |
| remote update and installer, `updater/`, `installer/`, `src/install.sh`, `src/ovnode.sh` | release trees, update journal, maintenance marker, state bundle, operation lock | update, fail over, recover | replaces the running agent |
| supervision, `ovpn/` and `cmd/` | pid file, child process | respawn with back-off, restart, reload | OpenVPN |
| HTTP server, logs, caches, file helpers | request state, a ring of 500 records, time-to-live caches | display only, or primitives the others use | |

`PROJECT.json` lists the same parts with their sources and their status, and
under `hazards` each place where something can go wrong that a test would
hardly reach.

### What is hard, and what makes each part correct

* **Counter store.** The same bytes of one session are observed by polls, by a
  connect hook that displaces the session's marker and by the disconnect hook:
  late, twice and out of order, with resets in between. Correct means: an
  identity adds to the totals exactly what its offset says; no sample of an
  epoch is smaller than an earlier one; a total never wraps.
* **Session accounting.** A pool address outlives the session that has it. A
  status snapshot is taken before the lock is waited for and applied to markers
  read after. OpenVPN can die and run no disconnect hook. Correct means: a row
  is credited to its own session only, a finished session is counted in full,
  a hook touches its own session's files only.
* **Admission.** The policy is read before the lock, the status file lags, and
  a takeover holds the lock while it waits for a session to end. Correct
  means: the limit is kept, a disabled user is not connected, every hook
  returns.
* **Policy store.** Writers merge fields, can die between any two file
  operations, and the hook reads three files without the lock. Correct means:
  the files behave as one register, and a read returns a value that was in
  force.

* **PKI.** Issuing, revoking and renewing replace several files one after the
  other. Correct means: wherever that stops, no serial is used twice, no
  certificate that was handed out leaves the tree without being on the CRL, and
  the CRL never loses an entry.
* **User lifecycle.** Requests wait for a lock and run against whoever has the
  name then. Correct means: a request acts on the user it meant; a deletion
  that succeeded has revoked, one that failed leaves the user disabled.
* **Configuration changes.** Six files, the kernel's rules, cached profiles and
  a running process have to agree. Correct means: all or nothing, and OpenVPN
  comes to run what is on the disk.
* **API authentication.** Windows in memory with a bounded size, checks and
  records in separate critical sections, a lease in a file. Correct means: a
  bounded number of guesses, bounded tables, one owner.
* **Update.** Trees are renamed, and power may fail between any two commands.
  Correct means: a release that was verified stays on the disk and the journal
  tells the truth.

## 2. Modules

| Module | What it is | Models |
|---|---|---|
| `CounterFile` | the counter's operations as functions of the file | `store/counter.go` |
| `UsageLedger` | abstract: what the panel that samples the counter relies on | |
| `UsageCounter` | every order of store calls on one counter; implements `UsageLedger` | callers of the store |
| `SessionAccounting` | hooks, poll, sweeps, resets and OpenVPN around one user's markers; uses `CounterFile`, implements `UsageLedger` | `hooks/`, `ovpn/usage.go`, `ovpn/disconnect.go` |
| `Admission` | limit, takeover and disabling of one user | `hooks/connect.go`, `ovpn/mgmt.go`, `ovpn/users.go`, `ovpn/disconnect.go` |
| `PolicyRegister` | abstract: one register changed by one request at a time | |
| `UserPolicy` | merged and split files, writers and hooks; implements `PolicyRegister` | `store/state.go`, `store/store.go` |
| `Pki` | the CA's files and the operations that replace them | `pki/`, `ovpn/pki.go`, `httpapi/users.go` (push) |
| `UserLifecycle` | requests of concurrent handlers; extends `Pki`, whose steps it interleaves with its own | `ovpn/users.go`, `ovpn/lifecycle.go`, `ovpn/profile.go`, `store/users.go`, `httpapi/users.go` |
| `ConfigChange` | one change at a time, profiles built meanwhile, the supervised OpenVPN | `ovpn/control.go`, `ovpn/serverconf.go`, `policy/policy.go`, `nat/nat.go`, `ovpn/daemon.go` |
| `ApiAuth` | the calls of `authorize` by concurrent requests | `httpapi/auth.go`, `ratelimit/`, `pairing/` |
| `UpdateTransaction` | update, failover and recovery of an installed release | `src/install.sh`, `src/ovnode.sh`, `installer/` |
| `UsageCounterProofs`, `SessionAccountingProofs`, `AdmissionProofs`, `UserPolicyProofs`, `ApiAuthProofs`, `UserLifecycleProofs`, `ConfigChangeProofs`, `UpdateTransactionProofs` | theorems about the modules they are named after; those about `Pki` are in `UserLifecycleProofs` | |
| `MC...` | instances for TLC | |

### How they correspond to the code

**One user.** Markers, counters, policies and locks are per common name, and
the poll treats users one after the other, so the accounting, admission and
policy modules have one user. `Pki`, `UserLifecycle` and `ConfigChange` have a
set of them.

**What is one step.** `CounterFile` operations run under the counter's flock
and end in one rename, so a call is one step. In `SessionAccounting` a hook's
critical section is two steps, split at the counter's commit: `ConnectBank`
(lock, status read, `bankDisplacedGeneration`) and `ConnectWrite` (marker,
admission); `DisconnectBank` and `DisconnectRemove`. Reads between the lock and
the commit are merged with it: nobody else writes markers under the lock except
the sweeps, and a sweep that removes the marker before the hook's read or
between read and commit leaves the same files as one that removes it right
after the commit. The poll has one step
for the snapshot, one for the lock and the markers, one per row, one for the
listing of counters with the second read of markers, one for the sample and one
for the prune. The sweeps, which take no lock, have one step per file
operation. `UserPolicy` has a step per file operation on both sides.

In `Pki` every rename and every index append is a step of the operation that
holds `.issue.lock`; each can fail, and the process can die before it.
`UserLifecycle` adds the handlers: opening the user's folder, waiting for
`.lifecycle.<cn>`, comparing the generation, and each write after that; a
handler that needs the CA starts a `Pki` operation and waits for its end. In
`ConfigChange` each of the six writes, the NAT apply, the read-back, the
removal of profiles, the signals and the rollback are steps of the request that
holds `changeConfigMu`. In `ApiAuth` each call of the limiter, a critical
section under its mutex, is a step, and so is the lease check under the lease's
lock. In `UpdateTransaction` each rename, removal of a tree, journal write, service
command and check is a step of the one installer the operation lock admits; an
interruption during a removal leaves part of the tree (`Cut`), and a loss of power
may take the journal's bytes (`Torn`). A hook of `Admission` that cannot read the
state, take the lock or write its marker refuses (`HookFault`).

**What is abstracted.** A certificate is its serial, its key and the CA that
signed it. A configuration is what the requests can change: port, protocol,
address, resolvers, IPv6 on or off, extra ports. A release is its number, and
the format of the node's state is the number of the release that wrote it.

**Identities.** A session's accounting identity is `<<"marker", g>>`, the random
id in its marker, or `<<"row", g>>`, the id `derivedSessionID` hashes from a
status row when the user has no marker at all. Hash and random ids are
injective in the model. Epochs are numbered in the order they are minted;
`newEpoch` draws a fresh random one.

**Words.** Totals and offsets are unsigned words `0..MaxCount` and the
additions wrap as the code's do; the overflow test of the store is modelled as
it is written and proved exact (`NoOverflowIsExact`).

**The environment (external).** OpenVPN's sessions, pool addresses and status
file (with its lag, its half-written state without `END`, and its truncation
at start); the management socket (usable or not, answering or silent); the
clock in seconds; systemd, which starts at boot whatever binary is in place. OpenVPN serves one management client at a time, so a silent
socket needs no fault of the daemon.

**Ghosts.** `lifetime`, `dropped` and `credit` record what was added for which
identity; `settled` records that the status file was rewritten since the last
admission; `conn[g].crossed` marks the sessions of which the status file misleads
the code (below); `reader[h].began` is the policy in force when a read began, and
`reader[h].torn` says that a split file it had still to read was removed
meanwhile; `op.stuck` names the files a refused push could not put back; `signed`
counts certificates
per serial; `deletions`, `closing`, `stored` and a request's `seen` and `began`
record what deletions have to answer for; `hist` in `ConfigChange` and
`ApiAuth` records what was asked last, the exceptions named below, the wrong
keys compared and the panel served last; in `UpdateTransaction` it has the
releases that passed verification and whether a command began on one that had not
(`astray`) or beside an earlier update's previous tree (`leftover`). Only properties and bounds look at them.

## 3. Runs

All are run as `tlc -config <cfg> <module>` in this directory.

### Passing

| Run | Configuration | Bounds | Shows |
|---|---|---|---|
| `usage_counter` | `UsageCounter.cfg` | 2 identities, words 0..5, 3 epochs | `TypeOK`, `CountedOnce`, `EpochTotalNeverShrinks`, `ImplementsLedger` under any order of calls, overflow and damage included |
| `accounting_ordered` | `AccountingOrdered.cfg` | 2 sessions on one address, 2 bytes, slow handshakes, 1 reset, 1 poll, fairness | `FinishedIsCounted`, `EndIsBanked` |
| `accounting_crash` | `AccountingCrash.cfg` | 2 sessions on one address, delayed and orphaned hooks, slow handshakes, 2 polls, 1 crash, 1 failed write, 1 reset | `TypeOK`, `IdentityCountedOnce`, `ReportsGrow` |
| `accounting_adverse` | `AccountingAdverse.cfg` | 2 sessions, delayed hooks, torn status, slow handshake, 1 sweep, 1 fault | `DisconnectTouchesOnlyItsOwn` |
| `admission` | `Admission.cfg` | 3 connections, limits 0, 1, 2, 1 policy change, fairness | `TypeOK`, `AdmissionKeepsLimit`, `EveryHookReturns` |
| `user_policy` | `UserPolicy.cfg` | 2 writers, 1 hook, every mix of merged and split files | `TypeOK`, `ReadIsCurrent`, `ImplementsRegister` |
| `pki` | `Pki.cfg` | 1 client, 3 serials, 3 CRL numbers, 2 failures or crashes, 1 lost file | `TypeOK`, `SerialsAreUnique`, `LeavesTreeRevoked`, `RefusedPushIsUndone`, `CrlNeverGoesBack`, `InitKeepsIdentity` |
| `user_lifecycle` | `UserLifecycle.cfg` | 1 user, 2 handlers, 3 requests, 5 serials, 1 failure or crash | `StaleRequestIsRefused`, `DeletedMeansRevoked`, `TombstoneStaysDisabled` |
| `config_change` | `ConfigChange.cfg` | 4 kinds of request, 2 changes, 1 profile built, 1 failure, 1 stop of the agent, fairness | `TypeOK`, `FailedChangeIsUndone`, `ListedPortsLeadToServer`, `PushedDnsSurvives`, `CachedProfileIsCurrent`, `ConfComesToBeServed` |
| `api_auth` | `ApiAuth.cfg` | 2 requests at a time, 4 in all, 4 addresses, tables of 2, 2 panels, 3 instants, 1 restart, damage or release | `TypeOK`, `GuessesAreBounded`, `TablesStayBounded`, `OneOwner` |
| `update_transaction` | `UpdateTransaction.cfg` | 3 releases, 3 updates, 2 recoveries, 2 interruptions, 2 failed renames | `TypeOK`, `VerifiedReleaseSurvives`, `CommittedIsInPlace`, `FinishedHasNoMarker`, `FailedOverIsThePrevious` |

**Why the bounds are enough to be interesting.** The hazards of accounting need
an address to change hands, so two sessions; one pool address is the adverse
case, since sessions at different addresses share only the lock. One reset, one
crash and one fault each hit every step of the others. Two polls give two
samples to compare, and a second snapshot after a prune. Two bytes let a poll
see a session half way. For admission, limit 2 with three connections gives a
full house and a refusal; limit 1 gives takeovers. Two writers are all a lock has to keep apart.
For the CA three serials are a server, a client and its successor after a
deletion; two troubles let the repair of the first one fail as well. Three
requests of two handlers are a request that waits while the user is deleted and
made again. Two changes of the configuration are one to fail and one to find
what it left. The windows of `api_auth` are no longer than its three instants, so
that counts expire, and its tables have room for two addresses of four, the
number it takes for the table of failures to pass its bound when recording sweeps
nothing. Two updates are what makes a previous tree stale, and a third one is
begun over what the interruption of the second left; two interruptions let the
recovery be interrupted as well. The symmetry used is on model values that
no definition tells apart (writers in `UserPolicy`, handlers in `UserLifecycle`, requests, addresses and panels in `ApiAuth`), in
safety runs only.

**What the passing runs assume of the environment.** Two of the assumptions are
constants of a module, one is the premise of `IdentityCountedOnce`; with the
change in the second column TLC shows why the assumption is there:

| Assumption | Change | What then happens |
|---|---|---|
| OpenVPN runs a session's disconnect hook before it hands the address out again (`DelayedDisconnect = FALSE`, for `FinishedIsCounted` only) | `TRUE` in `AccountingOrdered.cfg` | `FinishedIsCounted` fails: the next session's connect hook banks what the status file last said, and the disconnect hook with the final bytes finds another session's marker and is refused |
| no sweep runs (`MaxSweeps = 0`, for the same) | 1 in `AccountingOrdered.cfg` | `FinishedIsCounted` fails: `only_stale` removes the marker of a session the status file does not list, or `purge` reads an expired marker and removes by name the fresh one that replaced it; the session's disconnect hook finds no marker and banks nothing |
| no write has failed (in `IdentityCountedOnce` itself) | drop the premise | a hook closes its receipt and cannot remove the marker; a reset, or a poll that read the markers before this one was written, drops the receipt; the next poll or connect hook counts the session again |

`AccountingAdverse.cfg` makes none of them: `DisconnectTouchesOnlyItsOwn`
holds with slow handshakes, delayed hooks, torn files, sweeps and faults.

Some properties name an exception of their own, each a behaviour of the code
the model reaches:

* `AdmissionKeepsLimit` speaks of decisions from a status file rewritten since
  the last admission (two clients admitted within one rewrite exceed the limit)
  and of takeovers whose question was answered (silence looks like an empty
  list): the ghost `lock.sure`.
* `IdentityCountedOnce`, and the upper half of `FinishedIsCounted`, except a
  session of which the status file misleads the code, the ghost `crossed`. It
  crossed: `chooseMarker` compares the snapshot's time with the time the
  handshake began, so a snapshot written after that, which still has the address
  with an earlier session, passes as newer, and the earlier one's row is credited
  to it. Or it was overtaken: its address was handed out again while the status
  file had it with a session before it, and `bankDisplacedGeneration` closes it
  with that one's row. Everything else with slow handshakes and delayed hooks is
  in the property.
* `ReadIsCurrent` speaks of every read, of merged files and of split ones. A read
  that a writer overtakes by removing a split file before the read gets to it
  (`torn`) need not be the policy at its start, but each field is that policy's or
  the default: it can take a disabled user for an enabled one, never the reverse.
* `RefusedPushIsUndone` excepts a file that could not be put back: `restore`
  discards its errors and goes on (`httpapi/users.go:416`), so the answer says
  nothing of it. A crash during push or restore is no refusal.
* `FailedChangeIsUndone` excepts a file whose snapshot could not be taken or put
  back, and `PushedDnsSurvives` a change the agent died in (`hist.lost`).
* `ConfComesToBeServed` says nothing once OpenVPN was started during a change
  that was then undone (`hist.deaf`: `control.go:405` does not tell it).
* `ListedPortsLeadToServer` excepts a change of the primary port that names no
  extra ports (`hist.unnamed`), and what a failed apply leaves behind.
* `CachedProfileIsCurrent` excepts a profile built while a change was at work
  (`hist.raced`) and a change the agent died in (`hist.lost`).
* `GuessesAreBounded` speaks of addresses that were neither evicted from a full
  table nor forgotten at a restart, and allows one guess for each other request
  between check and record.
* `OneOwner` is the lease and a second, less one refresh interval: the lease has to be
  exceeded, and `last_seen` may be that interval less a second old. The bound is
  exact, so an off-by-one in either comparison violates it. A record without a panel
  (`{}`), which the agent never writes, is the same as the operator's release. A panel refused for its contract version has the lease all the same.
* `FailedOverIsThePrevious` excepts a failed rename and an update that ended
  before it had removed the previous tree of an earlier one (`hist.leftover`): it
  is failed over to the release before last.
* `VerifiedReleaseSurvives` says nothing once a command began on a tree that had
  not passed verification (`hist.astray`): an update started over an interrupted
  one removes the tree that one had set aside, since `node_update_needs_recovery`
  knows three phases only (`ovnode.sh:123`, where `src/README.md:106` says that
  `ovnode update` cleans up first). Up to then it holds also under a removal that
  was cut: recovery takes what is left of `.ovnode.previous` for the previous
  release and moves the verified tree to the staging directory
  (`install.sh:1526`, 1556), where the property still finds it.
  `CommittedIsInPlace` allows for such a remnant around the binary.

**Deadlock** checking is off where the program may really come to rest: the
sessions, requests, changes or commands of an instance are used up and nothing
is pending. It is on for `UsageCounter` and `UserPolicy`.

**Fairness.** `WF(HookStep(g))` in both session modules and `WF(PollStep)`: a
process that was started keeps running and its file operations return. `flock`
wakes a waiter when the lock is released, and since the number of hooks is
bounded weak fairness per hook is enough. In `ConfigChange` `WF(JobStep)`, the
handler runs to its end, and `WF(VpnStep)`, OpenVPN heeds the signals it got and
the supervisor starts it again. Nothing is assumed of the clients, the clock,
the status file, of polls, sweeps, requests or the agent being started.

### Violation: what the code does and its documents say otherwise

It has its own configuration and a finding in `PROJECT.json` that quotes the
line.

| Run | What happens |
|---|---|
| `session_counted_twice` | A disconnect hook banks the session and removes the user's last marker; the status file still lists the row; a poll finds no marker and counts the row again under the derived identity. |

Disagreements that were met while modelling and have no run of their own:

* Accounting and admission: a management socket that accepts and never answers
  makes a takeover verified (`mgmt.go:126`; the comment at `mgmt.go:23`). A hook
  that read the flag before the user was disabled admits after it
  (`connect.go:85`; `src/README.md:89`). A read during the migration of split
  files can take a disabled user for an enabled one (`store.go:104`).
* Users and PKI: a refused push whose restoration fails leaves a key without its
  certificate (`httpapi/users.go:416`); a user with pushed credentials cannot be deleted on the node,
  nor can a disabled one without material or index rows; a profile can pair a
  pushed certificate with a local key (`users.go:296`); a renewal that dies
  between key and certificate leaves a server that cannot start (`ca.go:461`).
* Configuration: a rollback after a failed write does not tell OpenVPN
  (`control.go:405`); a change of the primary port without extra ports leaves
  the redirects on the old port (`src/README.md:149`); a push of the second
  resolver alone reaches the desired state and not `server.conf`; a failed NAT
  apply leaves part of the redirects; the retry of a change the agent died in
  finds nothing to change (`control.go:327`); a write of the desired IPv6 state
  that was cut short is renamed into place and not read back
  (`policy.go:409`; that of the resolvers is, `control.go:392`); the snapshot covers the
  hard-coded NAT path while the writer honours `OVNODE_NAT_CONF`.
* Update: power lost at phase `activating` is not cleaned up by the next
  `ovnode update`, which only knows three phases (`ovnode.sh:123`;
  `src/README.md:106`). The journal is read by the binary at `APP_DIR`
  (`install.sh:1465`), so between the two renames neither command can run. A
  recovery may take an older update's previous tree for its own
  (`install.sh:1526`; the message at 1567). A failover puts the code back before
  the state and files the bundle does not have stay, so that an old agent can
  run on a new format (`install.sh:1439`; `src/README.md:107`). An installer the panel started may end with the agent it stops; a
  failed activation leaves the agent stopped (`install.sh:1357`); no Go code
  reads the maintenance marker that is said to block writes; after a recovery
  `ovnode update` does not go on to the new one (`ovnode.sh:95` replaces the
  process); a failed rename in the failover moves the previous tree into the
  candidate (`install.sh:1438`).

### Mutants

For every property of a passing run `PROJECT.json` names a mutant: a version of
one definition with a plausible mistake (an offset forgotten at reset, an epoch
kept, a marker chosen whatever its age, a polled row recorded as final, a lock
that is not released, a limit off by one, a loop without its deadline, a file
the rollback forgets, a serial taken twice, a window swept too early). TLC finds the
property violated under it. The mutants stand before the definitions they
replace and are not otherwise used.

## 4. Proofs

Each proof module is checked by `tlapm <module>.tla`; they are independent of
each other. All theorems hold for every value of the constants that satisfies the modules' `ASSUME`s,
which TLC evaluates on every run. The bounds of the runs (numbers of failures,
changes, recoveries) are such constants too, so a theorem covers every bound.

In every module the argument has the same form. An inductive invariant is made
of layers, each of which needs the ones before it. The actions are first
summarised, one lemma each, by a predicate that says what the step does to the
fields the invariant reads (`Shape` is the disjunction of these); then each
layer is shown to be kept by each summary; the last theorem combines these by
temporal logic. Every inductive invariant was checked by TLC on the instance of
the run before it was proved.

**`UsageCounterProofs`** (assumes `MaxCount > 0`, observations are words).
* `TypeCorrect`, `BytesAreCountedOnce`: `Spec => []TypeOK`, `Spec => []CountedOnce`.
* `TotalsGrowWithinAnEpoch`: the action property.
* `StoreImplementsLedger`: every step of the store is a step of `UsageLedger`
  or a stutter.

The inductive invariant is `TypeOK /\ CountedOnce /\ EpochInv`. `CountedOnce`
alone says nothing of epochs; `EpochInv` says that the file's epoch was minted
and that a file that is absent or a bare integer has none, which is what makes
the epoch after a reset a fresh one. The lemmas `RecordEffect`, `BankEffect`,
and those on prune and reset say once what an operation leaves in the file, and
the step proofs use only them.

**`SessionAccountingProofs`** (`ConnsAssumption`, `SidsAssumption`,
`BytesAssumption`: what a session can move fits the word; `BoundsAssumption`).
* `TypeCorrect`, `ReportsNeverShrink`, `OnlyItsOwn`: whatever the environment
  does, delayed hooks, slow handshakes, torn files, sweeps and faults included.
* `IdentityIsCountedOnce`: `Spec => []IdentityCountedOnce`, in the same
  environment.
* `FinishedCounted`: `Prompt => (Spec => []FinishedIsCounted)`.
* `AccountingImplementsLedger`: `Spec => Ledger!Spec`, the refinement that
  `StoreImplementsLedger` states of the store alone, now for every caller: a step
  of a hook, a poll, a sweep or a reset is a step of `UsageLedger` or a stutter.
  It needs `FilesInv` only.

`Prompt` is the environment of the run that checks `FinishedIsCounted` (no delayed
disconnect hook, no sweep, no failed write), a condition on constants; the table
above says what happens without each part of it. It leaves the handshake free.

`FilesInv`: `Sampled`: every epoch was minted, and a
sample of the epoch that runs is not above the total. `Distinct`, `Placed`: the
connections of one pool address differ in start or real address, and a marker is
at its connection's address, so `disconnectMatches` accepts the hook's own marker
only. `Locked`: who holds the session lock is at the phase that needs it, and a
disconnect hook past its commit finds its own marker or, after a sweep, none.

`AccountInv` comes on top. `Ordered`: an address has one connection at a time
that is admitted or asks to be, with its marker or, after a sweep, none.
`Reading`: a status file, or the copy a poll has, lists admitted sessions only,
with no more bytes than they have (`Rows`); the marker at a row's address is not
an earlier session's, and whoever came to the address later began at or after the
snapshot, which is what `chooseMarker` tests, or crossed; the same of the markers
a poll has found (`Matching`). So a row is recorded under its own session, the
identity derived from it, or a session that crossed. `Displaced`: the row a
connect hook banks is that of the marker it displaces, or that session was
overtaken. `Credited`: until a write fails, the credit of a session for which
something may yet be recorded is its open offset (that is why nothing is counted
again after a reset), and credits are not above the bytes but for the exceptions.
None of these is inductive alone: `Credited` needs the marker to be the row's,
that needs the age of rows, and that needs the addresses.

`PromptInv` is for the last theorem. `Attended`: a session has its address and
its marker until its hook is through, so the hook finds the marker; `Settled`:
once it has committed, the credit is at least the bytes.

**`AdmissionProofs`**.
* `TypeCorrect`.
* `LimitIsKept`: `Spec => AdmissionKeepsLimit`.

The inductive invariant is `TypeOK /\ HolderInv /\ SnapshotInv`. `HolderInv`:
the holder of the lock is a waiting connection, and past the decision its limit
is 1. `SnapshotInv`: once the status file was rewritten after an admission it
lists every live session; the rows of a deciding holder that is sure include
every live session; and after a verified takeover that was answered none is
live. It is inductive because no session is admitted while another hook holds
the lock. Cardinalities come from `FiniteSetTheorems`; `Conns` is any finite set.

**`UserPolicyProofs`**.
* `TypeCorrect`.
* `StoreImplementsRegister`: merged and split files together implement
  `PolicyRegister`, for any number of writers, deaths anywhere.
* `UnlockedReadIsCurrent`: `Spec => []ReadIsCurrent`.

The inductive invariant is `TypeOK`, `OneWriter` (the lock), `BodyIsMerged` (a
writer about to rename holds the merge of its request with what the files say
now), `WriterSteps`, and `MergedCovers` (a field the merged file leaves out is
not in the split files either, so that removing these changes nothing). The
refinement maps the rename to the register's `Apply` and the removals to
stutters. The read theorem adds `ReaderAgrees`: what a half-done read will find in the
files it has still to open, together with what it holds, is the policy at its
start, unless it is torn.

**`ApiAuthProofs`** (`AuthAssumption`: finite sets of requests and addresses,
durations and limits are positive numbers).
* `NodeHasOneOwner`: `Spec => OneOwner`.
* `TypeCorrect`, `GuessesBounded`, `TablesBounded`.

For the lease the inductive invariant is `OwnerInv`: `ClockInv`, `PairingInv`
(a readable lease names a panel and a time that is not in the future),
`ServedInv` (the same of the panel served last) and `LeaseInv`: the lease of the
panel served last is over, or the file cannot be read, so that nobody is served,
or the file names that panel with an age that one refresh interval explains. The
action property says only what one step may do; without `LeaseInv` nothing ties
the file to who was served before a restart, a damage or a skipped refresh.

For the limiter it is `LimiterInv`. A wrong key is compared in one call and
recorded in a later one, so neither bound is inductive: in between, the tables
know nothing of it. `CountInv` therefore counts a request that has compared and
not recorded as recorded: the guesses of an address inside the window are at
most the entries of its bucket and the requests about to record. `SizeInv` does
the same for the size of the table of failures, to which a record adds although
it sweeps nothing. The lemmas on the sweep (`TrimIsSuffix`, `CountTrim`,
`PruneFacts`) say that trimming a bucket drops a prefix of entries that are
outside the window, and that a table after a sweep is a part of what it was.

**`UserLifecycleProofs`**, first part: `Pki` (`PkiAssumption`: bounds are numbers, the server is not a
client; `NoneAssumption`: the value for "none" is no certificate, row or CRL).
* `TypeCorrect`, `UniqueSerials`, `RevokedBeforeCleanup`, `PushIsUndone`.
* `CrlOnlyGrows`, `IdentityIsKept`: the two action properties.

`PkiInv` is `Typed /\ Tracked /\ Guarded`. `Typed` ties what the operation at
work holds to its step (`StepsOf`, `Ready`). `Tracked` is what the first
properties rest on: a certificate is signed once and after its row was written
(`UsedOnce`), so a lost serial file is made anew above it; an issue goes ahead
only where there is no certificate to replace (`NothingReplaced`); a certificate
that has left the tree has a revoked row and is on the CRL (`LeftRevoked`), and
the rows of a removal are there before its files go (`Removing`); a CRL about to
be published lists what the present one lists, with a higher number
(`CrlFollows`). `Guarded` says how far a push has come and what it still has to
put back, and that initialisation found missing what it is about to write.

**`UserLifecycleProofs`**, second part: the handlers (`RequestAssumption`, `NoUserAssumption`: the value
for "none" is no handler, folder or generation; there are serials for the server
and one user).
* `StaleIsRefused`, `DeletionRevokes`, `TombstoneStays`.
* `CaKeepsItsPromises`: the invariants of `Pki` hold of the composed system,
  where the API's handlers decide what the CA does when.

`UserInv` extends `PkiInv` by the handlers: who is past the wait has the user's
lock, and the operation of the CA is that of the handler that waits for it
(`Exclusive`); a removal past the certificate, and a deletion about to remove the
folder, have no certificate left (`Removed`); pushed credentials stay in the
folder (`Pushes`); the file a request has open is in place and nobody was deleted
since, or all the request has seen is on the CRL (`Opened`, `Listed`).
`DeletedMeansRevoked` needs them all: the deletion looks at the certificates in
one step, the CA revokes in others, and only the lock keeps an issue from falling
between.

**`ConfigChangeProofs`** (`ConfigAssumption`: requests and defaults have their
types, the placeholder is no address).
* `TypeCorrect`, `FailureUndoes`, `PortsLead`, `DnsSurvives`, `ProfileIsCurrent`.

`ConfigInv` has one layer for each phase of a change: `Undo` (what the change has
not touched is as it was, a snapshot holds what was there), `Planned` (the new
contents in terms of the request and the old ones), `Written` (a file whose turn
is over has its new content), and one for each property in the states between
two changes and within one: `Cached`, `Pushed`, `Led`.

**`UpdateTransactionProofs`** (`UpdateAssumption`: at least one release, bounds
are numbers).
* `TypeCorrect`, `NoMarkerLeft`, `CommitInPlace`, `FailoverReturns`.
* `VerifiedSurvives`: `Spec => []VerifiedReleaseSurvives`.

The layers: `Placed` (which trees exist at which step of the installer, and
which release each holds), `Marked` (the journal and the marker in terms of the
step), `Concluded` (what a finished journal says of the trees), `Returns` (where
the release an update began from is) and `Kept`: until a command begins on an
unverified tree, at each step which tree holds a verified release, and where it
is when another one is what a cut removal left. `Placed` is the one that makes the
rest inductive: power can fail at any step, and what the recovery finds is what
`Placed` says of the step.

**Only model-checked.**
* Liveness (`EndIsBanked`, `EveryHookReturns`, `ConfComesToBeServed`): fairness
  and `ENABLED` are out of the prover's reach.
* What `Prompt` excludes: with delayed hooks, sweeps or failed writes
  `FinishedIsCounted` does not hold, and TLC shows how.
* `session_counted_twice`, a violation.

No module that is proved about uses `RECURSIVE`; what would need an induction
over data is stated with sets, functions and cardinalities instead. The one
induction over the naturals that was needed (a first entry inside the window)
goes through a minimal element (`LeastNumber`).

## 5. Plan

Done: the modules above, with two abstract specifications and eight proof
modules, which state every safety invariant and every action property of the
passing runs.

Next, in this order:
1. The rest of session accounting: markers without a pool address,
   `RemoveLegacyMarkers`, derived identities that are never pruned.
2. The operation lock of the installer and the updater's lock and status.

## 6. Not modelled, and why

* Text: parsing and rewriting of configuration files, status lines, profiles,
  certificates and their signatures. What they decide is a parameter.
* HTTP decoding and response shapes; the calls handlers make are modelled where
  the callee is.
* Logs, diagnostics and display caches: nothing that matters reads them.
* Of the installer: first installation, uninstall, `repair-unit`, `rollback`,
  the backup and restore commands and the migration of flat data are command
  sequences on the host without a transaction of their own; the container
  branch is switched off (`DOCKER=0`).
* Of the updater: the flock and the status file, which feed the panel's display.
* Of accounting: a connect hook that outlives OpenVPN (the agent sets no parent
  death signal, `ovpn/daemon.go`); the disconnect hooks that do are modelled.
* A full disk under the update journal: `WriteUpdateState` ignores a failed write
  (`installer/state.go:41`); the model has the torn journal that a power loss
  leaves. A missing `.env` in a tree that was cut ends the command, which is one
  of the places where `Killed` ends it.
* Of configuration changes: the IPv6 prefix, `EnsureClientTemplate`, the lines
  `ensureServerConf` adds to an existing file, MASQUERADE, `nat cleanup`, and
  `POST /sync/restart`, which sends the signals that are modelled.
* Of users and PKI: client configuration directories and the per-user `ca.pem`,
  ownership and modes of files, `MigrateLegacy`, `RevokeCert` by serial (no
  caller), expiry. `AllowFailedAuth` of the limiter has no caller either.
* `flock` and rename themselves are primitives. A lock file is never removed
  while the modelled parts run.
