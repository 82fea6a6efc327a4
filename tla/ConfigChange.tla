--------------------------- MODULE ConfigChange ---------------------------
(***************************************************************************)
(* POST /sync/config (ChangeConfig in internal/ovpn/control.go) with what  *)
(* it changes: six files (server.conf, the client template, the desired    *)
(* DNS, IPv6 and extra ports of internal/policy, and the NAT               *)
(* configuration), the redirect rules of internal/nat, the cached profiles *)
(* and the OpenVPN process that the agent supervises (daemon.go).          *)
(*                                                                         *)
(* Changes hold changeConfigMu, so one is at work at a time: `job'.  A     *)
(* profile is built under another lock, at the same time.  The extra ports *)
(* are a set and IPv6 is on or off; the protocol of a redirect, MASQUERADE *)
(* and the answer's restart_required and hot_reload are left out.          *)
(***************************************************************************)
EXTENDS Integers, Sequences

CONSTANTS
    Requests,      \* the requests of the panel
    CNs,           \* users with a profile
    Ports,
    Reserved,      \* ports that may be neither primary nor extra
    DefPort,       \* OPENVPN_PORT
    DefExtras,     \* OVNODE_EXTRA_PORTS
    Addrs,         \* tunnel addresses
    Placeholder,   \* UPDATE_VIA_PANEL
    PublicAddr,    \* NodePublicIP
    InitAddrs,     \* the addresses a template may start with
    Resolvers,
    Def1, Def2,    \* VPN_DNS1 and VPN_DNS2
    Empty,         \* the empty string
    None,          \* no file; a field the request does not have
    MaxChanges,    \* bound: requests of a behaviour
    MaxBuilds,     \* bound: profiles built
    MaxTrouble,    \* bound: writes, commands and signals that fail
    MaxCrashes     \* bound: how often the agent goes down

Protos == {"tcp", "udp"}

Request ==
    [port : Ports, proto : Protos, addr : Addrs \union {None},
     dns1 : Resolvers \union {Empty, None}, dns2 : Resolvers \union {Empty, None},
     v6 : BOOLEAN \union {None}, extras : (SUBSET Ports) \union {None}]

ASSUME ConfigAssumption ==
    /\ Requests \subseteq Request
    /\ {MaxChanges, MaxBuilds, MaxTrouble, MaxCrashes} \subseteq Nat
    /\ DefPort \in Ports /\ DefExtras \subseteq Ports
    /\ {Def1, Def2} \subseteq Resolvers
    /\ PublicAddr \in Addrs /\ Placeholder \notin Addrs
    /\ InitAddrs \subseteq Addrs \union {Placeholder}
    /\ None \notin Addrs \union Resolvers \union {Empty, Placeholder}

VARIABLES
    file,          \* the six files
    redirects,     \* the rules of the kernel: extra port -> port
    profile,       \* users/<cn>/client.ovpn: the template it was made from
    build,         \* the template a profile is being made from
    job,           \* the change that holds changeConfigMu
    vpn,           \* the OpenVPN process
    agent,         \* the agent is up
    spent,         \* changes, builds, troubles and crashes so far
    hist           \* history: see NoHistory

files == <<file, redirects, profile>>
vars == <<files, build, job, vpn, agent, spent, hist>>

Files == {"conf", "tmpl", "dns", "v6", "ports", "nat"}

NoJob == [step |-> "idle", req |-> None, new |-> None, saved |-> None,
          todo |-> {}, restart |-> FALSE, started |-> FALSE, old |-> None,
          lost |-> {}]

\* clean: nothing has failed; unnamed: a change left out the extra ports;
\* lost: a snapshot was not taken or not put back, or the agent went down in
\* the middle of a change; deaf: OpenVPN read server.conf during a change that
\* was then undone, and was not told; dns: the resolvers of the last change
\* that named both; raced[cn]: the profile was built during a change.
NoHistory == [clean |-> TRUE, unnamed |-> FALSE, lost |-> FALSE, deaf |-> FALSE,
              dns |-> None, raced |-> [c \in CNs |-> FALSE]]

------------------------------------------------------------------------------
(***************************************************************************)
(* The desired state (policy.go).                                          *)
(***************************************************************************)
NoDns == [dns1 |-> Empty, dns2 |-> Empty]
ReadDNSState == IF file["dns"] = None THEN NoDns ELSE file["dns"]

Listed(r1, r2) ==
    LET one(r) == IF r \in {Empty, None} THEN <<>> ELSE <<r>>
    IN  one(r1) \o one(r2)

\* Mutant of DNSEffective: the defaults win.
DNSEffectiveDefaults == Listed(Def1, Def2)

DNSEffective ==
    LET or(v, def) == IF v = Empty THEN def ELSE v
    IN  Listed(or(ReadDNSState.dns1, Def1), or(ReadDNSState.dns2, Def2))

IPv6Effective == file["v6"] # None /\ file["v6"]

ReadPortsState == IF file["ports"] = None THEN {} ELSE file["ports"]
PortsEffective == IF file["ports"] = None THEN DefExtras ELSE file["ports"]

\* FreshServerConf: port and protocol are those of the environment.
FreshServerConf ==
    [port |-> DefPort, proto |-> "tcp", dns |-> DNSEffective, v6 |-> IPv6Effective]

\* A node as the installer leaves it, enrolled for NAT or not; without an
\* address when the panel is to give it.
Init ==
    /\ \E nat \in {None} \union
            {[on |-> on, primary |-> DefPort, extras |-> DefExtras] : on \in BOOLEAN},
          addr \in InitAddrs :
         LET conf == [port |-> DefPort, proto |-> "tcp",
                      dns |-> Listed(Def1, Def2), v6 |-> FALSE]
         IN  /\ file = [f \in Files |->
                  CASE f = "conf" -> conf
                    [] f = "tmpl" -> [proto |-> "tcp", addr |-> addr,
                                      ports |-> {DefPort} \union DefExtras]
                    [] f = "nat"  -> nat
                    [] OTHER      -> None]
             /\ redirects = IF nat # None /\ nat.on THEN DefExtras \X {DefPort} ELSE {}
             /\ vpn = [up |-> TRUE, conf |-> conf, signal |-> "none"]
    /\ profile = [c \in CNs |-> None]
    /\ build = [c \in CNs |-> None]
    /\ job = NoJob
    /\ agent = TRUE
    /\ spent = [changes |-> 0, builds |-> 0, trouble |-> 0, crashes |-> 0]
    /\ hist = NoHistory

------------------------------------------------------------------------------
(***************************************************************************)
(* ChangeConfig, phases (a) and (b): validation, and the new content of    *)
(* the files.                                                              *)
(***************************************************************************)
Valid(r) ==
    /\ r.port \notin Reserved
    /\ r.extras # None => r.extras \intersect (Reserved \union {r.port}) = {}

Tunnel(r) ==
    IF r.addr # None THEN r.addr
    ELSE IF file["tmpl"].addr = Placeholder THEN PublicAddr ELSE file["tmpl"].addr

DnsProvided(r) == r.dns1 # None \/ r.dns2 # None

\* The resolvers server.conf pushes: a second one alone changes nothing.
DnsDesired(r) ==
    IF r.dns1 # None THEN Listed(r.dns1, r.dns2) ELSE DNSEffective

\* Mutant of DnsState: a resolver the request leaves out is written as it came.
DnsStateNil(r) == [dns1 |-> r.dns1, dns2 |-> r.dns2]

\* A resolver the request leaves out becomes the default of the environment.
DnsState(r) ==
    [dns1 |-> IF r.dns1 # None THEN r.dns1 ELSE Def1,
     dns2 |-> IF r.dns2 # None THEN r.dns2 ELSE Def2]

Extras(r) == IF r.extras # None THEN r.extras ELSE PortsEffective

NewFile(r, f) ==
    CASE f = "conf" ->
           [port |-> r.port, proto |-> r.proto,
            dns |-> IF DnsProvided(r) THEN DnsDesired(r) ELSE file["conf"].dns,
            v6  |-> IF r.v6 # None THEN r.v6 ELSE file["conf"].v6]
      [] f = "tmpl" ->
           [proto |-> r.proto, addr |-> Tunnel(r),
            ports |-> {r.port} \union Extras(r)]
      [] f = "dns" /\ DnsProvided(r)     -> DnsState(r)
      [] f = "v6" /\ r.v6 # None         -> r.v6
      [] f = "ports" /\ r.extras # None  -> r.extras
      [] f = "nat" /\ r.extras # None /\ file["nat"] # None ->
           [on |-> file["nat"].on, primary |-> r.port, extras |-> r.extras]
      [] OTHER -> file[f]

\* What decides that there is nothing to do.
NoChange(r) ==
    /\ \A f \in {"conf", "tmpl"} : NewFile(r, f) = file[f]
    /\ DnsProvided(r) => ReadDNSState = DnsState(r)
    /\ r.v6 # None => IPv6Effective = r.v6
    /\ r.extras # None => PortsEffective = r.extras

\* The files that get a snapshot.
Touched(r) ==
    {"conf", "tmpl"} \union (IF DnsProvided(r) THEN {"dns"} ELSE {})
      \union (IF r.v6 # None THEN {"v6"} ELSE {})
      \union (IF r.extras # None THEN {"ports", "nat"} ELSE {})

Writes(r) ==
    {f \in Touched(r) : /\ f \in {"conf", "tmpl"} => NewFile(r, f) # file[f]
                       /\ f = "nat" => file["nat"] # None}

\* The order in which they are written.
Order == [conf |-> 1, tmpl |-> 2, dns |-> 3, v6 |-> 4, ports |-> 5, nat |-> 6]
IsNext(f) == f \in job.todo /\ \A g \in job.todo : Order[f] <= Order[g]

RestartRequired(r) ==
    \/ r.port # file["conf"].port \/ r.proto # file["conf"].proto
    \/ Tunnel(r) # file["tmpl"].addr

Goto(step) == job' = [job EXCEPT !.step = step]
Trouble ==
    /\ spent.trouble < MaxTrouble
    /\ spent' = [spent EXCEPT !.trouble = @ + 1]

\* A request that is not valid is answered before anything is read.
Reject(r) ==
    /\ agent /\ job = NoJob
    /\ spent.changes < MaxChanges
    /\ ~Valid(r)
    /\ spent' = [spent EXCEPT !.changes = @ + 1]
    /\ UNCHANGED <<files, build, job, vpn, agent, hist>>

\* Nothing to do: the request succeeds and nothing is written.
NoOp(r) ==
    /\ agent /\ job = NoJob
    /\ spent.changes < MaxChanges
    /\ Valid(r) /\ NoChange(r)
    /\ spent' = [spent EXCEPT !.changes = @ + 1]
    /\ hist' = [hist EXCEPT !.unnamed = @ \/ r.extras = None]
    /\ UNCHANGED <<files, build, job, vpn, agent>>

\* Phase (c) begins: the snapshots.  One that cannot be taken is left out.
Begin(r, failed) ==
    /\ agent /\ job = NoJob
    /\ spent.changes < MaxChanges
    /\ Valid(r) /\ ~NoChange(r)
    /\ IF failed = {} THEN spent' = [spent EXCEPT !.changes = @ + 1]
       ELSE /\ spent.trouble < MaxTrouble
            /\ spent' = [spent EXCEPT !.changes = @ + 1, !.trouble = @ + 1]
    /\ job' = [step |-> "write", req |-> r,
               new     |-> [f \in Files |-> NewFile(r, f)],
               saved   |-> [f \in Touched(r) \ failed |-> file[f]],
               todo    |-> Writes(r),
               restart |-> RestartRequired(r), started |-> FALSE,
               old     |-> file, lost |-> failed]
    /\ hist' = [hist EXCEPT !.clean = @ /\ failed = {},
                            !.lost = @ \/ failed # {},
                            !.raced = [c \in CNs |-> @[c] \/ build[c] # None]]
    /\ UNCHANGED <<files, build, vpn, agent>>

------------------------------------------------------------------------------
(***************************************************************************)
(* Phase (c): the writes, one rename each.                                 *)
(***************************************************************************)

\* Mutant of AfterWrite: the rules are not applied.
AfterWriteNoApply(f) ==
    /\ IsNext(f)
    /\ job' = [job EXCEPT !.todo = @ \ {f}]

\* Where the job goes when the next file is written: NAT
\* rules are applied when the node has them on.
AfterWrite(f) ==
    /\ IsNext(f)
    /\ job' = [job EXCEPT !.todo = @ \ {f},
                          !.step = IF f = "nat" /\ job.new["nat"].on THEN "apply"
                                   ELSE "write"]

WriteFile(f) ==
    /\ job.step = "write"
    /\ AfterWrite(f)
    /\ file' = [file EXCEPT ![f] = job.new[f]]
    /\ UNCHANGED <<redirects, profile, build, vpn, agent, spent, hist>>

\* server.conf, template and NAT configuration: the change fails.
WriteFails(f) ==
    /\ job.step = "write"
    /\ IsNext(f)
    /\ f \in {"conf", "tmpl", "nat"}
    /\ Trouble
    /\ Goto("restore")
    /\ hist' = [hist EXCEPT !.clean = FALSE]
    /\ UNCHANGED <<files, build, vpn, agent>>

\* The desired state: the error is not returned, and the next file follows.
WriteIsLost(f) ==
    /\ job.step = "write"
    /\ f \in {"dns", "v6", "ports"}
    /\ AfterWrite(f)
    /\ Trouble
    /\ hist' = [hist EXCEPT !.clean = FALSE]
    /\ UNCHANGED <<files, build, vpn, agent>>

\* What a write that was cut short leaves of them: WriteDNSState and
\* WriteIPv6State rename the file they could not fill all the same.
Cut(f) ==
    IF f = "dns" THEN {NoDns, [job.new["dns"] EXCEPT !.dns2 = Empty]} ELSE {None}

WriteIsCut(f) ==
    /\ job.step = "write"
    /\ f \in {"dns", "v6"}
    /\ AfterWrite(f)
    /\ Trouble
    /\ \E c \in Cut(f) : file' = [file EXCEPT ![f] = c]
    /\ hist' = [hist EXCEPT !.clean = FALSE]
    /\ UNCHANGED <<redirects, profile, build, vpn, agent>>

\* `nat apply': its own redirects are flushed and those of the configuration
\* are added.
NatApply ==
    /\ job.step = "apply"
    /\ redirects' = file["nat"].extras \X {file["nat"].primary}
    /\ Goto("write")
    /\ UNCHANGED <<file, profile, build, vpn, agent, spent, hist>>

\* It stops at the first rule that cannot be removed or added, and
\* SyncNATConfig puts the old configuration back.
NatApplyFails ==
    /\ job.step = "apply"
    /\ Trouble
    /\ redirects' \in (SUBSET redirects)
                        \union (SUBSET (file["nat"].extras \X {file["nat"].primary}))
    /\ file' = [file EXCEPT !["nat"] = job.old["nat"]]
    /\ Goto("restore")
    /\ hist' = [hist EXCEPT !.clean = FALSE]
    /\ UNCHANGED <<profile, build, vpn, agent>>

\* DNS and extra ports are read back.
ReadBack ==
    /\ job.step = "write" /\ job.todo = {}
    /\ Goto(IF /\ DnsProvided(job.req) => ReadDNSState = job.new["dns"]
               /\ job.req.extras # None => ReadPortsState = job.req.extras
              THEN "invalidate" ELSE "restore")
    /\ UNCHANGED <<files, build, vpn, agent, spent, hist>>

\* Mutant of Invalidate: the cached profiles stay.
InvalidateNothing ==
    /\ job.step = "invalidate"
    /\ Goto("signal")
    /\ UNCHANGED <<files, build, vpn, agent, spent, hist>>

\* invalidateCachedOVPN: the profiles are built again when they are asked for.
Invalidate ==
    /\ job.step = "invalidate"
    /\ profile' = [c \in CNs |-> None]
    /\ hist' = [hist EXCEPT !.raced = [c \in CNs |-> build[c] # None]]
    /\ Goto("signal")
    /\ UNCHANGED <<file, redirects, build, vpn, agent, spent>>

\* Mutant of Signals: a change that needs no restart is not announced.
SignalsRestartOnly == IF job.restart THEN {"term", "hup"} ELSE {}

\* What the job has to tell OpenVPN: the supervised child is killed and
\* respawned (or, in another tree, reloaded); a change of server.conf that
\* needs no restart is a reload.
Signals ==
    IF job.restart THEN {"term", "hup"}
    ELSE IF job.new["conf"] # job.old["conf"] THEN {"hup"} ELSE {}

Send(signal) ==
    vpn' = [vpn EXCEPT !.signal = IF @ = "term" THEN "term" ELSE signal]

\* The change has succeeded.
Applied ==
    /\ job' = NoJob
    /\ hist' = [hist EXCEPT
         !.unnamed = @ \/ job.req.extras = None,
         !.dns = IF {job.req.dns1, job.req.dns2} \intersect {Empty, None} = {}
                   THEN <<job.req.dns1, job.req.dns2>>
                 ELSE IF DnsProvided(job.req) THEN None ELSE @]

SignalVpn ==
    /\ job.step = "signal"
    /\ IF vpn.up /\ Signals # {} THEN \E s \in Signals : Send(s) ELSE UNCHANGED vpn
    /\ Applied
    /\ UNCHANGED <<files, build, agent, spent>>

SignalFails ==
    /\ job.step = "signal"
    /\ vpn.up /\ Signals # {}
    /\ Trouble
    /\ Goto("rollback")
    /\ hist' = [hist EXCEPT !.clean = FALSE]
    /\ UNCHANGED <<files, build, vpn, agent>>

\* Mutant of Restored: the desired state is not put back.
RestoredEndpoint(lost) ==
    /\ IF lost = {} THEN UNCHANGED spent ELSE Trouble
    /\ hist' = [hist EXCEPT !.clean = FALSE, !.lost = @ \/ lost # {},
                            !.deaf = @ \/ (job.step = "restore" /\ job.started)]
    /\ file' = [file EXCEPT !["conf"] = job.old["conf"], !["tmpl"] = job.old["tmpl"]]
    /\ job' = [job EXCEPT !.lost = @ \union lost,
                          !.step = IF @ = "restore" THEN "failed" ELSE "resignal"]

\* restoreSnapshots; the error of a rename is ignored.  Only after a failed
\* signal is OpenVPN told once more.
Restored(lost) ==
    /\ IF lost = {} THEN UNCHANGED spent ELSE Trouble
    /\ hist' = [hist EXCEPT !.clean = FALSE, !.lost = @ \/ lost # {},
                            !.deaf = @ \/ (job.step = "restore" /\ job.started)]
    /\ file' = [f \in Files |-> IF f \in DOMAIN job.saved \ lost THEN job.saved[f]
                                ELSE file[f]]
    /\ job' = [job EXCEPT !.lost = @ \union lost,
                          !.step = IF @ = "restore" THEN "failed" ELSE "resignal"]

RestoreSnapshots(lost) ==
    /\ job.step \in {"restore", "rollback"}
    /\ Restored(lost)
    /\ UNCHANGED <<redirects, profile, build, vpn, agent>>

\* Best effort, after a rollback: it may fail for the reason it failed before.
Resignal ==
    /\ job.step = "resignal"
    /\ IF vpn.up THEN \E s \in {"term", "hup"} :
                        (s = "term" => job.restart) /\ Send(s)
                 ELSE UNCHANGED vpn
    /\ Goto("failed")
    /\ UNCHANGED <<files, build, agent, spent, hist>>

ResignalFails ==
    /\ job.step = "resignal"
    /\ vpn.up
    /\ Goto("failed")
    /\ hist' = [hist EXCEPT !.deaf = @ \/ job.started]
    /\ UNCHANGED <<files, build, vpn, agent, spent>>

\* The request is answered with a failure.
Fail ==
    /\ job.step = "failed"
    /\ job' = NoJob
    /\ UNCHANGED <<files, build, vpn, agent, spent, hist>>

------------------------------------------------------------------------------
(***************************************************************************)
(* buildUserProfileLocked: the template is read, then the profile written. *)
(* A profile that is there is served as it is (ReadUserProfile).           *)
(***************************************************************************)
ReadTemplate(cn) ==
    /\ agent /\ build[cn] = None
    /\ profile[cn] = None
    /\ spent.builds < MaxBuilds
    /\ spent' = [spent EXCEPT !.builds = @ + 1]
    /\ build' = [build EXCEPT ![cn] = file["tmpl"]]
    /\ hist' = [hist EXCEPT !.raced[cn] = job # NoJob]
    /\ UNCHANGED <<files, job, vpn, agent>>

WriteProfile(cn) ==
    /\ build[cn] # None
    /\ profile' = [profile EXCEPT ![cn] = build[cn]]
    /\ build' = [build EXCEPT ![cn] = None]
    /\ UNCHANGED <<file, redirects, job, vpn, agent, spent, hist>>

------------------------------------------------------------------------------
(***************************************************************************)
(* OpenVPN, which the agent starts again whenever it ends                  *)
(* (SuperviseOpenVPN), and the agent.                                      *)
(***************************************************************************)
VpnEnds ==
    /\ vpn.up /\ vpn.signal = "term"
    /\ vpn' = [vpn EXCEPT !.up = FALSE, !.signal = "none"]
    /\ UNCHANGED <<files, build, job, agent, spent, hist>>

ReadsConf ==
    /\ vpn' = [up |-> TRUE, conf |-> file["conf"], signal |-> "none"]
    /\ job' = [job EXCEPT !.started = job # NoJob]
    /\ UNCHANGED <<files, build, agent, spent, hist>>

VpnReloads == vpn.up /\ vpn.signal = "hup" /\ ReadsConf

VpnStarts == agent /\ ~vpn.up /\ ReadsConf

VpnDies ==
    /\ vpn.up
    /\ Trouble
    /\ vpn' = [vpn EXCEPT !.up = FALSE, !.signal = "none"]
    /\ UNCHANGED <<files, build, job, agent, hist>>

\* The agent goes down, in the middle of a change or not, and OpenVPN with it.
AgentStops ==
    /\ agent
    /\ spent.crashes < MaxCrashes
    /\ spent' = [spent EXCEPT !.crashes = @ + 1]
    /\ agent' = FALSE
    /\ job' = NoJob
    /\ build' = [c \in CNs |-> None]
    /\ vpn' = [vpn EXCEPT !.up = FALSE, !.signal = "none"]
    /\ hist' = [hist EXCEPT !.clean = @ /\ job = NoJob, !.lost = @ \/ job # NoJob]
    /\ UNCHANGED files

AgentStarts ==
    /\ ~agent
    /\ agent' = TRUE
    /\ UNCHANGED <<files, build, job, vpn, spent, hist>>

\* `ovnode ca init' makes server.conf when it is not there: ensureServerConf.
Regenerate ==
    /\ ~agent
    /\ file["conf"] # FreshServerConf
    /\ file' = [file EXCEPT !["conf"] = FreshServerConf]
    /\ hist' = [hist EXCEPT !.clean = @ /\ file["conf"].port = DefPort
                                        /\ file["conf"].proto = "tcp"]
    /\ UNCHANGED <<redirects, profile, build, job, vpn, agent, spent>>

------------------------------------------------------------------------------
JobStep ==
    \/ \E f \in Files : WriteFile(f)
    \/ NatApply \/ ReadBack \/ Invalidate \/ SignalVpn
    \/ RestoreSnapshots({}) \/ Resignal \/ Fail

VpnStep == VpnEnds \/ VpnReloads \/ VpnStarts

Faults ==
    \/ \E f \in Files : \/ WriteFails(f) \/ WriteIsLost(f) \/ WriteIsCut(f)
                       \/ RestoreSnapshots({f})
    \/ NatApplyFails \/ SignalFails \/ ResignalFails \/ VpnDies

Next ==
    \/ \E r \in Requests : Reject(r) \/ NoOp(r) \/ Begin(r, {})
    \/ \E r \in Requests : \E f \in Touched(r) : Begin(r, {f})
    \/ JobStep \/ VpnStep \/ Faults
    \/ \E cn \in CNs : ReadTemplate(cn) \/ WriteProfile(cn)
    \/ AgentStops \/ AgentStarts \/ Regenerate

Spec == Init /\ [][Next]_vars

\* The handler runs to its end and OpenVPN heeds its signals and is
\* respawned.
FairSpec == Spec /\ WF_vars(JobStep) /\ WF_vars(VpnStep)

------------------------------------------------------------------------------
(***************************************************************************)
(* Properties.                                                             *)
(***************************************************************************)

Conf == [port : Ports, proto : Protos, dns : Seq(Resolvers), v6 : BOOLEAN]
Tmpl == [proto : Protos, addr : Addrs \union {Placeholder}, ports : SUBSET Ports]
NatConf == [on : BOOLEAN, primary : Ports, extras : SUBSET Ports]

(***************************************************************************)
(* Types of the files, the rules, the profiles and the configuration that  *)
(* OpenVPN runs; server.conf and the template are always there.            *)
(***************************************************************************)
TypeOK ==
    /\ file["conf"] \in Conf /\ file["tmpl"] \in Tmpl
    /\ file["dns"] \in [dns1 : Resolvers \union {Empty},
                        dns2 : Resolvers \union {Empty}] \union {None}
    /\ file["v6"] \in BOOLEAN \union {None}
    /\ file["ports"] \in (SUBSET Ports) \union {None}
    /\ file["nat"] \in NatConf \union {None}
    /\ redirects \subseteq Ports \X Ports
    /\ profile \in [CNs -> Tmpl \union {None}]
    /\ build \in [CNs -> Tmpl \union {None}]
    /\ vpn.conf \in Conf

(***************************************************************************)
(* CHANGELOG.md: POST /sync/config "rolls back on failure".  A change that *)
(* is answered with a failure has left every file as it was, whichever     *)
(* write, command or signal failed; only a file whose snapshot could not   *)
(* be taken or put back may differ (restoreSnapshots).                     *)
(***************************************************************************)
FailedChangeIsUndone ==
    job.step = "failed" =>
        \A f \in Files \ job.lost : file[f] = job.old[f]

(***************************************************************************)
(* README.md: of the VPN ports "the first listens, the rest are redirected *)
(* to it and listed in every .ovpn".  As long as nothing fails and every   *)
(* change names the extra ports, every port the template lists leads to    *)
(* the port OpenVPN is configured for (SyncNATConfig, nat.Apply).          *)
(***************************************************************************)
ListedPortsLeadToServer ==
    /\ job = NoJob
    /\ hist.clean /\ ~hist.unnamed
    /\ file["nat"] # None /\ file["nat"].on
    => \A p \in file["tmpl"].ports :
         \/ p = file["conf"].port
         \/ <<p, file["conf"].port>> \in redirects

(***************************************************************************)
(* README.md: "the resolvers the panel pushes win over installer defaults, *)
(* and survive a configuration regeneration".  After a change that names   *)
(* both resolvers server.conf pushes them, also when it was generated anew *)
(* or a later change was undone (DNSEffective, RewritePushDNS).            *)
(***************************************************************************)
PushedDnsSurvives ==
    /\ job = NoJob
    /\ hist.dns # None /\ ~hist.lost
    => file["conf"].dns = hist.dns

(***************************************************************************)
(* A profile that was not built while a change was at work is the one the  *)
(* template would give now, through changes that are applied and changes   *)
(* that are undone; the agent going down in the middle of one is the       *)
(* exception (invalidateCachedOVPN).                                       *)
(***************************************************************************)
CachedProfileIsCurrent ==
    \A cn \in CNs :
        /\ job = NoJob
        /\ profile[cn] # None /\ ~hist.raced[cn]
        /\ ~hist.lost
        => profile[cn] = file["tmpl"]

(***************************************************************************)
(* When no change is at work and the agent stays up, OpenVPN comes to run  *)
(* what server.conf says, after changes that were applied, undone or       *)
(* interrupted (RestartOpenVPN, ReloadOpenVPN, SuperviseOpenVPN).          *)
(***************************************************************************)
ServesItsConf == vpn.up /\ vpn.conf = file["conf"]
ConfComesToBeServed ==
    (agent /\ job = NoJob /\ ~hist.deaf) ~>
        (ServesItsConf \/ job # NoJob \/ ~agent \/ hist.deaf)

==============================================================================
