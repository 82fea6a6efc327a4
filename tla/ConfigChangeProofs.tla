------------------------ MODULE ConfigChangeProofs ------------------------
(***************************************************************************)
(* Proofs about ConfigChange, for any requests, users, ports and           *)
(* resolvers and any number of changes, failures and crashes.              *)
(***************************************************************************)
EXTENDS ConfigChange, SequenceTheorems, TLAPS

Steps == {"idle", "write", "apply", "invalidate", "signal", "restore",
          "rollback", "resignal", "failed"}

Idle == job.step = "idle"

\* The steps on which the change has not failed yet.
Forward == {"write", "apply", "invalidate", "signal"}

(***************************************************************************)
(* Shapes.  The three records have their fields, a change that is at work  *)
(* belongs to an agent that is up and to a request of the panel.           *)
(***************************************************************************)
JobFields ==
    job = [step |-> job.step, req |-> job.req, new |-> job.new, saved |-> job.saved,
           todo |-> job.todo, restart |-> job.restart, started |-> job.started,
           old |-> job.old, lost |-> job.lost]

HistFields ==
    /\ hist = [clean |-> hist.clean, unnamed |-> hist.unnamed, lost |-> hist.lost,
               deaf |-> hist.deaf, dns |-> hist.dns, raced |-> hist.raced]
    /\ hist.raced = [c \in CNs |-> hist.raced[c]]
    /\ hist.clean \in BOOLEAN /\ hist.unnamed \in BOOLEAN /\ hist.lost \in BOOLEAN

VpnFields == vpn = [up |-> vpn.up, conf |-> vpn.conf, signal |-> vpn.signal]

IsFiles(g) == g = [f \in Files |-> g[f]]

Shaped ==
    /\ JobFields /\ HistFields /\ VpnFields
    /\ IsFiles(file)
    /\ profile = [c \in CNs |-> profile[c]] /\ build = [c \in CNs |-> build[c]]
    /\ job.step \in Steps
    /\ Idle => job = NoJob
    /\ ~Idle => /\ agent
                /\ job.req \in Requests
                /\ IsFiles(job.old) /\ IsFiles(job.new)

(***************************************************************************)
(* Undo: what a change has not touched is as it was, a snapshot holds what *)
(* was there, and once the snapshots are put back everything is as it was, *)
(* the files of job.lost apart.                                            *)
(***************************************************************************)
Undo ==
    ~Idle =>
        /\ job.todo \subseteq Touched(job.req)
        /\ \A f \in Files \ Touched(job.req) : file[f] = job.old[f]
        /\ \A f \in DOMAIN job.saved : job.saved[f] = job.old[f]
        /\ Touched(job.req) \ job.lost \subseteq DOMAIN job.saved
        /\ job.step \in {"resignal", "failed"} =>
             \A f \in Files \ job.lost : file[f] = job.old[f]
        /\ job.lost # {} => hist.lost

(***************************************************************************)
(* Planned: the new content, in terms of the request and the old content.  *)
(***************************************************************************)
Plan(r, old, new) ==
    /\ new["conf"].port = r.port
    /\ r.dns1 # None => new["conf"].dns = Listed(r.dns1, r.dns2)
    /\ ~DnsProvided(r) => new["conf"].dns = old["conf"].dns
    /\ DnsProvided(r) => new["dns"] = DnsState(r)
    /\ r.extras # None => new["tmpl"].ports = {r.port} \union r.extras
    /\ r.extras # None /\ old["nat"] # None =>
         new["nat"] = [on |-> old["nat"].on, primary |-> r.port, extras |-> r.extras]

Planned == ~Idle => job.req \in Requests /\ Plan(job.req, job.old, job.new)

(***************************************************************************)
(* Written: as long as the change goes forward, a file whose turn is over  *)
(* has its new content; the desired state may be lost on the way, but not  *)
(* past the point where it is read back.                                   *)
(***************************************************************************)
Written ==
    job.step \in Forward =>
        /\ \A f \in {"conf", "tmpl"} : f \notin job.todo => file[f] = job.new[f]
        /\ "nat" \in job.todo => job.old["nat"] # None
        /\ job.req.extras # None /\ "nat" \notin job.todo =>
             file["nat"] = IF job.old["nat"] = None THEN None ELSE job.new["nat"]
        /\ job.step = "apply" =>
             job.req.extras # None /\ "nat" \notin job.todo /\ job.old["nat"] # None
        /\ job.step \in {"invalidate", "signal"} =>
             /\ job.todo = {}
             /\ DnsProvided(job.req) => ReadDNSState = job.new["dns"]

(***************************************************************************)
(* Cached: a profile, or a build, that no change has met is the template's *)
(* of now, or of the time before the change at work; past the              *)
(* invalidation there is none.                                             *)
(***************************************************************************)
Cached ==
    ~hist.lost => \A cn \in CNs : ~hist.raced[cn] =>
        /\ build[cn] # None => Idle /\ build[cn] = file["tmpl"]
        /\ profile[cn] # None /\ Idle => profile[cn] = file["tmpl"]
        /\ profile[cn] # None /\ ~Idle =>
             /\ job.step \notin {"signal", "rollback", "resignal"}
             /\ profile[cn] = job.old["tmpl"]

(***************************************************************************)
(* Pushed: the resolvers of the last change that named both are those of   *)
(* server.conf and those of the desired state, from which server.conf is   *)
(* made anew; during a change, those of the snapshot.                      *)
(***************************************************************************)
Pushes(g, dns) ==
    /\ g["conf"].dns = dns
    /\ g["dns"] # None
    /\ g["dns"] = [dns1 |-> dns[1], dns2 |-> dns[2]]
    /\ dns[1] \notin {Empty, None} /\ dns[2] \notin {Empty, None}
    /\ dns = <<dns[1], dns[2]>>

Pushed ==
    ~hist.lost /\ hist.dns # None =>
        Pushes(IF Idle THEN file ELSE job.old, hist.dns)

(***************************************************************************)
(* Led: the redirects.  A change that has failed is on the record, and one *)
(* that names the extra ports and goes forward has set the redirects once  *)
(* the NAT configuration is written and applied.                           *)
(***************************************************************************)
Redirected(nat) ==
    nat # None /\ nat.on => redirects = nat.extras \X {nat.primary}

Led ==
    hist.clean =>
        /\ job.step \notin {"rollback", "resignal", "failed"}
        /\ Idle => ListedPortsLeadToServer
        /\ job.step \in Forward \ {"apply"} /\ job.req.extras # None
             /\ "nat" \notin job.todo => Redirected(file["nat"])

(***************************************************************************)
(* Typed: TypeOK, and the same of the two sets of files a change holds.    *)
(***************************************************************************)
Contents(g) ==
    /\ g["conf"] \in Conf /\ g["tmpl"] \in Tmpl
    /\ g["dns"] \in [dns1 : Resolvers \union {Empty},
                     dns2 : Resolvers \union {Empty}] \union {None}
    /\ g["v6"] \in BOOLEAN \union {None}
    /\ g["ports"] \in (SUBSET Ports) \union {None}
    /\ g["nat"] \in NatConf \union {None}

Typed ==
    /\ TypeOK
    /\ ~Idle => Contents(job.old) /\ Contents(job.new)

ConfigInv == Shaped /\ Undo /\ Planned /\ Written /\ Cached /\ Pushed /\ Led /\ Typed

------------------------------------------------------------------------------
(***************************************************************************)
(* What the actions do, in terms of the fields the invariant reads.        *)
(***************************************************************************)
SameFiles == file' = file /\ redirects' = redirects /\ profile' = profile

SamePlan ==
    /\ job'.req = job.req /\ job'.new = job.new /\ job'.saved = job.saved
    /\ job'.old = job.old

\* Only what has gone wrong is added to the history.
SameHist ==
    /\ hist'.lost = hist.lost /\ hist'.dns = hist.dns /\ hist'.raced = hist.raced
    /\ hist'.clean => hist.clean
    /\ hist.unnamed => hist'.unnamed

\* Goto changes the step of the job and nothing else.
LEMMA GotoStep ==
    ASSUME JobFields, NEW s, Goto(s)
    PROVE  /\ JobFields' /\ SamePlan
           /\ job'.step = s /\ job'.todo = job.todo /\ job'.lost = job.lost
BY DEF JobFields, Goto, SamePlan

\* Writing the next file takes it off the list.
LEMMA AfterWriteStep ==
    ASSUME JobFields, NEW f, AfterWrite(f)
    PROVE  /\ JobFields' /\ SamePlan
           /\ f \in job.todo /\ job'.todo = job.todo \ {f} /\ job'.lost = job.lost
           /\ job'.step = IF f = "nat" /\ job.new["nat"].on THEN "apply" ELSE "write"
BY DEF JobFields, AfterWrite, IsNext, SamePlan

\* NoJob is a job, and idle.
LEMMA NoJobIsIdle ==
    ASSUME job' = NoJob PROVE JobFields' /\ job'.step = "idle"
BY DEF JobFields, NoJob

\* The three ways in which the history changes on a failure.
LEMMA HistStays ==
    ASSUME HistFields, hist' = hist PROVE HistFields' /\ SameHist /\ hist'.clean = hist.clean
BY DEF HistFields, SameHist

LEMMA HistUnclean ==
    ASSUME HistFields, hist' = [hist EXCEPT !.clean = FALSE]
    PROVE  HistFields' /\ SameHist /\ ~hist'.clean
BY DEF HistFields, SameHist

LEMMA HistUnnamed ==
    ASSUME HistFields, NEW r, hist' = [hist EXCEPT !.unnamed = @ \/ r.extras = None]
    PROVE  HistFields' /\ SameHist
BY DEF HistFields, SameHist

LEMMA HistDeaf ==
    ASSUME HistFields, hist' = [hist EXCEPT !.deaf = @ \/ job.started]
    PROVE  HistFields' /\ SameHist
BY DEF HistFields, SameHist

\* The signals leave the record of the process whole.
LEMMA SendKeepsFields ==
    ASSUME VpnFields, NEW s, Send(s) PROVE VpnFields' /\ vpn'.conf = vpn.conf
BY DEF VpnFields, Send

LEMMA EndKeepsFields ==
    ASSUME VpnFields, vpn' = [vpn EXCEPT !.up = FALSE, !.signal = "none"]
    PROVE  VpnFields' /\ vpn'.conf = vpn.conf
BY DEF VpnFields

(***************************************************************************)
(* The shapes of a step.                                                   *)
(***************************************************************************)

\* A step of the panel's request, of OpenVPN or of the agent that does not
\* touch the change; OpenVPN may read server.conf.
Quiet ==
    /\ SameFiles /\ build' = build
    /\ SamePlan /\ job'.todo = job.todo /\ job'.lost = job.lost /\ job'.step = job.step
    /\ SameHist
    /\ vpn'.conf \in {vpn.conf, file["conf"]}

\* The change goes to another step.
Moved ==
    /\ SameFiles /\ build' = build
    /\ SamePlan /\ job'.todo = job.todo /\ job'.lost = job.lost
    /\ SameHist
    /\ vpn'.conf = vpn.conf
    /\ \/ job.step = "write" /\ job'.step = "restore"
       \/ /\ job.step = "write" /\ job'.step = "invalidate"
          /\ job.todo = {}
          /\ DnsProvided(job.req) => ReadDNSState = job.new["dns"]
       \/ job.step = "signal" /\ job'.step = "rollback" /\ ~hist'.clean
       \/ job.step = "resignal" /\ job'.step = "failed"

Begun(r, failed) ==
    /\ SameFiles /\ build' = build /\ vpn' = vpn
    /\ Idle /\ job'.step = "write"
    /\ job'.req = r
    /\ job'.new = [f \in Files |-> NewFile(r, f)]
    /\ job'.saved = [f \in Touched(r) \ failed |-> file[f]]
    /\ job'.todo = Writes(r)
    /\ job'.old = file
    /\ job'.lost = failed
    /\ hist'.dns = hist.dns
    /\ hist'.clean => hist.clean
    /\ hist.unnamed => hist'.unnamed
    /\ hist.lost \/ failed # {} => hist'.lost
    /\ \A cn \in CNs : hist.raced[cn] \/ build[cn] # None => hist'.raced[cn]

Wrote(f) ==
    /\ job.step = "write"
    /\ f \in job.todo
    /\ file' = [file EXCEPT ![f] = job.new[f]]
    /\ job'.step = IF f = "nat" /\ job.new["nat"].on THEN "apply" ELSE "write"
    /\ SamePlan /\ job'.todo = job.todo \ {f} /\ job'.lost = job.lost
    /\ redirects' = redirects /\ profile' = profile /\ build' = build /\ vpn' = vpn
    /\ SameHist

Dropped(f) ==
    /\ job.step = "write" /\ job'.step = "write"
    /\ f \in {"dns", "v6", "ports"}
    /\ SamePlan /\ job'.todo = job.todo \ {f} /\ job'.lost = job.lost
    /\ SameFiles /\ build' = build /\ vpn' = vpn
    /\ SameHist

Clipped(f) ==
    /\ job.step = "write" /\ job'.step = "write"
    /\ f \in {"dns", "v6"} /\ f \in job.todo
    /\ \E c \in Cut(f) : file' = [file EXCEPT ![f] = c]
    /\ SamePlan /\ job'.todo = job.todo \ {f} /\ job'.lost = job.lost
    /\ redirects' = redirects /\ profile' = profile /\ build' = build /\ vpn' = vpn
    /\ SameHist

NatDone ==
    /\ job.step = "apply" /\ job'.step = "write"
    /\ redirects' = file["nat"].extras \X {file["nat"].primary}
    /\ SamePlan /\ job'.todo = job.todo /\ job'.lost = job.lost
    /\ file' = file /\ profile' = profile /\ build' = build /\ vpn' = vpn
    /\ SameHist

NatUndone ==
    /\ job.step = "apply" /\ job'.step = "restore"
    /\ redirects' \subseteq redirects \union file["nat"].extras \X {file["nat"].primary}
    /\ file' = [file EXCEPT !["nat"] = job.old["nat"]]
    /\ SamePlan /\ job'.todo = job.todo /\ job'.lost = job.lost
    /\ profile' = profile /\ build' = build /\ vpn' = vpn
    /\ SameHist /\ ~hist'.clean

Invalidated ==
    /\ job.step = "invalidate" /\ job'.step = "signal"
    /\ profile' = [c \in CNs |-> None]
    /\ SamePlan /\ job'.todo = job.todo /\ job'.lost = job.lost
    /\ file' = file /\ redirects' = redirects /\ build' = build /\ vpn' = vpn
    /\ hist'.lost = hist.lost /\ hist'.dns = hist.dns
    /\ hist'.clean = hist.clean /\ hist'.unnamed = hist.unnamed
    /\ \A cn \in CNs : build[cn] # None => hist'.raced[cn]

Succeeded ==
    /\ job.step = "signal" /\ job'.step = "idle"
    /\ SameFiles /\ build' = build /\ vpn'.conf = vpn.conf
    /\ hist'.lost = hist.lost /\ hist'.raced = hist.raced /\ hist'.clean = hist.clean
    /\ hist.unnamed \/ job.req.extras = None => hist'.unnamed
    /\ hist'.dns = IF {job.req.dns1, job.req.dns2} \intersect {Empty, None} = {}
                     THEN <<job.req.dns1, job.req.dns2>>
                   ELSE IF DnsProvided(job.req) THEN None ELSE hist.dns

PutBack(lost) ==
    /\ job.step \in {"restore", "rollback"}
    /\ job'.step \in {"resignal", "failed"}
    /\ job'.step = "resignal" => job.step = "rollback"
    /\ file' = [f \in Files |-> IF f \in DOMAIN job.saved \ lost THEN job.saved[f]
                                ELSE file[f]]
    /\ SamePlan /\ job'.todo = job.todo /\ job'.lost = job.lost \union lost
    /\ redirects' = redirects /\ profile' = profile /\ build' = build /\ vpn' = vpn
    /\ hist'.dns = hist.dns /\ hist'.raced = hist.raced /\ ~hist'.clean
    /\ hist.unnamed => hist'.unnamed
    /\ hist.lost \/ lost # {} => hist'.lost

Failed ==
    /\ job.step = "failed" /\ job'.step = "idle"
    /\ SameFiles /\ build' = build /\ vpn' = vpn
    /\ SameHist

TemplateRead(cn) ==
    /\ build' = [build EXCEPT ![cn] = file["tmpl"]]
    /\ profile[cn] = None
    /\ SameFiles /\ job' = job /\ vpn' = vpn
    /\ hist'.lost = hist.lost /\ hist'.dns = hist.dns
    /\ hist'.clean = hist.clean /\ hist'.unnamed = hist.unnamed
    /\ hist'.raced = [hist.raced EXCEPT ![cn] = job # NoJob]

ProfileWritten(cn) ==
    /\ build[cn] # None
    /\ profile' = [profile EXCEPT ![cn] = build[cn]]
    /\ build' = [build EXCEPT ![cn] = None]
    /\ file' = file /\ redirects' = redirects /\ job' = job /\ vpn' = vpn /\ hist' = hist

Stopped ==
    /\ job'.step = "idle"
    /\ SameFiles
    /\ build' = [c \in CNs |-> None]
    /\ vpn'.conf = vpn.conf
    /\ hist'.dns = hist.dns /\ hist'.raced = hist.raced /\ hist'.unnamed = hist.unnamed
    /\ hist.lost \/ ~Idle => hist'.lost
    /\ hist'.clean => hist.clean /\ Idle

Regenerated ==
    /\ Idle /\ job' = job
    /\ file' = [file EXCEPT !["conf"] = FreshServerConf]
    /\ redirects' = redirects /\ profile' = profile /\ build' = build /\ vpn' = vpn
    /\ SameHist
    /\ hist'.clean => file["conf"].port = DefPort

Shape ==
    \/ Quiet \/ Moved
    \/ \E r \in Requests : \E failed \in SUBSET Files : Begun(r, failed)
    \/ \E f \in Files : Wrote(f) \/ Dropped(f) \/ Clipped(f)
    \/ NatDone \/ NatUndone \/ Invalidated \/ Succeeded
    \/ \E lost \in SUBSET Files : PutBack(lost)
    \/ Failed
    \/ \E cn \in CNs : TemplateRead(cn) \/ ProfileWritten(cn)
    \/ Stopped \/ Regenerated

------------------------------------------------------------------------------
(***************************************************************************)
(* Every action has one of the shapes, and keeps the records whole.        *)
(***************************************************************************)

\* The records that a job at work is made of, after a step that keeps it.
LEMMA ShapedNext ==
    ASSUME Shaped, JobFields', HistFields', VpnFields', IsFiles(file)',
           profile' = [c \in CNs |-> profile'[c]], build' = [c \in CNs |-> build'[c]],
           agent' = agent, ~Idle,
           job'.step \in Steps, job'.step # "idle",
           job'.req = job.req, job'.old = job.old, job'.new = job.new
    PROVE  Shaped'
BY DEF Shaped, Idle, IsFiles

LEMMA ShapedIdle ==
    ASSUME Shaped, JobFields', HistFields', VpnFields', IsFiles(file)',
           profile' = [c \in CNs |-> profile'[c]], build' = [c \in CNs |-> build'[c]],
           job' = NoJob
    PROVE  Shaped'
<1>1. job'.step = "idle"  BY NoJobIsIdle
<1> QED  BY <1>1 DEF Shaped, Idle, IsFiles, Steps

\* Requests that change nothing.
LEMMA RejectShape ==
    ASSUME Shaped, NEW r \in Requests, Reject(r) PROVE Quiet /\ Shaped'
<1>1. HistFields' /\ SameHist
  BY HistStays DEF Reject, Shaped
<1> QED  BY <1>1 DEF Reject, Shaped, Quiet, SameFiles, SamePlan, files, JobFields, VpnFields,
                    IsFiles, Idle

LEMMA NoOpShape ==
    ASSUME Shaped, NEW r \in Requests, NoOp(r) PROVE Quiet /\ Shaped'
<1>1. HistFields' /\ SameHist
  BY HistUnnamed DEF NoOp, Shaped
<1> QED  BY <1>1 DEF NoOp, Shaped, Quiet, SameFiles, SamePlan, files, JobFields, VpnFields,
                    IsFiles, Idle

\* The beginning of a change.
LEMMA BeginShape ==
    ASSUME Shaped, NEW r \in Requests, NEW failed \in SUBSET Files, Begin(r, failed)
    PROVE  Begun(r, failed) /\ Shaped'
<1>1. /\ JobFields' /\ job'.step = "write" /\ job'.req = r
      /\ job'.new = [f \in Files |-> NewFile(r, f)]
      /\ job'.saved = [f \in Touched(r) \ failed |-> file[f]]
      /\ job'.todo = Writes(r) /\ job'.old = file /\ job'.lost = failed
  BY DEF Begin, JobFields
<1>2. /\ HistFields'
      /\ hist'.dns = hist.dns
      /\ hist'.clean => hist.clean
      /\ hist.unnamed => hist'.unnamed
      /\ hist.lost \/ failed # {} => hist'.lost
      /\ \A cn \in CNs : hist.raced[cn] \/ build[cn] # None => hist'.raced[cn]
  BY DEF Begin, HistFields, Shaped
<1>3. SameFiles /\ build' = build /\ vpn' = vpn /\ agent /\ agent' = agent /\ Idle
  BY DEF Begin, SameFiles, files, Idle, NoJob
<1>4. IsFiles(job.new)'
  BY <1>1 DEF IsFiles
<1>5. Shaped'
  BY <1>1, <1>2, <1>3, <1>4 DEF Shaped, SameFiles, Idle, IsFiles, Steps, VpnFields
<1> QED  BY <1>1, <1>2, <1>3, <1>5 DEF Begun

\* The writes.
LEMMA WriteFileShape ==
    ASSUME Shaped, NEW f \in Files, WriteFile(f) PROVE Wrote(f) /\ Shaped'
<1>1. /\ JobFields' /\ SamePlan /\ f \in job.todo
      /\ job'.todo = job.todo \ {f} /\ job'.lost = job.lost
      /\ job'.step = IF f = "nat" /\ job.new["nat"].on THEN "apply" ELSE "write"
  BY AfterWriteStep DEF WriteFile, Shaped
<1>2. HistFields' /\ SameHist
  BY HistStays DEF WriteFile, Shaped
<1>3. job.step = "write" /\ file' = [file EXCEPT ![f] = job.new[f]]
  BY DEF WriteFile
<1>4. /\ redirects' = redirects /\ profile' = profile /\ build' = build /\ vpn' = vpn
      /\ agent' = agent
  BY DEF WriteFile
<1>5. job'.step \in Steps /\ job'.step # "idle" /\ ~Idle
  BY <1>1, <1>3 DEF Steps, Idle
<1>6. IsFiles(file)'
  BY <1>3 DEF IsFiles, Shaped
<1>7. Shaped'
  BY <1>1, <1>2, <1>4, <1>5, <1>6, ShapedNext DEF Shaped, SamePlan, VpnFields
<1> QED  BY <1>1, <1>2, <1>3, <1>4, <1>7 DEF Wrote

LEMMA WriteFailsShape ==
    ASSUME Shaped, NEW f \in Files, WriteFails(f) PROVE Moved /\ Shaped'
<1>1. /\ JobFields' /\ SamePlan /\ job'.step = "restore"
      /\ job'.todo = job.todo /\ job'.lost = job.lost
  BY GotoStep DEF WriteFails, Shaped
<1>2. HistFields' /\ SameHist
  BY HistUnclean DEF WriteFails, Shaped
<1>3. job.step = "write" /\ SameFiles /\ build' = build /\ vpn' = vpn /\ agent' = agent
  BY DEF WriteFails, SameFiles, files
<1>4. Shaped'
  BY <1>1, <1>2, <1>3, ShapedNext DEF Shaped, SamePlan, VpnFields, SameFiles, Steps, Idle, IsFiles
<1> QED  BY <1>1, <1>2, <1>3, <1>4 DEF Moved

LEMMA WriteIsLostShape ==
    ASSUME Shaped, NEW f \in Files, WriteIsLost(f) PROVE Dropped(f) /\ Shaped'
<1>1. /\ JobFields' /\ SamePlan
      /\ job'.todo = job.todo \ {f} /\ job'.lost = job.lost
      /\ job'.step = IF f = "nat" /\ job.new["nat"].on THEN "apply" ELSE "write"
  BY AfterWriteStep DEF WriteIsLost, Shaped
<1>2. HistFields' /\ SameHist
  BY HistUnclean DEF WriteIsLost, Shaped
<1>3. /\ job.step = "write" /\ SameFiles /\ build' = build /\ vpn' = vpn /\ agent' = agent
      /\ f \in {"dns", "v6", "ports"}
  BY DEF WriteIsLost, SameFiles, files
<1>4. job'.step = "write"
  BY <1>1, <1>3
<1>5. Shaped'
  BY <1>1, <1>2, <1>3, <1>4, ShapedNext
     DEF Shaped, SamePlan, VpnFields, SameFiles, Steps, Idle, IsFiles
<1> QED  BY <1>1, <1>2, <1>3, <1>4, <1>5 DEF Dropped

LEMMA WriteIsCutShape ==
    ASSUME Shaped, NEW f \in Files, WriteIsCut(f) PROVE Clipped(f) /\ Shaped'
<1>1. /\ JobFields' /\ SamePlan /\ f \in job.todo
      /\ job'.todo = job.todo \ {f} /\ job'.lost = job.lost
      /\ job'.step = IF f = "nat" /\ job.new["nat"].on THEN "apply" ELSE "write"
  BY AfterWriteStep DEF WriteIsCut, Shaped
<1>2. HistFields' /\ SameHist
  BY HistUnclean DEF WriteIsCut, Shaped
<1>3. /\ job.step = "write" /\ f \in {"dns", "v6"}
      /\ redirects' = redirects /\ profile' = profile /\ build' = build /\ vpn' = vpn
      /\ agent' = agent
  BY DEF WriteIsCut
<1>4. PICK c \in Cut(f) : file' = [file EXCEPT ![f] = c]
  BY DEF WriteIsCut
<1>5. job'.step = "write"
  BY <1>1, <1>3
<1>6. IsFiles(file)'
  BY <1>4 DEF IsFiles, Shaped
<1>7. Shaped'
  BY <1>1, <1>2, <1>3, <1>5, <1>6, ShapedNext DEF Shaped, SamePlan, VpnFields, Steps, Idle
<1> QED  BY <1>1, <1>2, <1>3, <1>4, <1>5, <1>7 DEF Clipped

\* A file that was cut short is the one file that changes.
LEMMA ClippedFile ==
    ASSUME Shaped, NEW f \in Files, Clipped(f)
    PROVE  file'[f] \in Cut(f) /\ \A g \in Files : g # f => file'[g] = file[g]
<1>1. PICK c \in Cut(f) : file' = [file EXCEPT ![f] = c]
  BY DEF Clipped
<1> QED  BY <1>1 DEF Shaped, IsFiles

\* The NAT rules.
LEMMA NatApplyShape ==
    ASSUME Shaped, NatApply PROVE NatDone /\ Shaped'
<1>1. /\ JobFields' /\ SamePlan /\ job'.step = "write"
      /\ job'.todo = job.todo /\ job'.lost = job.lost
  BY GotoStep DEF NatApply, Shaped
<1>2. HistFields' /\ SameHist
  BY HistStays DEF NatApply, Shaped
<1>3. /\ job.step = "apply"
      /\ redirects' = file["nat"].extras \X {file["nat"].primary}
      /\ file' = file /\ profile' = profile /\ build' = build /\ vpn' = vpn /\ agent' = agent
  BY DEF NatApply
<1>4. Shaped'
  BY <1>1, <1>2, <1>3, ShapedNext DEF Shaped, SamePlan, VpnFields, Steps, Idle, IsFiles
<1> QED  BY <1>1, <1>2, <1>3, <1>4 DEF NatDone

LEMMA NatApplyFailsShape ==
    ASSUME Shaped, NatApplyFails PROVE NatUndone /\ Shaped'
<1>1. /\ JobFields' /\ SamePlan /\ job'.step = "restore"
      /\ job'.todo = job.todo /\ job'.lost = job.lost
  BY GotoStep DEF NatApplyFails, Shaped
<1>2. HistFields' /\ SameHist /\ ~hist'.clean
  BY HistUnclean DEF NatApplyFails, Shaped
<1>3. /\ job.step = "apply"
      /\ file' = [file EXCEPT !["nat"] = job.old["nat"]]
      /\ profile' = profile /\ build' = build /\ vpn' = vpn /\ agent' = agent
  BY DEF NatApplyFails
<1> DEFINE rules == file["nat"].extras \X {file["nat"].primary}
<1>a. redirects' \in (SUBSET redirects) \union (SUBSET rules)
  BY DEF NatApplyFails
<1> HIDE DEF rules
<1>b. redirects' \subseteq redirects \union rules
  BY <1>a
<1>4. redirects' \subseteq redirects \union file["nat"].extras \X {file["nat"].primary}
  BY <1>b DEF rules
<1>5. IsFiles(file)'
  BY <1>3 DEF IsFiles, Shaped
<1>6. Shaped'
  BY <1>1, <1>2, <1>3, <1>5, ShapedNext DEF Shaped, SamePlan, VpnFields, Steps, Idle
<1> QED  BY <1>1, <1>2, <1>3, <1>4, <1>6 DEF NatUndone

\* The desired state is read back.
LEMMA ReadBackShape ==
    ASSUME Shaped, ReadBack PROVE Moved /\ Shaped'
<1> DEFINE good == /\ DnsProvided(job.req) => ReadDNSState = job.new["dns"]
                   /\ job.req.extras # None => ReadPortsState = job.req.extras
<1>1. /\ JobFields' /\ SamePlan /\ job'.step = IF good THEN "invalidate" ELSE "restore"
      /\ job'.todo = job.todo /\ job'.lost = job.lost
  BY GotoStep DEF ReadBack, Shaped
<1>2. HistFields' /\ SameHist
  BY HistStays DEF ReadBack, Shaped
<1>3. /\ job.step = "write" /\ job.todo = {}
      /\ SameFiles /\ build' = build /\ vpn' = vpn /\ agent' = agent
  BY DEF ReadBack, SameFiles, files
<1>4. \/ job'.step = "restore"
      \/ job'.step = "invalidate" /\ (DnsProvided(job.req) => ReadDNSState = job.new["dns"])
  BY <1>1
<1> HIDE DEF good
<1>5. Shaped'
  BY <1>1, <1>2, <1>3, <1>4, ShapedNext
     DEF Shaped, SamePlan, VpnFields, SameFiles, Steps, Idle, IsFiles
<1> QED  BY <1>1, <1>2, <1>3, <1>4, <1>5 DEF Moved

\* The cached profiles are removed.
LEMMA InvalidateShape ==
    ASSUME Shaped, Invalidate PROVE Invalidated /\ Shaped'
<1>1. /\ JobFields' /\ SamePlan /\ job'.step = "signal"
      /\ job'.todo = job.todo /\ job'.lost = job.lost
  BY GotoStep DEF Invalidate, Shaped
<1>2. /\ HistFields'
      /\ hist'.lost = hist.lost /\ hist'.dns = hist.dns
      /\ hist'.clean = hist.clean /\ hist'.unnamed = hist.unnamed
      /\ \A cn \in CNs : build[cn] # None => hist'.raced[cn]
  BY DEF Invalidate, Shaped, HistFields
<1>3. /\ job.step = "invalidate" /\ profile' = [c \in CNs |-> None]
      /\ file' = file /\ redirects' = redirects /\ build' = build /\ vpn' = vpn
      /\ agent' = agent
  BY DEF Invalidate
<1>4. Shaped'
  BY <1>1, <1>2, <1>3, ShapedNext DEF Shaped, SamePlan, VpnFields, Steps, Idle, IsFiles
<1> QED  BY <1>1, <1>2, <1>3, <1>4 DEF Invalidated

\* The change succeeds.
LEMMA SignalVpnShape ==
    ASSUME Shaped, SignalVpn PROVE Succeeded /\ Shaped'
<1>1. job.step = "signal" /\ SameFiles /\ build' = build /\ agent' = agent /\ job' = NoJob
  BY DEF SignalVpn, SameFiles, files, Applied
<1>2. JobFields' /\ job'.step = "idle"
  BY <1>1, NoJobIsIdle
<1>3. VpnFields' /\ vpn'.conf = vpn.conf
  <2>1. VpnFields  BY DEF Shaped
  <2>2. vpn' = vpn \/ \E s \in Signals : Send(s)
    BY DEF SignalVpn
  <2> QED  BY <2>1, <2>2, SendKeepsFields DEF VpnFields
<1> DEFINE named == {job.req.dns1, job.req.dns2} \intersect {Empty, None} = {}
           dns == IF named THEN <<job.req.dns1, job.req.dns2>>
                  ELSE IF DnsProvided(job.req) THEN None ELSE hist.dns
<1>4. hist' = [hist EXCEPT !.unnamed = @ \/ job.req.extras = None, !.dns = dns]
  BY DEF SignalVpn, Applied
<1>5. hist'.dns = dns
  BY <1>4 DEF Shaped, HistFields
<1> HIDE DEF dns, named
<1>6. /\ HistFields'
      /\ hist'.lost = hist.lost /\ hist'.raced = hist.raced /\ hist'.clean = hist.clean
      /\ hist.unnamed \/ job.req.extras = None => hist'.unnamed
  BY <1>4 DEF Shaped, HistFields
<1>7. Shaped'
  BY <1>1, <1>2, <1>3, <1>6, ShapedIdle DEF Shaped, SameFiles, IsFiles
<1> QED  BY <1>1, <1>2, <1>3, <1>5, <1>6, <1>7 DEF Succeeded, named, dns

\* A signal that cannot be sent.
LEMMA SignalFailsShape ==
    ASSUME Shaped, SignalFails PROVE Moved /\ Shaped'
<1>1. /\ JobFields' /\ SamePlan /\ job'.step = "rollback"
      /\ job'.todo = job.todo /\ job'.lost = job.lost
  BY GotoStep DEF SignalFails, Shaped
<1>2. HistFields' /\ SameHist /\ ~hist'.clean
  BY HistUnclean DEF SignalFails, Shaped
<1>3. job.step = "signal" /\ SameFiles /\ build' = build /\ vpn' = vpn /\ agent' = agent
  BY DEF SignalFails, SameFiles, files
<1>4. Shaped'
  BY <1>1, <1>2, <1>3, ShapedNext DEF Shaped, SamePlan, VpnFields, SameFiles, Steps, Idle, IsFiles
<1> QED  BY <1>1, <1>2, <1>3, <1>4 DEF Moved

\* The snapshots are put back.
LEMMA RestoreShape ==
    ASSUME Shaped, NEW lost \in SUBSET Files, RestoreSnapshots(lost)
    PROVE  PutBack(lost) /\ Shaped'
<1>1. /\ job.step \in {"restore", "rollback"}
      /\ redirects' = redirects /\ profile' = profile /\ build' = build /\ vpn' = vpn
      /\ agent' = agent
      /\ Restored(lost)
  BY DEF RestoreSnapshots
<1>2. file' = [f \in Files |-> IF f \in DOMAIN job.saved \ lost THEN job.saved[f] ELSE file[f]]
  BY <1>1 DEF Restored
<1>3. /\ JobFields' /\ SamePlan /\ job'.todo = job.todo
      /\ job'.lost = job.lost \union lost
      /\ job'.step = IF job.step = "restore" THEN "failed" ELSE "resignal"
  BY <1>1 DEF Restored, Shaped, JobFields, SamePlan
<1>4. hist' = [hist EXCEPT !.clean = FALSE, !.lost = @ \/ lost # {},
                           !.deaf = @ \/ (job.step = "restore" /\ job.started)]
  BY <1>1 DEF Restored
<1>5. /\ HistFields'
      /\ hist'.dns = hist.dns /\ hist'.raced = hist.raced /\ ~hist'.clean
      /\ hist.unnamed => hist'.unnamed
      /\ hist.lost \/ lost # {} => hist'.lost
  BY <1>4 DEF Shaped, HistFields
<1>6. /\ job'.step \in {"resignal", "failed"}
      /\ job'.step = "resignal" => job.step = "rollback"
  BY <1>1, <1>3
<1>7. IsFiles(file)'
  BY <1>2 DEF IsFiles
<1>8. Shaped'
  BY <1>1, <1>3, <1>5, <1>6, <1>7, ShapedNext DEF Shaped, SamePlan, VpnFields, Steps, Idle
<1> QED  BY <1>1, <1>2, <1>3, <1>5, <1>6, <1>8 DEF PutBack

\* OpenVPN is told once more, or cannot be told.
LEMMA ResignalShape ==
    ASSUME Shaped, Resignal \/ ResignalFails PROVE Moved /\ Shaped'
<1>1. /\ JobFields' /\ SamePlan /\ job'.step = "failed"
      /\ job'.todo = job.todo /\ job'.lost = job.lost
  BY GotoStep DEF Resignal, ResignalFails, Shaped
<1>2. HistFields' /\ SameHist
  BY HistStays, HistDeaf DEF Resignal, ResignalFails, Shaped
<1>3. job.step = "resignal" /\ SameFiles /\ build' = build /\ agent' = agent
  BY DEF Resignal, ResignalFails, SameFiles, files
<1>4. VpnFields' /\ vpn'.conf = vpn.conf
  <2>1. VpnFields  BY DEF Shaped
  <2>2. vpn' = vpn \/ \E s \in {"term", "hup"} : Send(s)
    BY DEF Resignal, ResignalFails
  <2> QED  BY <2>1, <2>2, SendKeepsFields DEF VpnFields
<1>5. Shaped'
  BY <1>1, <1>2, <1>3, <1>4, ShapedNext DEF Shaped, SamePlan, SameFiles, Steps, Idle, IsFiles
<1> QED  BY <1>1, <1>2, <1>3, <1>4, <1>5 DEF Moved

\* The failure is answered.
LEMMA FailShape ==
    ASSUME Shaped, Fail PROVE Failed /\ Shaped'
<1>1. /\ job.step = "failed" /\ SameFiles /\ build' = build /\ vpn' = vpn
      /\ job' = NoJob
  BY DEF Fail, SameFiles, files
<1>2. HistFields' /\ SameHist
  BY HistStays DEF Fail, Shaped
<1>3. JobFields' /\ job'.step = "idle"
  BY <1>1, NoJobIsIdle
<1>4. Shaped'
  BY <1>1, <1>2, <1>3, ShapedIdle DEF Shaped, SameFiles, IsFiles, VpnFields
<1> QED  BY <1>1, <1>2, <1>3, <1>4 DEF Failed

\* The profiles.
LEMMA ReadTemplateShape ==
    ASSUME Shaped, NEW cn \in CNs, ReadTemplate(cn) PROVE TemplateRead(cn) /\ Shaped'
<1>1. /\ build' = [build EXCEPT ![cn] = file["tmpl"]] /\ profile[cn] = None
      /\ SameFiles /\ job' = job /\ vpn' = vpn /\ agent' = agent
  BY DEF ReadTemplate, SameFiles, files
<1>2. hist' = [hist EXCEPT !.raced = [@ EXCEPT ![cn] = job # NoJob]]
  BY DEF ReadTemplate
<1>3. /\ HistFields'
      /\ hist'.lost = hist.lost /\ hist'.dns = hist.dns
      /\ hist'.clean = hist.clean /\ hist'.unnamed = hist.unnamed
      /\ hist'.raced = [hist.raced EXCEPT ![cn] = job # NoJob]
  BY <1>2 DEF Shaped, HistFields
<1>4. Shaped'
  BY <1>1, <1>3 DEF Shaped, SameFiles, IsFiles, VpnFields, JobFields, Idle
<1> QED  BY <1>1, <1>3, <1>4 DEF TemplateRead

LEMMA WriteProfileShape ==
    ASSUME Shaped, NEW cn \in CNs, WriteProfile(cn) PROVE ProfileWritten(cn) /\ Shaped'
<1>1. ProfileWritten(cn) /\ agent' = agent
  BY DEF WriteProfile, ProfileWritten
<1>2. HistFields'
  BY <1>1, HistStays DEF ProfileWritten, Shaped
<1> QED  BY <1>1, <1>2 DEF Shaped, ProfileWritten, IsFiles, VpnFields, JobFields, Idle

\* OpenVPN.
LEMMA VpnDownShape ==
    ASSUME Shaped, VpnEnds \/ VpnDies PROVE Quiet /\ Shaped'
<1>1. SameFiles /\ build' = build /\ job' = job /\ agent' = agent
  BY DEF VpnEnds, VpnDies, SameFiles, files
<1>2. HistFields' /\ SameHist
  BY HistStays DEF VpnEnds, VpnDies, Shaped
<1>3. VpnFields' /\ vpn'.conf = vpn.conf
  BY EndKeepsFields DEF VpnEnds, VpnDies, Shaped
<1> QED  BY <1>1, <1>2, <1>3 DEF Shaped, SameFiles, SamePlan, IsFiles, JobFields, Idle, Quiet

LEMMA ReadsConfShape ==
    ASSUME Shaped, ReadsConf PROVE Quiet /\ Shaped'
<1>1. SameFiles /\ build' = build /\ agent' = agent
  BY DEF ReadsConf, SameFiles, files
<1>2. HistFields' /\ SameHist
  BY HistStays DEF ReadsConf, Shaped
<1>3. VpnFields' /\ vpn'.conf = file["conf"]
  BY DEF ReadsConf, VpnFields
<1>4. job' = [job EXCEPT !.started = job # NoJob]
  BY DEF ReadsConf
<1>5. /\ JobFields' /\ SamePlan
      /\ job'.todo = job.todo /\ job'.lost = job.lost /\ job'.step = job.step
  BY <1>4 DEF Shaped, JobFields, SamePlan
<1>6. ASSUME job = NoJob PROVE job' = NoJob
  <2>1. job' = [NoJob EXCEPT !.started = FALSE]
    BY <1>4, <1>6
  <2> QED  BY <2>1 DEF NoJob
<1>7. Shaped'
  BY <1>1, <1>2, <1>3, <1>5, <1>6 DEF Shaped, SameFiles, SamePlan, IsFiles, Idle
<1> QED  BY <1>1, <1>2, <1>3, <1>5, <1>7 DEF Quiet

\* The agent.
LEMMA AgentStopsShape ==
    ASSUME Shaped, AgentStops PROVE Stopped /\ Shaped'
<1>1. /\ SameFiles /\ job' = NoJob /\ build' = [c \in CNs |-> None]
  BY DEF AgentStops, SameFiles, files
<1>2. JobFields' /\ job'.step = "idle"
  BY <1>1, NoJobIsIdle
<1>3. VpnFields' /\ vpn'.conf = vpn.conf
  BY EndKeepsFields DEF AgentStops, Shaped
<1>4. hist' = [hist EXCEPT !.clean = @ /\ job = NoJob, !.lost = @ \/ job # NoJob]
  BY DEF AgentStops
<1>5. job = NoJob <=> Idle
  BY DEF Shaped, Idle, NoJob
<1>6. /\ HistFields'
      /\ hist'.dns = hist.dns /\ hist'.raced = hist.raced /\ hist'.unnamed = hist.unnamed
      /\ hist.lost \/ job # NoJob => hist'.lost
      /\ hist'.clean => hist.clean /\ job = NoJob
  BY <1>4 DEF Shaped, HistFields
<1>7. Shaped'
  BY <1>1, <1>2, <1>3, <1>6, ShapedIdle DEF Shaped, SameFiles, IsFiles
<1> QED  BY <1>1, <1>2, <1>3, <1>5, <1>6, <1>7 DEF Stopped

LEMMA AgentStartsShape ==
    ASSUME Shaped, AgentStarts PROVE Quiet /\ Shaped'
<1>1. SameFiles /\ build' = build /\ job' = job /\ vpn' = vpn /\ agent' = TRUE
  BY DEF AgentStarts, SameFiles, files
<1>2. HistFields' /\ SameHist
  BY HistStays DEF AgentStarts, Shaped
<1> QED  BY <1>1, <1>2 DEF Shaped, SameFiles, SamePlan, IsFiles, JobFields, VpnFields, Idle, Quiet

LEMMA RegenerateShape ==
    ASSUME Shaped, Regenerate PROVE Regenerated /\ Shaped'
<1>1. /\ file' = [file EXCEPT !["conf"] = FreshServerConf]
      /\ redirects' = redirects /\ profile' = profile /\ build' = build /\ vpn' = vpn
      /\ job' = job /\ agent' = agent
  BY DEF Regenerate
<1>2. Idle
  BY DEF Regenerate, Shaped
<1> DEFINE same == file["conf"].port = DefPort /\ file["conf"].proto = "tcp"
<1>3. hist' = [hist EXCEPT !.clean = @ /\ same]
  BY DEF Regenerate
<1> HIDE DEF same
<1>4. HistFields' /\ SameHist /\ (hist'.clean => same)
  BY <1>3 DEF Shaped, HistFields, SameHist
<1>5. IsFiles(file)'
  BY <1>1 DEF Shaped, IsFiles
<1>6. Shaped'
  BY <1>1, <1>2, <1>4, <1>5 DEF Shaped, IsFiles, JobFields, VpnFields, Idle
<1> QED  BY <1>1, <1>2, <1>4, <1>6 DEF Regenerated, same

\* A stuttering step.
LEMMA StutterShape ==
    ASSUME Shaped, UNCHANGED vars PROVE Quiet /\ Shaped'
<1>1. SameFiles /\ build' = build /\ job' = job /\ vpn' = vpn /\ agent' = agent /\ hist' = hist
  BY DEF vars, SameFiles, files
<1>2. HistFields' /\ SameHist
  BY <1>1, HistStays DEF Shaped
<1> QED  BY <1>1, <1>2 DEF Shaped, SameFiles, SamePlan, IsFiles, JobFields, VpnFields, Idle, Quiet

\* What a request touches is among the six files.
LEMMA TouchedFiles ==
    ASSUME NEW r
    PROVE  /\ Touched(r) \subseteq Files
           /\ "conf" \in Touched(r) /\ "tmpl" \in Touched(r)
           /\ "dns" \in Touched(r) <=> DnsProvided(r)
           /\ "nat" \in Touched(r) <=> r.extras # None
<1> DEFINE a == IF DnsProvided(r) THEN {"dns"} ELSE {}
           b == IF r.v6 # None THEN {"v6"} ELSE {}
           c == IF r.extras # None THEN {"ports", "nat"} ELSE {}
<1>1. Touched(r) = {"conf", "tmpl"} \union a \union b \union c
  BY DEF Touched
<1> QED  BY <1>1 DEF Files

LEMMA ShapeOfNext ==
    ASSUME Shaped, [Next]_vars PROVE Shape /\ Shaped'
<1>1. CASE \E r \in Requests : Reject(r) \/ NoOp(r) \/ Begin(r, {})
  BY <1>1, RejectShape, NoOpShape, BeginShape DEF Shape
<1>2. CASE \E r \in Requests : \E f \in Touched(r) : Begin(r, {f})
  <2>0. PICK r \in Requests : \E f \in Touched(r) : Begin(r, {f})
    BY <1>2
  <2>1. PICK f \in Touched(r) : Begin(r, {f})
    BY <2>0
  <2>2. {f} \in SUBSET Files
    BY TouchedFiles
  <2> QED  BY <2>1, <2>2, BeginShape DEF Shape
<1>3. CASE JobStep
  <2>1. {} \in SUBSET Files
    OBVIOUS
  <2> QED  BY <1>3, <2>1, WriteFileShape, NatApplyShape, ReadBackShape, InvalidateShape,
              SignalVpnShape, RestoreShape, ResignalShape, FailShape DEF JobStep, Shape
<1>4. CASE VpnStep
  BY <1>4, VpnDownShape, ReadsConfShape DEF VpnStep, VpnReloads, VpnStarts, Shape
<1>5. CASE Faults
  <2>1. \A f \in Files : {f} \in SUBSET Files
    OBVIOUS
  <2> QED  BY <1>5, <2>1, WriteFailsShape, WriteIsLostShape, WriteIsCutShape, RestoreShape,
              NatApplyFailsShape, SignalFailsShape, ResignalShape, VpnDownShape DEF Faults, Shape
<1>6. CASE \E cn \in CNs : ReadTemplate(cn) \/ WriteProfile(cn)
  BY <1>6, ReadTemplateShape, WriteProfileShape DEF Shape
<1>7. CASE AgentStops \/ AgentStarts \/ Regenerate
  BY <1>7, AgentStopsShape, AgentStartsShape, RegenerateShape DEF Shape
<1>8. CASE UNCHANGED vars
  BY <1>8, StutterShape DEF Shape
<1> QED  BY <1>1, <1>2, <1>3, <1>4, <1>5, <1>6, <1>7, <1>8 DEF Next

------------------------------------------------------------------------------
(***************************************************************************)
(* The layers, one after the other.                                        *)
(***************************************************************************)

\* Undo.
LEMMA UndoInit == Init => Shaped /\ Undo
<1> SUFFICES ASSUME Init PROVE Shaped /\ Undo
  OBVIOUS
<1>1. job = NoJob /\ job.step = "idle"
  BY DEF Init, NoJob
<1>2. JobFields
  BY <1>1 DEF JobFields, NoJob
<1>3. hist = NoHistory
  BY DEF Init
<1>4. HistFields
  BY <1>3 DEF HistFields, NoHistory
<1>5. VpnFields /\ IsFiles(file)
  BY DEF Init, VpnFields, IsFiles
<1>6. profile = [c \in CNs |-> profile[c]] /\ build = [c \in CNs |-> build[c]]
  BY DEF Init
<1> QED  BY <1>1, <1>2, <1>4, <1>5, <1>6 DEF Shaped, Undo, Idle, Steps

LEMMA UndoNext ==
    ASSUME Shaped, Undo, Shape, Shaped' PROVE Undo'
<1>1. CASE Quiet
  BY <1>1 DEF Quiet, Undo, Idle, SameFiles, SamePlan, SameHist
<1>2. CASE Moved
  BY <1>2 DEF Moved, Undo, Idle, SameFiles, SamePlan, SameHist
<1>3. ASSUME NEW r \in Requests, NEW failed \in SUBSET Files, Begun(r, failed) PROVE Undo'
  <2>1. Writes(r) \subseteq Touched(r)
    BY DEF Writes
  <2> QED  BY <1>3, <2>1 DEF Begun, Undo, SameFiles
<1>4. ASSUME NEW f \in Files, Wrote(f) PROVE Undo'
  <2>1. f \in Touched(job.req) /\ ~Idle
    BY <1>4 DEF Wrote, Undo, Idle
  <2>2. \A g \in Files \ Touched(job.req) : file'[g] = file[g]
    BY <1>4, <2>1 DEF Wrote, Shaped, IsFiles
  <2>3. job'.step \notin {"resignal", "failed"}
    BY <1>4 DEF Wrote
  <2> QED  BY <1>4, <2>1, <2>2, <2>3 DEF Wrote, Undo, SamePlan, SameHist
<1>5. ASSUME NEW f \in Files, Dropped(f) PROVE Undo'
  BY <1>5 DEF Dropped, Undo, Idle, SameFiles, SamePlan, SameHist
<1>c. ASSUME NEW f \in Files, Clipped(f) PROVE Undo'
  <2>1. f \in Touched(job.req) /\ ~Idle
    BY <1>c DEF Clipped, Undo, Idle
  <2>2. \A g \in Files \ Touched(job.req) : file'[g] = file[g]
    BY <1>c, <2>1, ClippedFile
  <2> QED  BY <1>c, <2>1, <2>2 DEF Clipped, Undo, SamePlan, SameHist
<1>6. CASE NatDone
  BY <1>6 DEF NatDone, Undo, Idle, SamePlan, SameHist
<1>7. CASE NatUndone
  <2>1. \A g \in Files : g # "nat" => file'[g] = file[g]
    BY <1>7 DEF NatUndone, Shaped, IsFiles
  <2>2. file'["nat"] = job.old["nat"]
    BY <1>7 DEF NatUndone, Shaped, IsFiles, Files
  <2>3. \A g \in Files \ Touched(job.req) : file'[g] = job.old[g]
    BY <1>7, <2>1, <2>2 DEF Undo, NatUndone, Idle
  <2> QED  BY <1>7, <2>3 DEF NatUndone, Undo, Idle, SamePlan, SameHist
<1>8. CASE Invalidated
  BY <1>8 DEF Invalidated, Undo, Idle, SamePlan
<1>9. CASE Succeeded \/ Failed \/ Stopped
  BY <1>9 DEF Succeeded, Failed, Stopped, Undo, Idle
<1>10. ASSUME NEW lost \in SUBSET Files, PutBack(lost) PROVE Undo'
  <2>1. ~Idle
    BY <1>10 DEF PutBack, Idle
  <2>2. \A f \in Files \ Touched(job.req) : file'[f] = job.old[f]
    BY <1>10, <2>1 DEF PutBack, Undo
  <2>3. \A f \in Files \ (job.lost \union lost) : file'[f] = job.old[f]
    <3> SUFFICES ASSUME NEW f \in Files \ (job.lost \union lost) PROVE file'[f] = job.old[f]
      OBVIOUS
    <3>1. CASE f \in Touched(job.req)
      <4>1. f \in DOMAIN job.saved \ lost
        BY <2>1, <3>1 DEF Undo
      <4> QED  BY <1>10, <2>1, <4>1 DEF PutBack, Undo
    <3> QED  BY <2>2, <3>1
  <2> QED  BY <1>10, <2>1, <2>2, <2>3 DEF PutBack, Undo, SamePlan
<1>11. ASSUME NEW cn \in CNs, TemplateRead(cn) \/ ProfileWritten(cn) PROVE Undo'
  BY <1>11 DEF TemplateRead, ProfileWritten, Undo, Idle, SameFiles
<1>12. CASE Regenerated
  BY <1>12 DEF Regenerated, Undo, Idle
<1> QED  BY <1>1, <1>2, <1>3, <1>4, <1>5, <1>c, <1>6, <1>7, <1>8, <1>9, <1>10, <1>11, <1>12
         DEF Shape

\* Planned: what NewFile gives.
LEMMA PlanOfRequest ==
    ASSUME NEW r, NEW new, new = [f \in Files |-> NewFile(r, f)]
    PROVE  Plan(r, file, new)
<1>1. /\ "conf" \in Files /\ "tmpl" \in Files /\ "dns" \in Files /\ "nat" \in Files
  BY DEF Files
<1>2. new["conf"] = [port |-> r.port, proto |-> r.proto,
                     dns |-> IF DnsProvided(r) THEN DnsDesired(r) ELSE file["conf"].dns,
                     v6  |-> IF r.v6 # None THEN r.v6 ELSE file["conf"].v6]
  BY <1>1 DEF NewFile
<1>3. new["tmpl"].ports = {r.port} \union Extras(r)
  BY <1>1 DEF NewFile
<1>4. DnsProvided(r) => new["dns"] = DnsState(r)
  BY <1>1 DEF NewFile
<1>5. r.extras # None /\ file["nat"] # None =>
        new["nat"] = [on |-> file["nat"].on, primary |-> r.port, extras |-> r.extras]
  BY <1>1 DEF NewFile
<1>6. new["conf"].port = r.port
  BY <1>2
<1>7. new["conf"].dns = IF DnsProvided(r) THEN DnsDesired(r) ELSE file["conf"].dns
  BY <1>2
<1>8. r.dns1 # None => DnsProvided(r) /\ DnsDesired(r) = Listed(r.dns1, r.dns2)
  BY DEF DnsProvided, DnsDesired
<1>9. r.extras # None => Extras(r) = r.extras
  BY DEF Extras
<1> QED  BY <1>3, <1>4, <1>5, <1>6, <1>7, <1>8, <1>9 DEF Plan

LEMMA PlannedNext ==
    ASSUME Shaped, Planned, Shape, Shaped' PROVE Planned'
<1>1. ASSUME NEW r \in Requests, NEW failed \in SUBSET Files, Begun(r, failed) PROVE Planned'
  <2>1. Plan(r, file, job'.new)
    BY <1>1, PlanOfRequest DEF Begun
  <2>2. job'.req = r /\ job'.old = file
    BY <1>1 DEF Begun
  <2>3. Plan(job'.req, job'.old, job'.new)
    BY <2>1, <2>2
  <2> QED  BY <2>2, <2>3 DEF Planned, Plan, DnsProvided, Listed, DnsState
<1>2. ASSUME SamePlan, Idle => Idle' PROVE Planned'
  BY <1>2 DEF Planned, SamePlan, Plan, DnsProvided, Listed, DnsState
<1>3. ASSUME Idle' PROVE Planned'
  BY <1>3 DEF Planned
<1>4. CASE Quiet \/ Moved \/ NatDone \/ NatUndone \/ Invalidated
  BY <1>2, <1>4 DEF Quiet, Moved, NatDone, NatUndone, Invalidated, Idle
<1>5. ASSUME NEW f \in Files, Wrote(f) \/ Dropped(f) \/ Clipped(f) PROVE Planned'
  BY <1>2, <1>5 DEF Wrote, Dropped, Clipped, Idle
<1>6. ASSUME NEW lost \in SUBSET Files, PutBack(lost) PROVE Planned'
  BY <1>2, <1>6 DEF PutBack, Idle
<1>7. CASE Succeeded \/ Failed \/ Stopped \/ Regenerated
  BY <1>3, <1>7 DEF Succeeded, Failed, Stopped, Regenerated, Idle
<1>8. ASSUME NEW cn \in CNs, TemplateRead(cn) \/ ProfileWritten(cn) PROVE Planned'
  BY <1>2, <1>8 DEF TemplateRead, ProfileWritten, Idle, SamePlan
<1> QED  BY <1>1, <1>4, <1>5, <1>6, <1>7, <1>8 DEF Shape

\* Written.  The files are looked up by name in the six of them.
LEMMA Named ==
    "conf" \in Files /\ "tmpl" \in Files /\ "dns" \in Files /\ "v6" \in Files
      /\ "ports" \in Files /\ "nat" \in Files
BY DEF Files

LEMMA WrittenNext ==
    ASSUME Shaped, Undo, Planned, Written, Shape, Shaped' PROVE Written'
<1>1. CASE Quiet
  BY <1>1 DEF Quiet, Written, SameFiles, SamePlan, ReadDNSState, DnsProvided
<1>2. CASE Moved
  <2>1. SameFiles /\ SamePlan /\ job'.todo = job.todo
    BY <1>2 DEF Moved
  <2>2. CASE job'.step \notin Forward
    BY <2>2 DEF Written
  <2>3. CASE /\ job.step = "write" /\ job'.step = "invalidate" /\ job.todo = {}
             /\ DnsProvided(job.req) => ReadDNSState = job.new["dns"]
    BY <2>1, <2>3 DEF Written, SameFiles, SamePlan, ReadDNSState, DnsProvided, Forward
  <2> QED  BY <1>2, <2>2, <2>3 DEF Moved, Forward
<1>3. ASSUME NEW r \in Requests, NEW failed \in SUBSET Files, Begun(r, failed) PROVE Written'
  <2>1. /\ job'.step = "write" /\ job'.todo = Writes(r) /\ job'.req = r /\ job'.old = file
        /\ job'.new = [f \in Files |-> NewFile(r, f)] /\ file' = file
    BY <1>3 DEF Begun, SameFiles
  <2>2. \A f \in {"conf", "tmpl"} : f \notin Writes(r) => NewFile(r, f) = file[f]
    BY TouchedFiles DEF Writes
  <2>3. "nat" \in Writes(r) => file["nat"] # None
    BY DEF Writes
  <2>4. r.extras # None /\ "nat" \notin Writes(r) => file["nat"] = None
    BY TouchedFiles DEF Writes
  <2> QED  BY <2>1, <2>2, <2>3, <2>4, Named DEF Written
<1>4. ASSUME NEW f \in Files, Wrote(f) PROVE Written'
  <2>1. /\ file'[f] = job.new[f]
        /\ \A g \in Files : g # f => file'[g] = file[g]
    BY <1>4 DEF Wrote, Shaped, IsFiles
  <2>2. /\ job.step = "write" /\ f \in job.todo /\ SamePlan /\ job'.todo = job.todo \ {f}
        /\ job'.step = IF f = "nat" /\ job.new["nat"].on THEN "apply" ELSE "write"
    BY <1>4 DEF Wrote
  <2>3. job'.step \in {"apply", "write"} /\ (job'.step = "apply" => f = "nat")
    BY <2>2
  <2>4. \A g \in {"conf", "tmpl"} : g \notin job'.todo => file'[g] = job'.new[g]
    BY <2>1, <2>2, Named DEF Written, SamePlan, Forward
  <2>5. "nat" \in job'.todo => job'.old["nat"] # None
    BY <2>2 DEF Written, SamePlan, Forward
  <2>6. job'.req.extras # None /\ "nat" \notin job'.todo =>
          file'["nat"] = IF job'.old["nat"] = None THEN None ELSE job'.new["nat"]
    BY <2>1, <2>2, Named DEF Written, SamePlan, Forward
  <2>7. job'.step = "apply" =>
          job'.req.extras # None /\ "nat" \notin job'.todo /\ job'.old["nat"] # None
    <3>1. f = "nat" => job.req.extras # None
      BY <2>2, TouchedFiles DEF Undo, Idle
    <3> QED  BY <2>2, <2>3, <3>1 DEF Written, SamePlan, Forward
  <2> QED  BY <2>3, <2>4, <2>5, <2>6, <2>7 DEF Written
<1>5. ASSUME NEW f \in Files, Dropped(f) PROVE Written'
  <2>1. /\ job.step = "write" /\ job'.step = "write" /\ SamePlan /\ file' = file
        /\ job'.todo = job.todo \ {f} /\ f \notin {"conf", "tmpl", "nat"}
    BY <1>5 DEF Dropped, SameFiles
  <2> QED  BY <2>1 DEF Written, SamePlan, Forward
<1>c. ASSUME NEW f \in Files, Clipped(f) PROVE Written'
  <2>1. /\ job.step = "write" /\ job'.step = "write" /\ SamePlan
        /\ job'.todo = job.todo \ {f} /\ f \notin {"conf", "tmpl", "nat"}
    BY <1>c DEF Clipped
  <2>2. \A g \in {"conf", "tmpl", "nat"} : file'[g] = file[g]
    BY <1>c, <2>1, ClippedFile, Named
  <2> QED  BY <2>1, <2>2 DEF Written, SamePlan, Forward
<1>6. CASE NatDone
  <2>1. /\ job.step = "apply" /\ job'.step = "write" /\ SamePlan /\ file' = file
        /\ job'.todo = job.todo
    BY <1>6 DEF NatDone
  <2> QED  BY <2>1 DEF Written, SamePlan, Forward
<1>7. CASE Invalidated
  <2>1. /\ job.step = "invalidate" /\ job'.step = "signal" /\ SamePlan /\ file' = file
        /\ job'.todo = job.todo
    BY <1>7 DEF Invalidated
  <2> QED  BY <2>1 DEF Written, SamePlan, Forward, ReadDNSState, DnsProvided
<1>8. CASE NatUndone \/ Succeeded \/ Failed \/ Stopped
  BY <1>8 DEF NatUndone, Succeeded, Failed, Stopped, Written, Forward
<1>9. ASSUME NEW lost \in SUBSET Files, PutBack(lost) PROVE Written'
  BY <1>9 DEF PutBack, Written, Forward
<1>10. ASSUME NEW cn \in CNs, TemplateRead(cn) \/ ProfileWritten(cn) PROVE Written'
  <2>1. job' = job /\ file' = file
    BY <1>10 DEF TemplateRead, ProfileWritten, SameFiles
  <2> QED  BY <2>1 DEF Written, ReadDNSState, DnsProvided
<1>11. CASE Regenerated
  BY <1>11 DEF Regenerated, Written, Forward, Idle
<1> QED  BY <1>1, <1>2, <1>3, <1>4, <1>5, <1>c, <1>6, <1>7, <1>8, <1>9, <1>10, <1>11 DEF Shape

\* Cached.
LEMMA CachedNext ==
    ASSUME Shaped, Undo, Cached, Shape, Shaped' PROVE Cached'
<1>1. CASE Quiet
  BY <1>1 DEF Quiet, Cached, SameFiles, SamePlan, SameHist, Idle
<1>2. CASE Moved
  <2>1. SameFiles /\ SamePlan /\ SameHist /\ build' = build /\ ~Idle /\ ~Idle'
    BY <1>2 DEF Moved, Idle
  <2>2. job'.step \in {"signal", "rollback", "resignal"}
          => job.step \in {"signal", "rollback", "resignal"}
    BY <1>2 DEF Moved
  <2> QED  BY <2>1, <2>2 DEF Cached, SameFiles, SamePlan, SameHist
<1>3. ASSUME NEW r \in Requests, NEW failed \in SUBSET Files, Begun(r, failed) PROVE Cached'
  BY <1>3 DEF Begun, Cached, SameFiles, Idle
<1>4. ASSUME NEW f \in Files, Wrote(f) PROVE Cached'
  <2>1. /\ SamePlan /\ SameHist /\ build' = build /\ profile' = profile /\ ~Idle /\ ~Idle'
        /\ job'.step \notin {"signal", "rollback", "resignal"}
    BY <1>4 DEF Wrote, Idle
  <2> QED  BY <2>1 DEF Cached, SamePlan, SameHist
<1>5. ASSUME NEW f \in Files, Dropped(f) PROVE Cached'
  <2>1. /\ SamePlan /\ SameHist /\ build' = build /\ profile' = profile /\ ~Idle /\ ~Idle'
        /\ job'.step \notin {"signal", "rollback", "resignal"}
    BY <1>5 DEF Dropped, Idle, SameFiles
  <2> QED  BY <2>1 DEF Cached, SamePlan, SameHist
<1>c. ASSUME NEW f \in Files, Clipped(f) PROVE Cached'
  <2>1. /\ SamePlan /\ SameHist /\ build' = build /\ profile' = profile /\ ~Idle /\ ~Idle'
        /\ job'.step \notin {"signal", "rollback", "resignal"}
    BY <1>c DEF Clipped, Idle
  <2> QED  BY <2>1 DEF Cached, SamePlan, SameHist
<1>6. CASE NatDone \/ NatUndone
  <2>1. /\ SamePlan /\ SameHist /\ build' = build /\ profile' = profile /\ ~Idle /\ ~Idle'
        /\ job'.step \notin {"signal", "rollback", "resignal"}
    BY <1>6 DEF NatDone, NatUndone, Idle
  <2> QED  BY <2>1 DEF Cached, SamePlan, SameHist
<1>7. CASE Invalidated
  <2>1. \A cn \in CNs : profile'[cn] = None
    BY <1>7 DEF Invalidated
  <2>2. \A cn \in CNs : build'[cn] # None => hist'.raced[cn]
    BY <1>7 DEF Invalidated
  <2> QED  BY <2>1, <2>2 DEF Cached
<1>8. CASE Succeeded
  BY <1>8 DEF Succeeded, Cached, SameFiles, Idle
<1>9. ASSUME NEW lost \in SUBSET Files, PutBack(lost) PROVE Cached'
  <2>1. /\ SamePlan /\ build' = build /\ profile' = profile /\ ~Idle /\ ~Idle'
        /\ hist'.raced = hist.raced /\ (~hist'.lost => ~hist.lost)
    BY <1>9 DEF PutBack, Idle
  <2>2. job'.step \in {"signal", "rollback", "resignal"}
          => job.step \in {"signal", "rollback", "resignal"}
    BY <1>9 DEF PutBack, Shaped, Steps, SamePlan
  <2> QED  BY <2>1, <2>2 DEF Cached, SamePlan
<1>10. CASE Failed
  <2>1. /\ SameFiles /\ SameHist /\ build' = build /\ ~Idle /\ Idle' /\ job.step = "failed"
    BY <1>10 DEF Failed, Idle
  <2>2. ~hist.lost => file["tmpl"] = job.old["tmpl"]
    BY <2>1, Named DEF Undo
  <2> QED  BY <2>1, <2>2 DEF Cached, SameFiles, SameHist
<1>11. ASSUME NEW cn \in CNs, TemplateRead(cn) PROVE Cached'
  <2>1. /\ file' = file /\ profile' = profile /\ job' = job /\ profile[cn] = None
        /\ hist'.lost = hist.lost
    BY <1>11 DEF TemplateRead, SameFiles
  <2>2. /\ build'[cn] = file["tmpl"]
        /\ hist'.raced[cn] = (job # NoJob)
        /\ \A c \in CNs : c # cn => build'[c] = build[c] /\ hist'.raced[c] = hist.raced[c]
    BY <1>11 DEF TemplateRead, Shaped, HistFields
  <2>3. Idle' = Idle /\ (job = NoJob => Idle)
    BY <2>1 DEF Idle, NoJob
  <2> QED  BY <2>1, <2>2, <2>3 DEF Cached
<1>12. ASSUME NEW cn \in CNs, ProfileWritten(cn) PROVE Cached'
  <2>1. /\ file' = file /\ job' = job /\ build[cn] # None /\ hist' = hist
        /\ build'[cn] = None /\ profile'[cn] = build[cn]
        /\ \A c \in CNs : c # cn => build'[c] = build[c] /\ profile'[c] = profile[c]
    BY <1>12 DEF ProfileWritten, Shaped
  <2>2. Idle' = Idle
    BY <2>1 DEF Idle
  <2> QED  BY <2>1, <2>2 DEF Cached
<1>13. CASE Stopped
  <2>1. /\ SameFiles /\ hist'.raced = hist.raced /\ Idle' /\ (~hist'.lost => ~hist.lost /\ Idle)
        /\ \A cn \in CNs : build'[cn] = None
    BY <1>13 DEF Stopped, Idle
  <2> QED  BY <2>1 DEF Cached, SameFiles
<1>14. CASE Regenerated
  <2>1. /\ file'["tmpl"] = file["tmpl"] /\ profile' = profile /\ build' = build /\ SameHist
        /\ Idle /\ Idle'
    BY <1>14, Named DEF Regenerated, Shaped, IsFiles, Idle
  <2> QED  BY <2>1 DEF Cached, SameHist
<1> QED  BY <1>1, <1>2, <1>3, <1>4, <1>5, <1>c, <1>6, <1>7, <1>8, <1>9, <1>10, <1>11, <1>12, <1>13,
            <1>14 DEF Shape

\* Pushed.  Two resolvers that are named are listed as they are.
LEMMA ListedBoth ==
    ASSUME NEW a, NEW b, a \notin {Empty, None}, b \notin {Empty, None}
    PROVE  Listed(a, b) = <<a, b>>
<1>1. Listed(a, b) = <<a>> \o <<b>>
  BY DEF Listed
<1> DEFINE S == {a, b}
           s == <<a>> \o <<b>>
           t == <<a, b>>
<1>2. <<a>> \in Seq(S) /\ <<b>> \in Seq(S)
  OBVIOUS
<1>3. t \in Seq(S) /\ Len(t) = 2 /\ t[1] = a /\ t[2] = b
  OBVIOUS
<1>4. s \in Seq(S) /\ Len(s) = 2
  BY <1>2
<1>5. s[1] = a /\ s[2] = b
  BY <1>2
<1> HIDE DEF S, s, t
<1>6. Len(s) = Len(t) /\ \A i \in 1 .. Len(s) : s[i] = t[i]
  BY <1>3, <1>4, <1>5
<1>7. s = t
  BY <1>3, <1>4, <1>6, SeqEqual
<1> QED  BY <1>1, <1>7 DEF s, t

\* Regeneration takes the resolvers from the desired state.
LEMMA FreshPushes ==
    ASSUME NEW dns, Pushes(file, dns) PROVE FreshServerConf.dns = dns
<1>1. ReadDNSState = [dns1 |-> dns[1], dns2 |-> dns[2]]
  BY DEF Pushes, ReadDNSState
<1>2. ReadDNSState.dns1 = dns[1] /\ ReadDNSState.dns2 = dns[2]
  BY <1>1
<1>3. dns[1] # Empty /\ dns[2] # Empty
  BY DEF Pushes
<1>4. DNSEffective = Listed(dns[1], dns[2])
  BY <1>2, <1>3 DEF DNSEffective
<1>5. DNSEffective = dns
  BY <1>4, ListedBoth DEF Pushes
<1>6. FreshServerConf.dns = DNSEffective
  BY DEF FreshServerConf
<1> QED  BY <1>5, <1>6

\* Pushes looks at two files only.
LEMMA PushesSame ==
    ASSUME NEW g, NEW h, NEW dns, Pushes(g, dns), h["conf"].dns = g["conf"].dns,
           h["dns"] = g["dns"]
    PROVE  Pushes(h, dns)
BY DEF Pushes

\* A change that is about to succeed and leaves the resolvers alone, or names
\* both of them.
LEMMA SignalPushes ==
    ASSUME Shaped, Undo, Planned, Written, Pushed, job.step = "signal", ~hist.lost
    PROVE  /\ ~DnsProvided(job.req) /\ hist.dns # None => Pushes(file, hist.dns)
           /\ {job.req.dns1, job.req.dns2} \intersect {Empty, None} = {} =>
                Pushes(file, <<job.req.dns1, job.req.dns2>>)
<1>1. ~Idle /\ job.step \in Forward /\ job.step \in {"invalidate", "signal"}
  BY DEF Idle, Forward
<1>2. file["conf"] = job.new["conf"] /\ (DnsProvided(job.req) => ReadDNSState = job.new["dns"])
  BY <1>1 DEF Written
<1>3. Plan(job.req, job.old, job.new)
  BY <1>1 DEF Planned
<1>4. ASSUME ~DnsProvided(job.req), hist.dns # None PROVE Pushes(file, hist.dns)
  <2>1. Pushes(job.old, hist.dns)
    BY <1>1, <1>4 DEF Pushed
  <2>2. file["dns"] = job.old["dns"]
    BY <1>1, <1>4, TouchedFiles, Named DEF Undo
  <2>3. file["conf"].dns = job.old["conf"].dns
    BY <1>2, <1>3, <1>4 DEF Plan
  <2> QED  BY <2>1, <2>2, <2>3, PushesSame
<1>5. ASSUME {job.req.dns1, job.req.dns2} \intersect {Empty, None} = {}
      PROVE  Pushes(file, <<job.req.dns1, job.req.dns2>>)
  <2> DEFINE a == job.req.dns1
             b == job.req.dns2
  <2>1. a \notin {Empty, None} /\ b \notin {Empty, None}
    BY <1>5
  <2>2. DnsProvided(job.req)
    BY <2>1 DEF DnsProvided
  <2>3. DnsState(job.req) = [dns1 |-> a, dns2 |-> b]
    BY <2>1 DEF DnsState
  <2>4. job.new["dns"] = [dns1 |-> a, dns2 |-> b]
    BY <1>3, <2>2, <2>3 DEF Plan
  <2>5. ReadDNSState = [dns1 |-> a, dns2 |-> b]
    BY <1>2, <2>2, <2>4
  <2>6. file["dns"] # None
    <3>1. ReadDNSState.dns1 # Empty
      BY <2>1, <2>5
    <3> QED  BY <3>1 DEF ReadDNSState, NoDns
  <2>7. file["dns"] = [dns1 |-> a, dns2 |-> b]
    BY <2>5, <2>6 DEF ReadDNSState
  <2>8. file["conf"].dns = <<a, b>>
    <3>1. job.new["conf"].dns = Listed(a, b)
      BY <1>3, <2>1 DEF Plan
    <3> QED  BY <1>2, <2>1, <3>1, ListedBoth
  <2> HIDE DEF a, b
  <2>9. Pushes(file, <<a, b>>)
    BY <2>1, <2>6, <2>7, <2>8 DEF Pushes
  <2> QED  BY <2>9 DEF a, b
<1> QED  BY <1>4, <1>5

LEMMA PushedNext ==
    ASSUME Shaped, Undo, Planned, Written, Pushed, Shape, Shaped' PROVE Pushed'
<1> SUFFICES ASSUME ~hist'.lost, hist'.dns # None
             PROVE  Pushes(IF Idle' THEN file' ELSE job'.old, hist'.dns)
  BY DEF Pushed, Pushes
\* The resolvers the history asks for are the same, and so is where they are.
<1>1. ASSUME ~hist.lost, hist'.dns = hist.dns, Idle' <=> Idle, Idle => file' = file,
             job'.old = job.old
      PROVE  Pushes(IF Idle' THEN file' ELSE job'.old, hist'.dns)
  <2>1. Pushes(IF Idle THEN file ELSE job.old, hist.dns)
    BY <1>1 DEF Pushed
  <2> QED  BY <1>1, <2>1
<1>2. CASE Quiet
  BY <1>1, <1>2 DEF Quiet, SameFiles, SamePlan, SameHist, Idle
<1>3. CASE Moved
  BY <1>1, <1>3 DEF Moved, SameFiles, SamePlan, SameHist, Idle
<1>4. ASSUME NEW r \in Requests, NEW failed \in SUBSET Files, Begun(r, failed)
      PROVE  Pushes(IF Idle' THEN file' ELSE job'.old, hist'.dns)
  <2>1. Idle /\ ~Idle' /\ job'.old = file /\ hist'.dns = hist.dns /\ ~hist.lost
    BY <1>4 DEF Begun, Idle
  <2>2. Pushes(file, hist.dns)
    BY <2>1 DEF Pushed
  <2> QED  BY <2>1, <2>2
<1>5. ASSUME NEW f \in Files, Wrote(f) \/ Dropped(f) \/ Clipped(f)
      PROVE  Pushes(IF Idle' THEN file' ELSE job'.old, hist'.dns)
  BY <1>1, <1>5 DEF Wrote, Dropped, Clipped, SamePlan, SameHist, Idle
<1>6. CASE NatDone \/ NatUndone \/ Invalidated
  BY <1>1, <1>6 DEF NatDone, NatUndone, Invalidated, SamePlan, SameHist, Idle
<1>7. CASE Succeeded
  <2>1. Idle' /\ file' = file /\ job.step = "signal" /\ ~hist.lost
    BY <1>7 DEF Succeeded, SameFiles, Idle
  <2>2. \/ /\ {job.req.dns1, job.req.dns2} \intersect {Empty, None} = {}
           /\ hist'.dns = <<job.req.dns1, job.req.dns2>>
        \/ ~DnsProvided(job.req) /\ hist'.dns = hist.dns
    BY <1>7 DEF Succeeded
  <2>3. Pushes(file, hist'.dns)
    BY <2>1, <2>2, SignalPushes
  <2> QED  BY <2>1, <2>3
<1>8. ASSUME NEW lost \in SUBSET Files, PutBack(lost)
      PROVE  Pushes(IF Idle' THEN file' ELSE job'.old, hist'.dns)
  BY <1>1, <1>8 DEF PutBack, SamePlan, Idle
<1>9. CASE Failed
  <2>1. Idle' /\ ~Idle /\ file' = file /\ job.step = "failed" /\ hist'.dns = hist.dns /\ ~hist.lost
    BY <1>9 DEF Failed, SameFiles, SameHist, Idle
  <2>2. job.lost = {}
    BY <2>1 DEF Undo
  <2>3. file["conf"] = job.old["conf"] /\ file["dns"] = job.old["dns"]
    BY <2>1, <2>2, Named DEF Undo
  <2>4. Pushes(job.old, hist.dns)
    BY <2>1 DEF Pushed
  <2>5. Pushes(file, hist.dns)
    BY <2>3, <2>4, PushesSame
  <2> QED  BY <2>1, <2>5
<1>10. ASSUME NEW cn \in CNs, TemplateRead(cn) \/ ProfileWritten(cn)
       PROVE  Pushes(IF Idle' THEN file' ELSE job'.old, hist'.dns)
  BY <1>1, <1>10 DEF TemplateRead, ProfileWritten, SameFiles, Idle
<1>11. CASE Stopped
  <2>1. Idle /\ Idle' /\ file' = file /\ hist'.dns = hist.dns /\ ~hist.lost
    BY <1>11 DEF Stopped, SameFiles, Idle
  <2>2. Pushes(file, hist.dns)
    BY <2>1 DEF Pushed
  <2> QED  BY <2>1, <2>2
<1>12. CASE Regenerated
  <2>1. /\ Idle /\ Idle' /\ hist'.dns = hist.dns /\ ~hist.lost
    BY <1>12 DEF Regenerated, SameHist, Idle
  <2>2. Pushes(file, hist.dns)
    BY <2>1 DEF Pushed
  <2>3. FreshServerConf.dns = hist.dns
    BY <2>2, FreshPushes
  <2>4. file'["conf"] = FreshServerConf /\ file'["dns"] = file["dns"]
    BY <1>12, Named DEF Regenerated, Shaped, IsFiles
  <2>5. file'["conf"].dns = file["conf"].dns
    BY <2>2, <2>3, <2>4 DEF Pushes
  <2>6. Pushes(file', hist.dns)
    BY <2>2, <2>4, <2>5, PushesSame
  <2> QED  BY <2>1, <2>6
<1> QED  BY <1>2, <1>3, <1>4, <1>5, <1>6, <1>7, <1>8, <1>9, <1>10, <1>11, <1>12
         DEF Shape

\* Led.  Without a change at work the ports depend on three files and the rules.
LEMMA PortsKept ==
    ASSUME Shaped, Led, Idle, hist'.clean => hist.clean, hist.unnamed => hist'.unnamed,
           file'["nat"] = file["nat"], file'["tmpl"] = file["tmpl"],
           file'["conf"].port = file["conf"].port, redirects' = redirects
    PROVE  hist'.clean => ListedPortsLeadToServer'
<1>1. job = NoJob
  BY DEF Shaped
<1> QED  BY <1>1 DEF Led, ListedPortsLeadToServer

\* A change that is about to succeed has made every port it lists lead to the
\* server.
LEMMA SignalLeads ==
    ASSUME Shaped, Planned, Written, Led, job.step = "signal", hist.clean,
           job.req.extras # None, file["nat"] # None, file["nat"].on
    PROVE  \A p \in file["tmpl"].ports :
             p = file["conf"].port \/ <<p, file["conf"].port>> \in redirects
<1>1. ~Idle /\ job.step \in Forward /\ job.step \in Forward \ {"apply"}
         /\ job.step \in {"invalidate", "signal"}
  BY DEF Idle, Forward
<1>2. job.todo = {} /\ file["conf"] = job.new["conf"] /\ file["tmpl"] = job.new["tmpl"]
  BY <1>1 DEF Written
<1>3. job.old["nat"] # None /\ file["nat"] = job.new["nat"]
  BY <1>1, <1>2 DEF Written
<1>4. Plan(job.req, job.old, job.new)
  BY <1>1 DEF Planned
<1>5. /\ file["conf"].port = job.req.port
      /\ file["tmpl"].ports = {job.req.port} \union job.req.extras
      /\ file["nat"] = [on |-> job.old["nat"].on, primary |-> job.req.port,
                        extras |-> job.req.extras]
  BY <1>2, <1>3, <1>4 DEF Plan
<1>6. file["nat"].primary = job.req.port /\ file["nat"].extras = job.req.extras
  BY <1>5
<1>7. redirects = file["nat"].extras \X {file["nat"].primary}
  BY <1>1, <1>2 DEF Led, Redirected
<1>8. redirects = job.req.extras \X {job.req.port}
  BY <1>6, <1>7
<1> QED  BY <1>5, <1>8

LEMMA LedNext ==
    ASSUME Shaped, Undo, Planned, Written, Led, Shape, Shaped' PROVE Led'
<1>1. CASE Quiet
  <2>1. /\ file' = file /\ redirects' = redirects /\ SamePlan /\ job'.todo = job.todo
        /\ job'.step = job.step /\ SameHist
    BY <1>1 DEF Quiet, SameFiles
  <2>2. Idle => (hist'.clean => ListedPortsLeadToServer')
    BY <2>1, PortsKept DEF SameHist
  <2> QED  BY <2>1, <2>2 DEF Led, Idle, Redirected, SamePlan, SameHist
<1>2. CASE Moved
  <2>1. /\ file' = file /\ redirects' = redirects /\ SamePlan /\ job'.todo = job.todo /\ SameHist
    BY <1>2 DEF Moved, SameFiles
  <2>2. CASE job.step = "write" /\ job'.step \in {"restore", "invalidate"}
    BY <2>1, <2>2 DEF Led, Idle, Redirected, SamePlan, SameHist, Forward
  <2>3. CASE ~hist'.clean
    BY <2>3 DEF Led
  <2>4. CASE job.step = "resignal"
    BY <2>1, <2>4 DEF Led, SameHist
  <2> QED  BY <1>2, <2>2, <2>3, <2>4 DEF Moved
<1>3. ASSUME NEW r \in Requests, NEW failed \in SUBSET Files, Begun(r, failed) PROVE Led'
  <2>1. /\ job'.step = "write" /\ job'.todo = Writes(r) /\ job'.req = r /\ file' = file
    BY <1>3 DEF Begun, SameFiles
  <2>2. r.extras # None /\ "nat" \notin Writes(r) => file["nat"] = None
    BY TouchedFiles DEF Writes
  <2> QED  BY <2>1, <2>2 DEF Led, Idle, Redirected
<1>4. ASSUME NEW f \in Files, Wrote(f) PROVE Led'
  <2>1. /\ file'[f] = job.new[f]
        /\ \A g \in Files : g # f => file'[g] = file[g]
    BY <1>4 DEF Wrote, Shaped, IsFiles
  <2>2. /\ job.step = "write" /\ f \in job.todo /\ SamePlan /\ job'.todo = job.todo \ {f}
        /\ job'.step = IF f = "nat" /\ job.new["nat"].on THEN "apply" ELSE "write"
        /\ redirects' = redirects /\ SameHist
    BY <1>4 DEF Wrote
  <2>3. CASE f = "nat"
    <3>1. job'.step = "apply" \/ (job'.step = "write" /\ ~file'["nat"].on)
      BY <2>1, <2>2, <2>3
    <3> QED  BY <3>1 DEF Led, Idle, Redirected
  <2>4. CASE f # "nat"
    <3>1. job'.step = "write" /\ file'["nat"] = file["nat"]
      BY <2>1, <2>2, <2>4, Named
    <3> QED  BY <2>2, <2>4, <3>1 DEF Led, Idle, Redirected, SamePlan, SameHist, Forward
  <2> QED  BY <2>3, <2>4
<1>5. ASSUME NEW f \in Files, Dropped(f) PROVE Led'
  <2>1. /\ job.step = "write" /\ job'.step = "write" /\ SamePlan /\ file' = file
        /\ job'.todo = job.todo \ {f} /\ f # "nat" /\ redirects' = redirects /\ SameHist
    BY <1>5 DEF Dropped, SameFiles
  <2> QED  BY <2>1 DEF Led, Idle, Redirected, SamePlan, SameHist, Forward
<1>c. ASSUME NEW f \in Files, Clipped(f) PROVE Led'
  <2>1. /\ job.step = "write" /\ job'.step = "write" /\ SamePlan
        /\ job'.todo = job.todo \ {f} /\ f # "nat" /\ redirects' = redirects /\ SameHist
    BY <1>c DEF Clipped
  <2>2. file'["nat"] = file["nat"]
    BY <1>c, <2>1, ClippedFile, Named
  <2> QED  BY <2>1, <2>2 DEF Led, Idle, Redirected, SamePlan, SameHist, Forward
<1>6. CASE NatDone
  <2>1. /\ job'.step = "write" /\ file' = file
        /\ redirects' = file["nat"].extras \X {file["nat"].primary}
    BY <1>6 DEF NatDone
  <2> QED  BY <2>1 DEF Led, Idle, Redirected
<1>7. CASE Invalidated
  <2>1. /\ job.step = "invalidate" /\ job'.step = "signal" /\ SamePlan /\ file' = file
        /\ job'.todo = job.todo /\ redirects' = redirects /\ hist'.clean = hist.clean
    BY <1>7 DEF Invalidated
  <2> QED  BY <2>1 DEF Led, Idle, Redirected, SamePlan, Forward
<1>8. CASE NatUndone
  BY <1>8 DEF NatUndone, Led
<1>9. CASE Succeeded
  <2>1. /\ Idle' /\ job'.step = "idle" /\ file' = file /\ redirects' = redirects
        /\ hist'.clean = hist.clean /\ job.step = "signal"
        /\ ~hist'.unnamed => job.req.extras # None
    BY <1>9 DEF Succeeded, SameFiles, Idle
  <2>2. hist'.clean => ListedPortsLeadToServer'
    BY <2>1, SignalLeads DEF ListedPortsLeadToServer
  <2> QED  BY <2>1, <2>2 DEF Led, Forward
<1>10. ASSUME NEW lost \in SUBSET Files, PutBack(lost) PROVE Led'
  BY <1>10 DEF PutBack, Led
<1>11. CASE Failed
  BY <1>11 DEF Failed, Led, SameHist
<1>12. ASSUME NEW cn \in CNs, TemplateRead(cn) \/ ProfileWritten(cn) PROVE Led'
  <2>1. /\ file' = file /\ redirects' = redirects /\ job' = job
        /\ hist'.clean = hist.clean /\ hist'.unnamed = hist.unnamed
    BY <1>12 DEF TemplateRead, ProfileWritten, SameFiles
  <2>2. Idle => (hist'.clean => ListedPortsLeadToServer')
    BY <2>1, PortsKept
  <2> QED  BY <2>1, <2>2 DEF Led, Idle, Redirected
<1>13. CASE Stopped
  <2>1. /\ job'.step = "idle" /\ file' = file /\ redirects' = redirects
        /\ hist'.unnamed = hist.unnamed /\ (hist'.clean => hist.clean /\ Idle)
    BY <1>13 DEF Stopped, SameFiles
  <2>2. hist'.clean => ListedPortsLeadToServer'
    BY <2>1, PortsKept
  <2> QED  BY <2>1, <2>2 DEF Led, Forward
<1>14. CASE Regenerated
  <2>1. /\ Idle /\ job' = job /\ redirects' = redirects /\ SameHist
        /\ hist'.clean => file["conf"].port = DefPort
    BY <1>14 DEF Regenerated
  <2>2. /\ file'["conf"] = FreshServerConf
        /\ file'["nat"] = file["nat"] /\ file'["tmpl"] = file["tmpl"]
    BY <1>14, Named DEF Regenerated, Shaped, IsFiles
  <2>3. FreshServerConf.port = DefPort
    BY DEF FreshServerConf
  <2>4. hist'.clean => ListedPortsLeadToServer'
    BY <2>1, <2>2, <2>3, PortsKept DEF SameHist
  <2> QED  BY <2>1, <2>4 DEF Led, Idle, Forward
<1> QED  BY <1>1, <1>2, <1>3, <1>4, <1>5, <1>c, <1>6, <1>7, <1>8, <1>9, <1>10, <1>11, <1>12, <1>13,
            <1>14 DEF Shape

\* Typed.  A set of files whose contents come from two typed ones is typed.
LEMMA Mixed ==
    ASSUME NEW g, NEW h, NEW x, Contents(g), Contents(h),
           \A f \in Files : x[f] \in {g[f], h[f]}
    PROVE  Contents(x)
<1>1. /\ x["conf"] \in {g["conf"], h["conf"]} /\ x["tmpl"] \in {g["tmpl"], h["tmpl"]}
      /\ x["dns"] \in {g["dns"], h["dns"]} /\ x["v6"] \in {g["v6"], h["v6"]}
      /\ x["ports"] \in {g["ports"], h["ports"]} /\ x["nat"] \in {g["nat"], h["nat"]}
  BY Named
<1>2. x["conf"] \in Conf /\ x["tmpl"] \in Tmpl
  BY <1>1 DEF Contents
<1>3. x["dns"] \in [dns1 : Resolvers \union {Empty}, dns2 : Resolvers \union {Empty}] \union {None}
  BY <1>1 DEF Contents
<1>4. x["v6"] \in BOOLEAN \union {None}
  BY <1>1, Zenon DEF Contents
<1>5. x["ports"] \in (SUBSET Ports) \union {None} /\ x["nat"] \in NatConf \union {None}
  BY <1>1 DEF Contents
<1> QED  BY <1>2, <1>3, <1>4, <1>5 DEF Contents

\* What is listed of resolvers is a sequence of resolvers.
LEMMA ListedType ==
    ASSUME NEW a \in Resolvers \union {Empty, None}, NEW b \in Resolvers \union {Empty, None}
    PROVE  Listed(a, b) \in Seq(Resolvers)
<1> DEFINE one(r) == IF r \in {Empty, None} THEN << >> ELSE <<r>>
<1>1. one(a) \in Seq(Resolvers)
  OBVIOUS
<1>2. one(b) \in Seq(Resolvers)
  OBVIOUS
<1>3. Listed(a, b) = one(a) \o one(b)
  BY DEF Listed
<1> HIDE DEF one
<1> QED  BY <1>1, <1>2, <1>3

LEMMA EffectiveType ==
    ASSUME Contents(file) PROVE DNSEffective \in Seq(Resolvers)
<1>1. Def1 \in Resolvers /\ Def2 \in Resolvers
  BY ConfigAssumption DEF ConfigAssumption
<1>2. /\ ReadDNSState.dns1 \in Resolvers \union {Empty}
      /\ ReadDNSState.dns2 \in Resolvers \union {Empty}
  BY DEF Contents, ReadDNSState, NoDns
<1> DEFINE a == IF ReadDNSState.dns1 = Empty THEN Def1 ELSE ReadDNSState.dns1
           b == IF ReadDNSState.dns2 = Empty THEN Def2 ELSE ReadDNSState.dns2
<1>3. a \in Resolvers \union {Empty, None} /\ b \in Resolvers \union {Empty, None}
  BY <1>1, <1>2
<1>4. DNSEffective = Listed(a, b)
  BY DEF DNSEffective
<1> HIDE DEF a, b
<1> QED  BY <1>3, <1>4, ListedType

\* The template's address and the files a request gives.
LEMMA NewType ==
    ASSUME NEW r \in Requests, Contents(file), NEW new, new = [f \in Files |-> NewFile(r, f)]
    PROVE  Contents(new)
<1>1. r \in Request
  BY ConfigAssumption DEF ConfigAssumption
<1>2. /\ r.port \in Ports /\ r.proto \in Protos /\ r.addr \in Addrs \union {None}
      /\ r.dns1 \in Resolvers \union {Empty, None} /\ r.dns2 \in Resolvers \union {Empty, None}
      /\ r.extras \in (SUBSET Ports) \union {None}
  BY <1>1 DEF Request
<1>3. r.v6 \in BOOLEAN \union {None}
  BY <1>1 DEF Request
<1>4. new["conf"] \in Conf
  <2> DEFINE dns == IF DnsProvided(r) THEN DnsDesired(r) ELSE file["conf"].dns
             v6 == IF r.v6 # None THEN r.v6 ELSE file["conf"].v6
  <2>1. file["conf"].dns \in Seq(Resolvers)
    BY DEF Contents, Conf
  <2>2. DnsDesired(r) \in Seq(Resolvers)
    BY <1>2, ListedType, EffectiveType DEF DnsDesired
  <2>3. dns \in Seq(Resolvers)
    BY <2>1, <2>2
  <2>4. file["conf"].v6 \in BOOLEAN
    BY DEF Contents, Conf
  <2>5. v6 \in BOOLEAN
    BY <1>3, <2>4, Zenon
  <2>6. new["conf"] = [port |-> r.port, proto |-> r.proto, dns |-> dns, v6 |-> v6]
    BY Named DEF NewFile
  <2> HIDE DEF dns, v6
  <2> QED  BY <1>2, <2>3, <2>5, <2>6 DEF Conf
<1>5. new["tmpl"] \in Tmpl
  <2>1. Tunnel(r) \in Addrs \union {Placeholder}
    <3>1. file["tmpl"].addr \in Addrs \union {Placeholder}
      BY DEF Contents, Tmpl
    <3>2. PublicAddr \in Addrs
      BY ConfigAssumption DEF ConfigAssumption
    <3> QED  BY <1>2, <3>1, <3>2 DEF Tunnel
  <2>2. Extras(r) \in SUBSET Ports
    <3>1. PortsEffective \in SUBSET Ports
      BY ConfigAssumption DEF ConfigAssumption, PortsEffective, Contents
    <3> QED  BY <1>2, <3>1 DEF Extras
  <2>3. new["tmpl"] = [proto |-> r.proto, addr |-> Tunnel(r), ports |-> {r.port} \union Extras(r)]
    BY Named DEF NewFile
  <2> QED  BY <1>2, <2>1, <2>2, <2>3 DEF Tmpl
<1>6. new["dns"] \in [dns1 : Resolvers \union {Empty}, dns2 : Resolvers \union {Empty}] \union {None}
  <2>1. new["dns"] = IF DnsProvided(r) THEN DnsState(r) ELSE file["dns"]
    BY Named DEF NewFile
  <2>2. DnsState(r) \in [dns1 : Resolvers \union {Empty}, dns2 : Resolvers \union {Empty}]
    BY <1>2, ConfigAssumption DEF ConfigAssumption, DnsState
  <2> QED  BY <2>1, <2>2 DEF Contents
<1>7. new["v6"] \in BOOLEAN \union {None}
  <2>1. new["v6"] = IF r.v6 # None THEN r.v6 ELSE file["v6"]
    BY Named DEF NewFile
  <2>2. file["v6"] \in BOOLEAN \union {None}
    BY DEF Contents
  <2> QED  BY <1>3, <2>1, <2>2, Zenon
<1>8. new["ports"] \in (SUBSET Ports) \union {None}
  <2>1. new["ports"] = IF r.extras # None THEN r.extras ELSE file["ports"]
    BY Named DEF NewFile
  <2> QED  BY <1>2, <2>1 DEF Contents
<1>9. new["nat"] \in NatConf \union {None}
  <2>1. new["nat"] = IF r.extras # None /\ file["nat"] # None
                       THEN [on |-> file["nat"].on, primary |-> r.port, extras |-> r.extras]
                       ELSE file["nat"]
    BY Named DEF NewFile
  <2>2. file["nat"] # None => file["nat"] \in NatConf
    BY DEF Contents
  <2>3. file["nat"] # None => file["nat"].on \in BOOLEAN
    BY <2>2 DEF NatConf
  <2>4. r.extras # None => r.extras \in SUBSET Ports
    BY <1>2
  <2>5. r.extras # None /\ file["nat"] # None =>
          [on |-> file["nat"].on, primary |-> r.port, extras |-> r.extras] \in NatConf
    BY <1>2, <2>3, <2>4 DEF NatConf
  <2> QED  BY <2>1, <2>2, <2>5 DEF Contents
<1> QED  BY <1>4, <1>5, <1>6, <1>7, <1>8, <1>9 DEF Contents

\* The rules that `nat apply' adds.
LEMMA RulesType ==
    ASSUME Shaped, Undo, Planned, Written, Typed, job.step = "apply"
    PROVE  file["nat"].extras \X {file["nat"].primary} \subseteq Ports \X Ports
<1>1. ~Idle /\ job.step \in Forward
  BY DEF Idle, Forward
<1>2. job.req.extras # None /\ "nat" \notin job.todo /\ job.old["nat"] # None
  BY <1>1 DEF Written
<1>3. file["nat"] = job.new["nat"]
  BY <1>1, <1>2 DEF Written
<1>4. job.new["nat"] = [on |-> job.old["nat"].on, primary |-> job.req.port,
                        extras |-> job.req.extras]
  BY <1>1, <1>2 DEF Planned, Plan
<1>5. job.req \in Request
  BY <1>1, ConfigAssumption DEF Shaped, ConfigAssumption
<1>6. job.req.port \in Ports /\ job.req.extras \in (SUBSET Ports) \union {None}
  BY <1>5 DEF Request
<1>7. file["nat"].primary \in Ports /\ file["nat"].extras \subseteq Ports
  BY <1>2, <1>3, <1>4, <1>6
<1> QED  BY <1>7

LEMMA TypedInit == Init => Typed
<1> SUFFICES ASSUME Init PROVE Typed
  OBVIOUS
<1>1. Idle
  BY DEF Init, Idle, NoJob
<1>2. PICK nat \in {None} \union
             {[on |-> on, primary |-> DefPort, extras |-> DefExtras] : on \in BOOLEAN},
           addr \in InitAddrs :
         LET conf == [port |-> DefPort, proto |-> "tcp",
                      dns |-> Listed(Def1, Def2), v6 |-> FALSE]
         IN  /\ file = [f \in Files |->
                  CASE f = "conf" -> conf
                    [] f = "tmpl" -> [proto |-> "tcp", addr |-> addr,
                                      ports |-> {DefPort} \union DefExtras]
                    [] f = "nat"  -> nat
                    [] OTHER      -> None]
             /\ redirects = IF nat # None /\ nat.on THEN DefExtras \X {DefPort} ELSE {}
             /\ vpn = [up |-> TRUE, conf |-> conf, signal |-> "none"]
  BY DEF Init
<1>3. /\ DefPort \in Ports /\ DefExtras \subseteq Ports /\ Def1 \in Resolvers
      /\ Def2 \in Resolvers /\ addr \in Addrs \union {Placeholder}
  BY <1>2, ConfigAssumption DEF ConfigAssumption
<1>4. Listed(Def1, Def2) \in Seq(Resolvers)
  BY <1>3, ListedType
<1> DEFINE conf == [port |-> DefPort, proto |-> "tcp", dns |-> Listed(Def1, Def2), v6 |-> FALSE]
<1>5. conf \in Conf
  BY <1>3, <1>4 DEF Conf, Protos
<1> HIDE DEF conf
<1>6. file["conf"] = conf /\ vpn.conf = conf
  BY <1>2, Named DEF conf
<1>7. file["tmpl"] = [proto |-> "tcp", addr |-> addr, ports |-> {DefPort} \union DefExtras]
  BY <1>2, Named
<1>8. file["tmpl"] \in Tmpl
  BY <1>3, <1>7 DEF Tmpl, Protos
<1>9. file["dns"] = None /\ file["v6"] = None /\ file["ports"] = None /\ file["nat"] = nat
  BY <1>2, Named
<1>10. nat \in NatConf \union {None}
  BY <1>2, <1>3 DEF NatConf
<1>11. redirects \subseteq Ports \X Ports
  BY <1>2, <1>3
<1>12. profile \in [CNs -> Tmpl \union {None}] /\ build \in [CNs -> Tmpl \union {None}]
  BY DEF Init
<1> QED  BY <1>1, <1>5, <1>6, <1>8, <1>9, <1>10, <1>11, <1>12 DEF Typed, TypeOK

\* TypeOK is about the files and about the rest.
Rest ==
    /\ redirects \subseteq Ports \X Ports
    /\ profile \in [CNs -> Tmpl \union {None}]
    /\ build \in [CNs -> Tmpl \union {None}]
    /\ vpn.conf \in Conf

LEMMA TypeParts == TypeOK <=> Contents(file) /\ Rest
BY DEF TypeOK, Contents, Rest

LEMMA TypedNext ==
    ASSUME Shaped, Undo, Planned, Written, Typed, Shape, Shaped' PROVE Typed'
<1> SUFFICES Contents(file') /\ Rest' /\ (~Idle' => Contents(job'.old) /\ Contents(job'.new))
  BY DEF Typed, TypeOK, Contents, Rest
<1>0. Contents(file) /\ Rest /\ (~Idle => Contents(job.old) /\ Contents(job.new))
  BY TypeParts DEF Typed
<1>a. ASSUME SamePlan, Idle => Idle'
      PROVE  ~Idle' => Contents(job'.old) /\ Contents(job'.new)
  BY <1>0, <1>a DEF SamePlan
<1>b. ASSUME redirects' = redirects, profile' = profile, build' = build,
             vpn'.conf \in {vpn.conf, file["conf"]}
      PROVE  Rest'
  BY <1>0, <1>b DEF Rest, Contents
<1>1. CASE Quiet
  BY <1>0, <1>1, <1>a, <1>b DEF Quiet, SameFiles, Idle
<1>2. CASE Moved
  BY <1>0, <1>2, <1>a, <1>b DEF Moved, SameFiles, Idle
<1>3. ASSUME NEW r \in Requests, NEW failed \in SUBSET Files, Begun(r, failed)
      PROVE  Contents(file') /\ Rest' /\ (~Idle' => Contents(job'.old) /\ Contents(job'.new))
  <2>1. Contents(job'.new)
    BY <1>0, <1>3, NewType DEF Begun
  <2> QED  BY <1>0, <1>3, <1>b, <2>1 DEF Begun, SameFiles
<1>4. ASSUME NEW f \in Files, Wrote(f)
      PROVE  Contents(file') /\ Rest' /\ (~Idle' => Contents(job'.old) /\ Contents(job'.new))
  <2>1. ~Idle /\ \A g \in Files : file'[g] \in {file[g], job.new[g]}
    BY <1>4 DEF Wrote, Idle, Shaped, IsFiles
  <2>2. Contents(file')
    BY <1>0, <2>1, Mixed
  <2> QED  BY <1>4, <1>a, <1>b, <2>1, <2>2 DEF Wrote
<1>5. ASSUME NEW f \in Files, Dropped(f)
      PROVE  Contents(file') /\ Rest' /\ (~Idle' => Contents(job'.old) /\ Contents(job'.new))
  BY <1>0, <1>5, <1>a, <1>b DEF Dropped, SameFiles, Idle
<1>c. ASSUME NEW f \in Files, Clipped(f)
      PROVE  Contents(file') /\ Rest' /\ (~Idle' => Contents(job'.old) /\ Contents(job'.new))
  <2>1. ~Idle /\ file'[f] \in Cut(f) /\ \A g \in Files : g # f => file'[g] = file[g]
    BY <1>c, ClippedFile DEF Clipped, Idle
  <2>2. CASE f = "dns"
    <3>1. DnsProvided(job.req)
      BY <1>c, <2>1, <2>2, TouchedFiles DEF Clipped, Undo
    <3>2. job.new["dns"] = DnsState(job.req)
      BY <2>1, <3>1 DEF Planned, Plan
    <3>3. job.new["dns"] \in [dns1 : Resolvers \union {Empty}, dns2 : Resolvers \union {Empty}]
      <4>1. job.req \in Request
        BY <2>1, ConfigAssumption DEF ConfigAssumption, Planned
      <4>2. /\ job.req.dns1 \in Resolvers \union {Empty, None}
            /\ job.req.dns2 \in Resolvers \union {Empty, None}
        BY <4>1 DEF Request
      <4> QED  BY <3>2, <4>2, ConfigAssumption DEF ConfigAssumption, DnsState
    <3>4. file'["dns"] \in [dns1 : Resolvers \union {Empty}, dns2 : Resolvers \union {Empty}]
      BY <2>1, <2>2, <3>3 DEF Cut, NoDns
    <3>5. Contents(file')
      BY <1>0, <2>1, <2>2, <3>4, Named DEF Contents
    <3> QED  BY <1>c, <1>a, <1>b, <2>1, <3>5 DEF Clipped, Idle
  <2>3. CASE f = "v6"
    <3>1. file'["v6"] = None
      BY <2>1, <2>3 DEF Cut
    <3>2. Contents(file')
      BY <1>0, <2>1, <2>3, <3>1, Named DEF Contents
    <3> QED  BY <1>c, <1>a, <1>b, <2>1, <3>2 DEF Clipped, Idle
  <2> QED  BY <1>c, <2>2, <2>3 DEF Clipped
<1>6. CASE NatDone
  <2>1. redirects' \subseteq Ports \X Ports
    BY <1>6, RulesType DEF NatDone
  <2>2. Rest'
    BY <1>0, <1>6, <2>1 DEF NatDone, Rest
  <2> QED  BY <1>0, <1>6, <1>a, <2>2 DEF NatDone, Idle
<1>7. CASE NatUndone
  <2>1. redirects' \subseteq Ports \X Ports
    BY <1>0, <1>7, RulesType DEF NatUndone, Rest
  <2>2. Rest'
    BY <1>0, <1>7, <2>1 DEF NatUndone, Rest
  <2>3. ~Idle /\ \A g \in Files : file'[g] \in {file[g], job.old[g]}
    BY <1>7 DEF NatUndone, Idle, Shaped, IsFiles
  <2>4. Contents(file')
    BY <1>0, <2>3, Mixed
  <2> QED  BY <1>7, <1>a, <2>2, <2>3, <2>4 DEF NatUndone
<1>8. CASE Invalidated
  <2>1. Rest'
    BY <1>0, <1>8 DEF Invalidated, Rest
  <2> QED  BY <1>0, <1>8, <1>a, <2>1 DEF Invalidated, Idle
<1>9. CASE Succeeded \/ Failed
  BY <1>0, <1>9, <1>b DEF Succeeded, Failed, SameFiles, Idle
<1>10. ASSUME NEW lost \in SUBSET Files, PutBack(lost)
       PROVE  Contents(file') /\ Rest' /\ (~Idle' => Contents(job'.old) /\ Contents(job'.new))
  <2>1. ~Idle /\ \A g \in Files : file'[g] \in {file[g], job.old[g]}
    BY <1>10 DEF PutBack, Idle, Undo
  <2>2. Contents(file')
    BY <1>0, <2>1, Mixed
  <2> QED  BY <1>10, <1>a, <1>b, <2>1, <2>2 DEF PutBack
<1>11. ASSUME NEW cn \in CNs, TemplateRead(cn)
       PROVE  Contents(file') /\ Rest' /\ (~Idle' => Contents(job'.old) /\ Contents(job'.new))
  <2>1. Rest'
    BY <1>0, <1>11 DEF TemplateRead, SameFiles, Rest, Contents
  <2> QED  BY <1>0, <1>11, <2>1 DEF TemplateRead, SameFiles, Idle
<1>12. ASSUME NEW cn \in CNs, ProfileWritten(cn)
       PROVE  Contents(file') /\ Rest' /\ (~Idle' => Contents(job'.old) /\ Contents(job'.new))
  <2>1. Rest'
    BY <1>0, <1>12 DEF ProfileWritten, Rest
  <2> QED  BY <1>0, <1>12, <2>1 DEF ProfileWritten, Idle
<1>13. CASE Stopped
  <2>1. Rest'
    BY <1>0, <1>13 DEF Stopped, SameFiles, Rest
  <2> QED  BY <1>0, <1>13, <2>1 DEF Stopped, SameFiles, Idle
<1>14. CASE Regenerated
  <2>1. FreshServerConf \in Conf
    <3>1. IPv6Effective \in BOOLEAN
      BY DEF IPv6Effective
    <3>2. DefPort \in Ports
      BY ConfigAssumption DEF ConfigAssumption
    <3> QED  BY <1>0, <3>1, <3>2, EffectiveType DEF FreshServerConf, Conf, Protos
  <2>2. /\ file'["conf"] = FreshServerConf
        /\ \A g \in Files : g # "conf" => file'[g] = file[g]
    BY <1>14, Named DEF Regenerated, Shaped, IsFiles
  <2>3. /\ file'["tmpl"] = file["tmpl"] /\ file'["dns"] = file["dns"] /\ file'["v6"] = file["v6"]
        /\ file'["ports"] = file["ports"] /\ file'["nat"] = file["nat"]
    BY <2>2, Named
  <2>4. Contents(file')
    BY <1>0, <2>1, <2>2, <2>3 DEF Contents
  <2> QED  BY <1>0, <1>14, <1>b, <2>4 DEF Regenerated, Idle
<1> QED  BY <1>1, <1>2, <1>3, <1>4, <1>5, <1>c, <1>6, <1>7, <1>8, <1>9, <1>10, <1>11, <1>12, <1>13,
            <1>14 DEF Shape

------------------------------------------------------------------------------
(***************************************************************************)
(* The theorems.                                                           *)
(***************************************************************************)
LEMMA ConfigInvInit == Init => ConfigInv
<1> SUFFICES ASSUME Init PROVE ConfigInv
  OBVIOUS
<1>1. Shaped /\ Undo /\ Typed
  BY UndoInit, TypedInit
<1>2. job = NoJob /\ job.step = "idle" /\ hist = NoHistory
  BY DEF Init, NoJob
<1>3. Idle /\ Planned /\ Written
  BY <1>2 DEF Idle, Planned, Written, Forward
<1>4. \A cn \in CNs : profile[cn] = None /\ build[cn] = None
  BY DEF Init
<1>5. Cached
  BY <1>4 DEF Cached
<1>6. hist.dns = None
  BY <1>2 DEF NoHistory
<1>7. Pushed
  BY <1>6 DEF Pushed
<1>8. ListedPortsLeadToServer
  <2>1. PICK nat : /\ file["conf"].port = DefPort
                   /\ file["tmpl"].ports = {DefPort} \union DefExtras
                   /\ file["nat"] = nat
                   /\ redirects = IF nat # None /\ nat.on THEN DefExtras \X {DefPort} ELSE {}
    BY Named DEF Init
  <2> QED  BY <2>1 DEF ListedPortsLeadToServer
<1>9. Led
  BY <1>2, <1>8 DEF Led, Forward
<1> QED  BY <1>1, <1>3, <1>5, <1>7, <1>9 DEF ConfigInv

LEMMA ConfigInvNext == ConfigInv /\ [Next]_vars => ConfigInv'
<1> SUFFICES ASSUME ConfigInv, [Next]_vars PROVE ConfigInv'
  OBVIOUS
<1>1. Shaped /\ Undo /\ Planned /\ Written /\ Cached /\ Pushed /\ Led /\ Typed
  BY DEF ConfigInv
<1>2. Shape /\ Shaped'
  BY <1>1, ShapeOfNext
<1> QED  BY <1>1, <1>2, UndoNext, PlannedNext, WrittenNext, CachedNext, PushedNext, LedNext,
            TypedNext DEF ConfigInv

\* The invariant holds in every behaviour, whatever is asked of the node and
\* whatever fails.
THEOREM ConfigInvAlways == Spec => []ConfigInv
<1>1. Init => ConfigInv  BY ConfigInvInit
<1>2. ConfigInv /\ [Next]_vars => ConfigInv'  BY ConfigInvNext
<1> QED  BY <1>1, <1>2, PTL DEF Spec

\* The files, the rules, the cached profiles and the configuration OpenVPN
\* runs keep their types: no write of ChangeConfig leaves a file half made.
THEOREM TypeCorrect == Spec => []TypeOK
<1>1. ConfigInv => TypeOK  BY DEF ConfigInv, Typed
<1> QED  BY <1>1, ConfigInvAlways, PTL

\* ChangeConfig rolls back: a change that is answered with a failure has left
\* every file as it was, those apart whose snapshot could not be taken or put
\* back.
THEOREM FailureUndoes == Spec => []FailedChangeIsUndone
<1>1. ConfigInv => FailedChangeIsUndone
  BY DEF ConfigInv, Undo, Idle, FailedChangeIsUndone
<1> QED  BY <1>1, ConfigInvAlways, PTL

\* Every port the template lists leads to the server, through any changes
\* that name the extra ports, as long as nothing fails.
THEOREM PortsLead == Spec => []ListedPortsLeadToServer
<1>1. ConfigInv => ListedPortsLeadToServer
  BY DEF ConfigInv, Led, Idle, NoJob, ListedPortsLeadToServer
<1> QED  BY <1>1, ConfigInvAlways, PTL

\* The resolvers the panel has pushed stay, through changes that fail and
\* through a server.conf that is generated anew.
THEOREM DnsSurvives == Spec => []PushedDnsSurvives
<1>1. ConfigInv => PushedDnsSurvives
  <2> SUFFICES ASSUME ConfigInv, job = NoJob, hist.dns # None, ~hist.lost
               PROVE  file["conf"].dns = hist.dns
    BY DEF PushedDnsSurvives
  <2>1. Idle
    BY DEF Idle, NoJob
  <2> QED  BY <2>1 DEF ConfigInv, Pushed, Pushes
<1> QED  BY <1>1, ConfigInvAlways, PTL

\* A cached profile that no change has met is the one the template gives now.
THEOREM ProfileIsCurrent == Spec => []CachedProfileIsCurrent
<1>1. ConfigInv => CachedProfileIsCurrent
  <2>1. job = NoJob => Idle
    BY DEF Idle, NoJob
  <2> QED  BY <2>1 DEF ConfigInv, Cached, CachedProfileIsCurrent
<1> QED  BY <1>1, ConfigInvAlways, PTL

============================================================================
