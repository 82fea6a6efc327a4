------------------------------- MODULE ApiAuth -------------------------------
(***************************************************************************)
(* What stands before every handler of the API: the sliding-window limits *)
(* of ratelimit.go, the comparison of the key, and the lease one panel     *)
(* holds on the node (pairing.go), in the order authorize takes them.      *)
(*                                                                         *)
(* Requests run concurrently and each call of the limiter is one critical  *)
(* section, so a request is one step per call.  The answers that precede   *)
(* the first call (no key sent, no key configured) change nothing and are  *)
(* left out.  Heavy or light, panel and contract version are inputs of the *)
(* step that looks at them first.  Time is a bounded counter; a step takes *)
(* no time.  The limiter lives in memory and a restart empties it, the     *)
(* lease is a file that is renamed into place.                             *)
(***************************************************************************)
EXTENDS Integers, Sequences, FiniteSets, FiniteSetsExt

CONSTANTS
    Requests,       \* the requests that are served at the same time
    Clients,        \* connecting addresses
    Panels,         \* values of X-Panel-ID
    NoPanel,        \* the header is empty or absent
    Window,         \* window of the per-address, heavy and global limits
    FailedWindow,   \* window of the limit on wrong keys
    MaxRequests, GlobalMax, HeavyMax, FailedMax,
    MaxBuckets,     \* a table this large is cut down ...
    EvictTo,        \* ... to this size
    PruneEvery,     \* otherwise tables are swept this often
    LeaseSeconds,   \* how long a silent owner keeps the node
    RefreshSeconds, \* how old last_seen may get before it is rewritten
    MaxTime,        \* bound of the clock
    MaxSent,        \* bound of the requests sent
    MaxTrouble      \* bound of restarts, damaged leases and releases together

ASSUME AuthAssumption ==
    /\ IsFiniteSet(Requests) /\ IsFiniteSet(Clients)
    /\ NoPanel \notin Panels
    /\ {Window, FailedWindow, MaxRequests, GlobalMax, HeavyMax, FailedMax,
        PruneEvery, LeaseSeconds, RefreshSeconds} \subseteq Nat \ {0}
    /\ EvictTo \in Nat /\ MaxBuckets \in Nat /\ EvictTo < MaxBuckets
    /\ {MaxTime, MaxSent, MaxTrouble} \subseteq Nat

VARIABLES
    now,
    limiter,   \* the Limiter: buckets, heavy, failed, global, lastPrune
    pairing,   \* pairing.json: absent (a record that names no panel counts
               \* as that), unreadable, or the lease it holds
    req,       \* per request: the call it is about to make
    sent,      \* requests so far
    trouble,   \* restarts, damages and releases so far
    hist       \* ghost: wrong keys compared, last panel served

vars == <<now, limiter, pairing, req, sent, trouble, hist>>

Never == -1
Times == 0 .. MaxTime
Absent == [kind |-> "absent"]
Corrupt == [kind |-> "corrupt"]
Paired(p, t) == [kind |-> "paired", panel |-> p, seen |-> t]
Unserved == [panel |-> NoPanel, at |-> Never]
Idle == [pc |-> "idle"]
At(pc, c) == [pc |-> pc, client |-> c]

NewLimiter ==
    [lastPrune |-> Never, buckets |-> << >>, heavy |-> << >>,
     failed |-> << >>, global |-> << >>]

Init ==
    /\ now = 0
    /\ limiter = NewLimiter
    /\ pairing = Absent
    /\ req = [r \in Requests |-> Idle]
    /\ sent = 0
    /\ trouble = 0
    /\ hist = [guesses |-> [c \in Clients |-> << >>],
               served |-> Unserved]

-----------------------------------------------------------------------------
(* The limiter *)

\* The entries from the first one that is still inside the window on.
TrimExpired(ts, t, w) ==
    LET live == {i \in DOMAIN ts : t - ts[i] < w}
    IN  IF live = {} THEN << >> ELSE SubSeq(ts, Min(live), Len(ts))

Surviving(m, t, w) == {c \in DOMAIN m : TrimExpired(m[c].ts, t, w) # << >>}

\* The buckets that stay when a table is swept.  A full table keeps the
\* EvictTo buckets used last; which of several used at the same instant go
\* is up to the order in which Go walks a map.
Kept(m, t, w) ==
    LET live == Surviving(m, t, w)
    IN  IF Cardinality(live) < MaxBuckets
          THEN {live}
          ELSE {K \in SUBSET live :
                  /\ Cardinality(K) = EvictTo
                  /\ \A c \in live \ K, d \in K : m[c].last <= m[d].last}

PruneMap(m, t, w) ==
    {[c \in K |-> [m[c] EXCEPT !.ts = TrimExpired(@, t, w)]] : K \in Kept(m, t, w)}

PruneIsDue(l, t) ==
    \/ l.lastPrune = Never
    \/ t - l.lastPrune >= PruneEvery
    \/ \E m \in {l.buckets, l.heavy, l.failed} : Cardinality(DOMAIN m) >= MaxBuckets

\* Mutant of Sweep: wrong keys are swept with the window of the other tables.
SweepOneWindow(l, t) ==
    {[lastPrune |-> t, buckets |-> b, heavy |-> h, failed |-> f,
      global |-> TrimExpired(l.global, t, Window)] :
        b \in PruneMap(l.buckets, t, Window), h \in PruneMap(l.heavy, t, Window),
        f \in PruneMap(l.failed, t, Window)}

\* Mutant of Sweep: the table of wrong keys is left to its own window.
SweepSkipsFailed(l, t) ==
    {[lastPrune |-> t, buckets |-> b, heavy |-> h, failed |-> l.failed,
      global |-> TrimExpired(l.global, t, Window)] :
        b \in PruneMap(l.buckets, t, Window), h \in PruneMap(l.heavy, t, Window)}

Sweep(l, t) ==
    {[lastPrune |-> t, buckets |-> b, heavy |-> h, failed |-> f,
      global |-> TrimExpired(l.global, t, Window)] :
        b \in PruneMap(l.buckets, t, Window), h \in PruneMap(l.heavy, t, Window),
        f \in PruneMap(l.failed, t, FailedWindow)}

Prune(l, t) == IF PruneIsDue(l, t) THEN Sweep(l, t) ELSE {l}

\* A client's bucket, made when there is none.
BucketOf(m, c, t, w) ==
    IF c \in DOMAIN m THEN [m[c] EXCEPT !.ts = TrimExpired(@, t, w)]
                      ELSE [ts |-> << >>, last |-> Never]

Put(m, c, b) == [d \in DOMAIN m \union {c} |-> IF d = c THEN b ELSE m[d]]

\* One more entry, or, when the bucket is full, only the time of the call.
Charge(b, t, max) ==
    IF Len(b.ts) >= max THEN [b EXCEPT !.last = t]
                        ELSE [ts |-> Append(b.ts, t), last |-> t]

Full(b, max) == Len(b.ts) >= max

\* Wrong keys whose count a sweep throws away with an evicted bucket.
Forgotten(l, l2, t) ==
    IF Cardinality(Surviving(l.failed, t, FailedWindow)) >= MaxBuckets
      THEN DOMAIN l.failed \ DOMAIN l2.failed ELSE {}

\* The limiter becomes l; the ghost forgets the guesses that l has no bucket for.
SetLimiter(l) ==
    /\ limiter' = l
    /\ hist' = [hist EXCEPT !.guesses =
                  [c \in Clients |-> IF c \in Forgotten(limiter, l, now)
                                       THEN << >> ELSE @[c]]]

Go(r, to) == req' = [req EXCEPT ![r] = to]

-----------------------------------------------------------------------------
(* authorize *)

\* limiter.Allow, for a request with a key from address c.
Allow(r, c) ==
    /\ req[r] = Idle
    /\ sent < MaxSent
    /\ sent' = sent + 1
    /\ \E l \in Prune(limiter, now) :
         LET b == BucketOf(l.buckets, c, now, Window)
             charged == [l EXCEPT !.buckets = Put(@, c, Charge(b, now, MaxRequests))]
         IN  IF Full(b, MaxRequests)
               THEN SetLimiter(charged) /\ Go(r, Idle)
               ELSE \E l2 \in Prune(charged, now) :
                      SetLimiter(l2) /\ Go(r, At("check", c))
    /\ UNCHANGED <<now, pairing, trouble>>

FailedBucket(c) == BucketOf(limiter.failed, c, now, FailedWindow)

\* limiter.FailedBlocked trims the bucket and adds nothing.
Trimmed(c) ==
    IF c \in DOMAIN limiter.failed
      THEN [limiter EXCEPT !.failed = Put(@, c, FailedBucket(c))] ELSE limiter

\* The address is locked out: refused before the key is looked at.
FailedBlocked(r) ==
    /\ req[r].pc = "check"
    /\ Full(FailedBucket(req[r].client), FailedMax)
    /\ limiter' = Trimmed(req[r].client)
    /\ Go(r, Idle)
    /\ UNCHANGED <<now, pairing, trouble, sent, hist>>

\* The key is compared, and is wrong.
KeyIsWrong(r) ==
    LET c == req[r].client
    IN  /\ req[r].pc = "check"
        /\ ~Full(FailedBucket(c), FailedMax)
        /\ limiter' = Trimmed(c)
        /\ Go(r, At("record", c))
        /\ hist' = [hist EXCEPT !.guesses[c] = Append(@, now)]
        /\ UNCHANGED <<now, pairing, trouble, sent>>

\* The key is compared, and is right.
KeyIsRight(r) ==
    LET c == req[r].client
    IN  /\ req[r].pc = "check"
        /\ ~Full(FailedBucket(c), FailedMax)
        /\ limiter' = Trimmed(c)
        /\ Go(r, At("global", c))
        /\ UNCHANGED <<now, pairing, trouble, sent, hist>>

\* limiter.RecordFailedAuth sweeps nothing.
RecordFailedAuth(r) ==
    LET c == req[r].client
        b == FailedBucket(c)
    IN  /\ req[r].pc = "record"
        /\ limiter' = [limiter EXCEPT
                         !.failed = Put(@, c, [ts |-> Append(b.ts, now), last |-> now])]
        /\ Go(r, Idle)
        /\ UNCHANGED <<now, pairing, trouble, sent, hist>>

\* limiter.AllowGlobal, once the key is proven.
AllowGlobal(r) ==
    /\ req[r].pc = "global"
    /\ \E l \in Prune(limiter, now) :
         LET ts == TrimExpired(l.global, now, Window)
         IN  IF Len(ts) >= GlobalMax
               THEN SetLimiter([l EXCEPT !.global = ts]) /\ Go(r, Idle)
               ELSE /\ SetLimiter([l EXCEPT !.global = Append(ts, now)])
                    /\ \E pc \in {"heavy", "pair"} : Go(r, At(pc, req[r].client))
    /\ UNCHANGED <<now, pairing, trouble, sent>>

\* limiter.AllowHeavy, for the handlers that issue or restart something.
AllowHeavy(r) ==
    /\ req[r].pc = "heavy"
    /\ \E l \in Prune(limiter, now) :
         LET c == req[r].client
             b == BucketOf(l.heavy, c, now, Window)
         IN  /\ SetLimiter([l EXCEPT !.heavy = Put(@, c, Charge(b, now, HeavyMax))])
             /\ Go(r, IF Full(b, HeavyMax) THEN Idle ELSE At("pair", c))
    /\ UNCHANGED <<now, pairing, trouble, sent>>

\* Mutant of Refuses: a file that does not parse counts as no file.
RefusesWholeFilesOnly(p) ==
    /\ pairing.kind = "paired"
    /\ p = NoPanel \/ (p # pairing.panel /\ now - pairing.seen <= LeaseSeconds)

\* pairing.Enforce refuses: another panel holds the lease, or who holds it
\* cannot be read.
Refuses(p) ==
    \/ pairing.kind = "corrupt"
    \/ /\ pairing.kind = "paired"
       /\ p = NoPanel \/ (p # pairing.panel /\ now - pairing.seen <= LeaseSeconds)

EnforceRefuses(r, p) ==
    /\ req[r].pc = "pair"
    /\ Refuses(p)
    /\ Go(r, Idle)
    /\ UNCHANGED <<now, limiter, pairing, trouble, sent, hist>>

\* The record is left alone for an owner seen within the last minute.
Fresh(p) ==
    /\ pairing.kind = "paired" /\ pairing.panel = p
    /\ now - pairing.seen < RefreshSeconds

\* Mutant of EnforceAdmits: a request without an identity takes the lease as well.
EnforceAdmitsAnyone(r, p, served) ==
    /\ req[r].pc = "pair"
    /\ ~Refuses(p)
    /\ pairing' = IF Fresh(p) THEN pairing ELSE Paired(p, now)
    /\ Go(r, Idle)
    /\ UNCHANGED <<now, limiter, trouble, sent, hist>>

\* pairing.Enforce lets the panel through and renews the lease.  A contract
\* version above ours is refused only after that (served is FALSE).
EnforceAdmits(r, p, served) ==
    /\ req[r].pc = "pair"
    /\ ~Refuses(p)
    /\ pairing' = IF p = NoPanel \/ Fresh(p) THEN pairing ELSE Paired(p, now)
    /\ Go(r, Idle)
    /\ hist' = IF served /\ p # NoPanel
                 THEN [hist EXCEPT !.served = [panel |-> p, at |-> now]] ELSE hist
    /\ UNCHANGED <<now, limiter, trouble, sent>>

\* The lock or the record cannot be written: refused, nothing changed.
EnforceFails(r) ==
    /\ req[r].pc = "pair"
    /\ Go(r, Idle)
    /\ UNCHANGED <<now, limiter, pairing, trouble, sent, hist>>

-----------------------------------------------------------------------------
(* Around it *)

Tick == now < MaxTime /\ now' = now + 1 /\ UNCHANGED <<limiter, pairing, req, trouble, sent, hist>>

\* The agent is restarted: requests are lost and the limits start afresh.
Restart ==
    /\ trouble < MaxTrouble
    /\ trouble' = trouble + 1
    /\ limiter' = NewLimiter
    /\ req' = [r \in Requests |-> Idle]
    /\ hist' = [hist EXCEPT !.guesses = [c \in Clients |-> << >>]]
    /\ UNCHANGED <<now, pairing, sent>>

\* Something outside leaves the pairing file so that it does not parse.
Damage ==
    /\ trouble < MaxTrouble
    /\ pairing # Absent
    /\ trouble' = trouble + 1
    /\ pairing' = Corrupt
    /\ UNCHANGED <<now, limiter, req, sent, hist>>

\* `ovnode auth disconnect` removes the file: the operator ends the lease.  A
\* file put in its place that parses and names no panel does the same.
Release ==
    /\ trouble < MaxTrouble
    /\ pairing # Absent
    /\ trouble' = trouble + 1
    /\ pairing' = Absent
    /\ hist' = [hist EXCEPT !.served = Unserved]
    /\ UNCHANGED <<now, limiter, req, sent>>

Next ==
    \/ \E r \in Requests :
         \/ \E c \in Clients : Allow(r, c)
         \/ FailedBlocked(r)
         \/ KeyIsWrong(r)
         \/ KeyIsRight(r)
         \/ RecordFailedAuth(r)
         \/ AllowGlobal(r)
         \/ AllowHeavy(r)
         \/ \E p \in Panels \union {NoPanel} :
              EnforceRefuses(r, p) \/ \E s \in BOOLEAN : EnforceAdmits(r, p, s)
         \/ EnforceFails(r)
    \/ Tick
    \/ Restart
    \/ Damage
    \/ Release

Spec == Init /\ [][Next]_vars

-----------------------------------------------------------------------------
(* Properties *)

Tables(m) == \A c \in DOMAIN m : c \in Clients /\ m[c].ts \in Seq(Times) /\ m[c].last \in Times

\* Types of the state; in particular the clock of the lease never runs ahead
\* and a request is at one of the calls of authorize.
TypeOK ==
    /\ now \in Times
    /\ limiter.lastPrune \in Times \union {Never}
    /\ Tables(limiter.buckets) /\ Tables(limiter.heavy) /\ Tables(limiter.failed)
    /\ limiter.global \in Seq(Times)
    /\ \/ pairing \in {Absent, Corrupt}
       \/ \E p \in Panels, t \in Times : pairing = Paired(p, t) /\ t <= now
    /\ req \in [Requests -> {Idle} \union
                  {At(pc, c) : pc \in {"check", "record", "global", "heavy", "pair"}, c \in Clients}]
    /\ sent \in 0 .. MaxSent
    /\ trouble \in 0 .. MaxTrouble

\* A node has one owner.  Once a panel was served, no other panel is served
\* for the lease and a second, less one refresh interval, for last_seen may be
\* that interval less a second older than the owner's last request (pairing.go:
\* Enforce, whose clock counts seconds).  Neither concurrent
\* requests, a restart, a file that does not parse nor a failed write opens a
\* gap; only the operator's release does, or a record that names no panel.
OneOwner ==
    [][LET old == hist.served
           new == hist'.served
       IN  old # Unserved /\ new # Unserved /\ new.panel # old.panel
             => new.at - old.at > LeaseSeconds - RefreshSeconds + 1]_vars

\* Within one window an address gets at most failedMax wrong keys compared,
\* and one more for each other request that was between the check and the
\* record at the time, as long as its bucket is neither evicted from a full
\* table nor lost to a restart (auth.go, FailedBlocked and RecordFailedAuth).
GuessesAreBounded ==
    \A c \in Clients :
        Cardinality({i \in DOMAIN hist.guesses[c] :
                       now - hist.guesses[c][i] < FailedWindow})
          <= FailedMax + Cardinality(Requests) - 1

\* No flood of addresses grows a table past its bound by more than the
\* requests under way: RecordFailedAuth sweeps nothing itself and relies on
\* the Allow that precedes it (ratelimit.go: prune).
TablesStayBounded ==
    /\ Cardinality(DOMAIN limiter.buckets) < MaxBuckets
    /\ Cardinality(DOMAIN limiter.heavy) <= MaxBuckets
    /\ Cardinality(DOMAIN limiter.failed) < MaxBuckets + Cardinality(Requests)
=============================================================================
