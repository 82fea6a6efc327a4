--------------------------- MODULE ApiAuthProofs ---------------------------
(***************************************************************************)
(* Proofs about ApiAuth, for any number of requests, addresses and panels, *)
(* any windows, limits, lease and refresh interval: first that a node has  *)
(* one owner at a time, then the types and the bounds of the limiter.      *)
(***************************************************************************)
EXTENDS ApiAuth, FiniteSetTheorems, SequenceTheorems, TLAPS

\* The parts of the state that decide who owns the node.
ClockInv == now \in Nat

PairingInv ==
    pairing \in {Absent, Corrupt} \union
                [kind : {"paired"}, panel : Panels, seen : Nat]

ServedInv ==
    /\ hist = [guesses |-> hist.guesses, served |-> hist.served]
    /\ hist.served \in {Unserved} \union [panel : Panels, at : Nat]

\* The lease of the panel that was served last is over, or nobody can take
\* it, or it is recorded with an age that one refresh interval explains.
LeaseInv ==
    hist.served # Unserved =>
        \/ now - hist.served.at > LeaseSeconds - RefreshSeconds + 1
        \/ pairing = Corrupt
        \/ /\ pairing.kind = "paired"
           /\ pairing.panel = hist.served.panel
           /\ pairing.seen > hist.served.at - RefreshSeconds

OwnerInv == ClockInv /\ PairingInv /\ ServedInv /\ LeaseInv

\* The durations are positive numbers.
LEMMA Durations == LeaseSeconds \in Nat \ {0} /\ RefreshSeconds \in Nat \ {0}
BY AuthAssumption DEF AuthAssumption

\* No panel is the absent one, so a served panel is never Unserved.
LEMMA ServedIsNotUnserved ==
    ASSUME NEW p \in Panels, NEW t PROVE [panel |-> p, at |-> t] # Unserved
BY AuthAssumption DEF AuthAssumption, Unserved

\* A step that leaves clock, lease and served panel alone keeps the invariant.
LEMMA OwnerFrame ==
    ASSUME OwnerInv, now' = now, pairing' = pairing, hist'.served = hist.served,
           hist' = [guesses |-> hist'.guesses, served |-> hist'.served]
    PROVE  OwnerInv'
BY DEF OwnerInv, ClockInv, PairingInv, ServedInv, LeaseInv

\* SetLimiter and the recording of a guess change the guesses only.
LEMMA GuessesOnly ==
    ASSUME ServedInv, NEW g, hist' = [hist EXCEPT !.guesses = g]
    PROVE  /\ hist'.served = hist.served
           /\ hist' = [guesses |-> hist'.guesses, served |-> hist'.served]
BY DEF ServedInv

LEMMA SetLimiterKeepsServed ==
    ASSUME ServedInv, NEW l, SetLimiter(l)
    PROVE  /\ hist'.served = hist.served
           /\ hist' = [guesses |-> hist'.guesses, served |-> hist'.served]
<1> DEFINE g == [c \in Clients |-> IF c \in Forgotten(limiter, l, now)
                                     THEN << >> ELSE hist.guesses[c]]
<1>1. hist' = [hist EXCEPT !.guesses = g]
  BY DEF SetLimiter, ServedInv
<1> QED  BY <1>1, GuessesOnly

\* The initial state.
LEMMA OwnerInit == Init => OwnerInv
BY DEF Init, OwnerInv, ClockInv, PairingInv, ServedInv, LeaseInv

\* The steps of a request up to its call of Enforce, and those that refuse.
LEMMA LimiterSteps ==
    ASSUME OwnerInv, NEW r \in Requests,
           \/ \E c \in Clients : Allow(r, c)
           \/ FailedBlocked(r) \/ KeyIsWrong(r) \/ KeyIsRight(r)
           \/ RecordFailedAuth(r) \/ AllowGlobal(r) \/ AllowHeavy(r)
           \/ \E p \in Panels \union {NoPanel} : EnforceRefuses(r, p)
           \/ EnforceFails(r)
    PROVE  OwnerInv' /\ hist'.served = hist.served
<1>1. now' = now /\ pairing' = pairing
  BY DEF Allow, FailedBlocked, KeyIsWrong, KeyIsRight, RecordFailedAuth,
         AllowGlobal, AllowHeavy, EnforceRefuses, EnforceFails
<1>2. ServedInv  BY DEF OwnerInv
<1>3. CASE hist' = hist
  BY <1>1, <1>2, <1>3, OwnerFrame DEF ServedInv
<1>4. CASE \E l : SetLimiter(l)
  BY <1>1, <1>2, <1>4, SetLimiterKeepsServed, OwnerFrame
<1>5. CASE KeyIsWrong(r)
  <2> DEFINE g == [hist.guesses EXCEPT ![req[r].client] = Append(@, now)]
  <2>1. hist' = [hist EXCEPT !.guesses = g]
    BY <1>2, <1>5 DEF KeyIsWrong, ServedInv
  <2> QED  BY <1>1, <1>2, <2>1, GuessesOnly, OwnerFrame
<1>6. hist' = hist \/ (\E l : SetLimiter(l)) \/ KeyIsWrong(r)
  BY DEF Allow, FailedBlocked, KeyIsRight, RecordFailedAuth,
         AllowGlobal, AllowHeavy, EnforceRefuses, EnforceFails
<1> QED  BY <1>3, <1>4, <1>5, <1>6

\* What an admission needs of the lease, and what it leaves.
LEMMA AdmissionStep ==
    ASSUME OwnerInv, NEW r \in Requests, NEW p \in Panels \union {NoPanel},
           NEW s \in BOOLEAN, EnforceAdmits(r, p, s)
    PROVE  /\ OwnerInv'
           /\ \/ hist' = hist
              \/ /\ hist'.served = [panel |-> p, at |-> now]
                 /\ hist.served # Unserved /\ p # hist.served.panel =>
                      now - hist.served.at > LeaseSeconds - RefreshSeconds + 1
<1> USE Durations DEF OwnerInv
<1>1. /\ now' = now /\ now \in Nat
      /\ PairingInv /\ ServedInv /\ LeaseInv /\ ~Refuses(p)
      /\ pairing' = IF p = NoPanel \/ Fresh(p) THEN pairing ELSE Paired(p, now)
      /\ hist' = IF s /\ p # NoPanel
                   THEN [hist EXCEPT !.served = [panel |-> p, at |-> now]] ELSE hist
  BY DEF EnforceAdmits, ClockInv
<1>2. p # NoPanel => p \in Panels
  OBVIOUS
<1>3. PairingInv'
  BY <1>1, <1>2 DEF PairingInv, Paired
<1>4. ServedInv'
  BY <1>1, <1>2 DEF ServedInv
\* Another panel is admitted only when the lease is over.
<1>5. hist.served # Unserved /\ p # NoPanel /\ p # hist.served.panel =>
        now - hist.served.at > LeaseSeconds - RefreshSeconds + 1
  BY <1>1 DEF Refuses, PairingInv, ServedInv, LeaseInv, Corrupt, Absent
<1>6. LeaseInv'
  <2>1. CASE p = NoPanel
    BY <1>1, <2>1 DEF LeaseInv
  <2>2. CASE p # NoPanel /\ ~s
    <3>1. hist' = hist  BY <1>1, <2>2
    <3>2. CASE p = hist.served.panel /\ hist.served # Unserved
      BY <1>1, <2>2, <3>1, <3>2
         DEF LeaseInv, ServedInv, PairingInv, Paired, Fresh, Refuses, Corrupt, Absent
    <3>3. CASE p # hist.served.panel \/ hist.served = Unserved
      BY <1>1, <1>5, <2>2, <3>1, <3>3 DEF LeaseInv
    <3> QED  BY <3>2, <3>3
  <2>3. CASE p # NoPanel /\ s
    <3>1. hist'.served = [panel |-> p, at |-> now]
      BY <1>1, <2>3 DEF ServedInv
    <3>2. pairing'.kind = "paired" /\ pairing'.panel = p
             /\ pairing'.seen > now - RefreshSeconds
      BY <1>1, <1>2, <2>3 DEF Fresh, Paired, PairingInv, Absent, Corrupt
    <3> QED  BY <1>1, <3>1, <3>2 DEF LeaseInv
  <2> QED  BY <2>1, <2>2, <2>3
<1>7. hist' = hist \/ (p # NoPanel /\ hist'.served = [panel |-> p, at |-> now])
  BY <1>1 DEF ServedInv
<1> QED  BY <1>1, <1>3, <1>4, <1>5, <1>6, <1>7 DEF ClockInv

\* What happens around the requests.
LEMMA OtherSteps ==
    ASSUME OwnerInv, Tick \/ Restart \/ Damage \/ Release
    PROVE  OwnerInv' /\ (hist'.served = hist.served \/ hist'.served = Unserved)
<1> USE Durations DEF OwnerInv
<1>1. CASE Tick
  <2>1. now' = now + 1 /\ pairing' = pairing /\ hist' = hist  BY <1>1 DEF Tick
  <2> QED  BY <2>1 DEF ClockInv, PairingInv, ServedInv, LeaseInv
<1>2. CASE Restart
  <2>1. /\ now' = now /\ pairing' = pairing
        /\ hist' = [hist EXCEPT !.guesses = [c \in Clients |-> << >>]]
    BY <1>2 DEF Restart
  <2> QED  BY <2>1, GuessesOnly, OwnerFrame
<1>3. CASE Damage
  <2>1. now' = now /\ pairing' = Corrupt /\ hist' = hist  BY <1>3 DEF Damage
  <2> QED  BY <2>1 DEF ClockInv, PairingInv, ServedInv, LeaseInv
<1>4. CASE Release
  <2>1. /\ now' = now /\ pairing' = Absent
        /\ hist' = [hist EXCEPT !.served = Unserved]
    BY <1>4 DEF Release
  <2> QED  BY <2>1 DEF ClockInv, PairingInv, ServedInv, LeaseInv
<1> QED  BY <1>1, <1>2, <1>3, <1>4

\* The relation of OneOwner, step by step.
Handover ==
    LET old == hist.served
        new == hist'.served
    IN  old # Unserved /\ new # Unserved /\ new.panel # old.panel
          => new.at - old.at > LeaseSeconds - RefreshSeconds + 1

LEMMA OwnerNext ==
    ASSUME OwnerInv, [Next]_vars
    PROVE  OwnerInv' /\ Handover
<1>1. CASE UNCHANGED vars
  BY <1>1, OwnerFrame DEF vars, OwnerInv, ServedInv, Handover
<1>2. CASE \E r \in Requests, p \in Panels \union {NoPanel}, s \in BOOLEAN :
             EnforceAdmits(r, p, s)
  <2>1. PICK r \in Requests, p \in Panels \union {NoPanel}, s \in BOOLEAN :
               EnforceAdmits(r, p, s)
    BY <1>2
  <2>2. /\ OwnerInv'
        /\ \/ hist' = hist
           \/ /\ hist'.served = [panel |-> p, at |-> now]
              /\ hist.served # Unserved /\ p # hist.served.panel =>
                   now - hist.served.at > LeaseSeconds - RefreshSeconds + 1
    BY <2>1, AdmissionStep
  <2>3. CASE hist' = hist
    BY <2>2, <2>3 DEF Handover
  <2>4. CASE hist' # hist
    BY <2>2, <2>4 DEF Handover
  <2> QED  BY <2>2, <2>3, <2>4
<1>3. CASE \E r \in Requests :
             \/ \E c \in Clients : Allow(r, c)
             \/ FailedBlocked(r) \/ KeyIsWrong(r) \/ KeyIsRight(r)
             \/ RecordFailedAuth(r) \/ AllowGlobal(r) \/ AllowHeavy(r)
             \/ \E p \in Panels \union {NoPanel} : EnforceRefuses(r, p)
             \/ EnforceFails(r)
  BY <1>3, LimiterSteps DEF Handover
<1>4. CASE Tick \/ Restart \/ Damage \/ Release
  BY <1>4, OtherSteps DEF Handover
<1> QED  BY <1>1, <1>2, <1>3, <1>4 DEF Next

(***************************************************************************)
(* A node has one owner: once a panel was served no other one is served    *)
(* before the lease, less one refresh interval, is over, unless the        *)
(* operator releases it (Enforce in pairing.go).                           *)
(***************************************************************************)
THEOREM NodeHasOneOwner == Spec => OneOwner
<1>1. Init => OwnerInv  BY OwnerInit
<1>2. OwnerInv /\ [Next]_vars => OwnerInv'  BY OwnerNext
<1>3. OwnerInv /\ [Next]_vars => [Handover]_vars  BY OwnerNext
<1> QED  BY <1>1, <1>2, <1>3, PTL DEF Spec, OneOwner, Handover

------------------------------------------------------------------------------
(***************************************************************************)
(* The limiter: types and counts.                                          *)
(***************************************************************************)
BucketType == [ts : Seq(Times), last : Times]

IsTable(m) == DOMAIN m \subseteq Clients /\ m \in [DOMAIN m -> BucketType]

LimiterType(l) ==
    /\ l = [lastPrune |-> l.lastPrune, buckets |-> l.buckets, heavy |-> l.heavy,
            failed |-> l.failed, global |-> l.global]
    /\ l.lastPrune \in Times \union {Never}
    /\ IsTable(l.buckets) /\ IsTable(l.heavy) /\ IsTable(l.failed)
    /\ l.global \in Seq(Times)

Calls == {"check", "record", "global", "heavy", "pair"}

StateInv ==
    /\ now \in Times
    /\ LimiterType(limiter)
    /\ \/ pairing \in {Absent, Corrupt}
       \/ \E p \in Panels, t \in Times : pairing = Paired(p, t) /\ t <= now
    /\ req \in [Requests -> {Idle} \union {At(pc, c) : pc \in Calls, c \in Clients}]
    /\ sent \in 0 .. MaxSent
    /\ trouble \in 0 .. MaxTrouble

\* The requests between the check of the lockout and the record of the guess.
Between == {r \in Requests : req[r].pc \in {"check", "record"}}

\* A guess that is still to be recorded counts as if it were.
SizeInv ==
    /\ Cardinality(DOMAIN limiter.buckets) < MaxBuckets
    /\ Cardinality(DOMAIN limiter.heavy) <= MaxBuckets
    /\ Cardinality(DOMAIN limiter.failed) + Cardinality(Between)
         < MaxBuckets + Cardinality(Requests)

Since(ts, t) == {i \in DOMAIN ts : ts[i] >= t}
Count(ts, t) == Cardinality(Since(ts, t))

FailedTs(l, c) == IF c \in DOMAIN l.failed THEN l.failed[c].ts ELSE << >>

Recording(c) == {r \in Requests : req[r] = At("record", c)}

\* Every guess of the window is in the bucket of its address or about to be
\* put there.
CountInv ==
    /\ hist = [guesses |-> hist.guesses, served |-> hist.served]
    /\ hist.guesses \in [Clients -> Seq(Times)]
    /\ \A c \in Clients : \A i \in DOMAIN hist.guesses[c] : hist.guesses[c][i] <= now
    /\ \A c \in Clients, t \in Int : t > now - FailedWindow =>
         Count(hist.guesses[c], t) <= Count(FailedTs(limiter, c), t) + Cardinality(Recording(c))

LimiterInv == StateInv /\ SizeInv /\ CountInv /\ GuessesAreBounded

\* The constants are numbers and the sets of the model are finite.
LEMMA Constants ==
    /\ IsFiniteSet(Requests) /\ IsFiniteSet(Clients)
    /\ Window \in Nat \ {0} /\ FailedWindow \in Nat \ {0} /\ MaxRequests \in Nat \ {0}
    /\ HeavyMax \in Nat \ {0} /\ FailedMax \in Nat \ {0}
    /\ EvictTo \in Nat /\ MaxBuckets \in Nat /\ EvictTo < MaxBuckets
    /\ MaxTime \in Nat /\ MaxSent \in Nat /\ MaxTrouble \in Nat
BY AuthAssumption DEF AuthAssumption

\* A set of natural numbers that is not empty has a least element.
LEMMA LeastNumber ==
    ASSUME NEW T, T \subseteq Nat, T # {}
    PROVE  \E x \in T : \A y \in T : x <= y
<1> DEFINE R == {ss \in Nat \X Nat : ss[1] < ss[2]}
<1>1. IsWellFoundedOn(R, Nat)
  BY NatLessThanWellFounded DEF OpToRel
<1>2. ASSUME NEW x \in Nat, NEW y \in Nat, x < y PROVE <<x, y>> \in R
  BY <1>2
<1> HIDE DEF R
<1>3. PICK x \in T : \A y \in T : ~(<<y, x>> \in R)
  BY <1>1, WFMin
<1>4. ASSUME NEW y \in T PROVE x <= y
  <2>1. x \in Nat /\ y \in Nat
    OBVIOUS
  <2>2. ~(y < x)
    BY <1>2, <1>3, <2>1
  <2> QED  BY <2>1, <2>2
<1> QED  BY <1>3, <1>4

\* TrimExpired keeps a suffix, and drops no entry that is inside the window.
LEMMA TrimIsSuffix ==
    ASSUME NEW ts \in Seq(Times), NEW t \in Int, NEW w \in Int
    PROVE  \/ /\ TrimExpired(ts, t, w) = << >>
              /\ \A i \in DOMAIN ts : ~(t - ts[i] < w)
           \/ \E m \in 1 .. Len(ts) :
                /\ TrimExpired(ts, t, w) = SubSeq(ts, m, Len(ts))
                /\ \A i \in 1 .. m - 1 : ~(t - ts[i] < w)
<1> DEFINE live == {i \in DOMAIN ts : t - ts[i] < w}
<1>1. DOMAIN ts = 1 .. Len(ts) /\ Len(ts) \in Nat
  OBVIOUS
<1>2. CASE live = {}
  <2>1. TrimExpired(ts, t, w) = << >>
    BY <1>2 DEF TrimExpired
  <2> QED  BY <1>2, <2>1
<1>3. CASE live # {}
  <2>1. TrimExpired(ts, t, w) = SubSeq(ts, Min(live), Len(ts))
    BY <1>3 DEF TrimExpired
  <2>2. live \subseteq Nat /\ live \subseteq 1 .. Len(ts)
    BY <1>1
  <2> HIDE DEF live
  <2>3. \E x \in live : \A y \in live : x <= y
    BY <1>3, <2>2, LeastNumber
  <2>4. Min(live) \in live /\ \A y \in live : Min(live) <= y
    BY <2>3 DEF Min
  <2>5. Min(live) \in 1 .. Len(ts)
    BY <2>2, <2>4
  <2>6. ASSUME NEW i \in 1 .. Min(live) - 1 PROVE ~(t - ts[i] < w)
    <3>1. i \in DOMAIN ts /\ ~(Min(live) <= i)
      BY <1>1, <2>5
    <3>2. i \notin live
      BY <2>4, <3>1
    <3> QED  BY <3>1, <3>2 DEF live
  <2> QED  BY <2>1, <2>5, <2>6
<1> QED  BY <1>2, <1>3

LEMMA TrimType ==
    ASSUME NEW ts \in Seq(Times), NEW t \in Int, NEW w \in Int
    PROVE  TrimExpired(ts, t, w) \in Seq(Times)
<1>1. CASE TrimExpired(ts, t, w) = << >>
  BY <1>1
<1>2. ASSUME NEW m \in 1 .. Len(ts), TrimExpired(ts, t, w) = SubSeq(ts, m, Len(ts))
      PROVE  TrimExpired(ts, t, w) \in Seq(Times)
  <2>1. m \in Int /\ Len(ts) \in Int /\ \A i \in m .. Len(ts) : ts[i] \in Times
    OBVIOUS
  <2> QED  BY <1>2, <2>1, SubSeqProperties
<1> QED  BY <1>1, <1>2, TrimIsSuffix

\* Counting the entries since some time.
LEMMA CountType ==
    ASSUME NEW ts \in Seq(Times), NEW t
    PROVE  IsFiniteSet(Since(ts, t)) /\ Count(ts, t) \in Nat /\ Count(ts, t) <= Len(ts)
<1>1. Len(ts) \in Nat /\ DOMAIN ts = 1 .. Len(ts)
  OBVIOUS
<1>2. IsFiniteSet(1 .. Len(ts)) /\ Cardinality(1 .. Len(ts)) = Len(ts)
  BY <1>1, FS_Interval
<1>3. Since(ts, t) \in SUBSET (1 .. Len(ts))
  BY <1>1 DEF Since
<1> QED  BY <1>2, <1>3, FS_Subset, FS_CardinalityType DEF Count

LEMMA CountEmpty == ASSUME NEW t PROVE Count(<< >>, t) = 0
<1>1. Since(<< >>, t) = {}
  BY DEF Since
<1> QED  BY <1>1, FS_EmptySet DEF Count

LEMMA CountAppend ==
    ASSUME NEW ts \in Seq(Times), NEW t \in Int, NEW x \in Times
    PROVE  Count(Append(ts, x), t) = IF x >= t THEN Count(ts, t) + 1 ELSE Count(ts, t)
<1> DEFINE a == Append(ts, x)
           n == Len(ts) + 1
<1>1. Len(ts) \in Nat /\ DOMAIN ts = 1 .. Len(ts)
  OBVIOUS
<1>2. /\ a \in Seq(Times) /\ DOMAIN a = 1 .. n /\ a[n] = x
      /\ \A i \in 1 .. Len(ts) : a[i] = ts[i]
  BY AppendProperties
<1> HIDE DEF a
<1>3. Since(a, t) = IF x >= t THEN Since(ts, t) \cup {n} ELSE Since(ts, t)
  <2>1. \A i \in DOMAIN a : i = n \/ i \in DOMAIN ts
    BY <1>1, <1>2
  <2>2. DOMAIN ts \subseteq DOMAIN a /\ n \in DOMAIN a
    BY <1>1, <1>2
  <2> QED  BY <1>1, <1>2, <2>1, <2>2 DEF Since
<1>4. n \notin Since(ts, t)
  BY <1>1 DEF Since
<1>5. IsFiniteSet(Since(ts, t))
  BY CountType
<1>6. Cardinality(Since(ts, t) \cup {n}) = Cardinality(Since(ts, t)) + 1
  BY <1>4, <1>5, FS_AddElement
<1> QED  BY <1>3, <1>6 DEF Count, a

\* What TrimExpired drops does not count.
LEMMA CountTrim ==
    ASSUME NEW ts \in Seq(Times), NEW t \in Int, NEW w \in Int, NEW s \in Int, s > t - w
    PROVE  Count(ts, s) <= Count(TrimExpired(ts, t, w), s)
<1> DEFINE u == TrimExpired(ts, t, w)
<1>0. \A i \in DOMAIN ts : ts[i] \in Int
  BY Constants DEF Times
<1>1. u \in Seq(Times) /\ Len(ts) \in Nat /\ DOMAIN ts = 1 .. Len(ts)
  BY TrimType
<1>2. IsFiniteSet(Since(u, s)) /\ Count(u, s) \in Nat
  BY <1>1, CountType
<1>3. CASE \A i \in DOMAIN ts : ~(t - ts[i] < w)
  <2>1. Since(ts, s) = {}
    BY <1>0, <1>3 DEF Since
  <2>2. Count(ts, s) = 0
    BY <2>1, FS_EmptySet DEF Count
  <2> QED  BY <1>2, <2>2
<1>4. ASSUME NEW m \in 1 .. Len(ts), u = SubSeq(ts, m, Len(ts)),
             \A i \in 1 .. m - 1 : ~(t - ts[i] < w)
      PROVE  Count(ts, s) <= Count(u, s)
  <2>1. m \in Int /\ Len(ts) \in Int /\ m <= Len(ts) /\ \A i \in m .. Len(ts) : ts[i] \in Times
    BY <1>1
  <2> HIDE DEF u
  <2>2. /\ Len(u) = Len(ts) - m + 1
        /\ \A i \in 1 .. Len(ts) - m + 1 : u[i] = ts[m + i - 1]
    BY <1>4, <2>1, SubSeqProperties
  <2>3. DOMAIN u = 1 .. Len(ts) - m + 1
    BY <1>1, <2>2
  <2> DEFINE f == [i \in Since(ts, s) |-> i - m + 1]
  <2>4. ASSUME NEW i \in Since(ts, s) PROVE i \in 1 .. Len(ts) /\ i - m + 1 \in Since(u, s)
    <3>1. i \in 1 .. Len(ts) /\ ts[i] >= s /\ ts[i] \in Int
      BY <1>0, <1>1 DEF Since
    <3>2. i >= m
      BY <1>4, <2>1, <3>1
    <3>3. i - m + 1 \in 1 .. Len(ts) - m + 1 /\ m + (i - m + 1) - 1 = i
      BY <2>1, <3>1, <3>2
    <3>4. u[i - m + 1] = ts[i]
      BY <2>2, <3>3
    <3> QED  BY <2>3, <3>1, <3>3, <3>4 DEF Since
  <2>5. f \in [Since(ts, s) -> Since(u, s)]
    BY <2>4
  <2>6. \A a, b \in Since(ts, s) : f[a] = f[b] => a = b
    BY <2>1, <2>4
  <2> HIDE DEF f
  <2>7. f \in Injection(Since(ts, s), Since(u, s))
    BY <2>5, <2>6 DEF Injection, IsInjective
  <2> QED  BY <1>2, <2>7, FS_Injection DEF Count
<1> QED  BY <1>3, <1>4, TrimIsSuffix

\* Later thresholds count less.
LEMMA CountLater ==
    ASSUME NEW ts \in Seq(Times), NEW s \in Int, NEW t \in Int, s <= t
    PROVE  Count(ts, t) <= Count(ts, s)
<1>1. IsFiniteSet(Since(ts, s))
  BY CountType
<1>2. \A i \in DOMAIN ts : ts[i] \in Int
  BY Constants DEF Times
<1>3. Since(ts, t) \in SUBSET Since(ts, s)
  BY <1>2 DEF Since
<1> QED  BY <1>1, <1>3, FS_Subset DEF Count

(***************************************************************************)
(* A sweep: what it keeps is typed, fits, and counts as before, unless the *)
(* table was full.                                                         *)
(***************************************************************************)
LEMMA TableSize ==
    ASSUME NEW m, IsTable(m)
    PROVE  /\ IsFiniteSet(DOMAIN m) /\ Cardinality(DOMAIN m) \in Nat
           /\ \A K \in SUBSET DOMAIN m :
                IsFiniteSet(K) /\ Cardinality(K) \in Nat /\ Cardinality(K) <= Cardinality(DOMAIN m)
<1>1. IsFiniteSet(DOMAIN m)
  BY Constants, FS_Subset DEF IsTable
<1> QED  BY <1>1, FS_Subset, FS_CardinalityType

LEMMA PruneMapFacts ==
    ASSUME NEW m, IsTable(m), NEW t \in Int, NEW w \in Int, NEW k \in PruneMap(m, t, w)
    PROVE  /\ IsTable(k) /\ DOMAIN k \subseteq DOMAIN m
           /\ Cardinality(DOMAIN k) < MaxBuckets
           /\ \A c \in DOMAIN k : k[c].ts = TrimExpired(m[c].ts, t, w)
           /\ Cardinality(Surviving(m, t, w)) < MaxBuckets =>
                \A c \in DOMAIN m \ DOMAIN k : TrimExpired(m[c].ts, t, w) = << >>
<1>1. PICK K \in Kept(m, t, w) : k = [c \in K |-> [m[c] EXCEPT !.ts = TrimExpired(@, t, w)]]
  BY DEF PruneMap
<1>2. Surviving(m, t, w) \subseteq DOMAIN m
  BY DEF Surviving
<1>3. /\ K \subseteq Surviving(m, t, w)
      /\ Cardinality(Surviving(m, t, w)) < MaxBuckets => K = Surviving(m, t, w)
      /\ Cardinality(K) < MaxBuckets
  BY <1>1, Constants DEF Kept
<1>4. DOMAIN k = K
  BY <1>1
<1>5. ASSUME NEW c \in K PROVE k[c] \in BucketType /\ k[c].ts = TrimExpired(m[c].ts, t, w)
  <2>1. m[c] \in BucketType
    BY <1>2, <1>3 DEF IsTable
  <2>2. m[c].ts \in Seq(Times)
    BY <2>1 DEF BucketType
  <2>3. TrimExpired(m[c].ts, t, w) \in Seq(Times)
    BY <2>2, TrimType
  <2>4. k[c] = [m[c] EXCEPT !.ts = TrimExpired(m[c].ts, t, w)]
    BY <1>1
  <2> QED  BY <2>1, <2>3, <2>4 DEF BucketType
<1>6. k \in [DOMAIN k -> BucketType]
  <2>1. k = [c \in K |-> k[c]]
    BY <1>1
  <2> QED  BY <1>4, <1>5, <2>1
<1>7. IsTable(k)
  BY <1>2, <1>3, <1>4, <1>6 DEF IsTable
<1>8. Cardinality(Surviving(m, t, w)) < MaxBuckets =>
        \A c \in DOMAIN m \ DOMAIN k : TrimExpired(m[c].ts, t, w) = << >>
  BY <1>3, <1>4 DEF Surviving
<1> QED  BY <1>2, <1>3, <1>4, <1>5, <1>7, <1>8

\* The sequences in the table of wrong keys.
LEMMA FailedTsType ==
    ASSUME NEW l, IsTable(l.failed), NEW c PROVE FailedTs(l, c) \in Seq(Times)
BY DEF FailedTs, IsTable, BucketType

\* What k has of the wrong keys of l, as far as the window at t goes.
Remembers(l, k, c, t) ==
    \A s \in Int : s > t - FailedWindow => Count(FailedTs(l, c), s) <= Count(FailedTs(k, c), s)

LEMMA RemembersTrans ==
    ASSUME NEW l, NEW k, NEW j, NEW c, NEW t, Remembers(l, k, c, t), Remembers(k, j, c, t),
           IsTable(l.failed), IsTable(k.failed), IsTable(j.failed)
    PROVE  Remembers(l, j, c, t)
<1>1. ASSUME NEW s \in Int
      PROVE  /\ Count(FailedTs(l, c), s) \in Nat /\ Count(FailedTs(k, c), s) \in Nat
             /\ Count(FailedTs(j, c), s) \in Nat
  BY FailedTsType, CountType
<1> QED  BY <1>1 DEF Remembers

LEMMA RemembersSame ==
    ASSUME NEW l, NEW k, NEW c, NEW t, IsTable(l.failed), FailedTs(k, c) = FailedTs(l, c)
    PROVE  Remembers(l, k, c, t)
<1>1. ASSUME NEW s \in Int PROVE Count(FailedTs(l, c), s) \in Nat
  BY FailedTsType, CountType
<1> QED  BY <1>1 DEF Remembers

\* Trimming the sequence forgets nothing of the window.
LEMMA RemembersTrimmed ==
    ASSUME NEW l, NEW k, NEW c, NEW t \in Int, IsTable(l.failed),
           FailedTs(k, c) = TrimExpired(FailedTs(l, c), t, FailedWindow)
    PROVE  Remembers(l, k, c, t)
<1>1. FailedTs(l, c) \in Seq(Times)
  BY FailedTsType
<1> QED  BY <1>1, CountTrim, Constants DEF Remembers

LEMMA TrimEmpty ==
    ASSUME NEW t \in Int, NEW w \in Int PROVE TrimExpired(<< >>, t, w) = << >>
<1>1. DOMAIN << >> = {}
  OBVIOUS
<1>2. {i \in DOMAIN << >> : t - << >>[i] < w} = {}
  BY <1>1
<1> QED  BY <1>2 DEF TrimExpired

LEMMA PruneFacts ==
    ASSUME NEW l, LimiterType(l), NEW t \in Times, NEW k \in Prune(l, t)
    PROVE  /\ LimiterType(k)
           /\ DOMAIN k.buckets \subseteq DOMAIN l.buckets
           /\ DOMAIN k.heavy \subseteq DOMAIN l.heavy
           /\ DOMAIN k.failed \subseteq DOMAIN l.failed
           /\ Cardinality(DOMAIN k.buckets) < MaxBuckets
           /\ Cardinality(DOMAIN k.heavy) < MaxBuckets
           /\ Cardinality(DOMAIN k.failed) < MaxBuckets
           /\ \A c \in Clients : c \notin Forgotten(l, k, t) => Remembers(l, k, c, t)
<1>0. t \in Int /\ Window \in Int /\ FailedWindow \in Int /\ MaxBuckets \in Nat
  BY Constants DEF Times
<1>t. IsTable(l.buckets) /\ IsTable(l.heavy) /\ IsTable(l.failed) /\ l.global \in Seq(Times)
  BY DEF LimiterType
<1>1. CASE ~PruneIsDue(l, t)
  <2>1. k = l
    BY <1>1 DEF Prune
  <2>2. /\ ~(Cardinality(DOMAIN l.buckets) >= MaxBuckets)
        /\ ~(Cardinality(DOMAIN l.heavy) >= MaxBuckets)
        /\ ~(Cardinality(DOMAIN l.failed) >= MaxBuckets)
    BY <1>1 DEF PruneIsDue
  <2>3. /\ Cardinality(DOMAIN l.buckets) < MaxBuckets
        /\ Cardinality(DOMAIN l.heavy) < MaxBuckets
        /\ Cardinality(DOMAIN l.failed) < MaxBuckets
    BY <1>0, <1>t, <2>2, TableSize
  <2>4. \A c \in Clients : Remembers(l, k, c, t)
    BY <1>t, <2>1, RemembersSame
  <2> QED  BY <2>1, <2>3, <2>4
<1>2. CASE PruneIsDue(l, t)
  <2>1. PICK b \in PruneMap(l.buckets, t, Window), h \in PruneMap(l.heavy, t, Window),
             f \in PruneMap(l.failed, t, FailedWindow) :
               k = [lastPrune |-> t, buckets |-> b, heavy |-> h, failed |-> f,
                    global |-> TrimExpired(l.global, t, Window)]
    BY <1>2 DEF Prune, Sweep
  <2>2. IsTable(b) /\ DOMAIN b \subseteq DOMAIN l.buckets /\ Cardinality(DOMAIN b) < MaxBuckets
    BY <1>0, <1>t, PruneMapFacts
  <2>3. IsTable(h) /\ DOMAIN h \subseteq DOMAIN l.heavy /\ Cardinality(DOMAIN h) < MaxBuckets
    BY <1>0, <1>t, PruneMapFacts
  <2>4. /\ IsTable(f) /\ DOMAIN f \subseteq DOMAIN l.failed /\ Cardinality(DOMAIN f) < MaxBuckets
        /\ \A c \in DOMAIN f : f[c].ts = TrimExpired(l.failed[c].ts, t, FailedWindow)
        /\ Cardinality(Surviving(l.failed, t, FailedWindow)) < MaxBuckets =>
             \A c \in DOMAIN l.failed \ DOMAIN f :
               TrimExpired(l.failed[c].ts, t, FailedWindow) = << >>
    BY <1>0, <1>t, PruneMapFacts
  <2>5. TrimExpired(l.global, t, Window) \in Seq(Times)
    BY <1>0, <1>t, TrimType
  <2>6. k.buckets = b /\ k.heavy = h /\ k.failed = f
    BY <2>1
  <2>7. LimiterType(k)
    BY <2>1, <2>2, <2>3, <2>4, <2>5 DEF LimiterType
  <2>8. ASSUME NEW c \in Clients, c \notin Forgotten(l, k, t) PROVE Remembers(l, k, c, t)
    <3>1. FailedTs(k, c) = TrimExpired(FailedTs(l, c), t, FailedWindow)
      <4>1. CASE c \in DOMAIN f
        BY <2>4, <2>6, <4>1 DEF FailedTs
      <4>2. CASE c \notin DOMAIN l.failed
        <5>1. c \notin DOMAIN k.failed
          BY <2>4, <2>6, <4>2
        <5> QED  BY <1>0, <4>2, <5>1, TrimEmpty DEF FailedTs
      <4>3. CASE c \in DOMAIN l.failed \ DOMAIN f
        <5>1. ~(Cardinality(Surviving(l.failed, t, FailedWindow)) >= MaxBuckets)
          BY <2>6, <2>8, <4>3 DEF Forgotten
        <5>2. Surviving(l.failed, t, FailedWindow) \in SUBSET DOMAIN l.failed
          BY DEF Surviving
        <5>3. Cardinality(Surviving(l.failed, t, FailedWindow)) < MaxBuckets
          BY <1>0, <1>t, <5>1, <5>2, TableSize
        <5> QED  BY <2>4, <2>6, <4>3, <5>3 DEF FailedTs
      <4> QED  BY <4>1, <4>2, <4>3
    <3> QED  BY <1>0, <1>t, <3>1, RemembersTrimmed
  <2> QED  BY <2>2, <2>3, <2>4, <2>6, <2>7, <2>8
<1> QED  BY <1>1, <1>2

\* A bucket is put into a table.
LEMMA PutFacts ==
    ASSUME NEW m, IsTable(m), NEW c \in Clients, NEW b \in BucketType
    PROVE  /\ IsTable(Put(m, c, b))
           /\ DOMAIN Put(m, c, b) = DOMAIN m \cup {c}
           /\ Put(m, c, b)[c] = b
           /\ \A d \in DOMAIN m : d # c => Put(m, c, b)[d] = m[d]
           /\ Cardinality(DOMAIN Put(m, c, b)) =
                IF c \in DOMAIN m THEN Cardinality(DOMAIN m) ELSE Cardinality(DOMAIN m) + 1
<1>1. IsFiniteSet(DOMAIN m)
  BY TableSize
<1>2. /\ DOMAIN Put(m, c, b) = DOMAIN m \cup {c}
      /\ Put(m, c, b)[c] = b
      /\ \A d \in DOMAIN m : d # c => Put(m, c, b)[d] = m[d]
  BY DEF Put
<1>3. IsTable(Put(m, c, b))
  BY DEF IsTable, Put
<1>4. Cardinality(DOMAIN m \cup {c}) =
        IF c \in DOMAIN m THEN Cardinality(DOMAIN m) ELSE Cardinality(DOMAIN m) + 1
  BY <1>1, FS_AddElement
<1> QED  BY <1>2, <1>3, <1>4

\* A bucket that is charged; a full one was there.
LEMMA ChargeFacts ==
    ASSUME NEW m, IsTable(m), NEW c \in Clients, NEW t \in Times, NEW w \in Int,
           NEW max \in Nat \ {0}
    PROVE  /\ Charge(BucketOf(m, c, t, w), t, max) \in BucketType
           /\ Full(BucketOf(m, c, t, w), max) => c \in DOMAIN m
<1> DEFINE b == BucketOf(m, c, t, w)
<1>0. t \in Int
  BY Constants DEF Times
<1>1. b = [ts |-> b.ts, last |-> b.last] /\ b.ts \in Seq(Times)
  <2>1. CASE c \in DOMAIN m
    <3>1. m[c] \in BucketType
      BY <2>1 DEF IsTable
    <3>2. b = [m[c] EXCEPT !.ts = TrimExpired(m[c].ts, t, w)]
      BY <2>1 DEF BucketOf
    <3>3. TrimExpired(m[c].ts, t, w) \in Seq(Times)
      BY <1>0, <3>1, TrimType DEF BucketType
    <3> QED  BY <3>1, <3>2, <3>3 DEF BucketType
  <2>2. CASE c \notin DOMAIN m
    <3>1. b = [ts |-> << >>, last |-> Never]
      BY <2>2 DEF BucketOf
    <3> QED  BY <3>1
  <2> QED  BY <2>1, <2>2
<1>2. Full(b, max) => c \in DOMAIN m
  <2>1. c \notin DOMAIN m => b = [ts |-> << >>, last |-> Never]
    BY DEF BucketOf
  <2>2. c \notin DOMAIN m => Len(b.ts) = 0
    BY <2>1
  <2> QED  BY <2>2 DEF Full
<1> HIDE DEF b
<1>3. Append(b.ts, t) \in Seq(Times)
  BY <1>1
<1>4. Charge(b, t, max) = [ts |-> b.ts, last |-> t]
        \/ Charge(b, t, max) = [ts |-> Append(b.ts, t), last |-> t]
  BY <1>1 DEF Charge
<1>5. Charge(b, t, max) \in BucketType
  BY <1>1, <1>3, <1>4 DEF BucketType
<1> QED  BY <1>2, <1>5 DEF b

(***************************************************************************)
(* The calls of the limiter.                                               *)
(***************************************************************************)
ReqType == {Idle} \union {At(pc, c) : pc \in Calls, c \in Clients}

LEMMA ReqFacts ==
    ASSUME NEW q \in ReqType
    PROVE  /\ q.pc \in Calls \union {"idle"}
           /\ q.pc = "idle" => q = Idle
           /\ q.pc # "idle" => q.client \in Clients /\ q = At(q.pc, q.client)
BY DEF ReqType, Calls, Idle, At

LEMMA AtType == ASSUME NEW pc \in Calls, NEW c \in Clients PROVE At(pc, c) \in ReqType
BY DEF ReqType

\* A call that may sweep, of a request that has no guess to record.
Swept(r, l, to) ==
    /\ LimiterType(l)
    /\ Cardinality(DOMAIN l.buckets) < MaxBuckets
    /\ Cardinality(DOMAIN l.heavy) <= MaxBuckets
    /\ Cardinality(DOMAIN l.failed) < MaxBuckets
    /\ \A c \in Clients : c \notin Forgotten(limiter, l, now) => Remembers(limiter, l, c, now)
    /\ SetLimiter(l)
    /\ Go(r, to) /\ to \in ReqType
    /\ req[r].pc \notin {"check", "record"}
    /\ to.pc # "record"
    /\ UNCHANGED <<now, pairing, trouble>>

\* The second sweep of Allow evicts nothing from the table of wrong keys.
LEMMA SecondSweep ==
    ASSUME LimiterType(limiter), now \in Times,
           NEW l, LimiterType(l), Cardinality(DOMAIN l.failed) < MaxBuckets,
           \A c \in Clients : c \notin Forgotten(limiter, l, now) => Remembers(limiter, l, c, now),
           NEW k \in Prune(l, now)
    PROVE  \A c \in Clients : c \notin Forgotten(limiter, k, now) => Remembers(limiter, k, c, now)
<1> SUFFICES ASSUME NEW c \in Clients, c \notin Forgotten(limiter, k, now)
             PROVE  Remembers(limiter, k, c, now)
  OBVIOUS
<1>1. /\ LimiterType(k) /\ DOMAIN k.failed \subseteq DOMAIN l.failed
      /\ c \notin Forgotten(l, k, now) => Remembers(l, k, c, now)
  BY PruneFacts
<1>2. IsTable(limiter.failed) /\ IsTable(l.failed) /\ IsTable(k.failed)
  BY <1>1 DEF LimiterType
<1>3. Forgotten(l, k, now) = {}
  <2>1. Surviving(l.failed, now, FailedWindow) \in SUBSET DOMAIN l.failed
    BY DEF Surviving
  <2>2. ~(Cardinality(Surviving(l.failed, now, FailedWindow)) >= MaxBuckets)
    BY <1>2, <2>1, TableSize, Constants
  <2> QED  BY <2>2 DEF Forgotten
<1>4. c \notin Forgotten(limiter, l, now)
  BY <1>1 DEF Forgotten
<1> QED  BY <1>1, <1>2, <1>3, <1>4, RemembersTrans

LEMMA AllowStep ==
    ASSUME StateInv, NEW r \in Requests, NEW c \in Clients, Allow(r, c)
    PROVE  /\ \E k, to : Swept(r, k, to)
           /\ sent' \in 0 .. MaxSent
<1>0. now \in Times /\ LimiterType(limiter) /\ Window \in Int /\ MaxRequests \in Nat \ {0}
        /\ MaxSent \in Nat /\ sent \in 0 .. MaxSent
  BY Constants DEF StateInv
<1>s. sent' \in 0 .. MaxSent
  BY <1>0 DEF Allow
<1>1. req[r] = Idle /\ UNCHANGED <<now, pairing, trouble>>
  BY DEF Allow
<1>2. req[r].pc \notin {"check", "record"}
  BY <1>1 DEF Idle
<1>3. PICK l \in Prune(limiter, now) :
         LET b == BucketOf(l.buckets, c, now, Window)
             charged == [l EXCEPT !.buckets = Put(@, c, Charge(b, now, MaxRequests))]
         IN  IF Full(b, MaxRequests)
               THEN SetLimiter(charged) /\ Go(r, Idle)
               ELSE \E l2 \in Prune(charged, now) :
                      SetLimiter(l2) /\ Go(r, At("check", c))
  BY DEF Allow
<1>4. /\ LimiterType(l)
      /\ Cardinality(DOMAIN l.buckets) < MaxBuckets
      /\ Cardinality(DOMAIN l.heavy) < MaxBuckets
      /\ Cardinality(DOMAIN l.failed) < MaxBuckets
      /\ \A d \in Clients : d \notin Forgotten(limiter, l, now) => Remembers(limiter, l, d, now)
  BY <1>0, PruneFacts
<1>5. IsTable(l.buckets) /\ IsTable(l.heavy) /\ IsTable(l.failed) /\ IsTable(limiter.failed)
  BY <1>0, <1>4 DEF LimiterType
<1> DEFINE b == BucketOf(l.buckets, c, now, Window)
           p == Put(l.buckets, c, Charge(b, now, MaxRequests))
           charged == [l EXCEPT !.buckets = p]
<1>6. /\ Charge(b, now, MaxRequests) \in BucketType
      /\ Full(b, MaxRequests) => c \in DOMAIN l.buckets
  BY <1>0, <1>5, ChargeFacts
<1>7. /\ IsTable(p)
      /\ Cardinality(DOMAIN p) =
           IF c \in DOMAIN l.buckets THEN Cardinality(DOMAIN l.buckets)
                                     ELSE Cardinality(DOMAIN l.buckets) + 1
  BY <1>5, <1>6, PutFacts
<1>8. /\ charged = [lastPrune |-> l.lastPrune, buckets |-> p, heavy |-> l.heavy,
                    failed |-> l.failed, global |-> l.global]
  BY <1>4 DEF LimiterType
<1>9. IF Full(b, MaxRequests)
        THEN SetLimiter(charged) /\ Go(r, Idle)
        ELSE \E l2 \in Prune(charged, now) : SetLimiter(l2) /\ Go(r, At("check", c))
  BY <1>3
<1> HIDE DEF b, p, charged
<1>10. /\ LimiterType(charged) /\ charged.buckets = p /\ charged.heavy = l.heavy
       /\ charged.failed = l.failed
  BY <1>4, <1>7, <1>8 DEF LimiterType
<1>11. \A d \in Clients :
         d \notin Forgotten(limiter, charged, now) => Remembers(limiter, charged, d, now)
  BY <1>4, <1>10 DEF Forgotten, Remembers, FailedTs
<1>12. CASE Full(b, MaxRequests)
  <2>1. SetLimiter(charged) /\ Go(r, Idle)
    BY <1>9, <1>12
  <2>2. Cardinality(DOMAIN p) < MaxBuckets
    BY <1>4, <1>6, <1>7, <1>12
  <2>3. Idle \in ReqType /\ Idle.pc # "record"
    BY DEF ReqType, Idle
  <2>4. Swept(r, charged, Idle)
    BY <1>0, <1>1, <1>2, <1>4, <1>5, <1>10, <1>11, <2>1, <2>2, <2>3, TableSize, Constants DEF Swept
  <2> QED  BY <1>s, <2>4
<1>13. CASE ~Full(b, MaxRequests)
  <2>1. PICK k \in Prune(charged, now) : SetLimiter(k) /\ Go(r, At("check", c))
    BY <1>9, <1>13
  <2>2. /\ LimiterType(k)
        /\ Cardinality(DOMAIN k.buckets) < MaxBuckets
        /\ Cardinality(DOMAIN k.heavy) < MaxBuckets
        /\ Cardinality(DOMAIN k.failed) < MaxBuckets
    BY <1>0, <1>10, PruneFacts
  <2>3. \A d \in Clients : d \notin Forgotten(limiter, k, now) => Remembers(limiter, k, d, now)
    BY <1>0, <1>4, <1>10, <1>11, SecondSweep
  <2>4. At("check", c) \in ReqType /\ At("check", c).pc # "record"
    BY AtType DEF Calls, At
  <2>5. IsTable(k.heavy)
    BY <2>2 DEF LimiterType
  <2>6. Swept(r, k, At("check", c))
    BY <1>0, <1>1, <1>2, <2>1, <2>2, <2>3, <2>4, <2>5, TableSize, Constants DEF Swept
  <2> QED  BY <1>s, <2>6
<1> QED  BY <1>12, <1>13

LEMMA GlobalStep ==
    ASSUME StateInv, NEW r \in Requests, AllowGlobal(r)
    PROVE  (\E k, to : Swept(r, k, to)) /\ sent' = sent
<1>0. now \in Times /\ LimiterType(limiter) /\ Window \in Int /\ req[r] \in ReqType
  BY Constants DEF StateInv, ReqType
<1>1. req[r].pc = "global" /\ UNCHANGED <<now, pairing, trouble>> /\ sent' = sent
  BY DEF AllowGlobal
<1>2. PICK l \in Prune(limiter, now) :
         LET ts == TrimExpired(l.global, now, Window)
         IN  IF Len(ts) >= GlobalMax
               THEN SetLimiter([l EXCEPT !.global = ts]) /\ Go(r, Idle)
               ELSE /\ SetLimiter([l EXCEPT !.global = Append(ts, now)])
                    /\ \E pc \in {"heavy", "pair"} : Go(r, At(pc, req[r].client))
  BY DEF AllowGlobal
<1>3. /\ LimiterType(l)
      /\ Cardinality(DOMAIN l.buckets) < MaxBuckets
      /\ Cardinality(DOMAIN l.heavy) < MaxBuckets
      /\ Cardinality(DOMAIN l.failed) < MaxBuckets
      /\ \A d \in Clients : d \notin Forgotten(limiter, l, now) => Remembers(limiter, l, d, now)
  BY <1>0, PruneFacts
<1> DEFINE ts == TrimExpired(l.global, now, Window)
<1>4. ts \in Seq(Times) /\ Append(ts, now) \in Seq(Times)
  <2>1. ts \in Seq(Times)
    BY <1>0, <1>3, TrimType, Constants DEF LimiterType, Times
  <2> HIDE DEF ts
  <2> QED  BY <1>0, <2>1
<1>5. req[r].client \in Clients
  BY <1>0, <1>1, ReqFacts
<1>6. PICK g \in Seq(Times), to \in ReqType :
        SetLimiter([l EXCEPT !.global = g]) /\ Go(r, to) /\ to.pc # "record"
  <2>1. Idle \in ReqType /\ Idle.pc # "record"
    BY DEF ReqType, Idle
  <2>2. \A pc \in {"heavy", "pair"} :
          At(pc, req[r].client) \in ReqType /\ At(pc, req[r].client).pc # "record"
    BY <1>5, AtType DEF Calls, At
  <2>3. \/ SetLimiter([l EXCEPT !.global = ts]) /\ Go(r, Idle)
        \/ /\ SetLimiter([l EXCEPT !.global = Append(ts, now)])
           /\ \E pc \in {"heavy", "pair"} : Go(r, At(pc, req[r].client))
    BY <1>2
  <2> HIDE DEF ts
  <2> QED  BY <1>4, <2>1, <2>2, <2>3
<1> DEFINE k == [l EXCEPT !.global = g]
<1>7. k = [lastPrune |-> l.lastPrune, buckets |-> l.buckets, heavy |-> l.heavy,
           failed |-> l.failed, global |-> g]
  BY <1>3 DEF LimiterType
<1>8. SetLimiter(k)
  BY <1>6
<1> HIDE DEF k
<1>9. /\ LimiterType(k) /\ k.buckets = l.buckets /\ k.heavy = l.heavy /\ k.failed = l.failed
  BY <1>3, <1>7 DEF LimiterType
<1>10. \A d \in Clients : d \notin Forgotten(limiter, k, now) => Remembers(limiter, k, d, now)
  BY <1>3, <1>9 DEF Forgotten, Remembers, FailedTs
<1>11. IsTable(l.heavy)
  BY <1>3 DEF LimiterType
<1>12. Swept(r, k, to)
  BY <1>1, <1>3, <1>6, <1>8, <1>9, <1>10, <1>11, TableSize, Constants DEF Swept
<1> QED  BY <1>1, <1>12

LEMMA HeavyStep ==
    ASSUME StateInv, NEW r \in Requests, AllowHeavy(r)
    PROVE  (\E k, to : Swept(r, k, to)) /\ sent' = sent
<1>0. now \in Times /\ LimiterType(limiter) /\ Window \in Int /\ req[r] \in ReqType
        /\ HeavyMax \in Nat \ {0}
  BY Constants DEF StateInv, ReqType
<1>1. req[r].pc = "heavy" /\ UNCHANGED <<now, pairing, trouble>> /\ sent' = sent
  BY DEF AllowHeavy
<1>2. PICK c \in Clients : c = req[r].client
  BY <1>0, <1>1, ReqFacts
<1>3. PICK l \in Prune(limiter, now) :
        /\ SetLimiter([l EXCEPT !.heavy =
              Put(l.heavy, c, Charge(BucketOf(l.heavy, c, now, Window), now, HeavyMax))])
        /\ Go(r, IF Full(BucketOf(l.heavy, c, now, Window), HeavyMax) THEN Idle ELSE At("pair", c))
  BY <1>2 DEF AllowHeavy
<1>4. /\ LimiterType(l)
      /\ Cardinality(DOMAIN l.buckets) < MaxBuckets
      /\ Cardinality(DOMAIN l.heavy) < MaxBuckets
      /\ Cardinality(DOMAIN l.failed) < MaxBuckets
      /\ \A d \in Clients : d \notin Forgotten(limiter, l, now) => Remembers(limiter, l, d, now)
  BY <1>0, PruneFacts
<1>5. IsTable(l.heavy)
  BY <1>4 DEF LimiterType
<1> DEFINE b == BucketOf(l.heavy, c, now, Window)
           p == Put(l.heavy, c, Charge(b, now, HeavyMax))
           k == [l EXCEPT !.heavy = p]
           to == IF Full(b, HeavyMax) THEN Idle ELSE At("pair", c)
<1>6. Charge(b, now, HeavyMax) \in BucketType
  BY <1>0, <1>2, <1>5, ChargeFacts
<1>7. IsTable(p) /\ Cardinality(DOMAIN p) <= MaxBuckets
  <2>1. ASSUME NEW m, IsTable(m), NEW x \in BucketType
        PROVE  /\ IsTable(Put(m, c, x))
               /\ Cardinality(DOMAIN Put(m, c, x)) =
                    IF c \in DOMAIN m THEN Cardinality(DOMAIN m) ELSE Cardinality(DOMAIN m) + 1
    BY <2>1, PutFacts
  <2>2. /\ IsTable(p)
        /\ Cardinality(DOMAIN p) = IF c \in DOMAIN l.heavy THEN Cardinality(DOMAIN l.heavy)
                                                         ELSE Cardinality(DOMAIN l.heavy) + 1
    BY <1>5, <1>6, <2>1
  <2> HIDE DEF p
  <2> QED  BY <1>4, <1>5, <2>2, TableSize, Constants
<1>8. k = [lastPrune |-> l.lastPrune, buckets |-> l.buckets, heavy |-> p,
           failed |-> l.failed, global |-> l.global]
  BY <1>4 DEF LimiterType
<1>9. SetLimiter(k) /\ Go(r, to)
  BY <1>3
<1>10. to \in ReqType /\ to.pc # "record"
  <2>1. Idle \in ReqType /\ Idle.pc # "record"
    BY DEF ReqType, Idle
  <2>2. At("pair", c) \in ReqType /\ At("pair", c).pc # "record"
    BY <1>2, AtType DEF Calls, At
  <2>3. to = Idle \/ to = At("pair", c)
    OBVIOUS
  <2> HIDE DEF to
  <2> QED  BY <2>1, <2>2, <2>3
<1> HIDE DEF b, p, k, to
<1>11. /\ LimiterType(k) /\ k.buckets = l.buckets /\ k.heavy = p /\ k.failed = l.failed
  BY <1>4, <1>7, <1>8 DEF LimiterType
<1>12. \A d \in Clients : d \notin Forgotten(limiter, k, now) => Remembers(limiter, k, d, now)
  BY <1>4, <1>11 DEF Forgotten, Remembers, FailedTs
<1>13. Swept(r, k, to)
  BY <1>1, <1>4, <1>7, <1>9, <1>10, <1>11, <1>12 DEF Swept
<1> QED  BY <1>1, <1>13


(***************************************************************************)
(* What one request does to the sets of requests that SizeInv and CountInv *)
(* count.                                                                  *)
(***************************************************************************)
LEMMA OneMoves ==
    ASSUME NEW R, IsFiniteSet(R), NEW A, A \subseteq R, NEW B, B \subseteq R, NEW r \in R,
           \A q \in R : q # r => (q \in A <=> q \in B)
    PROVE  /\ Cardinality(R) \in Nat /\ Cardinality(A) \in Nat /\ Cardinality(B) \in Nat
           /\ Cardinality(A) <= Cardinality(R) /\ Cardinality(B) <= Cardinality(R)
           /\ (r \in A <=> r \in B) => B = A
           /\ r \in A /\ r \notin B => Cardinality(B) = Cardinality(A) - 1
           /\ r \notin A /\ r \in B => Cardinality(B) = Cardinality(A) + 1
           /\ r \notin A => Cardinality(A) + 1 <= Cardinality(R)
<1>1. /\ IsFiniteSet(A) /\ IsFiniteSet(B)
      /\ Cardinality(R) \in Nat /\ Cardinality(A) \in Nat /\ Cardinality(B) \in Nat
      /\ Cardinality(A) <= Cardinality(R) /\ Cardinality(B) <= Cardinality(R)
  BY FS_Subset, FS_CardinalityType
<1>2. (r \in A <=> r \in B) => B = A
  OBVIOUS
<1>3. ASSUME r \in A, r \notin B PROVE Cardinality(B) = Cardinality(A) - 1
  <2>1. B = A \ {r}
    BY <1>3
  <2> QED  BY <1>1, <1>3, <2>1, FS_RemoveElement
<1>4. ASSUME r \notin A, r \in B PROVE Cardinality(B) = Cardinality(A) + 1
  <2>1. B = A \cup {r}
    BY <1>4
  <2> QED  BY <1>1, <1>4, <2>1, FS_AddElement
<1>5. ASSUME r \notin A PROVE Cardinality(A) + 1 <= Cardinality(R)
  <2>1. Cardinality(A \cup {r}) = Cardinality(A) + 1
    BY <1>1, <1>5, FS_AddElement
  <2>2. A \cup {r} \in SUBSET R
    OBVIOUS
  <2>3. Cardinality(A \cup {r}) <= Cardinality(R)
    BY <2>2, FS_Subset
  <2> QED  BY <2>1, <2>3
<1> QED  BY <1>1, <1>2, <1>3, <1>4, <1>5

\* The type of the requests, and that one of them moves.
LEMMA GoFacts ==
    ASSUME req \in [Requests -> ReqType], NEW r \in Requests, NEW to \in ReqType, Go(r, to)
    PROVE  /\ req' \in [Requests -> ReqType] /\ req'[r] = to
           /\ \A q \in Requests : q # r => req'[q] = req[q]
BY DEF Go

LEMMA BetweenMoves ==
    ASSUME req \in [Requests -> ReqType], NEW r \in Requests, NEW to \in ReqType, Go(r, to)
    PROVE  /\ Cardinality(Requests) \in Nat
           /\ Cardinality(Between) \in Nat /\ Cardinality(Between') \in Nat
           /\ Cardinality(Between') <= Cardinality(Requests)
           /\ r \in Between /\ to.pc \in {"check", "record"} => Between' = Between
           /\ r \notin Between /\ to.pc \notin {"check", "record"} => Between' = Between
           /\ r \in Between /\ to.pc \notin {"check", "record"} =>
                Cardinality(Between') = Cardinality(Between) - 1
<1>1. /\ req'[r] = to /\ \A q \in Requests : q # r => req'[q] = req[q]
  BY GoFacts
<1>2. /\ Between \subseteq Requests /\ Between' \subseteq Requests
      /\ \A q \in Requests : q # r => (q \in Between <=> q \in Between')
      /\ r \in Between' <=> to.pc \in {"check", "record"}
  BY <1>1 DEF Between
<1> QED  BY <1>2, Constants, OneMoves

LEMMA RecordingMoves ==
    ASSUME req \in [Requests -> ReqType], NEW r \in Requests, NEW to \in ReqType, Go(r, to),
           NEW c \in Clients
    PROVE  /\ Cardinality(Recording(c)) \in Nat /\ Cardinality(Recording(c)') \in Nat
           /\ (req[r] = At("record", c) <=> to = At("record", c)) => Recording(c)' = Recording(c)
           /\ req[r] = At("record", c) /\ to # At("record", c) =>
                Cardinality(Recording(c)') = Cardinality(Recording(c)) - 1
           /\ req[r] # At("record", c) /\ to = At("record", c) =>
                Cardinality(Recording(c)') = Cardinality(Recording(c)) + 1
           /\ Cardinality(Requests) \in Nat
           /\ req[r] # At("record", c) =>
                Cardinality(Recording(c)) + 1 <= Cardinality(Requests)
<1>1. /\ req'[r] = to /\ \A q \in Requests : q # r => req'[q] = req[q]
  BY GoFacts
<1>2. /\ Recording(c) \subseteq Requests /\ Recording(c)' \subseteq Requests
      /\ \A q \in Requests : q # r => (q \in Recording(c) <=> q \in Recording(c)')
      /\ r \in Recording(c)' <=> to = At("record", c)
      /\ r \in Recording(c) <=> req[r] = At("record", c)
  BY <1>1 DEF Recording
<1> QED  BY <1>2, Constants, OneMoves

\* The two ways to say that a guess is inside the window.
LEMMA GuessCount ==
    ASSUME NEW g \in Seq(Times), NEW t \in Int
    PROVE  {i \in DOMAIN g : t - g[i] < FailedWindow} = Since(g, t - FailedWindow + 1)
<1>1. \A i \in DOMAIN g : g[i] \in Int
  BY Constants DEF Times
<1> QED  BY <1>1, Constants DEF Since

\* A step that compares no key and forgets no guess that the ghost keeps.
LEMMA CountsStay ==
    ASSUME LimiterInv, now' = now, LimiterType(limiter'),
           hist' = [guesses |-> hist'.guesses, served |-> hist'.served],
           hist'.guesses \in [Clients -> Seq(Times)],
           \A c \in Clients :
             \/ hist'.guesses[c] = << >>
             \/ /\ hist'.guesses[c] = hist.guesses[c]
                /\ Recording(c)' = Recording(c)
                /\ Remembers(limiter, limiter', c, now)
    PROVE  CountInv' /\ GuessesAreBounded'
<1>0. /\ now \in Int /\ IsTable(limiter.failed) /\ IsTable(limiter'.failed)
      /\ FailedWindow \in Int /\ FailedMax \in Nat \ {0} /\ Cardinality(Requests) \in Nat
  BY Constants, FS_CardinalityType DEF LimiterInv, StateInv, LimiterType, Times
<1>1. CountInv /\ GuessesAreBounded
  BY DEF LimiterInv
<1>2. ASSUME NEW c \in Clients, NEW i \in DOMAIN hist'.guesses[c]
      PROVE  hist'.guesses[c][i] <= now'
  <2>1. CASE hist'.guesses[c] = << >>
    <3>1. DOMAIN << >> = {}
      OBVIOUS
    <3> QED  BY <2>1, <3>1
  <2>2. CASE hist'.guesses[c] = hist.guesses[c]
    BY <1>1, <2>2 DEF CountInv
  <2> QED  BY <2>1, <2>2
<1>3. ASSUME NEW c \in Clients, NEW t \in Int, t > now' - FailedWindow
      PROVE  Count(hist'.guesses[c], t)
               <= Count(FailedTs(limiter', c), t) + Cardinality(Recording(c)')
  <2>1. Count(FailedTs(limiter', c), t) \in Nat /\ Count(FailedTs(limiter, c), t) \in Nat
    BY <1>0, FailedTsType, CountType
  <2>2. Recording(c)' \in SUBSET Requests
    BY DEF Recording
  <2>3. Cardinality(Recording(c)') \in Nat
    BY <2>2, Constants, FS_Subset, FS_CardinalityType
  <2>4. CASE hist'.guesses[c] = << >>
    BY <2>1, <2>3, <2>4, CountEmpty
  <2>5. CASE /\ hist'.guesses[c] = hist.guesses[c] /\ Recording(c)' = Recording(c)
             /\ Remembers(limiter, limiter', c, now)
    <3>1. Count(hist.guesses[c], t) <= Count(FailedTs(limiter, c), t) + Cardinality(Recording(c))
      BY <1>1, <1>3 DEF CountInv
    <3>2. Count(FailedTs(limiter, c), t) <= Count(FailedTs(limiter', c), t)
      BY <1>3, <2>5 DEF Remembers
    <3>3. Count(hist.guesses[c], t) \in Nat
      BY <1>1, CountType DEF CountInv
    <3> QED  BY <2>1, <2>3, <2>5, <3>1, <3>2, <3>3
  <2> QED  BY <2>4, <2>5
<1>4. CountInv'
  BY <1>2, <1>3 DEF CountInv
<1>5. ASSUME NEW c \in Clients
      PROVE  Cardinality({i \in DOMAIN hist'.guesses[c] :
                            now' - hist'.guesses[c][i] < FailedWindow})
               <= FailedMax + Cardinality(Requests) - 1
  <2>1. CASE hist'.guesses[c] = << >>
    <3>1. {i \in DOMAIN << >> : now' - << >>[i] < FailedWindow} = {}
      OBVIOUS
    <3> QED  BY <1>0, <2>1, <3>1, FS_EmptySet
  <2>2. CASE hist'.guesses[c] = hist.guesses[c]
    BY <1>1, <2>2 DEF GuessesAreBounded
  <2> QED  BY <2>1, <2>2
<1> QED  BY <1>4, <1>5 DEF GuessesAreBounded

LEMMA SweptStep ==
    ASSUME LimiterInv, NEW r \in Requests, NEW l, NEW to, Swept(r, l, to), sent' \in 0 .. MaxSent
    PROVE  LimiterInv'
<1>1. StateInv /\ CountInv /\ req \in [Requests -> ReqType] /\ req[r] \in ReqType
  BY DEF LimiterInv, StateInv, ReqType
<1>2. /\ LimiterType(l) /\ limiter' = l /\ to \in ReqType /\ Go(r, to)
      /\ now' = now /\ pairing' = pairing /\ trouble' = trouble
      /\ req[r].pc \notin {"check", "record"} /\ to.pc # "record"
  BY DEF Swept, SetLimiter
<1>3. StateInv'
  <2>1. req' \in [Requests -> ReqType]
    BY <1>1, <1>2, GoFacts
  <2> QED  BY <1>1, <1>2, <2>1 DEF StateInv, ReqType
<1>4. SizeInv'
  <2>1. /\ Cardinality(DOMAIN l.buckets) < MaxBuckets
        /\ Cardinality(DOMAIN l.heavy) <= MaxBuckets
        /\ Cardinality(DOMAIN l.failed) < MaxBuckets
    BY DEF Swept
  <2>2. /\ Cardinality(Between') \in Nat /\ Cardinality(Requests) \in Nat
        /\ Cardinality(Between') <= Cardinality(Requests)
    BY <1>1, <1>2, BetweenMoves
  <2>3. Cardinality(DOMAIN l.failed) \in Nat
    BY <1>2, TableSize DEF LimiterType
  <2> QED  BY <1>2, <2>1, <2>2, <2>3, Constants DEF SizeInv
<1>5. /\ hist' = [guesses |-> hist'.guesses, served |-> hist'.served]
      /\ hist'.guesses = [c \in Clients |-> IF c \in Forgotten(limiter, l, now)
                                              THEN << >> ELSE hist.guesses[c]]
  <2> DEFINE g == [c \in Clients |-> IF c \in Forgotten(limiter, l, now)
                                       THEN << >> ELSE hist.guesses[c]]
  <2>1. hist' = [hist EXCEPT !.guesses = g]
    BY DEF Swept, SetLimiter
  <2> HIDE DEF g
  <2>2. hist' = [guesses |-> hist'.guesses, served |-> hist'.served] /\ hist'.guesses = g
    BY <1>1, <2>1 DEF CountInv
  <2> QED  BY <2>2 DEF g
<1>6. hist'.guesses \in [Clients -> Seq(Times)]
  <2>1. hist.guesses \in [Clients -> Seq(Times)] /\ << >> \in Seq(Times)
    BY <1>1 DEF CountInv
  <2> QED  BY <1>5, <2>1
<1>7. ASSUME NEW c \in Clients
      PROVE  \/ hist'.guesses[c] = << >>
             \/ /\ hist'.guesses[c] = hist.guesses[c]
                /\ Recording(c)' = Recording(c)
                /\ Remembers(limiter, limiter', c, now)
  <2>1. At("record", c).pc = "record"
    BY DEF At
  <2>2. Recording(c)' = Recording(c)
    BY <1>1, <1>2, <2>1, RecordingMoves
  <2>3. c \notin Forgotten(limiter, l, now) => Remembers(limiter, limiter', c, now)
    BY <1>2 DEF Swept
  <2> QED  BY <1>5, <2>2, <2>3
<1>8. CountInv' /\ GuessesAreBounded'
  BY <1>2, <1>5, <1>6, <1>7, CountsStay
<1> QED  BY <1>3, <1>4, <1>8 DEF LimiterInv

(***************************************************************************)
(* The check of the lockout and the record of the guess.                   *)
(***************************************************************************)
\* The bucket of an address in the table of wrong keys.
LEMMA FailedBucketFacts ==
    ASSUME StateInv, NEW c \in Clients
    PROVE  /\ FailedBucket(c).ts \in Seq(Times)
           /\ FailedBucket(c).ts = TrimExpired(FailedTs(limiter, c), now, FailedWindow)
           /\ c \in DOMAIN limiter.failed => FailedBucket(c) \in BucketType
           /\ \A s \in Int : s > now - FailedWindow =>
                Count(FailedTs(limiter, c), s) <= Count(FailedBucket(c).ts, s)
<1>0. now \in Int /\ FailedWindow \in Int /\ IsTable(limiter.failed)
  BY Constants DEF StateInv, LimiterType, Times
<1> DEFINE u == TrimExpired(FailedTs(limiter, c), now, FailedWindow)
<1>1. FailedTs(limiter, c) \in Seq(Times)
  BY <1>0, FailedTsType
<1>2. u \in Seq(Times)
  BY <1>0, <1>1, TrimType
<1>3. FailedBucket(c).ts = u /\ (c \in DOMAIN limiter.failed => FailedBucket(c) \in BucketType)
  <2>1. CASE c \in DOMAIN limiter.failed
    <3>1. limiter.failed[c] \in BucketType /\ FailedTs(limiter, c) = limiter.failed[c].ts
      BY <1>0, <2>1 DEF IsTable, FailedTs
    <3>2. FailedBucket(c) = [limiter.failed[c] EXCEPT !.ts = u]
      BY <2>1, <3>1 DEF FailedBucket, BucketOf
    <3> HIDE DEF u
    <3> QED  BY <1>2, <3>1, <3>2 DEF BucketType
  <2>2. CASE c \notin DOMAIN limiter.failed
    <3>1. FailedBucket(c).ts = << >> /\ FailedTs(limiter, c) = << >>
      BY <2>2 DEF FailedBucket, BucketOf, FailedTs
    <3> QED  BY <1>0, <2>2, <3>1, TrimEmpty
  <2> QED  BY <2>1, <2>2
<1>4. \A s \in Int : s > now - FailedWindow => Count(FailedTs(limiter, c), s) <= Count(u, s)
  BY <1>0, <1>1, CountTrim
<1> QED  BY <1>2, <1>3, <1>4

\* A bucket is put into the table of wrong keys and nothing else changes.
PutFailed(c, b) == [limiter EXCEPT !.failed = Put(limiter.failed, c, b)]

FailedPutAs(l, c, b) ==
    /\ LimiterType(l) /\ l.buckets = limiter.buckets /\ l.heavy = limiter.heavy
    /\ Cardinality(DOMAIN l.failed) =
         IF c \in DOMAIN limiter.failed THEN Cardinality(DOMAIN limiter.failed)
                                        ELSE Cardinality(DOMAIN limiter.failed) + 1
    /\ FailedTs(l, c) = b.ts
    /\ \A d \in Clients : d # c => FailedTs(l, d) = FailedTs(limiter, d)

LEMMA FailedPut ==
    ASSUME StateInv, NEW c \in Clients, NEW b \in BucketType
    PROVE  FailedPutAs(PutFailed(c, b), c, b)
<1> DEFINE l == PutFailed(c, b)
           p == Put(limiter.failed, c, b)
<1>1. LimiterType(limiter) /\ IsTable(limiter.failed)
  BY DEF StateInv, LimiterType
<1>2. /\ IsTable(p)
      /\ DOMAIN p = DOMAIN limiter.failed \cup {c}
      /\ p[c] = b
      /\ \A d \in DOMAIN limiter.failed : d # c => p[d] = limiter.failed[d]
      /\ Cardinality(DOMAIN p) =
           IF c \in DOMAIN limiter.failed THEN Cardinality(DOMAIN limiter.failed)
                                          ELSE Cardinality(DOMAIN limiter.failed) + 1
  <2>1. ASSUME NEW m, IsTable(m), NEW x \in BucketType
        PROVE  /\ IsTable(Put(m, c, x))
               /\ Cardinality(DOMAIN Put(m, c, x)) =
                    IF c \in DOMAIN m THEN Cardinality(DOMAIN m) ELSE Cardinality(DOMAIN m) + 1
    BY <2>1, PutFacts
  <2>2. /\ DOMAIN p = DOMAIN limiter.failed \cup {c}
        /\ p[c] = b
        /\ \A d \in DOMAIN limiter.failed : d # c => p[d] = limiter.failed[d]
    BY DEF Put
  <2> QED  BY <1>1, <2>1, <2>2
<1>3. l = [limiter EXCEPT !.failed = p]
  BY DEF PutFailed
<1> HIDE DEF p, l
<1>4. l = [lastPrune |-> limiter.lastPrune, buckets |-> limiter.buckets,
           heavy |-> limiter.heavy, failed |-> p, global |-> limiter.global]
  BY <1>1, <1>3 DEF LimiterType
<1>5. l.buckets = limiter.buckets /\ l.heavy = limiter.heavy /\ l.failed = p
  BY <1>4
<1>6. LimiterType(l)
  BY <1>1, <1>2, <1>4 DEF LimiterType
<1>7. FailedTs(l, c) = b.ts
  BY <1>2, <1>5 DEF FailedTs
<1>8. \A d \in Clients : d # c => FailedTs(l, d) = FailedTs(limiter, d)
  BY <1>2, <1>5 DEF FailedTs
<1>9. FailedPutAs(l, c, b)
  BY <1>2, <1>5, <1>6, <1>7, <1>8 DEF FailedPutAs
<1> QED  BY <1>9 DEF l

LEMMA TrimmedFacts ==
    ASSUME StateInv, NEW c \in Clients
    PROVE  /\ LimiterType(Trimmed(c))
           /\ Trimmed(c).buckets = limiter.buckets /\ Trimmed(c).heavy = limiter.heavy
           /\ Cardinality(DOMAIN Trimmed(c).failed) = Cardinality(DOMAIN limiter.failed)
           /\ \A d \in Clients : Remembers(limiter, Trimmed(c), d, now)
<1>0. now \in Int /\ IsTable(limiter.failed) /\ LimiterType(limiter)
  BY Constants DEF StateInv, LimiterType, Times
<1>1. CASE c \in DOMAIN limiter.failed
  <2> DEFINE l == Trimmed(c)
             b == FailedBucket(c)
  <2>1. l = [limiter EXCEPT !.failed = Put(limiter.failed, c, b)]
    BY <1>1 DEF Trimmed
  <2>2. b \in BucketType /\ b.ts = TrimExpired(FailedTs(limiter, c), now, FailedWindow)
    BY <1>1, FailedBucketFacts
  <2> HIDE DEF l, b
  <2>3. /\ LimiterType(l) /\ l.buckets = limiter.buckets /\ l.heavy = limiter.heavy
        /\ Cardinality(DOMAIN l.failed) = Cardinality(DOMAIN limiter.failed)
        /\ FailedTs(l, c) = b.ts
        /\ \A d \in Clients : d # c => FailedTs(l, d) = FailedTs(limiter, d)
    <3>1. FailedPutAs(l, c, b)
      BY <2>1, <2>2, FailedPut DEF PutFailed
    <3> QED  BY <1>1, <3>1 DEF FailedPutAs
  <2>4. Remembers(limiter, l, c, now)
    BY <1>0, <2>2, <2>3, RemembersTrimmed
  <2>5. \A d \in Clients : d # c => Remembers(limiter, l, d, now)
    BY <1>0, <2>3, RemembersSame
  <2> QED  BY <2>3, <2>4, <2>5 DEF l
<1>2. CASE c \notin DOMAIN limiter.failed
  <2>1. Trimmed(c) = limiter
    BY <1>2 DEF Trimmed
  <2>2. \A d \in Clients : Remembers(limiter, limiter, d, now)
    BY <1>0, RemembersSame
  <2> QED  BY <1>0, <2>1, <2>2
<1> QED  BY <1>1, <1>2

\* What the three outcomes of the check have in common.
LEMMA CheckStep ==
    ASSUME LimiterInv, NEW r \in Requests, req[r].pc = "check", NEW c, c = req[r].client,
           limiter' = Trimmed(c), NEW to \in ReqType, Go(r, to),
           UNCHANGED <<now, pairing, trouble, sent>>
    PROVE  /\ StateInv' /\ SizeInv'
           /\ c \in Clients /\ LimiterType(limiter')
           /\ \A d \in Clients : Remembers(limiter, limiter', d, now)
<1>1. StateInv /\ SizeInv /\ req \in [Requests -> ReqType] /\ req[r] \in ReqType
  BY DEF LimiterInv, StateInv, ReqType
<1>2. c \in Clients
  BY <1>1, ReqFacts
<1>3. /\ LimiterType(limiter')
      /\ limiter'.buckets = limiter.buckets /\ limiter'.heavy = limiter.heavy
      /\ Cardinality(DOMAIN limiter'.failed) = Cardinality(DOMAIN limiter.failed)
      /\ \A d \in Clients : Remembers(limiter, limiter', d, now)
  BY <1>1, <1>2, TrimmedFacts
<1>4. req' \in [Requests -> ReqType]
  BY <1>1, GoFacts
<1>5. StateInv'
  BY <1>1, <1>3, <1>4 DEF StateInv, ReqType
<1>6. SizeInv'
  <2>1. r \in Between
    BY DEF Between
  <2>2. /\ Cardinality(Between) \in Nat /\ Cardinality(Requests) \in Nat
        /\ \/ Cardinality(Between') = Cardinality(Between)
           \/ Cardinality(Between') = Cardinality(Between) - 1
    BY <1>1, <2>1, BetweenMoves
  <2>3. IsTable(limiter'.failed) /\ IsTable(limiter.failed)
    BY <1>1, <1>3 DEF StateInv, LimiterType
  <2>4. Cardinality(DOMAIN limiter'.failed) \in Nat
    BY <2>3, TableSize
  <2> QED  BY <1>1, <1>3, <2>2, <2>4, Constants DEF SizeInv
<1> QED  BY <1>2, <1>3, <1>5, <1>6

LEMMA CheckedStep ==
    ASSUME LimiterInv, NEW r \in Requests, FailedBlocked(r) \/ KeyIsRight(r)
    PROVE  LimiterInv'
<1> DEFINE c == req[r].client
<1>1. StateInv /\ CountInv /\ req \in [Requests -> ReqType] /\ req[r] \in ReqType
  BY DEF LimiterInv, StateInv, ReqType
<1>2. /\ req[r].pc = "check" /\ limiter' = Trimmed(c)
      /\ now' = now /\ hist' = hist /\ UNCHANGED <<now, pairing, trouble, sent>>
      /\ Go(r, Idle) \/ Go(r, At("global", c))
  BY DEF FailedBlocked, KeyIsRight
<1>3. c \in Clients
  BY <1>1, <1>2, ReqFacts
<1>4. PICK to \in ReqType : Go(r, to) /\ to.pc # "record"
  <2>1. Idle \in ReqType /\ Idle.pc # "record"
    BY DEF ReqType, Idle
  <2>2. At("global", c) \in ReqType /\ At("global", c).pc # "record"
    BY <1>3, AtType DEF Calls, At
  <2> QED  BY <1>2, <2>1, <2>2
<1>5. /\ StateInv' /\ SizeInv' /\ LimiterType(limiter')
      /\ \A d \in Clients : Remembers(limiter, limiter', d, now)
  BY <1>2, <1>4, CheckStep
<1>6. ASSUME NEW d \in Clients PROVE Recording(d)' = Recording(d)
  <2>1. At("record", d).pc = "record"
    BY DEF At
  <2> QED  BY <1>1, <1>2, <1>4, <2>1, RecordingMoves
<1>7. /\ hist' = [guesses |-> hist'.guesses, served |-> hist'.served]
      /\ hist'.guesses \in [Clients -> Seq(Times)]
  BY <1>1, <1>2 DEF CountInv
<1>8. CountInv' /\ GuessesAreBounded'
  BY <1>2, <1>5, <1>6, <1>7, CountsStay
<1> QED  BY <1>5, <1>8 DEF LimiterInv

LEMMA WrongStep ==
    ASSUME LimiterInv, NEW r \in Requests, KeyIsWrong(r)
    PROVE  LimiterInv'
<1>0. /\ StateInv /\ CountInv /\ GuessesAreBounded
      /\ req \in [Requests -> ReqType] /\ req[r] \in ReqType
      /\ now \in Int /\ now \in Times /\ IsTable(limiter.failed)
      /\ FailedWindow \in Nat \ {0} /\ FailedMax \in Nat \ {0}
  BY Constants DEF LimiterInv, StateInv, ReqType, LimiterType, Times
<1>1. req[r].pc = "check"
  BY DEF KeyIsWrong
<1>2. PICK c \in Clients : c = req[r].client
  BY <1>0, <1>1, ReqFacts
<1>3. /\ ~Full(FailedBucket(c), FailedMax) /\ limiter' = Trimmed(c) /\ Go(r, At("record", c))
      /\ hist' = [hist EXCEPT !.guesses[c] = Append(@, now)]
      /\ UNCHANGED <<now, pairing, trouble, sent>> /\ now' = now
  BY <1>2 DEF KeyIsWrong
<1> DEFINE g == hist.guesses
           to == At("record", c)
<1>4. to \in ReqType /\ to.pc = "record"
  BY AtType DEF Calls, At
<1>5. /\ StateInv' /\ SizeInv' /\ IsTable(limiter'.failed)
      /\ \A d \in Clients : Remembers(limiter, limiter', d, now)
  <2>1. /\ StateInv' /\ SizeInv' /\ LimiterType(limiter')
        /\ \A d \in Clients : Remembers(limiter, limiter', d, now)
    BY <1>1, <1>2, <1>3, <1>4, CheckStep
  <2> QED  BY <2>1 DEF LimiterType
<1>6. g \in [Clients -> Seq(Times)]
  BY <1>0 DEF CountInv
<1>7. /\ hist' = [guesses |-> hist'.guesses, served |-> hist'.served]
      /\ hist'.guesses = [g EXCEPT ![c] = Append(g[c], now)]
  <2>1. hist = [guesses |-> hist.guesses, served |-> hist.served]
    BY <1>0 DEF CountInv
  <2>2. hist' = [hist EXCEPT !.guesses = [g EXCEPT ![c] = Append(g[c], now)]]
    BY <1>3
  <2> QED  BY <2>1, <2>2
<1> HIDE DEF g
<1>8. /\ hist'.guesses \in [Clients -> Seq(Times)]
      /\ hist'.guesses[c] = Append(g[c], now) /\ g[c] \in Seq(Times)
      /\ \A d \in Clients : d # c => hist'.guesses[d] = g[d]
  <2>1. g[c] \in Seq(Times) /\ Append(g[c], now) \in Seq(Times)
    BY <1>0, <1>6, AppendProperties
  <2> QED  BY <1>6, <1>7, <2>1
<1>9. /\ Cardinality(Recording(c)) \in Nat /\ Cardinality(Requests) \in Nat
      /\ Cardinality(Recording(c)') = Cardinality(Recording(c)) + 1
      /\ Cardinality(Recording(c)) + 1 <= Cardinality(Requests)
  <2>1. req[r] # At("record", c)
    BY <1>1, <1>4
  <2> QED  BY <1>0, <1>3, <1>4, <2>1, RecordingMoves
<1>10. ASSUME NEW d \in Clients, d # c PROVE Recording(d)' = Recording(d)
  <2>1. req[r] # At("record", d) /\ At("record", c) # At("record", d)
    BY <1>1, <1>10 DEF At
  <2> QED  BY <1>0, <1>3, <1>4, <2>1, RecordingMoves
<1>11. ASSUME NEW d \in Clients, NEW i \in DOMAIN hist'.guesses[d]
       PROVE  hist'.guesses[d][i] <= now'
  <2>1. CASE d # c
    BY <1>0, <1>3, <1>8, <2>1, <1>11 DEF CountInv, g
  <2>2. CASE d = c
    <3>1. i \in 1 .. Len(g[c]) + 1 /\ DOMAIN g[c] = 1 .. Len(g[c]) /\ Len(g[c]) \in Nat
      BY <1>8, <1>11, <2>2, AppendProperties
    <3>2. CASE i = Len(g[c]) + 1
      <4>1. hist'.guesses[d][i] = now
        BY <1>0, <1>8, <2>2, <3>2, AppendProperties
      <4> QED  BY <1>0, <1>3, <4>1
    <3>3. CASE i \in 1 .. Len(g[c])
      <4>1. hist'.guesses[d][i] = g[c][i]
        BY <1>0, <1>8, <2>2, <3>3, AppendProperties
      <4>2. g[c][i] <= now
        BY <1>0, <3>1, <3>3 DEF CountInv, g
      <4> QED  BY <1>3, <4>1, <4>2
    <3> QED  BY <3>1, <3>2, <3>3
  <2> QED  BY <2>1, <2>2
<1>12. ASSUME NEW d \in Clients, NEW t \in Int, t > now' - FailedWindow
       PROVE  Count(hist'.guesses[d], t)
                <= Count(FailedTs(limiter', d), t) + Cardinality(Recording(d)')
  <2>1. t > now - FailedWindow
    BY <1>3, <1>12
  <2>2. Count(g[d], t) <= Count(FailedTs(limiter, d), t) + Cardinality(Recording(d))
    BY <1>0, <2>1 DEF CountInv, g
  <2>3. Count(FailedTs(limiter, d), t) <= Count(FailedTs(limiter', d), t)
    BY <1>5, <2>1 DEF Remembers
  <2>4. /\ Count(g[d], t) \in Nat /\ Count(FailedTs(limiter, d), t) \in Nat
        /\ Count(FailedTs(limiter', d), t) \in Nat
    BY <1>0, <1>5, <1>6, FailedTsType, CountType
  <2>5. CASE d # c
    <3>1. hist'.guesses[d] = g[d] /\ Recording(d)' = Recording(d)
      BY <1>8, <1>10, <2>5
    <3>2. Cardinality(Recording(d)) \in Nat
      BY <1>0, <1>3, <1>4, RecordingMoves
    <3> QED  BY <2>2, <2>3, <2>4, <3>1, <3>2
  <2>6. CASE d = c
    <3>1. Count(hist'.guesses[c], t) <= Count(g[c], t) + 1
      BY <1>0, <1>8, <2>4, <2>6, CountAppend
    <3>2. Count(hist'.guesses[c], t) \in Nat
      BY <1>8, CountType
    <3> QED  BY <1>9, <2>2, <2>3, <2>4, <2>6, <3>1, <3>2
  <2> QED  BY <2>5, <2>6
<1>13. CountInv'
  BY <1>7, <1>8, <1>11, <1>12 DEF CountInv
<1>14. ASSUME NEW d \in Clients
       PROVE  Cardinality({i \in DOMAIN hist'.guesses[d] :
                             now' - hist'.guesses[d][i] < FailedWindow})
                <= FailedMax + Cardinality(Requests) - 1
  <2>1. CASE d # c
    BY <1>0, <1>3, <1>8, <2>1 DEF GuessesAreBounded, g
  <2>2. CASE d = c
    <3> DEFINE s == now - FailedWindow + 1
    <3>1. s \in Int /\ s > now - FailedWindow /\ now >= s
      BY <1>0
    <3>2. {i \in DOMAIN hist'.guesses[c] : now' - hist'.guesses[c][i] < FailedWindow}
            = Since(hist'.guesses[c], s)
      BY <1>0, <1>3, <1>8, GuessCount
    <3> HIDE DEF s
    <3>3. Count(hist'.guesses[c], s) = Count(g[c], s) + 1
      BY <1>0, <1>8, <3>1, CountAppend
    <3>4. Count(g[c], s) <= Count(FailedTs(limiter, c), s) + Cardinality(Recording(c))
      BY <1>0, <3>1 DEF CountInv, g
    <3>5. Count(FailedTs(limiter, c), s) <= Count(FailedBucket(c).ts, s)
            /\ FailedBucket(c).ts \in Seq(Times)
      BY <1>0, <3>1, FailedBucketFacts
    <3>6. Count(FailedBucket(c).ts, s) \in Nat /\ Count(FailedBucket(c).ts, s) <= Len(FailedBucket(c).ts)
      BY <3>5, CountType
    <3>7. ~(Len(FailedBucket(c).ts) >= FailedMax) /\ Len(FailedBucket(c).ts) \in Nat
      BY <1>3, <3>5 DEF Full
    <3>8. Count(g[c], s) \in Nat /\ Count(FailedTs(limiter, c), s) \in Nat
      BY <1>0, <1>6, FailedTsType, CountType
    <3>9. Count(hist'.guesses[c], s) <= FailedMax + Cardinality(Requests) - 1
      BY <1>0, <1>9, <3>3, <3>4, <3>5, <3>6, <3>7, <3>8
    <3> QED  BY <2>2, <3>2, <3>9 DEF Count
  <2> QED  BY <2>1, <2>2
<1> QED  BY <1>5, <1>13, <1>14 DEF LimiterInv, GuessesAreBounded

LEMMA RecordStep ==
    ASSUME LimiterInv, NEW r \in Requests, RecordFailedAuth(r)
    PROVE  LimiterInv'
<1>0. /\ StateInv /\ SizeInv /\ CountInv /\ GuessesAreBounded
      /\ req \in [Requests -> ReqType] /\ req[r] \in ReqType
      /\ now \in Int /\ now \in Times /\ IsTable(limiter.failed)
      /\ FailedWindow \in Nat \ {0}
  BY Constants DEF LimiterInv, StateInv, ReqType, LimiterType, Times
<1>1. req[r].pc = "record"
  BY DEF RecordFailedAuth
<1>2. PICK c \in Clients : c = req[r].client
  BY <1>0, <1>1, ReqFacts
<1> DEFINE b == [ts |-> Append(FailedBucket(c).ts, now), last |-> now]
<1>3. /\ limiter' = [limiter EXCEPT !.failed = Put(limiter.failed, c, b)]
      /\ Go(r, Idle) /\ now' = now /\ hist' = hist
      /\ UNCHANGED <<now, pairing, trouble, sent, hist>>
  BY <1>2 DEF RecordFailedAuth
<1>4. /\ FailedBucket(c).ts \in Seq(Times)
      /\ \A s \in Int : s > now - FailedWindow =>
           Count(FailedTs(limiter, c), s) <= Count(FailedBucket(c).ts, s)
  BY <1>0, FailedBucketFacts
<1>5. b \in BucketType /\ b.ts = Append(FailedBucket(c).ts, now)
  BY <1>0, <1>4, AppendProperties DEF BucketType
<1> HIDE DEF b
<1>6. /\ LimiterType(limiter') /\ limiter'.buckets = limiter.buckets
      /\ limiter'.heavy = limiter.heavy
      /\ Cardinality(DOMAIN limiter'.failed) =
           IF c \in DOMAIN limiter.failed THEN Cardinality(DOMAIN limiter.failed)
                                          ELSE Cardinality(DOMAIN limiter.failed) + 1
      /\ FailedTs(limiter', c) = b.ts
      /\ \A d \in Clients : d # c => FailedTs(limiter', d) = FailedTs(limiter, d)
  <2>1. FailedPutAs(limiter', c, b)
    BY <1>0, <1>3, <1>5, FailedPut DEF PutFailed
  <2> QED  BY <2>1 DEF FailedPutAs
<1>7. Idle \in ReqType /\ Idle.pc = "idle"
  BY DEF ReqType, Idle
<1>8. StateInv'
  <2>1. req' \in [Requests -> ReqType]
    BY <1>0, <1>3, <1>7, GoFacts
  <2> QED  BY <1>0, <1>3, <1>6, <2>1 DEF StateInv, ReqType
<1>9. SizeInv'
  <2>1. r \in Between
    BY <1>1 DEF Between
  <2>2. /\ Cardinality(Between) \in Nat /\ Cardinality(Requests) \in Nat
        /\ Cardinality(Between') = Cardinality(Between) - 1
    BY <1>0, <1>3, <1>7, <2>1, BetweenMoves
  <2>3. Cardinality(DOMAIN limiter.failed) \in Nat
    BY <1>0, TableSize
  <2>4. \/ Cardinality(DOMAIN limiter'.failed) = Cardinality(DOMAIN limiter.failed)
        \/ Cardinality(DOMAIN limiter'.failed) = Cardinality(DOMAIN limiter.failed) + 1
    BY <1>6
  <2> QED  BY <1>0, <1>6, <2>2, <2>3, <2>4, Constants DEF SizeInv
<1>10. req[r] = At("record", c) /\ Idle # At("record", c)
  <2>1. req[r] = At("record", c)
    BY <1>0, <1>1, <1>2, ReqFacts
  <2> QED  BY <2>1, <1>1, <1>7
<1>11. /\ Cardinality(Recording(c)) \in Nat
       /\ Cardinality(Recording(c)') = Cardinality(Recording(c)) - 1
       /\ Cardinality(Recording(c)') \in Nat
  BY <1>0, <1>3, <1>7, <1>10, RecordingMoves
<1>12. ASSUME NEW d \in Clients, d # c
       PROVE  Recording(d)' = Recording(d) /\ Cardinality(Recording(d)) \in Nat
  <2>1. req[r] # At("record", d) /\ Idle # At("record", d)
    BY <1>1, <1>7, <1>10, <1>12 DEF At
  <2> QED  BY <1>0, <1>3, <1>7, <2>1, RecordingMoves
<1>13. ASSUME NEW d \in Clients, NEW t \in Int, t > now - FailedWindow
       PROVE  Count(hist.guesses[d], t)
                <= Count(FailedTs(limiter', d), t) + Cardinality(Recording(d)')
  <2>1. Count(hist.guesses[d], t) <= Count(FailedTs(limiter, d), t) + Cardinality(Recording(d))
    BY <1>0, <1>13 DEF CountInv
  <2>2. IsTable(limiter'.failed) /\ hist.guesses[d] \in Seq(Times)
    BY <1>0, <1>6 DEF LimiterType, CountInv
  <2>3. /\ Count(hist.guesses[d], t) \in Nat /\ Count(FailedTs(limiter, d), t) \in Nat
        /\ Count(FailedTs(limiter', d), t) \in Nat
    BY <1>0, <2>2, FailedTsType, CountType
  <2>4. CASE d # c
    BY <1>6, <1>12, <2>1, <2>4
  <2>5. CASE d = c /\ now >= t
    <3>1. Count(FailedTs(limiter', c), t) = Count(FailedBucket(c).ts, t) + 1
      BY <1>0, <1>4, <1>5, <1>6, <2>5, CountAppend
    <3>2. Count(FailedTs(limiter, c), t) <= Count(FailedBucket(c).ts, t)
            /\ Count(FailedBucket(c).ts, t) \in Nat
      BY <1>4, <1>13, CountType
    <3> QED  BY <1>11, <2>1, <2>3, <2>5, <3>1, <3>2
  <2>6. CASE d = c /\ t > now
    <3>1. \A i \in DOMAIN hist.guesses[c] : hist.guesses[c][i] \in Int /\ hist.guesses[c][i] <= now
      BY <1>0, <2>2, <2>6, Constants DEF CountInv, Times
    <3>2. Since(hist.guesses[c], t) = {}
      BY <1>0, <2>6, <3>1 DEF Since
    <3>3. Count(hist.guesses[d], t) = 0
      BY <2>6, <3>2, FS_EmptySet DEF Count
    <3> QED  BY <1>11, <2>3, <2>6, <3>3
  <2> QED  BY <1>0, <2>4, <2>5, <2>6
<1>14. CountInv'
  BY <1>0, <1>3, <1>13 DEF CountInv
<1>15. GuessesAreBounded'
  BY <1>0, <1>3 DEF GuessesAreBounded
<1> QED  BY <1>8, <1>9, <1>14, <1>15 DEF LimiterInv

(***************************************************************************)
(* The lease, the clock and the rest.                                      *)
(***************************************************************************)
\* A step that touches neither the limiter nor the guesses.
LEMMA AsideStep ==
    ASSUME LimiterInv, StateInv', now' = now, limiter' = limiter,
           hist'.guesses = hist.guesses,
           hist' = [guesses |-> hist'.guesses, served |-> hist'.served],
           \A r \in Requests : \/ req'[r] = req[r]
                               \/ req[r].pc = "pair" /\ req'[r] = Idle
    PROVE  LimiterInv'
<1>1. StateInv /\ SizeInv /\ CountInv /\ IsTable(limiter.failed) /\ LimiterType(limiter')
  BY DEF LimiterInv, StateInv, LimiterType
<1>2. Idle.pc = "idle" /\ \A c \in Clients : At("record", c).pc = "record"
  BY DEF Idle, At
<1>3. Between' = Between
  BY <1>2 DEF Between
<1>4. SizeInv'
  BY <1>1, <1>3 DEF SizeInv
<1>5. ASSUME NEW c \in Clients PROVE Recording(c)' = Recording(c)
  BY <1>2 DEF Recording
<1>6. \A c \in Clients : Remembers(limiter, limiter', c, now)
  BY <1>1, RemembersSame
<1>7. hist'.guesses \in [Clients -> Seq(Times)]
  BY <1>1 DEF CountInv
<1>8. CountInv' /\ GuessesAreBounded'
  BY <1>1, <1>5, <1>6, <1>7, CountsStay
<1> QED  BY <1>4, <1>8 DEF LimiterInv

LEMMA EnforceStep ==
    ASSUME LimiterInv, NEW r \in Requests,
           \/ \E p \in Panels \union {NoPanel} :
                EnforceRefuses(r, p) \/ \E s \in BOOLEAN : EnforceAdmits(r, p, s)
           \/ EnforceFails(r)
    PROVE  LimiterInv'
<1>1. /\ StateInv /\ req \in [Requests -> ReqType]
      /\ hist = [guesses |-> hist.guesses, served |-> hist.served]
  BY DEF LimiterInv, StateInv, ReqType, CountInv
<1>2. Idle \in ReqType
  BY DEF ReqType
<1>3. /\ req[r].pc = "pair" /\ Go(r, Idle) /\ now' = now /\ limiter' = limiter /\ sent' = sent
      /\ \/ pairing' = pairing
         \/ \E p \in Panels : pairing' = Paired(p, now)
      /\ hist' = hist \/ \E x : hist' = [hist EXCEPT !.served = x]
      /\ trouble' = trouble \/ (trouble < MaxTrouble /\ trouble' = trouble + 1)
  BY DEF EnforceRefuses, EnforceAdmits, EnforceFails
<1>4. /\ hist'.guesses = hist.guesses
      /\ hist' = [guesses |-> hist'.guesses, served |-> hist'.served]
  BY <1>1, <1>3
<1>5. req' \in [Requests -> ReqType] /\ req'[r] = Idle
        /\ \A q \in Requests : q # r => req'[q] = req[q]
  BY <1>1, <1>2, <1>3, GoFacts
<1>6. StateInv'
  <2>1. now \in Times /\ now <= now
    BY <1>1, Constants DEF StateInv, Times
  <2>2. \/ pairing' \in {Absent, Corrupt}
        \/ \E p \in Panels, t \in Times : pairing' = Paired(p, t) /\ t <= now
    BY <1>1, <1>3, <2>1 DEF StateInv
  <2>3. trouble' \in 0 .. MaxTrouble
    BY <1>1, <1>3, Constants DEF StateInv
  <2> QED  BY <1>1, <1>3, <1>5, <2>2, <2>3 DEF StateInv, ReqType
<1>7. \A q \in Requests : req'[q] = req[q] \/ (req[q].pc = "pair" /\ req'[q] = Idle)
  BY <1>3, <1>5
<1> QED  BY <1>3, <1>4, <1>6, <1>7, AsideStep

LEMMA OutsideStep ==
    ASSUME LimiterInv, Damage \/ Release
    PROVE  LimiterInv'
<1>1. /\ StateInv
      /\ hist = [guesses |-> hist.guesses, served |-> hist.served]
  BY DEF LimiterInv, CountInv
<1>2. /\ now' = now /\ limiter' = limiter /\ sent' = sent /\ req' = req
      /\ trouble < MaxTrouble /\ trouble' = trouble + 1
      /\ pairing' \in {Absent, Corrupt}
      /\ hist' = hist \/ hist' = [hist EXCEPT !.served = Unserved]
  BY DEF Damage, Release
<1>3. /\ hist'.guesses = hist.guesses
      /\ hist' = [guesses |-> hist'.guesses, served |-> hist'.served]
  BY <1>1, <1>2
<1>4. trouble' \in 0 .. MaxTrouble
  BY <1>1, <1>2, Constants DEF StateInv
<1>5. StateInv'
  BY <1>1, <1>2, <1>4 DEF StateInv
<1> QED  BY <1>2, <1>3, <1>5, AsideStep

LEMMA TickStep ==
    ASSUME LimiterInv, Tick
    PROVE  LimiterInv'
<1>1. /\ StateInv /\ SizeInv /\ CountInv /\ GuessesAreBounded
      /\ now \in Int /\ FailedWindow \in Int /\ FailedMax \in Nat /\ Cardinality(Requests) \in Nat
  BY Constants, FS_CardinalityType DEF LimiterInv, StateInv, Times
<1>2. /\ now < MaxTime /\ now' = now + 1 /\ limiter' = limiter /\ pairing' = pairing
      /\ req' = req /\ trouble' = trouble /\ sent' = sent /\ hist' = hist
  BY DEF Tick
<1>3. StateInv'
  <2>1. now' \in Times
    BY <1>1, <1>2, Constants DEF StateInv, Times
  <2>2. \/ pairing \in {Absent, Corrupt}
        \/ \E p \in Panels, t \in Times : pairing = Paired(p, t) /\ t <= now'
    <3>1. \A t \in Times : t <= now => t <= now'
      BY <1>1, <1>2, Constants DEF Times
    <3> QED  BY <1>1, <3>1 DEF StateInv
  <2> QED  BY <1>1, <1>2, <2>1, <2>2 DEF StateInv
<1>4. SizeInv'
  BY <1>1, <1>2 DEF SizeInv, Between
<1>5. CountInv'
  <2>1. ASSUME NEW c \in Clients, NEW i \in DOMAIN hist.guesses[c] PROVE hist.guesses[c][i] <= now'
    <3>1. hist.guesses[c][i] \in Int /\ hist.guesses[c][i] <= now
      BY <1>1, Constants DEF CountInv, Times
    <3> QED  BY <1>1, <1>2, <3>1
  <2>2. \A t \in Int : t > now' - FailedWindow => t > now - FailedWindow
    BY <1>1, <1>2
  <2> QED  BY <1>1, <1>2, <2>1, <2>2 DEF CountInv, Recording
<1>6. ASSUME NEW c \in Clients
      PROVE  Cardinality({i \in DOMAIN hist.guesses[c] :
                            now' - hist.guesses[c][i] < FailedWindow})
               <= FailedMax + Cardinality(Requests) - 1
  <2> DEFINE g == hist.guesses[c]
             s == now - FailedWindow + 1
             t == now' - FailedWindow + 1
  <2>1. g \in Seq(Times)
    BY <1>1 DEF CountInv
  <2>2. s \in Int /\ t \in Int /\ s <= t
    BY <1>1, <1>2
  <2>3. Cardinality({i \in DOMAIN g : now - g[i] < FailedWindow})
          <= FailedMax + Cardinality(Requests) - 1
    BY <1>1 DEF GuessesAreBounded
  <2>4. now' \in Int
    BY <1>1, <1>2
  <2> HIDE DEF g
  <2>5. /\ {i \in DOMAIN g : now - g[i] < FailedWindow} = Since(g, s)
        /\ {i \in DOMAIN g : now' - g[i] < FailedWindow} = Since(g, t)
    BY <1>1, <2>1, <2>4, GuessCount
  <2> HIDE DEF s, t
  <2>6. Count(g, t) <= Count(g, s) /\ Count(g, t) \in Nat /\ Count(g, s) \in Nat
    BY <2>1, <2>2, CountLater, CountType
  <2>7. Cardinality(Since(g, t)) <= FailedMax + Cardinality(Requests) - 1
    BY <1>1, <2>3, <2>5, <2>6 DEF Count
  <2> QED  BY <2>5, <2>7 DEF g
<1> QED  BY <1>2, <1>3, <1>4, <1>5, <1>6 DEF LimiterInv, GuessesAreBounded

\* The limiter of an agent that just started.
LEMMA NewLimiterFacts ==
    /\ LimiterType(NewLimiter)
    /\ DOMAIN NewLimiter.buckets = {} /\ DOMAIN NewLimiter.heavy = {}
    /\ DOMAIN NewLimiter.failed = {}
<1>1. /\ NewLimiter.buckets = << >> /\ NewLimiter.heavy = << >> /\ NewLimiter.failed = << >>
      /\ NewLimiter.global = << >> /\ NewLimiter.lastPrune = Never
  BY DEF NewLimiter
<1>2. DOMAIN << >> = {} /\ << >> \in [{} -> BucketType] /\ << >> \in Seq(Times)
  OBVIOUS
<1>3. IsTable(<< >>)
  BY <1>2 DEF IsTable
<1>4. NewLimiter = [lastPrune |-> NewLimiter.lastPrune, buckets |-> NewLimiter.buckets,
                    heavy |-> NewLimiter.heavy, failed |-> NewLimiter.failed,
                    global |-> NewLimiter.global]
  BY DEF NewLimiter
<1>5. LimiterType(NewLimiter)
  BY <1>1, <1>2, <1>3, <1>4 DEF LimiterType
<1> QED  BY <1>1, <1>2, <1>5

\* Sizes and counts of a limiter without a bucket and a ghost without a guess.
Empty ==
    /\ limiter = NewLimiter /\ now \in Int /\ req = [r \in Requests |-> Idle]
    /\ hist = [guesses |-> hist.guesses, served |-> hist.served]
    /\ hist.guesses = [c \in Clients |-> << >>]

LEMMA EmptyIsBounded == Empty => SizeInv /\ CountInv /\ GuessesAreBounded
<1> SUFFICES ASSUME Empty PROVE SizeInv /\ CountInv /\ GuessesAreBounded
  OBVIOUS
<1> USE DEF Empty
<1>0. /\ FailedMax \in Nat \ {0} /\ Cardinality(Requests) \in Nat /\ IsFiniteSet(Requests)
      /\ MaxBuckets \in Nat \ {0} /\ FailedWindow \in Int
  BY Constants, FS_CardinalityType
<1>1. SizeInv
  <2>1. Between = {}
    BY DEF Between, Idle
  <2> QED  BY <1>0, <2>1, NewLimiterFacts, FS_EmptySet DEF SizeInv
<1>2. \A c \in Clients : hist.guesses[c] = << >>
  OBVIOUS
<1>3. DOMAIN << >> = {} /\ << >> \in Seq(Times)
  OBVIOUS
<1>4. ASSUME NEW c \in Clients, NEW t \in Int
      PROVE  Count(hist.guesses[c], t) <= Count(FailedTs(limiter, c), t) + Cardinality(Recording(c))
  <2>1. Recording(c) = {}
    BY DEF Recording, Idle, At
  <2>2. FailedTs(limiter, c) = << >>
    BY NewLimiterFacts DEF FailedTs
  <2> QED  BY <1>2, <2>1, <2>2, CountEmpty, FS_EmptySet
<1>5. CountInv
  BY <1>2, <1>3, <1>4 DEF CountInv
<1>6. ASSUME NEW c \in Clients
      PROVE  {i \in DOMAIN hist.guesses[c] : now - hist.guesses[c][i] < FailedWindow} = {}
  BY <1>2, <1>3
<1>7. GuessesAreBounded
  BY <1>0, <1>6, FS_EmptySet DEF GuessesAreBounded
<1> QED  BY <1>1, <1>5, <1>7

LEMMA LimiterInit == Init => LimiterInv
<1> SUFFICES ASSUME Init PROVE LimiterInv
  OBVIOUS
<1>1. now = 0 /\ limiter = NewLimiter /\ pairing = Absent /\ req = [r \in Requests |-> Idle]
        /\ sent = 0 /\ trouble = 0
  BY DEF Init
<1>2. /\ hist.guesses = [c \in Clients |-> << >>]
      /\ hist = [guesses |-> hist.guesses, served |-> hist.served]
  BY DEF Init
<1>3. now \in Times /\ now \in Int /\ sent \in 0 .. MaxSent /\ trouble \in 0 .. MaxTrouble
  BY <1>1, Constants DEF Times
<1>4. StateInv
  BY <1>1, <1>3, NewLimiterFacts DEF StateInv
<1>5. Empty
  BY <1>1, <1>2, <1>3 DEF Empty
<1> QED  BY <1>4, <1>5, EmptyIsBounded DEF LimiterInv

LEMMA RestartStep ==
    ASSUME LimiterInv, Restart
    PROVE  LimiterInv'
<1>1. /\ StateInv /\ hist = [guesses |-> hist.guesses, served |-> hist.served]
  BY DEF LimiterInv, CountInv
<1>2. /\ limiter' = NewLimiter /\ req' = [r \in Requests |-> Idle] /\ now' = now
      /\ pairing' = pairing /\ sent' = sent
      /\ trouble < MaxTrouble /\ trouble' = trouble + 1
      /\ hist' = [hist EXCEPT !.guesses = [c \in Clients |-> << >>]]
  BY DEF Restart
<1>3. /\ hist'.guesses = [c \in Clients |-> << >>]
      /\ hist' = [guesses |-> hist'.guesses, served |-> hist'.served]
  BY <1>1, <1>2
<1>4. now' \in Int /\ now' \in Times /\ trouble' \in 0 .. MaxTrouble
  BY <1>1, <1>2, Constants DEF StateInv, Times
<1>5. StateInv'
  BY <1>1, <1>2, <1>4, NewLimiterFacts DEF StateInv
<1>6. Empty'
  BY <1>2, <1>3, <1>4 DEF Empty
<1>7. (Empty => SizeInv /\ CountInv /\ GuessesAreBounded)'
  BY EmptyIsBounded, PTL
<1> QED  BY <1>5, <1>6, <1>7 DEF LimiterInv

LEMMA LimiterNext == LimiterInv /\ [Next]_vars => LimiterInv'
<1> SUFFICES ASSUME LimiterInv, [Next]_vars PROVE LimiterInv'
  OBVIOUS
<1>0. StateInv /\ sent \in 0 .. MaxSent
  BY DEF LimiterInv, StateInv
<1>1. ASSUME NEW r \in Requests, NEW c \in Clients, Allow(r, c) PROVE LimiterInv'
  <2>1. PICK k, to : Swept(r, k, to)
    BY <1>0, <1>1, AllowStep
  <2> QED  BY <1>0, <1>1, <2>1, AllowStep, SweptStep
<1>2. ASSUME NEW r \in Requests, AllowGlobal(r) PROVE LimiterInv'
  <2>1. PICK k, to : Swept(r, k, to)
    BY <1>0, <1>2, GlobalStep
  <2> QED  BY <1>0, <1>2, <2>1, GlobalStep, SweptStep
<1>3. ASSUME NEW r \in Requests, AllowHeavy(r) PROVE LimiterInv'
  <2>1. PICK k, to : Swept(r, k, to)
    BY <1>0, <1>3, HeavyStep
  <2> QED  BY <1>0, <1>3, <2>1, HeavyStep, SweptStep
<1>4. ASSUME NEW r \in Requests, FailedBlocked(r) \/ KeyIsRight(r) PROVE LimiterInv'
  BY <1>4, CheckedStep
<1>5. ASSUME NEW r \in Requests, KeyIsWrong(r) PROVE LimiterInv'
  BY <1>5, WrongStep
<1>6. ASSUME NEW r \in Requests, RecordFailedAuth(r) PROVE LimiterInv'
  BY <1>6, RecordStep
<1>7. ASSUME NEW r \in Requests,
             \/ \E p \in Panels \union {NoPanel} :
                  EnforceRefuses(r, p) \/ \E s \in BOOLEAN : EnforceAdmits(r, p, s)
             \/ EnforceFails(r)
      PROVE  LimiterInv'
  BY <1>7, EnforceStep
<1>8. CASE Tick
  BY <1>8, TickStep
<1>9. CASE Restart
  BY <1>9, RestartStep
<1>10. CASE Damage \/ Release
  BY <1>10, OutsideStep
<1>11. CASE UNCHANGED vars
  <2>1. UNCHANGED <<now, limiter, pairing, req, sent, trouble, hist>>
    BY <1>11 DEF vars
  <2> QED  BY <2>1 DEF LimiterInv, StateInv, SizeInv, CountInv, GuessesAreBounded, Between,
                       Recording
<1> QED  BY <1>1, <1>2, <1>3, <1>4, <1>5, <1>6, <1>7, <1>8, <1>9, <1>10, <1>11 DEF Next

\* Types, sizes and counts of the limiter, at every step of every request.
THEOREM LimiterInvAlways == Spec => []LimiterInv
BY LimiterInit, LimiterNext, PTL DEF Spec

\* The tables, the lease and the requests of authorize keep their types, and
\* last_seen never runs ahead of the clock.
THEOREM TypeCorrect == Spec => []TypeOK
<1>1. LimiterInv => TypeOK
  <2> SUFFICES ASSUME LimiterInv PROVE TypeOK
    OBVIOUS
  <2>1. StateInv /\ LimiterType(limiter)
    BY DEF LimiterInv, StateInv
  <2>2. ASSUME NEW m, IsTable(m) PROVE Tables(m)
    BY <2>2 DEF IsTable, Tables, BucketType
  <2>3. Tables(limiter.buckets) /\ Tables(limiter.heavy) /\ Tables(limiter.failed)
    BY <2>1, <2>2 DEF LimiterType
  <2>4. limiter.lastPrune \in Times \union {Never} /\ limiter.global \in Seq(Times)
    BY <2>1 DEF LimiterType
  <2>5. req \in [Requests -> {Idle} \union
                  {At(pc, c) : pc \in {"check", "record", "global", "heavy", "pair"}, c \in Clients}]
    BY <2>1 DEF StateInv, Calls
  <2> QED  BY <2>1, <2>3, <2>4, <2>5 DEF StateInv, TypeOK
<1> QED  BY <1>1, LimiterInvAlways, PTL

\* However the checks, comparisons and records of concurrent requests
\* interleave, an address gets no more than failedMax wrong keys and one per
\* further request compared within a window (auth.go; FailedBlocked).
THEOREM GuessesBounded == Spec => []GuessesAreBounded
<1>1. LimiterInv => GuessesAreBounded
  BY DEF LimiterInv
<1> QED  BY <1>1, LimiterInvAlways, PTL

\* Whatever addresses call, the tables stay within their bound: a record
\* that sweeps nothing is paid for by the sweep of the Allow before it
\* (ratelimit.go: prune, RecordFailedAuth).
THEOREM TablesBounded == Spec => []TablesStayBounded
<1>1. LimiterInv => TablesStayBounded
  <2> SUFFICES ASSUME LimiterInv PROVE TablesStayBounded
    OBVIOUS
  <2>1. SizeInv /\ IsTable(limiter.failed)
    BY DEF LimiterInv, StateInv, LimiterType
  <2>2. Between \in SUBSET Requests
    BY DEF Between
  <2>3. Cardinality(Between) \in Nat /\ Cardinality(Requests) \in Nat
          /\ Cardinality(DOMAIN limiter.failed) \in Nat
    BY <2>1, <2>2, TableSize, Constants, FS_Subset, FS_CardinalityType
  <2> QED  BY <2>1, <2>3, Constants DEF SizeInv, TablesStayBounded
<1> QED  BY <1>1, LimiterInvAlways, PTL
=============================================================================
