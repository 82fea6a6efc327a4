------------------------ MODULE UserLifecycleProofs ------------------------
(***************************************************************************)
(* Proofs about Pki, for any set of users, any number of serials and CRLs, *)
(* and any number of crashes, failed writes and lost files; then about     *)
(* UserLifecycle, whose handlers drive the CA, for any number of handlers  *)
(* and requests.                                                           *)
(***************************************************************************)
EXTENDS UserLifecycle, TLAPS

(***************************************************************************)
(* First part: the CA alone.  Its invariant has three layers: types and    *)
(* what the operation at work has made sure of (Typed), what ties          *)
(* certificates, index and CRL together (Tracked), and what an operation   *)
(* on the identity may still undo or build (Guarded).                      *)
(***************************************************************************)

OpKinds == {"none", "issue", "renew", "remove", "refresh", "push", "regenerate", "init"}

OpSteps == {"idle", "serial", "index", "cert", "key", "bundle", "skey", "scert",
          "fallback", "mark", "crlnumber", "crl", "verify", "rmcert", "rmkey",
          "gencrl", "pkey", "pcert", "pca", "pushed", "undokey", "undocert", "initserver",
          "buildca", "cacert", "buildserver", "servercert", "validate", "ok", "err"}

OpType == [kind : OpKinds, cn : CNs \union {Server, None}, step : OpSteps,
           serial : Serials \union {None}, key : Keys \union {None},
           crl : Crl \union {None}, old : Identity \union {None}, undo : 0..2,
           stuck : SUBSET {"key", "cert"}]

\* The steps of each operation.
StepsOf ==
    /\ op.kind = "none" => op.step = "idle"
    /\ op.kind = "issue" => op.step \in {"serial", "index", "cert", "key", "bundle", "ok", "err"}
    /\ op.kind = "renew" => op.step \in {"serial", "index", "skey", "scert", "fallback", "ok",
                                         "err"}
    /\ op.kind = "remove" => op.step \in {"mark", "crlnumber", "crl", "verify", "rmcert",
                                          "rmkey", "bundle", "ok", "err"}
    /\ op.kind \in {"refresh", "regenerate"} => op.step \in {"gencrl", "crlnumber", "crl", "ok",
                                                              "err"}
    /\ op.kind = "push" => op.step \in {"pkey", "pcert", "pca", "pushed", "undokey", "undocert", "ok",
                                        "err"}
    /\ op.kind = "init" => op.step \in {"initserver", "buildca", "cacert", "buildserver",
                                        "servercert", "validate", "gencrl", "crlnumber", "crl",
                                        "ok", "err"}

\* The types of the files.
Files ==
    /\ ca \in CAs \union {None} /\ caKey \in {1, 2, None}
    /\ serial \in First..MaxSerial + 1 \union {None}
    /\ index \in [Serials -> Row \union {None}]
    /\ crlnumber \in First..MaxCrl + 1 \union {None}
    /\ crl \in Crl \union {None}
    /\ issued \in [CNs -> Cert \union {None}]
    /\ key \in [CNs -> Keys \union {None}]
    /\ server \in Pair
    /\ signed \in [Serials -> Nat]

\* What the operation has made sure of by the time it is at a step.
Ready ==
    /\ op.kind \in {"issue", "remove"} => op.cn \in CNs
    /\ op.kind = "renew" => op.cn = Server
    /\ op.step \in {"index", "cert", "key", "skey", "scert"} => op.serial # None
    /\ op.step \in {"serial", "index", "cert", "skey", "scert"} => ca # None
    /\ op.step = "crl" => op.crl # None
    /\ op.step \in {"pkey", "pcert", "pca", "undokey", "undocert"} => op.old # None
    /\ op.step = "servercert" => server.key # None

Typed == Files /\ op \in OpType /\ StepsOf /\ Ready

\* The certificate with serial s is the one in the tree for its common name.
TreeHas(s) ==
    /\ index[s] # None /\ index[s].cn \in CNs
    /\ issued[index[s].cn] # None /\ issued[index[s].cn].serial = s

\* A serial is used once, and always after its row was written.
UsedOnce ==
    /\ \A s \in Serials : signed[s] <= 1 /\ (signed[s] > 0 => index[s] # None)
    /\ op.step = "cert" => /\ signed[op.serial] = 0
                           /\ index[op.serial] # None /\ index[op.serial].cn = op.cn

\* An issue only goes ahead where there is no certificate to replace.
NothingReplaced ==
    op.kind = "issue" /\ op.step \in {"serial", "index", "cert"} => issued[op.cn] = None

\* A certificate that left the tree has a revoked row and is on the CRL.
LeftRevoked ==
    \A s \in Serials : signed[s] > 0 =>
        /\ TreeHas(s) \/ s \in RevokedRows
        /\ crl # None => TreeHas(s) \/ s \in crl.entries

\* The rows of a removal are revoked, then on the CRL, before its files go.
Removing ==
    /\ op.kind = "remove" /\ op.step \in {"crlnumber", "crl", "verify", "rmcert"}
         => RowsOf(op.cn) \subseteq RevokedRows
    /\ op.step = "rmcert" => RowsOf(op.cn) \subseteq OnCrl

\* A CRL about to be published follows the one that is there and lists every
\* revoked row; easyrsa is only asked where there is none.
CrlFollows ==
    /\ op.step = "crl" => /\ RevokedRows \subseteq op.crl.entries
                          /\ OnCrl \subseteq op.crl.entries
                          /\ crl # None => crl.number < op.crl.number
    /\ op.step = "gencrl" => crl = None

Tracked == UsedOnce /\ NothingReplaced /\ LeftRevoked /\ Removing /\ CrlFollows

\* What a push still has to put back, and what initialisation found missing.
Guarded ==
    /\ op.step \in {"pkey", "pcert", "pca", "undokey", "undocert"} => op.old.ca = ca
    /\ op.step = "pkey" => op.undo = 0 /\ op.old.server = server
    /\ op.step = "pcert" => op.undo = 1 /\ op.old.server.cert = server.cert
    /\ op.step = "pca" => op.undo = 2
    /\ op.step = "undokey" => op.undo = 2 \/ op.old.server.cert = server.cert
    /\ op.step = "undocert" => "key" \in op.stuck \/ op.old.server.key = server.key
    /\ RefusedPushIsUndone
    /\ op.step = "buildca" => caKey = None /\ ca = None
    /\ op.step = "cacert" => ca = None
    /\ op.step = "buildserver" => server.key = None /\ server.cert = None
    /\ op.step = "servercert" => server.cert = None

-----------------------------------------------------------------------------
(* Facts about the values, and the ways a step of an operation can end. *)

LEMMA ValueFacts ==
  /\ None \notin Serials /\ None \notin Keys /\ None \notin CAs /\ None \notin CNs
  /\ None # Server /\ Server \notin CNs
  /\ Serials \subseteq Keys /\ PanelCA \in Keys /\ {PanelCA, 1, 2} \subseteq CAs
  /\ \A s \in Serials : s \in Nat
BY PkiAssumption DEF Serials, Keys, CAs, PanelCA, First

LEMMA NoneFacts ==
  /\ None \notin Cert /\ None \notin Row /\ None \notin Crl /\ None \notin Identity
BY NoneAssumption

pkiState == <<pkiFiles, op, signed>>

Moved(st) ==
    /\ op' \in OpType /\ op'.step = st
    /\ op'.kind = op.kind /\ op'.cn = op.cn /\ op'.serial = op.serial /\ op'.key = op.key
    /\ op'.crl = op.crl /\ op'.old = op.old /\ op'.undo = op.undo /\ op'.stuck = op.stuck

Began(kind, cn, st) ==
    /\ op' \in OpType /\ op'.kind = kind /\ op'.cn = cn /\ op'.step = st
    /\ op'.serial = None /\ op'.crl = None /\ op'.undo = 0

LEMMA IdleFacts ==
  /\ Idle \in OpType /\ Idle.kind = "none" /\ Idle.cn = None /\ Idle.step = "idle"
  /\ Idle.serial = None /\ Idle.crl = None /\ Idle.undo = 0
BY DEF Idle, OpType, OpKinds, OpSteps

LEMMA GotoMoves ==
  ASSUME op \in OpType, NEW st \in OpSteps, Goto(st)
  PROVE  Moved(st)
BY DEF OpType, Goto, Moved

LEMMA Begins ==
  ASSUME NEW k \in OpKinds, NEW c \in CNs \union {Server, None}, NEW st \in OpSteps,
         \/ op' = [Idle EXCEPT !.kind = k, !.cn = c, !.step = st]
         \/ c = None /\ op' = [Idle EXCEPT !.kind = k, !.step = st]
  PROVE  Began(k, c, st)
<1>1. CASE op' = [Idle EXCEPT !.kind = k, !.cn = c, !.step = st]
  BY <1>1, IdleFacts DEF OpType, Began
<1>2. CASE c = None /\ op' = [Idle EXCEPT !.kind = k, !.step = st]
  BY <1>2, IdleFacts DEF OpType, Began
<1> QED
  BY <1>1, <1>2

LEMMA ErrorMoves ==
  ASSUME op \in OpType, OnError
  PROVE  \/ op.kind = "renew" /\ Moved("fallback")
         \/ op.kind = "push" /\ op.undo # 0 /\ Moved("undokey")
         \/ (op.kind = "push" => op.undo = 0) /\ Moved("err")
<1>1. "fallback" \in OpSteps /\ "undokey" \in OpSteps /\ "err" \in OpSteps
  BY DEF OpSteps
<1>2. CASE op.kind = "renew" /\ op.step # "fallback"
  BY <1>1, <1>2, GotoMoves DEF OnError
<1>3. CASE op.kind = "push"
  BY <1>1, <1>3, GotoMoves DEF OnError
<1>4. CASE op.kind # "push" /\ ~(op.kind = "renew" /\ op.step # "fallback")
  BY <1>1, <1>4, GotoMoves DEF OnError
<1> QED
  BY <1>2, <1>3, <1>4

\* A file that cannot be put back ends the push, or leaves the certificate.
LEMMA StuckMoves ==
  ASSUME op \in OpType, RestoreFails
  PROVE  /\ op' \in OpType /\ op'.kind = op.kind /\ op'.cn = op.cn /\ op'.serial = op.serial
         /\ op'.key = op.key /\ op'.crl = op.crl /\ op'.old = op.old /\ op'.undo = op.undo
         /\ \/ op.step = "undokey" /\ op.undo = 2 /\ op'.step = "undocert" /\ "key" \in op'.stuck
            \/ op.step = "undokey" /\ op.undo # 2 /\ op'.step = "err" /\ "key" \in op'.stuck
            \/ op.step = "undocert" /\ op'.step = "err" /\ "cert" \in op'.stuck
         /\ op.stuck \subseteq op'.stuck
<1>1. "undocert" \in OpSteps /\ "err" \in OpSteps
  BY DEF OpSteps
<1> QED
  BY <1>1 DEF RestoreFails, AfterKey, OpType

LEMMA CertIsCert ==
  ASSUME NEW s \in {0} \union Serials, NEW k \in Keys, NEW a \in CAs
  PROVE  [serial |-> s, key |-> k, ca |-> a] \in Cert
BY DEF Cert

LEMMA RowIsRow ==
  ASSUME NEW c \in CNs \union {Server}, NEW st \in {"V", "R"}
  PROVE  [cn |-> c, status |-> st] \in Row
BY DEF Row

-----------------------------------------------------------------------------
(* Types *)

LEMMA InitTyped == Init => Typed
<1> SUFFICES ASSUME Init  PROVE Typed
  OBVIOUS
<1>1. First \in First..MaxSerial + 1 /\ First \in First..MaxCrl + 1
  BY PkiAssumption DEF First
<1>2. server \in Pair
  BY DEF Init, Pair
<1>3. Files
  BY <1>1, <1>2 DEF Init, Files
<1>4. op \in OpType /\ StepsOf /\ Ready
  BY IdleFacts DEF Init, StepsOf, Ready
<1> QED
  BY <1>3, <1>4 DEF Typed

LEMMA StepTyped == Typed /\ [Next]_pkiState => Typed'
<1> SUFFICES ASSUME Typed, [Next]_pkiState  PROVE Typed'
  OBVIOUS
<1> USE ValueFacts, IdleFacts
    DEF Typed, pkiFiles, Files, Ready, StepsOf
<1>s. OpSteps = {"idle", "serial", "index", "cert", "key", "bundle", "skey", "scert",
          "fallback", "mark", "crlnumber", "crl", "verify", "rmcert", "rmkey",
          "gencrl", "pkey", "pcert", "pca", "pushed", "undokey", "undocert", "initserver",
          "buildca", "cacert", "buildserver", "servercert", "validate", "ok", "err"}
  BY DEF OpSteps
<1>k. OpKinds = {"none", "issue", "renew", "remove", "refresh", "push", "regenerate", "init"}
  BY DEF OpKinds
<1>e. \A due : EnsureStep(due) \in {"err", "gencrl", "crlnumber", "ok"}
  BY DEF EnsureStep
<1>1. ASSUME TakeSerial  PROVE Typed'
  <2>1. serial \in Serials /\ serial + 1 \in First..MaxSerial + 1
    BY <1>1, PkiAssumption DEF TakeSerial, Serials, First
  <2>2. /\ op' \in OpType /\ op'.serial = serial /\ op'.kind = op.kind /\ op'.cn = op.cn
        /\ op'.step = IF op.kind = "issue" THEN "index" ELSE "skey"
    <3>1. {"index", "skey"} \subseteq OpSteps
      BY <1>s
    <3> QED
      BY <1>1, <2>1, <3>1 DEF TakeSerial, OpType
  <2> QED
    BY <1>1, <2>1, <2>2 DEF TakeSerial
<1>2. ASSUME NoSerial  PROVE Typed'
  BY <1>2, ErrorMoves DEF NoSerial, Moved
<1>3. ASSUME AppendIndex  PROVE Typed'
  <2>1. op.step = "index" /\ op.serial \in Serials
    BY <1>3 DEF AppendIndex, OpType
  <2>2. CASE OnError /\ UNCHANGED index
    BY <1>3, <2>1, <2>2, ErrorMoves DEF AppendIndex, Moved
  <2>3. CASE /\ index' = [index EXCEPT ![op.serial] = [cn |-> op.cn, status |-> "V"]]
             /\ Goto(IF op.kind = "issue" THEN "cert" ELSE "ok")
    <3>1. op.cn \in CNs \union {Server} /\ op.kind \in {"issue", "renew"}
      BY <2>1, <1>k DEF OpType
    <3>2. index' \in [Serials -> Row \union {None}]
      BY <2>1, <2>3, <3>1, RowIsRow
    <3>3. Moved(IF op.kind = "issue" THEN "cert" ELSE "ok")
      BY <2>3, <1>s, GotoMoves
    <3> QED
      BY <1>3, <2>1, <3>1, <3>2, <3>3 DEF AppendIndex, Moved
  <2> QED
    BY <1>3, <2>2, <2>3 DEF AppendIndex
<1>4. ASSUME WriteCert  PROVE Typed'
  <2>1. /\ op.step = "cert" /\ op.serial \in Serials /\ op.cn \in CNs /\ ca \in CAs
        /\ op.kind = "issue"
    BY <1>4, <1>k DEF WriteCert, OpType
  <2>2. NewKey \in Keys
    BY <2>1 DEF NewKey, OpType
  <2>3. issued' \in [CNs -> Cert \union {None}]
    BY <1>4, <2>1, <2>2, CertIsCert DEF WriteCert
  <2>4. signed' \in [Serials -> Nat]
    BY <1>4, <2>1 DEF WriteCert
  <2>5. Moved("key") \/ Moved("bundle")
    BY <1>4, <1>s, GotoMoves DEF WriteCert
  <2> QED
    BY <1>4, <2>1, <2>3, <2>4, <2>5 DEF WriteCert, Moved
<1>5. ASSUME WriteKey  PROVE Typed'
  <2>1. op.step = "key" /\ op.serial \in Serials
    BY <1>5 DEF WriteKey, OpType
  <2>2. key' \in [CNs -> Keys \union {None}]
    BY <1>5, <2>1 DEF WriteKey
  <2> QED
    BY <1>5, <2>1, <2>2, <1>s, GotoMoves DEF WriteKey, Moved
<1>6. ASSUME Bundle  PROVE Typed'
  BY <1>6, <1>s, GotoMoves DEF Bundle, Moved
<1>7. ASSUME WriteServerKey  PROVE Typed'
  <2>1. op.step = "skey" /\ op.serial \in Serials
    BY <1>7 DEF WriteServerKey, OpType
  <2>2. server' \in Pair
    BY <1>7, <2>1 DEF WriteServerKey, Pair
  <2> QED
    BY <1>7, <2>1, <2>2, <1>s, GotoMoves DEF WriteServerKey, Moved
<1>8. ASSUME WriteServerCert  PROVE Typed'
  <2>1. op.step = "scert" /\ op.serial \in Serials /\ ca \in CAs
    BY <1>8 DEF WriteServerCert, OpType
  <2>2. server' \in Pair
    BY <1>8, <2>1, CertIsCert DEF WriteServerCert, Pair
  <2> QED
    BY <1>8, <2>1, <2>2, <1>s, GotoMoves DEF WriteServerCert, Moved
<1>9. ASSUME FallbackRenews  PROVE Typed'
  <2>1. serial \in Serials /\ serial + 1 \in First..MaxSerial + 1 /\ ca \in CAs
    BY <1>9, PkiAssumption DEF FallbackRenews, OpensslCanSign, CanSign, Serials, First
  <2>2. server' \in Pair
    BY <1>9, <2>1, CertIsCert DEF FallbackRenews, Pair
  <2>3. index' \in [Serials -> Row \union {None}]
    BY <1>9, <2>1, RowIsRow DEF FallbackRenews
  <2> QED
    BY <1>9, <2>1, <2>2, <2>3, <1>s, GotoMoves DEF FallbackRenews, Moved
<1>10. ASSUME FallbackFails  PROVE Typed'
  BY <1>10, <1>s, GotoMoves DEF FallbackFails, Moved
<1>11. ASSUME MarkRevoked  PROVE Typed'
  <2>1. \A s \in RowsOf(op.cn) : [index[s] EXCEPT !.status = "R"] \in Row
    BY DEF RowsOf, Row
  <2>2. index' \in [Serials -> Row \union {None}]
    BY <1>11, <2>1 DEF MarkRevoked
  <2> QED
    BY <1>11, <2>2, <1>s, GotoMoves DEF MarkRevoked, Moved
<1>12. ASSUME WriteCrlNumber  PROVE Typed'
  <2>1. NextNumber \in Numbers /\ NextNumber + 1 \in First..MaxCrl + 1
    BY <1>12, PkiAssumption DEF WriteCrlNumber, NextNumber, Numbers, First, Crl
  <2>2. OnCrl \union RevokedRows \in SUBSET Serials /\ ca \in CAs
    BY <1>12 DEF WriteCrlNumber, OnCrl, RevokedRows, Crl, CanSign
  <2> DEFINE next == [ca |-> ca, number |-> NextNumber, entries |-> OnCrl \union RevokedRows]
  <2>3. next \in Crl
    BY <2>1, <2>2 DEF Crl
  <2>4. op' = [op EXCEPT !.step = "crl", !.crl = next]
    BY <1>12 DEF WriteCrlNumber
  <2> HIDE DEF next
  <2>5. /\ op' \in OpType /\ op'.crl = next /\ op'.step = "crl"
        /\ op'.kind = op.kind /\ op'.cn = op.cn
    <3>1. "crl" \in OpSteps
      BY <1>s
    <3> QED
      BY <2>3, <2>4, <3>1 DEF OpType
  <2> QED
    BY <1>12, <2>1, <2>3, <2>5, NoneFacts DEF WriteCrlNumber
<1>13. ASSUME CannotGenerate  PROVE Typed'
  BY <1>13, <1>s, GotoMoves DEF CannotGenerate, Moved
<1>14. ASSUME WriteCrl  PROVE Typed'
  <2>1. crl' \in Crl \union {None}
    BY <1>14 DEF WriteCrl, OpType
  <2>2. Moved(IF op.kind = "remove" THEN "verify" ELSE "ok") /\ op.step = "crl"
    BY <1>14, <1>s, GotoMoves DEF WriteCrl
  <2> QED
    BY <1>14, <2>1, <2>2 DEF WriteCrl, Moved, OpType
<1>15. ASSUME VerifyCrl  PROVE Typed'
  BY <1>15, <1>s, GotoMoves DEF VerifyCrl, Moved
<1>16. ASSUME RemoveCert  PROVE Typed'
  BY <1>16, <1>s, GotoMoves DEF RemoveCert, Moved
<1>17. ASSUME RemoveKey  PROVE Typed'
  BY <1>17, <1>s, GotoMoves DEF RemoveKey, Moved
<1>18. ASSUME GenCrl  PROVE Typed'
  <2>1. CASE Goto("err") /\ UNCHANGED <<crl, crlnumber>>
    BY <1>18, <2>1, <1>s, GotoMoves DEF GenCrl, Moved
  <2>2. CASE CanSign /\ crlnumber # None
    <3>1. crlnumber \in Numbers /\ crlnumber + 1 \in First..MaxCrl + 1
      BY <1>18, <2>2, PkiAssumption DEF GenCrl, Numbers, First
    <3>2. ca \in CAs /\ RevokedRows \in SUBSET Serials
      BY <2>2 DEF CanSign, RevokedRows
    <3>3. crl' \in Crl
      BY <1>18, <2>2, <3>1, <3>2 DEF GenCrl, Crl
    <3> QED
      BY <1>18, <2>2, <3>1, <3>3, <1>s, GotoMoves DEF GenCrl, Moved
  <2> QED
    BY <1>18, <2>1, <2>2 DEF GenCrl
<1>19. ASSUME PushKey  PROVE Typed'
  <2>1. server' \in Pair
    BY <1>19 DEF PushKey, Pair, Pushed
  <2>2. /\ op' \in OpType /\ op'.kind = op.kind /\ op'.cn = op.cn /\ op'.step = "pcert"
        /\ op'.old = op.old
    <3>1. "pcert" \in OpSteps /\ {1, 2} \subseteq 0..2
      BY <1>s
    <3> QED
      BY <1>19, <3>1 DEF PushKey, OpType
  <2> QED
    BY <1>19, <2>1, <2>2 DEF PushKey
<1>20. ASSUME PushCert  PROVE Typed'
  <2>1. Pushed.cert \in Cert
    BY CertIsCert DEF Pushed
  <2>2. server' \in Pair
    BY <1>20, <2>1 DEF PushCert, Pair
  <2>3. /\ op' \in OpType /\ op'.kind = op.kind /\ op'.cn = op.cn /\ op'.step = "pca"
        /\ op'.old = op.old
    <3>1. "pca" \in OpSteps /\ {1, 2} \subseteq 0..2
      BY <1>s
    <3> QED
      BY <1>20, <3>1 DEF PushCert, OpType
  <2> QED
    BY <1>20, <2>2, <2>3 DEF PushCert
<1>21. ASSUME PushCa  PROVE Typed'
  BY <1>21, <1>s, GotoMoves DEF PushCa, Moved
<1>22. ASSUME PushEnd  PROVE Typed'
  <2>1. Began("regenerate", None, "crlnumber") \/ Began("push", None, "ok")
    BY <1>22, <1>s, <1>k, Begins DEF PushEnd
  <2> QED
    BY <1>22, <2>1 DEF PushEnd, Began
<1>23. ASSUME RestoreKey  PROVE Typed'
  <2>1. op.step = "undokey" /\ op.old \in Identity
    BY <1>23 DEF RestoreKey, OpType
  <2>2. server' \in Pair
    BY <1>23, <2>1 DEF RestoreKey, Identity, Pair
  <2> QED
    BY <1>23, <2>1, <2>2, <1>s, GotoMoves DEF RestoreKey, AfterKey, Moved
<1>42. ASSUME RestoreCert  PROVE Typed'
  <2>1. op.step = "undocert" /\ op.old \in Identity
    BY <1>42 DEF RestoreCert, OpType
  <2>2. server' \in Pair
    BY <1>42, <2>1 DEF RestoreCert, Identity, Pair
  <2> QED
    BY <1>42, <2>1, <2>2, <1>s, GotoMoves DEF RestoreCert, Moved
<1>43. ASSUME RestoreFails  PROVE Typed'
  BY <1>43, StuckMoves DEF RestoreFails
<1>24. ASSUME BuildCaKey  PROVE Typed'
  BY <1>24, <1>s, GotoMoves DEF BuildCaKey, Moved
<1>25. ASSUME BuildCaCert  PROVE Typed'
  BY <1>25, <1>s, GotoMoves DEF BuildCaCert, Moved
<1>26. ASSUME InitServer  PROVE Typed'
  BY <1>26, <1>s, GotoMoves DEF InitServer, Moved
<1>27. ASSUME BuildServerKey  PROVE Typed'
  <2>1. CASE Goto("err") /\ UNCHANGED server
    BY <1>27, <2>1, <1>s, GotoMoves DEF BuildServerKey, Moved
  <2>2. CASE OpensslCanSign
    <3>1. serial \in Serials
      BY <2>2 DEF OpensslCanSign, Serials, First
    <3>2. server' \in Pair /\ server'.key # None
      BY <1>27, <2>2, <3>1 DEF BuildServerKey, Pair
    <3> QED
      BY <1>27, <2>2, <3>2, <1>s, GotoMoves DEF BuildServerKey, Moved
  <2> QED
    BY <1>27, <2>1, <2>2 DEF BuildServerKey
<1>28. ASSUME BuildServerCert  PROVE Typed'
  <2>1. serial \in Serials /\ serial + 1 \in First..MaxSerial + 1 /\ ca \in CAs
    BY <1>28, PkiAssumption DEF BuildServerCert, OpensslCanSign, CanSign, Serials, First
  <2>2. server.key \in Keys
    BY <1>28 DEF BuildServerCert, Pair
  <2>3. server' \in Pair
    BY <1>28, <2>1, <2>2, CertIsCert DEF BuildServerCert, Pair
  <2>4. index' \in [Serials -> Row \union {None}]
    BY <1>28, <2>1, RowIsRow DEF BuildServerCert
  <2> QED
    BY <1>28, <2>1, <2>3, <2>4, <1>s, GotoMoves DEF BuildServerCert, Moved
<1>29. ASSUME NEW due \in BOOLEAN, Validate(due)  PROVE Typed'
  <2>1. \E st \in {"err", "gencrl", "crlnumber", "ok"} : Moved(st)
    BY <1>29, <1>s, <1>e, GotoMoves DEF Validate
  <2> QED
    BY <1>29, <2>1 DEF Validate, Moved
<1>30. ASSUME NEW cn \in CNs, IssueBegin(cn)  PROVE Typed'
  <2>1. CASE Refuse("issue", cn)
    <3>1. Began("issue", cn, "err")
      BY <2>1, <1>s, <1>k, Begins DEF Refuse
    <3> QED
      BY <1>30, <3>1 DEF IssueBegin, Began
  <2>2. CASE /\ CanSign
             /\ op' = [Idle EXCEPT !.kind = "issue", !.cn = cn, !.step = "serial", !.key = key[cn]]
    <3>1. op' \in OpType /\ op'.kind = "issue" /\ op'.cn = cn /\ op'.step = "serial"
      <4>1. "serial" \in OpSteps /\ "issue" \in OpKinds
        BY <1>s, <1>k
      <4> QED
        BY <2>2, <4>1 DEF OpType
    <3> QED
      BY <1>30, <2>2, <3>1 DEF IssueBegin, CanSign
  <2> QED
    BY <1>30, <2>1, <2>2 DEF IssueBegin
<1>31. ASSUME RenewBegin  PROVE Typed'
  <2>1. Began("renew", Server, IF CanSign THEN "serial" ELSE "fallback")
    BY <1>31, <1>s, <1>k, Begins DEF RenewBegin
  <2> QED
    BY <1>31, <2>1 DEF RenewBegin, Began, CanSign
<1>32. ASSUME NEW cn \in CNs, NEW foreign \in BOOLEAN, RemoveBegin(cn, foreign)  PROVE Typed'
  <2>1. Began("remove", cn, "err") \/ Began("remove", cn, "mark")
    BY <1>32, <1>s, <1>k, Begins DEF RemoveBegin, Refuse
  <2> QED
    BY <1>32, <2>1 DEF RemoveBegin, Began
<1>33. ASSUME NEW due \in BOOLEAN, RefreshBegin(due)  PROVE Typed'
  <2>1. Began("refresh", None, EnsureStep(due))
    BY <1>33, <1>s, <1>k, <1>e, Begins DEF RefreshBegin
  <2> QED
    BY <1>33, <2>1, <1>e DEF RefreshBegin, Began
<1>34. ASSUME PushBegin  PROVE Typed'
  <2>1. [server |-> server, ca |-> ca] \in Identity
    BY DEF Identity
  <2>2. /\ op' \in OpType /\ op'.kind = "push" /\ op'.step = "pkey"
        /\ op'.old = [server |-> server, ca |-> ca]
    <3>1. "pkey" \in OpSteps /\ "push" \in OpKinds
      BY <1>s, <1>k
    <3> QED
      BY <1>34, <2>1, <3>1 DEF PushBegin, OpType
  <2> QED
    BY <1>34, <2>1, <2>2, NoneFacts DEF PushBegin
<1>35. ASSUME InitCa  PROVE Typed'
  <2>1. \E st \in {"err", "initserver", "buildca"} : Began("init", None, st)
    BY <1>35, <1>s, <1>k, Begins DEF InitCa
  <2> QED
    BY <1>35, <2>1 DEF InitCa, Began
<1>36. ASSUME EnsureDirTree  PROVE Typed'
  <2>1. First \in First..MaxSerial + 1 /\ First \in First..MaxCrl + 1
    BY PkiAssumption DEF First
  <2> QED
    BY <1>36, <2>1 DEF EnsureDirTree
<1>37. ASSUME Fault  PROVE Typed'
  BY <1>37, ErrorMoves DEF Fault, Moved, Writes
<1>38. ASSUME PkiCrash  PROVE Typed'
  BY <1>38 DEF PkiCrash
<1>39. ASSUME LoseFile  PROVE Typed'
  BY <1>39 DEF LoseFile
<1>40. ASSUME PkiReturn  PROVE Typed'
  BY <1>40 DEF PkiReturn
<1>41. CASE UNCHANGED pkiState
  BY <1>41 DEF pkiState, pkiFiles
<1> QED
  <2> HIDE DEF Typed, Files, Ready, StepsOf
  <2> QED
    BY <1>1, <1>2, <1>3, <1>4, <1>5, <1>6, <1>7, <1>8, <1>9, <1>10, <1>11, <1>12,
       <1>13, <1>14, <1>15, <1>16, <1>17, <1>18, <1>19, <1>20, <1>21, <1>22, <1>23, <1>24,
       <1>25, <1>26, <1>27, <1>28, <1>29, <1>30, <1>31, <1>32, <1>33, <1>34, <1>35, <1>36,
       <1>37, <1>38, <1>39, <1>40, <1>41, <1>42, <1>43
       DEF Next, OpStep, Maintain

-----------------------------------------------------------------------------
(* Certificates, index and CRL *)

LEMMA InitTracked == Init => Tracked
BY ValueFacts, IdleFacts
   DEF Init, Tracked, UsedOnce, NothingReplaced, LeftRevoked, Removing, CrlFollows

\* A step that leaves the index, the CRL and the certificates alone, and after
\* which nothing is asked of them.
Quiet ==
    /\ UNCHANGED <<index, signed, crl, issued>>
    /\ op'.step \notin {"cert", "crl", "verify", "rmcert", "gencrl"}
    /\ op'.step \in {"serial", "index"} => op'.kind = "renew"
    /\ op'.step = "crlnumber" => op'.kind \in {"refresh", "regenerate", "init"}

LEMMA QuietTracked == Tracked /\ Quiet => Tracked'
BY DEF Tracked, UsedOnce, NothingReplaced, LeftRevoked, Removing, CrlFollows, Quiet, TreeHas,
       RevokedRows

\* A row for a serial that had none, outside a removal.
LEMMA RowAdded ==
  ASSUME Typed, Tracked, NEW s0 \in Serials, index[s0] = None,
         NEW c \in CNs \union {Server},
         index' = [index EXCEPT ![s0] = [cn |-> c, status |-> "V"]],
         UNCHANGED <<signed, crl, issued>>,
         op'.kind \notin {"remove"}, op'.step \notin {"crl", "gencrl", "rmcert"},
         op'.step \in {"serial", "index", "cert"} /\ op'.kind = "issue"
           => issued[op'.cn] = None,
         op'.step = "cert" => op'.serial = s0 /\ op'.cn = c
  PROVE  Tracked'
<1> DEFINE row == [cn |-> c, status |-> "V"]
<1>1. row \in Row /\ row.cn = c /\ row # None
  BY RowIsRow, NoneFacts
<1>2. /\ index'[s0] = row
      /\ \A s \in Serials \ {s0} : index'[s] = index[s]
  BY DEF Typed, Files
<1> HIDE DEF row
<1>3. signed[s0] = 0
  BY DEF Tracked, UsedOnce, Typed, Files
<1>4. UsedOnce'
  BY <1>1, <1>2, <1>3 DEF Tracked, UsedOnce
<1>5. \A s \in Serials : signed[s] > 0 =>
        /\ TreeHas(s) => TreeHas(s)'
        /\ s \in RevokedRows => s \in RevokedRows'
  BY <1>2, <1>3 DEF TreeHas, RevokedRows
<1>6. LeftRevoked'
  BY <1>5 DEF Tracked, LeftRevoked
<1>7. NothingReplaced' /\ Removing' /\ CrlFollows'
  BY DEF NothingReplaced, Removing, CrlFollows
<1> QED
  BY <1>4, <1>6, <1>7 DEF Tracked

LEMMA StepTracked == Typed /\ Tracked /\ [Next]_pkiState => Tracked'
<1> SUFFICES ASSUME Typed, Tracked, [Next]_pkiState  PROVE Tracked'
  OBVIOUS
<1>s. OpSteps = {"idle", "serial", "index", "cert", "key", "bundle", "skey", "scert",
          "fallback", "mark", "crlnumber", "crl", "verify", "rmcert", "rmkey",
          "gencrl", "pkey", "pcert", "pca", "pushed", "undokey", "undocert", "initserver",
          "buildca", "cacert", "buildserver", "servercert", "validate", "ok", "err"}
  BY DEF OpSteps
<1>k. OpKinds = {"none", "issue", "renew", "remove", "refresh", "push", "regenerate", "init"}
  BY DEF OpKinds
<1>o. op \in OpType /\ StepsOf /\ op.kind \in OpKinds /\ op.serial \in Serials \union {None}
  BY DEF Typed, OpType
<1>g. ASSUME NEW st \in OpSteps, Goto(st)  PROVE Moved(st)
  BY <1>g, <1>o, GotoMoves
<1>q. ASSUME Quiet  PROVE Tracked'
  BY <1>q, QuietTracked
<1>1. ASSUME TakeSerial  PROVE Tracked'
  <2>1. /\ op'.kind = op.kind /\ op'.cn = op.cn
        /\ op'.step = IF op.kind = "issue" THEN "index" ELSE "skey"
    BY <1>1, <1>o DEF TakeSerial, OpType
  <2>2. NothingReplaced'
    BY <1>1, <2>1 DEF TakeSerial, NothingReplaced, Tracked
  <2> QED
    BY <1>1, <2>1, <2>2 DEF TakeSerial, Tracked, UsedOnce, LeftRevoked, Removing, CrlFollows,
                           TreeHas, RevokedRows
<1>2. ASSUME NoSerial  PROVE Tracked'
  BY <1>2, <1>o, ErrorMoves, <1>q DEF NoSerial, pkiFiles, Quiet, Moved
<1>3. ASSUME AppendIndex  PROVE Tracked'
  <2>1. op.step = "index" /\ op.kind \in {"issue", "renew"}
    BY <1>3, <1>o, <1>k DEF AppendIndex, StepsOf
  <2>2. CASE OnError /\ UNCHANGED index
    BY <1>3, <2>1, <2>2, <1>o, <1>q, ErrorMoves DEF AppendIndex, Quiet, Moved
  <2>3. CASE /\ index[op.serial] = None
             /\ index' = [index EXCEPT ![op.serial] = [cn |-> op.cn, status |-> "V"]]
             /\ Goto(IF op.kind = "issue" THEN "cert" ELSE "ok")
    <3>1. op.serial \in Serials /\ op.cn \in CNs \union {Server}
      BY <2>1, <1>o DEF Typed, Ready
    <3>2. Moved(IF op.kind = "issue" THEN "cert" ELSE "ok")
      BY <2>3, <1>s, <1>g
    <3>3. op.kind = "issue" => issued[op.cn] = None
      BY <2>1 DEF Tracked, NothingReplaced
    <3> QED
      BY <1>3, <2>1, <2>3, <3>1, <3>2, <3>3, RowAdded DEF AppendIndex, Moved
  <2> QED
    BY <1>3, <2>2, <2>3 DEF AppendIndex
<1>4. ASSUME WriteCert  PROVE Tracked'
  <2>1. /\ op.step = "cert" /\ op.serial \in Serials /\ op.cn \in CNs /\ ca \in CAs
        /\ op.kind = "issue"
    BY <1>4, <1>o, <1>k DEF WriteCert, OpType, Typed, Ready, Files, StepsOf
  <2> DEFINE cert == [serial |-> op.serial, key |-> NewKey, ca |-> ca]
  <2>2. cert # None /\ cert.serial = op.serial
    <3>1. NewKey \in Keys
      BY <2>1, ValueFacts DEF NewKey, Typed, OpType
    <3> QED
      BY <2>1, <3>1, CertIsCert, NoneFacts
  <2>3. /\ issued' = [issued EXCEPT ![op.cn] = cert]
        /\ signed' = [signed EXCEPT ![op.serial] = @ + 1]
    BY <1>4 DEF WriteCert
  <2> HIDE DEF cert
  <2>4. /\ issued'[op.cn] = cert /\ (\A c \in CNs \ {op.cn} : issued'[c] = issued[c])
        /\ signed'[op.serial] = 1 /\ (\A s \in Serials \ {op.serial} : signed'[s] = signed[s])
    BY <2>1, <2>3 DEF Tracked, UsedOnce, Typed, Files
  <2>5. index[op.serial] # None /\ index[op.serial].cn = op.cn /\ issued[op.cn] = None
    BY <2>1 DEF Tracked, UsedOnce, NothingReplaced
  <2>6. Moved("key") \/ Moved("bundle")
    BY <1>4, <1>s, <1>g DEF WriteCert
  <2>7. UsedOnce'
    BY <1>4, <2>4, <2>5, <2>6 DEF WriteCert, Tracked, UsedOnce, Moved
  <2>8. \A s \in Serials : s = op.serial \/ TreeHas(s) => TreeHas(s)'
    BY <1>4, <2>1, <2>2, <2>4, <2>5 DEF WriteCert, TreeHas
  <2>9. LeftRevoked'
    BY <1>4, <2>4, <2>8 DEF WriteCert, LeftRevoked, Tracked, RevokedRows
  <2> QED
    BY <2>6, <2>7, <2>9 DEF Tracked, NothingReplaced, Removing, CrlFollows, Moved
<1>5. ASSUME WriteKey  PROVE Tracked'
  BY <1>5, <1>o, <1>s, <1>g, <1>q DEF WriteKey, pkiFiles, Quiet, Moved
<1>6. ASSUME Bundle  PROVE Tracked'
  BY <1>6, <1>o, <1>s, <1>g, <1>q DEF Bundle, pkiFiles, Quiet, Moved
<1>7. ASSUME WriteServerKey  PROVE Tracked'
  BY <1>7, <1>o, <1>s, <1>g, <1>q DEF WriteServerKey, pkiFiles, Quiet, Moved
<1>8. ASSUME WriteServerCert  PROVE Tracked'
  BY <1>8, <1>o, <1>s, <1>k, <1>g, <1>q DEF WriteServerCert, Quiet, Moved, StepsOf
<1>9. ASSUME FallbackRenews  PROVE Tracked'
  <2>1. serial \in Serials /\ index[serial] = None
    BY <1>9 DEF FallbackRenews, OpensslCanSign, Typed, Files, Serials, First
  <2>2. Moved("ok") /\ op.kind # "remove"
    BY <1>9, <1>o, <1>s, <1>g DEF FallbackRenews, StepsOf
  <2> QED
    BY <1>9, <2>1, <2>2, RowAdded DEF FallbackRenews, Moved
<1>10. ASSUME FallbackFails  PROVE Tracked'
  BY <1>10, <1>o, <1>s, <1>g, <1>q DEF FallbackFails, pkiFiles, Quiet, Moved
<1>11. ASSUME MarkRevoked  PROVE Tracked'
  <2>1. op.step = "mark" /\ op.kind = "remove" /\ Moved("crlnumber")
    BY <1>11, <1>o, <1>k, <1>s, <1>g DEF MarkRevoked, StepsOf
  <2>2. \A s \in Serials :
          /\ index'[s] = IF s \in RowsOf(op.cn) THEN [index[s] EXCEPT !.status = "R"] ELSE index[s]
    BY <1>11 DEF MarkRevoked
  <2>3. \A s \in Serials : index[s] # None =>
          /\ index'[s] # None /\ index'[s].cn = index[s].cn
          /\ index[s].status = "R" => index'[s].status = "R"
          /\ s \in RowsOf(op.cn) => index'[s].status = "R"
    <3> SUFFICES ASSUME NEW s \in Serials, index[s] # None
                 PROVE  /\ index'[s] # None /\ index'[s].cn = index[s].cn
                        /\ index[s].status = "R" => index'[s].status = "R"
                        /\ s \in RowsOf(op.cn) => index'[s].status = "R"
      OBVIOUS
    <3>1. index[s] \in Row
      BY DEF Typed, Files
    <3>2. /\ [index[s] EXCEPT !.status = "R"] \in Row
          /\ [index[s] EXCEPT !.status = "R"].cn = index[s].cn
          /\ [index[s] EXCEPT !.status = "R"].status = "R"
      BY <3>1 DEF Row
    <3> QED
      BY <2>2, <3>1, <3>2, NoneFacts
  <2>4. \A s \in Serials : index[s] = None => index'[s] = None
    BY <2>2 DEF RowsOf
  <2>5. UsedOnce'
    BY <1>11, <2>1, <2>3 DEF MarkRevoked, Tracked, UsedOnce, Moved
  <2>6. LeftRevoked'
    BY <1>11, <2>3 DEF MarkRevoked, Tracked, LeftRevoked, TreeHas, RevokedRows
  <2>7. Removing'
    BY <2>1, <2>3, <2>4 DEF Removing, RowsOf, RevokedRows, Moved
  <2> QED
    BY <2>1, <2>5, <2>6, <2>7 DEF Tracked, NothingReplaced, CrlFollows, Moved
<1>12. ASSUME WriteCrlNumber  PROVE Tracked'
  <2> DEFINE next == [ca |-> ca, number |-> NextNumber, entries |-> OnCrl \union RevokedRows]
  <2>1. op.step = "crlnumber" /\ op' = [op EXCEPT !.step = "crl", !.crl = next]
    BY <1>12 DEF WriteCrlNumber
  <2>2. op'.step = "crl" /\ op'.kind = op.kind /\ op'.cn = op.cn /\ op'.crl = next
    BY <2>1, <1>o DEF OpType
  <2>3. next.number = NextNumber /\ next.entries = OnCrl \union RevokedRows
    OBVIOUS
  <2>4. crl # None => crl.number < NextNumber
    BY DEF NextNumber, Typed, Files, Crl, Numbers, First
  <2> HIDE DEF next
  <2>5. UNCHANGED <<index, crl, signed, issued>>
    BY <1>12 DEF WriteCrlNumber
  <2>6. CrlFollows'
    BY <2>2, <2>3, <2>4, <2>5 DEF CrlFollows, RevokedRows, OnCrl
  <2>7. Removing'
    BY <2>1, <2>2, <2>5 DEF Tracked, Removing, RowsOf, RevokedRows
  <2> QED
    BY <2>2, <2>5, <2>6, <2>7 DEF Tracked, UsedOnce, NothingReplaced, LeftRevoked, TreeHas,
                                  RevokedRows
<1>13. ASSUME CannotGenerate  PROVE Tracked'
  BY <1>13, <1>o, <1>s, <1>g, <1>q DEF CannotGenerate, pkiFiles, Quiet, Moved
<1>14. ASSUME WriteCrl  PROVE Tracked'
  <2>1. op.step = "crl" /\ crl' = op.crl /\ UNCHANGED <<index, signed, issued>>
    BY <1>14 DEF WriteCrl
  <2>2. Moved(IF op.kind = "remove" THEN "verify" ELSE "ok")
    BY <1>14, <1>s, <1>g DEF WriteCrl
  <2>3. RevokedRows \subseteq crl'.entries
    BY <2>1 DEF Tracked, CrlFollows
  <2>4. LeftRevoked'
    BY <2>1, <2>3 DEF Tracked, LeftRevoked, TreeHas, RevokedRows
  <2>5. Removing'
    BY <2>1, <2>2 DEF Tracked, Removing, RowsOf, RevokedRows, Moved
  <2> QED
    BY <2>1, <2>2, <2>4, <2>5 DEF Tracked, UsedOnce, NothingReplaced, CrlFollows, Moved
<1>15. ASSUME VerifyCrl  PROVE Tracked'
  <2>1. /\ op.step = "verify" /\ op.kind = "remove" /\ UNCHANGED <<index, crl, signed, issued>>
        /\ Moved("err") \/ (Moved("rmcert") /\ RowsOf(op.cn) \subseteq OnCrl)
    BY <1>15, <1>o, <1>k, <1>s, <1>g DEF VerifyCrl, StepsOf, pkiFiles
  <2>2. Removing'
    BY <2>1 DEF Tracked, Removing, RowsOf, RevokedRows, OnCrl, Moved
  <2> QED
    BY <2>1, <2>2 DEF Tracked, UsedOnce, NothingReplaced, LeftRevoked, CrlFollows, TreeHas,
                      RevokedRows, Moved
<1>16. ASSUME RemoveCert  PROVE Tracked'
  <2>1. /\ op.step = "rmcert" /\ op.kind = "remove" /\ Moved("rmkey")
        /\ UNCHANGED <<index, crl, signed>>
    BY <1>16, <1>o, <1>k, <1>s, <1>g DEF RemoveCert, StepsOf
  <2>2. op.cn \in CNs /\ \A c \in CNs \ {op.cn} : issued'[c] = issued[c]
    BY <1>16, <2>1 DEF RemoveCert, Typed, Ready, Files
  <2>3. RowsOf(op.cn) \subseteq RevokedRows /\ RowsOf(op.cn) \subseteq OnCrl
    BY <2>1 DEF Tracked, Removing
  <2>4. \A s \in Serials : TreeHas(s) => TreeHas(s)' \/ s \in RowsOf(op.cn)
    BY <2>1, <2>2 DEF TreeHas, RowsOf
  <2>5. LeftRevoked'
    BY <2>1, <2>3, <2>4 DEF Tracked, LeftRevoked, RevokedRows, OnCrl
  <2> QED
    BY <2>1, <2>5 DEF Tracked, UsedOnce, NothingReplaced, Removing, CrlFollows, Moved
<1>17. ASSUME RemoveKey  PROVE Tracked'
  BY <1>17, <1>o, <1>s, <1>g, <1>q DEF RemoveKey, pkiFiles, Quiet, Moved
<1>18. ASSUME GenCrl  PROVE Tracked'
  <2>1. CASE Goto("err") /\ UNCHANGED <<crl, crlnumber>>
    BY <1>18, <2>1, <1>s, <1>g, <1>q DEF GenCrl, Quiet, Moved
  <2>2. CASE /\ crl' = [ca |-> ca, number |-> crlnumber, entries |-> RevokedRows]
             /\ Goto("ok")
    <3>1. Moved("ok") /\ crl'.entries = RevokedRows /\ UNCHANGED <<index, signed, issued>>
      BY <1>18, <2>2, <1>s, <1>g DEF GenCrl
    <3> QED
      BY <3>1 DEF Tracked, UsedOnce, NothingReplaced, LeftRevoked, Removing, CrlFollows, TreeHas,
                  RevokedRows, Moved
  <2> QED
    BY <1>18, <2>1, <2>2 DEF GenCrl
<1>19. ASSUME PushKey  PROVE Tracked'
  <2>1. op'.step = "pcert"
    BY <1>19, <1>o DEF PushKey, OpType
  <2> QED
    BY <1>19, <2>1, <1>q DEF PushKey, Quiet
<1>20. ASSUME PushCert  PROVE Tracked'
  <2>1. op'.step = "pca"
    BY <1>20, <1>o DEF PushCert, OpType
  <2> QED
    BY <1>20, <2>1, <1>q DEF PushCert, Quiet
<1>21. ASSUME PushCa  PROVE Tracked'
  BY <1>21, <1>o, <1>s, <1>g, <1>q DEF PushCa, pkiFiles, Quiet, Moved
<1>22. ASSUME PushEnd  PROVE Tracked'
  <2>1. Began("regenerate", None, "crlnumber") \/ Began("push", None, "ok")
    BY <1>22, <1>s, <1>k, Begins DEF PushEnd
  <2> QED
    BY <1>22, <2>1, <1>q DEF PushEnd, pkiFiles, Began, Quiet
<1>23. ASSUME RestoreKey  PROVE Tracked'
  BY <1>23, <1>o, <1>s, <1>g, <1>q DEF RestoreKey, AfterKey, pkiFiles, Quiet, Moved
<1>42. ASSUME RestoreCert  PROVE Tracked'
  BY <1>42, <1>o, <1>s, <1>g, <1>q DEF RestoreCert, pkiFiles, Quiet, Moved
<1>43. ASSUME RestoreFails  PROVE Tracked'
  BY <1>43, <1>o, StuckMoves, <1>q DEF RestoreFails, pkiFiles, Quiet
<1>24. ASSUME BuildCaKey  PROVE Tracked'
  BY <1>24, <1>o, <1>s, <1>g, <1>q DEF BuildCaKey, pkiFiles, Quiet, Moved
<1>25. ASSUME BuildCaCert  PROVE Tracked'
  BY <1>25, <1>o, <1>s, <1>g, <1>q DEF BuildCaCert, pkiFiles, Quiet, Moved
<1>26. ASSUME InitServer  PROVE Tracked'
  BY <1>26, <1>o, <1>s, <1>g, <1>q DEF InitServer, pkiFiles, Quiet, Moved
<1>27. ASSUME BuildServerKey  PROVE Tracked'
  BY <1>27, <1>o, <1>s, <1>g, <1>q DEF BuildServerKey, pkiFiles, Quiet, Moved
<1>28. ASSUME BuildServerCert  PROVE Tracked'
  <2>1. serial \in Serials /\ index[serial] = None
    BY <1>28 DEF BuildServerCert, OpensslCanSign, Typed, Files, Serials, First
  <2>2. Moved("validate") /\ op.kind # "remove"
    BY <1>28, <1>o, <1>s, <1>g DEF BuildServerCert, StepsOf
  <2> QED
    BY <1>28, <2>1, <2>2, RowAdded DEF BuildServerCert, Moved
<1>29. ASSUME NEW due \in BOOLEAN, Validate(due)  PROVE Tracked'
  <2>1. op.kind = "init" /\ UNCHANGED <<index, signed, crl, issued>>
    BY <1>29, <1>o, <1>k DEF Validate, pkiFiles, StepsOf
  <2>2. \/ \E st \in {"err", "crlnumber", "ok"} : Moved(st)
        \/ Moved("gencrl") /\ crl = None
    BY <1>29, <1>s, <1>g DEF Validate, EnsureStep
  <2> QED
    BY <2>1, <2>2 DEF Tracked, UsedOnce, NothingReplaced, LeftRevoked, Removing, CrlFollows,
                      TreeHas, RevokedRows, Moved
<1>30. ASSUME NEW cn \in CNs, IssueBegin(cn)  PROVE Tracked'
  <2>1. CASE Refuse("issue", cn)
    <3>1. Began("issue", cn, "err")
      BY <2>1, <1>s, <1>k, Begins DEF Refuse
    <3> QED
      BY <1>30, <3>1, <1>q DEF IssueBegin, pkiFiles, Began, Quiet
  <2>2. CASE op' = [Idle EXCEPT !.kind = "issue", !.cn = cn, !.step = "serial", !.key = key[cn]]
    <3>1. op'.cn = cn /\ op'.step = "serial" /\ UNCHANGED <<index, signed, crl, issued>>
      BY <1>30, <2>2 DEF Idle, IssueBegin, pkiFiles
    <3>2. issued[cn] = None
      BY <1>30, <2>2, <3>1 DEF IssueBegin, InTree, Refuse, Idle
    <3> QED
      BY <3>1, <3>2 DEF Tracked, UsedOnce, NothingReplaced, LeftRevoked, Removing, CrlFollows,
                        TreeHas, RevokedRows
  <2> QED
    BY <1>30, <2>1, <2>2 DEF IssueBegin
<1>31. ASSUME RenewBegin  PROVE Tracked'
  <2>1. Began("renew", Server, IF CanSign THEN "serial" ELSE "fallback")
    BY <1>31, <1>s, <1>k, Begins DEF RenewBegin
  <2> QED
    BY <1>31, <2>1, <1>q DEF RenewBegin, pkiFiles, Began, Quiet
<1>32. ASSUME NEW cn \in CNs, NEW foreign \in BOOLEAN, RemoveBegin(cn, foreign)  PROVE Tracked'
  <2>1. Began("remove", cn, "err") \/ Began("remove", cn, "mark")
    BY <1>32, <1>s, <1>k, Begins DEF RemoveBegin, Refuse
  <2> QED
    BY <1>32, <2>1, <1>q DEF RemoveBegin, pkiFiles, Began, Quiet
<1>33. ASSUME NEW due \in BOOLEAN, RefreshBegin(due)  PROVE Tracked'
  <2>1. UNCHANGED <<index, signed, crl, issued>>
    BY <1>33 DEF RefreshBegin, pkiFiles
  <2>2. \/ \E st \in {"err", "crlnumber", "ok"} : Began("refresh", None, st)
        \/ Began("refresh", None, "gencrl") /\ crl = None
    BY <1>33, <1>s, <1>k, Begins DEF RefreshBegin, EnsureStep
  <2> QED
    BY <2>1, <2>2 DEF Tracked, UsedOnce, NothingReplaced, LeftRevoked, Removing, CrlFollows,
                      TreeHas, RevokedRows, Began
<1>34. ASSUME PushBegin  PROVE Tracked'
  <2>1. op'.step = "pkey"
    BY <1>34 DEF PushBegin, Idle
  <2> QED
    BY <1>34, <2>1, <1>q DEF PushBegin, pkiFiles, Quiet
<1>35. ASSUME InitCa  PROVE Tracked'
  <2>1. \E st \in {"err", "initserver", "buildca"} : Began("init", None, st)
    BY <1>35, <1>s, <1>k, Begins DEF InitCa
  <2> QED
    BY <1>35, <2>1, <1>q DEF InitCa, pkiFiles, Began, Quiet
<1>36. ASSUME EnsureDirTree  PROVE Tracked'
  BY <1>36 DEF EnsureDirTree, Tracked, UsedOnce, NothingReplaced, LeftRevoked, Removing,
                 CrlFollows, TreeHas, RevokedRows, RowsOf, OnCrl
<1>37. ASSUME Fault  PROVE Tracked'
  BY <1>37, <1>o, ErrorMoves, <1>q DEF Fault, pkiFiles, Quiet, Moved
<1>38. ASSUME PkiCrash  PROVE Tracked'
  BY <1>38, IdleFacts, <1>q DEF PkiCrash, pkiFiles, Quiet
<1>39. ASSUME LoseFile  PROVE Tracked'
  <2>1. /\ op = Idle /\ op' = op /\ UNCHANGED <<index, signed, issued>>
        /\ crl' = None \/ crl' = crl
    BY <1>39 DEF LoseFile
  <2> QED
    BY <2>1, IdleFacts DEF Tracked, UsedOnce, NothingReplaced, LeftRevoked, Removing, CrlFollows,
                           TreeHas, RevokedRows
<1>40. ASSUME PkiReturn  PROVE Tracked'
  BY <1>40, IdleFacts, <1>q DEF PkiReturn, pkiFiles, Quiet
<1>41. CASE UNCHANGED pkiState
  BY <1>41 DEF pkiState, pkiFiles, Tracked, UsedOnce, NothingReplaced, LeftRevoked, Removing,
                CrlFollows, TreeHas, RevokedRows, RowsOf, OnCrl
<1> QED
  BY <1>1, <1>2, <1>3, <1>4, <1>5, <1>6, <1>7, <1>8, <1>9, <1>10, <1>11, <1>12,
     <1>13, <1>14, <1>15, <1>16, <1>17, <1>18, <1>19, <1>20, <1>21, <1>22, <1>23, <1>24,
     <1>25, <1>26, <1>27, <1>28, <1>29, <1>30, <1>31, <1>32, <1>33, <1>34, <1>35, <1>36,
     <1>37, <1>38, <1>39, <1>40, <1>41, <1>42, <1>43
     DEF Next, OpStep, Maintain

-----------------------------------------------------------------------------
(* The identity: pushes and initialisation *)

LEMMA InitGuarded == Init => Guarded
BY IdleFacts DEF Init, Guarded, RefusedPushIsUndone

\* After the step neither a push nor initialisation is half way.
Apart ==
    /\ op'.step \notin {"pkey", "pcert", "pca", "undokey", "undocert", "buildca", "cacert",
                        "buildserver", "servercert"}
    /\ op'.kind = "push" => op'.step # "err"

LEMMA ApartGuarded == Apart => Guarded'
BY DEF Apart, Guarded, RefusedPushIsUndone

LEMMA StepGuarded == Typed /\ Guarded /\ [Next]_pkiState => Guarded'
<1> SUFFICES ASSUME Typed, Guarded, [Next]_pkiState  PROVE Guarded'
  OBVIOUS
<1>s. OpSteps = {"idle", "serial", "index", "cert", "key", "bundle", "skey", "scert",
          "fallback", "mark", "crlnumber", "crl", "verify", "rmcert", "rmkey",
          "gencrl", "pkey", "pcert", "pca", "pushed", "undokey", "undocert", "initserver",
          "buildca", "cacert", "buildserver", "servercert", "validate", "ok", "err"}
  BY DEF OpSteps
<1>k. OpKinds = {"none", "issue", "renew", "remove", "refresh", "push", "regenerate", "init"}
  BY DEF OpKinds
<1>o. op \in OpType /\ StepsOf /\ op.kind \in OpKinds /\ op.serial \in Serials \union {None}
  BY DEF Typed, OpType
<1>g. ASSUME NEW st \in OpSteps, Goto(st)  PROVE Moved(st)
  BY <1>g, <1>o, GotoMoves
<1>a. ASSUME Apart  PROVE Guarded'
  BY <1>a, ApartGuarded
<1>1. ASSUME TakeSerial  PROVE Guarded'
  <2>1. op'.step \in {"index", "skey"}
    BY <1>1, <1>o DEF TakeSerial, OpType
  <2> QED
    BY <2>1, <1>a DEF Apart
<1>2. ASSUME NoSerial  PROVE Guarded'
  BY <1>2, <1>o, <1>k, ErrorMoves, <1>a DEF NoSerial, StepsOf, Apart, Moved
<1>3. ASSUME AppendIndex  PROVE Guarded'
  BY <1>3, <1>o, <1>k, <1>s, <1>g, ErrorMoves, <1>a DEF AppendIndex, StepsOf, Apart, Moved
<1>4. ASSUME WriteCert  PROVE Guarded'
  BY <1>4, <1>o, <1>k, <1>s, <1>g, <1>a DEF WriteCert, StepsOf, Apart, Moved
<1>5. ASSUME WriteKey  PROVE Guarded'
  BY <1>5, <1>o, <1>k, <1>s, <1>g, <1>a DEF WriteKey, StepsOf, Apart, Moved
<1>6. ASSUME Bundle  PROVE Guarded'
  BY <1>6, <1>o, <1>k, <1>s, <1>g, <1>a DEF Bundle, StepsOf, Apart, Moved
<1>7. ASSUME WriteServerKey  PROVE Guarded'
  BY <1>7, <1>o, <1>k, <1>s, <1>g, <1>a DEF WriteServerKey, StepsOf, Apart, Moved
<1>8. ASSUME WriteServerCert  PROVE Guarded'
  BY <1>8, <1>o, <1>k, <1>s, <1>g, <1>a DEF WriteServerCert, StepsOf, Apart, Moved
<1>9. ASSUME FallbackRenews  PROVE Guarded'
  BY <1>9, <1>o, <1>k, <1>s, <1>g, <1>a DEF FallbackRenews, StepsOf, Apart, Moved
<1>10. ASSUME FallbackFails  PROVE Guarded'
  BY <1>10, <1>o, <1>k, <1>s, <1>g, <1>a DEF FallbackFails, StepsOf, Apart, Moved
<1>11. ASSUME MarkRevoked  PROVE Guarded'
  BY <1>11, <1>o, <1>k, <1>s, <1>g, <1>a DEF MarkRevoked, StepsOf, Apart, Moved
<1>12. ASSUME WriteCrlNumber  PROVE Guarded'
  <2>1. op'.step = "crl"
    BY <1>12, <1>o DEF WriteCrlNumber, OpType
  <2> QED
    BY <2>1, <1>a DEF Apart
<1>13. ASSUME CannotGenerate  PROVE Guarded'
  BY <1>13, <1>o, <1>k, <1>s, <1>g, <1>a DEF CannotGenerate, StepsOf, Apart, Moved
<1>14. ASSUME WriteCrl  PROVE Guarded'
  BY <1>14, <1>o, <1>k, <1>s, <1>g, <1>a DEF WriteCrl, StepsOf, Apart, Moved
<1>15. ASSUME VerifyCrl  PROVE Guarded'
  BY <1>15, <1>o, <1>k, <1>s, <1>g, <1>a DEF VerifyCrl, StepsOf, Apart, Moved
<1>16. ASSUME RemoveCert  PROVE Guarded'
  BY <1>16, <1>o, <1>k, <1>s, <1>g, <1>a DEF RemoveCert, StepsOf, Apart, Moved
<1>17. ASSUME RemoveKey  PROVE Guarded'
  BY <1>17, <1>o, <1>k, <1>s, <1>g, <1>a DEF RemoveKey, StepsOf, Apart, Moved
<1>18. ASSUME GenCrl  PROVE Guarded'
  BY <1>18, <1>o, <1>k, <1>s, <1>g, <1>a DEF GenCrl, StepsOf, Apart, Moved
<1>19. ASSUME PushKey  PROVE Guarded'
  <2>1. op.step = "pkey" /\ op'.step = "pcert" /\ op'.undo = 1 /\ op'.old = op.old /\ UNCHANGED ca
    BY <1>19, <1>o DEF PushKey, OpType
  <2>2. server'.cert = server.cert
    BY <1>19 DEF PushKey, Typed, Files, Pair
  <2> QED
    BY <2>1, <2>2 DEF Guarded, RefusedPushIsUndone
<1>20. ASSUME PushCert  PROVE Guarded'
  <2>1. op.step = "pcert" /\ op'.step = "pca" /\ op'.undo = 2 /\ op'.old = op.old /\ UNCHANGED ca
    BY <1>20, <1>o DEF PushCert, OpType
  <2> QED
    BY <2>1 DEF Guarded, RefusedPushIsUndone
<1>21. ASSUME PushCa  PROVE Guarded'
  BY <1>21, <1>o, <1>k, <1>s, <1>g, <1>a DEF PushCa, StepsOf, Apart, Moved
<1>22. ASSUME PushEnd  PROVE Guarded'
  <2>1. Began("regenerate", None, "crlnumber") \/ Began("push", None, "ok")
    BY <1>22, <1>s, <1>k, Begins DEF PushEnd
  <2> QED
    BY <1>22, <2>1, <1>a DEF PushEnd, Began, Apart
<1>23. ASSUME RestoreKey  PROVE Guarded'
  <2>1. /\ op.step = "undokey" /\ UNCHANGED ca
        /\ server'.key = op.old.server.key /\ server'.cert = server.cert
    BY <1>23 DEF RestoreKey, Typed, Files, Pair
  <2>2. \/ op.undo = 2 /\ Moved("undocert")
        \/ op.undo # 2 /\ Moved("err")
    BY <1>23, <1>s, <1>g DEF RestoreKey, AfterKey
  <2> QED
    BY <2>1, <2>2 DEF Moved, Guarded, RefusedPushIsUndone
<1>42. ASSUME RestoreCert  PROVE Guarded'
  <2>1. /\ op.step = "undocert" /\ UNCHANGED ca /\ Moved("err")
        /\ server'.key = server.key /\ server'.cert = op.old.server.cert
    BY <1>42, <1>s, <1>g DEF RestoreCert, Typed, Files, Pair
  <2> QED
    BY <2>1 DEF Moved, Guarded, RefusedPushIsUndone
<1>43. ASSUME RestoreFails  PROVE Guarded'
  <2>1. UNCHANGED <<ca, caKey, server>>
    BY <1>43 DEF RestoreFails, pkiFiles
  <2> QED
    BY <1>43, <1>o, <2>1, StuckMoves DEF Guarded, RefusedPushIsUndone
<1>24. ASSUME BuildCaKey  PROVE Guarded'
  <2>1. op.step = "buildca" /\ Moved("cacert") /\ UNCHANGED ca
    BY <1>24, <1>s, <1>g DEF BuildCaKey
  <2> QED
    BY <2>1 DEF Moved, Guarded, RefusedPushIsUndone
<1>25. ASSUME BuildCaCert  PROVE Guarded'
  BY <1>25, <1>o, <1>k, <1>s, <1>g, <1>a DEF BuildCaCert, StepsOf, Apart, Moved
<1>26. ASSUME InitServer  PROVE Guarded'
  <2>1. /\ op.kind = "init" /\ UNCHANGED <<ca, caKey, server>>
        /\ \/ \E st \in {"err", "validate"} : Moved(st)
           \/ Moved("buildserver") /\ server.cert = None /\ server.key = None
    BY <1>26, <1>o, <1>k, <1>s, <1>g DEF InitServer, StepsOf, pkiFiles
  <2> QED
    BY <2>1 DEF Moved, Guarded, RefusedPushIsUndone
<1>27. ASSUME BuildServerKey  PROVE Guarded'
  <2>1. CASE Goto("err")
    BY <1>27, <2>1, <1>o, <1>k, <1>s, <1>g, <1>a DEF BuildServerKey, StepsOf, Apart, Moved
  <2>2. CASE Goto("servercert") /\ server' = [server EXCEPT !.key = serial]
    <3>1. server.cert = None /\ server'.cert = server.cert
      BY <1>27, <2>2 DEF BuildServerKey, Guarded, Typed, Files, Pair
    <3> QED
      BY <1>27, <2>2, <3>1, <1>s, <1>g DEF Moved, Guarded, RefusedPushIsUndone
  <2> QED
    BY <1>27, <2>1, <2>2 DEF BuildServerKey
<1>28. ASSUME BuildServerCert  PROVE Guarded'
  BY <1>28, <1>o, <1>k, <1>s, <1>g, <1>a DEF BuildServerCert, StepsOf, Apart, Moved
<1>29. ASSUME NEW due \in BOOLEAN, Validate(due)  PROVE Guarded'
  <2>1. EnsureStep(due) \in {"err", "gencrl", "crlnumber", "ok"}
    BY DEF EnsureStep
  <2> QED
    BY <1>29, <2>1, <1>o, <1>k, <1>s, <1>g, <1>a DEF Validate, StepsOf, Apart, Moved
<1>30. ASSUME NEW cn \in CNs, IssueBegin(cn)  PROVE Guarded'
  <2>1. op'.kind = "issue" /\ op'.step \in {"err", "serial"}
    BY <1>30 DEF IssueBegin, Refuse, Idle
  <2> QED
    BY <2>1, <1>a DEF Apart
<1>31. ASSUME RenewBegin  PROVE Guarded'
  <2>1. Began("renew", Server, IF CanSign THEN "serial" ELSE "fallback")
    BY <1>31, <1>s, <1>k, Begins DEF RenewBegin
  <2> QED
    BY <1>31, <2>1, <1>a DEF RenewBegin, Began, Apart
<1>32. ASSUME NEW cn \in CNs, NEW foreign \in BOOLEAN, RemoveBegin(cn, foreign)  PROVE Guarded'
  <2>1. Began("remove", cn, "err") \/ Began("remove", cn, "mark")
    BY <1>32, <1>s, <1>k, Begins DEF RemoveBegin, Refuse
  <2> QED
    BY <1>32, <2>1, <1>a DEF RemoveBegin, Began, Apart
<1>33. ASSUME NEW due \in BOOLEAN, RefreshBegin(due)  PROVE Guarded'
  <2>1. EnsureStep(due) \in {"err", "gencrl", "crlnumber", "ok"}
    BY DEF EnsureStep
  <2>2. Began("refresh", None, EnsureStep(due))
    BY <1>33, <2>1, <1>s, <1>k, Begins DEF RefreshBegin
  <2> QED
    BY <2>1, <2>2, <1>a DEF Apart, Began
<1>34. ASSUME PushBegin  PROVE Guarded'
  <2>1. /\ op'.kind = "push" /\ op'.step = "pkey" /\ op'.undo = 0
        /\ op'.old = [server |-> server, ca |-> ca] /\ UNCHANGED <<ca, server>>
    BY <1>34 DEF PushBegin, pkiFiles, Idle
  <2> QED
    BY <2>1 DEF Guarded, RefusedPushIsUndone
<1>35. ASSUME InitCa  PROVE Guarded'
  <2>1. \/ \E st \in {"err", "initserver"} : Began("init", None, st)
        \/ Began("init", None, "buildca") /\ ca = None /\ caKey = None
    BY <1>35, <1>s, <1>k, Begins DEF InitCa
  <2> QED
    BY <1>35, <2>1 DEF InitCa, pkiFiles, Began, Guarded, RefusedPushIsUndone
<1>36. ASSUME EnsureDirTree  PROVE Guarded'
  BY <1>36 DEF EnsureDirTree, Guarded, RefusedPushIsUndone
<1>37. ASSUME Fault  PROVE Guarded'
  <2>1. CASE op.kind # "push"
    BY <1>37, <2>1, <1>o, ErrorMoves, <1>a DEF Fault, Apart, Moved
  <2>2. CASE op.kind = "push"
    <3>1. op.step \in {"pkey", "pcert", "pca"} /\ UNCHANGED <<ca, caKey, server>>
      BY <1>37, <2>2, <1>o DEF Fault, Writes, StepsOf, pkiFiles
    <3>2. \/ op.undo # 0 /\ Moved("undokey")
          \/ op.undo = 0 /\ Moved("err")
      BY <1>37, <2>2, <1>o, ErrorMoves DEF Fault
    <3>3. op.step = "pkey" => op.old = [server |-> server, ca |-> ca]
      BY <1>o DEF OpType, Identity, Typed, Ready, Guarded
    <3> QED
      BY <3>1, <3>2, <3>3 DEF Moved, Guarded, RefusedPushIsUndone
  <2> QED
    BY <2>1, <2>2
<1>38. ASSUME PkiCrash  PROVE Guarded'
  BY <1>38, IdleFacts, <1>a DEF PkiCrash, Apart
<1>39. ASSUME LoseFile  PROVE Guarded'
  BY <1>39, IdleFacts, <1>a DEF LoseFile, Apart
<1>40. ASSUME PkiReturn  PROVE Guarded'
  BY <1>40, IdleFacts, <1>a DEF PkiReturn, Apart
<1>41. CASE UNCHANGED pkiState
  BY <1>41 DEF pkiState, pkiFiles, Guarded, RefusedPushIsUndone
<1> QED
  BY <1>1, <1>2, <1>3, <1>4, <1>5, <1>6, <1>7, <1>8, <1>9, <1>10, <1>11, <1>12,
     <1>13, <1>14, <1>15, <1>16, <1>17, <1>18, <1>19, <1>20, <1>21, <1>22, <1>23, <1>24,
     <1>25, <1>26, <1>27, <1>28, <1>29, <1>30, <1>31, <1>32, <1>33, <1>34, <1>35, <1>36,
     <1>37, <1>38, <1>39, <1>40, <1>41, <1>42, <1>43
     DEF Next, OpStep, Maintain

-----------------------------------------------------------------------------
(* The theorems *)

PkiInv == Typed /\ Tracked /\ Guarded

\* Every step of an operation, a request or the environment keeps the invariant.
LEMMA StepPkiInv == PkiInv /\ [Next]_pkiState => PkiInv'
BY StepTyped, StepTracked, StepGuarded DEF PkiInv

\* The inductive invariant of the CA.
THEOREM PkiInvAlways == Spec => []PkiInv
<1>1. Init => PkiInv
  BY InitTyped, InitTracked, InitGuarded DEF PkiInv
<1>2. PkiInv /\ [Next]_pkiVars => PkiInv'
  BY StepPkiInv DEF pkiVars, pkiState
<1> QED
  BY <1>1, <1>2, PTL DEF Spec

\* Every file has its type, whatever was interrupted or lost.
THEOREM TypeCorrect == Spec => []TypeOK
<1>1. PkiInv => TypeOK
  <2> SUFFICES ASSUME PkiInv  PROVE TypeOK
    OBVIOUS
  <2>1. signed \in [Serials -> 0..2]
    <3>1. \A s \in Serials : signed[s] \in 0..2
      BY DEF PkiInv, Typed, Files, Tracked, UsedOnce
    <3> QED
      BY <3>1 DEF PkiInv, Typed, Files
  <2>2. /\ op.serial \in Serials \union {None} /\ op.crl \in Crl \union {None}
        /\ op.old \in Identity \union {None}
    BY DEF PkiInv, Typed, OpType
  <2> QED
    BY <2>1, <2>2 DEF PkiInv, Typed, Files, TypeOK
<1> QED
  BY <1>1, PkiInvAlways, PTL

\* No two client certificates share a serial (nextSerial, appendIndex).
THEOREM UniqueSerials == Spec => []SerialsAreUnique
<1>1. PkiInv => SerialsAreUnique
  BY DEF PkiInv, Tracked, UsedOnce, SerialsAreUnique
<1> QED
  BY <1>1, PkiInvAlways, PTL

\* A client certificate that left the tree is on the CRL that is there
\* (RemoveClientMaterial, IssueClientCertToTree).
THEOREM RevokedBeforeCleanup == Spec => []LeavesTreeRevoked
<1>1. PkiInv => LeavesTreeRevoked
  BY DEF PkiInv, Tracked, LeftRevoked, TreeHas, LeavesTreeRevoked
<1> QED
  BY <1>1, PkiInvAlways, PTL

\* A push that is refused has put back what it replaced, but for a file whose
\* restoration failed (handlePushPKI).
THEOREM PushIsUndone == Spec => []RefusedPushIsUndone
<1>1. PkiInv => RefusedPushIsUndone
  BY DEF PkiInv, Guarded
<1> QED
  BY <1>1, PkiInvAlways, PTL

\* A CRL is only ever followed by one with a higher number and all its entries
\* (GenerateCRL).
THEOREM CrlOnlyGrows == Spec => CrlNeverGoesBack
<1> DEFINE Grows == (crl # None /\ crl' # None /\ crl' # crl /\ crl'.ca = crl.ca) =>
                      /\ crl.entries \subseteq crl'.entries
                      /\ crl.number < crl'.number
<1>1. PkiInv /\ [Next]_pkiVars => [Grows]_pkiVars
  <2> SUFFICES ASSUME PkiInv, Next, crl # None, crl' # None, crl' # crl
               PROVE  crl.entries \subseteq crl'.entries /\ crl.number < crl'.number
    OBVIOUS
  <2>1. WriteCrl \/ GenCrl
    BY DEF Next, OpStep, Maintain, pkiFiles, TakeSerial, NoSerial, AppendIndex, WriteCert, WriteKey,
           Bundle, WriteServerKey, WriteServerCert, FallbackRenews, FallbackFails, MarkRevoked,
           WriteCrlNumber, CannotGenerate, VerifyCrl, RemoveCert, RemoveKey, PushKey, PushCert,
           PushCa, PushEnd, RestoreKey, RestoreCert, RestoreFails, BuildCaKey, BuildCaCert, InitServer, BuildServerKey,
           BuildServerCert, Validate, RenewBegin, PushBegin, InitCa, EnsureDirTree,
           RefreshBegin, IssueBegin, RemoveBegin, PkiReturn, Fault, PkiCrash, LoseFile
  <2>2. ~GenCrl
    BY DEF GenCrl, PkiInv, Tracked, CrlFollows
  <2> QED
    BY <2>1, <2>2 DEF WriteCrl, PkiInv, Tracked, CrlFollows, OnCrl
<1> QED
  BY <1>1, PkiInvAlways, PTL DEF Spec, CrlNeverGoesBack

\* Initialisation never replaces a key or a certificate that is there (InitPKI).
THEOREM IdentityIsKept == Spec => InitKeepsIdentity
<1> DEFINE Keeps == op.kind = "init" =>
                      /\ caKey # None => caKey' = caKey
                      /\ ca # None => ca' = ca
                      /\ server.key # None => server'.key = server.key
                      /\ server.cert # None => server'.cert = server.cert
<1>1. PkiInv /\ [Next]_pkiVars => [Keeps]_pkiVars
  <2> SUFFICES ASSUME PkiInv, Next, op.kind = "init"
               PROVE  /\ caKey # None => caKey' = caKey
                      /\ ca # None => ca' = ca
                      /\ server.key # None => server'.key = server.key
                      /\ server.cert # None => server'.cert = server.cert
    OBVIOUS
  <2>1. op.step \in {"initserver", "buildca", "cacert", "buildserver", "servercert", "validate",
                     "gencrl", "crlnumber", "crl", "ok", "err"}
    BY DEF PkiInv, Typed, StepsOf
  <2>2. op # Idle /\ server \in Pair
    BY IdleFacts DEF PkiInv, Typed, Files
  <2>3. CASE BuildCaKey \/ BuildCaCert
    BY <2>3 DEF BuildCaKey, BuildCaCert, PkiInv, Guarded
  <2>4. CASE BuildServerKey \/ BuildServerCert
    BY <2>2, <2>4 DEF BuildServerKey, BuildServerCert, PkiInv, Guarded, Pair
  <2>5. UNCHANGED <<ca, caKey, server>> \/ BuildCaKey \/ BuildCaCert \/ BuildServerKey
          \/ BuildServerCert
    BY <2>1, <2>2
       DEF Next, OpStep, Maintain, pkiFiles, TakeSerial, NoSerial, AppendIndex, WriteCert, WriteKey,
           Bundle, WriteServerKey, WriteServerCert, FallbackRenews, FallbackFails, MarkRevoked,
           WriteCrlNumber, CannotGenerate, WriteCrl, VerifyCrl, RemoveCert, RemoveKey, GenCrl,
           PushKey, PushCert, PushCa, PushEnd, RestoreKey, RestoreCert, RestoreFails, InitServer, Validate, RenewBegin,
           PushBegin, InitCa, EnsureDirTree, RefreshBegin, IssueBegin, RemoveBegin, PkiReturn,
           Fault, PkiCrash, LoseFile
  <2> QED
    BY <2>3, <2>4, <2>5
<1> QED
  BY <1>1, PkiInvAlways, PTL DEF Spec, InitKeepsIdentity

------------------------------------------------------------------------------
(***************************************************************************)
(* Second part: the handlers, on top of the invariant PkiInv of the CA.    *)
(***************************************************************************)

\* The steps before a request holds the user's lock, and those under it.
Before == {"idle", "opencert", "wait"}
Under == {"mkdir", "material", "issuing", "profile", "policy", "lookup", "pushcert", "pushkey",
          "inspect", "disable", "revoke", "revoking", "rmdir", "done", "failed"}

ReqType == [kind : Kinds \union {"none"}, cn : CNs \union {None}, step : Before \union Under,
            disabled : {None, TRUE, FALSE}, gen : GenType \union {None}, found : BOOLEAN,
            seen : SUBSET ({Foreign} \union Serials), began : Nat]

DeleteSteps == Before \union {"inspect", "disable", "revoke", "revoking", "rmdir", "done",
                              "failed"}

UserTyped ==
    /\ folder \in [CNs -> FolderType \union {None}]
    /\ lock \in [CNs -> Procs \union {None}]
    /\ req \in [Procs -> ReqType]
    /\ made \in Nat
    /\ deletions \in [CNs -> Nat]
    /\ closing \in [CNs -> BOOLEAN]
    /\ stored \in [CNs -> BOOLEAN]
    /\ \A p \in Procs : req[p].step # "idle" => Cn(p) \in CNs /\ req[p].kind \in Kinds
    /\ \A p \in Procs : req[p].step = "idle" => req[p].gen = None
    /\ \A p \in Procs : req[p].kind = "delete" => req[p].step \in DeleteSteps

\* A request under the lock holds it, so there is one per user; what it has
\* asked of the CA is what the CA does.
Exclusive ==
    /\ \A p \in Procs : req[p].step \in Under => lock[Cn(p)] = p
    /\ \A p \in Procs : req[p].step = "issuing" => op.kind = "issue" /\ op.cn = Cn(p)
    /\ \A p \in Procs : req[p].step = "revoking" => op.kind = "remove" /\ op.cn = Cn(p)
    /\ op.kind = "issue" => \E p \in Procs : req[p].step = "issuing" /\ op.cn = Cn(p)
    /\ op.kind = "remove" => \E p \in Procs : req[p].step = "revoking" /\ op.cn = Cn(p)

\* A removal of the CA that is past the certificate has removed it, and so has
\* a deletion by the time it removes the folder.
Removed ==
    /\ op.kind = "remove" /\ op.step \in {"rmkey", "bundle", "ok"} => issued[op.cn] = None
    /\ \A p \in Procs : req[p].step = "rmdir" => issued[Cn(p)] = None

\* A folder or a certificate that was there at some time: what is made later
\* has another inode or serial.
KnownGen(gen) ==
    /\ gen.path = "folder" => gen.inode <= made
    /\ gen.path = "cert" => gen.inode \in Serials /\ signed[gen.inode] > 0

\* The file a request has open was there.  As long as it is the one in place
\* nobody was deleted since; once it is not, all the request has seen is on
\* the CRL.
Opened ==
    /\ \A cn \in CNs : folder[cn] # None => folder[cn].inode <= made
    /\ \A cn \in CNs : issued[cn] # None =>
         issued[cn].serial \in Serials /\ signed[issued[cn].serial] > 0
    /\ \A p \in Procs : req[p].gen # None =>
         /\ KnownGen(req[p].gen)
         /\ SameGeneration(req[p].gen, Cn(p)) => deletions[Cn(p)] = req[p].began
         /\ ~SameGeneration(req[p].gen, Cn(p)) => req[p].seen \subseteq OnCrl

\* Pushed credentials stay in the folder, and the folder with them.
Pushes ==
    /\ \A cn \in CNs : stored[cn] => folder[cn] # None /\ folder[cn].cert
    /\ \A p \in Procs : req[p].step = "rmdir" => ~stored[Cn(p)]
    /\ \A p \in Procs : req[p].step = "revoking" /\ op.step # "err" => ~stored[Cn(p)]

\* A request has seen nothing that was not handed out.
Listed ==
    /\ crl # None
    /\ \A p \in Procs : req[p].step # "idle" => req[p].seen \subseteq Handed(Cn(p))

UserInv == /\ PkiInv /\ UserTyped /\ Exclusive /\ Removed /\ Pushes
           /\ Opened /\ Listed /\ StaleRequestIsRefused /\ DeletedMeansRevoked

-----------------------------------------------------------------------------
(* What a step of a request does. *)

LEMMA UserFacts ==
  /\ None \notin Procs /\ None \notin FolderType /\ None \notin GenType
  /\ None # TRUE /\ None # FALSE
BY RequestAssumption, NoUserAssumption

\* Handler p goes on to step st and remembers all it knew.
ReqMoved(p, st) ==
    /\ req' \in [Procs -> ReqType]
    /\ \A q \in Procs : q # p => req'[q] = req[q]
    /\ req'[p].step = st
    /\ req'[p].kind = req[p].kind /\ req'[p].cn = req[p].cn /\ req'[p].gen = req[p].gen
    /\ req'[p].seen = req[p].seen /\ req'[p].began = req[p].began

LEMMA GoesMoves ==
  ASSUME UserTyped, NEW p \in Procs, NEW st \in Before \union Under, Goes(p, st)
  PROVE  ReqMoved(p, st)
<1>1. req[p] \in ReqType
  BY DEF UserTyped
<1>2. /\ [req[p] EXCEPT !.step = st] \in ReqType
      /\ [req[p] EXCEPT !.step = st].step = st
      /\ [req[p] EXCEPT !.step = st].kind = req[p].kind
      /\ [req[p] EXCEPT !.step = st].cn = req[p].cn
      /\ [req[p] EXCEPT !.step = st].gen = req[p].gen
      /\ [req[p] EXCEPT !.step = st].seen = req[p].seen
      /\ [req[p] EXCEPT !.step = st].began = req[p].began
  BY <1>1 DEF ReqType
<1>3. req' = [req EXCEPT ![p] = [req[p] EXCEPT !.step = st]]
  BY DEF Goes
<1> QED
  BY <1>2, <1>3 DEF UserTyped, ReqMoved

LEMMA IdleReqFacts ==
  /\ IdleReq \in ReqType /\ IdleReq.step = "idle" /\ IdleReq.kind = "none"
  /\ IdleReq.gen = None /\ IdleReq.seen = {}
BY DEF IdleReq, ReqType, Before

\* The folder of cn is written, and made first when there is none.
DirWritten(cn) ==
    /\ folder' \in [CNs -> FolderType \union {None}]
    /\ \A c \in CNs : c # cn => folder'[c] = folder[c]
    /\ folder'[cn] # None
    /\ made' \in Nat /\ made <= made'
    /\ folder[cn] # None => folder'[cn].inode = folder[cn].inode
    /\ folder[cn] = None => made' = made + 1 /\ folder'[cn].inode = made + 1
    /\ folder[cn] # None /\ folder[cn].cert => folder'[cn].cert

LEMMA UserDirFacts ==
  ASSUME UserTyped, NEW cn \in CNs
  PROVE  /\ UserDir(cn) \in FolderType
         /\ folder[cn] # None => UserDir(cn) = folder[cn]
         /\ folder[cn] = None => /\ UserDir(cn).inode = made + 1
                                 /\ ~UserDir(cn).cert /\ ~UserDir(cn).disabled
BY DEF UserTyped, UserDir, NewFolder, FolderType

LEMMA WriteDirWrites ==
  ASSUME UserTyped, NEW cn \in CNs, NEW dir \in FolderType, dir.inode = UserDir(cn).inode,
         UserDir(cn).cert => dir.cert, WriteDir(cn, dir)
  PROVE  DirWritten(cn) /\ folder'[cn] = dir
<1>1. /\ folder' = [folder EXCEPT ![cn] = dir]
      /\ made' = IF folder[cn] = None THEN made + 1 ELSE made
  BY DEF WriteDir
<1>2. folder \in [CNs -> FolderType \union {None}] /\ made \in Nat
  BY DEF UserTyped
<1> QED
  BY <1>1, <1>2, UserDirFacts, UserFacts DEF DirWritten

\* Handler p, under the lock, goes on to st, and touches no more than the
\* folder of its user.  What is to be revoked is looked for before rmdir, and
\* a deletion is not done by any of these steps.
Work(p, st) ==
    /\ req[p].step \in Under \ {"issuing", "revoking", "done", "failed"}
    /\ st \in Under \ {"issuing", "revoking"}
    /\ ReqMoved(p, st)
    /\ UNCHANGED <<pkiState, lock, deletions>>
    /\ UNCHANGED <<folder, made>> \/ DirWritten(Cn(p))
    /\ stored' \in [CNs -> BOOLEAN] /\ closing' \in [CNs -> BOOLEAN]
    /\ \A c \in CNs : stored[c] => stored'[c]
    /\ \A c \in CNs : stored'[c] =>
         stored[c] \/ (c = Cn(p) /\ folder'[c] # None /\ folder'[c].cert)
    /\ st = "rmdir" => /\ issued[Cn(p)] = None
                       /\ folder[Cn(p)] # None => ~folder[Cn(p)].cert
                       /\ UNCHANGED <<folder, stored>>
    /\ req[p].kind = "delete" => st \in DeleteSteps \ {"done"}

LEMMA FlagSet ==
  ASSUME UserTyped, NEW p \in Procs, Cn(p) \in CNs, NEW flag \in {None, TRUE, FALSE},
         SetFlag(p, flag)
  PROVE  /\ DirWritten(Cn(p)) /\ closing' \in [CNs -> BOOLEAN]
         /\ folder'[Cn(p)].disabled = IF flag = None THEN UserDir(Cn(p)).disabled ELSE flag
<1> DEFINE dir == [UserDir(Cn(p)) EXCEPT !.disabled = IF flag = None THEN @ ELSE flag]
<1>1. UserDir(Cn(p)) \in FolderType
  BY UserDirFacts
<1>2. /\ dir \in FolderType /\ dir.inode = UserDir(Cn(p)).inode
      /\ dir.cert = UserDir(Cn(p)).cert
      /\ dir.disabled = IF flag = None THEN UserDir(Cn(p)).disabled ELSE flag
  BY <1>1 DEF FolderType
<1>3. WriteDir(Cn(p), dir)
  BY DEF SetFlag
<1> HIDE DEF dir
<1>4. DirWritten(Cn(p)) /\ folder'[Cn(p)] = dir
  BY <1>2, <1>3, WriteDirWrites
<1>5. closing' \in [CNs -> BOOLEAN]
  <2>1. closing \in [CNs -> BOOLEAN]
    BY DEF UserTyped
  <2>2. (IF flag = None THEN closing[Cn(p)]
         ELSE flag /\ (closing[Cn(p)] \/ req[p].kind = "delete")) \in BOOLEAN
    BY <2>1, UserFacts
  <2> QED
    BY <2>1, <2>2 DEF SetFlag
<1> QED
  BY <1>2, <1>4, <1>5

\* The steps of createUserLocked, createUserWithCredentialsLocked, the policy
\* routes and the first half of deleteUserLocked are such steps.
LEMMA StepsWork ==
  ASSUME Typed, UserTyped, NEW p \in Procs,
         \/ MakeFolder(p) \/ KeepMaterial(p) \/ NoMaterial(p) \/ BuildProfile(p)
         \/ WritePolicy(p) \/ Lookup(p) \/ PushCertificate(p) \/ PushPrivateKey(p)
         \/ Inspect(p) \/ Disable(p) \/ RequestFault(p) \/ InspectFails(p)
  PROVE  \E st \in Under : Work(p, st)
<1>t. /\ req[p].step # "idle" => Cn(p) \in CNs
      /\ req[p].kind = "delete" => req[p].step \in DeleteSteps
      /\ req[p].disabled \in {None, TRUE, FALSE} /\ req[p] \in ReqType
      /\ stored \in [CNs -> BOOLEAN] /\ closing \in [CNs -> BOOLEAN]
  BY DEF UserTyped, ReqType
<1>d. ASSUME Cn(p) \in CNs
      PROVE  /\ UserDir(Cn(p)) \in FolderType
             /\ \A dir \in FolderType :
                   /\ dir.inode = UserDir(Cn(p)).inode
                   /\ UserDir(Cn(p)).cert => dir.cert
                   /\ WriteDir(Cn(p), dir)
                   => DirWritten(Cn(p)) /\ folder'[Cn(p)] = dir
  BY <1>d, UserDirFacts, WriteDirWrites
<1>g. ASSUME NEW st \in Under, Goes(p, st)  PROVE ReqMoved(p, st)
  BY <1>g, GoesMoves
<1> USE DEF At, Under, Before, DeleteSteps, pkiVars, pkiState
<1>1. ASSUME MakeFolder(p)  PROVE Work(p, "material")
  <2>1. Cn(p) \in CNs /\ ReqMoved(p, "material")
    BY <1>1, <1>t, <1>g DEF MakeFolder
  <2>2. DirWritten(Cn(p))
    BY <1>1, <2>1, <1>d DEF MakeFolder
  <2> QED
    BY <1>1, <2>1, <2>2, <1>t DEF MakeFolder, Work
<1>2. ASSUME KeepMaterial(p)  PROVE Work(p, "profile")
  BY <1>2, <1>t, <1>g DEF KeepMaterial, Work
<1>3. ASSUME NoMaterial(p)  PROVE Work(p, "failed")
  BY <1>3, <1>t, <1>g DEF NoMaterial, Work
<1>4. ASSUME BuildProfile(p)  PROVE \E st \in Under : Work(p, st)
  <2>1. Cn(p) \in CNs /\ req[p].step = "profile" /\ req[p].kind # "delete"
    BY <1>4, <1>t DEF BuildProfile
  <2>2. CASE Goes(p, "failed") /\ UNCHANGED <<folder, made>>
    BY <1>4, <2>1, <2>2, <1>t, <1>g DEF BuildProfile, Work
  <2>3. CASE /\ ProfileCert(Cn(p)) # None
             /\ WriteDir(Cn(p), [UserDir(Cn(p)) EXCEPT !.ovpn = ProfileCert(Cn(p))])
             /\ Goes(p, IF req[p].kind = "push" THEN "done" ELSE "policy")
    <3> DEFINE dir == [UserDir(Cn(p)) EXCEPT !.ovpn = ProfileCert(Cn(p))]
    <3>1. ProfileCert(Cn(p)) \in {Foreign} \union Serials
      BY <2>1, <2>3 DEF ProfileCert, Typed, Files, Cert, Foreign
    <3>2. dir \in FolderType /\ dir.inode = UserDir(Cn(p)).inode /\ dir.cert = UserDir(Cn(p)).cert
      BY <2>1, <3>1, <1>d DEF FolderType
    <3>3. DirWritten(Cn(p))
      BY <2>1, <2>3, <3>2, <1>d
    <3> QED
      BY <1>4, <2>1, <2>3, <3>3, <1>t, <1>g DEF BuildProfile, Work
  <2> QED
    BY <1>4, <2>2, <2>3 DEF BuildProfile
<1>5. ASSUME WritePolicy(p)  PROVE \E st \in Under : Work(p, st)
  <2>1. Cn(p) \in CNs /\ req[p].step = "policy" /\ req[p].kind # "delete"
    BY <1>5, <1>t DEF WritePolicy
  <2>2. DirWritten(Cn(p)) /\ closing' \in [CNs -> BOOLEAN]
    BY <1>5, <2>1, <1>t, FlagSet DEF WritePolicy
  <2> QED
    BY <1>5, <2>1, <2>2, <1>t, <1>g DEF WritePolicy, Work
<1>6. ASSUME Lookup(p)  PROVE \E st \in Under : Work(p, st)
  BY <1>6, <1>t, <1>g DEF Lookup, Work
<1>7. ASSUME PushCertificate(p)  PROVE Work(p, "pushkey")
  <2>1. Cn(p) \in CNs /\ ReqMoved(p, "pushkey")
    BY <1>7, <1>t, <1>g DEF PushCertificate
  <2> DEFINE dir == [UserDir(Cn(p)) EXCEPT !.cert = TRUE]
  <2>2. dir \in FolderType /\ dir.inode = UserDir(Cn(p)).inode /\ dir.cert
    BY <2>1, <1>d DEF FolderType
  <2>3. DirWritten(Cn(p)) /\ folder'[Cn(p)] = dir /\ folder'[Cn(p)] # None
    BY <1>7, <2>1, <2>2, <1>d DEF PushCertificate, DirWritten
  <2>4. stored' \in [CNs -> BOOLEAN] /\ \A c \in CNs : c # Cn(p) => stored'[c] = stored[c]
    BY <1>7, <1>t DEF PushCertificate
  <2>5. stored'[Cn(p)]
    BY <1>7, <2>1, <1>t DEF PushCertificate
  <2> QED
    BY <1>7, <2>1, <2>2, <2>3, <2>4, <2>5, <1>t DEF PushCertificate, Work
<1>8. ASSUME PushPrivateKey(p)  PROVE Work(p, "policy")
  <2>1. Cn(p) \in CNs /\ ReqMoved(p, "policy")
    BY <1>8, <1>t, <1>g DEF PushPrivateKey
  <2> DEFINE dir == [UserDir(Cn(p)) EXCEPT !.key = TRUE]
  <2>2. dir \in FolderType /\ dir.inode = UserDir(Cn(p)).inode /\ dir.cert = UserDir(Cn(p)).cert
    BY <2>1, <1>d DEF FolderType
  <2>3. DirWritten(Cn(p))
    BY <1>8, <2>1, <2>2, <1>d DEF PushPrivateKey
  <2> QED
    BY <1>8, <2>1, <2>3, <1>t DEF PushPrivateKey, Work
<1>9. ASSUME Inspect(p)  PROVE \E st \in Under : Work(p, st)
  <2> DEFINE gone == ~HasMaterial(Cn(p)) /\ (folder[Cn(p)] = None \/ ~folder[Cn(p)].disabled)
             next == [req[p] EXCEPT !.step = IF gone THEN "rmdir" ELSE "disable", !.found = ~gone]
  <2>1. Cn(p) \in CNs /\ req' = [req EXCEPT ![p] = next]
    BY <1>9, <1>t DEF Inspect
  <2>2. gone => issued[Cn(p)] = None /\ (folder[Cn(p)] # None => ~folder[Cn(p)].cert)
    BY DEF HasMaterial
  <2>3. (~gone) \in BOOLEAN /\ (IF gone THEN "rmdir" ELSE "disable") \in Before \union Under
    OBVIOUS
  <2> HIDE DEF gone
  <2>4. /\ next \in ReqType /\ next.step = (IF gone THEN "rmdir" ELSE "disable")
        /\ next.kind = req[p].kind /\ next.cn = req[p].cn /\ next.gen = req[p].gen
        /\ next.seen = req[p].seen /\ next.began = req[p].began
    <3> HIDE DEF Before, Under
    <3> QED
      BY <2>3, <1>t DEF ReqType
  <2> HIDE DEF next
  <2>5. ReqMoved(p, IF gone THEN "rmdir" ELSE "disable")
    BY <2>1, <2>4 DEF ReqMoved, UserTyped
  <2> QED
    BY <1>9, <2>2, <2>5, <1>t DEF Inspect, Work
<1>10. ASSUME Disable(p)  PROVE Work(p, "revoke")
  <2>1. Cn(p) \in CNs /\ ReqMoved(p, "revoke")
    BY <1>10, <1>t, <1>g DEF Disable
  <2>2. DirWritten(Cn(p)) /\ closing' \in [CNs -> BOOLEAN]
    BY <1>10, <2>1, FlagSet DEF Disable
  <2> QED
    BY <1>10, <2>1, <2>2, <1>t DEF Disable, Work
<1>11. ASSUME RequestFault(p)  PROVE Work(p, "failed")
  BY <1>11, <1>t, <1>g DEF RequestFault, Work
<1>12. ASSUME InspectFails(p)  PROVE Work(p, "failed")
  <2>1. Cn(p) \in CNs /\ ReqMoved(p, "failed")
    BY <1>12, <1>t, <1>g DEF InspectFails
  <2>2. DirWritten(Cn(p)) /\ closing' \in [CNs -> BOOLEAN]
    BY <1>12, <2>1, FlagSet DEF InspectFails
  <2> QED
    BY <1>12, <2>1, <2>2, <1>t DEF InspectFails, Work
<1> QED
  BY <1>1, <1>2, <1>3, <1>4, <1>5, <1>6, <1>7, <1>8, <1>9, <1>10, <1>11, <1>12
-----------------------------------------------------------------------------
(* What a step of the CA can mean to a user. *)

RemovedSteps == {"rmkey", "bundle", "ok"}

CertsKept ==
    /\ issued' = issued
    /\ op'.kind = "remove" /\ op'.step \in RemovedSteps => op.step \in RemovedSteps

\* The CA writes a certificate with a new serial where there is none.
CertAdded ==
    /\ op.kind = "issue" /\ op'.kind = "issue" /\ op.cn \in CNs
    /\ \A c \in CNs : c # op.cn => issued'[c] = issued[c]
    /\ issued[op.cn] = None /\ issued'[op.cn] # None
    /\ issued'[op.cn].serial \in Serials
    /\ signed[issued'[op.cn].serial] = 0 /\ signed'[issued'[op.cn].serial] > 0

\* The CA removes a certificate whose rows are all on the CRL.
CertGone ==
    /\ op.kind = "remove" /\ op.step = "rmcert" /\ op.cn \in CNs
    /\ \A c \in CNs : c # op.cn => issued'[c] = issued[c]
    /\ issued'[op.cn] = None
    /\ RowsOf(op.cn) \subseteq OnCrl

\* Which operation the CA is at does not change, and what it has written down
\* stays: serials, rows and entries of the CRL.
OpKept ==
    /\ op.kind # "none" /\ op.step \notin {"ok", "err"}
    /\ op.kind \in {"issue", "remove"} \/ op'.kind \in {"issue", "remove"} =>
         op'.kind = op.kind /\ op'.cn = op.cn
Recorded ==
    /\ \A s \in Serials : signed[s] > 0 => signed'[s] > 0
    /\ \A s \in Serials : index[s] # None => index'[s] # None /\ index'[s].cn = index[s].cn
    /\ crl # None => crl' # None /\ crl.entries \subseteq crl'.entries

CaStep == OpKept /\ Recorded /\ (CertsKept \/ CertAdded \/ CertGone)

LEMMA CaSteps ==
  ASSUME PkiInv, OpStep \/ Fault
  PROVE  CaStep
<1>t. /\ op \in OpType /\ StepsOf /\ Ready /\ Files
      /\ UsedOnce /\ NothingReplaced /\ LeftRevoked /\ Removing /\ CrlFollows
  BY DEF PkiInv, Typed, Tracked
<1>k. op.kind \in {"none", "issue", "renew", "remove", "refresh", "push", "regenerate", "init"}
  BY <1>t DEF OpType, OpKinds
<1>s. {"fallback", "undokey", "undocert", "err", "index", "skey", "cert", "ok", "key", "bundle", "scert",
       "crlnumber", "crl", "verify", "rmcert", "rmkey", "pcert", "pca", "pushed", "cacert",
       "initserver", "buildserver", "validate", "servercert", "gencrl"} \subseteq OpSteps
  BY DEF OpSteps
<1>g. \A st \in OpSteps : Goto(st) => Moved(st)
  BY <1>t, GotoMoves
<1>e. OnError => \E st \in {"fallback", "undokey", "err"} : Moved(st)
  BY <1>t, ErrorMoves
<1>m. ASSUME NEW st, Moved(st)
      PROVE  op'.step = st /\ op'.kind = op.kind /\ op'.cn = op.cn
  BY <1>m DEF Moved
<1>u. ASSUME signed' = signed, index' = index  
      PROVE  /\ \A s \in Serials : signed[s] > 0 => signed'[s] > 0
             /\ \A s \in Serials : index[s] # None => index'[s] # None /\ index'[s].cn = index[s].cn
  BY <1>u
<1>c. ASSUME crl' = crl
      PROVE  crl # None => crl' # None /\ crl.entries \subseteq crl'.entries
  BY <1>c
<1> USE DEF StepsOf, RemovedSteps, CaStep, pkiFiles
<1>q. ASSUME UNCHANGED <<index, signed, crl, issued>>, op.kind # "none",
             op.step \notin {"ok", "err"},
             op'.kind = op.kind, op'.cn = op.cn,
             op'.step \notin {"rmkey", "bundle", "ok"} \/ op.kind # "remove"
                \/ op.step \in RemovedSteps
      PROVE  CaStep
  BY <1>q DEF OpKept, Recorded, CertsKept
<1>1. CASE Fault
  BY <1>1, <1>t, <1>k, <1>e, <1>m, <1>q DEF Fault, Writes
<1>2. CASE TakeSerial
  <2>1. op'.step \in {"index", "skey"} /\ op'.kind = op.kind /\ op'.cn = op.cn
    BY <1>2, <1>t DEF TakeSerial, OpType
  <2> QED
    BY <1>2, <2>1, <1>t, <1>k, <1>q DEF TakeSerial
<1>3. CASE NoSerial
  BY <1>3, <1>t, <1>k, <1>e, <1>m, <1>q DEF NoSerial
<1>4. CASE AppendIndex
  <2>1. CASE OnError /\ UNCHANGED index
    BY <1>4, <2>1, <1>t, <1>k, <1>e, <1>m, <1>q DEF AppendIndex
  <2>2. CASE /\ index[op.serial] = None
             /\ index' = [index EXCEPT ![op.serial] = [cn |-> op.cn, status |-> "V"]]
             /\ Goto(IF op.kind = "issue" THEN "cert" ELSE "ok")
    <3>1. op'.step \in {"cert", "ok"} /\ op'.kind = op.kind /\ op'.cn = op.cn
      BY <2>2, <1>s, <1>g, <1>m
    <3>2. op.step = "index" /\ op.kind \in {"issue", "renew"}
      BY <1>4, <1>t, <1>k DEF AppendIndex
    <3>3. \A s \in Serials : index[s] # None => index'[s] = index[s]
      BY <2>2, <1>t DEF Files
    <3> QED
      BY <1>4, <3>1, <3>2, <3>3 DEF AppendIndex, OpKept, Recorded, CertsKept
  <2> QED
    BY <1>4, <2>1, <2>2 DEF AppendIndex
<1>5. CASE WriteCert
  <2>1. op.step = "cert" /\ op.kind = "issue" /\ op.serial \in Serials /\ op.cn \in CNs
    BY <1>5, <1>t, <1>k DEF WriteCert, OpType, Ready
  <2>2. op'.step \in {"key", "bundle"} /\ op'.kind = op.kind /\ op'.cn = op.cn
    BY <1>5, <1>s, <1>g, <1>m DEF WriteCert
  <2> DEFINE new == [serial |-> op.serial, key |-> NewKey, ca |-> ca]
  <2>3. new \in Cert /\ new.serial = op.serial
    <3>1. NewKey \in Keys /\ ca \in CAs
      BY <2>1, <1>t, ValueFacts DEF NewKey, OpType, Ready, Files
    <3> QED
      BY <2>1, <3>1, CertIsCert
  <2>4. issued' = [issued EXCEPT ![op.cn] = new] /\ UNCHANGED <<index, crl>>
    BY <1>5 DEF WriteCert
  <2> HIDE DEF new
  <2>5. /\ signed[op.serial] = 0 /\ signed'[op.serial] = 1
        /\ \A s \in Serials : s # op.serial => signed'[s] = signed[s]
    BY <1>5, <2>1, <1>t DEF WriteCert, UsedOnce, Files
  <2>6. issued[op.cn] = None
    BY <2>1, <1>t DEF NothingReplaced
  <2>7. CertAdded
    BY <2>1, <2>2, <2>3, <2>4, <2>5, <2>6, <1>t, NoneFacts DEF CertAdded, Files
  <2> QED
    BY <2>1, <2>2, <2>4, <2>5, <2>7 DEF OpKept, Recorded
<1>6. CASE WriteKey
  BY <1>6, <1>t, <1>k, <1>s, <1>g, <1>m, <1>q DEF WriteKey
<1>7. CASE Bundle
  BY <1>7, <1>t, <1>k, <1>s, <1>g, <1>m, <1>q DEF Bundle
<1>8. CASE WriteServerKey
  BY <1>8, <1>t, <1>k, <1>s, <1>g, <1>m, <1>q DEF WriteServerKey
<1>9. CASE WriteServerCert
  BY <1>9, <1>t, <1>k, <1>s, <1>g, <1>m, <1>q DEF WriteServerCert
<1>10. CASE FallbackRenews
  <2>1. op'.step = "ok" /\ op'.kind = op.kind /\ op'.cn = op.cn
    BY <1>10, <1>s, <1>g, <1>m DEF FallbackRenews
  <2>2. op.kind = "renew" /\ op.step = "fallback"
    BY <1>10, <1>t, <1>k DEF FallbackRenews
  <2>3. \A s \in Serials : index[s] # None => index'[s] = index[s]
    BY <1>10, <1>t DEF FallbackRenews, OpensslCanSign, Files
  <2> QED
    BY <1>10, <2>1, <2>2, <2>3 DEF FallbackRenews, OpKept, Recorded, CertsKept
<1>11. CASE FallbackFails
  BY <1>11, <1>t, <1>k, <1>s, <1>g, <1>m, <1>q DEF FallbackFails
<1>12. CASE MarkRevoked
  <2>1. op'.step = "crlnumber" /\ op'.kind = op.kind /\ op'.cn = op.cn
    BY <1>12, <1>s, <1>g, <1>m DEF MarkRevoked
  <2>2. op.kind # "none" /\ op.step = "mark"
    BY <1>12, <1>t DEF MarkRevoked
  <2>3. ASSUME NEW s \in Serials, index[s] # None
        PROVE  index'[s] # None /\ index'[s].cn = index[s].cn
    <3>1. index[s] \in Row
      BY <2>3, <1>t DEF Files
    <3>2. [index[s] EXCEPT !.status = "R"] \in Row
          /\ [index[s] EXCEPT !.status = "R"].cn = index[s].cn
      BY <3>1 DEF Row
    <3> QED
      BY <1>12, <2>3, <3>2, NoneFacts DEF MarkRevoked
  <2> QED
    BY <1>12, <2>1, <2>2, <2>3 DEF MarkRevoked, OpKept, Recorded, CertsKept
<1>13. CASE WriteCrlNumber
  <2>1. op'.step = "crl" /\ op'.kind = op.kind /\ op'.cn = op.cn
    BY <1>13, <1>t DEF WriteCrlNumber, OpType
  <2> QED
    BY <1>13, <2>1, <1>t, <1>k, <1>q DEF WriteCrlNumber
<1>14. CASE CannotGenerate
  BY <1>14, <1>t, <1>k, <1>s, <1>g, <1>m, <1>q DEF CannotGenerate
<1>15. CASE WriteCrl
  <2>1. /\ op'.kind = op.kind /\ op'.cn = op.cn
        /\ op'.step = IF op.kind = "remove" THEN "verify" ELSE "ok"
    BY <1>15, <1>s, <1>g, <1>m DEF WriteCrl
  <2>2. op.step = "crl" /\ op.kind # "none" /\ op.crl # None /\ OnCrl \subseteq op.crl.entries
    BY <1>15, <1>t DEF WriteCrl, CrlFollows, Ready
  <2>3. crl' # None /\ (crl # None => crl.entries \subseteq crl'.entries)
    BY <1>15, <2>2 DEF WriteCrl, OnCrl
  <2> QED
    BY <1>15, <2>1, <2>2, <2>3, <1>u DEF WriteCrl, OpKept, Recorded, CertsKept
<1>16. CASE VerifyCrl
  BY <1>16, <1>t, <1>k, <1>s, <1>g, <1>m, <1>q DEF VerifyCrl
<1>17. CASE RemoveCert
  <2>1. op.step = "rmcert" /\ op.kind = "remove" /\ op.cn \in CNs
    BY <1>17, <1>t, <1>k DEF RemoveCert, Ready
  <2>2. op'.kind = op.kind /\ op'.cn = op.cn
    BY <1>17, <1>s, <1>g, <1>m DEF RemoveCert
  <2>3. CertGone
    BY <1>17, <2>1, <1>t DEF RemoveCert, CertGone, Removing, Files
  <2> QED
    BY <1>17, <2>1, <2>2, <2>3, <1>u, <1>c DEF RemoveCert, OpKept, Recorded
<1>18. CASE RemoveKey
  BY <1>18, <1>t, <1>k, <1>s, <1>g, <1>m, <1>q DEF RemoveKey
<1>19. CASE GenCrl
  <2>1. op.step = "gencrl" /\ op.kind # "none" /\ op.kind # "remove" /\ crl = None
    BY <1>19, <1>t DEF GenCrl, CrlFollows
  <2>2. op'.kind = op.kind /\ op'.cn = op.cn
    BY <1>19, <1>s, <1>g, <1>m DEF GenCrl
  <2> QED
    BY <1>19, <2>1, <2>2, <1>u, <1>k, <1>t DEF GenCrl, OpKept, Recorded, CertsKept
<1>20. CASE PushKey
  <2>1. op'.kind = op.kind /\ op'.cn = op.cn /\ op'.step = "pcert"
    BY <1>20, <1>t DEF PushKey, OpType
  <2> QED
    BY <1>20, <2>1, <1>t, <1>q DEF PushKey
<1>21. CASE PushCert
  <2>1. op'.kind = op.kind /\ op'.cn = op.cn /\ op'.step = "pca"
    BY <1>21, <1>t DEF PushCert, OpType
  <2> QED
    BY <1>21, <2>1, <1>t, <1>q DEF PushCert
<1>22. CASE PushCa
  BY <1>22, <1>t, <1>k, <1>s, <1>g, <1>m, <1>q DEF PushCa
<1>23. CASE PushEnd
  <2>1. op'.kind \in {"push", "regenerate"}
    BY <1>23, IdleFacts DEF PushEnd, OpType
  <2>2. op.kind = "push" /\ op.step = "pushed"
    BY <1>23, <1>t, <1>k DEF PushEnd
  <2> QED
    BY <1>23, <2>1, <2>2, <1>u, <1>c DEF PushEnd, OpKept, Recorded, CertsKept
<1>24. CASE RestoreKey
  BY <1>24, <1>t, <1>k, <1>s, <1>g, <1>m, <1>q DEF RestoreKey, AfterKey
<1>31. CASE RestoreCert
  BY <1>31, <1>t, <1>k, <1>s, <1>g, <1>m, <1>q DEF RestoreCert
<1>32. CASE RestoreFails
  <2>1. op'.kind = op.kind /\ op'.cn = op.cn /\ op.step \in {"undokey", "undocert"}
    BY <1>32, <1>t, StuckMoves
  <2> QED
    BY <1>32, <2>1, <1>t, <1>k, <1>q DEF RestoreFails
<1>25. CASE BuildCaKey
  BY <1>25, <1>t, <1>k, <1>s, <1>g, <1>m, <1>q DEF BuildCaKey
<1>26. CASE BuildCaCert
  BY <1>26, <1>t, <1>k, <1>s, <1>g, <1>m, <1>q DEF BuildCaCert
<1>27. CASE InitServer
  BY <1>27, <1>t, <1>k, <1>s, <1>g, <1>m, <1>q DEF InitServer
<1>28. CASE BuildServerKey
  BY <1>28, <1>t, <1>k, <1>s, <1>g, <1>m, <1>q DEF BuildServerKey
<1>29. CASE BuildServerCert
  <2>1. op'.step = "validate" /\ op'.kind = op.kind /\ op'.cn = op.cn
    BY <1>29, <1>s, <1>g, <1>m DEF BuildServerCert
  <2>2. op.kind = "init" /\ op.step = "servercert"
    BY <1>29, <1>t, <1>k DEF BuildServerCert
  <2>3. \A s \in Serials : index[s] # None => index'[s] = index[s]
    BY <1>29, <1>t DEF BuildServerCert, OpensslCanSign, Files
  <2> QED
    BY <1>29, <2>1, <2>2, <2>3 DEF BuildServerCert, OpKept, Recorded, CertsKept
<1>30. CASE \E due \in BOOLEAN : Validate(due)
  <2>1. op.step = "validate" /\ op.kind = "init" /\ UNCHANGED <<index, signed, crl, issued>>
    BY <1>30, <1>t, <1>k DEF Validate
  <2>2. \E st \in {"err", "gencrl", "crlnumber", "ok"} : Goto(st)
    BY <1>30 DEF Validate, EnsureStep
  <2>3. op'.kind = op.kind /\ op'.cn = op.cn
    BY <2>2, <1>s, <1>g, <1>m
  <2> QED
    BY <2>1, <2>3, <1>q
<1> QED
  BY <1>1, <1>2, <1>3, <1>4, <1>5, <1>6, <1>7, <1>8, <1>9, <1>10, <1>11, <1>12, <1>13, <1>14,
     <1>15, <1>16, <1>17, <1>18, <1>19, <1>20, <1>21, <1>22, <1>23, <1>24, <1>25, <1>26, <1>27,
     <1>28, <1>29, <1>30, <1>31, <1>32 DEF OpStep
-----------------------------------------------------------------------------
(* The steps of the system by what they do. *)

OthersWait(p) == req' \in [Procs -> ReqType] /\ \A q \in Procs : q # p => req'[q] = req[q]
StillUser == UNCHANGED <<folder, made, deletions, closing, stored>>

Asked(p) ==
    /\ req[p].step = "idle"
    /\ OthersWait(p)
    /\ req'[p].cn \in CNs /\ req'[p].kind \in Kinds /\ req'[p].step \in {"opencert", "wait"}
    /\ req'[p].gen # None => /\ folder[req'[p].cn] # None
                             /\ req'[p].gen.path = "folder"
                             /\ req'[p].gen.inode = folder[req'[p].cn].inode
    /\ req'[p].seen = Handed(req'[p].cn) /\ req'[p].began = deletions[req'[p].cn]
    /\ UNCHANGED <<pkiState, lock>> /\ StillUser

OpenedCert(p) ==
    /\ req[p].step = "opencert"
    /\ OthersWait(p)
    /\ req'[p].cn = req[p].cn /\ req'[p].kind = req[p].kind /\ req'[p].seen = req[p].seen
    /\ req'[p].step = "wait" /\ req'[p].began = deletions[Cn(p)]
    /\ req'[p].gen # None => /\ issued[Cn(p)] # None
                             /\ req'[p].gen.path = "cert"
                             /\ req'[p].gen.inode = issued[Cn(p)].serial
    /\ UNCHANGED <<pkiState, lock>> /\ StillUser

Entered(p, st) ==
    /\ req[p].step = "wait" /\ lock[Cn(p)] = None
    /\ lock' = [lock EXCEPT ![Cn(p)] = p]
    /\ ReqMoved(p, st)
    /\ IF SameGeneration(req[p].gen, Cn(p))
         THEN st \in {"mkdir", "pushcert", "policy", "lookup", "inspect"}
         ELSE st \in {"done", "failed"}
    /\ req[p].kind = "delete" => st \in DeleteSteps
    /\ UNCHANGED pkiState /\ StillUser

Answered(p) ==
    /\ req[p].step \in {"done", "failed"}
    /\ OthersWait(p) /\ req'[p] = IdleReq
    /\ lock' = [lock EXCEPT ![Cn(p)] = None]
    /\ UNCHANGED pkiState /\ StillUser

\* What a request asks of the CA, and the step in which it waits.
Calls(waiting, kind, first) ==
    \/ waiting = "issuing" /\ kind = "issue" /\ first = "serial"
    \/ waiting = "revoking" /\ kind = "remove" /\ first = "mark"

Called(p, waiting, kind, first) ==
    /\ Calls(waiting, kind, first)
    /\ req[p].step \in {"material", "revoke"}
    /\ req[p].kind = "delete" => waiting = "revoking"
    /\ ReqMoved(p, waiting)
    /\ op.kind = "none" /\ op'.kind = kind /\ op'.cn = Cn(p) /\ op'.step \in {first, "err"}
    /\ kind = "remove" /\ op'.step # "err" => ~folder[Cn(p)].cert
    /\ UNCHANGED <<pkiFiles, signed, lock>> /\ StillUser

Returned(p, st) ==
    /\ req[p].step \in {"issuing", "revoking"}
    /\ op.step \in {"ok", "err"} /\ op.cn = Cn(p) /\ op' = Idle
    /\ ReqMoved(p, st)
    /\ \/ req[p].step = "issuing" /\ st \in {"profile", "failed"}
       \/ req[p].step = "revoking" /\ st = "failed"
       \/ req[p].step = "revoking" /\ st = "rmdir" /\ op.step = "ok"
    /\ UNCHANGED <<pkiFiles, signed, lock>> /\ StillUser

Cleaned(p) ==
    /\ req[p].step = "rmdir"
    /\ folder' \in [CNs -> FolderType \union {None}] /\ closing' \in [CNs -> BOOLEAN]
    /\ \A c \in CNs : c # Cn(p) => folder'[c] = folder[c]
    /\ folder[Cn(p)] # None /\ folder'[Cn(p)] # None
    /\ folder'[Cn(p)].inode = folder[Cn(p)].inode
    /\ UNCHANGED <<pkiState, lock, req, made, deletions, stored>>

Finished(p) ==
    /\ req[p].step = "rmdir"
    /\ folder' = [folder EXCEPT ![Cn(p)] = None] /\ closing' \in [CNs -> BOOLEAN]
    /\ deletions' = [deletions EXCEPT ![Cn(p)] = @ + 1]
    /\ ReqMoved(p, "done")
    /\ UNCHANGED <<pkiState, lock, made, stored>>

Panel ==
    /\ {op.kind, op'.kind} \intersect {"issue", "remove"} = {}
    /\ UNCHANGED <<pkiFiles, signed, lock, req>> /\ StillUser

Died ==
    /\ op' = Idle
    /\ lock' = [c \in CNs |-> None] /\ req' = [p \in Procs |-> IdleReq]
    /\ UNCHANGED <<pkiFiles, signed>> /\ StillUser

Shape ==
    \/ \E p \in Procs, st \in Under : Work(p, st)
    \/ \E p \in Procs : Asked(p) \/ OpenedCert(p) \/ Answered(p) \/ Cleaned(p) \/ Finished(p)
    \/ \E p \in Procs, st \in Under : Entered(p, st) \/ Returned(p, st)
    \/ \E p \in Procs, w \in Under, k \in OpKinds, f \in OpSteps : Called(p, w, k, f)
    \/ CaStep /\ UNCHANGED userVars
    \/ Panel
    \/ Died

LEMMA Asks ==
  ASSUME UserTyped, Typed, NEW p \in Procs, NEW k \in Kinds, NEW cn \in CNs,
         NEW d \in {None, TRUE, FALSE}, Ask(p, k, cn, d)
  PROVE  Asked(p)
<1> DEFINE st  == IF folder[cn] = None THEN "opencert" ELSE "wait"
           gen == IF folder[cn] = None THEN None
                  ELSE [path |-> "folder", inode |-> folder[cn].inode]
           new == [IdleReq EXCEPT !.kind = k, !.cn = cn, !.disabled = d, !.step = st,
                                  !.gen = gen, !.seen = Handed(cn), !.began = deletions[cn]]
<1>1. req' = [req EXCEPT ![p] = new] /\ req[p] = IdleReq
  BY DEF Ask
<1>2. /\ st \in {"opencert", "wait"} /\ gen \in GenType \union {None}
      /\ gen # None => /\ folder[cn] # None /\ gen.path = "folder"
                       /\ gen.inode = folder[cn].inode
  BY DEF UserTyped, FolderType, GenType
<1>3. Handed(cn) \in SUBSET ({Foreign} \union Serials) /\ deletions[cn] \in Nat
  BY DEF Handed, UserTyped
<1> HIDE DEF st, gen
<1>4. /\ new \in ReqType /\ new.kind = k /\ new.cn = cn /\ new.step = st /\ new.gen = gen
      /\ new.seen = Handed(cn) /\ new.began = deletions[cn]
  <2>1. st \in Before \union Under
    BY <1>2 DEF Before, Under
  <2> QED
    BY <1>2, <1>3, <2>1, IdleReqFacts DEF ReqType
<1> HIDE DEF new
<1>5. req'[p] = new /\ OthersWait(p)
  BY <1>1, <1>4 DEF UserTyped, OthersWait
<1>6. UNCHANGED <<pkiState, lock>> /\ StillUser
  BY DEF Ask, StillUser, pkiVars, pkiState
<1> QED
  BY <1>1, <1>2, <1>4, <1>5, <1>6, IdleReqFacts DEF Asked

LEMMA OpensCert ==
  ASSUME UserTyped, Typed, NEW p \in Procs, OpenCert(p)
  PROVE  OpenedCert(p)
<1> DEFINE gen == IF issued[Cn(p)] = None THEN None
                  ELSE [path |-> "cert", inode |-> issued[Cn(p)].serial]
           new == [req[p] EXCEPT !.step = "wait", !.gen = gen, !.began = deletions[Cn(p)]]
<1>1. req' = [req EXCEPT ![p] = new] /\ req[p].step = "opencert"
  BY DEF OpenCert, At
<1>2. Cn(p) \in CNs /\ req[p] \in ReqType
  BY <1>1 DEF UserTyped
<1>3. /\ gen \in GenType \union {None} /\ deletions[Cn(p)] \in Nat
      /\ gen # None => /\ issued[Cn(p)] # None /\ gen.path = "cert"
                       /\ gen.inode = issued[Cn(p)].serial
  BY <1>2, ValueFacts DEF UserTyped, GenType, Typed, Files, Cert
<1> HIDE DEF gen
<1>4. /\ new \in ReqType /\ new.kind = req[p].kind /\ new.cn = req[p].cn /\ new.step = "wait"
      /\ new.gen = gen /\ new.seen = req[p].seen /\ new.began = deletions[Cn(p)]
  BY <1>2, <1>3 DEF ReqType, Before
<1> HIDE DEF new
<1>5. req'[p] = new /\ OthersWait(p)
  BY <1>1, <1>4 DEF UserTyped, OthersWait
<1>6. UNCHANGED <<pkiState, lock>> /\ StillUser
  BY DEF OpenCert, StillUser, pkiVars, pkiState
<1> QED
  BY <1>1, <1>3, <1>4, <1>5, <1>6 DEF OpenedCert

LEMMA Enters ==
  ASSUME UserTyped, NEW p \in Procs, Enter(p)
  PROVE  \E st \in Under : Entered(p, st)
<1> DEFINE st == IF SameGeneration(req[p].gen, Cn(p)) THEN FirstStep(req[p].kind)
                 ELSE IF req[p].kind = "delete" THEN "done" ELSE "failed"
<1>1. req[p].step = "wait" /\ req[p].kind \in Kinds /\ Goes(p, st)
  BY DEF Enter, At, UserTyped
<1>2. /\ IF SameGeneration(req[p].gen, Cn(p))
           THEN st \in {"mkdir", "pushcert", "policy", "lookup", "inspect"}
           ELSE st \in {"done", "failed"}
      /\ req[p].kind = "delete" => st \in DeleteSteps
  BY <1>1 DEF Kinds, FirstStep, DeleteSteps
<1>3. st \in Under
  BY <1>2 DEF Under
<1>4. ReqMoved(p, st)
  BY <1>1, <1>3, GoesMoves
<1> HIDE DEF st
<1>5. Entered(p, st)
  BY <1>1, <1>2, <1>4 DEF Enter, Entered, StillUser, pkiVars, pkiState
<1> QED
  BY <1>3, <1>5

LEMMA CallsCa ==
  ASSUME UserTyped, Typed, NEW p \in Procs, Issue(p) \/ Revoke(p)
  PROVE  \E w \in Under, k \in OpKinds, f \in OpSteps : Called(p, w, k, f)
<1>t. /\ {"issuing", "revoking"} \subseteq Under /\ {"issue", "remove"} \subseteq OpKinds
      /\ {"serial", "mark", "err"} \subseteq OpSteps
  BY DEF Under, OpKinds, OpSteps
<1>1. CASE Issue(p)
  <2>1. req[p].step = "material" /\ Goes(p, "issuing") /\ IssueBegin(Cn(p))
    BY <1>1 DEF Issue, At
  <2>2. Cn(p) \in CNs /\ req[p].kind # "delete"
    BY <2>1 DEF UserTyped, DeleteSteps, Before
  <2>3. ReqMoved(p, "issuing")
    BY <2>1, <1>t, GoesMoves
  <2>4. op = Idle /\ op'.kind = "issue" /\ op'.cn = Cn(p) /\ op'.step \in {"serial", "err"}
    BY <2>1, IdleFacts DEF IssueBegin, Refuse, OpType
  <2>5. Called(p, "issuing", "issue", "serial")
    BY <1>1, <2>1, <2>2, <2>3, <2>4, IdleFacts
    DEF Issue, Called, Calls, StillUser, IssueBegin, pkiVars, pkiState
  <2> QED
    BY <2>5, <1>t
<1>2. CASE Revoke(p)
  <2>1. /\ req[p].step = "revoke" /\ Goes(p, "revoking")
        /\ RemoveBegin(Cn(p), ForeignInFolder(Cn(p)))
    BY <1>2 DEF Revoke, At
  <2>3. ReqMoved(p, "revoking")
    BY <2>1, <1>t, GoesMoves
  <2>4. op = Idle /\ op'.kind = "remove" /\ op'.cn = Cn(p) /\ op'.step \in {"mark", "err"}
    BY <2>1, IdleFacts DEF RemoveBegin, Refuse, OpType
  <2>5. op'.step # "err" => ~folder[Cn(p)].cert
    BY <2>1, IdleFacts DEF RemoveBegin, Refuse, OpType, ForeignInFolder
  <2>6. Called(p, "revoking", "remove", "mark")
    BY <1>2, <2>1, <2>3, <2>4, <2>5, IdleFacts
    DEF Revoke, Called, Calls, StillUser, RemoveBegin, pkiVars, pkiState
  <2> QED
    BY <2>6, <1>t
<1> QED
  BY <1>1, <1>2

LEMMA CaReturns ==
  ASSUME UserTyped, NEW p \in Procs, Issued(p) \/ Revoked(p)
  PROVE  \E st \in Under : Returned(p, st)
<1>t. {"profile", "rmdir", "failed"} \subseteq Under
  BY DEF Under
<1>1. CASE Issued(p)
  <2> DEFINE st == IF op.step = "ok" THEN "profile" ELSE "failed"
  <2>1. req[p].step = "issuing" /\ Goes(p, st) /\ st \in Under
    BY <1>1, <1>t DEF Issued, PkiDone, At
  <2>2. ReqMoved(p, st) /\ st \in {"profile", "failed"}
    BY <2>1, GoesMoves
  <2> HIDE DEF st
  <2>3. Returned(p, st)
    BY <1>1, <2>1, <2>2 DEF Issued, PkiDone, PkiReturn, Returned, StillUser
  <2> QED
    BY <2>1, <2>3
<1>2. CASE Revoked(p)
  <2> DEFINE st == IF op.step = "ok" THEN "rmdir" ELSE "failed"
  <2>1. req[p].step = "revoking" /\ Goes(p, st) /\ st \in Under
    BY <1>2, <1>t DEF Revoked, PkiDone, At
  <2>2. ReqMoved(p, st) /\ (st = "failed" \/ (st = "rmdir" /\ op.step = "ok"))
    BY <2>1, GoesMoves
  <2> HIDE DEF st
  <2>3. Returned(p, st)
    BY <1>2, <2>1, <2>2 DEF Revoked, PkiDone, PkiReturn, Returned, StillUser
  <2> QED
    BY <2>1, <2>3
<1> QED
  BY <1>1, <1>2

LEMMA Cleans ==
  ASSUME UserTyped, NEW p \in Procs, RemoveSome(p)
  PROVE  Cleaned(p)
<1>1. req[p].step = "rmdir" /\ folder[Cn(p)] # None
  BY DEF RemoveSome, At
<1>2. /\ Cn(p) \in CNs /\ folder[Cn(p)] \in FolderType /\ closing \in [CNs -> BOOLEAN]
      /\ folder \in [CNs -> FolderType \union {None}]
  BY <1>1 DEF UserTyped
<1>3. closing' \in [CNs -> BOOLEAN]
  BY <1>2 DEF RemoveSome
<1>4. ASSUME NEW dir \in FolderType, dir.inode = folder[Cn(p)].inode,
             folder' = [folder EXCEPT ![Cn(p)] = dir]
      PROVE  /\ folder' \in [CNs -> FolderType \union {None}]
             /\ \A c \in CNs : c # Cn(p) => folder'[c] = folder[c]
             /\ folder'[Cn(p)] # None /\ folder'[Cn(p)].inode = folder[Cn(p)].inode
  BY <1>2, <1>4, UserFacts
<1>5. /\ folder' \in [CNs -> FolderType \union {None}]
      /\ \A c \in CNs : c # Cn(p) => folder'[c] = folder[c]
      /\ folder'[Cn(p)] # None /\ folder'[Cn(p)].inode = folder[Cn(p)].inode
  <2>1. CASE folder' = [folder EXCEPT ![Cn(p)].ovpn = None]
    <3> DEFINE dir == [folder[Cn(p)] EXCEPT !.ovpn = None]
    <3>1. dir \in FolderType /\ dir.inode = folder[Cn(p)].inode
      BY <1>2 DEF FolderType
    <3> QED
      BY <2>1, <3>1, <1>4
  <2>2. CASE folder' = [folder EXCEPT ![Cn(p)].key = FALSE]
    <3> DEFINE dir == [folder[Cn(p)] EXCEPT !.key = FALSE]
    <3>1. dir \in FolderType /\ dir.inode = folder[Cn(p)].inode
      BY <1>2 DEF FolderType
    <3> QED
      BY <2>2, <3>1, <1>4
  <2>3. CASE folder' = [folder EXCEPT ![Cn(p)].disabled = FALSE]
    <3> DEFINE dir == [folder[Cn(p)] EXCEPT !.disabled = FALSE]
    <3>1. dir \in FolderType /\ dir.inode = folder[Cn(p)].inode
      BY <1>2 DEF FolderType
    <3> QED
      BY <2>3, <3>1, <1>4
  <2> QED
    BY <2>1, <2>2, <2>3 DEF RemoveSome
<1> QED
  BY <1>1, <1>3, <1>5 DEF RemoveSome, Cleaned, pkiVars, pkiState

LEMMA Finishes ==
  ASSUME UserTyped, NEW p \in Procs, RemoveFolder(p)
  PROVE  Finished(p)
<1>1. "done" \in Under
  BY DEF Under
<1>2. ReqMoved(p, "done")
  BY <1>1, GoesMoves DEF RemoveFolder
<1>3. closing' \in [CNs -> BOOLEAN]
  BY DEF RemoveFolder, UserTyped
<1> QED
  BY <1>2, <1>3 DEF RemoveFolder, Finished, At, pkiVars, pkiState

LEMMA PanelActs ==
  ASSUME PushPki, UNCHANGED userVars
  PROVE  Panel
<1>1. CASE PushBegin
  <2>1. op'.kind = "push" /\ op.kind = "none"
    BY <1>1, IdleFacts DEF PushBegin, OpType
  <2> QED
    BY <1>1, <2>1 DEF PushBegin, Panel, StillUser, userVars
<1>2. CASE PushReturns
  BY <1>2, IdleFacts DEF PushReturns, PkiReturn, Panel, StillUser, userVars
<1> QED
  BY <1>1, <1>2 DEF PushPki

\* Every step of the specification is one of these.
LEMMA StepShape ==
  ASSUME PkiInv, UserTyped, UserNext
  PROVE  Shape
<1>t. Typed
  BY DEF PkiInv
<1>1. CASE \E p \in Procs, k \in Kinds, cn \in CNs, d \in {None, TRUE, FALSE} : Ask(p, k, cn, d)
  BY <1>1, <1>t, Asks DEF Shape
<1>2. ASSUME NEW p \in Procs,
             RequestStep(p) \/ RemoveSome(p) \/ RequestFault(p) \/ InspectFails(p)
      PROVE  Shape
  <2>1. CASE OpenCert(p)
    BY <2>1, <1>t, OpensCert DEF Shape
  <2>2. CASE Enter(p)
    BY <2>2, Enters DEF Shape
  <2>3. CASE Answer(p)
    <3>1. OthersWait(p) /\ req'[p] = IdleReq
      BY <2>3, IdleReqFacts DEF Answer, OthersWait, UserTyped
    <3>2. Answered(p)
      BY <2>3, <3>1 DEF Answer, Answered, StillUser, pkiVars, pkiState
    <3> QED
      BY <3>2 DEF Shape
  <2>4. CASE Issue(p) \/ Revoke(p)
    BY <2>4, <1>t, CallsCa DEF Shape
  <2>5. CASE Issued(p) \/ Revoked(p)
    BY <2>5, CaReturns DEF Shape
  <2>6. CASE RemoveSome(p)
    BY <2>6, Cleans DEF Shape
  <2>7. CASE RemoveFolder(p)
    BY <2>7, Finishes DEF Shape
  <2>8. CASE \/ MakeFolder(p) \/ KeepMaterial(p) \/ NoMaterial(p) \/ BuildProfile(p)
             \/ WritePolicy(p) \/ Lookup(p) \/ PushCertificate(p) \/ PushPrivateKey(p)
             \/ Inspect(p) \/ Disable(p) \/ RequestFault(p) \/ InspectFails(p)
    BY <2>8, <1>t, StepsWork DEF Shape
  <2> QED
    BY <1>2, <2>1, <2>2, <2>3, <2>4, <2>5, <2>6, <2>7, <2>8 DEF RequestStep
<1>3. CASE (OpStep \/ Fault) /\ UNCHANGED userVars
  BY <1>3, CaSteps DEF Shape
<1>4. CASE PushPki /\ UNCHANGED userVars
  BY <1>4, PanelActs DEF Shape
<1>5. CASE Crash
  <2>1. Died
    BY <1>5 DEF Crash, PkiCrash, Died, StillUser
  <2> QED
    BY <2>1 DEF Shape
<1> QED
  BY <1>1, <1>2, <1>3, <1>4, <1>5 DEF UserNext

\* To the CA, every step is one of its own.
LEMMA StepOfCa ==
  ASSUME UserTyped, [UserNext]_vars
  PROVE  [Next]_pkiState
<1>1. CASE UNCHANGED vars
  BY <1>1 DEF vars, pkiVars, pkiState
<1>2. ASSUME NEW p \in Procs, Issue(p)  PROVE Next
  <2>1. Cn(p) \in CNs /\ IssueBegin(Cn(p))
    BY <1>2 DEF Issue, At, UserTyped
  <2> QED
    BY <2>1 DEF Next
<1>3. ASSUME NEW p \in Procs, Revoke(p)  PROVE Next
  <2>1. Cn(p) \in CNs /\ RemoveBegin(Cn(p), ForeignInFolder(Cn(p)))
    BY <1>3 DEF Revoke, At, UserTyped
  <2>2. RemoveBegin(Cn(p), TRUE) \/ RemoveBegin(Cn(p), FALSE)
    BY <2>1 DEF RemoveBegin
  <2> QED
    BY <2>1, <2>2 DEF Next
<1>4. ASSUME NEW p \in Procs, Issued(p) \/ Revoked(p)  PROVE Next
  BY <1>4 DEF Issued, Revoked, PkiDone, Next
<1>5. ASSUME NEW p \in Procs, RequestStep(p) \/ RemoveSome(p) \/ RequestFault(p) \/ InspectFails(p)
      PROVE  Next \/ UNCHANGED pkiState
  <2>1. Issue(p) \/ Revoke(p) \/ Issued(p) \/ Revoked(p) \/ UNCHANGED pkiState
    BY <1>5 DEF RequestStep, OpenCert, Enter, Answer, MakeFolder, KeepMaterial, NoMaterial,
       BuildProfile, WritePolicy, Lookup, PushCertificate, PushPrivateKey, Inspect, Disable,
       RemoveFolder, RemoveSome, RequestFault, InspectFails, pkiVars, pkiState
  <2> QED
    BY <2>1, <1>2, <1>3, <1>4, <1>5
<1>6. CASE \E p \in Procs, k \in Kinds, cn \in CNs, d \in {None, TRUE, FALSE} : Ask(p, k, cn, d)
  BY <1>6 DEF Ask, pkiVars, pkiState
<1>7. CASE (OpStep \/ Fault \/ PushPki) \/ Crash
  BY <1>7 DEF Next, PushPki, PushReturns, Maintain, Crash
<1> QED
  BY <1>1, <1>5, <1>6, <1>7 DEF UserNext
-----------------------------------------------------------------------------
(* Types, the locks, and what a deletion has removed. *)

\* One request at a time is under the lock of a user.
LEMMA Alone ==
  ASSUME Exclusive, NEW p \in Procs, NEW q \in Procs, p # q,
         req[p].step \in Under, req[q].step \in Under
  PROVE  Cn(p) # Cn(q)
BY DEF Exclusive

LEMMA StepUserTyped ==
  ASSUME UserTyped, Shape
  PROVE  UserTyped'
<1> USE DEF UserTyped, Cn
<1>d. Before \subseteq DeleteSteps /\ {"done", "failed", "revoking", "rmdir"} \subseteq DeleteSteps
      /\ "idle" \notin Under /\ {"issuing", "material"} \intersect DeleteSteps = {}
      /\ {"idle", "opencert", "wait"} \subseteq Before
  BY DEF Before, DeleteSteps, Under
<1>1. ASSUME NEW p \in Procs, NEW st \in Under, Work(p, st)  PROVE UserTyped'
  <2>1. req[p].step # "idle" /\ ReqMoved(p, st)
    BY <1>1, <1>d DEF Work
  <2> QED
    BY <1>1, <1>d, <2>1 DEF Work, ReqMoved, DirWritten
<1>2. ASSUME NEW p \in Procs, Asked(p)  PROVE UserTyped'
  BY <1>2, <1>d DEF Asked, OthersWait, StillUser
<1>3. ASSUME NEW p \in Procs, OpenedCert(p)  PROVE UserTyped'
  BY <1>3, <1>d DEF OpenedCert, OthersWait, StillUser
<1>4. ASSUME NEW p \in Procs, Answered(p)  PROVE UserTyped'
  BY <1>4, <1>d, IdleReqFacts DEF Answered, OthersWait, StillUser
<1>5. ASSUME NEW p \in Procs, Cleaned(p)  PROVE UserTyped'
  BY <1>5 DEF Cleaned
<1>6. ASSUME NEW p \in Procs, Finished(p)  PROVE UserTyped'
  BY <1>6, <1>d DEF Finished, ReqMoved
<1>7. ASSUME NEW p \in Procs, NEW st \in Under, Entered(p, st)  PROVE UserTyped'
  BY <1>7, <1>d DEF Entered, ReqMoved, StillUser
<1>8. ASSUME NEW p \in Procs, NEW st \in Under, Returned(p, st)  PROVE UserTyped'
  BY <1>8, <1>d DEF Returned, ReqMoved, StillUser
<1>9. ASSUME NEW p \in Procs, NEW w \in Under, NEW k \in OpKinds, NEW f \in OpSteps,
             Called(p, w, k, f)
      PROVE  UserTyped'
  BY <1>9, <1>d DEF Called, ReqMoved, StillUser
<1>10. CASE UNCHANGED userVars \/ Panel
  BY <1>10 DEF userVars, Panel, StillUser
<1>11. CASE Died
  BY <1>11, <1>d, IdleReqFacts DEF Died, StillUser
<1> QED
  BY <1>1, <1>2, <1>3, <1>4, <1>5, <1>6, <1>7, <1>8, <1>9, <1>10, <1>11 DEF Shape

LEMMA StepExclusive ==
  ASSUME UserTyped, Exclusive, Shape
  PROVE  Exclusive'
<1> USE DEF Exclusive, Cn
<1>d. /\ {"issuing", "revoking", "done", "failed", "rmdir", "material", "revoke"} \subseteq Under
      /\ Before \intersect Under = {} /\ {"idle", "opencert", "wait"} \subseteq Before
  BY DEF Before, Under
<1>l. \A p \in Procs : req[p].step \in Under => Cn(p) \in CNs
  BY <1>d DEF UserTyped
<1>i. IdleReq.step \notin Under /\ Idle.kind = "none"
  BY <1>d, IdleReqFacts, IdleFacts
<1>1. ASSUME NEW p \in Procs, NEW st \in Under, Work(p, st)  PROVE Exclusive'
  <2>1. ReqMoved(p, st) /\ op' = op /\ lock' = lock
    BY <1>1 DEF Work, pkiState
  <2>2. req[p].step \in Under \ {"issuing", "revoking"} /\ st \in Under \ {"issuing", "revoking"}
    BY <1>1 DEF Work
  <2> QED
    BY <2>1, <2>2 DEF ReqMoved
<1>2. ASSUME NEW p \in Procs, Asked(p) \/ OpenedCert(p)  PROVE Exclusive'
  <2>1. /\ req[p].step \in Before /\ req'[p].step \in Before
        /\ \A q \in Procs : q # p => req'[q] = req[q]
        /\ op' = op /\ lock' = lock
    BY <1>2, <1>d DEF Asked, OpenedCert, OthersWait, pkiState
  <2> QED
    BY <2>1, <1>d
<1>4. ASSUME NEW p \in Procs, Answered(p)  PROVE Exclusive'
  <2>1. /\ req[p].step \in Under /\ req[p].step \notin {"issuing", "revoking"}
        /\ req'[p].step \notin Under
        /\ \A q \in Procs : q # p => req'[q] = req[q]
        /\ op' = op /\ lock' = [lock EXCEPT ![Cn(p)] = None]
    BY <1>4, <1>d, <1>i DEF Answered, OthersWait, pkiState
  <2>2. \A q \in Procs : q # p /\ req[q].step \in Under => lock'[Cn(q)] = q
    BY <2>1, <1>l DEF UserTyped
  <2> QED
    BY <2>1, <2>2, <1>d
<1>5. ASSUME NEW p \in Procs, Cleaned(p)  PROVE Exclusive'
  BY <1>5 DEF Cleaned, pkiState
<1>6. ASSUME NEW p \in Procs, Finished(p)  PROVE Exclusive'
  <2>1. ReqMoved(p, "done") /\ op' = op /\ lock' = lock /\ req[p].step = "rmdir"
    BY <1>6 DEF Finished, pkiState
  <2> QED
    BY <2>1, <1>d DEF ReqMoved
<1>7. ASSUME NEW p \in Procs, NEW st \in Under, Entered(p, st)  PROVE Exclusive'
  <2>1. /\ ReqMoved(p, st) /\ op' = op /\ lock' = [lock EXCEPT ![Cn(p)] = p]
        /\ lock[Cn(p)] = None /\ req[p].step = "wait"
        /\ st \notin {"issuing", "revoking"}
    BY <1>7 DEF Entered, pkiState
  <2>2. Cn(p) \in CNs
    BY <2>1 DEF UserTyped
  <2>3. \A q \in Procs : req'[q].step \in Under => lock'[req'[q].cn] = q
    BY <2>1, <2>2, <1>l, UserFacts DEF ReqMoved, UserTyped
  <2> QED
    BY <2>1, <2>3 DEF ReqMoved
<1>8. ASSUME NEW p \in Procs, NEW st \in Under, Returned(p, st)  PROVE Exclusive'
  <2>1. /\ ReqMoved(p, st) /\ op' = Idle /\ lock' = lock /\ op.cn = Cn(p)
        /\ req[p].step \in {"issuing", "revoking"} /\ st \notin {"issuing", "revoking"}
    BY <1>8 DEF Returned
  <2>2. \A q \in Procs : q # p => req[q].step \notin {"issuing", "revoking"}
    BY <2>1, <1>d
  <2> QED
    BY <2>1, <2>2, <1>i, <1>d DEF ReqMoved
<1>9. ASSUME NEW p \in Procs, NEW w \in Under, NEW k \in OpKinds, NEW f \in OpSteps,
             Called(p, w, k, f)
      PROVE  Exclusive'
  <2>1. /\ ReqMoved(p, w) /\ lock' = lock /\ op.kind = "none" /\ op'.cn = Cn(p) /\ op'.kind = k
        /\ req[p].step \in Under /\ Calls(w, k, f)
    BY <1>9, <1>d DEF Called
  <2>2. \A q \in Procs : req[q].step \notin {"issuing", "revoking"}
    BY <2>1
  <2> QED
    BY <2>1, <2>2, <1>d DEF ReqMoved, Calls
<1>10. CASE CaStep /\ UNCHANGED userVars
  BY <1>10 DEF CaStep, OpKept, userVars
<1>11. CASE Panel
  BY <1>11 DEF Panel
<1>12. CASE Died
  BY <1>12, <1>i, <1>d DEF Died
<1> QED
  BY <1>1, <1>2, <1>4, <1>5, <1>6, <1>7, <1>8, <1>9, <1>10, <1>11, <1>12 DEF Shape

LEMMA StepRemoved ==
  ASSUME UserTyped, Exclusive, Removed, Shape
  PROVE  Removed'
<1> USE DEF Removed, Cn
<1>i. IdleReq.step = "idle" /\ Idle.kind = "none"
  BY IdleReqFacts, IdleFacts
<1>1. ASSUME NEW p \in Procs, NEW st \in Under, Work(p, st)  PROVE Removed'
  BY <1>1 DEF Work, ReqMoved, pkiState, pkiFiles
<1>2. ASSUME NEW p \in Procs, Asked(p) \/ OpenedCert(p) \/ Answered(p)  PROVE Removed'
  <2>1. /\ req'[p].step # "rmdir" /\ \A q \in Procs : q # p => req'[q] = req[q]
        /\ op' = op /\ issued' = issued
    BY <1>2, <1>i DEF Asked, OpenedCert, Answered, OthersWait, pkiState, pkiFiles
  <2> QED
    BY <2>1
<1>3. ASSUME NEW p \in Procs, NEW st \in Under, Entered(p, st)  PROVE Removed'
  BY <1>3 DEF Entered, ReqMoved, pkiState, pkiFiles
<1>4. ASSUME NEW p \in Procs, Cleaned(p) \/ Finished(p)  PROVE Removed'
  BY <1>4 DEF Cleaned, Finished, ReqMoved, pkiState, pkiFiles
<1>5. ASSUME NEW p \in Procs, NEW st \in Under, Returned(p, st)  PROVE Removed'
  <2>1. /\ ReqMoved(p, st) /\ op' = Idle /\ issued' = issued
        /\ st = "rmdir" => req[p].step = "revoking" /\ op.step = "ok" /\ op.cn = Cn(p)
    BY <1>5 DEF Returned, pkiFiles
  <2>2. st = "rmdir" => issued[Cn(p)] = None
    BY <2>1 DEF Exclusive
  <2> QED
    BY <2>1, <2>2, <1>i DEF ReqMoved
<1>6. ASSUME NEW p \in Procs, NEW w \in Under, NEW k \in OpKinds, NEW f \in OpSteps,
             Called(p, w, k, f)
      PROVE  Removed'
  BY <1>6 DEF Called, Calls, ReqMoved, pkiFiles
<1>7. CASE CaStep /\ UNCHANGED userVars
  <2>1. req' = req /\ (op'.kind = "remove" => op.kind = "remove" /\ op'.cn = op.cn)
    BY <1>7 DEF userVars, CaStep, OpKept
  <2>2. CASE CertsKept
    BY <2>1, <2>2 DEF CertsKept, RemovedSteps
  <2>3. CASE CertAdded
    <3>1. PICK q \in Procs : req[q].step = "issuing" /\ op.cn = Cn(q)
      BY <2>3 DEF CertAdded, Exclusive
    <3>2. \A p \in Procs : req[p].step = "rmdir" => Cn(p) # op.cn /\ Cn(p) \in CNs
      BY <3>1, Alone DEF Under, UserTyped
    <3> QED
      BY <2>1, <2>3, <3>2 DEF CertAdded
  <2>4. CASE CertGone
    <3>1. \A p \in Procs : req[p].step = "rmdir" => Cn(p) \in CNs
      BY DEF UserTyped
    <3> QED
      BY <2>1, <2>4, <3>1 DEF CertGone
  <2> QED
    BY <1>7, <2>2, <2>3, <2>4 DEF CaStep
<1>8. CASE Panel
  BY <1>8 DEF Panel, pkiFiles
<1>9. CASE Died
  BY <1>9, <1>i DEF Died, pkiFiles
<1> QED
  BY <1>1, <1>2, <1>3, <1>4, <1>5, <1>6, <1>7, <1>8, <1>9 DEF Shape

LEMMA StepPushes ==
  ASSUME UserTyped, Exclusive, Pushes, Shape
  PROVE  Pushes'
<1> USE DEF Pushes, Cn
<1>i. IdleReq.step = "idle"
  BY IdleReqFacts
<1>u. {"issuing", "revoking", "rmdir"} \subseteq Under
  BY DEF Under
<1>1. ASSUME NEW p \in Procs, NEW st \in Under, Work(p, st)  PROVE Pushes'
  <2>1. ReqMoved(p, st) /\ op' = op /\ req[p].step \in Under /\ st # "revoking" /\ st \in Under
    BY <1>1 DEF Work, pkiState
  <2>2. ASSUME NEW c \in CNs, stored'[c]  PROVE folder'[c] # None /\ folder'[c].cert
    <3>1. CASE stored[c]
      <4>1. folder[c] # None /\ folder[c].cert
        BY <3>1
      <4>2. folder' = folder \/ DirWritten(Cn(p))
        BY <1>1 DEF Work
      <4> QED
        BY <4>1, <4>2 DEF DirWritten
    <3>2. CASE ~stored[c]
      BY <1>1, <2>2, <3>2 DEF Work
    <3> QED
      BY <3>1, <3>2
  <2>3. ASSUME NEW q \in Procs, q # p, req[q].step \in {"rmdir", "revoking"}, ~stored[Cn(q)]
        PROVE  ~stored'[Cn(q)]
    <3>1. Cn(q) # Cn(p) /\ Cn(q) \in CNs
      BY <2>1, <2>3, <1>u, Alone DEF UserTyped
    <3> QED
      BY <1>1, <2>3, <3>1 DEF Work
  <2>4. ASSUME st = "rmdir"  PROVE ~stored'[Cn(p)]
    <3>1. Cn(p) \in CNs /\ stored' = stored /\ (folder[Cn(p)] # None => ~folder[Cn(p)].cert)
      BY <1>1, <2>4 DEF Work, UserTyped, Under
    <3> QED
      BY <3>1
  <2> QED
    BY <2>1, <2>2, <2>3, <2>4 DEF ReqMoved
<1>2. ASSUME NEW p \in Procs, Asked(p) \/ OpenedCert(p) \/ Answered(p)  PROVE Pushes'
  <2>1. /\ req'[p].step \notin {"rmdir", "revoking"}
        /\ \A q \in Procs : q # p => req'[q] = req[q]
        /\ op' = op /\ stored' = stored /\ folder' = folder
    BY <1>2, <1>i DEF Asked, OpenedCert, Answered, OthersWait, pkiState, StillUser
  <2> QED
    BY <2>1
<1>3. ASSUME NEW p \in Procs, NEW st \in Under, Entered(p, st)  PROVE Pushes'
  BY <1>3 DEF Entered, ReqMoved, pkiState, StillUser
<1>4. ASSUME NEW p \in Procs, Cleaned(p) \/ Finished(p)  PROVE Pushes'
  <2>1. /\ \A q \in Procs : \/ req'[q] = req[q]
                            \/ req'[q].step = "done"
        /\ op' = op /\ stored' = stored
    BY <1>4 DEF Cleaned, Finished, ReqMoved, pkiState
  <2>2. Cn(p) \in CNs /\ ~stored[Cn(p)]
    BY <1>4 DEF Cleaned, Finished, UserTyped
  <2>3. \A c \in CNs : c # Cn(p) => folder'[c] = folder[c]
    BY <1>4 DEF Cleaned, Finished, UserTyped
  <2> QED
    BY <2>1, <2>2, <2>3
<1>5. ASSUME NEW p \in Procs, NEW st \in Under, Returned(p, st)  PROVE Pushes'
  <2>1. /\ ReqMoved(p, st) /\ stored' = stored /\ folder' = folder /\ op.cn = Cn(p)
        /\ st = "rmdir" => req[p].step = "revoking" /\ op.step = "ok"
        /\ st # "revoking" /\ req[p].step \in {"issuing", "revoking"}
    BY <1>5 DEF Returned, StillUser
  <2>2. \A q \in Procs : q # p => req[q].step # "revoking"
    BY <2>1, <1>u, Alone DEF Exclusive
  <2> QED
    BY <2>1, <2>2 DEF ReqMoved
<1>6. ASSUME NEW p \in Procs, NEW w \in Under, NEW k \in OpKinds, NEW f \in OpSteps,
             Called(p, w, k, f)
      PROVE  Pushes'
  <2>1. /\ ReqMoved(p, w) /\ stored' = stored /\ folder' = folder /\ op.kind = "none"
        /\ w # "rmdir" /\ req[p].step \in {"material", "revoke"}
        /\ w = "revoking" /\ op'.step # "err" => ~folder[Cn(p)].cert
    BY <1>6 DEF Called, Calls, StillUser
  <2>2. \A q \in Procs : req[q].step # "revoking"
    BY <2>1 DEF Exclusive
  <2>3. Cn(p) \in CNs
    BY <2>1 DEF UserTyped
  <2> QED
    BY <2>1, <2>2, <2>3 DEF ReqMoved
<1>7. CASE CaStep /\ UNCHANGED userVars
  BY <1>7 DEF CaStep, OpKept, userVars
<1>8. CASE Panel
  <2>1. \A q \in Procs : req[q].step # "revoking"
    BY <1>8 DEF Panel, Exclusive
  <2> QED
    BY <1>8, <2>1 DEF Panel, StillUser
<1>9. CASE Died
  BY <1>9, <1>i DEF Died, StillUser
<1> QED
  BY <1>1, <1>2, <1>3, <1>4, <1>5, <1>6, <1>7, <1>8, <1>9 DEF Shape
-----------------------------------------------------------------------------
(* The files a request may have open, and what was handed out. *)

LEMMA SameFile ==
  ASSUME NEW g \in GenType, NEW c
  PROVE  /\ g.path = "folder" =>
              (SameGeneration(g, c) <=> folder[c] # None /\ folder[c].inode = g.inode)
         /\ g.path = "cert" =>
              (SameGeneration(g, c) <=> issued[c] # None /\ issued[c].serial = g.inode)
         /\ g.path = "folder" =>
              (SameGeneration(g, c)' <=> folder'[c] # None /\ folder'[c].inode = g.inode)
         /\ g.path = "cert" =>
              (SameGeneration(g, c)' <=> issued'[c] # None /\ issued'[c].serial = g.inode)
         /\ g.path \in {"folder", "cert"} /\ g.inode \in Nat /\ g # None
<1>1. g # None /\ g.path \in {"folder", "cert"} /\ g.inode \in Nat
  BY UserFacts DEF GenType
<1> QED
  BY <1>1 DEF SameGeneration

\* A file that is gone does not come back, and while it is there nobody is
\* deleted.
NoReturn ==
    \A g \in GenType, c \in CNs : KnownGen(g) =>
        /\ KnownGen(g)'
        /\ SameGeneration(g, c)' => SameGeneration(g, c) /\ deletions'[c] = deletions[c]

\* A file that goes leaves nothing that is not on the CRL.
GoesListed ==
    \A g \in GenType, c \in CNs : SameGeneration(g, c) /\ ~SameGeneration(g, c)'
        => Handed(c) \subseteq OnCrl

FilesKnown ==
    /\ \A cn \in CNs : folder[cn] # None => folder[cn].inode <= made
    /\ \A cn \in CNs : issued[cn] # None =>
         issued[cn].serial \in Serials /\ signed[issued[cn].serial] > 0

World == NoReturn /\ GoesListed /\ FilesKnown'

\* What is handed out stays so, and so does what is on the CRL.
Grows ==
    /\ \A c \in CNs : Handed(c) \subseteq Handed(c)'
    /\ crl' # None /\ OnCrl \subseteq OnCrl'

LEMMA HandedListed ==
  ASSUME PkiInv, crl # None, NEW c \in CNs, issued[c] = None, ~stored[c]
  PROVE  Handed(c) \subseteq OnCrl
<1>1. LeftRevoked
  BY DEF PkiInv, Tracked
<1> QED
  BY <1>1 DEF LeftRevoked, TreeHas, Handed, OnCrl

LEMMA StepGrows ==
  ASSUME UserTyped, crl # None, Shape
  PROVE  Grows
<1>1. (\A c \in CNs : stored[c] => stored'[c]) /\ (Recorded \/ UNCHANGED <<signed, index, crl>>)
  <2>1. ASSUME NEW p \in Procs, NEW st \in Under, Work(p, st)
        PROVE  (\A c \in CNs : stored[c] => stored'[c]) /\ UNCHANGED <<signed, index, crl>>
    BY <2>1 DEF Work, pkiState, pkiFiles
  <2>2. ASSUME \/ \E p \in Procs : Asked(p) \/ OpenedCert(p) \/ Answered(p) \/ Cleaned(p) \/ Finished(p)
               \/ \E p \in Procs, st \in Under : Entered(p, st) \/ Returned(p, st)
               \/ \E p \in Procs, w \in Under, k \in OpKinds, f \in OpSteps : Called(p, w, k, f)
               \/ Panel \/ Died
        PROVE  UNCHANGED <<stored, signed, index, crl>>
    BY <2>2 DEF Asked, OpenedCert, Answered, Cleaned, Finished, Entered, Returned, Called, Panel,
                Died, StillUser, pkiState, pkiFiles
  <2>3. CASE CaStep /\ UNCHANGED userVars
    BY <2>3 DEF CaStep, userVars
  <2> QED
    BY <2>1, <2>2, <2>3 DEF Shape
<1>2. /\ \A s \in Serials : signed[s] > 0 => signed'[s] > 0
      /\ \A s \in Serials : index[s] # None => index'[s] # None /\ index'[s].cn = index[s].cn
      /\ crl' # None /\ crl.entries \subseteq crl'.entries
  BY <1>1 DEF Recorded
<1>3. ASSUME NEW c \in CNs, NEW s \in Handed(c)  PROVE s \in Handed(c)'
  <2>1. CASE s \in Serials /\ signed[s] > 0 /\ index[s] # None /\ index[s].cn = c
    BY <2>1, <1>2 DEF Handed
  <2>2. CASE stored[c] /\ s = Foreign
    <3>1. stored'[c]
      BY <2>2, <1>1
    <3> QED
      BY <2>2, <3>1 DEF Handed
  <2> QED
    BY <1>3, <2>1, <2>2 DEF Handed
<1> QED
  BY <1>2, <1>3 DEF Grows, OnCrl

\* The files stay what they are.
LEMMA StillWorld ==
  ASSUME FilesKnown, UNCHANGED <<folder, made, issued, signed, deletions>>
  PROVE  World
BY DEF FilesKnown, World, NoReturn, GoesListed, KnownGen, SameGeneration

\* At most a folder is written, which is a new one where there was none.
LEMMA WritesWorld ==
  ASSUME UserTyped, FilesKnown, NEW cn \in CNs, UNCHANGED <<issued, signed, deletions>>,
         made' \in Nat, made <= made',
         folder' \in [CNs -> FolderType \union {None}],
         \A c \in CNs : c # cn => folder'[c] = folder[c],
         folder[cn] # None => folder'[cn] # None /\ folder'[cn].inode = folder[cn].inode,
         folder[cn] = None /\ folder'[cn] # None =>
            made' = made + 1 /\ folder'[cn].inode = made + 1
  PROVE  World
<1>0. made \in Nat /\ \A c \in CNs : folder[c] # None => folder[c].inode \in Nat
  BY DEF UserTyped, FolderType
<1>1. FilesKnown'
  BY <1>0 DEF FilesKnown
<1>2. ASSUME NEW g \in GenType, KnownGen(g)  PROVE KnownGen(g)'
  BY <1>0, <1>2, SameFile DEF KnownGen
<1>3. ASSUME NEW g \in GenType, NEW c \in CNs, KnownGen(g), SameGeneration(g, c)'
      PROVE  SameGeneration(g, c)
  <2>1. CASE g.path = "folder"
    <3>1. g.inode <= made /\ g.inode \in Nat /\ folder'[c] # None /\ folder'[c].inode = g.inode
      BY <1>3, <2>1, SameFile DEF KnownGen
    <3>2. folder[c] # None /\ folder[c].inode = g.inode
      BY <3>1, <1>0
    <3> QED
      BY <2>1, <3>2, SameFile
  <2>2. CASE g.path = "cert"
    BY <1>3, <2>2, SameFile
  <2> QED
    BY <2>1, <2>2, SameFile
<1>4. ASSUME NEW g \in GenType, NEW c \in CNs, SameGeneration(g, c)
      PROVE  SameGeneration(g, c)'
  <2>1. CASE g.path = "folder"
    <3>1. folder'[c] # None /\ folder'[c].inode = g.inode
      BY <1>4, <2>1, SameFile
    <3> QED
      BY <2>1, <3>1, SameFile
  <2>2. CASE g.path = "cert"
    BY <1>4, <2>2, SameFile
  <2> QED
    BY <2>1, <2>2, SameFile
<1> QED
  BY <1>1, <1>2, <1>3, <1>4 DEF World, NoReturn, GoesListed

LEMMA FinishedWorld ==
  ASSUME PkiInv, UserTyped, crl # None, FilesKnown, NEW p \in Procs, Finished(p),
         issued[Cn(p)] = None, ~stored[Cn(p)]
  PROVE  World
<1>1. Cn(p) \in CNs /\ UNCHANGED <<issued, signed, made>>
  BY DEF Finished, UserTyped, pkiState, pkiFiles
<1>2. /\ folder'[Cn(p)] = None
      /\ \A c \in CNs : c # Cn(p) => folder'[c] = folder[c] /\ deletions'[c] = deletions[c]
  BY <1>1 DEF Finished, UserTyped
<1>3. FilesKnown'
  BY <1>1, <1>2 DEF FilesKnown
<1>4. ASSUME NEW g \in GenType, NEW c \in CNs, SameGeneration(g, c)'
      PROVE  SameGeneration(g, c) /\ deletions'[c] = deletions[c]
  <2>1. c # Cn(p)
    BY <1>1, <1>2, <1>4, SameFile
  <2> QED
    BY <1>1, <1>2, <1>4, <2>1, SameFile
<1>5. ASSUME NEW g \in GenType, NEW c \in CNs, SameGeneration(g, c), ~SameGeneration(g, c)'
      PROVE  Handed(c) \subseteq OnCrl
  <2>1. c = Cn(p)
    BY <1>1, <1>2, <1>5, SameFile
  <2> QED
    BY <1>1, <2>1, HandedListed
<1>6. ASSUME NEW g \in GenType, KnownGen(g)  PROVE KnownGen(g)'
  BY <1>1, <1>6 DEF KnownGen
<1> QED
  BY <1>3, <1>4, <1>5, <1>6 DEF World, NoReturn, GoesListed

LEMMA CaStepWorld ==
  ASSUME PkiInv, UserTyped, Exclusive, Pushes, crl # None, FilesKnown, CaStep, UNCHANGED userVars
  PROVE  World
<1>0. UNCHANGED <<folder, made, deletions, stored, req>> /\ Recorded
  BY DEF userVars, CaStep
<1>1. ASSUME NEW g \in GenType, KnownGen(g)  PROVE KnownGen(g)'
  BY <1>0, <1>1 DEF KnownGen, Recorded
<1>2. CASE CertsKept
  <2>1. FilesKnown'
    BY <1>0, <1>2 DEF FilesKnown, Recorded, CertsKept
  <2>2. ASSUME NEW g \in GenType, NEW c \in CNs
        PROVE  SameGeneration(g, c)' <=> SameGeneration(g, c)
    BY <1>0, <1>2 DEF SameGeneration, CertsKept
  <2> QED
    BY <1>0, <1>1, <2>1, <2>2 DEF World, NoReturn, GoesListed
<1>3. CASE CertAdded
  <2>1. FilesKnown'
    BY <1>0, <1>3 DEF FilesKnown, Recorded, CertAdded
  <2>2. ASSUME NEW g \in GenType, NEW c \in CNs, KnownGen(g), SameGeneration(g, c)'
        PROVE  SameGeneration(g, c)
    <3>1. CASE g.path = "folder"
      BY <1>0, <2>2, <3>1, SameFile
    <3>2. CASE g.path = "cert"
      <4>1. /\ g.inode \in Serials /\ signed[g.inode] > 0
            /\ issued'[c] # None /\ issued'[c].serial = g.inode
        BY <2>2, <3>2, SameFile DEF KnownGen
      <4>2. c # op.cn
        BY <1>3, <4>1 DEF CertAdded
      <4> QED
        BY <1>3, <3>2, <4>1, <4>2, SameFile DEF CertAdded
    <3> QED
      BY <3>1, <3>2, SameFile
  <2>3. ASSUME NEW g \in GenType, NEW c \in CNs, SameGeneration(g, c)
        PROVE  SameGeneration(g, c)'
    <3>1. CASE g.path = "folder"
      BY <1>0, <2>3, <3>1, SameFile
    <3>2. CASE g.path = "cert"
      BY <1>3, <2>3, <3>2, SameFile DEF CertAdded
    <3> QED
      BY <3>1, <3>2, SameFile
  <2> QED
    BY <1>0, <1>1, <2>1, <2>2, <2>3 DEF World, NoReturn, GoesListed
<1>4. CASE CertGone
  <2>1. FilesKnown'
    BY <1>0, <1>4 DEF FilesKnown, Recorded, CertGone
  <2>2. ASSUME NEW g \in GenType, NEW c \in CNs, SameGeneration(g, c)'
        PROVE  SameGeneration(g, c)
    <3>1. CASE g.path = "folder"
      BY <1>0, <2>2, <3>1, SameFile
    <3>2. CASE g.path = "cert"
      BY <1>4, <2>2, <3>2, SameFile DEF CertGone
    <3> QED
      BY <3>1, <3>2, SameFile
  <2>3. ASSUME NEW g \in GenType, NEW c \in CNs, SameGeneration(g, c), ~SameGeneration(g, c)'
        PROVE  Handed(c) \subseteq OnCrl
    <3>1. c = op.cn
      BY <1>0, <1>4, <2>3, SameFile DEF CertGone
    <3>2. RowsOf(op.cn) \subseteq OnCrl
      BY <1>4 DEF CertGone
    <3>3. PICK p \in Procs : req[p].step = "revoking" /\ op.cn = Cn(p)
      BY <1>4 DEF CertGone, Exclusive
    <3>4. ~stored[c]
      BY <1>4, <3>1, <3>3 DEF Pushes, CertGone
    <3> QED
      BY <3>1, <3>2, <3>4 DEF Handed, RowsOf
  <2> QED
    BY <1>0, <1>1, <2>1, <2>2, <2>3 DEF World, NoReturn, GoesListed
<1> QED
  BY <1>2, <1>3, <1>4 DEF CaStep

LEMMA StepWorld ==
  ASSUME PkiInv, UserTyped, Exclusive, Removed, Pushes, FilesKnown, crl # None, Shape
  PROVE  World
<1>1. ASSUME NEW p \in Procs, NEW st \in Under, Work(p, st)  PROVE World
  <2>1. /\ Cn(p) \in CNs /\ UNCHANGED <<issued, signed, deletions>>
        /\ UNCHANGED <<folder, made>> \/ DirWritten(Cn(p))
    BY <1>1 DEF Work, UserTyped, Under, pkiState, pkiFiles
  <2>2. CASE UNCHANGED <<folder, made>>
    BY <2>1, <2>2, StillWorld
  <2>3. CASE DirWritten(Cn(p))
    <3> DEFINE cn == Cn(p)
    <3>1. /\ cn \in CNs /\ made' \in Nat /\ made <= made'
          /\ folder' \in [CNs -> FolderType \union {None}]
          /\ \A c \in CNs : c # cn => folder'[c] = folder[c]
          /\ folder[cn] # None => folder'[cn] # None /\ folder'[cn].inode = folder[cn].inode
          /\ folder[cn] = None /\ folder'[cn] # None =>
                made' = made + 1 /\ folder'[cn].inode = made + 1
      BY <2>1, <2>3 DEF DirWritten
    <3> HIDE DEF cn
    <3> QED
      BY <2>1, <3>1, WritesWorld
  <2> QED
    BY <2>1, <2>2, <2>3
<1>2. ASSUME \/ \E p \in Procs : Asked(p) \/ OpenedCert(p) \/ Answered(p)
             \/ \E p \in Procs, st \in Under : Entered(p, st) \/ Returned(p, st)
             \/ \E p \in Procs, w \in Under, k \in OpKinds, f \in OpSteps : Called(p, w, k, f)
             \/ Panel \/ Died
      PROVE  World
  <2>1. UNCHANGED <<folder, made, issued, signed, deletions>>
    BY <1>2 DEF Asked, OpenedCert, Answered, Entered, Returned, Called, Panel, Died, StillUser,
                pkiState, pkiFiles
  <2> QED
    BY <2>1, StillWorld
<1>3. ASSUME NEW p \in Procs, Cleaned(p)  PROVE World
  <2> DEFINE cn == Cn(p)
  <2>1. /\ cn \in CNs /\ made' \in Nat /\ made <= made' /\ UNCHANGED <<issued, signed, deletions>>
        /\ folder' \in [CNs -> FolderType \union {None}]
        /\ \A c \in CNs : c # cn => folder'[c] = folder[c]
        /\ folder[cn] # None /\ folder'[cn] # None /\ folder'[cn].inode = folder[cn].inode
    BY <1>3 DEF Cleaned, UserTyped, pkiState, pkiFiles
  <2> HIDE DEF cn
  <2> QED
    BY <2>1, WritesWorld
<1>4. ASSUME NEW p \in Procs, Finished(p)  PROVE World
  <2>1. issued[Cn(p)] = None /\ ~stored[Cn(p)]
    BY <1>4 DEF Finished, Removed, Pushes
  <2> QED
    BY <1>4, <2>1, FinishedWorld
<1>5. CASE CaStep /\ UNCHANGED userVars
  BY <1>5, CaStepWorld
<1> QED
  BY <1>1, <1>2, <1>3, <1>4, <1>5 DEF Shape
-----------------------------------------------------------------------------
(* What a request knows. *)

ReqKept(q) ==
    /\ req'[q].gen = req[q].gen /\ req'[q].cn = req[q].cn
    /\ req'[q].seen = req[q].seen /\ req'[q].began = req[q].began
    /\ req'[q].step # "idle" => req[q].step # "idle"

LEMMA ReqShape ==
  ASSUME UserTyped, Shape, NEW q \in Procs
  PROVE  ReqKept(q) \/ req'[q] = IdleReq \/ Asked(q) \/ OpenedCert(q)
<1>u. "idle" \notin Under
  BY DEF Under
<1>1. ASSUME NEW p \in Procs, NEW st \in Under, ReqMoved(p, st), req[p].step # "idle"
      PROVE  ReqKept(q)
  BY <1>1, <1>u DEF ReqMoved, ReqKept
<1>2. ASSUME NEW p \in Procs, NEW st \in Under,
             Work(p, st) \/ Entered(p, st) \/ Returned(p, st)
      PROVE  ReqKept(q)
  BY <1>1, <1>2, <1>u DEF Work, Entered, Returned
<1>3. ASSUME NEW p \in Procs, NEW w \in Under, NEW k \in OpKinds, NEW f \in OpSteps,
             Called(p, w, k, f)
      PROVE  ReqKept(q)
  BY <1>1, <1>3 DEF Called
<1>4. ASSUME NEW p \in Procs, Finished(p)  PROVE ReqKept(q)
  <2>1. "done" \in Under
    BY DEF Under
  <2> QED
    BY <2>1, <1>1, <1>4 DEF Finished
<1>5. ASSUME req'[q] = req[q]  PROVE ReqKept(q)
  BY <1>5 DEF ReqKept
<1>6. ASSUME NEW p \in Procs, Asked(p) \/ OpenedCert(p) \/ Answered(p) \/ Cleaned(p)
      PROVE  ReqKept(q) \/ req'[q] = IdleReq \/ Asked(q) \/ OpenedCert(q)
  BY <1>5, <1>6 DEF Asked, OpenedCert, Answered, Cleaned, OthersWait
<1>7. CASE UNCHANGED userVars \/ Panel
  BY <1>5, <1>7 DEF userVars, Panel
<1>8. CASE Died
  BY <1>8 DEF Died
<1> QED
  BY <1>2, <1>3, <1>4, <1>6, <1>7, <1>8 DEF Shape

LEMMA StepOpened ==
  ASSUME PkiInv, UserTyped, UserTyped', Exclusive, Removed, Pushes, Opened, Listed, Shape
  PROVE  Opened'
<1>f. FilesKnown /\ crl # None
  BY DEF Opened, FilesKnown, Listed
<1>w. NoReturn /\ GoesListed /\ FilesKnown' /\ Grows
  BY <1>f, StepWorld, StepGrows DEF World
<1>1. ASSUME NEW q \in Procs, NEW g \in GenType, NEW c \in CNs, g = req'[q].gen, c = req'[q].cn
      PROVE  /\ KnownGen(g)'
             /\ SameGeneration(g, c)' => deletions'[c] = req'[q].began
             /\ ~SameGeneration(g, c)' => req'[q].seen \subseteq OnCrl'
  <2>n. g # None
    BY UserFacts
  <2>1. CASE ReqKept(q)
    <3>1. g = req[q].gen /\ c = Cn(q) /\ req'[q].seen = req[q].seen /\ req'[q].began = req[q].began
      BY <1>1, <2>1 DEF ReqKept, Cn
    <3>2. /\ KnownGen(g)
          /\ SameGeneration(g, c) => deletions[c] = req[q].began
          /\ ~SameGeneration(g, c) => req[q].seen \subseteq OnCrl
      BY <2>n, <3>1 DEF Opened
    <3>3. req[q].seen \subseteq Handed(c)
      BY <2>n, <3>1 DEF UserTyped, Listed
    <3>4. OnCrl \subseteq OnCrl'
      BY <1>w DEF Grows
    <3>5. /\ KnownGen(g)'
          /\ SameGeneration(g, c)' => SameGeneration(g, c) /\ deletions'[c] = deletions[c]
      BY <3>2, <1>w DEF NoReturn
    <3>6. SameGeneration(g, c) /\ ~SameGeneration(g, c)' => Handed(c) \subseteq OnCrl
      BY <1>w DEF GoesListed
    <3> QED
      BY <3>1, <3>2, <3>3, <3>4, <3>5, <3>6
  <2>2. CASE req'[q] = IdleReq
    BY <1>1, <2>2, <2>n, IdleReqFacts
  <2>3. CASE Asked(q)
    <3>1. /\ folder[c] # None /\ g.path = "folder" /\ g.inode = folder[c].inode
          /\ req'[q].began = deletions[c]
          /\ UNCHANGED <<folder, made, deletions>>
      BY <1>1, <2>3, <2>n DEF Asked, StillUser
    <3>2. SameGeneration(g, c)'
      BY <3>1, SameFile
    <3>3. KnownGen(g)'
      BY <3>1, <1>w DEF KnownGen, FilesKnown
    <3> QED
      BY <3>1, <3>2, <3>3
  <2>4. CASE OpenedCert(q)
    <3>1. /\ issued[c] # None /\ g.path = "cert" /\ g.inode = issued[c].serial
          /\ req'[q].began = deletions[c]
          /\ UNCHANGED <<issued, signed, deletions>>
      BY <1>1, <2>4, <2>n DEF OpenedCert, StillUser, pkiState, pkiFiles, Cn
    <3>2. SameGeneration(g, c)'
      BY <3>1, SameFile
    <3>3. KnownGen(g)'
      BY <3>1, <1>w DEF KnownGen, FilesKnown
    <3> QED
      BY <3>1, <3>2, <3>3
  <2> QED
    BY <2>1, <2>2, <2>3, <2>4, ReqShape
<1>2. ASSUME NEW q \in Procs, req'[q].gen # None
      PROVE  req'[q].gen \in GenType /\ req'[q].cn \in CNs
  BY <1>2 DEF UserTyped, ReqType, Cn
<1>3. ASSUME NEW q \in Procs, req'[q].gen # None
      PROVE  /\ KnownGen(req[q].gen)'
             /\ SameGeneration(req[q].gen, Cn(q))' => deletions'[Cn(q)'] = req'[q].began
             /\ ~SameGeneration(req[q].gen, Cn(q))' => req'[q].seen \subseteq OnCrl'
  BY <1>1, <1>2, <1>3 DEF KnownGen, SameGeneration, Cn
<1> QED
  BY <1>3, <1>w DEF Opened, FilesKnown

LEMMA StepListed ==
  ASSUME UserTyped, Listed, Shape
  PROVE  Listed'
<1>1. Grows
  BY StepGrows DEF Listed
<1>2. ASSUME NEW q \in Procs, NEW c \in CNs, req'[q].step # "idle", c = req'[q].cn
      PROVE  req'[q].seen \subseteq Handed(c)'
  <2>1. Handed(c) \subseteq Handed(c)'
    BY <1>1 DEF Grows
  <2>2. req'[q].seen \subseteq Handed(c)
    <3>1. CASE ReqKept(q)
      BY <1>2, <3>1 DEF ReqKept, Listed, Cn
    <3>2. CASE req'[q] = IdleReq
      BY <1>2, <3>2, IdleReqFacts
    <3>3. CASE Asked(q)
      BY <1>2, <3>3 DEF Asked
    <3>4. CASE OpenedCert(q)
      BY <1>2, <3>4 DEF OpenedCert, Listed, Cn
    <3> QED
      BY <3>1, <3>2, <3>3, <3>4, ReqShape
  <2> QED
    BY <2>1, <2>2
<1>3. ASSUME NEW q \in Procs, req'[q].step # "idle"  PROVE req'[q].cn \in CNs
  BY <1>3, StepUserTyped DEF UserTyped, Cn
<1>4. ASSUME NEW q \in Procs, req'[q].step # "idle"
      PROVE  req'[q].seen \subseteq Handed(Cn(q))'
  BY <1>2, <1>3, <1>4 DEF Handed, Cn
<1>5. crl' # None
  BY <1>1 DEF Grows
<1> QED
  BY <1>4, <1>5 DEF Listed

\* A request goes on with the user it meant.
LEMMA StepRefused ==
  ASSUME UserTyped, Exclusive, Opened, StaleRequestIsRefused, Shape
  PROVE  StaleRequestIsRefused'
<1> USE DEF StaleRequestIsRefused, Cn
<1>u. /\ "idle" \notin Under /\ Under \subseteq Before \union Under
      /\ {"done", "rmdir", "issuing", "revoking", "material", "revoke"} \subseteq Under
      /\ \A q \in Procs : req[q].step \in Before \union Under
      /\ Before = {"idle", "opencert", "wait"}
  BY DEF Under, Before, UserTyped, ReqType
<1>1. ASSUME NEW p \in Procs, NEW st \in Under, Work(p, st)  PROVE StaleRequestIsRefused'
  <2>1. /\ ReqMoved(p, st) /\ deletions' = deletions
        /\ req[p].step \notin {"idle", "opencert", "wait", "done", "failed"}
    BY <1>1 DEF Work, Under
  <2> QED
    BY <2>1 DEF ReqMoved
<1>2. ASSUME NEW p \in Procs, Asked(p) \/ OpenedCert(p) \/ Answered(p)
      PROVE  StaleRequestIsRefused'
  <2>1. /\ req'[p].step \in {"idle", "opencert", "wait"} /\ deletions' = deletions
        /\ \A q \in Procs : q # p => req'[q] = req[q]
    BY <1>2, IdleReqFacts DEF Asked, OpenedCert, Answered, OthersWait, StillUser
  <2> QED
    BY <2>1
<1>3. ASSUME NEW p \in Procs, NEW st \in Under, Entered(p, st)  PROVE StaleRequestIsRefused'
  <2>1. /\ ReqMoved(p, st) /\ deletions' = deletions
        /\ SameGeneration(req[p].gen, Cn(p)) \/ st \in {"done", "failed"}
    BY <1>3 DEF Entered, StillUser
  <2>2. req[p].gen # None /\ st \notin {"done", "failed"} => deletions[Cn(p)] = req[p].began
    BY <2>1 DEF Opened
  <2> QED
    BY <2>1, <2>2 DEF ReqMoved
<1>4. ASSUME NEW p \in Procs, Finished(p)  PROVE StaleRequestIsRefused'
  <2>1. ReqMoved(p, "done") /\ req[p].step = "rmdir" /\ Cn(p) \in CNs
    BY <1>4 DEF Finished, UserTyped
  <2>2. \A c \in CNs : c # Cn(p) => deletions'[c] = deletions[c]
    BY <1>4, <2>1 DEF Finished, UserTyped
  <2>3. \A q \in Procs : q # p /\ req[q].step \in Under => Cn(q) # Cn(p) /\ Cn(q) \in CNs
    BY <2>1, <1>u, Alone DEF UserTyped
  <2>4. ASSUME NEW q \in Procs, req'[q].gen # None,
               req'[q].step \notin {"idle", "opencert", "wait", "done", "failed"}
        PROVE  deletions'[req'[q].cn] = req'[q].began
    <3>1. q # p /\ req'[q] = req[q]
      BY <2>1, <2>4 DEF ReqMoved
    <3>2. req[q].step \in Under
      BY <2>4, <3>1, <1>u
    <3> QED
      BY <2>2, <2>3, <2>4, <3>1, <3>2
  <2> QED
    BY <2>4
<1>5. ASSUME NEW p \in Procs, NEW st \in Under, Returned(p, st)  PROVE StaleRequestIsRefused'
  BY <1>5 DEF Returned, ReqMoved, StillUser
<1>6. ASSUME NEW p \in Procs, NEW w \in Under, NEW k \in OpKinds, NEW f \in OpSteps,
             Called(p, w, k, f)
      PROVE  StaleRequestIsRefused'
  BY <1>6 DEF Called, ReqMoved, StillUser
<1>7. CASE UNCHANGED userVars \/ Panel \/ \E p \in Procs : Cleaned(p)
  BY <1>7 DEF userVars, Panel, StillUser, Cleaned
<1>8. CASE Died
  BY <1>8, IdleReqFacts DEF Died
<1> QED
  BY <1>1, <1>2, <1>3, <1>4, <1>5, <1>6, <1>7, <1>8 DEF Shape

\* A deletion that is done leaves nothing behind.
LEMMA StepDeleted ==
  ASSUME PkiInv, UserTyped, Exclusive, Removed, Pushes, Opened, Listed, DeletedMeansRevoked,
         Shape
  PROVE  DeletedMeansRevoked'
<1>g. OnCrl \subseteq OnCrl'
  BY StepGrows DEF Listed, Grows
<1>k. ASSUME NEW q \in Procs, req'[q].kind = "delete", req'[q].step = "done"
      PROVE  req'[q].seen \subseteq OnCrl
  <2>s. ASSUME req'[q] = req[q]  PROVE req'[q].seen \subseteq OnCrl
    BY <1>k, <2>s DEF DeletedMeansRevoked
  <2>1. ASSUME NEW p \in Procs, NEW st \in Under, Work(p, st)
        PROVE  req'[q].seen \subseteq OnCrl
    <3>1. q # p /\ ReqMoved(p, st)
      BY <1>k, <2>1 DEF Work, ReqMoved
    <3> QED
      BY <3>1, <2>s DEF ReqMoved
  <2>2. ASSUME NEW p \in Procs, Asked(p) \/ OpenedCert(p) \/ Answered(p)
        PROVE  req'[q].seen \subseteq OnCrl
    BY <1>k, <2>2, <2>s, IdleReqFacts DEF Asked, OpenedCert, Answered, OthersWait
  <2>3. ASSUME NEW p \in Procs, NEW st \in Under, Entered(p, st)
        PROVE  req'[q].seen \subseteq OnCrl
    <3>1. CASE q # p
      BY <2>3, <3>1, <2>s DEF Entered, ReqMoved
    <3>2. CASE q = p
      <4>1. st = "done" /\ ~SameGeneration(req[q].gen, Cn(q)) /\ req'[q].seen = req[q].seen
        BY <1>k, <2>3, <3>2 DEF Entered, ReqMoved
      <4>2. req[q].gen # None
        BY <4>1 DEF SameGeneration
      <4> QED
        BY <4>1, <4>2 DEF Opened
    <3> QED
      BY <3>1, <3>2
  <2>4. ASSUME NEW p \in Procs, Finished(p)  PROVE req'[q].seen \subseteq OnCrl
    <3>1. CASE q # p
      BY <2>4, <3>1, <2>s DEF Finished, ReqMoved
    <3>2. CASE q = p
      <4>1. req[q].step = "rmdir" /\ req'[q].seen = req[q].seen
        BY <2>4, <3>2 DEF Finished, ReqMoved
      <4>2. Cn(q) \in CNs /\ issued[Cn(q)] = None /\ ~stored[Cn(q)]
        BY <4>1 DEF UserTyped, Removed, Pushes
      <4>3. Handed(Cn(q)) \subseteq OnCrl
        BY <4>2, HandedListed DEF Listed
      <4> QED
        BY <4>1, <4>3 DEF Listed
    <3> QED
      BY <3>1, <3>2
  <2>5. ASSUME NEW p \in Procs, NEW st \in Under, Returned(p, st)
        PROVE  req'[q].seen \subseteq OnCrl
    BY <1>k, <2>5, <2>s DEF Returned, ReqMoved
  <2>6. ASSUME NEW p \in Procs, NEW w \in Under, NEW k \in OpKinds, NEW f \in OpSteps,
               Called(p, w, k, f)
        PROVE  req'[q].seen \subseteq OnCrl
    BY <1>k, <2>6, <2>s DEF Called, Calls, ReqMoved
  <2>7. CASE UNCHANGED userVars \/ Panel \/ \E p \in Procs : Cleaned(p)
    BY <2>7, <2>s DEF userVars, Panel, Cleaned
  <2>8. CASE Died
    BY <1>k, <2>8, IdleReqFacts DEF Died
  <2> QED
    BY <2>1, <2>2, <2>3, <2>4, <2>5, <2>6, <2>7, <2>8 DEF Shape
<1> QED
  BY <1>g, <1>k DEF DeletedMeansRevoked
-----------------------------------------------------------------------------
(* Where the node starts. *)

LEMMA InitPki == UserInit => PkiInv
<1> SUFFICES ASSUME UserInit  PROVE PkiInv
  OBVIOUS
<1> DEFINE s2 == First + 1
<1>1. PICK u \in CNs \union {None} :
         /\ serial = IF u # None THEN s2 + 1 ELSE s2
         /\ index = [s \in Serials |->
              IF s = First THEN [cn |-> Server, status |-> "V"]
              ELSE IF u # None /\ s = s2 THEN [cn |-> u, status |-> "V"] ELSE None]
         /\ signed = [s \in Serials |-> IF u # None /\ s = s2 THEN 1 ELSE 0]
         /\ issued = [c \in CNs |->
              IF c = u THEN [serial |-> s2, key |-> s2, ca |-> 1] ELSE None]
         /\ key = [c \in CNs |-> IF c = u THEN s2 ELSE None]
  BY DEF UserInit
<1>2. /\ First \in Serials /\ s2 \in Serials /\ First # s2 /\ First \in Numbers
      /\ {s2, s2 + 1} \subseteq First..MaxSerial + 1 /\ First + 1 \in First..MaxCrl + 1
  BY PkiAssumption, RequestAssumption DEF Serials, Numbers, First
<1> HIDE DEF s2
<1>3. First \in Keys /\ s2 \in Keys /\ 1 \in CAs
  BY <1>2, ValueFacts
<1>4. /\ ca = 1 /\ caKey = 1 /\ crlnumber = First + 1 /\ op = Idle
      /\ crl = [ca |-> 1, number |-> First, entries |-> {}]
      /\ server = [cert |-> [serial |-> First, key |-> First, ca |-> 1], key |-> First]
  BY DEF UserInit
<1>5. crl \in Crl /\ server \in Pair
  <2>1. [serial |-> First, key |-> First, ca |-> 1] \in Cert
    BY <1>2, <1>3, CertIsCert
  <2> QED
    BY <1>2, <1>3, <1>4, <2>1 DEF Crl, Pair
<1>6. index \in [Serials -> Row \union {None}]
  <2>1. [cn |-> Server, status |-> "V"] \in Row /\ (u # None => [cn |-> u, status |-> "V"] \in Row)
    BY RowIsRow
  <2> QED
    BY <1>1, <2>1
<1>7. issued \in [CNs -> Cert \union {None}]
  <2>1. [serial |-> s2, key |-> s2, ca |-> 1] \in Cert
    BY <1>2, <1>3, CertIsCert
  <2> QED
    BY <1>1, <2>1
<1>8. Files
  <2>1. /\ serial \in First..MaxSerial + 1 /\ signed \in [Serials -> Nat]
        /\ key \in [CNs -> Keys \union {None}]
    BY <1>1, <1>2, <1>3
  <2> QED
    BY <1>2, <1>3, <1>4, <1>5, <1>6, <1>7, <2>1 DEF Files
<1>9. Typed
  BY <1>4, <1>8, IdleFacts DEF Typed, StepsOf, Ready
<1>10. ASSUME NEW s \in Serials
       PROVE  signed[s] <= 1 /\ (signed[s] > 0 => index[s] # None /\ TreeHas(s))
  <2>1. CASE u # None /\ s = s2
    <3>1. u \in CNs /\ index[s] = [cn |-> u, status |-> "V"] /\ signed[s] = 1
      BY <1>1, <1>2, <2>1
    <3>2. issued[u] = [serial |-> s2, key |-> s2, ca |-> 1]
      BY <1>1, <3>1
    <3>3. index[s] # None /\ issued[u] # None
      <4>1. [cn |-> u, status |-> "V"] \in Row
        BY <3>1, RowIsRow
      <4>2. [serial |-> s2, key |-> s2, ca |-> 1] \in Cert
        BY <1>2, <1>3, CertIsCert
      <4> QED
        BY <3>1, <3>2, <4>1, <4>2, NoneFacts
    <3> QED
      BY <2>1, <3>1, <3>2, <3>3 DEF TreeHas
  <2>2. CASE ~(u # None /\ s = s2)
    BY <1>1, <2>2
  <2> QED
    BY <2>1, <2>2
<1>11. Tracked
  BY <1>4, <1>10, IdleFacts
  DEF Tracked, UsedOnce, NothingReplaced, LeftRevoked, Removing, CrlFollows
<1>12. Guarded
  BY <1>4, IdleFacts DEF Guarded, RefusedPushIsUndone
<1> QED
  BY <1>9, <1>11, <1>12 DEF PkiInv

LEMMA InitUser == UserInit => UserInv
<1> SUFFICES ASSUME UserInit  PROVE UserInv
  OBVIOUS
<1>p. PkiInv
  BY InitPki
<1>u. PICK u \in CNs \union {None} :
         /\ signed = [s \in Serials |-> IF u # None /\ s = First + 1 THEN 1 ELSE 0]
         /\ issued = [c \in CNs |->
              IF c = u THEN [serial |-> First + 1, key |-> First + 1, ca |-> 1] ELSE None]
         /\ folder = [c \in CNs |->
              IF c = u THEN [NewFolder(1) EXCEPT !.ovpn = First + 1] ELSE None]
  BY DEF UserInit
<1>s. First + 1 \in Serials
  BY PkiAssumption, RequestAssumption DEF Serials, First
<1>f. /\ [NewFolder(1) EXCEPT !.ovpn = First + 1] \in FolderType
      /\ [NewFolder(1) EXCEPT !.ovpn = First + 1].inode = 1
  BY <1>s DEF NewFolder, FolderType
<1>r. /\ req = [p \in Procs |-> IdleReq] /\ made = 1 /\ op = Idle
      /\ lock = [c \in CNs |-> None] /\ deletions = [c \in CNs |-> 0]
      /\ closing = [c \in CNs |-> FALSE] /\ stored = [c \in CNs |-> FALSE]
  BY DEF UserInit
<1>q. /\ "idle" \notin Under /\ "idle" \in Before
  BY DEF Under, Before
<1>1. UserTyped
  <2>1. folder \in [CNs -> FolderType \union {None}]
    BY <1>u, <1>f
  <2>2. req \in [Procs -> ReqType]
    BY <1>r, IdleReqFacts
  <2> QED
    BY <2>1, <2>2, <1>r, IdleReqFacts DEF UserTyped
<1>2. Exclusive
  BY <1>r, <1>q, IdleReqFacts, IdleFacts DEF Exclusive
<1>3. Removed
  BY <1>r, IdleReqFacts, IdleFacts DEF Removed
<1>4. Pushes
  BY <1>r, IdleReqFacts DEF Pushes
<1>5. Opened
  <2>1. ASSUME NEW c \in CNs, folder[c] # None  PROVE folder[c].inode <= made
    BY <1>u, <1>f, <1>r, <2>1
  <2>2. ASSUME NEW c \in CNs, issued[c] # None
        PROVE  issued[c].serial \in Serials /\ signed[issued[c].serial] > 0
    <3>1. c = u /\ u # None /\ issued[c].serial = First + 1
      BY <1>u, <2>2, ValueFacts
    <3> QED
      BY <1>u, <1>s, <3>1
  <2> QED
    BY <2>1, <2>2, <1>r, IdleReqFacts DEF Opened
<1>6. Listed
  <2>1. crl # None
    <3>1. First \in Numbers /\ 1 \in CAs
      BY PkiAssumption, ValueFacts DEF Numbers, First
    <3>2. [ca |-> 1, number |-> First, entries |-> {}] \in Crl
      BY <3>1 DEF Crl
    <3> QED
      BY <3>2, NoneFacts DEF UserInit
  <2> QED
    BY <2>1, <1>r, IdleReqFacts DEF Listed
<1>7. StaleRequestIsRefused /\ DeletedMeansRevoked
  BY <1>r, IdleReqFacts DEF StaleRequestIsRefused, DeletedMeansRevoked
<1> QED
  BY <1>p, <1>1, <1>2, <1>3, <1>4, <1>5, <1>6, <1>7 DEF UserInv

-----------------------------------------------------------------------------
(* The results. *)

LEMMA StepUserInv == UserInv /\ [UserNext]_vars => UserInv'
<1> SUFFICES ASSUME UserInv, [UserNext]_vars  PROVE UserInv'
  OBVIOUS
<1> USE DEF UserInv
<1>1. PkiInv'
  BY StepOfCa, StepPkiInv
<1>2. CASE UserNext
  <2>1. Shape
    BY <1>2, StepShape
  <2>2. UserTyped'
    BY <2>1, StepUserTyped
  <2>3. Exclusive' /\ Removed' /\ Pushes'
    BY <2>1, StepExclusive, StepRemoved, StepPushes
  <2>4. Opened' /\ Listed'
    BY <2>1, <2>2, StepOpened, StepListed
  <2>5. StaleRequestIsRefused' /\ DeletedMeansRevoked'
    BY <2>1, StepRefused, StepDeleted
  <2> QED
    BY <1>1, <2>2, <2>3, <2>4, <2>5
<1>3. CASE UNCHANGED vars
  <2>1. UNCHANGED <<folder, lock, req, made, deletions, closing, stored, op, issued, signed,
                    index, crl>>
    BY <1>3 DEF vars, userVars, pkiVars, pkiFiles
  <2>2. UserTyped' /\ Exclusive' /\ Removed' /\ Pushes'
    BY <2>1 DEF UserTyped, Exclusive, Removed, Pushes, Cn
  <2>3. Opened'
    BY <2>1 DEF Opened, KnownGen, SameGeneration, OnCrl, Cn
  <2>4. Listed'
    BY <2>1 DEF Listed, Handed, Cn
  <2>5. StaleRequestIsRefused' /\ DeletedMeansRevoked'
    BY <2>1 DEF StaleRequestIsRefused, DeletedMeansRevoked, OnCrl, Cn
  <2> QED
    BY <1>1, <2>2, <2>3, <2>4, <2>5
<1> QED
  BY <1>2, <1>3

\* The inductive invariant of the users on top of the CA.
THEOREM UserInvAlways == UserSpec => []UserInv
BY InitUser, StepUserInv, PTL DEF UserSpec

\* A request is never carried out on a user who came after a deletion
\* (withUserLifecycle).
THEOREM StaleIsRefused == UserSpec => []StaleRequestIsRefused
<1>1. UserInv => StaleRequestIsRefused
  BY DEF UserInv
<1> QED
  BY <1>1, UserInvAlways, PTL

\* A deletion that is answered with success has revoked every certificate of
\* the user that was there when it was asked (deleteUserLocked, DeleteUser).
THEOREM DeletionRevokes == UserSpec => []DeletedMeansRevoked
<1>1. UserInv => DeletedMeansRevoked
  BY DEF UserInv
<1> QED
  BY <1>1, UserInvAlways, PTL

\* With users, requests and a panel that replaces the CA at any moment, the CA
\* keeps its own promises (nextSerial, RemoveClientMaterial).
THEOREM CaKeepsItsPromises == UserSpec => [](SerialsAreUnique /\ LeavesTreeRevoked)
<1>1. UserInv => SerialsAreUnique
  BY DEF UserInv, PkiInv, Tracked, UsedOnce, SerialsAreUnique
<1>2. UserInv => LeavesTreeRevoked
  BY DEF UserInv, PkiInv, Tracked, LeftRevoked, TreeHas, LeavesTreeRevoked
<1> QED
  BY <1>1, <1>2, UserInvAlways, PTL

-----------------------------------------------------------------------------
(* The tombstone. *)

\* The folder of cn is written and the flag in it kept.
LEMMA WriteKeepsTombstone ==
  ASSUME UserTyped, TombstoneStaysDisabled, NEW cn \in CNs, NEW dir \in FolderType,
         dir.disabled = UserDir(cn).disabled, WriteDir(cn, dir), closing' = closing
  PROVE  TombstoneStaysDisabled'
<1>1. folder'[cn] = dir /\ \A c \in CNs : c # cn => folder'[c] = folder[c]
  BY DEF WriteDir, UserTyped
<1>2. dir # None /\ (folder[cn] # None => UserDir(cn) = folder[cn])
  BY UserFacts, UserDirFacts
<1>3. ASSUME NEW c \in CNs, closing'[c]  PROVE folder'[c] # None /\ folder'[c].disabled
  <2>1. folder[c] # None /\ folder[c].disabled
    BY <1>3 DEF TombstoneStaysDisabled
  <2> QED
    BY <1>1, <1>2, <2>1
<1> QED
  BY <1>3 DEF TombstoneStaysDisabled

\* The flag is written: a deletion sets it, and who clears it is named.
LEMMA FlagKeepsTombstone ==
  ASSUME UserTyped, TombstoneStaysDisabled, NEW p \in Procs, Cn(p) \in CNs,
         NEW flag \in {None, TRUE, FALSE}, SetFlag(p, flag)
  PROVE  TombstoneStaysDisabled'
<1>1. /\ DirWritten(Cn(p))
      /\ folder'[Cn(p)].disabled = IF flag = None THEN UserDir(Cn(p)).disabled ELSE flag
  BY FlagSet
<1>2. ASSUME NEW c \in CNs, c # Cn(p), closing'[c]
      PROVE  folder'[c] # None /\ folder'[c].disabled
  <2>1. closing[c] /\ folder'[c] = folder[c]
    BY <1>1, <1>2 DEF SetFlag, UserTyped, DirWritten
  <2> QED
    BY <2>1 DEF TombstoneStaysDisabled
<1>3. ASSUME closing'[Cn(p)]
      PROVE  folder'[Cn(p)] # None /\ folder'[Cn(p)].disabled
  <2>1. closing'[Cn(p)] = IF flag = None THEN closing[Cn(p)]
                          ELSE flag /\ (closing[Cn(p)] \/ req[p].kind = "delete")
    BY DEF SetFlag, UserTyped
  <2>2. CASE flag = None
    <3>1. folder[Cn(p)] # None /\ folder[Cn(p)].disabled
      BY <1>3, <2>1, <2>2 DEF TombstoneStaysDisabled
    <3>2. UserDir(Cn(p)) = folder[Cn(p)]
      BY <3>1, UserDirFacts
    <3> QED
      BY <1>1, <2>2, <3>1, <3>2 DEF DirWritten
  <2>3. CASE flag # None
    <3>1. flag
      BY <1>3, <2>1, <2>3
    <3> QED
      BY <1>1, <2>3, <3>1 DEF DirWritten
  <2> QED
    BY <2>2, <2>3
<1> QED
  BY <1>2, <1>3 DEF TombstoneStaysDisabled

LEMMA RemovalKeepsTombstone ==
  ASSUME UserTyped, TombstoneStaysDisabled, NEW p \in Procs, RemoveSome(p) \/ RemoveFolder(p)
  PROVE  TombstoneStaysDisabled'
<1>1. Cn(p) \in CNs
  BY DEF RemoveSome, RemoveFolder, At, UserTyped
<1>2. \A c \in CNs : c # Cn(p) => folder'[c] = folder[c] /\ closing'[c] = closing[c]
  BY <1>1 DEF RemoveSome, RemoveFolder, UserTyped
<1>3. ASSUME closing'[Cn(p)]
      PROVE  folder'[Cn(p)] # None /\ folder'[Cn(p)].disabled
  <2> DEFINE dir == folder[Cn(p)]
  <2>1. CASE closing'[Cn(p)] = FALSE
    BY <1>3, <2>1
  <2>2. CASE RemoveSome(p) /\ UNCHANGED closing
    <3>1. dir \in FolderType /\ dir.disabled
      BY <1>1, <1>3, <2>2 DEF TombstoneStaysDisabled, UserTyped
    <3>2. CASE folder' = [folder EXCEPT ![Cn(p)].ovpn = None]
      <4>1. folder'[Cn(p)] = [dir EXCEPT !.ovpn = None]
        BY <1>1, <3>2 DEF UserTyped
      <4>2. [dir EXCEPT !.ovpn = None] \in FolderType
            /\ [dir EXCEPT !.ovpn = None].disabled = dir.disabled
        BY <3>1 DEF FolderType
      <4> QED
        BY <3>1, <4>1, <4>2, UserFacts
    <3>3. CASE folder' = [folder EXCEPT ![Cn(p)].key = FALSE]
      <4>1. folder'[Cn(p)] = [dir EXCEPT !.key = FALSE]
        BY <1>1, <3>3 DEF UserTyped
      <4>2. [dir EXCEPT !.key = FALSE] \in FolderType
            /\ [dir EXCEPT !.key = FALSE].disabled = dir.disabled
        BY <3>1 DEF FolderType
      <4> QED
        BY <3>1, <4>1, <4>2, UserFacts
    <3>4. CASE closing' = [closing EXCEPT ![Cn(p)] = FALSE]
      BY <1>1, <1>3, <3>4 DEF UserTyped
    <3> QED
      BY <2>2, <3>2, <3>3, <3>4 DEF RemoveSome
  <2> QED
    BY <1>1, <2>1, <2>2 DEF RemoveSome, RemoveFolder, UserTyped
<1> QED
  BY <1>2, <1>3 DEF TombstoneStaysDisabled

\* From the moment a deletion disables the user the user stays disabled, until
\* the files go or a request enables the user by name (deleteUserLocked).
THEOREM TombstoneStays == UserSpec => []TombstoneStaysDisabled
<1>1. UserInit => TombstoneStaysDisabled
  BY DEF UserInit, TombstoneStaysDisabled
<1>2. UserInv /\ TombstoneStaysDisabled /\ [UserNext]_vars => TombstoneStaysDisabled'
  <2> SUFFICES ASSUME UserInv, TombstoneStaysDisabled, [UserNext]_vars
               PROVE  TombstoneStaysDisabled'
    OBVIOUS
  <2>t. UserTyped /\ Typed
    BY DEF UserInv, PkiInv
  <2>1. CASE UNCHANGED <<folder, closing>>
    BY <2>1 DEF TombstoneStaysDisabled
  <2>2. ASSUME NEW p \in Procs, MakeFolder(p)  PROVE TombstoneStaysDisabled'
    <3>1. Cn(p) \in CNs /\ UserDir(Cn(p)) \in FolderType
      BY <2>2, <2>t, UserDirFacts DEF MakeFolder, At, UserTyped
    <3> QED
      BY <2>2, <3>1, <2>t, WriteKeepsTombstone DEF MakeFolder
  <2>3. ASSUME NEW p \in Procs, BuildProfile(p)  PROVE TombstoneStaysDisabled'
    <3>1. Cn(p) \in CNs /\ UserDir(Cn(p)) \in FolderType
      BY <2>3, <2>t, UserDirFacts DEF BuildProfile, At, UserTyped
    <3> DEFINE dir == [UserDir(Cn(p)) EXCEPT !.ovpn = ProfileCert(Cn(p))]
    <3>2. CASE ProfileCert(Cn(p)) # None /\ WriteDir(Cn(p), dir)
      <4>1. ProfileCert(Cn(p)) \in {Foreign} \union Serials
        BY <3>1, <3>2, <2>t DEF ProfileCert, Typed, Files, Cert, Foreign
      <4>2. dir \in FolderType /\ dir.disabled = UserDir(Cn(p)).disabled
        BY <3>1, <4>1 DEF FolderType
      <4> QED
        BY <2>3, <3>1, <3>2, <4>2, <2>t, WriteKeepsTombstone DEF BuildProfile
    <3> QED
      BY <2>1, <2>3, <3>2 DEF BuildProfile
  <2>4. ASSUME NEW p \in Procs, PushCertificate(p)  PROVE TombstoneStaysDisabled'
    <3>1. Cn(p) \in CNs /\ UserDir(Cn(p)) \in FolderType
      BY <2>4, <2>t, UserDirFacts DEF PushCertificate, At, UserTyped
    <3> DEFINE dir == [UserDir(Cn(p)) EXCEPT !.cert = TRUE]
    <3>2. dir \in FolderType /\ dir.disabled = UserDir(Cn(p)).disabled
      BY <3>1 DEF FolderType
    <3> QED
      BY <2>4, <3>1, <3>2, <2>t, WriteKeepsTombstone DEF PushCertificate
  <2>5. ASSUME NEW p \in Procs, PushPrivateKey(p)  PROVE TombstoneStaysDisabled'
    <3>1. Cn(p) \in CNs /\ UserDir(Cn(p)) \in FolderType
      BY <2>5, <2>t, UserDirFacts DEF PushPrivateKey, At, UserTyped
    <3> DEFINE dir == [UserDir(Cn(p)) EXCEPT !.key = TRUE]
    <3>2. dir \in FolderType /\ dir.disabled = UserDir(Cn(p)).disabled
      BY <3>1 DEF FolderType
    <3> QED
      BY <2>5, <3>1, <3>2, <2>t, WriteKeepsTombstone DEF PushPrivateKey
  <2>6. ASSUME NEW p \in Procs, WritePolicy(p) \/ Disable(p) \/ InspectFails(p)
        PROVE  TombstoneStaysDisabled'
    <3>1. PICK flag \in {None, TRUE, FALSE} : SetFlag(p, flag)
      BY <2>6, <2>t DEF WritePolicy, Disable, InspectFails, UserTyped, ReqType
    <3>2. Cn(p) \in CNs
      BY <2>6, <2>t DEF WritePolicy, Disable, InspectFails, At, UserTyped
    <3> QED
      BY <3>1, <3>2, <2>t, FlagKeepsTombstone
  <2>7. ASSUME NEW p \in Procs, RemoveSome(p) \/ RemoveFolder(p)  PROVE TombstoneStaysDisabled'
    BY <2>7, <2>t, RemovalKeepsTombstone
  <2>8. ASSUME NEW p \in Procs,
               RequestStep(p) \/ RemoveSome(p) \/ RequestFault(p) \/ InspectFails(p)
        PROVE  TombstoneStaysDisabled'
    <3>1. \/ MakeFolder(p) \/ BuildProfile(p) \/ PushCertificate(p) \/ PushPrivateKey(p)
          \/ WritePolicy(p) \/ Disable(p) \/ InspectFails(p) \/ RemoveSome(p) \/ RemoveFolder(p)
          \/ UNCHANGED <<folder, closing>>
      BY <2>8 DEF RequestStep, OpenCert, Enter, Answer, KeepMaterial, NoMaterial, Issue, Issued,
         PkiDone, Lookup, Inspect, Revoke, Revoked, RequestFault
    <3> QED
      BY <3>1, <2>1, <2>2, <2>3, <2>4, <2>5, <2>6, <2>7
  <2>9. \/ \E p \in Procs :
              RequestStep(p) \/ RemoveSome(p) \/ RequestFault(p) \/ InspectFails(p)
        \/ UNCHANGED <<folder, closing>>
    BY DEF UserNext, vars, userVars, Ask, Crash
  <2> QED
    BY <2>1, <2>8, <2>9
<1> QED
  BY <1>1, <1>2, UserInvAlways, PTL DEF UserSpec
=============================================================================
