------------------------------- MODULE Pki -------------------------------
(***************************************************************************)
(* The certificate authority of the node (internal/pki, internal/ovpn/     *)
(* pki.go and handlePushPKI).  Every file is replaced by one rename, and   *)
(* an operation replaces several of them one after the other, so what      *)
(* matters is what an operation leaves behind when it fails or dies        *)
(* between two renames.  All operations hold the lock .issue.lock, so at   *)
(* most one is at work: `op'.  The kernel drops the lock of a process      *)
(* that dies.                                                              *)
(*                                                                         *)
(* A certificate is its serial, its key and the CA that signed it; times,  *)
(* names in the certificate and the PEM encoding are left out.  Of the     *)
(* inline bundle, which nothing reads, only the step that writes or        *)
(* removes it is kept: it can fail like the others.                        *)
(***************************************************************************)
EXTENDS Integers

CONSTANTS
    CNs,          \* common names of clients
    Server,       \* the common name of the server
    None,         \* no file, no row, no certificate
    MaxSerial,    \* bound: the last serial the model hands out
    MaxCrl,       \* bound: the last CRL number the model hands out
    MaxTrouble,   \* bound: how often the process dies or a write fails
    MaxLosses     \* bound: how often a file is lost

ASSUME PkiAssumption ==
    /\ {MaxSerial, MaxCrl, MaxTrouble, MaxLosses} \subseteq Nat
    /\ MaxSerial >= 1 /\ MaxCrl >= 1
    /\ Server \notin CNs
    /\ None \notin CNs \union {Server}
    /\ None \notin Int

VARIABLES
    ca,           \* the CA of ca.crt: None, PanelCA or a CA built here
    caKey,        \* the CA that private/ca.key belongs to
    serial,       \* the file `serial': the next serial
    index,        \* index.txt: serial -> row
    crlnumber,    \* the file `crlnumber'
    crl,          \* crl.pem
    issued,       \* issued/<cn>.crt
    key,          \* private/<cn>.key
    server,       \* the server's certificate and key
    op,           \* the operation that holds the lock
    signed,       \* history: client certificates written with a serial
    spent         \* troubles and losses so far

pkiFiles == <<ca, caKey, serial, index, crlnumber, crl, issued, key, server>>
pkiVars == <<pkiFiles, op, signed, spent>>

\* EnsureDirTree starts both numbers at hexadecimal 1000.
First == 1

PanelCA == 0
Serials == First..MaxSerial
Numbers == First..MaxCrl
\* A key is named after the first serial it was certified under; the key
\* of a pushed server certificate is 0.
Keys == {PanelCA} \union Serials
\* A CA built here is 1; a second one would be 2.
CAs == {PanelCA, 1, 2}

Cert == [serial : {0} \union Serials, key : Keys, ca : CAs]
Row  == [cn : CNs \union {Server}, status : {"V", "R"}]
Crl  == [ca : CAs, number : Numbers, entries : SUBSET Serials]
Pair == [cert : Cert \union {None}, key : Keys \union {None}]
Identity == [server : Pair, ca : CAs \union {None}]

\* A file, a row or a list that is there is not one that is missing.
ASSUME NoneAssumption == None \notin Cert \union Row \union Crl \union Identity

Idle == [kind |-> "none", cn |-> None, step |-> "idle", serial |-> None,
         key |-> None, crl |-> None, old |-> None, undo |-> 0, stuck |-> {}]

Init ==
    /\ ca = None /\ caKey = None
    /\ serial = First
    /\ index = [s \in Serials |-> None]
    /\ crlnumber = First
    /\ crl = None
    /\ issued = [c \in CNs |-> None]
    /\ key = [c \in CNs |-> None]
    /\ server = [cert |-> None, key |-> None]
    /\ op = Idle
    /\ signed = [s \in Serials |-> 0]
    /\ spent = [trouble |-> 0, losses |-> 0]

------------------------------------------------------------------------------
(***************************************************************************)
(* What the operations ask of the files.                                   *)
(***************************************************************************)

\* loadCA and loadCASigner: certificate and key must belong together.
CanSign == ca # None /\ ca = caKey

\* ValidateServerCert on the files.
ServerMatches ==
    /\ server.cert # None /\ ca # None
    /\ server.cert.key = server.key /\ server.cert.ca = ca

\* Healthy: the three files are there, whether or not they fit.
Healthy == ca # None /\ caKey # None /\ server.cert # None

\* CRLMatchesCA: true also when there is no CRL.
CRLMatchesCA == crl # None => (ca # None /\ crl.ca = ca)

\* The index rows of a common name (indexHasCN), and the revoked ones.
RowsOf(cn) == {s \in Serials : index[s] # None /\ index[s].cn = cn}
RevokedRows == {s \in Serials : index[s] # None /\ index[s].status = "R"}

OnCrl == IF crl = None THEN {} ELSE crl.entries

\* hasCertMaterial, as far as the PKI tree has it.
InTree(cn) == issued[cn] # None /\ key[cn] # None

Goto(step) == op' = [op EXCEPT !.step = step]
\* The operation returns an error.
Refuse(kind, cn) ==
    op' = [Idle EXCEPT !.kind = kind, !.cn = cn, !.step = "err"]

------------------------------------------------------------------------------
(***************************************************************************)
(* IssueClientCertToTree: a key that is there is certified again; a        *)
(* certificate without its key is refused.                                 *)
(***************************************************************************)
IssueBegin(cn) ==
    /\ op = Idle
    /\ ~InTree(cn)
    /\ IF (key[cn] = None /\ issued[cn] # None) \/ ~CanSign
         THEN Refuse("issue", cn)
         ELSE op' = [Idle EXCEPT !.kind = "issue", !.cn = cn,
                                 !.step = "serial", !.key = key[cn]]
    /\ UNCHANGED <<pkiFiles, signed, spent>>

\* RenewServerCert: the Go CA first, easyrsa when that fails.
RenewBegin ==
    /\ op = Idle
    /\ op' = [Idle EXCEPT !.kind = "renew", !.cn = Server,
                          !.step = IF CanSign THEN "serial" ELSE "fallback"]
    /\ UNCHANGED <<pkiFiles, signed, spent>>

\* Mutant of OnError: the files are removed although no CRL was written.
OnErrorRemoves ==
    CASE op.kind = "renew" /\ op.step # "fallback" -> Goto("fallback")
      [] op.kind = "push" -> Goto(IF op.undo = 0 THEN "err" ELSE "undokey")
      [] op.kind = "remove" /\ op.step \in {"crlnumber", "crl"} -> Goto("rmcert")
      [] OTHER -> Goto("err")

\* Where an error takes the operation: the renewal falls back to easyrsa, a
\* push undoes what it has written (undo counts the files), the others return.
OnError ==
    CASE op.kind = "renew" /\ op.step # "fallback" -> Goto("fallback")
      [] op.kind = "push" -> Goto(IF op.undo = 0 THEN "err" ELSE "undokey")
      [] OTHER -> Goto("err")

\* nextSerial: the number is taken before anything is signed with it.
TakeSerial ==
    /\ op.step = "serial"
    /\ serial # None /\ serial <= MaxSerial
    /\ serial' = serial + 1
    /\ op' = [op EXCEPT !.serial = serial,
                        !.step = IF op.kind = "issue" THEN "index" ELSE "skey"]
    /\ UNCHANGED <<ca, caKey, index, crlnumber, crl, issued, key, server,
                   signed, spent>>

NoSerial ==
    /\ op.step = "serial"
    /\ serial = None
    /\ OnError
    /\ UNCHANGED <<pkiFiles, signed, spent>>

\* Mutant of AppendIndex: the row of a revoked certificate counts as free.
AppendIndexReuses ==
    /\ op.step = "index"
    /\ IF index[op.serial] # None /\ op.serial \notin RevokedRows
         THEN OnError /\ UNCHANGED index
         ELSE /\ index' = [index EXCEPT ![op.serial] =
                             [cn |-> op.cn, status |-> "V"]]
              /\ Goto(IF op.kind = "issue" THEN "cert" ELSE "ok")
    /\ UNCHANGED <<ca, caKey, serial, crlnumber, crl, issued, key, server,
                   signed, spent>>

\* appendIndex: a serial the index already has is refused.
AppendIndex ==
    /\ op.step = "index"
    /\ IF index[op.serial] # None
         THEN OnError /\ UNCHANGED index
         ELSE /\ index' = [index EXCEPT ![op.serial] =
                             [cn |-> op.cn, status |-> "V"]]
              /\ Goto(IF op.kind = "issue" THEN "cert" ELSE "ok")
    /\ UNCHANGED <<ca, caKey, serial, crlnumber, crl, issued, key, server,
                   signed, spent>>

\* Mutant of NewKey: the key that was read, although there was none.
KeyRead == op.key

NewKey == IF op.key = None THEN op.serial ELSE op.key

WriteCert ==
    /\ op.step = "cert"
    /\ issued' = [issued EXCEPT ![op.cn] =
                    [serial |-> op.serial, key |-> NewKey, ca |-> ca]]
    /\ signed' = [signed EXCEPT ![op.serial] = @ + 1]
    /\ Goto(IF op.key = None THEN "key" ELSE "bundle")
    /\ UNCHANGED <<ca, caKey, serial, index, crlnumber, crl, key, server, spent>>

WriteKey ==
    /\ op.step = "key"
    /\ key' = [key EXCEPT ![op.cn] = op.serial]
    /\ Goto("bundle")
    /\ UNCHANGED <<ca, caKey, serial, index, crlnumber, crl, issued, server,
                   signed, spent>>

\* The inline bundle, written last when issuing and removed last.
Bundle ==
    /\ op.step = "bundle"
    /\ Goto("ok")
    /\ UNCHANGED <<pkiFiles, signed, spent>>

\* RenewServerCertificateNative: the key, the certificate, the index row.
WriteServerKey ==
    /\ op.step = "skey"
    /\ server' = [server EXCEPT !.key = op.serial]
    /\ Goto("scert")
    /\ UNCHANGED <<ca, caKey, serial, index, crlnumber, crl, issued, key,
                   signed, spent>>

WriteServerCert ==
    /\ op.step = "scert"
    /\ server' = [server EXCEPT !.cert =
                    [serial |-> op.serial, key |-> op.serial, ca |-> ca]]
    /\ Goto("index")
    /\ UNCHANGED <<ca, caKey, serial, index, crlnumber, crl, issued, key,
                   signed, spent>>

\* openssl signs with the next serial and refuses one the index has.
OpensslCanSign ==
    CanSign /\ serial # None /\ serial <= MaxSerial /\ index[serial] = None

\* RenewServerCertificate: easyrsa's renew puts the old pair back when it
\* fails.
FallbackRenews ==
    /\ op.step = "fallback"
    /\ server.cert # None /\ OpensslCanSign
    /\ serial' = serial + 1
    /\ index' = [index EXCEPT ![serial] = [cn |-> Server, status |-> "V"]]
    /\ server' = [cert |-> [serial |-> serial, key |-> serial, ca |-> ca],
                  key |-> serial]
    /\ Goto("ok")
    /\ UNCHANGED <<ca, caKey, crlnumber, crl, issued, key, signed, spent>>

FallbackFails ==
    /\ op.step = "fallback"
    /\ server.cert = None \/ ~OpensslCanSign
    /\ Goto("err")
    /\ UNCHANGED <<pkiFiles, signed, spent>>

------------------------------------------------------------------------------
(***************************************************************************)
(* RemoveClientMaterial: revoke every row of the common name, publish,     *)
(* check what was published, and only then remove the files.               *)
(***************************************************************************)

\* A certificate found for a user is one this CA has in its index.
Known(cert, cn) == cert.ca = ca /\ cert.serial \in RowsOf(cn)

\* `foreign': a certificate in the user's folder is not Known.
RemoveBegin(cn, foreign) ==
    /\ op = Idle
    /\ IF \/ ~CanSign
          \/ issued[cn] # None /\ ~Known(issued[cn], cn)
          \/ foreign
          \/ RowsOf(cn) = {}
         THEN Refuse("remove", cn)
         ELSE op' = [Idle EXCEPT !.kind = "remove", !.cn = cn, !.step = "mark"]
    /\ UNCHANGED <<pkiFiles, signed, spent>>

MarkRevoked ==
    /\ op.step = "mark"
    /\ index' = [s \in Serials |->
                   IF s \in RowsOf(op.cn) THEN [index[s] EXCEPT !.status = "R"]
                                          ELSE index[s]]
    /\ Goto("crlnumber")
    /\ UNCHANGED <<ca, caKey, serial, crlnumber, crl, issued, key, server,
                   signed, spent>>

\* Mutant of NextNumber: the published number is not looked at.
FiledNumber == IF crlnumber = None THEN First ELSE crlnumber

\* The number of the next CRL: the file's, or the first when there is no
\* file, but never one that was already published.
NextNumber ==
    LET filed == IF crlnumber = None THEN First ELSE crlnumber
    IN  IF crl # None /\ filed <= crl.number THEN crl.number + 1 ELSE filed

\* GenerateCRL up to its first rename.  It refuses to follow a CRL of
\* another CA, and keeps every entry of the one it follows.
WriteCrlNumber ==
    /\ op.step = "crlnumber"
    /\ CanSign /\ CRLMatchesCA
    /\ NextNumber <= MaxCrl
    /\ op' = [op EXCEPT !.step = "crl",
                        !.crl = [ca |-> ca, number |-> NextNumber,
                                 entries |-> OnCrl \union RevokedRows]]
    /\ crlnumber' = NextNumber + 1
    /\ UNCHANGED <<ca, caKey, serial, index, crl, issued, key, server, signed,
                   spent>>

CannotGenerate ==
    /\ op.step = "crlnumber"
    /\ ~(CanSign /\ CRLMatchesCA)
    /\ Goto("err")
    /\ UNCHANGED <<pkiFiles, signed, spent>>

WriteCrl ==
    /\ op.step = "crl"
    /\ crl' = op.crl
    /\ Goto(IF op.kind = "remove" THEN "verify" ELSE "ok")
    /\ UNCHANGED <<ca, caKey, serial, index, crlnumber, issued, key, server,
                   signed, spent>>

\* The CRL is read back and must list every row of the common name.
VerifyCrl ==
    /\ op.step = "verify"
    /\ Goto(IF RowsOf(op.cn) \subseteq OnCrl THEN "rmcert" ELSE "err")
    /\ UNCHANGED <<pkiFiles, signed, spent>>

RemoveCert ==
    /\ op.step = "rmcert"
    /\ issued' = [issued EXCEPT ![op.cn] = None]
    /\ Goto("rmkey")
    /\ UNCHANGED <<ca, caKey, serial, index, crlnumber, crl, key, server, signed,
                   spent>>

RemoveKey ==
    /\ op.step = "rmkey"
    /\ key' = [key EXCEPT ![op.cn] = None]
    /\ Goto("bundle")
    /\ UNCHANGED <<ca, caKey, serial, index, crlnumber, crl, issued, server,
                   signed, spent>>

------------------------------------------------------------------------------
(***************************************************************************)
(* EnsureCRLChecked, for the daily RefreshCRL and at the end of InitPKI.   *)
(* `due': less than 30 days are left.                                      *)
(***************************************************************************)
EnsureStep(due) ==
    CASE ca = None                       -> "err"
      [] ca # None /\ crl = None         -> "gencrl"
      [] ca # None /\ crl # None /\ crl.ca # ca -> "err"
      [] OTHER -> IF due THEN "crlnumber" ELSE "ok"

\* The agent only starts the refresh loop when it has a CA key.
RefreshBegin(due) ==
    /\ op = Idle
    /\ caKey # None
    /\ op' = [Idle EXCEPT !.kind = "refresh", !.step = EnsureStep(due)]
    /\ UNCHANGED <<pkiFiles, signed, spent>>

\* `easyrsa gen-crl', which lists the revoked rows.
GenCrl ==
    /\ op.step = "gencrl"
    /\ IF CanSign /\ crlnumber # None
         THEN /\ crlnumber <= MaxCrl
              /\ crl' = [ca |-> ca, number |-> crlnumber, entries |-> RevokedRows]
              /\ crlnumber' = crlnumber + 1
              /\ Goto("ok")
         ELSE Goto("err") /\ UNCHANGED <<crl, crlnumber>>
    /\ UNCHANGED <<ca, caKey, serial, index, issued, key, server, signed, spent>>

------------------------------------------------------------------------------
(***************************************************************************)
(* handlePushPKI: the server key, its certificate and the CA of the panel. *)
(***************************************************************************)
Pushed == [cert |-> [serial |-> 0, key |-> PanelCA, ca |-> PanelCA],
           key |-> PanelCA]

PushBegin ==
    /\ op = Idle
    /\ op' = [Idle EXCEPT !.kind = "push", !.step = "pkey",
                          !.old = [server |-> server, ca |-> ca]]
    /\ UNCHANGED <<pkiFiles, signed, spent>>

PushKey ==
    /\ op.step = "pkey"
    /\ server' = [server EXCEPT !.key = Pushed.key]
    /\ op' = [op EXCEPT !.step = "pcert", !.undo = 1]
    /\ UNCHANGED <<ca, caKey, serial, index, crlnumber, crl, issued, key, signed,
                   spent>>

PushCert ==
    /\ op.step = "pcert"
    /\ server' = [server EXCEPT !.cert = Pushed.cert]
    /\ op' = [op EXCEPT !.step = "pca", !.undo = 2]
    /\ UNCHANGED <<ca, caKey, serial, index, crlnumber, crl, issued, key, signed,
                   spent>>

PushCa ==
    /\ op.step = "pca"
    /\ ca' = PanelCA
    /\ Goto("pushed")
    /\ UNCHANGED <<caKey, serial, index, crlnumber, crl, issued, key, server,
                   signed, spent>>

\* The lock is released; the CRL of another CA makes the handler try
\* RegenerateCRL under a lock of its own.
PushEnd ==
    /\ op.step = "pushed"
    /\ op' = IF ~CRLMatchesCA /\ Healthy
               THEN [Idle EXCEPT !.kind = "regenerate", !.step = "crlnumber"]
               ELSE [Idle EXCEPT !.kind = "push", !.step = "ok"]
    /\ UNCHANGED <<pkiFiles, signed, spent>>

\* restore: the files written so far get their old content one by one, the
\* key first; undo is their number.
AfterKey == IF op.undo = 2 THEN "undocert" ELSE "err"

\* Mutant of RestoreKey: the certificate is not put back.
RestoreKeyOnly ==
    /\ op.step = "undokey"
    /\ server' = [server EXCEPT !.key = op.old.server.key]
    /\ Goto("err")
    /\ UNCHANGED <<ca, caKey, serial, index, crlnumber, crl, issued, key, signed,
                   spent>>

RestoreKey ==
    /\ op.step = "undokey"
    /\ server' = [server EXCEPT !.key = op.old.server.key]
    /\ Goto(AfterKey)
    /\ UNCHANGED <<ca, caKey, serial, index, crlnumber, crl, issued, key, signed,
                   spent>>

RestoreCert ==
    /\ op.step = "undocert"
    /\ server' = [server EXCEPT !.cert = op.old.server.cert]
    /\ Goto("err")
    /\ UNCHANGED <<ca, caKey, serial, index, crlnumber, crl, issued, key, signed,
                   spent>>

\* A file cannot be put back: the error is discarded and the next one tried.
\* The ghost `stuck' remembers the file.
RestoreFails ==
    /\ spent.trouble < MaxTrouble
    /\ op.step \in {"undokey", "undocert"}
    /\ op' = IF op.step = "undokey"
               THEN [op EXCEPT !.step = AfterKey, !.stuck = @ \union {"key"}]
               ELSE [op EXCEPT !.step = "err", !.stuck = @ \union {"cert"}]
    /\ spent' = [spent EXCEPT !.trouble = @ + 1]
    /\ UNCHANGED <<pkiFiles, signed>>

------------------------------------------------------------------------------
(***************************************************************************)
(* InitPKI: at the first start it builds the identity with easyrsa; after  *)
(* that it only checks it, and never completes half of one.                *)
(***************************************************************************)

\* EnsureDirTree, the first step of InitPKI and before the lock is taken,
\* makes the numbers that are missing.
EnsureDirTree ==
    /\ serial = None \/ crlnumber = None
    /\ serial' = IF serial = None THEN First ELSE serial
    /\ crlnumber' = IF crlnumber = None THEN First ELSE crlnumber
    /\ UNCHANGED <<ca, caKey, index, crl, issued, key, server, op, signed, spent>>

\* Anything a CA has left: a key, a certificate or a row.
OldMaterial ==
    \/ server.key # None \/ server.cert # None
    \/ \E c \in CNs : issued[c] # None \/ key[c] # None
    \/ \E s \in Serials : index[s] # None

\* Mutant of InitCa: a CA that is not complete is built again.
InitCaRebuilds ==
    /\ op = Idle
    /\ serial # None /\ crlnumber # None
    /\ op' = [Idle EXCEPT !.kind = "init",
                !.step = IF ca # None /\ caKey # None THEN "initserver"
                         ELSE "buildca"]
    /\ UNCHANGED <<pkiFiles, signed, spent>>

InitCa ==
    /\ op = Idle
    /\ serial # None /\ crlnumber # None
    /\ op' = [Idle EXCEPT !.kind = "init",
                !.step = IF (ca = None) # (caKey = None) THEN "err"
                         ELSE IF ca # None THEN "initserver"
                         ELSE IF OldMaterial THEN "err" ELSE "buildca"]
    /\ UNCHANGED <<pkiFiles, signed, spent>>

\* `easyrsa build-ca' makes the key and then the certificate.
BuildCaKey ==
    /\ op.step = "buildca"
    /\ caKey' = IF caKey = 1 THEN 2 ELSE 1
    /\ Goto("cacert")
    /\ UNCHANGED <<ca, serial, index, crlnumber, crl, issued, key, server, signed,
                   spent>>

BuildCaCert ==
    /\ op.step = "cacert"
    /\ ca' = caKey
    /\ Goto("initserver")
    /\ UNCHANGED <<caKey, serial, index, crlnumber, crl, issued, key, server,
                   signed, spent>>

InitServer ==
    /\ op.step = "initserver"
    /\ Goto(IF (server.cert = None) # (server.key = None) THEN "err"
            ELSE IF server.cert = None THEN "buildserver"
            ELSE "validate")
    /\ UNCHANGED <<pkiFiles, signed, spent>>

\* `easyrsa build-server-full': the key, then the row and the certificate.
BuildServerKey ==
    /\ op.step = "buildserver"
    /\ IF OpensslCanSign
         THEN /\ server' = [server EXCEPT !.key = serial]
              /\ Goto("servercert")
         ELSE Goto("err") /\ UNCHANGED server
    /\ UNCHANGED <<ca, caKey, serial, index, crlnumber, crl, issued, key, signed,
                   spent>>

BuildServerCert ==
    /\ op.step = "servercert"
    /\ OpensslCanSign
    /\ serial' = serial + 1
    /\ index' = [index EXCEPT ![serial] = [cn |-> Server, status |-> "V"]]
    /\ server' = [server EXCEPT !.cert = [serial |-> serial, key |-> server.key,
                                          ca |-> ca]]
    /\ Goto("validate")
    /\ UNCHANGED <<ca, caKey, crlnumber, crl, issued, key, signed, spent>>

Validate(due) ==
    /\ op.step = "validate"
    /\ Goto(IF ServerMatches THEN EnsureStep(due) ELSE "err")
    /\ UNCHANGED <<pkiFiles, signed, spent>>

------------------------------------------------------------------------------
(***************************************************************************)
(* The environment.                                                        *)
(***************************************************************************)

\* The steps that write a file, which can fail.
Writes == {"serial", "index", "cert", "key", "skey", "scert", "mark",
           "crlnumber", "crl", "rmcert", "rmkey", "bundle", "gencrl", "pkey",
           "pcert", "pca", "buildca", "cacert", "buildserver", "servercert"}

Fault ==
    /\ spent.trouble < MaxTrouble
    /\ op.step \in Writes
    /\ OnError
    /\ spent' = [spent EXCEPT !.trouble = @ + 1]
    /\ UNCHANGED <<pkiFiles, signed>>

PkiCrash ==
    /\ spent.trouble < MaxTrouble
    /\ op' = Idle
    /\ spent' = [spent EXCEPT !.trouble = @ + 1]
    /\ UNCHANGED <<pkiFiles, signed>>

\* A file is not there any more: an operator's restore leaves it out.
LoseFile ==
    /\ spent.losses < MaxLosses
    /\ op = Idle
    /\ spent' = [spent EXCEPT !.losses = @ + 1]
    /\ \/ serial' = None /\ UNCHANGED <<ca, caKey, crlnumber, crl>>
       \/ crlnumber' = None /\ UNCHANGED <<ca, caKey, serial, crl>>
       \/ crl' = None /\ UNCHANGED <<ca, caKey, serial, crlnumber>>
       \/ ca' = None /\ caKey' = None /\ UNCHANGED <<serial, crlnumber, crl>>
    /\ UNCHANGED <<index, issued, key, server, op, signed>>

\* The operation returns to its caller and the lock is free.
PkiReturn ==
    /\ op.step \in {"ok", "err"}
    /\ op' = Idle
    /\ UNCHANGED <<pkiFiles, signed, spent>>

\* One step of the operation that holds the lock.
OpStep ==
    \/ TakeSerial \/ NoSerial \/ AppendIndex \/ WriteCert \/ WriteKey \/ Bundle
    \/ WriteServerKey \/ WriteServerCert \/ FallbackRenews \/ FallbackFails
    \/ MarkRevoked \/ WriteCrlNumber \/ CannotGenerate \/ WriteCrl
    \/ VerifyCrl \/ RemoveCert \/ RemoveKey \/ GenCrl
    \/ PushKey \/ PushCert \/ PushCa \/ PushEnd
    \/ RestoreKey \/ RestoreCert \/ RestoreFails
    \/ BuildCaKey \/ BuildCaCert \/ InitServer
    \/ BuildServerKey \/ BuildServerCert \/ \E due \in BOOLEAN : Validate(due)

\* What the node itself or the panel starts, without a user.
Maintain ==
    \/ RenewBegin \/ PushBegin \/ InitCa \/ EnsureDirTree
    \/ \E due \in BOOLEAN : RefreshBegin(due)

Next ==
    \/ \E cn \in CNs : IssueBegin(cn)
    \/ \E cn \in CNs, foreign \in BOOLEAN : RemoveBegin(cn, foreign)
    \/ OpStep \/ PkiReturn \/ Maintain
    \/ Fault \/ PkiCrash \/ LoseFile

Spec == Init /\ [][Next]_pkiVars

------------------------------------------------------------------------------
(***************************************************************************)
(* Properties.                                                             *)
(***************************************************************************)

(***************************************************************************)
(* Types of the files; numbers stay within their bounds.                   *)
(***************************************************************************)
TypeOK ==
    /\ ca \in CAs \union {None} /\ caKey \in {1, 2, None}
    /\ serial \in First..MaxSerial + 1 \union {None}
    /\ index \in [Serials -> Row \union {None}]
    /\ crlnumber \in First..MaxCrl + 1 \union {None}
    /\ crl \in Crl \union {None}
    /\ issued \in [CNs -> Cert \union {None}]
    /\ key \in [CNs -> Keys \union {None}]
    /\ server \in Pair
    /\ op.serial \in Serials \union {None}
    /\ op.crl \in Crl \union {None}
    /\ op.old \in Identity \union {None}
    /\ signed \in [Serials -> 0..2]

(***************************************************************************)
(* No two client certificates share a serial, wherever issuing or renewing *)
(* stops and even after the file `serial' was lost and started again       *)
(* (nextSerial, appendIndex).                                              *)
(***************************************************************************)
SerialsAreUnique == \A s \in Serials : signed[s] <= 1

(***************************************************************************)
(* SPEC.md: "delete -> signed CRL before cleanup".  A client certificate   *)
(* that was ever written is still in the tree, where a deletion finds it,  *)
(* or on the CRL that OpenVPN checks; also when it was replaced because    *)
(* issuing or removing died half way (RemoveClientMaterial,                *)
(* IssueClientCertToTree).                                                 *)
(***************************************************************************)
LeavesTreeRevoked ==
    \A s \in Serials :
        /\ signed[s] > 0
        /\ crl # None
        => \/ index[s] # None /\ index[s].cn \in CNs
              /\ issued[index[s].cn] # None
              /\ issued[index[s].cn].serial = s
           \/ s \in crl.entries

(***************************************************************************)
(* A CRL that replaces one of the same CA keeps all its entries and has a  *)
(* higher number, also when the number file was lost or the process died   *)
(* between the two renames (GenerateCRL).                                  *)
(***************************************************************************)
CrlNeverGoesBack ==
    [][(crl # None /\ crl' # None /\ crl' # crl /\ crl'.ca = crl.ca) =>
         /\ crl.entries \subseteq crl'.entries
         /\ crl.number < crl'.number]_pkiVars

(***************************************************************************)
(* A push that is answered with a failure has left the CA alone and put    *)
(* back every file of the server's pair it had replaced, except one whose  *)
(* own restoration failed: a failure to put back the key does not keep the *)
(* certificate from being put back (restore in handlePushPKI).             *)
(***************************************************************************)
RefusedPushIsUndone ==
    op.kind = "push" /\ op.step = "err" =>
        /\ ca = op.old.ca
        /\ "key" \notin op.stuck => server.key = op.old.server.key
        /\ "cert" \notin op.stuck => server.cert = op.old.server.cert

(***************************************************************************)
(* SPEC.md: "partial-identity preservation".  Initialisation never         *)
(* replaces a key or a certificate that is there, whatever an earlier one  *)
(* left half done (InitPKI).                                               *)
(***************************************************************************)
InitKeepsIdentity ==
    [][op.kind = "init" =>
         /\ caKey # None => caKey' = caKey
         /\ ca # None => ca' = ca
         /\ server.key # None => server'.key = server.key
         /\ server.cert # None => server'.cert = server.cert]_pkiVars

==============================================================================
