-------------------------- MODULE UserLifecycle --------------------------
(***************************************************************************)
(* Creating, changing, downloading and deleting users (internal/ovpn/      *)
(* users.go, lifecycle.go and profile.go, and the user routes of           *)
(* internal/httpapi/users.go) on top of the CA of module Pki.              *)
(*                                                                         *)
(* A request names the user it means by a file it opens before it waits    *)
(* for the user's lifecycle lock: the user's folder, or the issued         *)
(* certificate when there is no folder.  While the file is open its inode  *)
(* is not reused, so the comparison under the lock tells whether this is   *)
(* still the same user.  Requests are goroutines of one agent, so a crash  *)
(* ends all of them.                                                       *)
(*                                                                         *)
(* Live sessions, and with them DisconnectUser, are the subject of module  *)
(* Admission; the files of the policy are that of UserPolicy, here one     *)
(* atomic write.  Of the policy only the disabled flag is kept.            *)
(***************************************************************************)
EXTENDS Pki

CONSTANTS
    Procs,         \* request handlers
    MaxRequests    \* bound: requests of a behaviour

ASSUME RequestAssumption ==
    /\ None \notin Procs \union BOOLEAN
    /\ MaxRequests \in Nat
    /\ MaxSerial >= 2      \* the server and a first user have a serial

VARIABLES
    folder,        \* users/<cn>
    lock,          \* the holder of .lifecycle.<cn>
    req,           \* the request a handler works on
    made,          \* folders made so far: the next inode
    asked,         \* requests so far
    deletions,     \* history: folders of cn removed by a deletion
    closing,       \* history: a deletion of cn has disabled the user
    stored         \* history: panel credentials were stored for cn

userVars == <<folder, lock, req, made, asked, deletions, closing, stored>>
vars == <<pkiVars, userVars>>

Kinds == {"create", "push", "policy", "download", "delete"}

\* The certificate of pushed credentials, which the panel's CA signed.
Foreign == 0

\* cert and key: pushed cert.pem and key.pem are there; ovpn: the serial of
\* the certificate in client.ovpn.
NewFolder(inode) ==
    [inode |-> inode, cert |-> FALSE, key |-> FALSE, ovpn |-> None,
     disabled |-> FALSE]

\* A user's folder, and the file a request has open.
FolderType == [inode : Nat, cert : BOOLEAN, key : BOOLEAN,
               ovpn : {Foreign} \union Serials \union {None}, disabled : BOOLEAN]
GenType == [path : {"folder", "cert"}, inode : Nat]

\* What is there is not what is missing.
ASSUME NoUserAssumption == None \notin FolderType \union GenType

IdleReq == [kind |-> "none", cn |-> None, step |-> "idle", disabled |-> None,
            gen |-> None, found |-> FALSE, seen |-> {}, began |-> 0]

\* An initialised node, without users or with one.
UserInit ==
    /\ ca = 1 /\ caKey = 1
    /\ crlnumber = First + 1
    /\ crl = [ca |-> 1, number |-> First, entries |-> {}]
    /\ server = [cert |-> [serial |-> First, key |-> First, ca |-> 1],
                 key |-> First]
    /\ op = Idle
    /\ spent = [trouble |-> 0, losses |-> 0]
    /\ lock = [c \in CNs |-> None]
    /\ req = [p \in Procs |-> IdleReq]
    /\ made = 1 /\ asked = 0
    /\ deletions = [c \in CNs |-> 0]
    /\ closing = [c \in CNs |-> FALSE]
    /\ stored = [c \in CNs |-> FALSE]
    /\ \E u \in CNs \union {None} :
         LET s2   == First + 1
             user == u # None
         IN  /\ serial = IF user THEN s2 + 1 ELSE s2
             /\ index = [s \in Serials |->
                  IF s = First THEN [cn |-> Server, status |-> "V"]
                  ELSE IF user /\ s = s2 THEN [cn |-> u, status |-> "V"] ELSE None]
             /\ signed = [s \in Serials |-> IF user /\ s = s2 THEN 1 ELSE 0]
             /\ issued = [c \in CNs |->
                  IF c = u THEN [serial |-> s2, key |-> s2, ca |-> 1] ELSE None]
             /\ key = [c \in CNs |-> IF c = u THEN s2 ELSE None]
             /\ folder = [c \in CNs |->
                  IF c = u THEN [NewFolder(1) EXCEPT !.ovpn = s2] ELSE None]

\* Certificates of cn that were handed out, to be revoked when it goes.
Handed(cn) ==
    {s \in Serials : signed[s] > 0 /\ index[s] # None /\ index[s].cn = cn}
      \union (IF stored[cn] THEN {Foreign} ELSE {})

------------------------------------------------------------------------------
(***************************************************************************)
(* withUserLifecycle.                                                      *)
(***************************************************************************)
At(p, step) == req[p].step = step
Cn(p) == req[p].cn
Goes(p, step) == req' = [req EXCEPT ![p].step = step]

\* A request arrives and opens the user's folder.  A request to create a
\* user leaves the flag alone; the others may carry one or not.
Ask(p, kind, cn, disabled) ==
    /\ req[p] = IdleReq
    /\ asked < MaxRequests
    /\ disabled # None => kind \in {"push", "policy"}
    /\ req' = [req EXCEPT ![p] =
         [IdleReq EXCEPT !.kind = kind, !.cn = cn, !.disabled = disabled,
                         !.step  = IF folder[cn] = None THEN "opencert" ELSE "wait",
                         !.gen   = IF folder[cn] = None THEN None
                                   ELSE [path |-> "folder", inode |-> folder[cn].inode],
                         !.seen  = Handed(cn),
                         !.began = deletions[cn]]]
    /\ asked' = asked + 1
    /\ UNCHANGED <<pkiVars, folder, lock, made, deletions, closing, stored>>

\* No folder: the issued certificate stands for the user, if there is one.
OpenCert(p) ==
    /\ At(p, "opencert")
    /\ req' = [req EXCEPT ![p].step = "wait",
                          ![p].gen = IF issued[Cn(p)] = None THEN None
                                     ELSE [path  |-> "cert",
                                           inode |-> issued[Cn(p)].serial],
                          ![p].began = deletions[Cn(p)]]
    /\ UNCHANGED <<pkiVars, folder, lock, made, asked, deletions, closing, stored>>

\* Mutant of SameGeneration: it is enough that there is a user.
AnyGeneration(gen, cn) ==
    CASE gen = None -> TRUE
      [] gen # None /\ gen.path = "folder" -> folder[cn] # None
      [] OTHER -> issued[cn] # None

\* os.SameFile on what the path names now.
SameGeneration(gen, cn) ==
    CASE gen = None -> TRUE
      [] gen # None /\ gen.path = "folder" ->
            folder[cn] # None /\ folder[cn].inode = gen.inode
      [] OTHER -> issued[cn] # None /\ issued[cn].serial = gen.inode

FirstStep(kind) ==
    CASE kind = "create" -> "mkdir"
      [] kind = "push" -> "pushcert"
      [] kind = "policy" -> "policy"
      [] kind = "download" -> "lookup"
      [] kind = "delete" -> "inspect"

\* The lock is free.  To a deletion, a user who is not the one it meant is
\* one who is already deleted; the other requests fail.
Enter(p) ==
    /\ At(p, "wait")
    /\ lock[Cn(p)] = None
    /\ lock' = [lock EXCEPT ![Cn(p)] = p]
    /\ Goes(p, IF SameGeneration(req[p].gen, Cn(p)) THEN FirstStep(req[p].kind)
               ELSE IF req[p].kind = "delete" THEN "done" ELSE "failed")
    /\ UNCHANGED <<pkiVars, folder, made, asked, deletions, closing, stored>>

\* The lock is released and the answer sent.
Answer(p) ==
    /\ req[p].step \in {"done", "failed"}
    /\ lock' = [lock EXCEPT ![Cn(p)] = None]
    /\ req' = [req EXCEPT ![p] = IdleReq]
    /\ UNCHANGED <<pkiVars, folder, made, asked, deletions, closing, stored>>

------------------------------------------------------------------------------
(***************************************************************************)
(* createUserLocked.                                                       *)
(***************************************************************************)

\* The user's folder, made first when there is none.
UserDir(cn) == IF folder[cn] = None THEN NewFolder(made + 1) ELSE folder[cn]

WriteDir(cn, dir) ==
    /\ folder' = [folder EXCEPT ![cn] = dir]
    /\ made' = IF folder[cn] = None THEN made + 1 ELSE made

MakeFolder(p) ==
    /\ At(p, "mkdir")
    /\ WriteDir(Cn(p), UserDir(Cn(p)))
    /\ Goes(p, "material")
    /\ UNCHANGED <<pkiVars, lock, asked, deletions, closing, stored>>

\* Both pushed files, or certificate and key in the PKI tree.
HasCertMaterial(cn) ==
    (folder[cn].cert /\ folder[cn].key) \/ InTree(cn)

KeepMaterial(p) ==
    /\ At(p, "material")
    /\ HasCertMaterial(Cn(p))
    /\ Goes(p, "profile")
    /\ UNCHANGED <<pkiVars, folder, lock, made, asked, deletions, closing, stored>>

NoMaterial(p) ==
    /\ At(p, "material")
    /\ ~HasCertMaterial(Cn(p))
    /\ folder[Cn(p)].cert \/ folder[Cn(p)].key \/ ca = None
    /\ Goes(p, "failed")
    /\ UNCHANGED <<pkiVars, folder, lock, made, asked, deletions, closing, stored>>

Issue(p) ==
    /\ At(p, "material")
    /\ ~HasCertMaterial(Cn(p))
    /\ ~folder[Cn(p)].cert /\ ~folder[Cn(p)].key /\ ca # None
    /\ IssueBegin(Cn(p))
    /\ Goes(p, "issuing")
    /\ UNCHANGED <<folder, lock, made, asked, deletions, closing, stored>>

\* The CA's operation for cn is over: issuing or removing.
PkiDone(p, waiting, ok) ==
    /\ At(p, waiting)
    /\ op.cn = Cn(p)
    /\ PkiReturn
    /\ Goes(p, IF op.step = "ok" THEN ok ELSE "failed")
    /\ UNCHANGED <<folder, lock, made, asked, deletions, closing, stored>>

Issued(p) == PkiDone(p, "issuing", "profile")

\* buildUserProfileLocked: each of certificate and key is the pushed file
\* when it is there and that of the PKI tree otherwise.  The key is only
\* asked to be there: a key that does not fit its certificate is not noticed.
ProfileCert(cn) ==
    IF folder[cn].cert THEN Foreign
    ELSE IF issued[cn] # None THEN issued[cn].serial ELSE None
ProfileKey(cn) ==
    IF folder[cn].key THEN Foreign ELSE key[cn]

BuildProfile(p) ==
    /\ At(p, "profile")
    /\ IF ProfileCert(Cn(p)) = None \/ ProfileKey(Cn(p)) = None
         THEN Goes(p, "failed") /\ UNCHANGED <<folder, made>>
         ELSE /\ WriteDir(Cn(p), [UserDir(Cn(p)) EXCEPT !.ovpn = ProfileCert(Cn(p))])
              /\ Goes(p, IF req[p].kind = "push" THEN "done" ELSE "policy")
    /\ UNCHANGED <<pkiVars, lock, asked, deletions, closing, stored>>

\* WriteUserPolicy makes the folder when it has to, and keeps a flag the
\* request does not carry.
SetFlag(p, flag) ==
    /\ WriteDir(Cn(p), [UserDir(Cn(p)) EXCEPT !.disabled = IF flag = None THEN @ ELSE flag])
    /\ closing' = [closing EXCEPT ![Cn(p)] =
         IF flag = None THEN @ ELSE flag /\ (@ \/ req[p].kind = "delete")]

\* Mutant of WritePolicy: a request without a flag enables the user.
WritePolicyEnables(p) ==
    /\ At(p, "policy")
    /\ WriteDir(Cn(p), [UserDir(Cn(p)) EXCEPT !.disabled =
         IF req[p].disabled = None THEN FALSE ELSE req[p].disabled])
    /\ closing' = [closing EXCEPT ![Cn(p)] =
         IF req[p].disabled = None THEN @ ELSE req[p].disabled /\ @]
    /\ Goes(p, IF req[p].kind = "push" THEN "profile" ELSE "done")
    /\ UNCHANGED <<pkiVars, lock, asked, deletions, stored>>

\* The last step of creating, the only one of ApplyUserPolicy and
\* SetUserLimit, and the one before the profile in
\* createUserWithCredentialsLocked.
WritePolicy(p) ==
    /\ At(p, "policy")
    /\ SetFlag(p, req[p].disabled)
    /\ Goes(p, IF req[p].kind = "push" THEN "profile" ELSE "done")
    /\ UNCHANGED <<pkiVars, lock, asked, deletions, stored>>

\* ReadUserProfile: a profile that is not there is made, and with it the user.
Lookup(p) ==
    /\ At(p, "lookup")
    /\ Goes(p, IF folder[Cn(p)] # None /\ folder[Cn(p)].ovpn # None THEN "done"
               ELSE "mkdir")
    /\ UNCHANGED <<pkiVars, folder, lock, made, asked, deletions, closing, stored>>

\* createUserWithCredentialsLocked: cert.pem, key.pem, policy, profile.
PushCertificate(p) ==
    /\ At(p, "pushcert")
    /\ WriteDir(Cn(p), [UserDir(Cn(p)) EXCEPT !.cert = TRUE])
    /\ stored' = [stored EXCEPT ![Cn(p)] = TRUE]
    /\ Goes(p, "pushkey")
    /\ UNCHANGED <<pkiVars, lock, asked, deletions, closing>>

PushPrivateKey(p) ==
    /\ At(p, "pushkey")
    /\ WriteDir(Cn(p), [UserDir(Cn(p)) EXCEPT !.key = TRUE])
    /\ Goes(p, "policy")
    /\ UNCHANGED <<pkiVars, lock, asked, deletions, closing, stored>>

------------------------------------------------------------------------------
(***************************************************************************)
(* deleteUserLocked: disable, revoke, remove the material, remove the      *)
(* folder.                                                                 *)
(***************************************************************************)
Profile(cn) == IF folder[cn] = None THEN None ELSE folder[cn].ovpn
HasMaterial(cn) ==
    \/ issued[cn] # None \/ Profile(cn) # None
    \/ folder[cn] # None /\ folder[cn].cert

\* Nothing to revoke and no deletion under way: only the folder goes.
Inspect(p) ==
    /\ At(p, "inspect")
    /\ LET gone == ~HasMaterial(Cn(p))
                   /\ (folder[Cn(p)] = None \/ ~folder[Cn(p)].disabled)
       IN  req' = [req EXCEPT ![p].step = IF gone THEN "rmdir" ELSE "disable",
                              ![p].found = ~gone]
    /\ UNCHANGED <<pkiVars, folder, lock, made, asked, deletions, closing, stored>>

\* A file cannot be looked at: the user is disabled all the same.
InspectFails(p) ==
    /\ At(p, "inspect")
    /\ spent.trouble < MaxTrouble
    /\ spent' = [spent EXCEPT !.trouble = @ + 1]
    /\ SetFlag(p, TRUE)
    /\ Goes(p, "failed")
    /\ UNCHANGED <<pkiFiles, op, signed, lock, asked, deletions, stored>>

Disable(p) ==
    /\ At(p, "disable")
    /\ SetFlag(p, TRUE)
    /\ Goes(p, "revoke")
    /\ UNCHANGED <<pkiVars, lock, asked, deletions, stored>>

\* cert.pem and client.ovpn have to hold certificates of this CA.
ForeignInFolder(cn) ==
    \/ folder[cn].cert
    \/ Profile(cn) # None /\ Profile(cn) \notin RowsOf(cn)

Revoke(p) ==
    /\ At(p, "revoke")
    /\ RemoveBegin(Cn(p), ForeignInFolder(Cn(p)))
    /\ Goes(p, "revoking")
    /\ UNCHANGED <<folder, lock, made, asked, deletions, closing, stored>>

\* Mutant of Revoked: the folder goes whether or not the revocation worked.
RevokedAnyway(p) ==
    /\ At(p, "revoking")
    /\ op.cn = Cn(p)
    /\ PkiReturn
    /\ Goes(p, "rmdir")
    /\ UNCHANGED <<folder, lock, made, asked, deletions, closing, stored>>

Revoked(p) == PkiDone(p, "revoking", "rmdir")

\* os.RemoveAll removes the files one by one, in any order.
RemoveSome(p) ==
    /\ At(p, "rmdir")
    /\ folder[Cn(p)] # None
    /\ \/ folder' = [folder EXCEPT ![Cn(p)].ovpn = None] /\ UNCHANGED closing
       \/ folder' = [folder EXCEPT ![Cn(p)].key = FALSE] /\ UNCHANGED closing
       \/ /\ folder' = [folder EXCEPT ![Cn(p)].disabled = FALSE]
          /\ closing' = [closing EXCEPT ![Cn(p)] = FALSE]
    /\ UNCHANGED <<pkiVars, lock, req, made, asked, deletions, stored>>

RemoveFolder(p) ==
    /\ At(p, "rmdir")
    /\ folder' = [folder EXCEPT ![Cn(p)] = None]
    /\ closing' = [closing EXCEPT ![Cn(p)] = FALSE]
    /\ deletions' = [deletions EXCEPT ![Cn(p)] = @ + 1]
    /\ Goes(p, "done")
    /\ UNCHANGED <<pkiVars, lock, made, asked, stored>>

------------------------------------------------------------------------------
\* A write of a request fails, or the state that a deletion reads when it has
\* found no material.
RequestFault(p) ==
    /\ spent.trouble < MaxTrouble
    /\ \/ req[p].step \in {"mkdir", "profile", "policy", "pushcert", "pushkey",
                           "disable", "rmdir"}
       \/ At(p, "inspect") /\ ~HasMaterial(Cn(p))
    /\ spent' = [spent EXCEPT !.trouble = @ + 1]
    /\ Goes(p, "failed")
    /\ UNCHANGED <<pkiFiles, op, signed, folder, lock, made, asked, deletions,
                   closing, stored>>

\* The agent dies, and with it every request and the locks they hold.
Crash ==
    /\ PkiCrash
    /\ lock' = [c \in CNs |-> None]
    /\ req' = [p \in Procs |-> IdleReq]
    /\ UNCHANGED <<folder, made, asked, deletions, closing, stored>>

\* The panel replaces the CA, once: it has no reason to push the same again.
PushReturns == op.kind \in {"push", "regenerate"} /\ PkiReturn
PushPki == (ca # PanelCA /\ PushBegin) \/ PushReturns

RequestStep(p) ==
    \/ OpenCert(p) \/ Enter(p) \/ Answer(p)
    \/ MakeFolder(p) \/ KeepMaterial(p) \/ NoMaterial(p) \/ Issue(p) \/ Issued(p)
    \/ BuildProfile(p) \/ WritePolicy(p) \/ Lookup(p)
    \/ PushCertificate(p) \/ PushPrivateKey(p)
    \/ Inspect(p) \/ Disable(p) \/ Revoke(p) \/ Revoked(p) \/ RemoveFolder(p)

UserNext ==
    \/ \E p \in Procs, k \in Kinds, cn \in CNs, d \in {None, TRUE, FALSE} :
          Ask(p, k, cn, d)
    \/ \E p \in Procs : RequestStep(p) \/ RemoveSome(p) \/ RequestFault(p) \/ InspectFails(p)
    \/ (OpStep \/ Fault \/ PushPki) /\ UNCHANGED userVars
    \/ Crash

UserSpec == UserInit /\ [][UserNext]_vars

------------------------------------------------------------------------------
(***************************************************************************)
(* Properties.                                                             *)
(***************************************************************************)

(***************************************************************************)
(* SPEC.md: "Lifecycle: create -> policy -> download serial".  A request   *)
(* that was made of one user is never carried out on the user who came     *)
(* after a deletion, however long it waited (withUserLifecycle).           *)
(***************************************************************************)
StaleRequestIsRefused ==
    \A p \in Procs :
        /\ req[p].gen # None
        /\ req[p].step \notin {"idle", "opencert", "wait", "done", "failed"}
        => deletions[Cn(p)] = req[p].began

(***************************************************************************)
(* README.md: "Deleting revokes the certificate through the CRL and        *)
(* removes the folder".  When a deletion is answered with success, also as *)
(* "already deleted", every certificate of the user that was handed out    *)
(* before the request is on the CRL; a user with a certificate of another  *)
(* CA is never answered that way (deleteUserLocked, DeleteUser).           *)
(***************************************************************************)
DeletedMeansRevoked ==
    \A p \in Procs :
        /\ req[p].kind = "delete"
        /\ req[p].step = "done"
        => req[p].seen \subseteq OnCrl

(***************************************************************************)
(* SPEC.md: "disabled tombstone retention".  From the moment a deletion    *)
(* disables the user until the folder's files go, the user stays disabled, *)
(* whatever fails, dies or is requested in between, unless a request       *)
(* enables the user by name (deleteUserLocked, WriteUserPolicy).           *)
(***************************************************************************)
TombstoneStaysDisabled ==
    \A cn \in CNs : closing[cn] => folder[cn] # None /\ folder[cn].disabled

==============================================================================
