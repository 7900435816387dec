------------------------------ MODULE SdkLogin ------------------------------
(***************************************************************************)
(* Login and account linking through the Go SDK (sdk/go/client.go), from   *)
(* the application's first redirect to a link that is active on both       *)
(* sides.  The transaction store and the application's own records are     *)
(* external: Take is atomic, and the application commits a pending record  *)
(* before ActivateLink and an active one after it, retrying with the same  *)
(* link id (sdk/go/README.md).  State, nonce, verifier and intent are      *)
(* fresh in every transaction, so a transaction stands for all of them.    *)
(* Each opening of the redirect makes an authorization request of its own. *)
(* The application may die after any call, and an answer may be lost.  The *)
(* link may be revoked at the centre at any time; the application applies  *)
(* the event as docs/events.md asks.                                       *)
(***************************************************************************)
EXTENDS Naturals, FiniteSets

CONSTANTS
    Txs,        \* pool of login transactions
    Auths,      \* pool of authorization requests
    Browsers,   \* browsers, each with its own binding
    Accounts,   \* local accounts of the application
    Subjects,   \* identities of the centre
    Reqs,       \* requests in flight in the application
    MaxCrashes, \* bound: activations that die
    None

ASSUME CrashAssumption == MaxCrashes \in Nat

VARIABLES
    tx,       \* the transaction store
    code,     \* the centre: authorization requests and their codes
    link,     \* the centre: intent and account link of a transaction
    event,    \* the centre: account_link.revoked of a transaction's link
    rec,      \* the application: its record of a link
    cur,      \* the local account a browser is signed in to
    req,      \* requests in flight
    results,  \* history: logins FinishLogin has returned
    crashes

vars == <<tx, code, link, event, rec, cur, req, results, crashes>>

Purposes == {"login", "link", "register"}
Tx == [st: {"absent", "stored", "taken"}, b: Browsers \cup {None},
       purpose: Purposes, acct: Accounts \cup {None}, expired: BOOLEAN]
NoTx == [st |-> "absent", b |-> None, purpose |-> "login", acct |-> None, expired |-> FALSE]
Code == [st: {"none", "granted", "used"}, t: Txs \cup {None}, subj: Subjects \cup {None}]
NoCode == [st |-> "none", t |-> None, subj |-> None]
Link == [st: {"absent", "pending", "confirmed", "prepared", "active", "revoked"},
         acct: Accounts \cup {None}, subj: Subjects \cup {None}]
NoLink == [st |-> "absent", acct |-> None, subj |-> None]
Req == [pc: {"idle", "begun", "taken", "exchanged", "result", "prepared", "pending", "activated"},
        t: Txs \cup {None}, b: Browsers \cup {None}, purpose: Purposes,
        acct: Accounts \cup {None}, subj: Subjects \cup {None}]
Idle == [pc |-> "idle", t |-> None, b |-> None, purpose |-> "login", acct |-> None, subj |-> None]
Result == [t: Txs, r: Reqs, b: Browsers, acct: Accounts \cup {None}, subj: Subjects]

\* Store, centre, application and requests hold what their types allow.
TypeOK ==
    /\ tx \in [Txs -> Tx] /\ code \in [Auths -> Code] /\ link \in [Txs -> Link]
    /\ event \in [Txs -> {"none", "queued", "done"}]
    /\ rec \in [Txs -> {"none", "pending", "active", "ended"}]
    /\ cur \in [Browsers -> Accounts \cup {None}]
    /\ req \in [Reqs -> Req] /\ results \subseteq Result /\ crashes \in 0..MaxCrashes

Init ==
    /\ tx = [t \in Txs |-> NoTx]
    /\ code = [a \in Auths |-> NoCode]
    /\ link = [t \in Txs |-> NoLink]
    /\ event = [t \in Txs |-> "none"]
    /\ rec = [t \in Txs |-> "none"]
    /\ cur = [b \in Browsers |-> None]
    /\ req = [r \in Reqs |-> Idle]
    /\ results = {} /\ crashes = 0

Moves(r, pc) == req' = [req EXCEPT ![r].pc = pc]

-----------------------------------------------------------------------------
(* The first redirect.                                                     *)

\* BeginLink is called for the account that is signed in; BeginRegistration
\* for a new one.  Both post the intent before the transaction is stored.
begin(r, t, b, purpose, acct) ==
    /\ req[r].pc = "idle" /\ tx[t].st = "absent" /\ link[t].st = "absent"
    /\ \A q \in Reqs : req[q].t # t
    /\ CASE purpose = "login" -> acct = None /\ link' = link
         [] purpose = "link" -> acct # None /\ cur[b] = acct
                                /\ link' = [link EXCEPT ![t].st = "pending", ![t].acct = acct]
         [] purpose = "register" -> acct # None /\ acct # cur[b]
                                /\ link' = [link EXCEPT ![t].st = "pending", ![t].acct = acct]
    /\ req' = [req EXCEPT ![r] = [pc |-> "begun", t |-> t, b |-> b, purpose |-> purpose,
                                  acct |-> acct, subj |-> None]]
    /\ UNCHANGED <<tx, code, event, rec, cur, results, crashes>>

Put(r) ==
    /\ req[r].pc = "begun"
    /\ tx' = [tx EXCEPT ![req[r].t] = [st |-> "stored", b |-> req[r].b, expired |-> FALSE,
                                       purpose |-> req[r].purpose, acct |-> req[r].acct]]
    /\ req' = [req EXCEPT ![r] = Idle]
    /\ UNCHANGED <<code, link, event, rec, cur, results, crashes>>

\* The centre: whoever opens the redirect signs in and authorizes a request of his
\* own.  The first to authorize confirms the intent, for himself.
CompleteAuthorization(a, t, u) ==
    /\ tx[t].st # "absent" /\ code[a].st = "none"
    /\ code' = [code EXCEPT ![a] = [st |-> "granted", t |-> t, subj |-> u]]
    /\ link' = IF link[t].st = "pending"
                 THEN [link EXCEPT ![t].st = "confirmed", ![t].subj = u] ELSE link
    /\ UNCHANGED <<tx, event, rec, cur, req, results, crashes>>

-----------------------------------------------------------------------------
(* The callback.                                                           *)

Take(t) == tx' = [tx EXCEPT ![t].st = "taken"]

\* Mutant: the local account is not compared.
SameLocalAny(t, b) == TRUE

SameLocal(t, b) == tx[t].purpose = "link" => cur[b] = tx[t].acct

\* FinishLogin up to the code: a refused callback has used the transaction up.
\* The cookie of a browser proves the transactions it began.
FinishLogin(r, t, b) ==
    /\ req[r].pc = "idle" /\ tx[t].st = "stored"
    /\ Take(t)
    /\ req' = IF ~tx[t].expired /\ tx[t].b = b /\ SameLocal(t, b)
                THEN [req EXCEPT ![r] =
                        [pc |-> "taken", t |-> t, b |-> b, purpose |-> tx[t].purpose, subj |-> None,
                         acct |-> IF tx[t].purpose = "link" THEN cur[b] ELSE tx[t].acct]]
                ELSE req
    /\ UNCHANGED <<code, link, event, rec, cur, results, crashes>>

\* The callback brings any code.  The exchange burns it, and succeeds if the verifier
\* is that of its authorization request.
Exchange(r, a) ==
    /\ req[r].pc = "taken" /\ code[a].st = "granted"
    /\ code' = [code EXCEPT ![a].st = "used"]
    /\ req' = IF code[a].t = req[r].t
                THEN [req EXCEPT ![r].pc = "exchanged", ![r].subj = code[a].subj]
                ELSE [req EXCEPT ![r] = Idle]
    /\ UNCHANGED <<tx, link, event, rec, cur, results, crashes>>

\* ID token, nonce and userinfo agree: FinishLogin returns.
ReturnResult(r) ==
    /\ req[r].pc = "exchanged"
    /\ results' = results \cup {[t |-> req[r].t, r |-> r, b |-> req[r].b, subj |-> req[r].subj,
                                 acct |-> req[r].acct]}
    /\ req' = [req EXCEPT ![r] = IF req[r].purpose = "login" THEN Idle
                                 ELSE [req[r] EXCEPT !.pc = "result"]]
    /\ UNCHANGED <<tx, code, link, event, rec, cur, crashes>>

-----------------------------------------------------------------------------
(* Linking.                                                                *)

\* Mutant: the intent is prepared for whoever confirmed it.
PrepareLinkForAny(r) ==
    LET t == req[r].t IN
    /\ req[r].pc = "result" /\ link[t].st = "confirmed"
    /\ link' = [link EXCEPT ![t].st = "prepared"]
    /\ Moves(r, "prepared")
    /\ UNCHANGED <<tx, code, event, rec, cur, results, crashes>>

PrepareLink(r) ==
    LET t == req[r].t IN
    /\ req[r].pc = "result" /\ link[t].st = "confirmed" /\ link[t].subj = req[r].subj
    /\ link' = [link EXCEPT ![t].st = "prepared"]
    /\ Moves(r, "prepared")
    /\ UNCHANGED <<tx, code, event, rec, cur, results, crashes>>

\* Mutant: the record is written only when the link is active.
CommitPendingLate(r) ==
    /\ req[r].pc = "prepared"
    /\ Moves(r, "pending")
    /\ UNCHANGED <<tx, code, link, event, rec, cur, results, crashes>>

CommitPending(r) ==
    /\ req[r].pc = "prepared"
    /\ rec' = [rec EXCEPT ![req[r].t] = "pending"]
    /\ Moves(r, "pending")
    /\ UNCHANGED <<tx, code, link, event, cur, results, crashes>>

\* ActivateLink answers alike for a link that is already active.
ActivateLink(r) ==
    LET t == req[r].t IN
    /\ req[r].pc = "pending" /\ link[t].st \in {"prepared", "active"}
    /\ link' = [link EXCEPT ![t].st = "active"]
    /\ Moves(r, "activated")
    /\ UNCHANGED <<tx, code, event, rec, cur, results, crashes>>

\* The centre refuses: the reservation ended.
ActivateRefused(r) ==
    LET t == req[r].t IN
    /\ req[r].pc = "pending" /\ link[t].st \notin {"prepared", "active"}
    /\ rec' = [rec EXCEPT ![t] = "ended"]
    /\ req' = [req EXCEPT ![r] = Idle]
    /\ UNCHANGED <<tx, code, link, event, cur, results, crashes>>

\* The answer is written over a pending record only: an event with a later version
\* may have ended it.
CommitActive(r) ==
    LET t == req[r].t IN
    /\ req[r].pc = "activated"
    /\ rec' = IF rec[t] = "pending" THEN [rec EXCEPT ![t] = "active"] ELSE rec
    /\ req' = [req EXCEPT ![r] = Idle]
    /\ UNCHANGED <<tx, code, link, event, cur, results, crashes>>

\* A record left pending is taken up again with the same link id.
RetryActivate(r, t) ==
    /\ req[r].pc = "idle" /\ rec[t] = "pending" /\ \A q \in Reqs : req[q].t # t
    /\ req' = [req EXCEPT ![r] = [Idle EXCEPT !.pc = "pending", !.t = t]]
    /\ UNCHANGED <<tx, code, link, event, rec, cur, results, crashes>>

-----------------------------------------------------------------------------
(* Revocation.                                                             *)

\* Mutant: the link is revoked and no event is queued.
RevokeLinkUnannounced(t) ==
    /\ link[t].st \in {"prepared", "active"}
    /\ link' = [link EXCEPT ![t].st = "revoked"]
    /\ UNCHANGED <<tx, code, event, rec, cur, req, results, crashes>>

\* By the user or by an application, of the version the caller has read.
RevokeLink(t) ==
    /\ link[t].st \in {"prepared", "active"}
    /\ link' = [link EXCEPT ![t].st = "revoked"]
    /\ event' = [event EXCEPT ![t] = "queued"]
    /\ UNCHANGED <<tx, code, rec, cur, req, results, crashes>>

\* The application applies the event to a record of an earlier version and marks it
\* as processed in the same transaction, so that a repetition changes nothing.
HandleNotification(t) ==
    /\ event[t] = "queued"
    /\ event' = [event EXCEPT ![t] = "done"]
    /\ rec' = IF rec[t] \in {"pending", "active"} THEN [rec EXCEPT ![t] = "ended"] ELSE rec
    /\ UNCHANGED <<tx, code, link, cur, req, results, crashes>>

-----------------------------------------------------------------------------
(* Faults, browsers and time.                                              *)

\* A refusal or a failed call ends a request that has recorded nothing yet.
Refused(r) ==
    /\ req[r].pc \in {"begun", "taken", "exchanged", "result", "prepared"}
    /\ req' = [req EXCEPT ![r] = Idle]
    /\ UNCHANGED <<tx, code, link, event, rec, cur, results, crashes>>

\* The answer of ActivateLink is lost or the application dies.
Crash(r) ==
    /\ req[r].pc \in {"pending", "activated"} /\ crashes < MaxCrashes
    /\ req' = [req EXCEPT ![r] = Idle] /\ crashes' = crashes + 1
    /\ UNCHANGED <<tx, code, link, event, rec, cur, results>>

SwitchAccount(b, a) ==
    /\ cur[b] # a
    /\ cur' = [cur EXCEPT ![b] = a]
    /\ UNCHANGED <<tx, code, link, event, rec, req, results, crashes>>

ExpireTx(t) ==
    /\ tx[t].st = "stored" /\ ~tx[t].expired
    /\ tx' = [tx EXCEPT ![t].expired = TRUE]
    /\ UNCHANGED <<code, link, event, rec, cur, req, results, crashes>>

\* Maintenance of the centre ends a reservation and sends no event.
ExpireIntent(t) ==
    /\ link[t].st \in {"pending", "confirmed", "prepared"}
    /\ link' = [link EXCEPT ![t].st = "revoked"]
    /\ UNCHANGED <<tx, code, event, rec, cur, req, results, crashes>>

Next ==
    \/ \E r \in Reqs, t \in Txs :
         \/ \E b \in Browsers : FinishLogin(r, t, b)
                                \/ \E p \in Purposes, a \in Accounts \cup {None} : begin(r, t, b, p, a)
         \/ RetryActivate(r, t)
    \/ \E r \in Reqs :
         \/ \E a \in Auths : Exchange(r, a)
         \/ Put(r) \/ ReturnResult(r) \/ PrepareLink(r) \/ CommitPending(r)
         \/ ActivateLink(r) \/ ActivateRefused(r) \/ CommitActive(r) \/ Refused(r)
         \/ Crash(r)
    \/ \E t \in Txs :
         \/ ExpireTx(t) \/ ExpireIntent(t) \/ RevokeLink(t) \/ HandleNotification(t)
         \/ \E a \in Auths, u \in Subjects : CompleteAuthorization(a, t, u)
    \/ \E b \in Browsers, a \in Accounts \cup {None} : SwitchAccount(b, a)

Spec == Init /\ [][Next]_vars

\* Every request ends, records left pending are taken up again, and events arrive.
Fairness ==
    /\ \A r \in Reqs : WF_vars(Put(r) \/ Refused(r) \/ ActivateLink(r) \/ ActivateRefused(r)
                               \/ CommitActive(r))
    /\ \A t \in Txs : WF_vars(\E r \in Reqs : RetryActivate(r, t))
    /\ \A t \in Txs : WF_vars(HandleNotification(t))

FairSpec == Spec /\ Fairness

-----------------------------------------------------------------------------
(* Properties.                                                             *)

\* A transaction gives one result, however often its callback comes back, to the
\* browser that began it and of a subject that authorized it.  A link that is
\* prepared or active at the centre has a result of the linked subject, given while
\* the browser was signed in to the linked account: no account that was switched to,
\* or from, between the redirect and the callback is linked, and no subject that
\* opened the redirect besides the one whose code came back.
LinksFollowResults ==
    /\ \A x, y \in results : x.t = y.t => x = y
    /\ \A x \in results : /\ x.b = tx[x.t].b
                           /\ \E a \in Auths : code[a].st = "used" /\ code[a].t = x.t
                                              /\ code[a].subj = x.subj
    /\ \A t \in Txs : link[t].st \in {"prepared", "active"} =>
         \E x \in results : x.t = t /\ x.acct = link[t].acct /\ x.subj = link[t].subj

\* The application has a record of every link that is active at the centre, so
\* that it can finish or undo it whatever call it died in.
ActiveLinksAreRecorded ==
    \A t \in Txs : link[t].st = "active" => rec[t] \in {"pending", "active"}

\* A record comes to agree with the centre, active or ended, from whatever state it
\* is in: when the application died or an answer was lost, when the reservation
\* expired, and when the link was revoked, also between the answer of ActivateLink
\* and the record of it.
RecordsAreSettled ==
    \A t \in Txs : rec[t] # "none" ~> \/ rec[t] = "active" /\ link[t].st = "active"
                                      \/ rec[t] = "ended" /\ link[t].st = "revoked"

=============================================================================
