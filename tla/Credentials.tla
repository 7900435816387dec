---------------------------- MODULE Credentials ----------------------------
(***************************************************************************)
(* Passwords, second factors, one-time credentials and the browser         *)
(* sessions that rest on them (internal/core/account_security.go, store.go *)
(* and the handlers of internal/httpapi that call them).                   *)
(*                                                                         *)
(* A handler is a request of several statements: each statement or         *)
(* transaction is one action, and what the request has read so far is kept *)
(* in req[r].  A password is the number of the change that set it, so a    *)
(* request that presents a wrong one is a request that ends.               *)
(* 'Recent' (five minutes) is a flag that time clears.                     *)
(***************************************************************************)
EXTENDS Integers, FiniteSets

CONSTANTS
    Users,       \* identities; a user stands for its e-mail address too
    Admins,      \* the users of role admin, active from the start
    Sessions,    \* pool of browser_sessions.id
    Creds,       \* pool of one-time credentials
    Issued,      \* the kinds of credential administrators issue
    Reqs,        \* requests in flight
    MaxPw,       \* bound: passwords of a user
    MaxSecret,   \* bound: TOTP secrets generated
    MaxStep,     \* bound: thirty-second steps
    MaxCodes,    \* bound: recovery codes generated
    None

Kinds == {"invite", "recovery", "mfa_reset"}

ASSUME AdminsAssumption == Admins \subseteq Users /\ Issued \subseteq Kinds
ASSUME NoneAssumption == None \notin Users \cup Sessions \cup Creds
\* Passwords are numbered from 1.
ASSUME BoundsAssumption == {MaxPw, MaxSecret, MaxStep, MaxCodes} \subseteq Nat /\ MaxPw # 0

VARIABLES
    ident,    \* identities
    code,     \* recovery_codes: the secret each was issued with, 0 when not valid
    sess,     \* browser_sessions
    cred,     \* one_time_credentials
    req,      \* requests in flight
    made,     \* secrets and recovery codes generated so far
    uses      \* history: how often each factor has been accepted

vars == <<ident, code, sess, cred, req, made, uses>>

\* A factor is <<secret, step>> or <<0, number of a recovery code>>.
Totp == (1..MaxSecret) \X (0..MaxStep)
Factors == Totp \cup ({0} \X (1..MaxCodes))

Ident == [st: {"absent", "active"}, pw: 0..MaxPw, mfa: 0..MaxSecret,
          pend: 0..MaxSecret, last: 0..MaxStep + 1]
\* History: pw0, mfa0 are the password and the secret its login verified (0: none was
\* enrolled), or the secret the session itself enrolled.  late is set when those were no
\* longer in force at the INSERT, or a recovery of its user was waiting to commit.
Sess == [st: {"absent", "live", "revoked"}, u: Users \cup {None}, fresh: BOOLEAN,
         mfa: BOOLEAN, pw0: 0..MaxPw, mfa0: 0..MaxSecret, late: BOOLEAN]
\* over: the credentials of its kind and address that its issue had to void.
Cred == [st: {"absent", "live", "spent"}, kind: Kinds \cup {None},
         u: Users \cup {None}, over: SUBSET Creds]
Req == [op: {"idle", "login", "enroll", "confirm", "rotate", "reauth", "change",
             "reset", "issue", "recover"},
        pc: {"entered", "password", "mfa", "verified", "mark", "stamp", "swept"},
        u: Users \cup {None}, s: Sessions \cup {None}, c: Creds \cup {None},
        pw: 0..MaxPw, enabled: BOOLEAN, factor: 0..MaxSecret,
        kind: Kinds \cup {None}, over: SUBSET Creds, swept: SUBSET Sessions]

NoSess == [st |-> "absent", u |-> None, fresh |-> FALSE, mfa |-> FALSE,
           pw0 |-> 0, mfa0 |-> 0, late |-> FALSE]
NoCred == [st |-> "absent", kind |-> None, u |-> None, over |-> {}]
Idle == [op |-> "idle", pc |-> "entered", u |-> None, s |-> None, c |-> None,
         pw |-> 0, enabled |-> FALSE, factor |-> 0, kind |-> None, over |-> {},
         swept |-> {}]

\* Variables hold what the schema and the Go types allow.
TypeOK ==
    /\ ident \in [Users -> Ident]
    /\ code \in [1..MaxCodes -> [u: Users \cup {None}, secret: 0..MaxSecret]]
    /\ sess \in [Sessions -> Sess]
    /\ cred \in [Creds -> Cred]
    /\ req \in [Reqs -> Req]
    /\ made \in [secrets: 0..MaxSecret, codes: 0..MaxCodes]
    /\ uses \in [Factors -> 0..2]

NoCode == [u |-> None, secret |-> 0]

\* last is mfa_last_step + 1.
Init ==
    /\ ident = [u \in Users |->
                  [st |-> IF u \in Admins THEN "active" ELSE "absent",
                   pw |-> IF u \in Admins THEN 1 ELSE 0,
                   mfa |-> 0, pend |-> 0, last |-> 0]]
    /\ code = [n \in 1..MaxCodes |-> NoCode]
    /\ sess = [s \in Sessions |-> NoSess]
    /\ cred = [c \in Creds |-> NoCred]
    /\ req = [r \in Reqs |-> Idle]
    /\ made = [secrets |-> 0, codes |-> 0]
    /\ uses = [f \in Factors |-> 0]

Active(u) == ident[u].st = "active"
Session(s) == sess[s].st = "live" /\ Active(sess[s].u)
RequireAdmin(s) == sess[s].u \in Admins /\ ident[sess[s].u].mfa # 0 /\ sess[s].mfa

At(r, op, pc) == req[r].op = op /\ req[r].pc = pc
Goto(r, pc) == req' = [req EXCEPT ![r].pc = pc]
Done(r) == req' = [req EXCEPT ![r] = Idle]
\* A recovery holds the rows of the identity and of its sessions until it commits, and a
\* rotation of recovery codes the row of the identity; a statement that locks it waits.
Recovering(u) == \E r \in Reqs : req[r].op = "recover" /\ req[r].u = u
Rotating(u) == \E r \in Reqs : At(r, "rotate", "entered") /\ req[r].u = u
Locked(u) == Recovering(u) \/ Rotating(u)
Free(s) == \A r \in Reqs : s \notin req[r].swept
Use(f) == uses' = [uses EXCEPT ![f] = IF @ = 2 THEN 2 ELSE @ + 1]

\* UPDATE browser_sessions SET revoked_at ... over the sessions of S; nothing
\* reads the other columns of a revoked row.
Revoked(S) == [s \in Sessions |->
                 IF s \in S /\ sess[s].st = "live"
                   THEN [NoSess EXCEPT !.st = "revoked", !.u = sess[s].u] ELSE sess[s]]
SessionsOf(u) == {s \in Sessions : sess[s].u = u}

-----------------------------------------------------------------------------
(* The gate of every handler that needs a session.                         *)

Enter(r, new) ==
    /\ req[r].op = "idle"
    /\ req' = [req EXCEPT ![r] = new]
    /\ UNCHANGED <<ident, code, sess, cred, made, uses>>

\* ConfirmMFA alone is handed the session and looks at it later.
Authenticated(r, op, s) ==
    /\ Session(s)
    /\ Enter(r, [Idle EXCEPT !.op = op, !.u = sess[s].u,
                             !.s = IF op = "confirm" THEN s ELSE None])

\* Authenticate reads the hash and finds that the password matches it.
Authenticate(r, op, u, s, c) ==
    /\ Active(u)
    /\ Enter(r, [Idle EXCEPT !.op = op, !.pc = "password", !.u = u, !.s = s, !.c = c,
                             !.pw = ident[u].pw])

enrollMFA(r, s) == sess[s].fresh /\ Authenticated(r, "enroll", s)
confirmMFA(r, s) == sess[s].fresh /\ Authenticated(r, "confirm", s)
\* The SELECT of RotateMFARecoveryCodes asks again for the session the handler has read.
\* It locks the identity alone (FOR UPDATE OF i), so the session may end before the commit.
rotateMFARecoveryCodes(r, s) ==
    /\ sess[s].fresh /\ sess[s].mfa /\ ident[sess[s].u].mfa # 0 /\ ~Locked(sess[s].u)
    /\ Authenticated(r, "rotate", s)
issueCredential(r, s) == RequireAdmin(s) /\ Authenticated(r, "issue", s)

\* These four read nothing else before Authenticate reads the password.
login(r, u) == Authenticate(r, "login", u, None, None)
reauthenticate(r, s) == Session(s) /\ Authenticate(r, "reauth", sess[s].u, s, None)
changePassword(r, s) == Session(s) /\ Authenticate(r, "change", sess[s].u, s, None)
redeemMFAReset(r, c) ==
    /\ cred[c].st = "live" /\ cred[c].kind = "mfa_reset"
    /\ Authenticate(r, "reset", cred[c].u, None, c)

\* A statement fails or finds no row, or the client goes away.
Refused(r) ==
    /\ req[r].op # "idle"
    /\ Done(r)
    /\ UNCHANGED <<ident, code, sess, cred, made, uses>>

-----------------------------------------------------------------------------
(* The second factor, as checked by login, reauthentication and password change.   *)

MFAEnabled(r) ==
    /\ \E op \in {"login", "reauth", "change"} : At(r, op, "password")
    /\ Active(req[r].u)
    /\ LET on == ident[req[r].u].mfa # 0 IN
       req' = [req EXCEPT ![r].pc = IF on THEN "mfa" ELSE "verified", ![r].enabled = on]
    /\ UNCHANGED <<ident, code, sess, cred, made, uses>>

\* totpStep: the code of a secret is accepted one step early or late.  Requests
\* are verified at any time, so the present step is any of the bounded ones.
totpStep(secret, f) == f[1] = secret /\ \E now \in 0..MaxStep : f[2] \in (now - 1)..(now + 1)

\* Mutant: a code is accepted for as long as its step is in the window.
VerifyTotpReplayed(r, f) ==
    LET u == req[r].u IN
    /\ req[r].pc = "mfa" /\ Active(u) /\ ident[u].mfa # 0 /\ ~Locked(u)
    /\ totpStep(ident[u].mfa, f)
    /\ ident' = [ident EXCEPT ![u].last = f[2] + 1]
    /\ req' = [req EXCEPT ![r].pc = "verified", ![r].factor = ident[u].mfa]
    /\ Use(f)
    /\ UNCHANGED <<code, sess, cred, made>>

VerifyTotp(r, f) ==
    LET u == req[r].u IN
    /\ req[r].pc = "mfa" /\ Active(u) /\ ident[u].mfa # 0 /\ ~Locked(u)
    /\ totpStep(ident[u].mfa, f) /\ f[2] >= ident[u].last
    /\ ident' = [ident EXCEPT ![u].last = f[2] + 1]
    /\ req' = [req EXCEPT ![r].pc = "verified", ![r].factor = ident[u].mfa]
    /\ Use(f)
    /\ UNCHANGED <<code, sess, cred, made>>

VerifyRecoveryCode(r, n) ==
    LET u == req[r].u IN
    /\ req[r].pc = "mfa" /\ Active(u) /\ ident[u].mfa # 0 /\ ~Locked(u)
    /\ code[n].u = u
    /\ code' = [code EXCEPT ![n] = NoCode]
    /\ req' = [req EXCEPT ![r].pc = "verified", ![r].factor = ident[u].mfa]
    /\ Use(<<0, n>>)
    /\ UNCHANGED <<ident, sess, cred, made>>

-----------------------------------------------------------------------------
(* How login, reauthentication and password change end.                    *)

\* A password or a factor has changed since Authenticate or VerifyMFA read it, or a
\* recovery has changed it and has yet to commit.
Late(r) == LET i == ident[req[r].u] IN
    req[r].pw # i.pw \/ req[r].factor # i.mfa \/ Recovering(req[r].u)

\* The INSERT asks for an active identity and not for what the login has verified.
NewSession(r, s) ==
    LET u == req[r].u IN
    /\ At(r, "login", "verified") /\ sess[s].st = "absent" /\ Active(u) /\ ~Rotating(u)
    /\ sess' = [sess EXCEPT ![s] = [NoSess EXCEPT !.st = "live", !.u = u, !.fresh = TRUE,
                                       !.pw0 = req[r].pw, !.mfa0 = req[r].factor,
                                       !.late = Late(r)]]
    /\ IF req[r].enabled THEN req' = [req EXCEPT ![r].pc = "mark", ![r].s = s] ELSE Done(r)
    /\ UNCHANGED <<ident, code, cred, made, uses>>

MarkMFA(r) ==
    LET s == req[r].s IN
    /\ \/ At(r, "login", "mark") /\ Done(r)
       \/ At(r, "reauth", "verified") /\ req[r].enabled /\ Goto(r, "stamp")
    /\ Session(s) /\ Free(s)
    /\ sess' = [sess EXCEPT ![s].mfa = TRUE]
    /\ UNCHANGED <<ident, code, cred, made, uses>>

\* The last statement of reauthenticate; it writes a revoked row too.
Restamp(r) ==
    LET s == req[r].s IN
    /\ At(r, "reauth", "stamp") \/ (At(r, "reauth", "verified") /\ ~req[r].enabled)
    /\ Free(s)
    /\ sess' = IF sess[s].st = "live" THEN [sess EXCEPT ![s].fresh = TRUE] ELSE sess
    /\ Done(r)
    /\ UNCHANGED <<ident, code, cred, made, uses>>

\* The sweep over the sessions of a subject.  Those over its tokens, pending codes
\* and device approvals are in TokenLifecycle and DeviceFlow.
RevokeAll(u) == sess' = Revoked(SessionsOf(u))

\* Mutant: the transaction does not look at the session again.
ChangePasswordAnySession(r) ==
    LET u == req[r].u IN
    /\ At(r, "change", "verified") /\ ~Locked(u)
    /\ Active(u) /\ ident[u].pw < MaxPw
    /\ (ident[u].mfa # 0) = req[r].enabled
    /\ ident[u].pw = req[r].pw
    /\ ident' = [ident EXCEPT ![u].pw = @ + 1]
    /\ RevokeAll(u)
    /\ Done(r)
    /\ UNCHANGED <<code, cred, made, uses>>

ChangePassword(r) ==
    LET u == req[r].u IN
    /\ At(r, "change", "verified") /\ ~Locked(u)
    /\ Session(req[r].s) /\ ident[u].pw < MaxPw
    /\ (ident[u].mfa # 0) = req[r].enabled
    /\ ident[u].pw = req[r].pw
    /\ ident' = [ident EXCEPT ![u].pw = @ + 1]
    /\ RevokeAll(u)
    /\ Done(r)
    /\ UNCHANGED <<code, cred, made, uses>>

-----------------------------------------------------------------------------
(* Enrolment and recovery codes.                                           *)

BeginMFA(r) ==
    LET u == req[r].u IN
    /\ At(r, "enroll", "entered") /\ Active(u) /\ ident[u].mfa = 0 /\ ~Locked(u)
    /\ made.secrets < MaxSecret
    /\ made' = [made EXCEPT !.secrets = @ + 1]
    /\ ident' = [ident EXCEPT ![u].pend = made.secrets + 1]
    /\ Done(r)
    /\ UNCHANGED <<code, sess, cred, uses>>

\* The user's codes are replaced by a new set (here of one; eight in the code).
NewCodes(u, secret) ==
    /\ made.codes < MaxCodes
    /\ made' = [made EXCEPT !.codes = @ + 1]
    /\ code' = [n \in 1..MaxCodes |->
                  IF n = made.codes + 1 THEN [u |-> u, secret |-> secret]
                  ELSE IF code[n].u = u THEN NoCode ELSE code[n]]
\* Enrolment inserts without deleting.
AddCodes(u, secret) ==
    /\ made.codes < MaxCodes
    /\ made' = [made EXCEPT !.codes = @ + 1]
    /\ code' = [code EXCEPT ![made.codes + 1] = [u |-> u, secret |-> secret]]

ConfirmMFA(r, f) ==
    LET u == req[r].u
        me == req[r].s
        others == Revoked(SessionsOf(u) \ {me})
    IN
    /\ At(r, "confirm", "entered") /\ Active(u) /\ ~Locked(u)
    /\ ident[u].mfa = 0 /\ ident[u].pend # 0 /\ totpStep(ident[u].pend, f)
    /\ ident' = [ident EXCEPT ![u].mfa = ident[u].pend, ![u].pend = 0, ![u].last = f[2] + 1]
    /\ AddCodes(u, ident[u].pend)
    /\ sess' = IF sess[me].st = "live"
                 THEN [others EXCEPT ![me].mfa = TRUE, ![me].mfa0 = ident[u].pend]
                 ELSE others
    /\ Use(f)
    /\ Done(r)
    /\ UNCHANGED <<cred>>

\* The commit of the rotation; under the lock the factor is the one its SELECT has read.
RotateMFARecoveryCodes(r) ==
    LET u == req[r].u IN
    /\ At(r, "rotate", "entered") /\ ident[u].mfa # 0
    /\ NewCodes(u, ident[u].mfa)
    /\ Done(r)
    /\ UNCHANGED <<ident, sess, cred, uses>>

-----------------------------------------------------------------------------
(* One-time credentials.                                                   *)

Void(S) == [c \in Creds |-> IF c \in S THEN [cred[c] EXCEPT !.st = "spent", !.over = {}] ELSE cred[c]]
Same(kind, u) == {c \in Creds : cred[c].kind = kind /\ cred[c].u = u}

Unlocked(c) == \A r \in Reqs : /\ At(r, "issue", "swept") => c \notin req[r].over
                               /\ req[r].op = "recover" => c # req[r].c

\* IssueCredential's UPDATE locks the older ones it sees until the commit.
IssueSweep(r, kind, u) ==
    /\ At(r, "issue", "entered")
    /\ kind # "invite" => Active(u) /\ (kind = "mfa_reset" => ident[u].mfa # 0)
    /\ \A q \in Reqs : req[q].op = "recover" => req[q].c \notin Same(kind, u)
    /\ req' = [req EXCEPT ![r].pc = "swept", ![r].kind = kind, ![r].u = u,
                          ![r].over = Same(kind, u)]
    /\ UNCHANGED <<ident, code, sess, cred, made, uses>>

Inserted(r) == [st |-> "live", kind |-> req[r].kind, u |-> req[r].u, over |-> req[r].over]

\* Mutant: the older ones stay valid.
IssueInsertOnly(r, c) ==
    /\ At(r, "issue", "swept") /\ cred[c].st = "absent"
    /\ cred' = [cred EXCEPT ![c] = Inserted(r)]
    /\ Done(r)
    /\ UNCHANGED <<ident, code, sess, made, uses>>

\* The UPDATE and the INSERT become visible with the commit.
IssueInsert(r, c) ==
    /\ At(r, "issue", "swept") /\ cred[c].st = "absent"
    /\ cred' = [Void(req[r].over) EXCEPT ![c] = Inserted(r)]
    /\ Done(r)
    /\ UNCHANGED <<ident, code, sess, made, uses>>

\* Mutant: the old recovery codes are not deleted.
RedeemMFAResetKeepsCodes(r) ==
    LET u == req[r].u IN
    /\ At(r, "reset", "password") /\ cred[req[r].c].st = "live" /\ Unlocked(req[r].c)
    /\ Active(u) /\ ident[u].mfa # 0 /\ ~Locked(u)
    /\ cred' = Void({req[r].c})
    /\ ident' = [ident EXCEPT ![u].mfa = 0, ![u].pend = 0, ![u].last = 0]
    /\ RevokeAll(u)
    /\ Done(r)
    /\ UNCHANGED <<code, made, uses>>

RedeemMFAReset(r) ==
    LET u == req[r].u IN
    /\ At(r, "reset", "password") /\ cred[req[r].c].st = "live" /\ Unlocked(req[r].c)
    /\ Active(u) /\ ident[u].mfa # 0 /\ ~Locked(u)
    /\ cred' = Void({req[r].c})
    /\ ident' = [ident EXCEPT ![u].mfa = 0, ![u].pend = 0, ![u].last = 0]
    /\ code' = [n \in 1..MaxCodes |-> IF code[n].u = u THEN NoCode ELSE code[n]]
    /\ RevokeAll(u)
    /\ Done(r)
    /\ UNCHANGED <<made, uses>>

\* identities.email is unique: an address that has an account rolls back.
RedeemInvite(c) ==
    LET u == cred[c].u IN
    /\ cred[c].st = "live" /\ cred[c].kind = "invite" /\ Unlocked(c)
    /\ ident[u].st = "absent"
    /\ cred' = Void({c})
    /\ ident' = [ident EXCEPT ![u].st = "active", ![u].pw = 1]
    /\ UNCHANGED <<code, sess, req, made, uses>>

\* RedeemCredential of a recovery changes only password_hash, so its row lock lets
\* the foreign-key check of NewSession through: a session may be inserted between
\* its UPDATE browser_sessions ...
RecoverySweep(r, c) ==
    LET u == cred[c].u IN
    /\ cred[c].st = "live" /\ cred[c].kind = "recovery" /\ Unlocked(c)
    /\ Active(u) /\ ident[u].pw < MaxPw /\ ~Locked(u)
    /\ Enter(r, [Idle EXCEPT !.op = "recover", !.pc = "swept", !.u = u, !.c = c,
                             !.swept = SessionsOf(u)])

\* Mutant: recovery replaces the password and leaves the sessions.
RedeemRecoveryKeepsSessions(r) ==
    /\ At(r, "recover", "swept")
    /\ cred' = Void({req[r].c})
    /\ ident' = [ident EXCEPT ![req[r].u].pw = @ + 1]
    /\ Done(r)
    /\ UNCHANGED <<code, sess, made, uses>>

\* ... and its commit.
RedeemRecovery(r) ==
    /\ At(r, "recover", "swept")
    /\ cred' = Void({req[r].c})
    /\ ident' = [ident EXCEPT ![req[r].u].pw = @ + 1]
    /\ sess' = Revoked(req[r].swept)
    /\ Done(r)
    /\ UNCHANGED <<code, made, uses>>

redeem(r, c) == RedeemInvite(c) \/ RecoverySweep(r, c)

-----------------------------------------------------------------------------
(* What a session is used for, and time.                                   *)

\* Logout, or eight hours.
SessionEnds(s) ==
    /\ sess[s].st = "live"
    /\ sess' = Revoked({s})
    /\ UNCHANGED <<ident, code, cred, req, made, uses>>

\* authenticated_at or mfa_at is five minutes old.
Ages(s) ==
    /\ sess[s].st = "live"
    /\ \/ sess[s].fresh /\ sess' = [sess EXCEPT ![s].fresh = FALSE]
       \/ sess[s].mfa /\ sess' = [sess EXCEPT ![s].mfa = FALSE]
    /\ UNCHANGED <<ident, code, cred, req, made, uses>>

CredentialExpires(c) ==
    /\ cred[c].st = "live" /\ Unlocked(c)
    /\ cred' = Void({c})
    /\ UNCHANGED <<ident, code, sess, req, made, uses>>

\* pending_mfa_expires passes; Maintenance clears the column.
PendingExpires(u) ==
    /\ ident[u].pend # 0 /\ ~Locked(u)
    /\ ident' = [ident EXCEPT ![u].pend = 0]
    /\ UNCHANGED <<code, sess, cred, req, made, uses>>

-----------------------------------------------------------------------------

Handler(r) ==
    \/ \E s \in Sessions : \/ enrollMFA(r, s) \/ confirmMFA(r, s)
                           \/ rotateMFARecoveryCodes(r, s) \/ reauthenticate(r, s)
                           \/ changePassword(r, s) \/ issueCredential(r, s)
    \/ \E u \in Users : login(r, u)
    \/ \E c \in Creds : redeemMFAReset(r, c) \/ redeem(r, c)

Statement(r) ==
    \/ MFAEnabled(r) \/ MarkMFA(r) \/ Restamp(r)
    \/ \E f \in Totp : VerifyTotp(r, f) \/ ConfirmMFA(r, f)
    \/ \E n \in 1..MaxCodes : VerifyRecoveryCode(r, n)
    \/ \E s \in Sessions : NewSession(r, s)
    \/ ChangePassword(r) \/ BeginMFA(r) \/ RotateMFARecoveryCodes(r)
    \/ \E kind \in Issued, u \in Users : IssueSweep(r, kind, u)
    \/ \E c \in Creds : IssueInsert(r, c)
    \/ RedeemMFAReset(r) \/ RedeemRecovery(r)

Environment ==
    \/ \E s \in Sessions : SessionEnds(s) \/ Ages(s)
    \/ \E c \in Creds : CredentialExpires(c)
    \/ \E u \in Users : PendingExpires(u)

Next == (\E r \in Reqs : Handler(r) \/ Statement(r) \/ Refused(r)) \/ Environment

Spec == Init /\ [][Next]_vars

-----------------------------------------------------------------------------
(* Properties.                                                             *)

\* A TOTP step of a secret, or a recovery code, is accepted at most once,
\* whichever requests present it and whether it confirms an enrolment or
\* passes VerifyMFA (mfa_last_step, recovery_codes.consumed_at).
FactorAcceptedOnce == \A f \in Factors : uses[f] <= 1

\* The login of a live session verified the password now in force, and the second factor
\* now in force unless the session itself enrolled it: no change of either leaves an
\* earlier session behind.  Excepted are the sessions of a login that a change overtook:
\* it had verified before the change and inserted after the change's sweep, and NewSession
\* looks at neither again (server.go:248, store.go:192).
SessionsFollowCredentials ==
    \A s \in Sessions : sess[s].st = "live" /\ ~sess[s].late =>
        LET i == ident[sess[s].u] IN
        /\ sess[s].pw0 = i.pw
        /\ sess[s].mfa0 = i.mfa

\* Password recovery ends the sessions of the old password ("password recovery
\* keeps the subject and revokes old sessions"): a session whose login verified an
\* earlier password is not live.
RecoveryEndsOldSessions ==
    \A s \in Sessions : sess[s].st = "live" => sess[s].pw0 = ident[sess[s].u].pw

\* Recovery codes that VerifyMFA accepts were issued with the secret that is
\* enrolled: none survives a reset into the next enrolment.
CodesMatchSecret ==
    \A n \in 1..MaxCodes : code[n].u # None => code[n].secret = ident[code[n].u].mfa

\* Two live credentials of a kind for an address come from issues that
\* overlapped: an issue voids every one that was there when it began.
IssueVoidsEarlier ==
    \A c, d \in Creds : cred[c].st = "live" /\ cred[d].st = "live" => c \notin cred[d].over

\* A password change that had to pass the second factor passed the one that is
\* enrolled at the moment of the change, although ChangePassword compares only
\* whether one is enrolled: a reset in between has ended the session.
ChangeVerifiedCurrentFactor ==
    [][\A r \in Reqs, u \in Users :
          req[r].op = "change" /\ req[r].u = u /\ req'[r] = Idle /\ ident'[u].pw # ident[u].pw
          => req[r].factor = ident[u].mfa]_vars

\* "RedeemMFAReset requires both the administrator-issued one-time credential
\* and the account's current password": the password a reset presented is the
\* account's when the second factor is cleared.
ResetUsesCurrentPassword ==
    [][\A r \in Reqs : req[r].op = "reset" /\ cred' # cred /\ req'[r] = Idle
                       /\ cred'[req[r].c].st # cred[req[r].c].st
                       /\ ident'[req[r].u].mfa # ident[req[r].u].mfa
          => req[r].pw = ident[req[r].u].pw]_vars

=============================================================================
