----------------------------- MODULE DeviceFlow -----------------------------
(***************************************************************************)
(* The device authorization grant and the installations registered with    *)
(* its tokens (internal/core: device.go, installations.go, tokens.go;      *)
(* internal/httpapi: device.go, installations.go).                         *)
(*                                                                         *)
(* A poll that finds its code approved consumes it in one transaction; the *)
(* token is checked and inserted by later statements of the same request.  *)
(* A device token belongs to no browser session, so it depends on sweeps   *)
(* over its subject alone.  Poll intervals are counted in five seconds.    *)
(***************************************************************************)
EXTENDS Naturals, FiniteSets

CONSTANTS
    Codes,       \* pool of device authorizations
    Users,       \* identities
    Refs,        \* installation ids chosen by devices
    Tokens,      \* pool of device access tokens
    Installs,    \* pool of device_installations
    Reqs,        \* requests in flight
    MaxSweeps,   \* bound: sweeps over one user's tokens
    None

ASSUME BoundAssumption == MaxSweeps \in Nat
ASSUME NoneAssumption == None \notin Codes \cup Users \cup Refs \cup Tokens

VARIABLES
    dev,    \* device_authorizations
    user,   \* status and browser session of an identity, and its sweeps
    tok,    \* access_tokens of the grant device_code
    inst,   \* device_installations
    req     \* requests in flight

vars == <<dev, user, tok, inst, req>>

MaxInterval == 6
\* wait: next_poll_at is in the future; born, history: the denials at approval.
Dev == [st: {"absent", "pending", "approved", "denied", "consumed"}, u: Users \cup {None},
        interval: 1..MaxInterval, wait: BOOLEAN, expired: BOOLEAN, born: 0..MaxSweeps]
NoDev == [st |-> "absent", u |-> None, interval |-> 1, wait |-> FALSE,
          expired |-> FALSE, born |-> 0]
\* History: sweeps counts the revocations of all the user's access tokens,
\* denials those that also deny approved authorizations.
User == [active: BOOLEAN, session: BOOLEAN, sweeps: 0..MaxSweeps, denials: 0..MaxSweeps]
\* History: born, the sweeps at the INSERT; polled, the denials when the approval
\* was consumed.
Tok == [st: {"absent", "live", "revoked"}, u: Users \cup {None}, dev: Codes \cup {None},
        born: 0..MaxSweeps, polled: 0..MaxSweeps]
NoTok == [st |-> "absent", u |-> None, dev |-> None, born |-> 0, polled |-> 0]
Inst == [st: {"absent", "live", "revoked"}, ref: Refs \cup {None}, tok: Tokens \cup {None}]
NoInst == [st |-> "absent", ref |-> None, tok |-> None]
Req == [op: {"idle", "page", "confirm", "consumed", "valid", "register"},
        dev: Codes \cup {None}, u: Users \cup {None}, tok: Tokens \cup {None},
        polled: 0..MaxSweeps]
Idle == [op |-> "idle", dev |-> None, u |-> None, tok |-> None, polled |-> 0]

\* Variables hold what the schema and the Go types allow.
TypeOK ==
    /\ dev \in [Codes -> Dev]
    /\ user \in [Users -> User]
    /\ tok \in [Tokens -> Tok]
    /\ inst \in [Installs -> Inst]
    /\ req \in [Reqs -> Req]

Init ==
    /\ dev = [d \in Codes |-> NoDev]
    /\ user = [u \in Users |-> [active |-> TRUE, session |-> FALSE, sweeps |-> 0, denials |-> 0]]
    /\ tok = [t \in Tokens |-> NoTok]
    /\ inst = [i \in Installs |-> NoInst]
    /\ req = [r \in Reqs |-> Idle]

Begin(r, op, d, u, t) ==
    /\ req[r].op = "idle"
    /\ req' = [req EXCEPT ![r] = [op |-> op, dev |-> d, u |-> u, tok |-> t,
                                  polled |-> IF u = None THEN 0 ELSE user[u].denials]]
Done(r) == req' = [req EXCEPT ![r] = Idle]

\* A refusal, an error, or a client that goes away.
Refused(r) == req[r].op # "idle" /\ Done(r) /\ UNCHANGED <<dev, user, tok, inst>>

-----------------------------------------------------------------------------
(* The browser: start, page, confirmation.                                 *)

StoreDeviceAuthorization(d) ==
    /\ dev[d].st = "absent"
    /\ dev' = [dev EXCEPT ![d].st = "pending"]
    /\ UNCHANGED <<user, tok, inst, req>>

DeviceRequest(d) == dev[d].st = "pending" /\ ~dev[d].expired

\* The form proof binds the form to the code that was shown.
devicePage(r, d, u) ==
    /\ user[u].session /\ DeviceRequest(d)
    /\ Begin(r, "page", d, None, None)
    /\ UNCHANGED <<dev, user, tok, inst>>

\* deviceConfirm reads the session of the browser at that moment ...
deviceConfirm(r, u) ==
    /\ req[r].op = "page" /\ user[u].session
    /\ req' = [req EXCEPT ![r].op = "confirm", ![r].u = u]
    /\ UNCHANGED <<dev, user, tok, inst>>

\* ... and ConfirmDevice decides in a transaction of its own.
ConfirmDevice(r, approve) ==
    LET d == req[r].dev IN
    /\ req[r].op = "confirm" /\ DeviceRequest(d) /\ user[req[r].u].active
    /\ dev' = [dev EXCEPT ![d].st = IF approve THEN "approved" ELSE "denied",
                          ![d].u = req[r].u, ![d].born = user[req[r].u].denials]
    /\ Done(r)
    /\ UNCHANGED <<user, tok, inst>>

-----------------------------------------------------------------------------
(* The device: polls and token.                                            *)

\* A poll in time of a code that is neither expired nor decided waits again.
PollPending(d) ==
    /\ dev[d].st = "pending" /\ ~dev[d].expired /\ ~dev[d].wait
    /\ dev' = [dev EXCEPT ![d].wait = TRUE]
    /\ UNCHANGED <<user, tok, inst, req>>

SlowDown(n) == IF n + 1 > MaxInterval THEN MaxInterval ELSE n + 1

PollEarly(d) ==
    /\ dev[d].st \in {"pending", "approved"} /\ ~dev[d].expired /\ dev[d].wait
    /\ dev' = [dev EXCEPT ![d].interval = SlowDown(@)]
    /\ UNCHANGED <<user, tok, inst, req>>

\* Mutant: the approval stays for the next poll.
PollApprovedAgain(r, d) ==
    /\ dev[d].st = "approved" /\ ~dev[d].expired /\ ~dev[d].wait /\ user[dev[d].u].active
    /\ Begin(r, "consumed", d, dev[d].u, None)
    /\ UNCHANGED <<dev, user, tok, inst>>

PollApproved(r, d) ==
    /\ dev[d].st = "approved" /\ ~dev[d].expired /\ ~dev[d].wait /\ user[dev[d].u].active
    /\ dev' = [dev EXCEPT ![d].st = "consumed"]
    /\ Begin(r, "consumed", d, dev[d].u, None)
    /\ UNCHANGED <<user, tok, inst>>

GetDeviceAuthorizatonState(r, d) == PollPending(d) \/ PollEarly(d) \/ PollApproved(r, d)

\* CreateAccessToken: validateTokenSubject, then the INSERT.
ValidateSubject(r) ==
    /\ req[r].op = "consumed" /\ user[req[r].u].active
    /\ req' = [req EXCEPT ![r].op = "valid"]
    /\ UNCHANGED <<dev, user, tok, inst>>

InsertAccess(r, t) ==
    /\ req[r].op = "valid" /\ tok[t].st = "absent"
    /\ tok' = [tok EXCEPT ![t] = [st |-> "live", u |-> req[r].u, dev |-> req[r].dev,
                                  born |-> user[req[r].u].sweeps,
                                  polled |-> req[r].polled]]
    /\ Done(r)
    /\ UNCHANGED <<dev, user, inst>>

ActiveToken(t) == tok[t].st = "live" /\ user[tok[t].u].active

-----------------------------------------------------------------------------
(* Installations.                                                          *)

\* DeviceAccessToken and the second ActiveToken of RegisterDeviceInstallation.
registerDeviceInstallation(r, t) ==
    /\ ActiveToken(t)
    /\ Begin(r, "register", None, None, t)
    /\ UNCHANGED <<dev, user, tok, inst>>

\* The INSERT, under UNIQUE(device_token_id) and the index on live references.
RegisterDeviceInstallation(r, i, ref) ==
    /\ req[r].op = "register" /\ inst[i].st = "absent"
    /\ \A j \in Installs : /\ inst[j].st # "absent" => inst[j].tok # req[r].tok
                           /\ inst[j].st = "live" => inst[j].ref # ref
    /\ inst' = [inst EXCEPT ![i] = [st |-> "live", ref |-> ref, tok |-> req[r].tok]]
    /\ Done(r)
    /\ UNCHANGED <<dev, user, tok>>

\* Mutant: the installation is revoked and its token is left to expire.
RevokeInstallationOnly(i) ==
    /\ inst[i].st # "absent"
    /\ inst' = [inst EXCEPT ![i].st = "revoked"]
    /\ UNCHANGED <<dev, user, tok, req>>

\* By the owner or with the management secret.
RevokeInstallation(i) ==
    /\ inst[i].st # "absent"
    /\ inst' = [inst EXCEPT ![i].st = "revoked"]
    /\ tok' = [tok EXCEPT ![inst[i].tok].st = "revoked"]
    /\ UNCHANGED <<dev, user, req>>

revokeMyDeviceInstallation(i) ==
    inst[i].st # "absent" /\ user[tok[inst[i].tok].u].session /\ RevokeInstallation(i)
revokeDeviceInstallation(i) == RevokeInstallation(i)

-----------------------------------------------------------------------------
(* What happens to the identity, and time.                                 *)

\* Mutant: only the tokens of registered installations are revoked.
SweepInstalledTokens(u) ==
    [t \in Tokens |-> IF tok[t].u = u /\ \E i \in Installs : inst[i].st = "live" /\ inst[i].tok = t
                      THEN [tok[t] EXCEPT !.st = "revoked"] ELSE tok[t]]

SweepTokens(u) == [t \in Tokens |-> IF tok[t].u = u THEN [tok[t] EXCEPT !.st = "revoked"]
                                    ELSE tok[t]]

\* SetIdentityStatus: disabling sweeps sessions and tokens, not approvals.
Disable(u) ==
    /\ user[u].active /\ user[u].sweeps < MaxSweeps
    /\ user' = [user EXCEPT ![u].active = FALSE, ![u].session = FALSE, ![u].sweeps = @ + 1]
    /\ tok' = SweepTokens(u)
    /\ UNCHANGED <<dev, inst, req>>

Enable(u) ==
    /\ ~user[u].active
    /\ user' = [user EXCEPT ![u].active = TRUE]
    /\ UNCHANGED <<dev, tok, inst, req>>

\* Mutant: approvals are not denied.
CredentialChangeKeepsApprovals(u) ==
    /\ user[u].active /\ user[u].sweeps < MaxSweeps
    /\ user' = [user EXCEPT ![u].session = FALSE, ![u].sweeps = @ + 1, ![u].denials = @ + 1]
    /\ tok' = SweepTokens(u)
    /\ UNCHANGED <<dev, inst, req>>

\* ChangePassword, RedeemCredential (recovery) and RedeemMFAReset, at the moment of
\* their UPDATEs: a row that commits between these and their commit is a row
\* inserted after the step.
CredentialChange(u) ==
    /\ user[u].active /\ user[u].sweeps < MaxSweeps
    /\ user' = [user EXCEPT ![u].session = FALSE, ![u].sweeps = @ + 1, ![u].denials = @ + 1]
    /\ tok' = SweepTokens(u)
    /\ dev' = [d \in Codes |-> IF dev[d].st = "approved" /\ dev[d].u = u
                                 THEN [dev[d] EXCEPT !.st = "denied"] ELSE dev[d]]
    /\ UNCHANGED <<inst, req>>

Login(u) ==
    /\ user[u].active /\ ~user[u].session
    /\ user' = [user EXCEPT ![u].session = TRUE]
    /\ UNCHANGED <<dev, tok, inst, req>>

Time(d) ==
    /\ dev[d].st # "absent"
    /\ \/ dev[d].wait /\ dev' = [dev EXCEPT ![d].wait = FALSE]
       \/ ~dev[d].expired /\ dev' = [dev EXCEPT ![d].expired = TRUE]
    /\ UNCHANGED <<user, tok, inst, req>>

-----------------------------------------------------------------------------

Next ==
    \/ \E d \in Codes : StoreDeviceAuthorization(d) \/ Time(d)
    \/ \E u \in Users : Disable(u) \/ Enable(u) \/ CredentialChange(u) \/ Login(u)
    \/ \E i \in Installs : revokeMyDeviceInstallation(i) \/ revokeDeviceInstallation(i)
    \/ \E r \in Reqs :
         \/ \E d \in Codes : GetDeviceAuthorizatonState(r, d)
                             \/ \E u \in Users : devicePage(r, d, u)
         \/ \E u \in Users : deviceConfirm(r, u)
         \/ \E approve \in BOOLEAN : ConfirmDevice(r, approve)
         \/ \E t \in Tokens : InsertAccess(r, t) \/ registerDeviceInstallation(r, t)
         \/ \E i \in Installs, ref \in Refs : RegisterDeviceInstallation(r, i, ref)
         \/ ValidateSubject(r) \/ Refused(r)

Spec == Init /\ [][Next]_vars

-----------------------------------------------------------------------------
(* Properties.                                                             *)

\* One confirmation pairs one installation at most: however polls, token
\* inserts and registrations of a code interleave, they leave one token and
\* one installation row for it.
OneInstallationPerCode ==
    \A d \in Codes :
        LET mine == {t \in Tokens : tok[t].st # "absent" /\ tok[t].dev = d} IN
        /\ Cardinality(mine) <= 1
        /\ Cardinality({i \in Installs : inst[i].st # "absent" /\ inst[i].tok \in mine}) <= 1

\* The token of a revoked installation is never active, also when the token was
\* inserted or the installation registered while the revocation was under way,
\* and stays so when the identity is disabled and enabled again.
RevokedInstallationHasNoToken ==
    \A i \in Installs : inst[i].st = "revoked" => ~ActiveToken(inst[i].tok)

\* A change of password or second factor ends every approval that was in the
\* database when it swept, also of codes that were confirmed while polls ran.
CredentialChangeEndsApprovals ==
    \A d \in Codes : dev[d].st = "approved" => dev[d].born = user[dev[d].u].denials

\* A device token is active only if it was inserted after the last sweep over its
\* subject, and if the user approved it since the last change of password or second
\* factor, or its poll had consumed the approval before that change swept.  A token
\* whose subject was checked before a sweep and that is inserted behind it is such a
\* token: InsertedForActive is about it.
DeviceTokensFollowApprovals ==
    \A t \in Tokens : tok[t].st # "absent" /\ ActiveToken(t) =>
        /\ tok[t].born = user[tok[t].u].sweeps
        /\ \/ dev[tok[t].dev].born = user[tok[t].u].denials
           \/ tok[t].polled < user[tok[t].u].denials

\* What the check of the subject in CreateAccessToken suggests and the code does not
\* keep (MCDeviceDisabled.cfg): no device token is inserted for an identity that is
\* disabled at that moment.  The check and the INSERT are two statements, and the
\* token becomes active when the identity is enabled.
InsertedForActive ==
    [][\A t \in Tokens : tok[t].st = "absent" /\ tok'[t].st = "live"
                          => user[tok'[t].u].active]_vars

=============================================================================
