--------------------------- MODULE TokenLifecycle ---------------------------
(***************************************************************************)
(* Identities, browser sessions, authorization requests, refresh-token     *)
(* families and access tokens of FastCAS (internal/core: store.go,         *)
(* authorization.go, tokens.go, logout.go, account_security.go).           *)
(*                                                                         *)
(* The server runs many HTTP handlers at once against one PostgreSQL       *)
(* database at READ COMMITTED.  A statement, or a transaction that starts  *)
(* by locking the rows its competitors lock, is one action.  A handler     *)
(* that checks in one statement and writes in a later one is several       *)
(* actions of the same handler, and anything may happen in between.        *)
(*                                                                         *)
(* Identifiers are RandomToken()s: a fresh one is any unused element of a  *)
(* finite pool.  Expiry is a step that may happen at any time.             *)
(***************************************************************************)
EXTENDS Naturals, FiniteSets

CONSTANTS
    Identities,  \* identities.id
    Admins,      \* the identities whose role is 'admin'
    Clients,     \* applications.id of user-facing applications (never deactivated)
    Linked,      \* the clients holding an active account link to every identity
    Sessions,    \* pool of browser_sessions.id
    Requests,    \* pool of auth_requests.id, each with its one authorization code
    Families,    \* pool of token_families.id
    Refreshes,   \* pool of refresh_tokens.token_hash
    Accesses,    \* pool of access_tokens.id
    Handlers,    \* HTTP handlers in flight
    Sweepers,    \* revocation transactions in flight
    None

ASSUME RolesAssumption == Admins \subseteq Identities /\ Linked \subseteq Clients

\* Random identifiers of different tables never coincide, and none is NULL.
ASSUME FreshIdsAssumption ==
    /\ None \notin Identities \cup Clients \cup Sessions \cup Requests
                     \cup Families \cup Refreshes \cup Accesses
    /\ Requests \cap Refreshes = {}

VARIABLES
    status,    \* identities.status
    session,   \* browser_sessions
    authReq,   \* auth_requests
    family,    \* token_families
    refresh,   \* refresh_tokens
    access,    \* access_tokens
    notices,   \* the logout and status rows put into the outbox
    handler,   \* what each HTTP handler has read so far
    sweep,     \* revocation transactions that have not committed
    presented  \* history: how often a refresh token's presentation was decided

tables == <<status, session, authReq, family, refresh, access, notices>>
vars == <<status, session, authReq, family, refresh, access, notices,
          handler, sweep, presented>>

-----------------------------------------------------------------------------
(* Rows.                                                                   *)

\* The part of a Token's or an Authorization's payload that later checks use.
Payload == [client: Clients, subject: Identities, sid: Sessions \cup {None}]

\* A row without a payload is told apart from every payload.
ASSUME PayloadAssumption == None \notin Payload

\* by is a history field: whether ConfirmMFA or a logout was the first to set revoked_at.
SessionRow == [st: {"unused", "live", "expired", "revoked"},
               owner: Identities \cup {None}, by: {"none", "logout", "confirm_mfa"}]
AuthReqRow == [st: {"unused", "pending", "authenticated", "coded",
                    "consumed", "expired"},
               client: Clients \cup {None}, tok: Payload \cup {None}]
FamilyRow  == [st: {"unused", "live", "expired", "revoked"}, tok: Payload \cup {None}]
RefreshRow == [st: {"unused", "fresh", "consumed"},
               family: Families \cup {None}, tok: Payload \cup {None}]
\* grant is a history field: the code or refresh token the row was minted from.
AccessRow  == [st: {"unused", "live", "expired", "revoked"},
               family: Families \cup {None}, tok: Payload \cup {None},
               grant: Requests \cup Refreshes \cup {None}]
Notice     == [kind: {"logout", "disabled", "active"}, client: Clients,
               subject: Identities, sid: Sessions \cup {None}]

HandlerState == [pc: {"idle", "login", "approve", "lookup", "replay", "create", "insert"},
                 ref: Identities \cup Requests \cup Refreshes \cup {None},
                 tok: Payload \cup {None}]
\* "credentials" is ChangePassword or RedeemMFAReset, "recover" is RedeemCredential.
SweepKind  == {"logout_all", "logout_session", "terminate", "disable",
               "credentials", "recover", "confirm_mfa"}
\* sess and fams are the rows its UPDATEs of the two tables have selected.
SweepState == [kind: SweepKind \cup {"idle"}, subject: Identities \cup {None},
               client: Clients \cup {None}, sid: Sessions \cup {None},
               sess: SUBSET Sessions, fams: SUBSET Families]

Idle      == [pc |-> "idle", ref |-> None, tok |-> None]
IdleSweep == [kind |-> "idle", subject |-> None, client |-> None,
              sid |-> None, sess |-> {}, fams |-> {}]

\* Variables hold what the schema's CHECKs and the Go types allow.
TypeOK ==
    /\ status \in [Identities -> {"active", "disabled"}]
    /\ session \in [Sessions -> SessionRow]
    /\ authReq \in [Requests -> AuthReqRow]
    /\ family \in [Families -> FamilyRow]
    /\ refresh \in [Refreshes -> RefreshRow]
    /\ access \in [Accesses -> AccessRow]
    /\ notices \subseteq Notice
    /\ handler \in [Handlers -> HandlerState]
    /\ sweep \in [Sweepers -> SweepState]
    /\ presented \in [Refreshes -> 0..2]

Init ==
    /\ status = [u \in Identities |-> "active"]
    /\ session = [s \in Sessions |-> [st |-> "unused", owner |-> None, by |-> "none"]]
    /\ authReq = [r \in Requests |-> [st |-> "unused", client |-> None, tok |-> None]]
    /\ family = [f \in Families |-> [st |-> "unused", tok |-> None]]
    /\ refresh = [t \in Refreshes |-> [st |-> "unused", family |-> None, tok |-> None]]
    /\ access = [a \in Accesses |->
                    [st |-> "unused", family |-> None, tok |-> None, grant |-> None]]
    /\ notices = {}
    /\ handler = [h \in Handlers |-> Idle]
    /\ sweep = [w \in Sweepers |-> IdleSweep]
    /\ presented = [t \in Refreshes |-> 0]

-----------------------------------------------------------------------------
(* Row locks held by uncommitted revocation transactions.                  *)

InFlight(w) == sweep[w].kind # "idle"

\* SELECT ... FROM identities ... FOR UPDATE (logout.go:50, account_security.go:102,
\* 295, 364, 468).  The foreign key of a browser_sessions INSERT waits for it.
KeyLocked(u) ==
    \E w \in Sweepers :
        /\ sweep[w].subject = u
        /\ sweep[w].kind \in {"logout_all", "disable", "credentials", "confirm_mfa"}

\* RedeemCredential's UPDATE of the password locks the row too, but not its key.
IdentityLocked(u) ==
    \/ KeyLocked(u)
    \/ \E w \in Sweepers : sweep[w].subject = u /\ sweep[w].kind = "recover"

SessionLocked(s) == \E w \in Sweepers : s \in sweep[w].sess

FamilyLocked(f) == \E w \in Sweepers : f \in sweep[w].fams

\* pg_advisory_xact_lock(89004323): one status change at a time.
StatusLocked == \E w \in Sweepers : sweep[w].kind = "disable"

-----------------------------------------------------------------------------
(* Validity.                                                               *)

ValidSession(tok) == tok.sid = None \/ session[tok.sid].st = "live"

\* validateTokenSubject; the client is always active here.
ValidSubject(tok) == status[tok.subject] = "active" /\ ValidSession(tok)

\* ActiveToken: what introspection and userinfo answer for the access token.
ActiveToken(a) ==
    /\ access[a].st = "live"
    /\ access[a].family # None => family[access[a].family].st = "live"
    /\ ValidSubject(access[a].tok)

-----------------------------------------------------------------------------
(* Login: NewSession reads the status in its INSERT ... SELECT, and its    *)
(* foreign-key check waits for whoever locks the identity.                 *)

NewSessionRead(h, u) ==
    /\ handler[h].pc = "idle"
    /\ status[u] = "active"
    /\ handler' = [handler EXCEPT ![h] = [pc |-> "login", ref |-> u, tok |-> None]]
    /\ UNCHANGED <<tables, sweep, presented>>

NewSessionInsert(h, s) ==
    /\ handler[h].pc = "login"
    /\ ~KeyLocked(handler[h].ref)
    /\ session[s].st = "unused"
    /\ session' = [session EXCEPT ![s] =
                      [st |-> "live", owner |-> handler[h].ref, by |-> "none"]]
    /\ handler' = [handler EXCEPT ![h] = Idle]
    /\ UNCHANGED <<status, authReq, family, refresh, access, notices, sweep, presented>>

-----------------------------------------------------------------------------
(* The authorization request, up to its code.                              *)

CreateAuthRequest(r, c) ==
    /\ authReq[r].st = "unused"
    /\ authReq' = [authReq EXCEPT ![r] = [st |-> "pending", client |-> c, tok |-> None]]
    /\ UNCHANGED <<status, session, family, refresh, access, notices,
                   handler, sweep, presented>>

\* The approve form reads the session and the request ...
ApproveRead(h, r, s) ==
    /\ handler[h].pc = "idle"
    /\ session[s].st = "live"
    /\ status[session[s].owner] = "active"
    /\ authReq[r].st \in {"pending", "authenticated", "coded"}
    /\ handler' = [handler EXCEPT ![h] =
          [pc |-> "approve", ref |-> r,
           tok |-> [client |-> authReq[r].client, subject |-> session[s].owner, sid |-> s]]]
    /\ UNCHANGED <<tables, sweep, presented>>

\* ... and CompleteAuthorization locks the request and rechecks all but the session.
CompleteAuthorization(h) ==
    /\ handler[h].pc = "approve"
    /\ handler' = [handler EXCEPT ![h] = Idle]
    /\ LET r == handler[h].ref  tok == handler[h].tok IN
       IF authReq[r].st = "pending" /\ status[tok.subject] = "active"
       THEN authReq' = [authReq EXCEPT ![r].st = "authenticated", ![r].tok = tok]
       ELSE UNCHANGED authReq
    /\ UNCHANGED <<status, session, family, refresh, access, notices, sweep, presented>>

SaveAuthCode(r) ==
    /\ authReq[r].st = "authenticated"
    /\ authReq' = [authReq EXCEPT ![r].st = "coded"]
    /\ UNCHANGED <<status, session, family, refresh, access, notices,
                   handler, sweep, presented>>

-----------------------------------------------------------------------------
(* The token endpoint.                                                     *)

\* Mutant: a SELECT that leaves consumed_at to a later DeleteAuthRequest.
AuthRequestByCodeUnburned(h, r) ==
    /\ handler[h].pc = "idle"
    /\ authReq[r].st = "coded"
    /\ handler' = [handler EXCEPT ![h] =
                      [pc |-> "create", ref |-> r, tok |-> authReq[r].tok]]
    /\ UNCHANGED <<tables, sweep, presented>>

\* AuthRequestByCode: a single UPDATE ... RETURNING burns the code.
AuthRequestByCode(h, r) ==
    /\ handler[h].pc = "idle"
    /\ authReq[r].st = "coded"
    /\ authReq' = [authReq EXCEPT ![r].st = "consumed"]
    /\ handler' = [handler EXCEPT ![h] =
                      [pc |-> "create", ref |-> r, tok |-> authReq[r].tok]]
    /\ UNCHANGED <<status, session, family, refresh, access, notices, sweep, presented>>

\* A device grant arrives already approved and consumed; it has no session.
DeviceGrant(h, u, c) ==
    /\ handler[h].pc = "idle"
    /\ status[u] = "active"
    /\ handler' = [handler EXCEPT ![h] =
          [pc |-> "create", ref |-> None,
           tok |-> [client |-> c, subject |-> u, sid |-> None]]]
    /\ UNCHANGED <<tables, sweep, presented>>

\* TokenRequestByRefreshToken's SELECT: unknown, expired and revoked are refused.
RefreshLookup(h, t) ==
    /\ handler[h].pc = "idle"
    /\ refresh[t].st # "unused"
    /\ family[refresh[t].family].st = "live"
    /\ handler' = [handler EXCEPT ![h] =
          [pc |-> IF refresh[t].st = "consumed" THEN "replay" ELSE "lookup",
           ref |-> t, tok |-> refresh[t].tok]]
    /\ UNCHANGED <<tables, sweep, presented>>

Decided(t) == [presented EXCEPT ![t] = IF @ < 2 THEN @ + 1 ELSE @]

\* UPDATE token_families SET revoked_at=COALESCE(revoked_at,now()) WHERE id=$1.
RevokeFamily(f) == family' = [family EXCEPT ![f].st = "revoked"]

\* TokenRequestByRefreshToken saw consumed_at: its second statement.
ReplayRevoke(h) ==
    /\ handler[h].pc = "replay"
    /\ ~FamilyLocked(refresh[handler[h].ref].family)
    /\ RevokeFamily(refresh[handler[h].ref].family)
    /\ presented' = Decided(handler[h].ref)
    /\ handler' = [handler EXCEPT ![h] = Idle]
    /\ UNCHANGED <<status, session, authReq, refresh, access, notices, sweep>>

\* validateTokenSubject runs once for a refresh token's payload and once more
\* at the start of CreateAccessToken / CreateAccessAndRefreshTokens.
ValidateTokenSubject(h) ==
    /\ handler[h].pc \in {"lookup", "create"}
    /\ handler' = [handler EXCEPT ![h] =
          IF ~ValidSubject(@.tok) THEN Idle
          ELSE [@ EXCEPT !.pc = IF @ = "lookup" THEN "create" ELSE "insert"]]
    /\ UNCHANGED <<tables, sweep, presented>>

\* Mutant: a payload that forgets its session.
NewRefreshSessionless(f, tok) ==
    [st |-> "fresh", family |-> f, tok |-> [tok EXCEPT !.sid = None]]

NewAccess(f, tok, g) == [st |-> "live", family |-> f, tok |-> tok, grant |-> g]
NewRefresh(f, tok) == [st |-> "fresh", family |-> f, tok |-> tok]

\* CreateAccessToken's insert, for a grant without offline_access.
InsertAccess(h, a) ==
    /\ handler[h].pc = "insert"
    /\ handler[h].ref \notin Refreshes
    /\ access[a].st = "unused"
    /\ access' = [access EXCEPT ![a] = NewAccess(None, handler[h].tok, handler[h].ref)]
    /\ handler' = [handler EXCEPT ![h] = Idle]
    /\ UNCHANGED <<status, session, authReq, family, refresh, notices, sweep, presented>>

\* CreateAccessAndRefreshTokens with current = "", for a code: a device client may
\* not ask for offline_access.  The transaction commits at once.
InsertFamily(h, f, t, a) ==
    /\ handler[h].pc = "insert"
    /\ handler[h].ref \in Requests
    /\ family[f].st = "unused" /\ refresh[t].st = "unused" /\ access[a].st = "unused"
    /\ LET tok == handler[h].tok IN
       /\ family' = [family EXCEPT ![f] = [st |-> "live", tok |-> tok]]
       /\ refresh' = [refresh EXCEPT ![t] = NewRefresh(f, tok)]
       /\ access' = [access EXCEPT ![a] = NewAccess(f, tok, handler[h].ref)]
    /\ handler' = [handler EXCEPT ![h] = Idle]
    /\ UNCHANGED <<status, session, authReq, notices, sweep, presented>>

\* Mutant: the presented token is never marked consumed.
RotateKeepsOld(h, t, a) ==
    LET old == handler[h].ref
        f   == refresh[old].family
        tok == handler[h].tok
    IN  /\ refresh[old].st = "fresh" /\ family[f].st = "live"
        /\ refresh[t].st = "unused" /\ access[a].st = "unused"
        /\ refresh' = [refresh EXCEPT ![t] = NewRefresh(f, tok)]
        /\ access' = [access EXCEPT ![a] = NewAccess(f, tok, old)]
        /\ UNCHANGED family

\* Mutant: the transaction trusts the lookup's check of the family.
RotateTrustsLookup(h, t, a) ==
    LET old == handler[h].ref
        f   == refresh[old].family
        tok == handler[h].tok
    IN  /\ refresh[old].st = "fresh"
        /\ refresh[t].st = "unused" /\ access[a].st = "unused"
        /\ refresh' = [refresh EXCEPT ![old].st = "consumed", ![t] = NewRefresh(f, tok)]
        /\ access' = [access EXCEPT ![a] = NewAccess(f, tok, old)]
        /\ UNCHANGED family

\* CreateAccessAndRefreshTokens with a current token: the family and the token
\* are locked FOR UPDATE, so what this transaction reads is what it decides on.
RotateConsumes(h, t, a) ==
    LET old == handler[h].ref
        f   == refresh[old].family
        tok == handler[h].tok
    IN  /\ family[f].tok.subject = tok.subject /\ family[f].tok.client = tok.client
        /\ refresh[old].st = "fresh"
        /\ family[f].st = "live"
        /\ refresh[t].st = "unused" /\ access[a].st = "unused"
        /\ refresh' = [refresh EXCEPT ![old].st = "consumed", ![t] = NewRefresh(f, tok)]
        /\ access' = [access EXCEPT ![a] = NewAccess(f, tok, old)]
        /\ UNCHANGED family

\* Mutant: the replay is refused and the transaction rolled back.
RotateReplayIgnored(h) ==
    /\ refresh[handler[h].ref].st = "consumed"
    /\ UNCHANGED <<family, refresh, access>>

RotateReplayed(h) ==
    LET old == handler[h].ref IN
    /\ refresh[old].st = "consumed"
    /\ RevokeFamily(refresh[old].family)
    /\ UNCHANGED <<refresh, access>>

RotateRefused(h) ==
    LET old == handler[h].ref IN
    /\ refresh[old].st = "fresh"
    /\ family[refresh[old].family].st # "live"
    /\ UNCHANGED <<family, refresh, access>>

Rotate(h) ==
    /\ handler[h].pc = "insert"
    /\ handler[h].ref \in Refreshes
    /\ ~FamilyLocked(refresh[handler[h].ref].family)
    /\ \/ \E t \in Refreshes, a \in Accesses : RotateConsumes(h, t, a)
       \/ RotateReplayed(h)
       \/ RotateRefused(h)
    /\ presented' = Decided(handler[h].ref)
    /\ handler' = [handler EXCEPT ![h] = Idle]
    /\ UNCHANGED <<status, session, authReq, notices, sweep>>

\* The OIDC library refuses the request (client, redirect or PKCE mismatch), the
\* peer disconnects and cancels the context, or the process dies.
Abandon(h) ==
    /\ handler[h].pc # "idle"
    /\ handler' = [handler EXCEPT ![h] = Idle]
    /\ UNCHANGED <<tables, sweep, presented>>

-----------------------------------------------------------------------------
(* Revocation.                                                             *)

\* RevokeToken: a refresh token stands for its family, an access token for itself.
RevokeToken(x, c) ==
    /\ \/ /\ x \in Refreshes
          /\ refresh[x].st # "unused"
          /\ family[refresh[x].family].tok.client = c
          /\ ~FamilyLocked(refresh[x].family)
          /\ RevokeFamily(refresh[x].family)
          /\ UNCHANGED access
       \/ /\ x \in Accesses
          /\ access[x].st # "unused" /\ access[x].tok.client = c
          /\ access' = [access EXCEPT ![x].st = "revoked"]
          /\ UNCHANGED family
    /\ UNCHANGED <<status, session, authReq, refresh, notices, handler, sweep, presented>>

\* The tokens a revocation's WHERE clause selects, by its kind.
Selects(w, tok) ==
    /\ tok # None
    /\ tok.subject = w.subject
    /\ w.kind # "confirm_mfa"
    /\ w.kind = "terminate" => tok.client = w.client
    /\ w.kind = "logout_session" => tok.sid = w.sid

\* Mutant: disabling an identity leaves its sessions to the status check.
SweptSessionNotDisabled(w, s) ==
    /\ session[s].st # "unused"
    /\ session[s].owner = w.subject
    /\ w.kind \notin {"terminate", "disable"}
    /\ w.kind = "logout_session" => s = w.sid
    /\ w.kind = "confirm_mfa" => s # w.sid

\* browser_sessions rows the sweep revokes.
SweptSession(w, s) ==
    /\ session[s].st # "unused"
    /\ session[s].owner = w.subject
    /\ w.kind # "terminate"
    /\ w.kind = "logout_session" => s = w.sid
    /\ w.kind = "confirm_mfa" => s # w.sid

\* Lock the identity or the session, then UPDATE browser_sessions and token_families:
\* the rows selected are the ones committed by now.
BeginSweep(w, m) ==
    /\ ~InFlight(w)
    /\ sweep' = [sweep EXCEPT ![w] =
          [m EXCEPT !.sess = {s \in Sessions : SweptSession(m, s)},
                    !.fams = {f \in Families : Selects(m, family[f].tok)}]]
    /\ UNCHANGED <<tables, handler, presented>>

\* An active identity whose row and whose sessions' rows no other sweep has locked.
Sweepable(u) ==
    /\ status[u] = "active"
    /\ ~IdentityLocked(u) /\ \A s \in Sessions : session[s].owner = u => ~SessionLocked(s)

LogoutAll(w, u) ==
    /\ Sweepable(u)
    /\ BeginSweep(w, [IdleSweep EXCEPT !.kind = "logout_all", !.subject = u])

LogoutSession(w, s) ==
    /\ session[s].st \in {"live", "expired"}
    /\ ~SessionLocked(s)
    /\ BeginSweep(w, [IdleSweep EXCEPT !.kind = "logout_session", !.sid = s,
                                       !.subject = session[s].owner])

TerminateSession(w, u, c) ==
    BeginSweep(w, [IdleSweep EXCEPT !.kind = "terminate", !.subject = u, !.client = c])

\* The transaction of ChangePassword rechecks the caller's session; the password, the
\* factor and the one-time credentials are in Credentials.
ChangePassword(w, s) ==
    /\ session[s].st = "live"
    /\ Sweepable(session[s].owner)
    /\ BeginSweep(w, [IdleSweep EXCEPT !.kind = "credentials", !.subject = session[s].owner])

RedeemMFAReset(w, u) ==
    /\ Sweepable(u)
    /\ BeginSweep(w, [IdleSweep EXCEPT !.kind = "credentials", !.subject = u])

\* RedeemCredential of a recovery.
RedeemCredential(w, u) ==
    /\ Sweepable(u)
    /\ BeginSweep(w, [IdleSweep EXCEPT !.kind = "recover", !.subject = u])

\* ConfirmMFA ends the other sessions of its caller and touches no token.  The caller's
\* session was live when the request came in; the transaction does not recheck it.
ConfirmMFA(w, s) ==
    /\ session[s].st # "unused"
    /\ Sweepable(session[s].owner)
    /\ BeginSweep(w, [IdleSweep EXCEPT !.kind = "confirm_mfa", !.sid = s,
                                       !.subject = session[s].owner])

\* Mutant: the advisory lock is not taken before the administrators are counted.
DisableUnserialised(w, u) ==
    /\ Sweepable(u)
    /\ u \in Admins => \E v \in Admins \ {u} : status[v] = "active"
    /\ BeginSweep(w, [IdleSweep EXCEPT !.kind = "disable", !.subject = u])

\* SetIdentityStatus(id, "disabled"), guarded by the last-active-admin count.
Disable(w, u) ==
    /\ ~StatusLocked
    /\ Sweepable(u)
    /\ u \in Admins => \E v \in Admins \ {u} : status[v] = "active"
    /\ BeginSweep(w, [IdleSweep EXCEPT !.kind = "disable", !.subject = u])

Announce(kind, u, s) ==
    {[kind |-> kind, client |-> c, subject |-> u, sid |-> s] : c \in Linked}

\* SetIdentityStatus(id, "active").
Enable(u) ==
    /\ ~StatusLocked
    /\ ~IdentityLocked(u)
    /\ status[u] = "disabled"
    /\ status' = [status EXCEPT ![u] = "active"]
    /\ notices' = notices \cup Announce("active", u, None)
    /\ UNCHANGED <<session, authReq, family, refresh, access, handler, sweep, presented>>

\* Mutant: a single session's logout is not queued.
SweepNoticesAllOnly(w) ==
    CASE w.kind \in {"terminate", "confirm_mfa", "logout_session"} -> {}
      [] w.kind = "disable" -> Announce("disabled", w.subject, None)
                                 \cup Announce("logout", w.subject, None)
      [] OTHER -> Announce("logout", w.subject, w.sid)

SweepNotices(w) ==
    CASE w.kind \in {"terminate", "confirm_mfa"} -> {}
      [] w.kind = "disable" -> Announce("disabled", w.subject, None)
                                 \cup Announce("logout", w.subject, None)
      [] OTHER -> Announce("logout", w.subject, w.sid)

\* revoked_at=COALESCE(revoked_at,now()): the first revocation of the row stands.
RevokedBy(kind, row) ==
    IF row.st = "revoked" THEN row
    ELSE [row EXCEPT !.st = "revoked",
                     !.by = IF kind = "confirm_mfa" THEN kind ELSE "logout"]

\* A change of credentials consumes the authorizations its subject has given.
VoidedRequest(w, row) ==
    /\ w.kind \in {"credentials", "recover"}
    /\ row.st \in {"authenticated", "coded"}
    /\ row.tok.subject = w.subject

\* UPDATE access_tokens and auth_requests see what is committed by now; then queueLogout
\* and COMMIT.
CommitSweep(w) ==
    LET m == sweep[w] IN
    /\ InFlight(w)
    /\ status' = [status EXCEPT ![m.subject] = IF m.kind = "disable" THEN "disabled" ELSE @]
    /\ session' = [s \in Sessions |->
          IF s \in m.sess THEN RevokedBy(m.kind, session[s]) ELSE session[s]]
    /\ authReq' = [r \in Requests |->
          IF VoidedRequest(m, authReq[r]) THEN [authReq[r] EXCEPT !.st = "consumed"]
          ELSE authReq[r]]
    /\ family' = [f \in Families |->
          IF f \in m.fams THEN [family[f] EXCEPT !.st = "revoked"] ELSE family[f]]
    /\ access' = [a \in Accesses |->
          IF Selects(m, access[a].tok) THEN [access[a] EXCEPT !.st = "revoked"] ELSE access[a]]
    /\ notices' = notices \cup SweepNotices(m)
    /\ sweep' = [sweep EXCEPT ![w] = IdleSweep]
    /\ UNCHANGED <<refresh, handler, presented>>

\* Any statement may fail or the process die: PostgreSQL rolls everything back.
RollbackSweep(w) ==
    /\ InFlight(w)
    /\ sweep' = [sweep EXCEPT ![w] = IdleSweep]
    /\ UNCHANGED <<tables, handler, presented>>

-----------------------------------------------------------------------------
(* The passing of expires_at.                                              *)

ExpireSession(s) ==
    /\ session[s].st = "live"
    /\ session' = [session EXCEPT ![s].st = "expired"]
    /\ UNCHANGED <<status, authReq, family, refresh, access, notices,
                   handler, sweep, presented>>

ExpireRequest(r) ==
    /\ authReq[r].st \in {"pending", "authenticated", "coded"}
    /\ authReq' = [authReq EXCEPT ![r].st = "expired"]
    /\ UNCHANGED <<status, session, family, refresh, access, notices,
                   handler, sweep, presented>>

ExpireFamily(f) ==
    /\ family[f].st = "live"
    /\ family' = [family EXCEPT ![f].st = "expired"]
    /\ UNCHANGED <<status, session, authReq, refresh, access, notices,
                   handler, sweep, presented>>

ExpireAccess(a) ==
    /\ access[a].st = "live"
    /\ access' = [access EXCEPT ![a].st = "expired"]
    /\ UNCHANGED <<status, session, authReq, family, refresh, notices,
                   handler, sweep, presented>>

-----------------------------------------------------------------------------

LoginStep(h) ==
    \/ \E u \in Identities : NewSessionRead(h, u)
    \/ \E s \in Sessions : NewSessionInsert(h, s)
    \/ \E r \in Requests, s \in Sessions : ApproveRead(h, r, s)
    \/ CompleteAuthorization(h)

TokenStep(h) ==
    \/ \E r \in Requests : AuthRequestByCode(h, r)
    \/ \E u \in Identities, c \in Clients : DeviceGrant(h, u, c)
    \/ \E t \in Refreshes : RefreshLookup(h, t)
    \/ ReplayRevoke(h)
    \/ ValidateTokenSubject(h)
    \/ \E a \in Accesses : InsertAccess(h, a)
    \/ \E f \in Families, t \in Refreshes, a \in Accesses : InsertFamily(h, f, t, a)
    \/ Rotate(h)
    \/ Abandon(h)

SweepStep(w) ==
    \/ \E u \in Identities : LogoutAll(w, u) \/ Disable(w, u)
    \/ \E u \in Identities : RedeemMFAReset(w, u) \/ RedeemCredential(w, u)
    \/ \E s \in Sessions : LogoutSession(w, s) \/ ChangePassword(w, s) \/ ConfirmMFA(w, s)
    \/ \E u \in Identities, c \in Clients : TerminateSession(w, u, c)
    \/ CommitSweep(w)
    \/ RollbackSweep(w)

TimeStep ==
    \/ \E s \in Sessions : ExpireSession(s)
    \/ \E r \in Requests : ExpireRequest(r)
    \/ \E f \in Families : ExpireFamily(f)
    \/ \E a \in Accesses : ExpireAccess(a)

Next ==
    \/ \E h \in Handlers : LoginStep(h) \/ TokenStep(h)
    \/ \E r \in Requests, c \in Clients : CreateAuthRequest(r, c)
    \/ \E r \in Requests : SaveAuthCode(r)
    \/ \E x \in Refreshes \cup Accesses, c \in Clients : RevokeToken(x, c)
    \/ \E u \in Identities : Enable(u)
    \/ \E w \in Sweepers : SweepStep(w)
    \/ TimeStep

Spec == Init /\ [][Next]_vars

-----------------------------------------------------------------------------
(* Properties.                                                             *)

\* An authorization code and a refresh token each mint at most one access token,
\* however many token requests present them at the same time
\* (AuthRequestByCode: "two concurrent token requests can never both mint tokens").
GrantMintsOnce ==
    \A a, b \in Accesses :
        access[a].grant # None /\ access[a].grant = access[b].grant => a = b

\* Rotation never leaves two usable refresh tokens in a family: consuming the old
\* one and inserting its successor are one transaction under the row locks.
OneFreshPerFamily ==
    \A t, v \in Refreshes :
        /\ refresh[t].st = "fresh" /\ refresh[v].st = "fresh"
        /\ refresh[t].family = refresh[v].family
        => t = v

\* Once two requests presenting the same refresh token have been decided, whether
\* they raced past the lookup or came one after the other, its family is dead.
ReuseKillsFamily ==
    \A t \in Refreshes : presented[t] = 2 => family[refresh[t].family].st # "live"

\* Every token of a family keeps the client, the subject and the browser session
\* the family was created for; the later session check depends on it.
FamilyBinding ==
    /\ \A t \in Refreshes :
          refresh[t].st # "unused" => refresh[t].tok = family[refresh[t].family].tok
    /\ \A a \in Accesses :
          access[a].family # None => access[a].tok = family[access[a].family].tok

\* No token is added to a family that is revoked or expired at that moment, even
\* when the request looked the family up while it was still live.
DeadFamilyMintsNothing ==
    [][\A a \in Accesses :
          access[a].st = "unused" /\ access'[a].st = "live" /\ access'[a].family # None
             => family'[access'[a].family].st = "live"]_vars

\* A token bound to a browser session that introspection once refuses is refused
\* for ever: logout, expiry and disabling followed by re-enabling the identity
\* never revive it, whatever was in flight when they happened.
SessionTokenDeathIsFinal ==
    [][\A a \in Accesses :
          access[a].st # "unused" /\ access[a].tok.sid # None /\ ~ActiveToken(a)
             => ~ActiveToken(a)']_vars

\* Ending a session and telling every linked application are one transaction: a session
\* that anything but ConfirmMFA has revoked (a logout, a disabled identity, a change of
\* credentials) has a logout notice for it or for its whole identity.  ConfirmMFA's sweep
\* of the other sessions queues nothing (account_security.go:127), and an application
\* session behind one of those ends only with its own expiry or a later logout.
RevocationIsAnnounced ==
    \A s \in Sessions, c \in Linked :
        session[s].st = "revoked" /\ session[s].by # "confirm_mfa" =>
            \E n \in notices :
                /\ n.kind = "logout" /\ n.client = c
                /\ n.subject = session[s].owner /\ n.sid \in {s, None}

\* Administrators disabling one another at the same time never leave none active.
SomeAdminActive == Admins # {} => \E u \in Admins : status[u] = "active"

=============================================================================
