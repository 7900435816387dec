---------------------------- MODULE Applications ----------------------------
(***************************************************************************)
(* Registered applications and service accounts: registration, callbacks,  *)
(* capabilities, secret rotation with a handover window, disabling, and    *)
(* the tokens of the client_credentials grant (internal/core: client.go,   *)
(* service_accounts.go, tokens.go; handlers of internal/httpapi).          *)
(*                                                                         *)
(* Every change of an applications row is SELECT ... FOR UPDATE, a check,  *)
(* UPDATE, COMMIT: an action that takes the row lock and keeps what it     *)
(* read, and an action that writes.  Administrators pass the gate that     *)
(* Credentials models.  Secrets of an application are numbered in the      *)
(* order in which they are written.                                        *)
(***************************************************************************)
EXTENDS Naturals, FiniteSets

CONSTANTS
    Apps,        \* pool of applications.id
    Shapes,      \* [public, redirects, grants, scopes, resources] an admin submits
    Urls,        \* callback endpoints
    Tokens,      \* pool of access tokens
    Reqs,        \* requests in flight
    MaxSecret,   \* bound: secrets of an application
    None

Grants == {"code", "refresh_token", "client_credentials", "device_code", "token_exchange"}
ShapeType == [public: BOOLEAN, redirects: BOOLEAN, grants: SUBSET Grants,
              scopes: SUBSET {"openid", "api"}, resources: BOOLEAN]

ASSUME ShapesAssumption == Shapes \subseteq ShapeType
ASSUME NoneAssumption == None \notin Apps \cup Urls
\* A confidential application is registered with a secret.
ASSUME BoundAssumption == MaxSecret \in Nat \ {0}

VARIABLES
    app,   \* applications
    tok,   \* access_tokens of the client_credentials grant
    req,   \* requests in flight
    told   \* history: the callbacks and capabilities last confirmed to an admin

vars == <<app, tok, req, told>>

Url == Urls \cup {None}
Config == [shape: ShapeType, url: Url]
NoConfig == [shape |-> [public |-> TRUE, redirects |-> FALSE, grants |-> {},
                        scopes |-> {}, resources |-> FALSE], url |-> None]

\* prev is the previous secret while its window is open, else 0;
\* dead, a history variable, is the last secret that a disable has ended.
App == [st: {"absent", "active", "disabled"}, config: Config, cur: 0..MaxSecret,
        prev: 0..MaxSecret, dead: 0..MaxSecret]
NoApp == [st |-> "absent", config |-> NoConfig, cur |-> 0, prev |-> 0, dead |-> 0]
\* secret: the secret the request presented; over: dead when the row was inserted.
Tok == [st: {"absent", "live", "revoked"}, app: Apps \cup {None},
        secret: 0..MaxSecret, over: 0..MaxSecret]
NoTok == [st |-> "absent", app |-> None, secret |-> 0, over |-> 0]
\* config and secret are what the request read; url and shape its input.
Req == [op: {"idle", "callbacks", "capabilities", "rotate", "status", "authorized",
             "requested", "valid"},
        app: Apps \cup {None}, config: Config, secret: 0..MaxSecret, url: Url,
        shape: ShapeType, grace: BOOLEAN]
Idle == [op |-> "idle", app |-> None, config |-> NoConfig, secret |-> 0, url |-> None,
         shape |-> NoConfig.shape, grace |-> FALSE]

\* Variables hold what the schema and the Go types allow.
TypeOK ==
    /\ app \in [Apps -> App]
    /\ tok \in [Tokens -> Tok]
    /\ req \in [Reqs -> Req]
    /\ told \in [Apps -> Config]

Init ==
    /\ app = [a \in Apps |-> NoApp]
    /\ tok = [t \in Tokens |-> NoTok]
    /\ req = [r \in Reqs |-> Idle]
    /\ told = [a \in Apps |-> NoConfig]

-----------------------------------------------------------------------------
(* Registration.                                                           *)

serviceClient(config) == config.shape.grants = {"client_credentials"}

validateCapabilities(config) ==
    LET s == config.shape IN
    /\ s.grants # {}
    /\ s.public => s.grants \cap {"client_credentials", "token_exchange"} = {}
    /\ ~s.public => "device_code" \notin s.grants
    /\ "code" \in s.grants => s.redirects
    /\ "token_exchange" \in s.grants => s.resources
    /\ "client_credentials" \in s.grants => s.resources /\ s.scopes # {}
    /\ serviceClient(config) =>
         ~s.public /\ ~s.redirects /\ config.url = None /\ "openid" \notin s.scopes

DefaultGrants(grants) == IF grants = {} THEN {"code", "refresh_token"} ELSE grants

RegisterClientAs(a, config) ==
    LET c == [config EXCEPT !.shape.grants = DefaultGrants(@)] IN
    /\ app[a].st = "absent"
    /\ validateCapabilities(c)
    /\ app' = [app EXCEPT ![a] = [NoApp EXCEPT !.st = "active", !.config = c,
                                     !.cur = IF c.shape.public THEN 0 ELSE 1]]
    /\ told' = [told EXCEPT ![a] = c]
    /\ UNCHANGED <<tok, req>>

createApplication(a, shape, url) == RegisterClientAs(a, [shape |-> shape, url |-> url])

CreateServiceAccountAs(a, shape) ==
    RegisterClientAs(a, [shape |-> [shape EXCEPT !.public = FALSE, !.redirects = FALSE,
                                       !.grants = {"client_credentials"}],
                         url |-> None])
createServiceAccount(a, shape) == CreateServiceAccountAs(a, shape)

-----------------------------------------------------------------------------
(* Changes of a row.                                                       *)

Writers == {"callbacks", "capabilities", "rotate", "status"}

\* Mutant: the rows are read without FOR UPDATE.
Unlocked(a) == TRUE

RowFree(a) == \A r \in Reqs : req[r].op \in Writers => req[r].app # a

\* SELECT config, secret_hash, active ... FOR UPDATE.
Lock(r, op, a, url, shape, grace) ==
    /\ req[r].op = "idle"
    /\ app[a].st # "absent" /\ (op # "status" => app[a].st = "active")
    /\ RowFree(a)
    /\ req' = [req EXCEPT ![r] = [op |-> op, app |-> a, config |-> app[a].config,
                  secret |-> app[a].cur, url |-> url, shape |-> shape, grace |-> grace]]
    /\ UNCHANGED <<app, tok, told>>

updateApplicationCallbacks(r, a, url) == Lock(r, "callbacks", a, url, Idle.shape, FALSE)
updateApplicationCapabilities(r, a, shape) == Lock(r, "capabilities", a, None, shape, FALSE)
rotateApplicationSecret(r, a, grace) ==
    ~app[a].config.shape.public /\ Lock(r, "rotate", a, None, Idle.shape, grace)
\* The service account check reads the row before RotateClientSecretAs locks it;
\* an application never changes between service and interactive.
rotateServiceAccountSecret(r, a, grace) ==
    serviceClient(app[a].config) /\ Lock(r, "rotate", a, None, Idle.shape, grace)
serviceAccountStatus(r, a) ==
    serviceClient(app[a].config) /\ Lock(r, "status", a, None, Idle.shape, FALSE)

Commit(r, row) ==
    /\ app' = [app EXCEPT ![req[r].app] = row]
    /\ req' = [req EXCEPT ![r] = Idle]

Row(r) == app[req[r].app]

UpdateClientCallbacksAs(r) ==
    LET config == [req[r].config EXCEPT !.url = req[r].url] IN
    /\ req[r].op = "callbacks"
    /\ serviceClient(config) => req[r].url = None
    /\ Commit(r, [Row(r) EXCEPT !.config = config])
    /\ told' = [told EXCEPT ![req[r].app].url = req[r].url]
    /\ UNCHANGED tok

\* public and redirects are not among the fields of the request.
Merged(r) == [req[r].config EXCEPT !.shape.grants = req[r].shape.grants,
                                   !.shape.scopes = req[r].shape.scopes,
                                   !.shape.resources = req[r].shape.resources]

UpdateClientCapabilitiesAs(r) ==
    LET config == Merged(r) IN
    /\ req[r].op = "capabilities"
    /\ serviceClient(req[r].config) = serviceClient(config)
    /\ validateCapabilities(config)
    /\ Commit(r, [Row(r) EXCEPT !.config = config])
    /\ told' = [told EXCEPT ![req[r].app].shape = config.shape]
    /\ UNCHANGED tok

RotateClientSecretAs(r) ==
    /\ req[r].op = "rotate" /\ Row(r).cur < MaxSecret
    /\ Commit(r, [Row(r) EXCEPT !.cur = @ + 1,
                                !.prev = IF req[r].grace THEN req[r].secret ELSE 0])
    /\ UNCHANGED <<tok, told>>

\* Mutant: the handover window stays open.
SetServiceAccountActiveHandover(r) ==
    LET a == req[r].app
        on == app[a].st = "active"
    IN
    /\ req[r].op = "status" /\ Row(r).cur < MaxSecret
    /\ Commit(r, [Row(r) EXCEPT !.st = IF on THEN "disabled" ELSE "active",
                                !.cur = @ + 1, !.dead = IF on THEN Row(r).cur ELSE @])
    /\ tok' = [t \in Tokens |-> IF on /\ tok[t].app = a THEN [tok[t] EXCEPT !.st = "revoked"]
                                ELSE tok[t]]
    /\ UNCHANGED told

\* A request for the state the row is in changes nothing: see Abandoned.
SetServiceAccountActiveAs(r) ==
    LET a == req[r].app
        on == app[a].st = "active"
    IN
    /\ req[r].op = "status" /\ Row(r).cur < MaxSecret
    /\ Commit(r, [Row(r) EXCEPT !.st = IF on THEN "disabled" ELSE "active",
                                !.cur = @ + 1, !.prev = 0,
                                !.dead = IF on THEN Row(r).cur ELSE @])
    /\ tok' = [t \in Tokens |-> IF on /\ tok[t].app = a THEN [tok[t] EXCEPT !.st = "revoked"]
                                ELSE tok[t]]
    /\ UNCHANGED told

\* The transaction or the request is refused or fails: nothing is written.
Abandoned(r) ==
    /\ req[r].op # "idle"
    /\ req' = [req EXCEPT ![r] = Idle]
    /\ UNCHANGED <<app, tok, told>>

-----------------------------------------------------------------------------
(* Client authentication and the client_credentials grant.                 *)

Accepts(a, n) ==
    /\ app[a].st = "active" /\ ~app[a].config.shape.public
    /\ n # 0 /\ n \in {app[a].cur, app[a].prev}

Proceed(r, op) ==
    /\ req' = [req EXCEPT ![r].op = op]
    /\ UNCHANGED <<app, tok, told>>

AuthorizeClientIDSecret(r, a, n) ==
    /\ req[r].op = "idle" /\ Accepts(a, n)
    /\ req' = [req EXCEPT ![r] = [Idle EXCEPT !.op = "authorized", !.app = a, !.secret = n]]
    /\ UNCHANGED <<app, tok, told>>

ClientCredentialsTokenRequest(r) ==
    LET s == Row(r).config.shape IN
    /\ req[r].op = "authorized" /\ Row(r).st = "active"
    /\ ~s.public /\ "client_credentials" \in s.grants /\ s.resources /\ "api" \in s.scopes
    /\ Proceed(r, "requested")

\* validateTokenSubject of CreateAccessToken.
ValidateService(r) ==
    /\ req[r].op = "requested" /\ Row(r).st = "active"
    /\ Proceed(r, "valid")

InsertAccess(r, t) ==
    /\ req[r].op = "valid" /\ tok[t].st = "absent"
    /\ tok' = [tok EXCEPT ![t] = [st |-> "live", app |-> req[r].app, secret |-> req[r].secret,
                                  over |-> Row(r).dead]]
    /\ req' = [req EXCEPT ![r] = Idle]
    /\ UNCHANGED <<app, told>>

\* What ActiveToken answers for a service token.
ActiveToken(t) == tok[t].st = "live" /\ app[tok[t].app].st = "active"

\* previous_secret_expires_at passes.
HandoverEnds(a) ==
    /\ app[a].prev # 0
    /\ app' = [app EXCEPT ![a].prev = 0]
    /\ UNCHANGED <<tok, req, told>>

TokenExpires(t) ==
    /\ tok[t].st = "live"
    /\ tok' = [tok EXCEPT ![t].st = "revoked"]
    /\ UNCHANGED <<app, req, told>>

-----------------------------------------------------------------------------

Admin(r, a) ==
    \/ \E url \in Url : updateApplicationCallbacks(r, a, url)
    \/ \E shape \in Shapes : updateApplicationCapabilities(r, a, shape)
    \/ \E grace \in BOOLEAN : rotateApplicationSecret(r, a, grace)
                              \/ rotateServiceAccountSecret(r, a, grace)
    \/ serviceAccountStatus(r, a)

Statement(r) ==
    \/ UpdateClientCallbacksAs(r) \/ UpdateClientCapabilitiesAs(r)
    \/ RotateClientSecretAs(r) \/ SetServiceAccountActiveAs(r)
    \/ ClientCredentialsTokenRequest(r) \/ ValidateService(r)
    \/ \E t \in Tokens : InsertAccess(r, t)
    \/ Abandoned(r)

Next ==
    \/ \E a \in Apps, shape \in Shapes :
         \/ createServiceAccount(a, shape)
         \/ \E url \in Url : createApplication(a, shape, url)
    \/ \E r \in Reqs : Statement(r) \/ \E a \in Apps :
         Admin(r, a) \/ \E n \in 1..MaxSecret : AuthorizeClientIDSecret(r, a, n)
    \/ \E a \in Apps : HandoverEnds(a)
    \/ \E t \in Tokens : TokenExpires(t)

Spec == Init /\ [][Next]_vars

-----------------------------------------------------------------------------
(* Properties.                                                             *)

\* The row holds the callbacks and the capabilities that administrators were
\* last told: read-modify-write requests on one application, of whatever kind,
\* do not lose each other's fields.
UpdatesAreNotLost == \A a \in Apps : app[a].config = told[a]

\* The secret in handover is the one that was current just before: two
\* rotations leave the newest two working, never an older one in place of the
\* secret the other rotation has just handed out.
HandoverIsPredecessor == \A a \in Apps : app[a].prev # 0 => app[a].prev + 1 = app[a].cur

\* "Re-enabling returns a new secret exactly once; an old one never works": no
\* secret of before a disable is accepted again, and no token that was in the
\* database when its service account was last disabled is active, whatever was
\* enabled or rotated since.
DisabledStaysDead ==
    /\ \A a \in Apps : \A n \in 1..app[a].dead : ~Accepts(a, n)
    /\ \A t \in Tokens : tok[t].st # "absent" /\ ActiveToken(t)
                         => tok[t].over = app[tok[t].app].dead

\* "A disabled service identity loses its old secret and all centrally tracked
\* tokens": no token obtained with a secret of before the disable is active.
DisabledTokensStayDead ==
    \A t \in Tokens : tok[t].st # "absent" /\ ActiveToken(t)
                      => tok[t].secret > app[tok[t].app].dead

=============================================================================
