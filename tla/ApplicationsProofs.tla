------------------------- MODULE ApplicationsProofs -------------------------
(***************************************************************************)
(* Proofs about Applications.                                              *)
(*                                                                         *)
(* A request that holds a row still has the row's configuration and secret *)
(* when it writes (ReadsAreCurrent, RowsExclude); the numbers of secrets   *)
(* order what a disable ended before what works (DeadBeforeCurrent).       *)
(***************************************************************************)
EXTENDS Applications, TLAPS

\* The states of a request for a token.
Clients == {"authorized", "requested", "valid"}

\* A request that holds a row has its configuration and its secret; a request that
\* issues a token has an application that was registered.
ReadsAreCurrent ==
    \A r \in Reqs :
        /\ req[r].op \in Writers =>
             /\ req[r].app \in Apps
             /\ req[r].config = Row(r).config /\ req[r].secret = Row(r).cur
             /\ IF req[r].op = "status" THEN Row(r).st # "absent" ELSE Row(r).st = "active"
        /\ req[r].op \in Clients => req[r].app \in Apps /\ Row(r).st # "absent"

\* A row lock has one holder.
RowsExclude ==
    \A r, s \in Reqs :
        /\ req[r].op \in Writers /\ req[s].op \in Writers /\ req[r].app = req[s].app
        => r = s

\* Secrets that a disable ended come before the ones that work.
DeadBeforeCurrent ==
    \A a \in Apps :
        /\ app[a].dead <= app[a].cur
        /\ app[a].st = "active" /\ app[a].dead # 0 => app[a].dead < app[a].cur
        /\ app[a].prev # 0 => app[a].dead < app[a].prev
        /\ app[a].st = "absent" => app[a] = NoApp

\* A live row was inserted after the last disable of its application.
LiveSinceDisable ==
    \A t \in Tokens :
        tok[t].st = "live" => tok[t].app \in Apps /\ tok[t].over = app[tok[t].app].dead

\* The inductive invariant.
AppInv ==
    /\ TypeOK /\ ReadsAreCurrent /\ RowsExclude
    /\ UpdatesAreNotLost /\ HandoverIsPredecessor /\ DeadBeforeCurrent /\ LiveSinceDisable

-----------------------------------------------------------------------------
(* Records.                                                                *)

\* Idle requests and rows not inserted are of their types.
LEMMA Blank ==
    /\ NoConfig \in Config /\ NoApp \in App /\ NoTok \in Tok /\ Idle \in Req
    /\ Idle.op = "idle" /\ Idle.shape \in ShapeType
<1>1. NoConfig \in Config /\ NoConfig.shape \in ShapeType
    BY DEF NoConfig, Config, ShapeType, Url
<1>2. 0 \in 0..MaxSecret
    BY BoundAssumption
<1> HIDE DEF NoConfig
<1>3. NoApp \in App
    BY <1>1, <1>2 DEF NoApp, App
<1>4. NoTok \in Tok
    BY <1>2 DEF NoTok, Tok
<1>5. Idle \in Req /\ Idle.op = "idle" /\ Idle.shape \in ShapeType
    BY <1>1, <1>2 DEF Idle, Req, Url
<1> QED
    BY <1>1, <1>3, <1>4, <1>5

\* A registration's default grants, and a service account's fixed shape.
LEMMA Shaped ==
    ASSUME NEW c \in Config
    PROVE  [c EXCEPT !.shape.grants = DefaultGrants(@)] \in Config
<1>1. c.shape \in ShapeType /\ DefaultGrants(c.shape.grants) \in SUBSET Grants
    BY DEF Config, ShapeType, DefaultGrants, Grants
<1>2. [c.shape EXCEPT !.grants = DefaultGrants(@)] \in ShapeType
    BY <1>1 DEF ShapeType
<1> QED
    BY <1>2 DEF Config

\* UpdateClientCapabilitiesAs replaces the shape alone.
LEMMA MergedShape ==
    ASSUME NEW r \in Reqs, req[r] \in Req
    PROVE  /\ Merged(r) \in Config
           /\ Merged(r) = [req[r].config EXCEPT !.shape = Merged(r).shape]
<1> DEFINE c == req[r].config
           s == [c.shape EXCEPT !.grants = req[r].shape.grants,
                                !.scopes = req[r].shape.scopes,
                                !.resources = req[r].shape.resources]
<1>1. c \in Config /\ c.shape \in ShapeType /\ req[r].shape \in ShapeType
    BY DEF Req, Config
<1>2. s \in ShapeType
    BY <1>1 DEF ShapeType
<1>3. Merged(r) = [c EXCEPT !.shape = s]
    BY <1>1 DEF Merged, Config, ShapeType
<1> HIDE DEF s
<1>4. Merged(r) \in Config /\ Merged(r).shape = s
    BY <1>1, <1>2, <1>3 DEF Config
<1> QED
    BY <1>3, <1>4

-----------------------------------------------------------------------------
(* Changes of a row.                                                       *)

\* SELECT ... FOR UPDATE: what has just been read from a row that nobody holds.
LEMMA Locking ==
    ASSUME AppInv, NEW r \in Reqs, NEW op \in Writers, NEW a \in Apps, NEW url \in Url,
           NEW shape \in ShapeType, NEW grace \in BOOLEAN, Lock(r, op, a, url, shape, grace)
    PROVE  AppInv'
<1> DEFINE new == [op |-> op, app |-> a, config |-> app[a].config,
                   secret |-> app[a].cur, url |-> url, shape |-> shape, grace |-> grace]
<1>1. new \in Req
    BY DEF AppInv, TypeOK, App, Req, Writers
<1>2. /\ new.op = op /\ new.app = a /\ new.config = app[a].config /\ new.secret = app[a].cur
      /\ req' = [req EXCEPT ![r] = new] /\ UNCHANGED <<app, tok, told>>
    BY DEF Lock
<1> HIDE DEF new
<1>3. req' \in [Reqs -> Req] /\ req'[r] = new /\ \A s \in Reqs \ {r} : req'[s] = req[s]
    BY <1>1, <1>2 DEF AppInv, TypeOK
<1>4. ReadsAreCurrent'
    BY <1>2, <1>3 DEF AppInv, ReadsAreCurrent, Row, Lock, Writers, Clients
<1>5. RowsExclude'
    BY <1>2, <1>3 DEF AppInv, RowsExclude, Lock, RowFree
<1>6. UNCHANGED <<app, tok, told>>
    BY DEF Lock
<1> QED
    BY <1>3, <1>4, <1>5, <1>6 DEF AppInv, TypeOK, UpdatesAreNotLost, HandoverIsPredecessor,
       DeadBeforeCurrent, LiveSinceDisable

\* The requests of administrators are such locks.
LEMMA Administration ==
    ASSUME AppInv, NEW r \in Reqs, NEW a \in Apps, Admin(r, a)
    PROVE  AppInv'
<1>1. None \in Url /\ Url \subseteq Url /\ Shapes \subseteq ShapeType /\ Idle.shape \in ShapeType
    BY Blank, ShapesAssumption DEF Url
<1>2. {"callbacks", "capabilities", "rotate", "status"} = Writers /\ FALSE \in BOOLEAN
    BY DEF Writers
<1>3. ASSUME NEW url \in Url, updateApplicationCallbacks(r, a, url) PROVE AppInv'
    BY <1>1, <1>2, <1>3, Locking DEF updateApplicationCallbacks
<1>4. ASSUME NEW shape \in Shapes, updateApplicationCapabilities(r, a, shape) PROVE AppInv'
    BY <1>1, <1>2, <1>4, Locking DEF updateApplicationCapabilities
<1>5. ASSUME NEW grace \in BOOLEAN,
             rotateApplicationSecret(r, a, grace) \/ rotateServiceAccountSecret(r, a, grace)
      PROVE  AppInv'
    BY <1>1, <1>2, <1>5, Locking DEF rotateApplicationSecret, rotateServiceAccountSecret
<1>6. ASSUME serviceAccountStatus(r, a) PROVE AppInv'
    BY <1>1, <1>2, <1>6, Locking DEF serviceAccountStatus
<1> QED
    BY <1>3, <1>4, <1>5, <1>6 DEF Admin

\* The holder of a row writes it: no other request has read the row, so what the
\* others know stays true.
LEMMA Writing ==
    ASSUME AppInv, NEW r \in Reqs, req[r].op \in Writers,
           NEW a, a = req[r].app, NEW row \in App, Commit(r, row),
           row.st # "absent",
           told' \in [Apps -> Config], told'[a] = row.config,
           \A b \in Apps \ {a} : told'[b] = told[b],
           row.prev # 0 => row.prev + 1 = row.cur,
           row.dead <= row.cur,
           row.st = "active" /\ row.dead # 0 => row.dead < row.cur,
           row.prev # 0 => row.dead < row.prev,
           tok' \in [Tokens -> Tok],
           \A t \in Tokens : tok'[t].st = "live" =>
               tok'[t] = tok[t] /\ (tok[t].app = a => row.dead = app[a].dead)
    PROVE  AppInv'
<1>1. a \in Apps
    BY DEF AppInv, ReadsAreCurrent
<1>2. app' \in [Apps -> App] /\ app'[a] = row /\ \A b \in Apps \ {a} : app'[b] = app[b]
    BY <1>1 DEF Commit, AppInv, TypeOK
<1>3. req' \in [Reqs -> Req] /\ req'[r] = Idle /\ \A s \in Reqs \ {r} : req'[s] = req[s]
    BY Blank DEF Commit, AppInv, TypeOK
<1>4. \A s \in Reqs \ {r} : req[s].op \in Writers => req[s].app # a
    BY DEF AppInv, RowsExclude
<1>5. TypeOK'
    BY <1>2, <1>3 DEF TypeOK
<1>6. ReadsAreCurrent'
    BY <1>2, <1>3, <1>4, Blank DEF AppInv, ReadsAreCurrent, Row, Writers, Clients
<1>7. RowsExclude'
    BY <1>3, Blank DEF AppInv, RowsExclude, Writers
<1>8. UpdatesAreNotLost' /\ HandoverIsPredecessor' /\ DeadBeforeCurrent'
    BY <1>2 DEF AppInv, UpdatesAreNotLost, HandoverIsPredecessor, DeadBeforeCurrent
<1>9. LiveSinceDisable'
    BY <1>2 DEF AppInv, LiveSinceDisable
<1> QED
    BY <1>5, <1>6, <1>7, <1>8, <1>9 DEF AppInv

\* UpdateClientCallbacksAs and UpdateClientCapabilitiesAs write the configuration that
\* they read, with the fields of the request in place of the old ones.
LEMMA Updating ==
    ASSUME AppInv, NEW r \in Reqs, UpdateClientCallbacksAs(r) \/ UpdateClientCapabilitiesAs(r)
    PROVE  AppInv'
<1> DEFINE a == req[r].app
<1>1. /\ req[r].op \in Writers \ {"status"} /\ req[r] \in Req
      /\ a \in Apps /\ app[a] \in App /\ app[a].st = "active"
      /\ req[r].config = told[a] /\ req[r].config \in Config /\ told[a] \in Config
    BY DEF UpdateClientCallbacksAs, UpdateClientCapabilitiesAs, AppInv, TypeOK, ReadsAreCurrent,
           UpdatesAreNotLost, Writers, Row, Req
<1>2. PICK config \in Config :
         /\ Commit(r, [Row(r) EXCEPT !.config = config]) /\ UNCHANGED tok
         /\ told' = [told EXCEPT ![a] = config]
  <2>1. CASE UpdateClientCallbacksAs(r)
    <3> DEFINE config == [req[r].config EXCEPT !.url = req[r].url]
    <3>1. config \in Config
      BY <1>1 DEF Config, Req
    <3>2. told' = [told EXCEPT ![a] = [told[a] EXCEPT !.url = req[r].url]]
      BY <1>1, <2>1 DEF UpdateClientCallbacksAs, AppInv, TypeOK
    <3> QED
      BY <1>1, <2>1, <3>1, <3>2 DEF UpdateClientCallbacksAs
  <2>2. CASE UpdateClientCapabilitiesAs(r)
    <3>1. told' = [told EXCEPT ![a] = [told[a] EXCEPT !.shape = Merged(r).shape]]
      BY <1>1, <2>2 DEF UpdateClientCapabilitiesAs, AppInv, TypeOK
    <3>2. told' = [told EXCEPT ![a] = Merged(r)] /\ Merged(r) \in Config
      BY <1>1, <3>1, MergedShape
    <3> QED
      BY <2>2, <3>2 DEF UpdateClientCapabilitiesAs
  <2> QED
    BY <2>1, <2>2
<1> DEFINE row == [Row(r) EXCEPT !.config = config]
<1>3. /\ row \in App /\ row.config = config /\ row.st = app[a].st /\ row.cur = app[a].cur
      /\ row.prev = app[a].prev /\ row.dead = app[a].dead
    BY <1>1 DEF App, Row
<1> HIDE DEF row
<1>4. /\ told' \in [Apps -> Config] /\ told'[a] = row.config
      /\ \A b \in Apps \ {a} : told'[b] = told[b]
    BY <1>1, <1>2, <1>3 DEF AppInv, TypeOK
<1>5. /\ row.prev # 0 => row.prev + 1 = row.cur
      /\ row.dead <= row.cur
      /\ row.st = "active" /\ row.dead # 0 => row.dead < row.cur
      /\ row.prev # 0 => row.dead < row.prev
    BY <1>1, <1>3 DEF AppInv, HandoverIsPredecessor, DeadBeforeCurrent
<1>6. tok' \in [Tokens -> Tok]
      /\ \A t \in Tokens : tok'[t].st = "live" =>
               tok'[t] = tok[t] /\ (tok[t].app = a => row.dead = app[a].dead)
    BY <1>2, <1>3 DEF AppInv, TypeOK
<1>7. Commit(r, row) /\ row.st # "absent"
    BY <1>1, <1>2, <1>3 DEF row
<1> HIDE DEF a
<1> QED
    BY <1>1, <1>3, <1>4, <1>5, <1>6, <1>7, Writing DEF a

\* RotateClientSecretAs hands over the secret it read, which is still the current one.
LEMMA Rotating ==
    ASSUME AppInv, NEW r \in Reqs, RotateClientSecretAs(r)
    PROVE  AppInv'
<1> DEFINE a == req[r].app
           n == app[a].cur + 1
           p == IF req[r].grace THEN req[r].secret ELSE 0
           row == [Row(r) EXCEPT !.cur = n, !.prev = p]
<1>1. /\ req[r].op \in Writers /\ a \in Apps /\ app[a] \in App /\ app[a].st = "active"
      /\ req[r].secret = app[a].cur /\ app[a].cur \in 0..MaxSecret /\ app[a].cur < MaxSecret
    BY DEF RotateClientSecretAs, AppInv, TypeOK, ReadsAreCurrent, Writers, Row, App
<1>2. n \in 0..MaxSecret /\ p \in 0..MaxSecret
    BY <1>1, BoundAssumption
<1>3. Commit(r, row) /\ UNCHANGED <<tok, told>>
    BY DEF RotateClientSecretAs, Row
<1>4. n = app[a].cur + 1 /\ p \in {0, app[a].cur}
    BY <1>1
<1> HIDE DEF n, p
<1>5. /\ row \in App /\ row.config = app[a].config /\ row.st = app[a].st /\ row.cur = n
      /\ row.prev = p /\ row.dead = app[a].dead
    BY <1>1, <1>2 DEF App, Row
<1> HIDE DEF row
<1>6. app[a].dead \in 0..MaxSecret
    BY <1>1 DEF App
<1>7. /\ row.prev # 0 => row.prev + 1 = row.cur
      /\ row.dead <= row.cur
      /\ row.st = "active" /\ row.dead # 0 => row.dead < row.cur
      /\ row.prev # 0 => row.dead < row.prev
    BY <1>1, <1>4, <1>5, <1>6, BoundAssumption DEF AppInv, DeadBeforeCurrent
<1>8. /\ told' \in [Apps -> Config] /\ told'[a] = row.config
      /\ \A b \in Apps \ {a} : told'[b] = told[b]
    BY <1>1, <1>3, <1>5 DEF AppInv, TypeOK, UpdatesAreNotLost
<1>9. tok' \in [Tokens -> Tok]
      /\ \A t \in Tokens : tok'[t].st = "live" =>
               tok'[t] = tok[t] /\ (tok[t].app = a => row.dead = app[a].dead)
    BY <1>3, <1>5 DEF AppInv, TypeOK
<1>10. row.st # "absent"
    BY <1>1, <1>5
<1> HIDE DEF a
<1> QED
    BY <1>1, <1>3, <1>5, <1>7, <1>8, <1>9, <1>10, Writing DEF a

\* SetServiceAccountActiveAs replaces the secret each time; disabling revokes every
\* token of the application with it.
LEMMA Switching ==
    ASSUME AppInv, NEW r \in Reqs, SetServiceAccountActiveAs(r)
    PROVE  AppInv'
<1> DEFINE a == req[r].app
           on == app[a].st = "active"
           n == app[a].cur + 1
           st == IF on THEN "disabled" ELSE "active"
           d == IF on THEN app[a].cur ELSE app[a].dead
           row == [Row(r) EXCEPT !.st = st, !.cur = n, !.prev = 0, !.dead = d]
<1>1. /\ req[r].op \in Writers /\ a \in Apps /\ app[a] \in App
      /\ app[a].dead \in 0..MaxSecret /\ app[a].cur \in 0..MaxSecret /\ app[a].cur < MaxSecret
    BY DEF SetServiceAccountActiveAs, AppInv, TypeOK, ReadsAreCurrent, Writers, Row, App
<1>2. n \in 0..MaxSecret /\ d \in 0..MaxSecret /\ 0 \in 0..MaxSecret
    BY <1>1, BoundAssumption
<1>3. Commit(r, row) /\ UNCHANGED told
      /\ tok' = [t \in Tokens |-> IF on /\ tok[t].app = a THEN [tok[t] EXCEPT !.st = "revoked"]
                                  ELSE tok[t]]
    BY DEF SetServiceAccountActiveAs, Row
<1>4. n = app[a].cur + 1 /\ d <= app[a].cur /\ (~on => d = app[a].dead)
    BY <1>1, BoundAssumption DEF AppInv, DeadBeforeCurrent
<1>5. st \in {"active", "disabled"}
    OBVIOUS
<1> HIDE DEF n, d, st
<1>6. /\ row \in App /\ row.config = app[a].config /\ row.st = st /\ row.cur = n
      /\ row.prev = 0 /\ row.dead = d
    BY <1>1, <1>2, <1>5 DEF App, Row
<1> HIDE DEF row
<1>7. /\ row.prev # 0 => row.prev + 1 = row.cur
      /\ row.dead <= row.cur
      /\ row.st = "active" /\ row.dead # 0 => row.dead < row.cur
      /\ row.prev # 0 => row.dead < row.prev
    BY <1>1, <1>2, <1>4, <1>6, BoundAssumption
<1>8. /\ told' \in [Apps -> Config] /\ told'[a] = row.config
      /\ \A b \in Apps \ {a} : told'[b] = told[b]
    BY <1>1, <1>3, <1>6 DEF AppInv, TypeOK, UpdatesAreNotLost
<1>9. ASSUME NEW t \in Tokens
      PROVE  /\ tok'[t] \in Tok
             /\ tok'[t].st = "live" =>
                  tok'[t] = tok[t] /\ (tok[t].app = a => row.dead = app[a].dead)
  <2>1. tok[t] \in Tok
    BY DEF AppInv, TypeOK
  <2>2. CASE on /\ tok[t].app = a
    <3>1. tok'[t] = [tok[t] EXCEPT !.st = "revoked"]
      BY <1>3, <2>2
    <3> QED
      BY <2>1, <3>1 DEF Tok
  <2>3. CASE ~(on /\ tok[t].app = a)
    BY <1>3, <1>4, <1>6, <2>1, <2>3
  <2> QED
    BY <2>2, <2>3
<1>10. tok' \in [Tokens -> Tok]
  <2>1. tok' = [t \in Tokens |-> tok'[t]]
    BY <1>3
  <2> QED
    BY <1>9, <2>1
<1>11. row.st # "absent" /\ Commit(r, row)
    BY <1>3, <1>5, <1>6
<1>12. \A t \in Tokens : tok'[t].st = "live" =>
           tok'[t] = tok[t] /\ (tok[t].app = a => row.dead = app[a].dead)
    BY <1>9
<1> HIDE DEF a
<1> QED
    BY <1>1, <1>6, <1>7, <1>8, <1>10, <1>11, <1>12, Writing DEF a

\* RegisterClientAs inserts a row; no request has read it.
LEMMA Registering ==
    ASSUME AppInv, NEW a \in Apps, NEW config \in Config, RegisterClientAs(a, config)
    PROVE  AppInv'
<1> DEFINE c == [config EXCEPT !.shape.grants = DefaultGrants(@)]
           n == IF c.shape.public THEN 0 ELSE 1
           row == [NoApp EXCEPT !.st = "active", !.config = c, !.cur = n]
<1>1. c \in Config
    BY Shaped
<1>2. n \in 0..MaxSecret /\ n \in {0, 1}
    BY BoundAssumption
<1>3. /\ app[a].st = "absent" /\ app' = [app EXCEPT ![a] = row]
      /\ told' = [told EXCEPT ![a] = c] /\ UNCHANGED <<tok, req>>
    BY DEF RegisterClientAs
<1> HIDE DEF c, n
<1>4. /\ row \in App /\ row.st = "active" /\ row.config = c /\ row.cur = n /\ row.prev = 0
      /\ row.dead = 0
    BY <1>1, <1>2, Blank DEF App, NoApp
<1> HIDE DEF row
<1>5. /\ app' \in [Apps -> App] /\ app'[a] = row /\ \A b \in Apps \ {a} : app'[b] = app[b]
      /\ told' \in [Apps -> Config] /\ told'[a] = c /\ \A b \in Apps \ {a} : told'[b] = told[b]
    BY <1>1, <1>3, <1>4 DEF AppInv, TypeOK
<1>6. TypeOK'
    BY <1>3, <1>5 DEF AppInv, TypeOK
<1>7. ReadsAreCurrent'
    BY <1>3, <1>4, <1>5 DEF AppInv, ReadsAreCurrent, Row, Writers
<1>8. RowsExclude'
    BY <1>3 DEF AppInv, RowsExclude
<1>9. UpdatesAreNotLost' /\ HandoverIsPredecessor'
    BY <1>4, <1>5 DEF AppInv, UpdatesAreNotLost, HandoverIsPredecessor
<1>10. DeadBeforeCurrent'
    BY <1>2, <1>4, <1>5 DEF AppInv, DeadBeforeCurrent
<1>11. LiveSinceDisable'
  <2>1. app[a].dead = 0
    BY <1>3 DEF AppInv, DeadBeforeCurrent, NoApp
  <2> QED
    BY <1>3, <1>4, <1>5, <2>1 DEF AppInv, LiveSinceDisable
<1> QED
    BY <1>6, <1>7, <1>8, <1>9, <1>10, <1>11 DEF AppInv

\* Both ways to register.
LEMMA Creating ==
    ASSUME AppInv, NEW a \in Apps, NEW shape \in Shapes,
           createServiceAccount(a, shape) \/ \E url \in Url : createApplication(a, shape, url)
    PROVE  AppInv'
<1>1. shape \in ShapeType
    BY ShapesAssumption
<1>2. ASSUME NEW url \in Url, createApplication(a, shape, url) PROVE AppInv'
  <2>1. [shape |-> shape, url |-> url] \in Config
    BY <1>1 DEF Config
  <2> QED
    BY <1>2, <2>1, Registering DEF createApplication
<1>3. ASSUME createServiceAccount(a, shape) PROVE AppInv'
  <2> DEFINE s == [shape EXCEPT !.public = FALSE, !.redirects = FALSE,
                                !.grants = {"client_credentials"}]
  <2>1. s \in ShapeType
    BY <1>1 DEF ShapeType, Grants
  <2>2. RegisterClientAs(a, [shape |-> s, url |-> None])
    BY <1>3 DEF createServiceAccount, CreateServiceAccountAs
  <2> HIDE DEF s
  <2>3. [shape |-> s, url |-> None] \in Config
    BY <2>1 DEF Config, Url
  <2> QED
    BY <2>2, <2>3, Registering
<1> QED
    BY <1>2, <1>3

-----------------------------------------------------------------------------
(* Clients.                                                                *)

\* A step that only moves a request on to a state in which it holds no row.
LEMMA Moving ==
    ASSUME AppInv, NEW r \in Reqs, NEW new \in Req, req' = [req EXCEPT ![r] = new],
           UNCHANGED <<app, tok, told>>, new.op \notin Writers,
           new.op \in Clients => new.app \in Apps /\ app[new.app].st # "absent"
    PROVE  AppInv'
<1>1. req' \in [Reqs -> Req] /\ req'[r] = new /\ \A s \in Reqs \ {r} : req'[s] = req[s]
    BY DEF AppInv, TypeOK
<1>2. ReadsAreCurrent'
    BY <1>1 DEF AppInv, ReadsAreCurrent, Row
<1>3. RowsExclude'
    BY <1>1 DEF AppInv, RowsExclude
<1> QED
    BY <1>1, <1>2, <1>3 DEF AppInv, TypeOK, UpdatesAreNotLost, HandoverIsPredecessor,
       DeadBeforeCurrent, LiveSinceDisable

\* Authentication, the request for a token and its checks, and every refusal.
LEMMA Requesting ==
    ASSUME AppInv, NEW r \in Reqs,
           \/ \E a \in Apps, n \in 1..MaxSecret : AuthorizeClientIDSecret(r, a, n)
           \/ ClientCredentialsTokenRequest(r) \/ ValidateService(r) \/ Abandoned(r)
    PROVE  AppInv'
<1>1. ASSUME NEW a \in Apps, NEW n \in 1..MaxSecret, AuthorizeClientIDSecret(r, a, n)
      PROVE  AppInv'
  <2> DEFINE new == [Idle EXCEPT !.op = "authorized", !.app = a, !.secret = n]
  <2>1. n \in 0..MaxSecret
    BY BoundAssumption
  <2>2. new \in Req /\ new.op = "authorized" /\ new.app = a
    BY <2>1, Blank DEF Req, Idle
  <2>3. req' = [req EXCEPT ![r] = new] /\ UNCHANGED <<app, tok, told>> /\ app[a].st # "absent"
    BY <1>1 DEF AuthorizeClientIDSecret, Accepts
  <2> HIDE DEF new
  <2> QED
    BY <2>2, <2>3, Moving DEF Writers, Clients
<1>2. ASSUME NEW op \in Clients, Proceed(r, op), req[r].op \in Clients PROVE AppInv'
  <2> DEFINE new == [req[r] EXCEPT !.op = op]
  <2>1. new \in Req /\ new.op = op /\ new.app = req[r].app
    BY DEF AppInv, TypeOK, Req, Clients
  <2>2. req' = [req EXCEPT ![r] = new] /\ UNCHANGED <<app, tok, told>>
    BY <1>2 DEF Proceed, AppInv, TypeOK
  <2>3. req[r].app \in Apps /\ app[req[r].app].st # "absent"
    BY <1>2 DEF AppInv, ReadsAreCurrent, Row
  <2> HIDE DEF new
  <2> QED
    BY <2>1, <2>2, <2>3, Moving DEF Writers, Clients
<1>3. CASE ClientCredentialsTokenRequest(r)
    BY <1>2, <1>3 DEF ClientCredentialsTokenRequest, Clients
<1>4. CASE ValidateService(r)
    BY <1>2, <1>4 DEF ValidateService, Clients
<1>5. CASE Abandoned(r)
    BY <1>5, Blank, Moving DEF Abandoned, Writers, Clients
<1> QED
    BY <1>1, <1>3, <1>4, <1>5

\* Rows of access_tokens: inserted live with the disables counted so far, or ended.
LEMMA Issuing ==
    ASSUME AppInv,
           \/ \E r \in Reqs, t \in Tokens : InsertAccess(r, t)
           \/ \E t \in Tokens : TokenExpires(t)
    PROVE  AppInv'
<1>1. ASSUME NEW r \in Reqs, NEW t \in Tokens, InsertAccess(r, t) PROVE AppInv'
  <2> DEFINE new == [st |-> "live", app |-> req[r].app, secret |-> req[r].secret,
                     over |-> Row(r).dead]
  <2>1. req[r] \in Req /\ req[r].app \in Apps /\ app[req[r].app] \in App
    BY <1>1 DEF InsertAccess, AppInv, TypeOK, ReadsAreCurrent, Clients
  <2>2. new \in Tok /\ new.app = req[r].app /\ new.over = app[req[r].app].dead
    BY <2>1 DEF Tok, Req, App, Row
  <2>3. /\ tok' = [tok EXCEPT ![t] = new] /\ req' = [req EXCEPT ![r] = Idle]
        /\ UNCHANGED <<app, told>>
    BY <1>1 DEF InsertAccess
  <2> HIDE DEF new
  <2>4. /\ tok' \in [Tokens -> Tok] /\ tok'[t] = new /\ \A s \in Tokens \ {t} : tok'[s] = tok[s]
        /\ req' \in [Reqs -> Req] /\ req'[r] = Idle /\ \A s \in Reqs \ {r} : req'[s] = req[s]
    BY <2>2, <2>3, Blank DEF AppInv, TypeOK
  <2>5. ReadsAreCurrent' /\ RowsExclude'
    BY <2>3, <2>4, Blank DEF AppInv, ReadsAreCurrent, RowsExclude, Row, Writers, Clients
  <2>6. LiveSinceDisable'
    BY <2>1, <2>2, <2>3, <2>4 DEF AppInv, LiveSinceDisable
  <2> QED
    BY <2>3, <2>4, <2>5, <2>6 DEF AppInv, TypeOK, UpdatesAreNotLost, HandoverIsPredecessor,
       DeadBeforeCurrent
<1>2. ASSUME NEW t \in Tokens, TokenExpires(t) PROVE AppInv'
  <2>1. /\ tok' \in [Tokens -> Tok] /\ tok'[t].st = "revoked"
        /\ \A s \in Tokens \ {t} : tok'[s] = tok[s]
        /\ UNCHANGED <<app, req, told>>
    BY <1>2 DEF TokenExpires, AppInv, TypeOK, Tok
  <2>2. LiveSinceDisable'
    BY <2>1 DEF AppInv, LiveSinceDisable
  <2> QED
    BY <2>1, <2>2 DEF AppInv, TypeOK, ReadsAreCurrent, RowsExclude, Row, UpdatesAreNotLost,
       HandoverIsPredecessor, DeadBeforeCurrent
<1> QED
    BY <1>1, <1>2

\* The end of a handover window changes nothing that a request has read.
LEMMA Expiring ==
    ASSUME AppInv, NEW a \in Apps, HandoverEnds(a)
    PROVE  AppInv'
<1> DEFINE row == [app[a] EXCEPT !.prev = 0]
<1>1. /\ app' = [app EXCEPT ![a] = row] /\ app[a] \in App /\ app[a].prev # 0
      /\ UNCHANGED <<tok, req, told>>
    BY DEF HandoverEnds, AppInv, TypeOK
<1>2. 0 \in 0..MaxSecret
    BY BoundAssumption
<1>3. /\ row \in App /\ row.st = app[a].st /\ row.config = app[a].config
      /\ row.cur = app[a].cur /\ row.prev = 0 /\ row.dead = app[a].dead
    BY <1>1, <1>2 DEF App
<1> HIDE DEF row
<1>4. app' \in [Apps -> App] /\ app'[a] = row /\ \A b \in Apps \ {a} : app'[b] = app[b]
    BY <1>1, <1>3 DEF AppInv, TypeOK
<1>5. app[a].st # "absent"
    BY <1>1 DEF AppInv, DeadBeforeCurrent, NoApp
<1>6. TypeOK'
    BY <1>1, <1>4 DEF AppInv, TypeOK
<1>7. ReadsAreCurrent'
    BY <1>1, <1>3, <1>4 DEF AppInv, ReadsAreCurrent, Row, Writers
<1>8. RowsExclude'
    BY <1>1 DEF AppInv, RowsExclude
<1>9. UpdatesAreNotLost' /\ HandoverIsPredecessor' /\ DeadBeforeCurrent' /\ LiveSinceDisable'
    BY <1>1, <1>3, <1>4, <1>5 DEF AppInv, UpdatesAreNotLost, HandoverIsPredecessor,
       DeadBeforeCurrent, LiveSinceDisable
<1> QED
    BY <1>6, <1>7, <1>8, <1>9 DEF AppInv

-----------------------------------------------------------------------------
(* Theorems.                                                               *)

\* The inductive invariant holds in every state of the specification.
THEOREM Administered == Spec => []AppInv
<1>1. Init => AppInv
  <2> SUFFICES ASSUME Init PROVE AppInv
    OBVIOUS
  <2>1. TypeOK
    BY Blank DEF Init, TypeOK
  <2>2. ReadsAreCurrent /\ RowsExclude
    BY Blank DEF Init, ReadsAreCurrent, RowsExclude, Writers, Clients
  <2>3. UpdatesAreNotLost /\ HandoverIsPredecessor /\ DeadBeforeCurrent /\ LiveSinceDisable
    BY DEF Init, UpdatesAreNotLost, HandoverIsPredecessor, DeadBeforeCurrent, LiveSinceDisable,
           NoApp, NoTok
  <2> QED
    BY <2>1, <2>2, <2>3 DEF AppInv
<1>2. AppInv /\ [Next]_vars => AppInv'
  <2> SUFFICES ASSUME AppInv, [Next]_vars PROVE AppInv'
    OBVIOUS
  <2>1. CASE UNCHANGED vars
    BY <2>1 DEF vars, AppInv, TypeOK, ReadsAreCurrent, RowsExclude, Row, UpdatesAreNotLost,
       HandoverIsPredecessor, DeadBeforeCurrent, LiveSinceDisable
  <2>2. ASSUME NEW r \in Reqs, Statement(r) PROVE AppInv'
    BY <2>2, Updating, Rotating, Switching, Requesting, Issuing DEF Statement
  <2>3. CASE Next
    BY <2>2, <2>3, Creating, Administration, Requesting, Issuing, Expiring DEF Next
  <2> QED
    BY <2>1, <2>3
<1> QED
    BY <1>1, <1>2, PTL DEF Spec

\* SELECT ... FOR UPDATE before every read-modify-write of an applications row keeps
\* what administrators were told, for any number of applications and of concurrent
\* requests of any kind.
THEOREM NoLostUpdates == Spec => [](TypeOK /\ UpdatesAreNotLost)
<1>1. AppInv => TypeOK /\ UpdatesAreNotLost
    BY DEF AppInv
<1> QED
    BY <1>1, Administered, PTL

\* However rotations interleave, only the newest two secrets work.
THEOREM HandoverBounded == Spec => []HandoverIsPredecessor
<1>1. AppInv => HandoverIsPredecessor
    BY DEF AppInv
<1> QED
    BY <1>1, Administered, PTL

\* SetServiceAccountActiveAs ends secrets and tokens for good: a secret of before a
\* disable is refused ever after, a token of before it is never active.
THEOREM DisableIsFinal == Spec => []DisabledStaysDead
<1>1. AppInv => DisabledStaysDead
  <2> SUFFICES ASSUME AppInv PROVE DisabledStaysDead
    OBVIOUS
  <2>1. ASSUME NEW a \in Apps, NEW n \in 1..app[a].dead PROVE ~Accepts(a, n)
    <3>1. app[a].dead \in Nat /\ app[a].cur \in Nat /\ app[a].prev \in Nat
      BY BoundAssumption DEF AppInv, TypeOK, App
    <3>2. n \in Nat /\ n <= app[a].dead /\ n # 0
      BY <3>1
    <3> QED
      BY <3>1, <3>2 DEF Accepts, AppInv, DeadBeforeCurrent
  <2>2. \A t \in Tokens : tok[t].st # "absent" /\ ActiveToken(t)
                          => tok[t].over = app[tok[t].app].dead
    BY DEF ActiveToken, AppInv, LiveSinceDisable
  <2> QED
    BY <2>1, <2>2 DEF DisabledStaysDead
<1> QED
    BY <1>1, Administered, PTL

=============================================================================
