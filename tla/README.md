# TLA+ models of FastCAS

FastCAS is an identity provider: a Go server (`src/cmd/fastcas`, `src/internal`)
that keeps everything in one PostgreSQL database, speaks OpenID Connect through a
library (`zitadel/oidc`), links the local accounts of applications to central
identities, and tells applications about revocations through an outbox. Any number
of HTTP handlers, delivery workers and maintenance ticks, of one or more server
processes, work on the database at the same time at READ COMMITTED. What is hard in
this code is therefore the order of SQL statements of different handlers, and that is
what these modules are about.

## Inventory

| Part | State | Operations | What must be right |
|---|---|---|---|
| Identities (`store.go`, `account_security.go`) | `identities`: role, status, status_version | create, `SetIdentityStatus` | some administrator stays active; disabling ends everything |
| Browser sessions (`store.go`, `logout.go`) | `browser_sessions` | `NewSession`, `Session`, `LogoutSession`, `LogoutAll` | a dead session is dead for its tokens too; applications are told |
| Authorization requests (`authorization.go`) | `auth_requests` | create, complete, save code, redeem | a code is redeemed once |
| Tokens (`tokens.go`) | `token_families`, `refresh_tokens`, `access_tokens` | issue, rotate, introspect, revoke | rotation, replay detection, no token out of a dead family |
| Account links (`links.go`, `maintenance.go`) | `link_intents`, `account_links` | intent, confirm, prepare, activate, revoke, release abandoned | tables agree, links unique, versions name states, reservations end |
| Outbox (`events.go`, `outbox_admin.go`, `maintenance.go`) | `outbox`, `outbox_attempts` | queue, claim, post, complete, retry, purge | at least once, fenced, ends |
| Device flow, installations (`device.go`, `installations.go`) | `device_authorizations`, `device_installations` | start, poll, confirm, register, revoke | an approved code is consumed once, and not after its owner changed credentials |
| Token exchange (`exchange.go`) | `exchange_policies`, `exchange_consents` | validate, set policy, set consent | delegation ends with its consent |
| Credentials, MFA (`account_security.go`) | password, TOTP and recovery columns, `one_time_credentials` | login, reauthenticate, change, enrol, reset, issue, redeem | one-time means once, sessions end with the credentials they were opened with |
| Applications, service accounts (`client.go`, `service_accounts.go`) | `applications` | register, update, rotate secret, disable and enable, client_credentials | no update lost, handover of the old secret, a disabled account stays out |
| Rate limits (`store.go`) | `rate_limits` | `Allow` | bound per window, no refusal without a cause |
| Signing keys (`keys.go`, `key_rotation.go`) | key directory | initialise, load, rotate | a crash leaves a loadable directory |
| Restore fence (`recovery.go`) | all tables | `FenceRestoredState` | nothing revoked is valid again |
| SDKs (`sdk/`) | login transactions, key cache | login, link, events, introspection | take-once transactions, links recorded on both sides |

Interactions: handlers meet only in the database (row locks, advisory locks, unique
indexes). Logout, status changes and link revocation write `outbox` rows in their own
transaction; workers pick them up. `CompleteAuthorization` confirms the link intent
that the request's nonce names. `RevokeLink` revokes tokens with the statements that
`TerminateSession` uses. The hazards are listed, line by line, in `PROJECT.json`.

## Modules

| Module | Models |
|---|---|
| `TokenLifecycle` | identities' status, sessions, authorization requests, families, refresh and access tokens, logout and status notices |
| `OutboxAbstract` | what the outbox promises |
| `OutboxDelivery` | the outbox table, workers, retries; external receiver |
| `AccountLinks` | link intents, account links, maintenance, row locks and the deadlock detector |
| `Credentials` | passwords, TOTP, recovery codes, one-time credentials, and the sessions that rest on them |
| `Applications` | `applications` rows, their secrets, service accounts and their tokens |
| `Delegation` | exchange policies, consents, links and delegated tokens |
| `DeviceFlow` | device authorizations, device tokens, installations |
| `KeyRing` | the key directory, `init-keys`, `rotate-keys`, issuers that load and sign; external file system |
| `RestoreFence` | backup, restore, fence; external application that keeps what it learnt |
| `SdkLogin` | the Go SDK's login and link calls between an external application and the centre |
| `...Proofs` | theorems about the module they extend: `TokenLifecycle`, `OutboxDelivery`, `AccountLinks`, `Credentials`, `Applications`, `DeviceFlow`, `KeyRing`, `RestoreFence`; `AccountLinksProofs` also has `Delegation` (instance `Exchange`), `RestoreFenceProofs` also `SdkLogin` (instance `Sdk`) |
| `MC...` | instances for TLC: symmetry sets and the shapes of their data; the constants are in the `.cfg` files |

A definition whose comment starts with "Mutant" is a plausible bug in the definition
after it. No specification uses one; each is there to show that a property fails when
the code is wrong in that way.

### How code becomes actions

* A statement is atomic. A transaction is atomic when its first statement locks the
  rows on which the competing transactions conflict (`CompleteAuthorization`,
  `PrepareLink`, refresh rotation). Otherwise it is split where others can get in:
  revocations are `BeginSweep` and `CommitSweep`, the transactions on links are
  `ActivateLink`/`CommitActivate` and so on.
* A handler that reads in one call and writes in a later one keeps what it read in
  `handler[h]`. Login's `INSERT ... SELECT` is two actions: it reads the
  status, and its foreign-key check then waits for whoever has locked the identity.
* Random identifiers come from finite pools; a row that is not there is `"unused"` or
  `"absent"`. Times are abstracted to whether they have passed, which happens at any
  moment. Rows that Maintenance deletes a day after they expired are simply expired.
* `BeginSweep` serves every transaction that revokes sessions: `LogoutAll`, `LogoutSession`,
  `SetIdentityStatus`, and the changes of credentials (`ChangePassword`, `RedeemMFAReset`,
  `RedeemCredential` of a recovery, `ConfirmMFA`). They differ in the locks they hold, in what they
  sweep and in whether they queue a logout. `ConfirmMFA` ends the other sessions of its caller
  (`account_security.go:127`), touches no token and queues nothing.
* A sweep records the families its `UPDATE token_families` selected when that
  statement began. Access tokens are selected at the end: rows inserted
  in between are seen there, the families inserted in between are not.
* `Abandon` and `Crash` stand for disconnects, refusals of the OIDC library (client,
  redirect, PKCE) and dying processes; PostgreSQL rolls back what was not committed.
* History variables and fields, marked as such, never guard a step, except the two
  bounds `MaxCrashes` and `MaxSlips`.

How the later modules were cut:

* `Credentials`. Every handler is a request of several statements, and `req[r]` keeps
  what it has read. `RedeemCredential` of a recovery is two actions: its `UPDATE
  identities` sets only `password_hash`, which takes a lock that a foreign-key check
  does not wait for, so `NewSession` can insert a row between the sweep of sessions
  and the commit. Statements that lock the same rows wait (`Recovering`, `Rotating`, `Free`).
  `NewSession` stores in history what its login verified, the password (`pw0`) and the secret
  (`mfa0`), and whether one of them has changed since (`late`); the code compares neither. Rotating recovery codes is two actions as well: its `SELECT ... FOR UPDATE OF i`
  locks the identity, not the session, which may end before the commit.
  `IssueCredential` is two actions because its sweep locks only the credentials it finds: two of them may both
  void the earlier credentials before either inserts its own. A wrong password is
  a request that ends (`Refused`).
* `Applications`. `SELECT ... FOR UPDATE` is `Lock`, the write and commit a second
  action. `DefaultGrants`, `validateCapabilities` and `serviceClient` are operators over
  a small set of capability shapes.
* `Delegation`. An exchange is validation, the check of `CreateAccessToken`, the
  insert, and the claims of the JWT. A withdrawal is a transaction of two steps: its `UPDATE
  access_tokens` finds the tokens of that moment (`DisablePolicy`, `RevokeConsent`, `RevokeLink`), and
  `Commit` publishes them with the withdrawal, or `Rollback` undoes both. Between the two,
  other transactions still see the permission, and no lock keeps an exchange from
  inserting its token. Permissions are records of caller, target, resource and scope.
* `DeviceFlow`. A poll is one transaction; token check and insert follow it. The
  sweeps of `SetIdentityStatus` and of a credential change happen at the moment of their
  `UPDATE` statements. Intervals are counted in five seconds.
* `KeyRing`. One action per file operation. `fsync` of a file makes its content and creation
  durable; a rename or a removal is durable once the directory has been synced, and a
  power loss may undo each unsynced entry. Issuers are stopped during a rotation, as
  `docs/key-rotation.md:7` requires; rotators may run concurrently, and the
  lock file decides.
* `RestoreFence`. The service is down from the restore to the fence, as
  `docs/compose-recovery.md` orders. `Issue` and `End` stand for all operations that
  make a credential and that use it up or revoke it; the kind of a credential is
  the table it is in. One application: the fence treats all of them alike.
* `SdkLogin`. State, nonce, verifier and intent are fresh in every transaction, so a
  transaction stands for them. The store's `Take` is atomic and the application
  commits a pending record before `ActivateLink` and retries with the same link id,
  as `sdk/go/README.md` asks. Each opening of the redirect makes an authorization request of its own, so
  that several subjects may authorize one transaction; the first confirms its intent. A callback may bring any code: the exchange burns it
  and succeeds when the PKCE verifier fits. `RevokeLink` may come at any time;
  the application applies its event (`HandleNotification`) and writes `active` over a pending record only,
  the comparison of versions that `docs/events.md` asks for.

`TokenLifecycle` leaves out scopes, audiences and claims, deactivated clients
(`Clients` are the active ones) and links that change meanwhile (`Linked` is
constant). `AccountLinks` leaves out the nonce, which names exactly one intent, and
the caller's stale version, which is refused before anything is written.

## Runs

| Run | Instance | Shows |
|---|---|---|
| `token_rotation` | 1 identity, 1 session, 1 code, 1 family, 2 refresh and 2 access tokens, 2 handlers, 1 revocation | single use of codes and refresh tokens, one fresh token per family, replay kills the family, tokens bound to their family, nothing minted in a dead family, death of a session's token is final |
| `session_logout` | 2 administrators, 2 sessions, 1 linked application, 1 handler, 2 concurrent revocations | a revoked session has its logout notice, unless `ConfirmMFA` ended it; one administrator stays active |
| `outbox` | 1 event, 2 workers, 3 attempts, 2 crashes, 2 leases outrun | fencing, exclusive delivery, refinement of `OutboxAbstract`, every event is delivered or dead in the end |
| `links` | 2 intents, 2 local accounts, 2 identities, 2 transactions, 1 lost | tables agree, live links unique, versions name states, revocations of active links announced, every reservation ends |
| `second_factor` | 1 identity, 2 sessions, 1 reset credential, 2 passwords, 2 secrets, 2 TOTP steps, 2 codes, 2 requests | a step or a code is accepted once, codes match the secret, a password change was verified with the current factor |
| `one_time` | 2 identities, 2 sessions, 2 credentials, 2 passwords, 2 requests | issuing voids earlier credentials; a live session was opened with what is in force, unless a change overtook its login |
| `applications` | 1 application, 2 URLs, all shapes, 4 secrets, 2 tokens, 2 requests | no update lost, handover secret is the predecessor, a disabled account's secrets and tokens stay dead |
| `delegation` | 2 applications, 2 scopes, 3 tokens, 1 exchange, 2 withdrawals | a withdrawal ends what was inserted before its sweep; a token outlives its permission only if it was validated before the commit of a withdrawal and inserted after its sweep |
| `device_pairing` | 2 codes, 1 identity, 2 tokens, 2 installations, 2 requests, 1 sweep | one installation per code, revoked installations have no token, approvals end with credentials, active tokens follow an approval and were inserted after the last sweep |
| `key_rotation` | 1 issuer, 2 rotators, 3 keys, clock to 3 | the directory loads for ever, tokens verify, dropped keys do not return |
| `restore` | 1 identity, 2 links, 1 one-time credential, versions to 3, 2 restores | applications learn of the fence; what a snapshot contains dies |
| `sdk_login` | 1 transaction, 2 authorization requests, 2 browsers, 2 accounts, 2 subjects, 3 requests, 2 crashes | one result per transaction and links that follow it, active links are recorded, records come to agree with the centre |

Bounds. Two handlers and two refresh tokens are what a race for a token and its
replay need; a third actor, the revocation, can fall between any two of
their steps. Events of the outbox share nothing but the workers, so one event with two
workers has every race; two crashes and two outrun leases let each worker come back late
after the other. Two intents conflict in the local account, in the identity or in both.
Two requests with two passwords or secrets let each statement of one
fall between any two of the other, before and after the credential changed. Three
keys and a clock to 3 let a retained key expire while its successor is rotated out, with an
interruption in each of two rotations; a second restore can bring back a snapshot taken after
the first. The fence treats the fenced kinds alike and credentials do not act on one another, so
one credential is enough. Three tokens are a source, a delegated token and a successor of either; two withdrawals
take the same permission twice, or two permissions of one token, with their sweeps and commits in any order. One
transaction of the SDK can be called back by three requests, in the right browser and the wrong one,
with the code of either subject; transactions share nothing but the codes, and that a callback brings the code
of another transaction happens only in the proof, which has any number of both. `MaxAttempts` is 3 instead of 12: the code only compares with it.
For the invariants proved below the bounds do not matter.
Symmetry is used only in runs without liveness properties. Deadlock is checked where
the system has no final state (`TokenLifecycle`); the other runs switch the check off,
because their finite pools of events, intents, keys and credentials are used up.

Every module states its type invariant, `TypeOK`; it is proved for every module.

Fairness. A running worker finishes what it started, because its HTTP client times
out; clocks advance; a due event is claimed if it is claimable again and again
(strong fairness), because the claim takes the oldest row first and the loop runs
every second. For links: the maintenance ticker fires every minute and a row lock
goes to the longest waiter, so maintenance and commits are strongly fair; the
deadlock detector always runs. For the SDK: a request of the
application that has begun ends, by its HTTP client's timeout if by nothing else, and the
application retries the pending records it finds (weak fairness of both; retrying is
what `sdk/go/README.md` asks of the application), and an event that is queued is applied (weak fairness
of `HandleNotification`): the outbox delivers it again until the application answers 2xx, within
the 12 attempts, after which an operator has to retry it. No fairness is assumed of users, applications, or
of the replies. The `outbox` run bounds crashes and outrun leases: an event whose every delivery is interrupted is counted up without ever
being settled, since only a completion sets `dead_at`.

### Where code and documents differ

Seven sentences of the documentation or of comments, and what one check in the code suggests, are
stated as properties that the code does not have. Their configurations are not among the runs above: TLC reports a counterexample for each.

* `MCOutboxDead.cfg`. `docs/events.md:11` says that `dead_at` is set after 12 failures. `DeliverEvent`
  counts an attempt when it claims (`events.go:32`) and compares that number
  (`events.go:119`), so a claim whose worker died, or was cut off by a shutdown before
  it could record anything, counts too. A worker claims and dies, the lease ends, the
  remaining attempts fail, and the event is dead with one recorded failure fewer.
* `MCResetPassword.cfg`. `account_security.go:272-273` says that an MFA reset requires the
  account's current password. `Authenticate` runs at line 281, before the
  transaction, and the transaction does not compare again: a reset that presented the old
  password removes the second factor after a recovery or a change set a new one.
* `MCRecoverySessions.cfg`. `docs/development.md:56` says that recovery revokes old sessions.
  A login that has verified the old password inserts its session after the sweep
  (`account_security.go:425` ff.), before the commit, where the foreign-key check
  of the insert does not conflict with an update of `password_hash`, or after it: `NewSession` asks for an
  active identity and compares nothing (`server.go:248` ff., `store.go:192`). The session stays.
  Password changes and MFA resets have the same gap.
  `SessionsFollowCredentials` holds for the sessions of all logins that no change overtook (`late`).
* `MCServiceTokens.cfg`. `service_accounts.go:47-48` says that a disabled account loses all tracked
  tokens and that an old secret never works. A request that was authorised and validated
  before the disabling inserts its token after the sweep; nobody can use it while the account is
  disabled, and it is active once the account is enabled again. `DisabledStaysDead` holds
  for the secrets and for every token that exists when the account is disabled.
* `MCDelegationRevoked.cfg`. `docs/token-exchange.md:7` says that introspection refuses an
  exchanged token once the source or the target binding is revoked. Introspection looks at the
  source and the policy, not at the links, so a token inserted after the sweep of `RevokeLink` of the target,
  by an exchange validated before its commit, is accepted until it expires.
  `OnlyRacesOutlivePermission` shows that nothing but such an exchange gets there.
* `MCDeviceDisabled.cfg`. `validateTokenSubject` (`tokens.go:84-105`) refuses a disabled identity, yet a
  device token can be inserted for one: the check and the INSERT are two statements, and a device
  token has no session that the disabling would end. The token becomes active when the identity is enabled again.
  `DeviceTokensFollowApprovals` bounds what is left: the poll had consumed an approval of the credentials then in force.
* `MCRestoreCodes.cfg`. `recovery.go:5` says that the fence invalidates every credential of a
  snapshot; recovery codes are not in its list of statements.
* `MCRestoreVersions.cfg`. `docs/events.md:3` calls the version of a status event monotonically
  increasing; the fence leaves `status_version` at the snapshot's value, and the
  next changes reuse versions that applications have seen.

## Proofs

Every theorem holds for every value of the constants under the modules' ASSUMEs: any
number of identities, sessions, tokens, requests, workers or keys. Sets need not be finite.
The assumptions are these.

* NULL (`None`) is no identifier, payload, key or manifest, and random identifiers of two
  tables that are looked up together differ (`NoneAssumption`, `IdsAssumption`, `FreshIdsAssumption`, `PayloadAssumption`).
* Administrators are identities, linked clients are clients, and shapes and kinds are
  among those the code knows (`RolesAssumption`, `AdminsAssumption`, `ShapesAssumption`, `KindAssumption`).
* Bounds are natural numbers. At least one attempt is allowed (the code's 12), and there is room
  for a first secret, a first password and a first version: secrets, passwords and link
  versions are numbered from 1 (`MaxSecret`, `MaxPw`, `MaxVersion`).
* A token lives shorter than a retired key is retained (`RetentionAssumption`, which
  `RotateKeys` enforces).

Each module proves `Spec => []I` for one inductive invariant `I` (or a few, stacked) and
derives the properties from it. Where a handler is several actions, `I` says what a
request has read and why nobody has changed it since; that is nearly always the part the
property needs and does not say. Action properties follow from `I` and one step.

`OutboxDeliveryProofs`. `FencingInv` strengthens the types with three facts: only a
pending row has a lease (`LeaseOnPending`); a worker knows its event, and a 2xx in its
hands means the application acknowledged (`WorkerKnows`); requests on the wire are
about queued events (`StrayQueued`). `SettledIsUnleased` follows at once.
`RecordedByClaimant` is inductive beside it. `Refinement` maps every step to a step of
`OutboxAbstract` or a stutter: the only hard step is `Complete`, where the matching
lease gives that the row is still pending, and `WorkerKnows` that a delivered row
was acknowledged. `Exclusive` counts the workers that deliver an event without a running
lease of their own (`StaleInv`): only a lease that ends under its holder adds one.

`TokenLifecycleProofs`. `FilledInv` says that a row in use has its columns filled in
and that handlers and sweeps refer to rows in use; without it nothing can be said of
`refresh[t].family`. On top of it:

* `SingleUse`: `MintInv` says that the grant of a minted token, or of a request on its
  way to minting, is consumed, and that two requests never redeem the same code. Two
  requests may hold the same refresh token; the row lock decides.
* `FamilyBound`: the payload a handler carries is the refresh token's
  (`CarriesPayload`), so rotation copies the family's payload.
* `OneFresh`, `DeadFamilyIsBarren`: from the rotation's check under its locks.
* `ReuseDetected`: a token whose presentation has been decided once is consumed or its family
  is dead (`PresentedIsSpent`); the second decision then finds it so.
* `AdminRemains`: a status change in flight has seen another active
  administrator, and is the only one in flight (`AdminInv`).
* `LogoutsAnnounced`: a revocation in flight names the owner of the session it revokes
  (`SweepNames`), and neither session nor owner changes before it commits. A session that `ConfirmMFA`
  ended is marked, and excepted.
* `DeathIsFinal`: every payload in a table or in a handler's hands names a session of its
  subject, and if the subject is disabled that session is dead (`BoundInv`). A login that
  races with a disabling may leave a live session of a disabled identity, but no payload names
  it, because consent reads session and status together.

`AccountLinksProofs`. `LinkInv`: the version of a link counts its states
(`VersionOfState`); a transaction in flight still finds the row as it read it
(`TxKnows`), because a row lock has one holder (`LocksExclude`); so intents and links
agree. `OneLiveLink` needs only that no step but `PrepareLink` makes a link live;
`EndOfLinkAnnounced` and `VersionsNameStates` use `TxKnows` at the commits.
`ActiveLinksStepwise` is what `Delegation` takes for granted of the links: the pairs of
identity and application that have an active link change one at a time, and an activation
adds a pair that was missing. It needs `OneLiveLink`, and that a confirmed intent
names its identity (`Named`).

The same module proves `Delegation`, as its instance `Exchange` with variables of its own; nothing
is assumed of the constants. `ExchangeInv`: the permissions that a delegated token, or a request on its way
to one, was validated for belong to its application and have a policy row, and each of them
stands or was withdrawn since (`Held`; `TokensHeld`, `RequestsHeld`); a permission is lost only in the commit
of a withdrawal (`Withdrawn`). The first half is what a sweep
needs to find all the live tokens that rest on a permission: that of `RevokeLink` goes by the callers of policies, and would
miss a token whose policy row had never been there. So a live token that a withdrawal is about was found
by its sweep or inserted after it (`Covered`), and what was found ends with the commit. `WithdrawalHolds`
and `RacesOnly` follow.

`ApplicationsProofs`. `AppInv`: who holds the row has its current configuration and
secret (`ReadsAreCurrent`, `RowsExclude`), and secrets that a disabling ended come before
those that work (`DeadBeforeCurrent`). A live token was inserted after the last disabling
(`LiveSinceDisable`): this is where the insert after a sweep counts as a token of after it.

`DeviceFlowProofs`. `FlowInv`: a consumed code is with one request or with one token
(`OneHolder`), installations hold tokens of their own (`Paired`), a live token was inserted
after the last sweep (`LiveSinceSweep`), and a poll consumes only an approval that no
change of credentials has swept (`Polled`), because the swept ones are no longer approved
(`CredentialChangeEndsApprovals`, part of the invariant). An approval that an old session confirms after the sweep is
outside both properties: `ConfirmDevice` does not look at the session again.

`KeyRingProofs`. A power loss may undo each unsynced entry of the directory by itself. The
order of writes and syncs (`Entries`) gives that whatever it puts together loads like the
directory or like its durable entries (lemma `LoadMix`), so `KeyInv` follows only these two
manifests: both cover the signed tokens (`Covered`) and have no dropped key (`Undropped`). `Progress`
says what a rotation knows at each of its steps, `Alone` that rotations exclude each other and
the issuers.

`RestoreFenceProofs`. `FenceInv`: between the fence and the start, all three promises hold
before any delivery (`AfterFence`); versions count the states of a link in the database and in the
snapshot (`Sound`), so the event of the fence is never older than what the application knows
as active (`KnownActive`).

The same module proves `SdkLogin`, as its instance `Sdk` (`MaxCrashes` is a number). `SdkInv`: a
transaction is held by one request (`OneHolder`), which knows what the calls before it
established (`Holds`): browser, purpose and account of the transaction that was taken, the subject of a code
it exchanged, the result it links, the record it activates, which only an event may have ended. Transaction, link, event and record agree
(`Agrees`); a result names the browser of its transaction and the subject of a code of it
(`Follows`), and a transaction has one (`OneResult`). Each step touches one transaction, so two lemmas (`RequestKeeps`, `CentreKeeps`) reduce
it to the facts about that one; codes that were exchanged never come back (`Burned`). That a callback which comes back gives no second result rests on the
store: a transaction is taken once, and who has taken it finds no result of it. That the link is of the result's subject, whoever
else authorized, rests on `PrepareLink`, which compares it with the subject that confirmed. That an active link is recorded rests on the order
of `CommitPending` and `ActivateLink`, and on `OneHolder`: no second request drops the record of an
activation in flight.

`CredentialsProofs`. Four layers. `Typed`: rows exist and requests refer to them.
`FactorInv`: a secret has one owner, and neither a step that could still be accepted nor
a valid recovery code has been used. `SessInv`: a recovery in flight has swept
all sessions but those of logins it overtook (`RecoveryCovers`), a live session of any other login carries what is
in force, and the factor that a password
change has verified is the enrolled one as long as its session lives (`ChangeOK`). `Voided`: what
an issue had to void is spent. Lemmas describe what each statement does to the rows
(`IdentBecomes`, `ReqBecomes` and so on); the layers are proved from them.

Only model-checked: the liveness properties `EventuallySettled`, `ReservationEnds` and
`RecordsAreSettled`, which are out of the prover's reach. Every invariant and every action
property that a run checks is proved.

## Not modelled

HTTP routing, forms, cookies, CSRF tokens, JSON, signatures and encryption,
rate limits (count, reset and expiry of a window are one upsert of
one row, with no second step to interleave), validation of URLs and scopes, telemetry and lists (they only read), the web console,
generated API descriptions, examples, deployment. Hashing of passwords and encryption of
secrets are functions without state. The Python and TypeScript SDKs repeat the protocol
of the Go SDK; their token verification and key caches check signatures. A power loss
after a rotation was killed between its rename and its directory sync may undo a ring that
was already served; `SignedTokensVerify` excepts that state (`torn`). An `init-keys` that dies
between its files leaves a directory that neither loads nor can be initialised again,
which the operator sees at once.

## Plan

Done: the modules above, in the order token lifecycle, outbox, links, then credentials,
applications, delegation, device flow, key ring, restore fence and SDK; proofs of all
their safety properties. Next:

1. `LinkNotify`, which composes `AccountLinks`, the outbox and a receiver that follows
   `docs/events.md`: receivers converge although events are repeated and reordered.
