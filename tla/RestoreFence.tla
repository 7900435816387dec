---------------------------- MODULE RestoreFence ----------------------------
(***************************************************************************)
(* A backup is restored and fenced (internal/core/recovery.go, with the    *)
(* versions of account_security.go and links.go that cross the restore).   *)
(*                                                                         *)
(* The database goes back to the backup; the applications do not.  They    *)
(* keep the links, the link versions and the sessions they learnt of after *)
(* it.  The service is down from the restore until fence-restore has run,  *)
(* as docs/compose-recovery.md orders.  One application is modelled: the   *)
(* fence treats every application alike and none depends on another.       *)
(***************************************************************************)
EXTENDS Naturals, FiniteSets

CONSTANTS
    Creds,         \* pool of credentials
    Kind(_),       \* the kind of a credential
    Users,         \* identities
    Links,         \* pool of account links
    MaxVersion,    \* bound: versions of an identity's status
    MaxRestores,   \* bound: restores
    None

\* The tables FenceRestoredState writes to.
FencedKinds == {"session", "family", "access", "installation", "auth_request",
                "device", "consent", "one_time"}
Kinds == FencedKinds \cup {"recovery_code"}

\* The status of an identity begins at version 1.
ASSUME BoundAssumption == MaxVersion \in Nat \ {0} /\ MaxRestores \in Nat
ASSUME KindAssumption == \A c \in Creds : Kind(c) \in Kinds

VARIABLES
    db,      \* the database
    snap,    \* the backup
    phase,   \* the service: up, restored (down), fenced (down)
    app,     \* what the application keeps: links and FastCAS sessions
    born,    \* history: the epoch a credential was issued in
    ended,   \* history: credentials that were used up or revoked
    told,    \* history: highest status version announced of an identity
    fenced,  \* history: identities with a link in the backup last restored
    epoch    \* restores so far

vars == <<db, snap, phase, app, born, ended, told, fenced, epoch>>

Link == [st: {"absent", "prepared", "active", "revoked"}, version: 0..3, u: Users \cup {None}]
NoLink == [st |-> "absent", version |-> 0, u |-> None]
Event == [type: {"link"}, l: Links, version: 1..3] \cup [type: {"logout"}, u: Users]
           \cup [type: {"status"}, u: Users, version: 2..MaxVersion]
\* out: events neither delivered nor dead.
Database == [live: SUBSET Creds, version: [Users -> 1..MaxVersion], link: [Links -> Link],
             out: SUBSET Event]
\* known: the version and state of a link; session: the epoch it began in.
App == [known: [Links -> Link], session: [Users -> 0..MaxRestores \cup {None}]]

\* Database, backup and application hold what the schema allows.
TypeOK ==
    /\ db \in Database /\ (snap = None \/ snap \in Database)
    /\ phase \in {"up", "restored", "fenced"}
    /\ app \in App
    /\ born \in [Creds -> 0..MaxRestores \cup {None}] /\ ended \subseteq Creds
    /\ told \in [Users -> 1..MaxVersion] /\ epoch \in 0..MaxRestores /\ fenced \subseteq Users

Init ==
    /\ db = [live |-> {}, version |-> [u \in Users |-> 1],
             link |-> [l \in Links |-> NoLink], out |-> {}]
    /\ snap = None /\ phase = "up"
    /\ app = [known |-> [l \in Links |-> NoLink], session |-> [u \in Users |-> None]]
    /\ born = [c \in Creds |-> None] /\ ended = {}
    /\ told = [u \in Users |-> 1] /\ epoch = 0 /\ fenced = {}

-----------------------------------------------------------------------------
(* The service while it is up.                                             *)

\* Any operation that issues a credential, and any that revokes or uses it up.
Issue(c) ==
    /\ phase = "up" /\ born[c] = None
    /\ db' = [db EXCEPT !.live = @ \cup {c}]
    /\ born' = [born EXCEPT ![c] = epoch]
    /\ UNCHANGED <<snap, phase, app, ended, told, fenced, epoch>>

End(c) ==
    /\ phase = "up" /\ c \in db.live
    /\ db' = [db EXCEPT !.live = @ \ {c}]
    /\ ended' = ended \cup {c}
    /\ UNCHANGED <<snap, phase, app, born, told, fenced, epoch>>

\* Odd versions are active, even ones disabled: a status is set only to the
\* other one.  Applications with an active link are told.
SetIdentityStatus(u) ==
    LET v == db.version[u] + 1
        linked == \E l \in Links : db.link[l].st = "active" /\ db.link[l].u = u
        logout == IF v % 2 = 0 THEN {[type |-> "logout", u |-> u]} ELSE {} IN
    /\ phase = "up" /\ v <= MaxVersion
    /\ db' = [db EXCEPT !.version[u] = v,
         !.out = IF linked THEN @ \cup {[type |-> "status", u |-> u, version |-> v]} \cup logout
                 ELSE @]
    /\ told' = IF linked /\ v > told[u] THEN [told EXCEPT ![u] = v] ELSE told
    /\ UNCHANGED <<snap, phase, app, born, ended, fenced, epoch>>

\* Ids are random: one that a restore forgot is not drawn again.
PrepareLink(l, u) ==
    /\ phase = "up" /\ db.link[l].st = "absent" /\ app.known[l].st = "absent"
    /\ db.version[u] % 2 = 1
    /\ \A k \in Links : db.link[k].u = u => db.link[k].st = "revoked"
    /\ db' = [db EXCEPT !.link[l] = [st |-> "prepared", version |-> 1, u |-> u]]
    /\ app' = [app EXCEPT !.known[l] = db'.link[l]]
    /\ UNCHANGED <<snap, phase, born, ended, told, fenced, epoch>>

ActivateLink(l) ==
    /\ phase = "up" /\ db.link[l].st = "prepared"
    /\ db' = [db EXCEPT !.link[l].st = "active", !.link[l].version = @ + 1]
    /\ UNCHANGED <<snap, phase, app, born, ended, told, fenced, epoch>>

\* The application reads the answer of ActivateLink, or asks again.
GetLink(l) ==
    /\ phase = "up" /\ db.link[l].st = "active" /\ app.known[l].version < db.link[l].version
    /\ app' = [app EXCEPT !.known[l] = db.link[l]]
    /\ UNCHANGED <<db, snap, phase, born, ended, told, fenced, epoch>>

RevokeLink(l) ==
    /\ phase = "up" /\ db.link[l].st \in {"prepared", "active"}
    /\ db' = [db EXCEPT !.link[l].st = "revoked", !.link[l].version = @ + 1,
         !.out = @ \cup {[type |-> "link", l |-> l, version |-> db.link[l].version + 1]}]
    /\ UNCHANGED <<snap, phase, app, born, ended, told, fenced, epoch>>

-----------------------------------------------------------------------------
(* The application.                                                        *)

\* A FastCAS login needs a link that the centre resolves.
AppLogin(u) ==
    /\ phase = "up" /\ db.version[u] % 2 = 1 /\ app.session[u] = None
    /\ \E l \in Links : db.link[l].st = "active" /\ db.link[l].u = u
                        /\ app.known[l].st = "active"
    /\ app' = [app EXCEPT !.session[u] = epoch]
    /\ UNCHANGED <<db, snap, phase, born, ended, told, fenced, epoch>>

\* A worker delivers; the receiver ignores an event that is older than what it
\* knows (docs/events.md).  A disabled identity loses its FastCAS sessions, and
\* so does the owner of a revoked link.
Deliver(e) ==
    /\ phase = "up" /\ e \in db.out
    /\ db' = [db EXCEPT !.out = @ \ {e}]
    /\ app' = CASE e.type = "link" /\ e.version >= app.known[e.l].version ->
                     [app EXCEPT !.known[e.l].st = "revoked", !.known[e.l].version = e.version,
                                 !.session[app.known[e.l].u] = None]
                [] e.type = "logout" \/ (e.type = "status" /\ e.version % 2 = 0) ->
                     [app EXCEPT !.session[e.u] = None]
                [] OTHER -> app
    /\ UNCHANGED <<snap, phase, born, ended, told, fenced, epoch>>

-----------------------------------------------------------------------------
(* Backup, restore, fence.                                                 *)

Backup ==
    /\ phase = "up" /\ snap # db
    /\ snap' = db
    /\ UNCHANGED <<db, phase, app, born, ended, told, fenced, epoch>>

Restore ==
    /\ snap # None /\ epoch < MaxRestores
    /\ db' = snap /\ phase' = "restored" /\ epoch' = epoch + 1
    /\ UNCHANGED <<snap, app, born, ended, told, fenced>>

Existing == {l \in Links : db.link[l].st # "absent"}

\* Mutant: links that are revoked in the snapshot are not announced again.
FenceEventsOnlyLive ==
    {[type |-> "link", l |-> l, version |-> db.link[l].version + 1] :
       l \in {k \in Existing : db.link[k].st # "revoked"}}
    \cup {[type |-> "logout", u |-> db.link[l].u] : l \in Existing}

\* Mutant: no logout for the owners of links.
FenceEventsNoLogout ==
    {[type |-> "link", l |-> l,
      version |-> IF db.link[l].st = "revoked" THEN db.link[l].version
                  ELSE db.link[l].version + 1] : l \in Existing}

FenceEvents ==
    {[type |-> "link", l |-> l,
      version |-> IF db.link[l].st = "revoked" THEN db.link[l].version
                  ELSE db.link[l].version + 1] : l \in Existing}
    \cup {[type |-> "logout", u |-> db.link[l].u] : l \in Existing}

FenceLinks ==
    [l \in Links |-> IF l \in Existing /\ db.link[l].st # "revoked"
                       THEN [db.link[l] EXCEPT !.st = "revoked", !.version = @ + 1]
                       ELSE db.link[l]]

\* Mutant: one-time credentials are forgotten.
FenceRestoredStateKeepsOneTime ==
    /\ phase \in {"restored", "fenced"}
    /\ db' = [db EXCEPT !.live = {c \in @ : Kind(c) \in {"one_time", "recovery_code"}},
                        !.link = FenceLinks, !.out = FenceEvents]
    /\ phase' = "fenced" /\ fenced' = {db.link[l].u : l \in Existing}
    /\ UNCHANGED <<snap, app, born, ended, told, epoch>>

\* One transaction; events of the snapshot become dead.
FenceRestoredState ==
    /\ phase \in {"restored", "fenced"}
    /\ db' = [db EXCEPT !.live = {c \in @ : Kind(c) \notin FencedKinds},
                        !.link = FenceLinks, !.out = FenceEvents]
    /\ phase' = "fenced" /\ fenced' = {db.link[l].u : l \in Existing}
    /\ UNCHANGED <<snap, app, born, ended, told, epoch>>

Start ==
    /\ phase = "fenced"
    /\ phase' = "up"
    /\ UNCHANGED <<db, snap, app, born, ended, told, fenced, epoch>>

Next ==
    \/ \E c \in Creds : Issue(c) \/ End(c)
    \/ \E u \in Users : SetIdentityStatus(u) \/ AppLogin(u)
    \/ \E l \in Links : ActivateLink(l) \/ GetLink(l) \/ RevokeLink(l)
                        \/ \E u \in Users : PrepareLink(l, u)
    \/ \E e \in db.out : Deliver(e)
    \/ Backup \/ Restore \/ FenceRestoredState \/ Start

Spec == Init /\ [][Next]_vars

-----------------------------------------------------------------------------
(* Properties.                                                             *)

\* While the service is up, no session, token, code, consent, installation or
\* one-time credential from before the last restore is accepted, whatever the
\* backup held and whatever had been revoked or used up since.
SnapshotGrantsDie ==
    phase = "up" => \A c \in db.live : Kind(c) \in FencedKinds => born[c] = epoch

\* When the application has received what is queued, it keeps no active link
\* that the centre holds revoked, also when it activated the link after the
\* backup was taken and when the revocation was still undelivered in it.
RevokedLinksReachApp ==
    phase = "up" => \A l \in Links :
        db.link[l].st = "revoked" /\ ~(\E e \in db.out : e.type = "link" /\ e.l = l)
            => app.known[l].st # "active"

\* When the application has received what is queued, no FastCAS session from
\* before a restore is left for an identity whose link is in the backup.
OldSessionsEnd ==
    phase = "up" => \A u \in fenced :
        [type |-> "logout", u |-> u] \notin db.out => app.session[u] \in {None, epoch}

\* A credential that was used up is not accepted again after a restore.
UsedCredentialsStayUsed == phase = "up" => db.live \cap ended = {}

\* The version of an identity's status increases with every announcement: the
\* next one is above every version announced before.
StatusVersionsIncrease ==
    phase = "up" => \A u \in Users : told[u] <= db.version[u]

=============================================================================
