---------------------------- MODULE AccountLinks ----------------------------
(***************************************************************************)
(* Link intents and account links between an application's local accounts  *)
(* and FastCAS identities (internal/core: links.go, maintenance.go, and    *)
(* the intent that CompleteAuthorization confirms).                        *)
(*                                                                         *)
(* A link has the id of the intent it comes from.  ActivateLink and        *)
(* Maintenance lock intents before links, RevokeLink locks the link before *)
(* its intent, so these three are transactions of two steps: take the      *)
(* first lock and decide; take the second, write everything and commit.    *)
(* PostgreSQL aborts a transaction of a waiting cycle.                     *)
(*                                                                         *)
(* Time: Go code compares expires_at with the process clock, SQL with the  *)
(* database clock; an intent expires by each at its own moment.            *)
(***************************************************************************)
EXTENDS Naturals, FiniteSets

CONSTANTS
    Intents,     \* pool of link_intents.id
    Clients,     \* confidential applications
    Keys,        \* idempotency keys
    Locals,      \* opaque local account references
    Identities,  \* identities.id
    Txs,         \* transactions in flight
    MaxCrashes,  \* bound: how many transactions are lost to failures
    None

ASSUME CrashAssumption == MaxCrashes \in Nat
ASSUME IdsAssumption ==
    /\ None \notin Intents /\ None \notin Clients /\ None \notin Keys
    /\ None \notin Locals /\ None \notin Identities

VARIABLES
    intent,   \* link_intents
    link,     \* account_links
    events,   \* account_link.revoked rows in the outbox: <<id, version>>
    tx,       \* transactions between their first lock and their end
    crashes   \* history: transactions lost so far

vars == <<intent, link, events, tx, crashes>>

Clocks == {"go", "db"}
Reserved == {"pending", "confirmed", "prepared"}

IntentRow == [st: {"absent", "pending", "confirmed", "prepared", "active", "revoked"},
              client: Clients \cup {None}, key: Keys \cup {None},
              local: Locals \cup {None}, subject: Identities \cup {None},
              expired: SUBSET Clocks]
LinkRow   == [st: {"absent", "prepared", "active", "revoked"}, version: 0..3,
              client: Clients \cup {None}, local: Locals \cup {None},
              subject: Identities \cup {None}]
\* read is the version RevokeLink computes its new version from.
Tx        == [op: {"idle", "activate", "revoke", "maintain"}, ids: SUBSET Intents,
              read: 0..3]

NoIntent == [st |-> "absent", client |-> None, key |-> None, local |-> None,
             subject |-> None, expired |-> {}]
NoLink   == [st |-> "absent", version |-> 0, client |-> None, local |-> None,
             subject |-> None]
IdleTx   == [op |-> "idle", ids |-> {}, read |-> 0]

\* Variables hold what the schema's CHECKs and the Go types allow.
TypeOK ==
    /\ intent \in [Intents -> IntentRow]
    /\ link \in [Intents -> LinkRow]
    /\ events \subseteq Intents \X (0..3)
    /\ tx \in [Txs -> Tx]
    /\ crashes \in 0..MaxCrashes

Init ==
    /\ intent = [i \in Intents |-> NoIntent]
    /\ link = [i \in Intents |-> NoLink]
    /\ events = {}
    /\ tx = [x \in Txs |-> IdleTx]
    /\ crashes = 0

-----------------------------------------------------------------------------
(* Row locks.                                                              *)

HoldsIntent(x, i) == tx[x].op \in {"activate", "maintain"} /\ i \in tx[x].ids

\* Mutant: RevokeLink's SELECT without FOR UPDATE.
HoldsLinkUnlocked(x, i) == FALSE

HoldsLink(x, i) == tx[x].op = "revoke" /\ i \in tx[x].ids

IntentFree(i) == \A x \in Txs : ~HoldsIntent(x, i)
LinkFree(i) == \A x \in Txs : ~HoldsLink(x, i)

\* The rows a transaction's next statement has to lock.
WantsIntent(x, i) == tx[x].op = "revoke" /\ i \in tx[x].ids
WantsLink(x, i) ==
    \/ tx[x].op = "activate" /\ i \in tx[x].ids
    \/ tx[x].op = "maintain" /\ i \in tx[x].ids /\ link[i].st = "prepared"

Waits(x, y) ==
    \E i \in Intents : \/ WantsIntent(x, i) /\ HoldsIntent(y, i)
                       \/ WantsLink(x, i) /\ HoldsLink(y, i)

Begin(x, op, ids, read) ==
    /\ tx[x].op = "idle"
    /\ tx' = [tx EXCEPT ![x] = [op |-> op, ids |-> ids, read |-> read]]
End(x) == tx' = [tx EXCEPT ![x] = IdleTx]

-----------------------------------------------------------------------------
(* From intent to active link.                                             *)

\* A repeated key returns the row that is there; a new one inserts.
CreateLinkIntent(i, c, k, l) ==
    /\ intent[i].st = "absent"
    /\ \A j \in Intents : intent[j].client = c => intent[j].key # k
    /\ intent' = [intent EXCEPT ![i] = [NoIntent EXCEPT !.st = "pending", !.client = c,
                                                        !.key = k, !.local = l]]
    /\ UNCHANGED <<link, events, tx, crashes>>

\* CompleteAuthorization's UPDATE link_intents, for the intent of its nonce.
Confirm(i, u) ==
    /\ intent[i].st = "pending"
    /\ "db" \notin intent[i].expired
    /\ IntentFree(i)
    /\ intent' = [intent EXCEPT ![i].st = "confirmed", ![i].subject = u]
    /\ UNCHANGED <<link, events, tx, crashes>>

\* The unique indexes links_local_live and links_subject_live.
Conflicts(i, j) ==
    /\ link[j].st \in {"prepared", "active"}
    /\ link[j].client = intent[i].client
    /\ link[j].local = intent[i].local \/ link[j].subject = intent[i].subject

\* Mutant: the indexes cover active links only.
PrepareLinkBesidePrepared(i) ==
    /\ intent[i].st = "confirmed"
    /\ "go" \notin intent[i].expired
    /\ IntentFree(i)
    /\ \A j \in Intents : Conflicts(i, j) => link[j].st # "active"
    /\ link' = [link EXCEPT ![i] = [st |-> "prepared", version |-> 1,
                                    client |-> intent[i].client, local |-> intent[i].local,
                                    subject |-> intent[i].subject]]
    /\ intent' = [intent EXCEPT ![i].st = "prepared"]
    /\ UNCHANGED <<events, tx, crashes>>

\* PrepareLink locks one intent; its INSERT waits for a conflicting link that is
\* being revoked and fails on one that stays.
PrepareLink(i) ==
    /\ intent[i].st = "confirmed"
    /\ "go" \notin intent[i].expired
    /\ IntentFree(i)
    /\ \A j \in Intents : ~Conflicts(i, j)
    /\ link' = [link EXCEPT ![i] = [st |-> "prepared", version |-> 1,
                                    client |-> intent[i].client, local |-> intent[i].local,
                                    subject |-> intent[i].subject]]
    /\ intent' = [intent EXCEPT ![i].st = "prepared"]
    /\ UNCHANGED <<events, tx, crashes>>

\* ActivateLink: SELECT ... FROM link_intents ... FOR UPDATE and the checks.
ActivateLink(x, i) ==
    /\ IntentFree(i)
    /\ intent[i].st = "prepared"
    /\ "go" \notin intent[i].expired
    /\ Begin(x, "activate", {i}, 0)
    /\ UNCHANGED <<intent, link, events, crashes>>

\* ActivateLink: UPDATE account_links ... AND state='prepared', then the intent.
CommitActivate(x) ==
    /\ tx[x].op = "activate"
    /\ \A i \in tx[x].ids : LinkFree(i)
    /\ \E i \in tx[x].ids :
          IF link[i].st = "prepared"
          THEN /\ link' = [link EXCEPT ![i].st = "active", ![i].version = link[i].version + 1]
               /\ intent' = [intent EXCEPT ![i].st = "active"]
          ELSE UNCHANGED <<link, intent>>
    /\ End(x)
    /\ UNCHANGED <<events, crashes>>

-----------------------------------------------------------------------------
(* Revocation.                                                             *)

\* RevokeLink: SELECT ... FROM account_links ... FOR UPDATE; the caller's expected
\* version is the current one (any other is refused).
RevokeLink(x, i) ==
    /\ LinkFree(i)
    /\ link[i].st \in {"prepared", "active"}
    /\ Begin(x, "revoke", {i}, link[i].version)
    /\ UNCHANGED <<intent, link, events, crashes>>

\* Mutant: the intent keeps its state.
CommitRevokeLinkOnly(x) ==
    /\ tx[x].op = "revoke"
    /\ \E i \in tx[x].ids :
          /\ link' = [link EXCEPT ![i].st = "revoked", ![i].version = tx[x].read + 1]
          /\ events' = events \cup {<<i, tx[x].read + 1>>}
    /\ End(x)
    /\ UNCHANGED <<intent, crashes>>

\* RevokeLink: both rows, the tokens (see TokenLifecycle) and the event.
CommitRevoke(x) ==
    /\ tx[x].op = "revoke"
    /\ \A i \in tx[x].ids : IntentFree(i)
    /\ \E i \in tx[x].ids :
          /\ link' = [link EXCEPT ![i].st = "revoked", ![i].version = tx[x].read + 1]
          /\ intent' = [intent EXCEPT ![i].st = "revoked"]
          /\ events' = events \cup {<<i, tx[x].read + 1>>}
    /\ End(x)
    /\ UNCHANGED crashes

-----------------------------------------------------------------------------
(* Maintenance.                                                            *)

\* Mutant: confirmed intents are forgotten.
AbandonedUnconfirmed ==
    {i \in Intents : intent[i].st \in {"pending", "prepared"} /\ "db" \in intent[i].expired}

Abandoned == {i \in Intents : intent[i].st \in Reserved /\ "db" \in intent[i].expired}

\* Maintenance: the advisory lock, then SELECT ... FROM link_intents ... FOR UPDATE.
Maintenance(x) ==
    /\ Abandoned # {}
    /\ \A y \in Txs : tx[y].op # "maintain"
    /\ \A i \in Abandoned : IntentFree(i)
    /\ Begin(x, "maintain", Abandoned, 0)
    /\ UNCHANGED <<intent, link, events, crashes>>

\* Mutant: UPDATE account_links without l.state='prepared'.
ReleasedAnyLink(x, i) == "db" \in intent[i].expired /\ link[i].st \in {"prepared", "active"}

\* UPDATE account_links ... FROM link_intents: now() is the transaction's start, so
\* the expired intents are those locked.
Released(x, i) == i \in tx[x].ids /\ link[i].st = "prepared"

CommitMaintenance(x) ==
    /\ tx[x].op = "maintain"
    /\ \A i \in Intents : Released(x, i) => LinkFree(i)
    /\ link' = [i \in Intents |->
          IF Released(x, i)
          THEN [link[i] EXCEPT !.st = "revoked", !.version = link[i].version + 1]
          ELSE link[i]]
    /\ intent' = [i \in Intents |->
          IF i \in tx[x].ids /\ intent[i].st \in Reserved
          THEN [intent[i] EXCEPT !.st = "revoked"] ELSE intent[i]]
    /\ End(x)
    /\ UNCHANGED <<events, crashes>>

-----------------------------------------------------------------------------
(* Time, failure and the database's deadlock detector (external).          *)

Expire(i, clock) ==
    /\ intent[i].st # "absent"
    /\ clock \notin intent[i].expired
    /\ intent' = [intent EXCEPT ![i].expired = intent[i].expired \cup {clock}]
    /\ UNCHANGED <<link, events, tx, crashes>>

\* A failed statement or a dead process: the transaction rolls back.
Crash(x) ==
    /\ tx[x].op # "idle"
    /\ crashes < MaxCrashes
    /\ crashes' = crashes + 1
    /\ End(x)
    /\ UNCHANGED <<intent, link, events>>

BreakDeadlock(x) ==
    /\ \E y \in Txs : Waits(x, y) /\ Waits(y, x)
    /\ End(x)
    /\ UNCHANGED <<intent, link, events, crashes>>

-----------------------------------------------------------------------------

Commit(x) == CommitActivate(x) \/ CommitRevoke(x) \/ CommitMaintenance(x)

Next ==
    \/ \E i \in Intents, c \in Clients, k \in Keys, l \in Locals : CreateLinkIntent(i, c, k, l)
    \/ \E i \in Intents, u \in Identities : Confirm(i, u)
    \/ \E i \in Intents : PrepareLink(i)
    \/ \E i \in Intents, clock \in Clocks : Expire(i, clock)
    \/ \E x \in Txs, i \in Intents : ActivateLink(x, i) \/ RevokeLink(x, i)
    \/ \E x \in Txs : Maintenance(x) \/ Commit(x) \/ Crash(x) \/ BreakDeadlock(x)

Spec == Init /\ [][Next]_vars

\* Clocks advance, the deadlock detector runs, the ticker of cmd/fastcas/main.go
\* starts Maintenance every minute, and a row lock goes to the longest waiter, so
\* a transaction is not overtaken for ever by later ones that want the same rows.
Fairness ==
    /\ \A i \in Intents, clock \in Clocks : WF_vars(Expire(i, clock))
    /\ \A x \in Txs : SF_vars(Commit(x)) /\ WF_vars(BreakDeadlock(x))
    /\ SF_vars(\E x \in Txs : Maintenance(x))

FairSpec == Spec /\ Fairness

-----------------------------------------------------------------------------
(* Properties.                                                             *)

\* Whatever interleaves, a link and its intent commit the same state: the two
\* tables never tell different stories about a reservation.
LinkMatchesIntent ==
    \A i \in Intents :
        /\ link[i].st # "absent" => intent[i].st = link[i].st
        /\ link[i].st = "absent" => intent[i].st \notin {"prepared", "active"}

\* An application's local account, and an identity at an application, have at most
\* one live link, prepared ones included (docs: prepared/active separation).
LiveLinksUnique ==
    \A i, j \in Intents :
        /\ link[i].st \in {"prepared", "active"} /\ link[j].st \in {"prepared", "active"}
        /\ link[i].client = link[j].client
        /\ link[i].local = link[j].local \/ link[i].subject = link[j].subject
        => i = j

\* A link's state changes only with its version, by one, and never once revoked:
\* the version a caller read identifies the state it saw (If-Match on RevokeLink).
VersionNamesState ==
    [][\A i \in Intents :
          link[i].st # "absent" /\ link'[i] # link[i] =>
              link[i].st # "revoked" /\ link'[i].version = link[i].version + 1]_vars

\* A link that was active is revoked only together with its outbox event, which
\* carries the final version; Maintenance, which queues none, never ends one even
\* when its intent expires while the activation is committing.
ActiveRevocationIsAnnounced ==
    \A i \in Intents :
        link[i].st = "revoked" /\ link[i].version = 3 => <<i, 3>> \in events

\* A reservation never stays: it is activated, or revoked by its owner or by
\* Maintenance, even when Maintenance is the victim of a deadlock.
ReservationEnds ==
    \A i \in Intents : intent[i].st \in Reserved ~> intent[i].st \in {"active", "revoked"}

=============================================================================
