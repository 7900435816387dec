------------------------- MODULE AccountLinksProofs -------------------------
(***************************************************************************)
(* Proofs about AccountLinks, and about the delegation that rests on the   *)
(* links.                                                                  *)
(*                                                                         *)
(* The two tables agree because a transaction that has its first lock      *)
(* still knows the row it read there when it comes to write: TxKnows says  *)
(* what each one knows, LocksExclude why no other transaction has made it  *)
(* false, VersionOfState that the version it writes is the next one.       *)
(***************************************************************************)
EXTENDS AccountLinks, TLAPS

\* The version counts the states of a link: prepared, active, revoked.
VersionOfState ==
    \A i \in Intents :
        /\ link[i].st = "absent" => link[i].version = 0
        /\ link[i].st = "prepared" => link[i].version = 1
        /\ link[i].st = "active" => link[i].version = 2
        /\ link[i].st = "revoked" => link[i].version \in {2, 3}

\* What a transaction in flight has read, and its lock keeps true.
TxKnows ==
    \A x \in Txs :
        /\ tx[x].op = "activate" => \E i \in Intents : tx[x].ids = {i} /\ intent[i].st = "prepared"
        /\ tx[x].op = "revoke" =>
             \E i \in Intents : /\ tx[x].ids = {i} /\ link[i].st \in {"prepared", "active"}
                                /\ tx[x].read = link[i].version
        /\ tx[x].op = "maintain" => \A i \in tx[x].ids : intent[i].st \in Reserved

\* A row lock has one holder.
LocksExclude ==
    \A x, y \in Txs, i \in Intents :
        /\ HoldsIntent(x, i) /\ HoldsIntent(y, i) => x = y
        /\ HoldsLink(x, i) /\ HoldsLink(y, i) => x = y

\* The rows that a commit writes, and what it makes of a link.
Changed(S) ==
    /\ link' \in [Intents -> LinkRow] /\ intent' \in [Intents -> IntentRow]
    /\ \A i \in Intents \ S : intent'[i] = intent[i] /\ link'[i] = link[i]
Moved(i, st, version) ==
    /\ link'[i] \in LinkRow /\ link'[i].st = st /\ link'[i].version = version
    /\ link'[i].client = link[i].client /\ link'[i].local = link[i].local
    /\ link'[i].subject = link[i].subject

\* The inductive invariant.
LinkInv == TypeOK /\ LinkMatchesIntent /\ VersionOfState /\ TxKnows /\ LocksExclude

-----------------------------------------------------------------------------
(* Rows.                                                                   *)

\* UPDATE account_links SET state, version.
LEMMA LinkUpdate ==
    ASSUME NEW i \in Intents, link[i] \in LinkRow,
           NEW st \in {"prepared", "active", "revoked"}, NEW v \in 0..3,
           link'[i] = [link[i] EXCEPT !.st = st, !.version = v]
    PROVE  Moved(i, st, v)
<1>1. DOMAIN link[i] = {"st", "version", "client", "local", "subject"}
    BY DEF LinkRow
<1> QED
    BY <1>1 DEF LinkRow, Moved

\* UPDATE link_intents SET state.
LEMMA IntentUpdate ==
    ASSUME NEW i \in Intents, intent[i] \in IntentRow,
           NEW st \in {"pending", "confirmed", "prepared", "active", "revoked"},
           intent'[i] = [intent[i] EXCEPT !.st = st]
    PROVE  intent'[i] \in IntentRow /\ intent'[i].st = st
    BY DEF IntentRow

-----------------------------------------------------------------------------
(* Reservation.                                                            *)

\* CreateLinkIntent, the confirmation and the clocks touch one intent that no
\* transaction holds, or only its clocks.
LEMMA Reserving ==
    ASSUME LinkInv,
           NEW i \in Intents,
           \/ \E c \in Clients, k \in Keys, l \in Locals : CreateLinkIntent(i, c, k, l)
           \/ \E u \in Identities : Confirm(i, u)
           \/ \E clock \in Clocks : Expire(i, clock)
    PROVE  LinkInv'
<1> DEFINE row == intent'[i]
<1>1. /\ intent' = [intent EXCEPT ![i] = row]
      /\ row \in IntentRow
      /\ \/ row.st = intent[i].st
         \/ intent[i].st = "absent" /\ row.st = "pending"
         \/ intent[i].st = "pending" /\ row.st = "confirmed" /\ IntentFree(i)
      /\ UNCHANGED <<link, events, tx, crashes>>
  <2>1. CASE \E c \in Clients, k \in Keys, l \in Locals : CreateLinkIntent(i, c, k, l)
    <3>1. PICK c \in Clients, k \in Keys, l \in Locals : CreateLinkIntent(i, c, k, l)
      BY <2>1
    <3> DEFINE new == [NoIntent EXCEPT !.st = "pending", !.client = c, !.key = k, !.local = l]
    <3>2. new \in IntentRow /\ new.st = "pending"
      BY DEF IntentRow, NoIntent
    <3> HIDE DEF new
    <3>3. intent' = [intent EXCEPT ![i] = new] /\ intent[i].st = "absent"
          /\ UNCHANGED <<link, events, tx, crashes>>
      BY <3>1 DEF CreateLinkIntent, new
    <3> QED
      BY <3>2, <3>3 DEF LinkInv, TypeOK
  <2>2. CASE \E u \in Identities : Confirm(i, u)
    <3>1. PICK u \in Identities : Confirm(i, u)
      BY <2>2
    <3> DEFINE new == [intent[i] EXCEPT !.st = "confirmed", !.subject = u]
    <3>2. new \in IntentRow /\ new.st = "confirmed"
      BY DEF IntentRow, LinkInv, TypeOK
    <3>3. intent' = [intent EXCEPT ![i] = new]
      BY <3>1 DEF Confirm, LinkInv, TypeOK
    <3> HIDE DEF new
    <3> QED
      BY <3>1, <3>2, <3>3 DEF Confirm, LinkInv, TypeOK
  <2>3. CASE \E clock \in Clocks : Expire(i, clock)
    BY <2>3 DEF Expire, LinkInv, TypeOK, IntentRow
  <2> QED
    BY <2>1, <2>2, <2>3
<1> HIDE DEF row
<1>2. TypeOK'
    BY <1>1 DEF LinkInv, TypeOK
<1>3. LinkMatchesIntent'
    BY <1>1 DEF LinkInv, TypeOK, LinkMatchesIntent, LinkRow
<1>4. VersionOfState'
    BY <1>1 DEF LinkInv, VersionOfState
<1>5. TxKnows'
    BY <1>1 DEF LinkInv, TypeOK, TxKnows, IntentFree, HoldsIntent, Reserved, Tx
<1>6. LocksExclude'
    BY <1>1 DEF LinkInv, LocksExclude, HoldsIntent, HoldsLink
<1> QED
    BY <1>2, <1>3, <1>4, <1>5, <1>6 DEF LinkInv

\* PrepareLink writes a link that no transaction has read.
LEMMA Preparing ==
    ASSUME LinkInv, NEW i \in Intents, PrepareLink(i)
    PROVE  LinkInv'
<1>1. link[i].st = "absent"
    BY DEF PrepareLink, LinkInv, TypeOK, LinkMatchesIntent, LinkRow
<1>2. TypeOK'
  <2>1. link' \in [Intents -> LinkRow]
    BY DEF PrepareLink, LinkInv, TypeOK, LinkRow, IntentRow
  <2>2. intent' \in [Intents -> IntentRow]
    BY DEF PrepareLink, LinkInv, TypeOK, IntentRow
  <2> QED
    BY <2>1, <2>2 DEF PrepareLink, LinkInv, TypeOK
<1>3. LinkMatchesIntent'
    BY DEF PrepareLink, LinkInv, TypeOK, LinkMatchesIntent
<1>4. VersionOfState'
    BY DEF PrepareLink, LinkInv, TypeOK, VersionOfState
<1>5. TxKnows'
  <2>1. /\ tx' = tx
        /\ \A j \in Intents \ {i} : intent'[j] = intent[j] /\ link'[j] = link[j]
    BY DEF PrepareLink, LinkInv, TypeOK
  <2>2. \A x \in Txs : tx[x].op # "idle" => i \notin tx[x].ids
    BY <1>1 DEF PrepareLink, LinkInv, TxKnows, IntentFree, HoldsIntent, TypeOK, Tx
  <2> QED
    BY <2>1, <2>2 DEF LinkInv, TypeOK, TxKnows, Tx
<1>6. LocksExclude'
    BY DEF PrepareLink, LinkInv, LocksExclude, HoldsIntent, HoldsLink
<1> QED
    BY <1>2, <1>3, <1>4, <1>5, <1>6 DEF LinkInv

-----------------------------------------------------------------------------
(* Transactions.                                                           *)

\* A first lock: the transaction knows what it has just read from rows nobody holds.
LEMMA Locking ==
    ASSUME LinkInv, NEW x \in Txs,
           NEW op \in {"activate", "revoke", "maintain"}, NEW S \in SUBSET Intents, NEW n \in 0..3,
           Begin(x, op, S, n),
           UNCHANGED <<intent, link, events, crashes>>,
           op = "activate" => \E i \in Intents : S = {i} /\ intent[i].st = "prepared",
           op = "revoke" => \E i \in Intents : /\ S = {i} /\ link[i].st \in {"prepared", "active"}
                                             /\ n = link[i].version,
           op = "maintain" => \A i \in S : intent[i].st \in Reserved,
           op \in {"activate", "maintain"} => \A i \in S : IntentFree(i),
           op = "revoke" => \A i \in S : LinkFree(i)
    PROVE  LinkInv'
<1>1. tx' = [tx EXCEPT ![x] = [op |-> op, ids |-> S, read |-> n]]
    BY DEF Begin
<1>2. TypeOK'
    BY <1>1 DEF LinkInv, TypeOK, Tx
<1>3. LinkMatchesIntent' /\ VersionOfState'
    BY DEF LinkInv, LinkMatchesIntent, VersionOfState
<1>4. TxKnows'
    BY <1>1 DEF LinkInv, TypeOK, TxKnows
<1>5. LocksExclude'
    BY <1>1 DEF LinkInv, TypeOK, LocksExclude, IntentFree, LinkFree, HoldsIntent, HoldsLink
<1> QED
    BY <1>2, <1>3, <1>4, <1>5 DEF LinkInv

\* The first statements of ActivateLink, RevokeLink and Maintenance are such locks.
LEMMA Beginning ==
    ASSUME LinkInv, NEW x \in Txs,
           \/ \E i \in Intents : ActivateLink(x, i) \/ RevokeLink(x, i)
           \/ Maintenance(x)
    PROVE  LinkInv'
<1>1. ASSUME NEW i \in Intents, ActivateLink(x, i) PROVE LinkInv'
  <2>1. Begin(x, "activate", {i}, 0) /\ UNCHANGED <<intent, link, events, crashes>>
    BY <1>1 DEF ActivateLink
  <2>2. intent[i].st = "prepared" /\ IntentFree(i)
    BY <1>1 DEF ActivateLink
  <2> QED
    BY <2>1, <2>2, Locking
<1>2. ASSUME NEW i \in Intents, RevokeLink(x, i) PROVE LinkInv'
  <2>1. Begin(x, "revoke", {i}, link[i].version) /\ UNCHANGED <<intent, link, events, crashes>>
    BY <1>2 DEF RevokeLink
  <2>2. link[i].st \in {"prepared", "active"} /\ LinkFree(i) /\ link[i].version \in 0..3
    BY <1>2 DEF RevokeLink, LinkInv, TypeOK, LinkRow
  <2> QED
    BY <2>1, <2>2, Locking
<1>3. ASSUME Maintenance(x) PROVE LinkInv'
  <2>1. Begin(x, "maintain", Abandoned, 0) /\ UNCHANGED <<intent, link, events, crashes>>
    BY <1>3 DEF Maintenance
  <2>2. Abandoned \subseteq Intents /\ \A i \in Abandoned : intent[i].st \in Reserved /\ IntentFree(i)
    BY <1>3 DEF Maintenance, Abandoned
  <2> QED
    BY <2>1, <2>2, Locking
<1> QED
    BY <1>1, <1>2, <1>3

\* A rollback releases locks and writes nothing.
LEMMA Losing ==
    ASSUME LinkInv, NEW x \in Txs, Crash(x) \/ BreakDeadlock(x)
    PROVE  LinkInv'
<1>1. UNCHANGED <<intent, link, events>> /\ tx' = [tx EXCEPT ![x] = IdleTx]
      /\ crashes' \in 0..MaxCrashes
    BY CrashAssumption DEF Crash, BreakDeadlock, End, LinkInv, TypeOK
<1>2. TypeOK'
    BY <1>1 DEF LinkInv, TypeOK, Tx, IdleTx
<1>3. LinkMatchesIntent' /\ VersionOfState'
    BY <1>1 DEF LinkInv, LinkMatchesIntent, VersionOfState
<1>4. TxKnows' /\ LocksExclude'
    BY <1>1 DEF LinkInv, TypeOK, TxKnows, LocksExclude, HoldsIntent, HoldsLink, IdleTx
<1> QED
    BY <1>2, <1>3, <1>4 DEF LinkInv

\* A commit that writes rows which no other transaction holds leaves what the others
\* know true.
LEMMA Ending ==
    ASSUME LinkInv, NEW x \in Txs, tx' = [tx EXCEPT ![x] = IdleTx],
           NEW S, S \subseteq Intents, Changed(S),
           \A i \in S, y \in Txs \ {x} : ~HoldsIntent(y, i) /\ ~HoldsLink(y, i)
    PROVE  TxKnows' /\ LocksExclude'
<1>1. tx'[x] = IdleTx /\ \A y \in Txs \ {x} : tx'[y] = tx[y]
    BY DEF LinkInv, TypeOK
<1>2. \A y \in Txs : tx[y].ids \subseteq Intents
    BY DEF LinkInv, TypeOK, Tx
<1>3. TxKnows'
    BY <1>1, <1>2 DEF Changed, LinkInv, TxKnows, HoldsIntent, HoldsLink, IdleTx
<1>4. LocksExclude'
    BY <1>1 DEF LinkInv, LocksExclude, HoldsIntent, HoldsLink, IdleTx
<1> QED
    BY <1>3, <1>4

\* ActivateLink ends with its link and its intent active.
LEMMA ActivateEffect ==
    ASSUME LinkInv, NEW x \in Txs, CommitActivate(x)
    PROVE  \E i \in Intents :
             /\ tx[x].ids = {i} /\ LinkFree(i) /\ link[i].st = "prepared"
             /\ Changed({i}) /\ Moved(i, "active", 2) /\ intent'[i].st = "active"
<1>1. PICK i \in Intents : tx[x].ids = {i} /\ intent[i].st = "prepared"
    BY DEF CommitActivate, LinkInv, TxKnows
<1>2. link[i].st = "prepared" /\ link[i].version + 1 = 2
    BY <1>1 DEF LinkInv, LinkMatchesIntent, VersionOfState, TypeOK, LinkRow
<1>3. /\ link' = [link EXCEPT ![i].st = "active", ![i].version = link[i].version + 1]
      /\ intent' = [intent EXCEPT ![i].st = "active"]
    BY <1>1, <1>2 DEF CommitActivate
<1>4. /\ link'[i] = [link[i] EXCEPT !.st = "active", !.version = 2]
      /\ intent'[i] = [intent[i] EXCEPT !.st = "active"]
    BY <1>2, <1>3 DEF LinkInv, TypeOK
<1>5. Moved(i, "active", 2)
  <2> DEFINE v == 2
  <2>1. v \in 0..3
    OBVIOUS
  <2> HIDE DEF v
  <2>2. link'[i] = [link[i] EXCEPT !.st = "active", !.version = v]
    BY <1>4 DEF v
  <2>3. Moved(i, "active", v)
    BY <2>1, <2>2, LinkUpdate DEF LinkInv, TypeOK
  <2> QED
    BY <2>3 DEF v
<1>6. intent'[i] \in IntentRow /\ intent'[i].st = "active"
    BY <1>4, IntentUpdate DEF LinkInv, TypeOK
<1>7. Changed({i})
    BY <1>3, <1>5, <1>6 DEF Changed, Moved, LinkInv, TypeOK
<1> QED
    BY <1>1, <1>2, <1>5, <1>6, <1>7 DEF CommitActivate

\* RevokeLink ends with its link and its intent revoked, and an event that has the
\* new version.
LEMMA RevokeEffect ==
    ASSUME LinkInv, NEW x \in Txs, CommitRevoke(x)
    PROVE  \E i \in Intents :
             /\ tx[x].ids = {i} /\ IntentFree(i) /\ link[i].st \in {"prepared", "active"}
             /\ Changed({i}) /\ Moved(i, "revoked", link[i].version + 1)
             /\ link[i].version + 1 \in {2, 3}
             /\ intent'[i].st = "revoked" /\ events' = events \cup {<<i, link[i].version + 1>>}
<1>1. PICK i \in Intents : /\ tx[x].ids = {i} /\ link[i].st \in {"prepared", "active"}
                           /\ tx[x].read = link[i].version
    BY DEF CommitRevoke, LinkInv, TxKnows
<1>2. link[i].version + 1 \in {2, 3}
    BY <1>1 DEF LinkInv, VersionOfState
<1>3. /\ link' = [link EXCEPT ![i].st = "revoked", ![i].version = link[i].version + 1]
      /\ intent' = [intent EXCEPT ![i].st = "revoked"]
      /\ events' = events \cup {<<i, link[i].version + 1>>}
    BY <1>1 DEF CommitRevoke
<1>4. /\ link'[i] = [link[i] EXCEPT !.st = "revoked", !.version = link[i].version + 1]
      /\ intent'[i] = [intent[i] EXCEPT !.st = "revoked"]
    BY <1>3 DEF LinkInv, TypeOK
<1>5. Moved(i, "revoked", link[i].version + 1)
  <2> DEFINE v == link[i].version + 1
  <2>1. v \in 0..3
    BY <1>2
  <2> HIDE DEF v
  <2>2. link'[i] = [link[i] EXCEPT !.st = "revoked", !.version = v]
    BY <1>4 DEF v
  <2>3. Moved(i, "revoked", v)
    BY <2>1, <2>2, LinkUpdate DEF LinkInv, TypeOK
  <2> QED
    BY <2>3 DEF v
<1>6. intent'[i] \in IntentRow /\ intent'[i].st = "revoked"
    BY <1>4, IntentUpdate DEF LinkInv, TypeOK
<1>7. Changed({i})
    BY <1>3, <1>5, <1>6 DEF Changed, Moved, LinkInv, TypeOK
<1> QED
    BY <1>1, <1>2, <1>3, <1>5, <1>6, <1>7 DEF CommitRevoke

\* Maintenance revokes the intents it has locked and the links that are prepared
\* from them.
LEMMA ReleaseEffect ==
    ASSUME LinkInv, NEW x \in Txs, CommitMaintenance(x)
    PROVE  /\ Changed(tx[x].ids)
           /\ \A i \in tx[x].ids :
                /\ intent'[i].st = "revoked"
                /\ \/ link[i].st = "absent" /\ link'[i] = link[i]
                   \/ link[i].st = "prepared" /\ LinkFree(i) /\ Moved(i, "revoked", 2)
<1>1. tx[x].ids \subseteq Intents /\ \A i \in tx[x].ids : intent[i].st \in Reserved
    BY DEF CommitMaintenance, LinkInv, TxKnows, TypeOK, Tx
<1>2. ASSUME NEW i \in tx[x].ids
      PROVE  /\ intent'[i] \in IntentRow /\ intent'[i].st = "revoked"
             /\ \/ link[i].st = "absent" /\ link'[i] = link[i]
                \/ link[i].st = "prepared" /\ LinkFree(i) /\ Moved(i, "revoked", 2)
  <2>1. link[i].st \in {"absent", "prepared"}
    BY <1>1 DEF LinkInv, LinkMatchesIntent, TypeOK, LinkRow, Reserved
  <2>2. intent'[i] = [intent[i] EXCEPT !.st = "revoked"]
    BY <1>1 DEF CommitMaintenance
  <2>3. intent'[i] \in IntentRow /\ intent'[i].st = "revoked"
    BY <1>1, <2>2, IntentUpdate DEF LinkInv, TypeOK
  <2>4. CASE link[i].st = "absent"
    BY <1>1, <2>3, <2>4 DEF CommitMaintenance, Released
  <2>5. CASE link[i].st = "prepared"
    <3>1. link[i].version + 1 = 2
      BY <1>1, <2>5 DEF LinkInv, VersionOfState
    <3>2. link'[i] = [link[i] EXCEPT !.st = "revoked", !.version = 2] /\ LinkFree(i)
      BY <1>1, <2>5, <3>1 DEF CommitMaintenance, Released
    <3>3. Moved(i, "revoked", 2)
      <4> DEFINE v == 2
      <4>1. v \in 0..3
        OBVIOUS
      <4> HIDE DEF v
      <4>2. link'[i] = [link[i] EXCEPT !.st = "revoked", !.version = v]
        BY <3>2 DEF v
      <4>3. Moved(i, "revoked", v)
        BY <1>1, <4>1, <4>2, LinkUpdate DEF LinkInv, TypeOK
      <4> QED
        BY <4>3 DEF v
    <3> QED
      BY <2>3, <2>5, <3>2, <3>3
  <2> QED
    BY <2>1, <2>4, <2>5
<1>3. \A i \in Intents \ tx[x].ids : intent'[i] = intent[i] /\ link'[i] = link[i]
    BY DEF CommitMaintenance, Released
<1>4. link' \in [Intents -> LinkRow] /\ intent' \in [Intents -> IntentRow]
  <2>1. \A i \in Intents : link'[i] \in LinkRow /\ intent'[i] \in IntentRow
    BY <1>1, <1>2, <1>3 DEF Moved, LinkInv, TypeOK
  <2>2. link' = [i \in Intents |-> link'[i]] /\ intent' = [i \in Intents |-> intent'[i]]
    BY DEF CommitMaintenance
  <2> QED
    BY <2>1, <2>2
<1> QED
    BY <1>1, <1>2, <1>3, <1>4 DEF Changed

\* The three commits keep the invariant.
LEMMA Committing ==
    ASSUME LinkInv, NEW x \in Txs, Commit(x)
    PROVE  LinkInv'
<1>1. tx' = [tx EXCEPT ![x] = IdleTx] /\ crashes' = crashes
    BY DEF Commit, CommitActivate, CommitRevoke, CommitMaintenance, End
<1>2. tx' \in [Txs -> Tx]
    BY <1>1 DEF LinkInv, TypeOK, Tx, IdleTx
<1>3. tx[x].ids \subseteq Intents
    BY DEF LinkInv, TypeOK, Tx
<1>4. CASE CommitActivate(x)
  <2>1. PICK i \in Intents :
             /\ tx[x].ids = {i} /\ LinkFree(i) /\ link[i].st = "prepared"
             /\ Changed({i}) /\ Moved(i, "active", 2) /\ intent'[i].st = "active"
    BY <1>4, ActivateEffect
  <2>2. events' = events
    BY <1>4 DEF CommitActivate
  <2>3. TypeOK'
    BY <1>1, <1>2, <2>1, <2>2 DEF Changed, LinkInv, TypeOK
  <2>4. LinkMatchesIntent' /\ VersionOfState'
    BY <2>1 DEF Changed, Moved, LinkInv, LinkMatchesIntent, VersionOfState
  <2>5. {i} \subseteq Intents
        /\ \A j \in {i}, y \in Txs \ {x} : ~HoldsIntent(y, j) /\ ~HoldsLink(y, j)
    BY <1>4, <2>1 DEF CommitActivate, LinkInv, LocksExclude, LinkFree, HoldsIntent
  <2>6. TxKnows' /\ LocksExclude'
    BY <1>1, <2>1, <2>5, Ending
  <2> QED
    BY <2>3, <2>4, <2>6 DEF LinkInv
<1>5. CASE CommitRevoke(x)
  <2>1. PICK i \in Intents :
             /\ tx[x].ids = {i} /\ IntentFree(i) /\ link[i].st \in {"prepared", "active"}
             /\ Changed({i}) /\ Moved(i, "revoked", link[i].version + 1)
             /\ link[i].version + 1 \in {2, 3}
             /\ intent'[i].st = "revoked" /\ events' = events \cup {<<i, link[i].version + 1>>}
    BY <1>5, RevokeEffect
  <2>2. events' \subseteq Intents \X (0..3)
    BY <2>1 DEF LinkInv, TypeOK
  <2>3. TypeOK'
    BY <1>1, <1>2, <2>1, <2>2 DEF Changed, LinkInv, TypeOK
  <2>4. LinkMatchesIntent' /\ VersionOfState'
    BY <2>1 DEF Changed, Moved, LinkInv, LinkMatchesIntent, VersionOfState
  <2>5. {i} \subseteq Intents
        /\ \A j \in {i}, y \in Txs \ {x} : ~HoldsIntent(y, j) /\ ~HoldsLink(y, j)
    BY <1>5, <2>1 DEF CommitRevoke, LinkInv, LocksExclude, IntentFree, HoldsLink
  <2>6. TxKnows' /\ LocksExclude'
    BY <1>1, <2>1, <2>5, Ending
  <2> QED
    BY <2>3, <2>4, <2>6 DEF LinkInv
<1>6. CASE CommitMaintenance(x)
  <2>1. /\ Changed(tx[x].ids)
        /\ \A i \in tx[x].ids :
             /\ intent'[i].st = "revoked"
             /\ \/ link[i].st = "absent" /\ link'[i] = link[i]
                \/ link[i].st = "prepared" /\ LinkFree(i) /\ Moved(i, "revoked", 2)
    BY <1>6, ReleaseEffect
  <2>2. events' = events
    BY <1>6 DEF CommitMaintenance
  <2>3. TypeOK'
    BY <1>1, <1>2, <2>1, <2>2 DEF Changed, LinkInv, TypeOK
  <2>4. LinkMatchesIntent' /\ VersionOfState'
    BY <1>3, <2>1 DEF Changed, Moved, LinkInv, LinkMatchesIntent, VersionOfState
  <2>5. \A i \in tx[x].ids, y \in Txs \ {x} : ~HoldsIntent(y, i) /\ ~HoldsLink(y, i)
    <3>1. \A i \in tx[x].ids, y \in Txs \ {x} : ~HoldsIntent(y, i)
      BY <1>3, <1>6 DEF CommitMaintenance, LinkInv, LocksExclude, HoldsIntent
    <3>2. \A i \in tx[x].ids, y \in Txs \ {x} : link[i].st = "absent" => ~HoldsLink(y, i)
      BY <1>3 DEF LinkInv, TxKnows, HoldsLink
    <3> QED
      BY <2>1, <3>1, <3>2 DEF LinkFree
  <2>6. TxKnows' /\ LocksExclude'
    BY <1>1, <1>3, <2>1, <2>5, Ending
  <2> QED
    BY <2>3, <2>4, <2>6 DEF LinkInv
<1> QED
    BY <1>4, <1>5, <1>6 DEF Commit

-----------------------------------------------------------------------------
(* Theorems.                                                               *)

\* Every step of AccountLinks keeps the invariant.
LEMMA LinkStep == LinkInv /\ [Next]_vars => LinkInv'
<1> SUFFICES ASSUME LinkInv, [Next]_vars PROVE LinkInv'
    OBVIOUS
<1>1. CASE UNCHANGED vars
    BY <1>1 DEF vars, LinkInv, TypeOK, LinkMatchesIntent, VersionOfState, TxKnows, LocksExclude,
                HoldsIntent, HoldsLink
<1>2. CASE Next
    BY <1>2, Reserving, Preparing, Beginning, Losing, Committing
       DEF Next
<1> QED
    BY <1>1, <1>2

\* What a step may do to a link that is there: ActivateLink, RevokeLink and
\* Maintenance move a live link one version on and keep the account it is about; a
\* link revoked from active has its event.
Advances(i) ==
    /\ link[i].st \in {"prepared", "active"} /\ link'[i].st \in {"active", "revoked"}
    /\ link'[i].version = link[i].version + 1
    /\ link'[i].client = link[i].client /\ link'[i].local = link[i].local
    /\ link'[i].subject = link[i].subject
    /\ link'[i].st = "revoked" /\ link'[i].version = 3 => <<i, 3>> \in events'

\* Only PrepareLink inserts a link; every other step advances links or leaves them,
\* and no step takes an event from the outbox.
LEMMA LinkMoves ==
    ASSUME LinkInv, [Next]_vars
    PROVE  \/ \E i \in Intents : PrepareLink(i)
           \/ /\ events \subseteq events'
              /\ \A i \in Intents : link'[i] = link[i] \/ Advances(i)
<1>1. CASE UNCHANGED <<link, events>>
    BY <1>1
<1>2. ASSUME NEW x \in Txs, CommitActivate(x)
      PROVE  events' = events /\ \A i \in Intents : link'[i] = link[i] \/ Advances(i)
  <2>1. PICK i \in Intents :
             /\ tx[x].ids = {i} /\ LinkFree(i) /\ link[i].st = "prepared"
             /\ Changed({i}) /\ Moved(i, "active", 2) /\ intent'[i].st = "active"
    BY <1>2, ActivateEffect
  <2>2. link[i].version = 1
    BY <2>1 DEF LinkInv, VersionOfState
  <2> QED
    BY <1>2, <2>1, <2>2 DEF CommitActivate, Changed, Moved, Advances
<1>3. ASSUME NEW x \in Txs, CommitRevoke(x)
      PROVE  events \subseteq events' /\ \A i \in Intents : link'[i] = link[i] \/ Advances(i)
  <2>1. PICK i \in Intents :
             /\ tx[x].ids = {i} /\ IntentFree(i) /\ link[i].st \in {"prepared", "active"}
             /\ Changed({i}) /\ Moved(i, "revoked", link[i].version + 1)
             /\ link[i].version + 1 \in {2, 3}
             /\ intent'[i].st = "revoked" /\ events' = events \cup {<<i, link[i].version + 1>>}
    BY <1>3, RevokeEffect
  <2>2. Advances(i)
    BY <2>1 DEF Moved, Advances
  <2> QED
    BY <2>1, <2>2 DEF Changed
<1>4. ASSUME NEW x \in Txs, CommitMaintenance(x)
      PROVE  events' = events /\ \A i \in Intents : link'[i] = link[i] \/ Advances(i)
  <2>1. /\ Changed(tx[x].ids)
        /\ \A i \in tx[x].ids :
             /\ intent'[i].st = "revoked"
             /\ \/ link[i].st = "absent" /\ link'[i] = link[i]
                \/ link[i].st = "prepared" /\ LinkFree(i) /\ Moved(i, "revoked", 2)
    BY <1>4, ReleaseEffect
  <2>2. \A i \in Intents : link[i].st = "prepared" => link[i].version = 1
    BY DEF LinkInv, VersionOfState
  <2>3. ASSUME NEW i \in Intents PROVE link'[i] = link[i] \/ Advances(i)
    <3>1. CASE i \notin tx[x].ids
      BY <2>1, <3>1 DEF Changed
    <3>2. CASE i \in tx[x].ids /\ link[i].st = "absent"
      BY <2>1, <3>2
    <3>3. CASE link[i].st = "prepared" /\ Moved(i, "revoked", 2)
      BY <2>2, <3>3 DEF Moved, Advances
    <3> QED
      BY <2>1, <3>1, <3>2, <3>3
  <2> QED
    BY <1>4, <2>3 DEF CommitMaintenance
<1> QED
    BY <1>1, <1>2, <1>3, <1>4 DEF Next, vars, Commit, CreateLinkIntent, Confirm, Expire,
       ActivateLink, RevokeLink, Maintenance, Crash, BreakDeadlock

\* PrepareLink inserts its link where none is, live, beside no conflicting one.
LEMMA PrepareEffect ==
    ASSUME LinkInv, NEW i \in Intents, PrepareLink(i)
    PROVE  /\ link[i].st = "absent"
           /\ link'[i].st = "prepared"
           /\ \A j \in Intents \ {i} :
                /\ link'[j] = link[j]
                /\ link[j].st \in {"prepared", "active"} /\ link[j].client = link'[i].client
                   => link[j].local # link'[i].local /\ link[j].subject # link'[i].subject
           /\ events' = events
    BY DEF PrepareLink, Conflicts, LinkInv, TypeOK, LinkMatchesIntent, LinkRow

-----------------------------------------------------------------------------
(* Theorems.                                                               *)

\* The inductive invariant holds in every state of the specification.
THEOREM Linked == Spec => []LinkInv
<1>1. Init => LinkInv
    BY CrashAssumption DEF Init, LinkInv, TypeOK, LinkMatchesIntent, VersionOfState, TxKnows,
       LocksExclude, HoldsIntent, HoldsLink, NoIntent, NoLink, IdleTx, IntentRow, LinkRow, Tx
<1> QED
    BY <1>1, LinkStep, PTL DEF Spec

\* link_intents and account_links never disagree about a reservation, whatever
\* ActivateLink, RevokeLink, Maintenance, their crashes and their deadlocks do.
THEOREM TablesAgree == Spec => [](TypeOK /\ LinkMatchesIntent)
<1>1. LinkInv => TypeOK /\ LinkMatchesIntent
    BY DEF LinkInv
<1> QED
    BY <1>1, Linked, PTL

\* The indexes of PrepareLink's INSERT suffice: no other step makes a link live, so
\* a local account or an identity never has two live links at one application.
THEOREM OneLiveLink == Spec => []LiveLinksUnique
<1>1. Init => LiveLinksUnique
    BY DEF Init, LiveLinksUnique, NoLink
<1>2. LiveLinksUnique /\ LinkInv /\ [Next]_vars => LiveLinksUnique'
  <2> SUFFICES ASSUME LiveLinksUnique, LinkInv, [Next]_vars PROVE LiveLinksUnique'
    OBVIOUS
  <2>1. CASE \E i \in Intents : PrepareLink(i)
    <3>1. PICK i \in Intents : PrepareLink(i)
      BY <2>1
    <3> QED
      BY <3>1, PrepareEffect DEF LiveLinksUnique
  <2>2. CASE \A i \in Intents : link'[i] = link[i] \/ Advances(i)
    <3>1. ASSUME NEW i \in Intents, link'[i].st \in {"prepared", "active"}
          PROVE  /\ link[i].st \in {"prepared", "active"}
                 /\ link'[i].client = link[i].client /\ link'[i].local = link[i].local
                 /\ link'[i].subject = link[i].subject
      BY <2>2, <3>1 DEF Advances
    <3> QED
      BY <3>1 DEF LiveLinksUnique
  <2> QED
    BY <2>1, <2>2, LinkMoves
<1> QED
    BY <1>1, <1>2, Linked, PTL DEF Spec

\* Whoever loses an active link is told: RevokeLink queues account_link.revoked with
\* the final version, and Maintenance never revokes a link that is active.
THEOREM EndOfLinkAnnounced == Spec => []ActiveRevocationIsAnnounced
<1>1. Init => ActiveRevocationIsAnnounced
    BY DEF Init, ActiveRevocationIsAnnounced, NoLink
<1>2. ActiveRevocationIsAnnounced /\ LinkInv /\ [Next]_vars => ActiveRevocationIsAnnounced'
  <2> SUFFICES ASSUME ActiveRevocationIsAnnounced, LinkInv, [Next]_vars
               PROVE  ActiveRevocationIsAnnounced'
    OBVIOUS
  <2>1. CASE \E i \in Intents : PrepareLink(i)
    <3>1. PICK i \in Intents : PrepareLink(i)
      BY <2>1
    <3> QED
      BY <3>1, PrepareEffect DEF ActiveRevocationIsAnnounced
  <2>2. CASE /\ events \subseteq events'
             /\ \A i \in Intents : link'[i] = link[i] \/ Advances(i)
    BY <2>2 DEF ActiveRevocationIsAnnounced, Advances
  <2> QED
    BY <2>1, <2>2, LinkMoves
<1> QED
    BY <1>1, <1>2, Linked, PTL DEF Spec

\* The version a caller of RevokeLink has read names the state it saw: a link moves
\* only together with its version, and never again once revoked.
THEOREM VersionsNameStates == Spec => VersionNamesState
<1> DEFINE A == \A i \in Intents :
                   link[i].st # "absent" /\ link'[i] # link[i] =>
                       link[i].st # "revoked" /\ link'[i].version = link[i].version + 1
<1>1. LinkInv /\ [Next]_vars => [A]_vars
  <2> SUFFICES ASSUME LinkInv, [Next]_vars PROVE A
    OBVIOUS
  <2>1. CASE \E i \in Intents : PrepareLink(i)
    <3>1. PICK i \in Intents : PrepareLink(i)
      BY <2>1
    <3> QED
      BY <3>1, PrepareEffect
  <2>2. CASE \A i \in Intents : link'[i] = link[i] \/ Advances(i)
    BY <2>2 DEF Advances
  <2> QED
    BY <2>1, <2>2, LinkMoves
<1> QED
    BY <1>1, Linked, PTL DEF Spec, VersionNamesState

-----------------------------------------------------------------------------
(* The active links as Delegation sees them.                               *)

\* The identity and the application of a link; the pairs that are linked.
Pair(i) == <<link[i].subject, link[i].client>>
ActiveLinks == {Pair(i) : i \in {j \in Intents : link[j].st = "active"}}

\* A reservation names its application, and its identity once it is confirmed.
Named ==
    \A i \in Intents :
        /\ intent[i].st \in {"pending", "confirmed"} => intent[i].client \in Clients
        /\ intent[i].st = "confirmed" => intent[i].subject \in Identities
        /\ link[i].st # "absent" => Pair(i) \in Identities \X Clients

\* A step leaves the pairs alone, adds one that is missing (LinkActivated of
\* Delegation) or takes one away (RevokeLink).
LinkView ==
    \/ ActiveLinks' = ActiveLinks
    \/ \E u \in Identities, c \in Clients :
         \/ <<u, c>> \notin ActiveLinks /\ ActiveLinks' = ActiveLinks \cup {<<u, c>>}
         \/ <<u, c>> \in ActiveLinks /\ ActiveLinks' = ActiveLinks \ {<<u, c>>}

\* No step but the two that write them changes an intent to pending or confirmed.
LEMMA IntentsNamed ==
    ASSUME LinkInv, Named, [Next]_vars
    PROVE  \A i \in Intents :
             /\ intent'[i].st \in {"pending", "confirmed"} => intent'[i].client \in Clients
             /\ intent'[i].st = "confirmed" => intent'[i].subject \in Identities
<1> DEFINE N(i) == /\ intent'[i].st \in {"pending", "confirmed"} => intent'[i].client \in Clients
                   /\ intent'[i].st = "confirmed" => intent'[i].subject \in Identities
<1>0. /\ intent \in [Intents -> IntentRow]
      /\ \A i \in Intents :
           /\ intent[i].st \in {"pending", "confirmed"} => intent[i].client \in Clients
           /\ intent[i].st = "confirmed" => intent[i].subject \in Identities
    BY DEF LinkInv, TypeOK, Named
<1>1. CASE UNCHANGED intent
    BY <1>0, <1>1
<1>2. ASSUME NEW j \in Intents, NEW c \in Clients, NEW k \in Keys, NEW l \in Locals,
             CreateLinkIntent(j, c, k, l)
      PROVE  \A i \in Intents : N(i)
  <2> DEFINE new == [NoIntent EXCEPT !.st = "pending", !.client = c, !.key = k, !.local = l]
  <2>1. new.st = "pending" /\ new.client = c
    BY DEF NoIntent
  <2>2. intent' = [intent EXCEPT ![j] = new]
    BY <1>2 DEF CreateLinkIntent
  <2> HIDE DEF new
  <2> QED
    BY <1>0, <2>1, <2>2
<1>3. ASSUME NEW j \in Intents, NEW u \in Identities, Confirm(j, u)
      PROVE  \A i \in Intents : N(i)
  <2> DEFINE new == [intent[j] EXCEPT !.st = "confirmed", !.subject = u]
  <2>1. new.client = intent[j].client /\ new.subject = u /\ intent[j].st = "pending"
    BY <1>0, <1>3 DEF IntentRow, Confirm
  <2>2. intent' = [intent EXCEPT ![j] = new]
    BY <1>0, <1>3 DEF Confirm
  <2> HIDE DEF new
  <2> QED
    BY <1>0, <2>1, <2>2
<1>4. ASSUME NEW j \in Intents, PrepareLink(j)
      PROVE  \A i \in Intents : N(i)
    BY <1>0, <1>4 DEF PrepareLink, IntentRow
<1>5. ASSUME NEW j \in Intents, NEW clock \in Clocks, Expire(j, clock)
      PROVE  \A i \in Intents : N(i)
    BY <1>0, <1>5 DEF Expire, IntentRow
<1>6. ASSUME NEW x \in Txs, CommitActivate(x)
      PROVE  \A i \in Intents : N(i)
    BY <1>0, <1>6, ActivateEffect DEF Changed
<1>7. ASSUME NEW x \in Txs, CommitRevoke(x)
      PROVE  \A i \in Intents : N(i)
    BY <1>0, <1>7, RevokeEffect DEF Changed
<1>8. ASSUME NEW x \in Txs, CommitMaintenance(x)
      PROVE  \A i \in Intents : N(i)
    BY <1>0, <1>8, ReleaseEffect DEF Changed
<1> QED
    BY <1>1, <1>2, <1>3, <1>4, <1>5, <1>6, <1>7, <1>8
       DEF Next, vars, Commit, ActivateLink, RevokeLink, Maintenance, Crash, BreakDeadlock

\* The link takes both names from its intent and keeps them.
LEMMA NamedStep ==
    ASSUME LinkInv, Named, [Next]_vars
    PROVE  Named'
<1>1. ASSUME NEW j \in Intents, PrepareLink(j)
      PROVE  \A i \in Intents : link'[i].st # "absent" => Pair(i)' \in Identities \X Clients
  <2>1. /\ intent[j].client \in Clients /\ intent[j].subject \in Identities
        /\ link'[j].client = intent[j].client /\ link'[j].subject = intent[j].subject
    BY <1>1 DEF PrepareLink, Named, LinkInv, TypeOK
  <2>2. \A i \in Intents \ {j} : link'[i] = link[i]
    BY <1>1, PrepareEffect
  <2> QED
    BY <2>1, <2>2 DEF Named, Pair
<1>2. CASE \A i \in Intents : link'[i] = link[i] \/ Advances(i)
  <2>1. \A i \in Intents : link'[i].st # "absent" => Pair(i)' \in Identities \X Clients
    BY <1>2 DEF Advances, Named, Pair
  <2> QED
    BY <2>1, IntentsNamed DEF Named
<1> QED
    BY <1>1, <1>2, LinkMoves, IntentsNamed DEF Named

\* One link becomes active, or ceases to be, in a step; no other link has its pair.
LEMMA ViewStep ==
    ASSUME LinkInv, Named, LiveLinksUnique, [Next]_vars
    PROVE  LinkView
<1>1. CASE \A i \in Intents : (link'[i].st = "active" <=> link[i].st = "active")
                              /\ (link[i].st = "active" => Pair(i)' = Pair(i))
    BY <1>1 DEF LinkView, ActiveLinks
<1>2. ASSUME NEW x \in Txs, CommitActivate(x)
      PROVE  LinkView
  <2>1. PICK i \in Intents : link[i].st = "prepared" /\ Changed({i}) /\ Moved(i, "active", 2)
    BY <1>2, ActivateEffect
  <2>2. Pair(i)' = Pair(i) /\ Pair(i) \in Identities \X Clients
    BY <2>1 DEF Moved, Named, Pair
  <2>3. Pair(i) \notin ActiveLinks
    BY <2>1 DEF ActiveLinks, Pair, LiveLinksUnique
  <2>4. ActiveLinks' = ActiveLinks \cup {Pair(i)}
    BY <2>1, <2>2 DEF ActiveLinks, Pair, Changed, Moved
  <2> QED
    BY <2>2, <2>3, <2>4 DEF LinkView, Pair
<1>3. ASSUME NEW x \in Txs, CommitRevoke(x)
      PROVE  LinkView
  <2>1. PICK i \in Intents : /\ link[i].st \in {"prepared", "active"} /\ Changed({i})
                             /\ Moved(i, "revoked", link[i].version + 1)
    BY <1>3, RevokeEffect
  <2>2. CASE link[i].st = "prepared"
    BY <1>1, <2>1, <2>2 DEF Changed, Moved, Pair
  <2>3. CASE link[i].st = "active"
    <3>1. Pair(i) \in ActiveLinks /\ Pair(i) \in Identities \X Clients
      BY <2>3 DEF ActiveLinks, Named
    <3>2. \A j \in Intents \ {i} : link[j].st = "active" => Pair(j) # Pair(i)
      BY <2>3 DEF Pair, LiveLinksUnique
    <3>3. \A j \in Intents : /\ link'[j].st = "active" <=> link[j].st = "active" /\ j # i
                             /\ j # i => Pair(j)' = Pair(j)
      BY <2>1 DEF Changed, Moved, Pair
    <3>4. ActiveLinks' = ActiveLinks \ {Pair(i)}
      BY <3>2, <3>3 DEF ActiveLinks
    <3> QED
      BY <3>1, <3>4 DEF LinkView, Pair
  <2> QED
    BY <2>1, <2>2, <2>3
<1>4. ASSUME NEW x \in Txs, CommitMaintenance(x)
      PROVE  LinkView
    BY <1>1, <1>4, ReleaseEffect DEF Changed, Moved, Pair
<1>5. ASSUME NEW i \in Intents, PrepareLink(i)
      PROVE  LinkView
    BY <1>1, <1>5, PrepareEffect DEF Pair
<1>6. CASE UNCHANGED link
    BY <1>1, <1>6 DEF Pair
<1> QED
    BY <1>2, <1>3, <1>4, <1>5, <1>6 DEF Next, vars, Commit, CreateLinkIntent, Confirm, Expire,
       ActivateLink, RevokeLink, Maintenance, Crash, BreakDeadlock

\* ActivateLink and RevokeLink (links.go) change what token exchange sees of
\* account_links by one identity and application at a time, and activate none that is
\* linked: LinkActivated and RevokeLink of Delegation are all the steps its links take.
THEOREM ActiveLinksStepwise == Spec => [][LinkView]_vars
<1>1. Init => Named
    BY DEF Init, Named, NoIntent, NoLink
<1>2. LinkInv /\ Named /\ [Next]_vars => Named'
    BY NamedStep
<1>3. LinkInv /\ Named /\ LiveLinksUnique /\ [Next]_vars => [LinkView]_vars
    BY ViewStep
<1> QED
    BY <1>1, <1>2, <1>3, Linked, OneLiveLink, PTL DEF Spec

-----------------------------------------------------------------------------
(* Token exchange, the instance Exchange of Delegation.  Its tables are    *)
(* its own: linked is what it sees of account_links.  A withdrawal's sweep *)
(* finds every live token that rests on the permission, because what was   *)
(* validated for a token or a request keeps its caller and its policy row  *)
(* (Held); a token inserted later has the withdrawal among those that had  *)
(* swept (Covered); and a permission is lost only with the commit of a     *)
(* withdrawal (Withdrawn).  Nothing is assumed of the constants.           *)

CONSTANTS Apps, Perms, Users, Tokens, Reqs, Cuts
VARIABLES policy, consent, linked, tok, req, cut

Exchange == INSTANCE Delegation WITH link <- linked

\* What holds of a permission p of application a that was validated for user u
\* when the withdrawals of seen had committed: it stands or was withdrawn since.
Held(u, p, a, seen) ==
    /\ p.caller = a /\ policy[p] # "absent"
    /\ seen \subseteq Exchange!Committed
    /\ \/ Exchange!Allowed(u, p)
       \/ \E w \in Exchange!Committed : Exchange!Hits(w, u, p) /\ w \notin seen

\* Every delegated token, and every request on its way to one, rests on
\* permissions of its application that were validated for its user.
TokensHeld ==
    \A t \in Tokens : tok[t].st # "absent" =>
        /\ tok[t].u \in Users
        /\ Exchange!Delegated(t) =>
             \A p \in tok[t].perms : Held(tok[t].u, p, tok[t].app, tok[t].seen)
RequestsHeld ==
    \A r \in Reqs :
        /\ req[r].op # "idle" => req[r].u \in Users
        /\ req[r].op \in {"validated", "checked", "inserted"} =>
             /\ req[r].source \in Tokens /\ tok[req[r].source].st # "absent"
             /\ \A p \in req[r].perms : Held(req[r].u, p, tok[req[r].source].app, req[r].seen)

\* A live token that a withdrawal is about was found by its sweep or inserted after it; one
\* that was found ends with the commit.
Covered ==
    \A w \in Cuts :
        /\ cut[w].st = "done" => cut[w].found = {}
        /\ cut[w].st \in {"swept", "done"} =>
             \A t \in Tokens : tok[t].st = "live" /\ Exchange!Delegated(t) =>
                 \A p \in tok[t].perms : Exchange!Hits(w, tok[t].u, p)
                     => w \in tok[t].born \/ t \in cut[w].found

\* The inductive invariant.
ExchangeInv == Exchange!TypeOK /\ TokensHeld /\ RequestsHeld /\ Covered

\* A step that takes a permission away commits a withdrawal of it.
Withdrawn ==
    /\ Exchange!Committed \subseteq Exchange!Committed'
    /\ \A w \in Exchange!Committed, u \in Users, p \in Perms :
         Exchange!Hits(w, u, p) => Exchange!Hits(w, u, p)'
    /\ \A p \in Perms : policy[p] # "absent" => policy'[p] # "absent"
    /\ \A u \in Users, p \in Perms : Exchange!Allowed(u, p) =>
         \/ Exchange!Allowed(u, p)'
         \/ \E w \in Exchange!Committed' : w \notin Exchange!Committed /\ Exchange!Hits(w, u, p)'

\* Row b of a token is row a, or a with the state revoked.
SameRow(a, b) ==
    \/ b = a
    \/ a.st = "live" /\ b.st = "revoked" /\ b.app = a.app /\ b.u = a.u /\ b.source = None
Rows == \A t \in Tokens : SameRow(tok[t], tok'[t])

-----------------------------------------------------------------------------
(* Rows and withdrawals.                                                   *)

\* Revoke changes no row but live ones.
LEMMA RevokeRows ==
    ASSUME Exchange!TypeOK, NEW S \in SUBSET Tokens, tok' = Exchange!Revoke(S)
    PROVE  /\ tok' \in [Tokens -> Exchange!Tok] /\ Rows
           /\ \A t \in S : tok'[t].st # "live"
  <1>1. ASSUME NEW t \in Tokens
        PROVE  tok'[t] \in Exchange!Tok /\ SameRow(tok[t], tok'[t]) /\ (t \in S => tok'[t].st # "live")
    <2> DEFINE row == [Exchange!NoTok EXCEPT !.st = "revoked", !.u = tok[t].u, !.app = tok[t].app]
    <2>1. tok[t] \in Exchange!Tok
      BY DEF Exchange!TypeOK
    <2>2. tok'[t] = IF t \in S /\ tok[t].st = "live" THEN row ELSE tok[t]
      BY DEF Exchange!Revoke
    <2>3. /\ row \in Exchange!Tok /\ row.st = "revoked" /\ row.u = tok[t].u /\ row.app = tok[t].app
          /\ row.source = None
      BY <2>1 DEF Exchange!Tok, Exchange!NoTok
    <2> HIDE DEF row
    <2> QED
      BY <2>1, <2>2, <2>3 DEF SameRow
  <1>2. tok' = [t \in Tokens |-> tok'[t]]
    BY DEF Exchange!Revoke
  <1> QED
    BY <1>1, <1>2 DEF Rows

\* A permission that was validated stands or was withdrawn since, after every step.
LEMMA HeldKept ==
    ASSUME Withdrawn, NEW u \in Users, NEW p \in Perms, NEW a, NEW seen, Held(u, p, a, seen)
    PROVE  Held(u, p, a, seen)'
  <1>1. p.caller = a /\ policy'[p] # "absent" /\ seen \subseteq Exchange!Committed'
    BY DEF Held, Withdrawn
  <1>2. CASE Exchange!Allowed(u, p)
    <2>1. CASE Exchange!Allowed(u, p)'
      BY <1>1, <2>1 DEF Held
    <2>2. ASSUME NEW w \in Exchange!Committed', w \notin Exchange!Committed, Exchange!Hits(w, u, p)'
          PROVE  Held(u, p, a, seen)'
      <3>1. w \notin seen
        BY <2>2 DEF Held
      <3> QED
        BY <1>1, <2>2, <3>1 DEF Held
    <2> QED
      BY <1>2, <2>1, <2>2 DEF Withdrawn
  <1>3. ASSUME NEW w \in Exchange!Committed, Exchange!Hits(w, u, p), w \notin seen
        PROVE  Held(u, p, a, seen)'
    <2>1. w \in Exchange!Committed' /\ Exchange!Hits(w, u, p)'
      BY <1>3 DEF Withdrawn
    <2> QED
      BY <1>1, <1>3, <2>1 DEF Held
  <1> QED
    BY <1>2, <1>3 DEF Held

\* So it is for every token whose row stays and every request that goes on.
LEMMA TokenKept ==
    ASSUME ExchangeInv, Withdrawn,
           NEW t \in Tokens, SameRow(tok[t], tok'[t]), tok'[t].st # "absent"
    PROVE  (/\ tok[t].u \in Users
            /\ Exchange!Delegated(t) =>
                 \A p \in tok[t].perms : Held(tok[t].u, p, tok[t].app, tok[t].seen))'
  <1>1. tok[t] \in Exchange!Tok /\ tok[t].st # "absent" /\ tok[t].u \in Users
    BY DEF ExchangeInv, Exchange!TypeOK, SameRow, TokensHeld
  <1>2. tok[t].perms \subseteq Perms
    BY <1>1 DEF Exchange!Tok
  <1>3. tok'[t].u \in Users
    BY <1>1 DEF SameRow
  <1>4. ASSUME Exchange!Delegated(t)', NEW p \in tok'[t].perms
        PROVE  Held(tok[t].u, p, tok[t].app, tok[t].seen)'
    <2>1. tok'[t] = tok[t] /\ Exchange!Delegated(t)
      BY <1>4 DEF SameRow, Exchange!Delegated
    <2>2. Held(tok[t].u, p, tok[t].app, tok[t].seen)
      BY <1>1, <1>4, <2>1 DEF ExchangeInv, TokensHeld
    <2>3. PICK v, b, n : v = tok[t].u /\ b = tok[t].app /\ n = tok[t].seen
      OBVIOUS
    <2>4. Held(v, p, b, n)'
      BY <1>1, <1>2, <1>4, <2>1, <2>2, <2>3, HeldKept
    <2>5. tok'[t].u = v /\ tok'[t].app = b /\ tok'[t].seen = n
      BY <2>1, <2>3
    <2> QED
      BY <2>4, <2>5 DEF Held, Exchange!Allowed, Exchange!Linked
  <1> QED
    BY <1>3, <1>4

\* Likewise for every request on its way to a delegated token.
LEMMA RequestKept ==
    ASSUME ExchangeInv, Withdrawn,
           NEW r \in Reqs, req[r].op \in {"validated", "checked", "inserted"},
           LET s == req[r].source
           IN  tok'[s].app = tok[s].app /\ tok'[s].st # "absent",
           req'[r].u = req[r].u /\ req'[r].source = req[r].source,
           req'[r].perms = req[r].perms /\ req'[r].seen = req[r].seen
    PROVE  (/\ req[r].u \in Users
            /\ req[r].source \in Tokens /\ tok[req[r].source].st # "absent"
            /\ \A p \in req[r].perms :
                 Held(req[r].u, p, tok[req[r].source].app, req[r].seen))'
  <1>1. req[r] \in Exchange!Req /\ req[r].u \in Users /\ req[r].source \in Tokens
    BY DEF ExchangeInv, Exchange!TypeOK, RequestsHeld
  <1>2. req[r].perms \subseteq Perms
    BY <1>1 DEF Exchange!Req
  <1>3. ASSUME NEW p \in req'[r].perms
        PROVE  Held(req[r].u, p, tok[req[r].source].app, req[r].seen)'
    <2>1. PICK v, b, n : v = req[r].u /\ b = tok[req[r].source].app /\ n = req[r].seen
      OBVIOUS
    <2>2. Held(v, p, b, n)
      BY <2>1 DEF ExchangeInv, RequestsHeld
    <2>3. v \in Users /\ p \in Perms
      BY <1>1, <1>2, <2>1
    <2>4. Held(v, p, b, n)'
      BY <2>2, <2>3, HeldKept
    <2>5. req'[r].u = v /\ tok'[req'[r].source].app = b /\ req'[r].seen = n
      BY <2>1
    <2> QED
      BY <2>4, <2>5 DEF Held, Exchange!Allowed, Exchange!Linked
  <1> QED
    BY <1>1, <1>3

\* Steps that write no request and insert no token.
LEMMA RowsKeep ==
    ASSUME ExchangeInv, Exchange!TypeOK', Withdrawn, Rows, req' = req, Covered'
    PROVE  ExchangeInv'
  <1>1. TokensHeld'
    BY TokenKept DEF TokensHeld, Rows
  <1>2. RequestsHeld'
    <2> SUFFICES ASSUME NEW r \in Reqs
                 PROVE (/\ req[r].op # "idle" => req[r].u \in Users
                        /\ req[r].op \in {"validated", "checked", "inserted"} =>
                            /\ req[r].source \in Tokens /\ tok[req[r].source].st # "absent"
                            /\ \A p \in req[r].perms :
                                 Held(req[r].u, p, tok[req[r].source].app, req[r].seen))'
      BY DEF RequestsHeld
    <2>1. req[r].op # "idle" => req'[r].u \in Users
      BY DEF ExchangeInv, RequestsHeld
    <2>2. CASE req[r].op \in {"validated", "checked", "inserted"}
      <3>1. req[r].source \in Tokens /\ tok[req[r].source].st # "absent"
        BY <2>2 DEF ExchangeInv, RequestsHeld
      <3>2. LET s == req[r].source
            IN  tok'[s].app = tok[s].app /\ tok'[s].st # "absent"
        BY <3>1 DEF Rows, SameRow
      <3> QED
        BY <2>1, <2>2, <3>2, RequestKept
    <2> QED
      BY <2>1, <2>2
  <1> QED
    BY <1>1, <1>2 DEF ExchangeInv

\* Covered, when the withdrawals and their sweeps stay as they are.
LEMMA StillCovered ==
    ASSUME ExchangeInv, Rows, cut' = cut
    PROVE  Covered'
  <1>1. ASSUME NEW t \in Tokens, tok'[t].st = "live"
        PROVE  tok'[t] = tok[t]
    BY <1>1 DEF Rows, SameRow
  <1> QED
    BY <1>1 DEF ExchangeInv, Covered, Exchange!Hits, Exchange!Delegated

-----------------------------------------------------------------------------
(* Grants and withdrawals.                                                 *)

\* Rows and withdrawals that stay as they are.
LEMMA SameTokens ==
    ASSUME tok' = tok
    PROVE  Rows
  BY DEF Rows, SameRow

\* A step that only adds permissions.
LEMMA GrantAdds ==
    ASSUME cut' = cut,
           \A u \in Users, p \in Perms : Exchange!Allowed(u, p) => Exchange!Allowed(u, p)',
           \A p \in Perms : policy[p] # "absent" => policy'[p] # "absent"
    PROVE  Withdrawn
  BY DEF Withdrawn, Exchange!Committed, Exchange!Hits

\* A step of tokens and requests alone.
LEMMA StillAllowed ==
    ASSUME UNCHANGED <<policy, consent, linked, cut>>
    PROVE  Withdrawn
  BY GrantAdds DEF Exchange!Allowed, Exchange!Linked

\* Turning a policy on adds permissions.
LEMMA EnableKeeps ==
    ASSUME ExchangeInv, NEW p \in Perms, Exchange!EnablePolicy(p)
    PROVE  ExchangeInv'
  <1>1. Exchange!TypeOK'
    BY DEF ExchangeInv, Exchange!TypeOK, Exchange!EnablePolicy
  <1>2. /\ \A u \in Users, q \in Perms : Exchange!Allowed(u, q) => Exchange!Allowed(u, q)'
        /\ \A q \in Perms : policy[q] # "absent" => policy'[q] # "absent"
    BY DEF ExchangeInv, Exchange!TypeOK, Exchange!EnablePolicy, Exchange!Allowed, Exchange!Linked
  <1>3. Withdrawn
    BY <1>2, GrantAdds DEF Exchange!EnablePolicy
  <1>4. Rows /\ Covered'
    BY SameTokens, StillCovered DEF Exchange!EnablePolicy
  <1> QED
    BY <1>1, <1>3, <1>4, RowsKeep DEF Exchange!EnablePolicy

\* A link that becomes active adds permissions.
LEMMA ActivatedKeeps ==
    ASSUME ExchangeInv, NEW u \in Users, NEW a \in Apps, Exchange!LinkActivated(u, a)
    PROVE  ExchangeInv'
  <1>1. Exchange!TypeOK'
    BY DEF ExchangeInv, Exchange!TypeOK, Exchange!LinkActivated
  <1>2. \A v \in Users, q \in Perms : Exchange!Allowed(v, q) => Exchange!Allowed(v, q)'
    BY DEF Exchange!LinkActivated, Exchange!Allowed, Exchange!Linked
  <1>3. Withdrawn
    BY <1>2, GrantAdds DEF Exchange!LinkActivated
  <1>4. Rows /\ Covered'
    BY SameTokens, StillCovered DEF Exchange!LinkActivated
  <1> QED
    BY <1>1, <1>3, <1>4, RowsKeep DEF Exchange!LinkActivated

\* A sweep that finds every live token resting on what the withdrawal is about.
LEMMA SweepKeeps ==
    ASSUME ExchangeInv, NEW w \in Cuts, NEW what, NEW S \in SUBSET Tokens,
           what \in Exchange!Cut, Exchange!Sweep(w, what, S),
           \A t \in Tokens, p \in Perms :
               /\ tok[t].st = "live" /\ Exchange!Delegated(t) /\ p \in tok[t].perms
               /\ tok[t].u \in Users /\ p.caller = tok[t].app /\ policy[p] # "absent"
               /\ \/ p \in what.off \/ <<tok[t].u, p>> \in what.given
                  \/ <<tok[t].u, p.caller>> \in what.ended \/ <<tok[t].u, p.target>> \in what.ended
               => t \in S
    PROVE  ExchangeInv'
  <1> DEFINE row == [what EXCEPT !.st = "swept", !.found = S]
  <1>1. /\ row \in Exchange!Cut /\ row.st = "swept" /\ row.found = S
        /\ row.off = what.off /\ row.given = what.given /\ row.ended = what.ended
    BY DEF Exchange!Cut
  <1>2. /\ cut[w].st = "new" /\ cut' = [cut EXCEPT ![w] = row]
        /\ UNCHANGED <<policy, consent, linked, tok, req>>
    BY DEF Exchange!Sweep
  <1> HIDE DEF row
  <1>3. /\ cut \in [Cuts -> Exchange!Cut] /\ cut' \in [Cuts -> Exchange!Cut]
        /\ cut'[w] = row /\ \A v \in Cuts : v # w => cut'[v] = cut[v]
    BY <1>1, <1>2 DEF ExchangeInv, Exchange!TypeOK
  <1>4. Exchange!TypeOK'
    BY <1>2, <1>3 DEF ExchangeInv, Exchange!TypeOK
  <1>5. Exchange!Committed' = Exchange!Committed
    BY <1>1, <1>2, <1>3 DEF Exchange!Committed
  <1>6. \A v \in Exchange!Committed, u \in Users, p \in Perms :
          Exchange!Hits(v, u, p) => Exchange!Hits(v, u, p)'
    BY <1>2, <1>3 DEF Exchange!Committed, Exchange!Hits
  <1>7. Withdrawn
    BY <1>2, <1>5, <1>6 DEF Withdrawn, Exchange!Allowed, Exchange!Linked
  <1>8. Covered'
    <2> SUFFICES ASSUME NEW v \in Cuts
                 PROVE (/\ cut[v].st = "done" => cut[v].found = {}
                        /\ cut[v].st \in {"swept", "done"} =>
                             \A t \in Tokens : tok[t].st = "live" /\ Exchange!Delegated(t) =>
                                 \A p \in tok[t].perms : Exchange!Hits(v, tok[t].u, p)
                                     => v \in tok[t].born \/ t \in cut[v].found)'
      BY DEF Covered
    <2>1. CASE v # w
      BY <1>2, <1>3, <2>1 DEF ExchangeInv, Covered, Exchange!Hits, Exchange!Delegated
    <2>2. CASE v = w
      <3>1. ASSUME NEW t \in Tokens, tok[t].st = "live", Exchange!Delegated(t),
                   NEW p \in tok[t].perms, Exchange!Hits(w, tok[t].u, p)'
            PROVE  t \in S
        <4>1. /\ tok[t].u \in Users /\ p \in Perms /\ p.caller = tok[t].app /\ policy[p] # "absent"
          BY <3>1 DEF ExchangeInv, TokensHeld, Held, Exchange!TypeOK, Exchange!Tok
        <4>2. \/ p \in what.off \/ <<tok[t].u, p>> \in what.given
              \/ <<tok[t].u, p.caller>> \in what.ended \/ <<tok[t].u, p.target>> \in what.ended
          BY <1>1, <1>2, <1>3, <3>1 DEF Exchange!Hits
        <4> QED
          BY <3>1, <4>1, <4>2
      <3> QED
        BY <1>1, <1>2, <1>3, <2>2, <3>1 DEF Exchange!Hits, Exchange!Delegated
    <2> QED
      BY <2>1, <2>2
  <1> QED
    BY <1>2, <1>4, <1>7, <1>8, SameTokens, RowsKeep

\* The row of no withdrawal.
LEMMA NoCutType ==
    /\ Exchange!NoCut \in Exchange!Cut /\ Exchange!NoCut.st = "new" /\ Exchange!NoCut.off = {}
    /\ Exchange!NoCut.given = {} /\ Exchange!NoCut.ended = {} /\ Exchange!NoCut.found = {}
  BY DEF Exchange!NoCut, Exchange!Cut

\* Turning a policy off finds the delegated tokens of the caller for the resource.
LEMMA DisableKeeps ==
    ASSUME ExchangeInv, NEW w \in Cuts, NEW p \in Perms, Exchange!DisablePolicy(w, p)
    PROVE  ExchangeInv'
  <1> DEFINE what == [Exchange!NoCut EXCEPT !.off = {p}]
             S == Exchange!DelegatedFor(p.caller, p.resource)
  <1>1. what \in Exchange!Cut /\ what.off = {p} /\ what.given = {} /\ what.ended = {}
    BY NoCutType DEF Exchange!Cut
  <1>2. S \in SUBSET Tokens /\ Exchange!Sweep(w, what, S)
    BY DEF Exchange!DelegatedFor, Exchange!DisablePolicy
  <1>3. \A t \in Tokens : Exchange!Delegated(t) /\ p \in tok[t].perms /\ p.caller = tok[t].app => t \in S
    BY DEF Exchange!DelegatedFor
  <1> HIDE DEF what, S
  <1> QED
    BY <1>1, <1>2, <1>3, SweepKeeps

\* Revoking a consent finds those of the user.
LEMMA RevokeConsentKeeps ==
    ASSUME ExchangeInv, NEW w \in Cuts, NEW u \in Users, NEW p \in Perms,
           Exchange!RevokeConsent(w, u, p)
    PROVE  ExchangeInv'
  <1> DEFINE G == consent \cap {<<u, p>>}
             what == [Exchange!NoCut EXCEPT !.given = G]
             S == {t \in Exchange!DelegatedFor(p.caller, p.resource) : tok[t].u = u}
  <1>0. G \subseteq Exchange!Pairs /\ G \subseteq {<<u, p>>}
    BY DEF Exchange!Pairs
  <1>2. S \in SUBSET Tokens /\ Exchange!Sweep(w, what, S)
    BY DEF Exchange!DelegatedFor, Exchange!RevokeConsent
  <1>3. \A t \in Tokens :
          Exchange!Delegated(t) /\ p \in tok[t].perms /\ p.caller = tok[t].app /\ tok[t].u = u
            => t \in S
    BY DEF Exchange!DelegatedFor
  <1> HIDE DEF G, S
  <1>1. what \in Exchange!Cut /\ what.off = {} /\ what.given = G /\ what.ended = {}
    BY <1>0, NoCutType DEF Exchange!Cut
  <1> HIDE DEF what
  <1>4. \A t \in Tokens, q \in Perms : <<tok[t].u, q>> \in G => tok[t].u = u /\ q = p
    BY <1>0
  <1> QED
    BY <1>1, <1>2, <1>3, <1>4, SweepKeeps

\* Revoking a link of either application finds the tokens of the caller: a permission
\* that a token rests on has had a policy since, so that its caller is among the callers.
LEMMA RevokeLinkKeeps ==
    ASSUME ExchangeInv, NEW w \in Cuts, NEW u \in Users, NEW a \in Apps,
           Exchange!RevokeLink(w, u, a)
    PROVE  ExchangeInv'
  <1> DEFINE callers == {p.caller : p \in {q \in Perms : q.target = a /\ policy[q] # "absent"}}
             S == {t \in Tokens : tok[t].u = u /\
                      (tok[t].app = a \/ (Exchange!Delegated(t) /\ tok[t].app \in callers))}
             E == {<<u, a>>}
             what == [Exchange!NoCut EXCEPT !.ended = E]
  <1>0. E \subseteq Users \X Apps
    OBVIOUS
  <1>2. S \in SUBSET Tokens /\ Exchange!Sweep(w, what, S)
    BY DEF Exchange!RevokeLink
  <1>3. \A t \in Tokens, q \in Perms :
          Exchange!Delegated(t) /\ q.caller = tok[t].app /\ policy[q] # "absent" /\ tok[t].u = u
            => (a \in {q.caller, q.target} => t \in S)
    OBVIOUS
  <1>4. \A t \in Tokens, q \in Perms :
          <<tok[t].u, q.caller>> \in E \/ <<tok[t].u, q.target>> \in E
            => tok[t].u = u /\ a \in {q.caller, q.target}
    OBVIOUS
  <1> HIDE DEF S, E
  <1>1. what \in Exchange!Cut /\ what.off = {} /\ what.given = {} /\ what.ended = E
    BY <1>0, NoCutType DEF Exchange!Cut
  <1> HIDE DEF what
  <1> QED
    BY <1>1, <1>2, <1>3, <1>4, SweepKeeps

\* What is rolled back was never done.
LEMMA RollbackKeeps ==
    ASSUME ExchangeInv, NEW w \in Cuts, Exchange!Rollback(w)
    PROVE  ExchangeInv'
  <1> DEFINE row == [Exchange!NoCut EXCEPT !.st = "failed"]
  <1>1. row \in Exchange!Cut /\ row.st = "failed"
    BY NoCutType DEF Exchange!Cut
  <1>2. /\ cut[w].st = "swept" /\ cut' = [cut EXCEPT ![w] = row]
        /\ UNCHANGED <<policy, consent, linked, tok, req>>
    BY DEF Exchange!Rollback
  <1> HIDE DEF row
  <1>3. /\ cut \in [Cuts -> Exchange!Cut] /\ cut' \in [Cuts -> Exchange!Cut]
        /\ cut'[w] = row /\ \A v \in Cuts : v # w => cut'[v] = cut[v]
    BY <1>1, <1>2 DEF ExchangeInv, Exchange!TypeOK
  <1>4. Exchange!TypeOK'
    BY <1>2, <1>3 DEF ExchangeInv, Exchange!TypeOK
  <1>5. Exchange!Committed' = Exchange!Committed
    BY <1>1, <1>2, <1>3 DEF Exchange!Committed
  <1>6. \A v \in Exchange!Committed, u \in Users, p \in Perms :
          Exchange!Hits(v, u, p) => Exchange!Hits(v, u, p)'
    BY <1>2, <1>3 DEF Exchange!Committed, Exchange!Hits
  <1>7. Withdrawn
    BY <1>2, <1>5, <1>6 DEF Withdrawn, Exchange!Allowed, Exchange!Linked
  <1>8. Covered'
    BY <1>1, <1>2, <1>3 DEF ExchangeInv, Covered, Exchange!Hits, Exchange!Delegated
  <1> QED
    BY <1>2, <1>4, <1>7, <1>8, SameTokens, RowsKeep

\* A commit takes away what the withdrawal is about, and the tokens its sweep has found.
LEMMA CommitKeeps ==
    ASSUME ExchangeInv, NEW w \in Cuts, Exchange!Commit(w)
    PROVE  ExchangeInv'
  <1> DEFINE row == [cut[w] EXCEPT !.st = "done", !.found = {}]
  <1>1. /\ cut \in [Cuts -> Exchange!Cut] /\ cut[w] \in Exchange!Cut
        /\ policy \in [Perms -> {"absent", "on", "off"}]
    BY DEF ExchangeInv, Exchange!TypeOK
  <1>2. /\ row \in Exchange!Cut /\ row.st = "done" /\ row.found = {}
        /\ row.off = cut[w].off /\ row.given = cut[w].given /\ row.ended = cut[w].ended
    BY <1>1 DEF Exchange!Cut
  <1>3. /\ cut[w].st = "swept" /\ cut' = [cut EXCEPT ![w] = row] /\ req' = req
        /\ policy' = [p \in Perms |-> IF p \in cut[w].off THEN "off" ELSE policy[p]]
        /\ consent' = consent \ cut[w].given /\ linked' = linked \ cut[w].ended
        /\ tok' = Exchange!Revoke(cut[w].found)
    BY <1>1 DEF Exchange!Commit
  <1> HIDE DEF row
  <1>4. cut' \in [Cuts -> Exchange!Cut] /\ cut'[w] = row /\ \A v \in Cuts : v # w => cut'[v] = cut[v]
    BY <1>1, <1>2, <1>3
  <1>5. cut[w].found \in SUBSET Tokens
    BY <1>1 DEF Exchange!Cut
  <1>6. /\ tok' \in [Tokens -> Exchange!Tok] /\ Rows
        /\ \A t \in cut[w].found : tok'[t].st # "live"
    BY <1>3, <1>5, RevokeRows DEF ExchangeInv
  <1>7. /\ policy' \in [Perms -> {"absent", "on", "off"}]
        /\ \A p \in Perms : policy'[p] = IF p \in cut[w].off THEN "off" ELSE policy[p]
    BY <1>1, <1>3
  <1>8. Exchange!TypeOK'
    BY <1>3, <1>4, <1>6, <1>7 DEF ExchangeInv, Exchange!TypeOK
  <1>9. \A v \in Cuts : \A u, p : Exchange!Hits(v, u, p)' <=> Exchange!Hits(v, u, p)
    BY <1>2, <1>4 DEF Exchange!Hits
  <1>10. /\ Exchange!Committed \subseteq Exchange!Committed'
         /\ w \in Exchange!Committed' /\ w \notin Exchange!Committed
    BY <1>2, <1>3, <1>4 DEF Exchange!Committed
  <1>11. \A u \in Users, p \in Perms :
           Exchange!Allowed(u, p) => Exchange!Allowed(u, p)' \/ Exchange!Hits(w, u, p)
    BY <1>3, <1>7 DEF Exchange!Allowed, Exchange!Linked, Exchange!Hits
  <1>12. \A p \in Perms : policy[p] # "absent" => policy'[p] # "absent"
    BY <1>7
  <1>13. Withdrawn
    BY <1>9, <1>10, <1>11, <1>12 DEF Withdrawn, Exchange!Committed
  <1>14. Covered'
    <2> SUFFICES ASSUME NEW v \in Cuts
                 PROVE (/\ cut[v].st = "done" => cut[v].found = {}
                        /\ cut[v].st \in {"swept", "done"} =>
                             \A t \in Tokens : tok[t].st = "live" /\ Exchange!Delegated(t) =>
                                 \A p \in tok[t].perms : Exchange!Hits(v, tok[t].u, p)
                                     => v \in tok[t].born \/ t \in cut[v].found)'
      BY DEF Covered
    <2>1. cut'[v].st = "done" => cut'[v].found = {}
      BY <1>2, <1>4 DEF ExchangeInv, Covered
    <2>2. ASSUME cut'[v].st \in {"swept", "done"}, NEW t \in Tokens, tok'[t].st = "live",
                 Exchange!Delegated(t)', NEW p \in tok'[t].perms, Exchange!Hits(v, tok[t].u, p)'
          PROVE  v \in tok'[t].born \/ t \in cut'[v].found
      <3>1. tok'[t] = tok[t] /\ Exchange!Delegated(t) /\ cut[v].st \in {"swept", "done"}
        BY <1>3, <1>4, <1>6, <2>2 DEF Rows, SameRow, Exchange!Delegated
      <3>2. Exchange!Hits(v, tok[t].u, p)
        BY <1>2, <1>4, <2>2, <3>1 DEF Exchange!Hits
      <3>3. v \in tok[t].born \/ t \in cut[v].found
        BY <2>2, <3>1, <3>2 DEF ExchangeInv, Covered
      <3>4. v = w => t \notin cut[v].found
        BY <1>6, <2>2
      <3> QED
        BY <1>4, <3>1, <3>3, <3>4
    <2> QED
      BY <2>1, <2>2
  <1> QED
    BY <1>3, <1>6, <1>8, <1>13, <1>14, RowsKeep

\* The end of one token withdraws no permission.
LEMMA TokenEndsKeeps ==
    ASSUME ExchangeInv, NEW t \in Tokens, Exchange!TokenEnds(t)
    PROVE  ExchangeInv'
  <1>1. tok' \in [Tokens -> Exchange!Tok] /\ Rows
    BY RevokeRows DEF ExchangeInv, Exchange!TokenEnds
  <1>2. Exchange!TypeOK'
    BY <1>1 DEF ExchangeInv, Exchange!TypeOK, Exchange!TokenEnds
  <1>3. Withdrawn /\ Covered'
    BY <1>1, StillAllowed, StillCovered DEF Exchange!TokenEnds
  <1> QED
    BY <1>1, <1>2, <1>3, RowsKeep DEF Exchange!TokenEnds

-----------------------------------------------------------------------------
(* Requests and new tokens.                                                *)

\* A step that gives request r another row and leaves the others alone.
LEMMA RequestKeeps ==
    ASSUME ExchangeInv, Exchange!TypeOK', Withdrawn, tok' = tok, cut' = cut,
           NEW r \in Reqs, \A s \in Reqs \ {r} : req'[s] = req[s],
           (/\ req[r].op # "idle" => req[r].u \in Users
            /\ req[r].op \in {"validated", "checked", "inserted"} =>
                 /\ req[r].source \in Tokens /\ tok[req[r].source].st # "absent"
                 /\ \A p \in req[r].perms :
                      Held(req[r].u, p, tok[req[r].source].app, req[r].seen))'
    PROVE  ExchangeInv'
  <1>1. TokensHeld'
    BY TokenKept, SameTokens DEF TokensHeld, Rows
  <1>2. RequestsHeld'
    <2> SUFFICES ASSUME NEW s \in Reqs \ {r}
                 PROVE (/\ req[s].op # "idle" => req[s].u \in Users
                        /\ req[s].op \in {"validated", "checked", "inserted"} =>
                            /\ req[s].source \in Tokens /\ tok[req[s].source].st # "absent"
                            /\ \A p \in req[s].perms :
                                 Held(req[s].u, p, tok[req[s].source].app, req[s].seen))'
      BY DEF RequestsHeld
    <2>1. req'[s] = req[s]
      OBVIOUS
    <2>2. req'[s].op # "idle" => req'[s].u \in Users
      BY <2>1 DEF ExchangeInv, RequestsHeld
    <2>3. CASE req[s].op \in {"validated", "checked", "inserted"}
      <3>1. tok[req[s].source].st # "absent"
        BY <2>3 DEF ExchangeInv, RequestsHeld
      <3>2. LET z == req[s].source
            IN  tok'[z].app = tok[z].app /\ tok'[z].st # "absent"
        BY <3>1
      <3> QED
        BY <2>1, <2>2, <2>3, <3>2, RequestKept
    <2> QED
      BY <2>1, <2>2, <2>3
  <1>3. Covered'
    BY SameTokens, StillCovered
  <1> QED
    BY <1>1, <1>2, <1>3 DEF ExchangeInv

\* The row of a request that has ended and the row of no token.
LEMMA IdleType ==
    Exchange!Idle \in Exchange!Req /\ Exchange!NoTok \in Exchange!Tok
  BY DEF Exchange!NoTok, Exchange!Tok, Exchange!Idle, Exchange!Req

\* A request that is about to write a consent has its user.
LEMMA setDelegationKeeps ==
    ASSUME ExchangeInv, NEW r \in Reqs, NEW u \in Users, NEW p \in Perms,
           Exchange!setDelegation(r, u, p)
    PROVE  ExchangeInv'
  <1> DEFINE row == [Exchange!Idle EXCEPT !.op = "consent", !.u = u, !.perms = {p}]
  <1>1. row \in Exchange!Req /\ row.op = "consent" /\ row.u = u
    BY IdleType DEF Exchange!Req
  <1>2. req' = [req EXCEPT ![r] = row] /\ UNCHANGED <<policy, consent, linked, tok, cut>>
    BY DEF Exchange!setDelegation
  <1> HIDE DEF row
  <1>3. Exchange!TypeOK' /\ req'[r] = row /\ \A s \in Reqs \ {r} : req'[s] = req[s]
    BY <1>1, <1>2 DEF ExchangeInv, Exchange!TypeOK
  <1>4. Withdrawn
    BY <1>2, StillAllowed
  <1> QED
    BY <1>1, <1>2, <1>3, <1>4, RequestKeeps

\* A consent adds permissions, even one whose policy or link is gone by now.
LEMMA GrantKeeps ==
    ASSUME ExchangeInv, NEW r \in Reqs, Exchange!GrantConsent(r)
    PROVE  ExchangeInv'
  <1>1. req[r].u \in Users /\ req[r].perms \subseteq Perms
    BY DEF ExchangeInv, RequestsHeld, Exchange!TypeOK, Exchange!Req, Exchange!GrantConsent
  <1>2. req' = [req EXCEPT ![r] = Exchange!Idle] /\ UNCHANGED <<policy, linked, tok, cut>>
    BY DEF Exchange!GrantConsent
  <1>3. Exchange!TypeOK' /\ req'[r] = Exchange!Idle /\ \A s \in Reqs \ {r} : req'[s] = req[s]
    BY <1>1, <1>2, IdleType DEF ExchangeInv, Exchange!TypeOK, Exchange!Pairs, Exchange!GrantConsent
  <1>4. \A v \in Users, q \in Perms : Exchange!Allowed(v, q) => Exchange!Allowed(v, q)'
    BY DEF Exchange!GrantConsent, Exchange!Allowed, Exchange!Linked
  <1>5. Withdrawn
    BY <1>2, <1>4, GrantAdds
  <1> QED
    BY <1>2, <1>3, <1>5, RequestKeeps DEF Exchange!Idle

\* A request ends.
LEMMA ClaimsKeep ==
    ASSUME ExchangeInv, NEW r \in Reqs,
           Exchange!GetPrivateClaimsFromTokenExchangeRequest(r)
    PROVE  ExchangeInv'
  <1>1. req' = [req EXCEPT ![r] = Exchange!Idle] /\ UNCHANGED <<policy, consent, linked, tok, cut>>
    BY DEF Exchange!GetPrivateClaimsFromTokenExchangeRequest
  <1>2. Exchange!TypeOK' /\ req'[r] = Exchange!Idle /\ \A s \in Reqs \ {r} : req'[s] = req[s]
    BY <1>1, IdleType DEF ExchangeInv, Exchange!TypeOK
  <1>3. Withdrawn
    BY <1>1, StillAllowed
  <1> QED
    BY <1>1, <1>2, <1>3, RequestKeeps DEF Exchange!Idle

\* The second look at the source token changes no token.
LEMMA CreateKeeps ==
    ASSUME ExchangeInv, NEW r \in Reqs, Exchange!CreateAccessToken(r)
    PROVE  ExchangeInv'
  <1>1. req[r] \in Exchange!Req /\ req \in [Reqs -> Exchange!Req] /\ req[r].op = "validated"
    BY DEF ExchangeInv, Exchange!TypeOK, Exchange!CreateAccessToken
  <1>2. req' = [req EXCEPT ![r].op = "checked"] /\ UNCHANGED <<policy, consent, linked, tok, cut>>
    BY DEF Exchange!CreateAccessToken, Exchange!Proceed
  <1>3. /\ req' \in [Reqs -> Exchange!Req] /\ req'[r].op = "checked"
        /\ req'[r].u = req[r].u /\ req'[r].source = req[r].source
        /\ req'[r].perms = req[r].perms /\ req'[r].seen = req[r].seen
        /\ \A s \in Reqs \ {r} : req'[s] = req[s]
    BY <1>1, <1>2 DEF Exchange!Req
  <1>4. Exchange!TypeOK'
    BY <1>2, <1>3 DEF ExchangeInv, Exchange!TypeOK
  <1>5. Withdrawn
    BY <1>2, StillAllowed
  <1>6. LET s == req[r].source
        IN  tok'[s].app = tok[s].app /\ tok'[s].st # "absent"
    BY <1>1, <1>2 DEF ExchangeInv, RequestsHeld
  <1>7. (/\ req[r].u \in Users
         /\ req[r].source \in Tokens /\ tok[req[r].source].st # "absent"
         /\ \A p \in req[r].perms :
              Held(req[r].u, p, tok[req[r].source].app, req[r].seen))'
    BY <1>1, <1>3, <1>4, <1>5, <1>6, RequestKept
  <1> QED
    BY <1>2, <1>3, <1>4, <1>5, <1>7, RequestKeeps

\* At the validation every permission stands and the request has seen all its withdrawals.
LEMMA ValidateKeeps ==
    ASSUME ExchangeInv, NEW r \in Reqs, NEW s \in Tokens,
           NEW P \in SUBSET Perms, Exchange!ValidateTokenExchangeRequest(r, s, P)
    PROVE  ExchangeInv'
  <1> DEFINE u == tok[s].u
             seen == Exchange!Committed
             row == [op |-> "validated", u |-> u, source |-> s, perms |-> P, seen |-> seen]
  <1>1. tok[s].st # "absent" /\ u \in Users
    BY DEF Exchange!ValidateTokenExchangeRequest, Exchange!ActiveToken, ExchangeInv, TokensHeld
  <1>4. seen \in SUBSET Cuts
    BY DEF Exchange!Committed
  <1>6. \A p \in P : Held(u, p, tok[s].app, seen)
    BY DEF Exchange!ValidateTokenExchangeRequest, Held, Exchange!Allowed
  <1>7. req' = [req EXCEPT ![r] = row] /\ UNCHANGED <<policy, consent, linked, tok, cut>>
    BY DEF Exchange!ValidateTokenExchangeRequest
  <1>8. Withdrawn
    BY <1>7, StillAllowed
  <1> HIDE DEF u, seen
  <1>9. row \in Exchange!Req /\ row.op = "validated" /\ row.u = u /\ row.source = s
        /\ row.perms = P /\ row.seen = seen
    BY <1>1, <1>4 DEF Exchange!Req
  <1> HIDE DEF row
  <1>10. Exchange!TypeOK' /\ req'[r] = row /\ \A q \in Reqs \ {r} : req'[q] = req[q]
    BY <1>7, <1>9 DEF ExchangeInv, Exchange!TypeOK
  <1>11. (\A p \in req[r].perms : Held(req[r].u, p, tok[req[r].source].app, req[r].seen))'
    <2>1. PICK v, b, n : v = u /\ b = tok[s].app /\ n = seen
      OBVIOUS
    <2>2. /\ req'[r].u = v /\ tok'[req'[r].source].app = b
          /\ req'[r].seen = n /\ req'[r].perms = P
      BY <1>7, <1>9, <1>10, <2>1
    <2>3. ASSUME NEW p \in P
          PROVE  Held(v, p, b, n)'
      BY <1>1, <1>4, <1>6, <1>8, <1>10, <2>1, HeldKept DEF ExchangeInv
    <2>4. ASSUME NEW p \in P
          PROVE  Held(req[r].u, p, tok[req[r].source].app, req[r].seen)'
      BY <2>2, <2>3 DEF Held, Exchange!Allowed, Exchange!Linked
    <2> QED
      BY <2>2, <2>4
  <1> QED
    BY <1>1, <1>7, <1>8, <1>9, <1>10, <1>11, RequestKeeps

\* A row that is written where there was none leaves every other row alone.
LEMMA NewTokenKeeps ==
    ASSUME ExchangeInv, Exchange!TypeOK', Withdrawn, cut' = cut,
           NEW t \in Tokens, tok[t].st = "absent", tok'[t].st # "absent",
           \A z \in Tokens \ {t} : tok'[z] = tok[z],
           \A r \in Reqs :
               /\ req'[r].u = req[r].u /\ req'[r].source = req[r].source
               /\ req'[r].perms = req[r].perms /\ req'[r].seen = req[r].seen
               /\ \/ req'[r].op = req[r].op
                  \/ req[r].op = "checked" /\ req'[r].op = "inserted",
           (tok[t].u \in Users /\ (Exchange!Delegated(t) =>
               \A p \in tok[t].perms : Held(tok[t].u, p, tok[t].app, tok[t].seen)))',
           Exchange!Delegated(t)' => Exchange!Swept \subseteq tok'[t].born
    PROVE  ExchangeInv'
  <1>1. TokensHeld'
    <2> SUFFICES ASSUME NEW z \in Tokens, tok'[z].st # "absent"
                 PROVE  (/\ tok[z].u \in Users
                         /\ Exchange!Delegated(z) =>
                              \A p \in tok[z].perms : Held(tok[z].u, p, tok[z].app, tok[z].seen))'
      BY DEF TokensHeld
    <2>1. CASE z = t
      BY <2>1
    <2>2. CASE z # t
      <3>1. SameRow(tok[z], tok'[z])
        BY <2>2 DEF SameRow
      <3> QED
        BY <3>1, TokenKept
    <2> QED
      BY <2>1, <2>2
  <1>2. RequestsHeld'
    <2> SUFFICES ASSUME NEW r \in Reqs
                 PROVE (/\ req[r].op # "idle" => req[r].u \in Users
                        /\ req[r].op \in {"validated", "checked", "inserted"} =>
                            /\ req[r].source \in Tokens /\ tok[req[r].source].st # "absent"
                            /\ \A p \in req[r].perms :
                                 Held(req[r].u, p, tok[req[r].source].app, req[r].seen))'
      BY DEF RequestsHeld
    <2>1. /\ req'[r].op # "idle" => req'[r].u \in Users
          /\ req'[r].op \in {"validated", "checked", "inserted"}
               => req[r].op \in {"validated", "checked", "inserted"}
      BY DEF ExchangeInv, RequestsHeld
    <2>2. CASE req[r].op \in {"validated", "checked", "inserted"}
      <3>1. req[r].source \in Tokens /\ tok[req[r].source].st # "absent"
        BY <2>2 DEF ExchangeInv, RequestsHeld
      <3>2. LET s == req[r].source
            IN  tok'[s].app = tok[s].app /\ tok'[s].st # "absent"
        BY <3>1
      <3> QED
        BY <2>1, <2>2, <3>2, RequestKept
    <2> QED
      BY <2>1, <2>2
  <1>3. Covered'
    <2> SUFFICES ASSUME NEW w \in Cuts, cut[w].st \in {"swept", "done"},
                        NEW z \in Tokens, tok'[z].st = "live", Exchange!Delegated(z)',
                        NEW p \in tok'[z].perms, Exchange!Hits(w, tok[z].u, p)'
                 PROVE  w \in tok'[z].born \/ z \in cut[w].found
      BY DEF ExchangeInv, Covered
    <2>1. CASE z = t
      BY <2>1 DEF Exchange!Swept
    <2>2. CASE z # t
      <3>1. tok'[z] = tok[z]
        BY <2>2
      <3>2. Exchange!Delegated(z) /\ Exchange!Hits(w, tok[z].u, p)
        BY <3>1 DEF Exchange!Delegated, Exchange!Hits
      <3> QED
        BY <3>1, <3>2 DEF ExchangeInv, Covered
    <2> QED
      BY <2>1, <2>2
  <1> QED
    BY <1>1, <1>2, <1>3 DEF ExchangeInv

\* A user token rests on no permission.
LEMMA UserTokenKeeps ==
    ASSUME ExchangeInv, NEW t \in Tokens, NEW u \in Users, NEW a \in Apps,
           Exchange!UserToken(t, u, a)
    PROVE  ExchangeInv'
  <1> DEFINE row == [Exchange!NoTok EXCEPT !.st = "live", !.u = u, !.app = a]
  <1>1. row \in Exchange!Tok /\ row.st = "live" /\ row.u = u /\ row.source = None
    <2>1. Exchange!NoTok.source = None
      BY DEF Exchange!NoTok
    <2> QED
      BY <2>1, IdleType DEF Exchange!Tok
  <1>2. tok' = [tok EXCEPT ![t] = row] /\ UNCHANGED <<policy, consent, linked, req, cut>>
    BY DEF Exchange!UserToken
  <1> HIDE DEF row
  <1>3. Exchange!TypeOK' /\ tok'[t] = row /\ \A z \in Tokens \ {t} : tok'[z] = tok[z]
    BY <1>1, <1>2 DEF ExchangeInv, Exchange!TypeOK
  <1>4. Withdrawn
    BY <1>2, StillAllowed
  <1>5. tok'[t].u \in Users /\ ~Exchange!Delegated(t)' /\ tok'[t].st # "absent"
    BY <1>1, <1>3 DEF Exchange!Delegated
  <1>6. tok[t].st = "absent"
    BY DEF Exchange!UserToken
  <1> QED
    BY <1>2, <1>3, <1>4, <1>5, <1>6, NewTokenKeeps

\* The INSERT of a delegated token takes the permissions from its request, and every
\* sweep has run that has run by now.
LEMMA InsertKeeps ==
    ASSUME ExchangeInv, NEW r \in Reqs, NEW t \in Tokens,
           Exchange!InsertAccess(r, t)
    PROVE  ExchangeInv'
  <1> DEFINE u == req[r].u
             s == req[r].source
             a == tok[s].app
             P == req[r].perms
             seen == req[r].seen
             born == Exchange!Swept
             row == [st |-> "live", app |-> a, u |-> u, source |-> s, perms |-> P,
                     seen |-> seen, born |-> born]
  <1>1. /\ req \in [Reqs -> Exchange!Req] /\ req[r] \in Exchange!Req /\ req[r].op = "checked"
        /\ u \in Users /\ s \in Tokens /\ tok \in [Tokens -> Exchange!Tok]
        /\ \A p \in P : Held(u, p, a, seen)
    BY DEF ExchangeInv, Exchange!TypeOK, RequestsHeld, Exchange!InsertAccess
  <1>2. P \in SUBSET Perms /\ seen \in SUBSET Cuts /\ a \in Apps \cup {None}
    BY <1>1 DEF Exchange!Req, Exchange!Tok
  <1>5. born \in SUBSET Cuts /\ Exchange!Swept = born
    BY DEF Exchange!Swept
  <1>6. /\ tok[t].st = "absent" /\ tok' = [tok EXCEPT ![t] = row]
        /\ req' = [req EXCEPT ![r].op = "inserted"]
        /\ UNCHANGED <<policy, consent, linked, cut>>
    BY DEF Exchange!InsertAccess, Exchange!Proceed
  <1>7. Withdrawn
    BY <1>6, StillAllowed
  <1>8. /\ req' \in [Reqs -> Exchange!Req]
        /\ \A q \in Reqs :
             /\ req'[q].u = req[q].u /\ req'[q].source = req[q].source
             /\ req'[q].perms = req[q].perms /\ req'[q].seen = req[q].seen
             /\ \/ req'[q].op = req[q].op
                \/ req[q].op = "checked" /\ req'[q].op = "inserted"
    BY <1>1, <1>6 DEF Exchange!Req
  <1> HIDE DEF u, s, a, P, seen, born
  <1>9. /\ row \in Exchange!Tok /\ row.st = "live" /\ row.app = a /\ row.u = u
        /\ row.perms = P /\ row.seen = seen /\ row.born = born
    BY <1>1, <1>2, <1>5 DEF Exchange!Tok
  <1> HIDE DEF row
  <1>10. Exchange!TypeOK' /\ tok'[t] = row /\ \A z \in Tokens \ {t} : tok'[z] = tok[z]
    BY <1>1, <1>6, <1>8, <1>9 DEF ExchangeInv, Exchange!TypeOK
  <1>11. (\A p \in tok[t].perms : Held(tok[t].u, p, tok[t].app, tok[t].seen))'
    <2>1. PICK v, b, n : v = u /\ b = a /\ n = seen
      OBVIOUS
    <2>2. tok'[t].u = v /\ tok'[t].app = b /\ tok'[t].seen = n /\ tok'[t].perms = P
      BY <1>9, <1>10, <2>1
    <2>3. ASSUME NEW p \in P
          PROVE  Held(v, p, b, n)'
      BY <1>1, <1>2, <1>7, <1>10, <2>1, HeldKept DEF ExchangeInv
    <2>4. ASSUME NEW p \in P
          PROVE  Held(tok[t].u, p, tok[t].app, tok[t].seen)'
      BY <2>2, <2>3 DEF Held, Exchange!Allowed, Exchange!Linked
    <2> QED
      BY <2>2, <2>4
  <1>12. tok'[t].u \in Users /\ Exchange!Swept \subseteq tok'[t].born
    BY <1>1, <1>5, <1>9, <1>10
  <1>13. tok'[t].st # "absent"
    BY <1>9, <1>10
  <1> QED
    BY <1>6, <1>7, <1>8, <1>10, <1>11, <1>12, <1>13, NewTokenKeeps

-----------------------------------------------------------------------------
(* Token exchange keeps its promises.                                      *)

\* The inductive invariant holds at the start ...
LEMMA ExchangeInit ==
    ASSUME Exchange!Init
    PROVE  ExchangeInv
  <1>1. Exchange!TypeOK
    BY IdleType, NoCutType DEF Exchange!Init, Exchange!TypeOK
  <1>2. /\ \A t \in Tokens : tok[t].st = "absent"
        /\ \A r \in Reqs : req[r].op = "idle"
        /\ \A w \in Cuts : cut[w].st = "new"
    BY NoCutType DEF Exchange!Init, Exchange!NoTok, Exchange!Idle
  <1> QED
    BY <1>1, <1>2 DEF ExchangeInv, TokensHeld, RequestsHeld, Covered

\* ... and is kept by every step.
LEMMA ExchangeStep ==
    ASSUME ExchangeInv, [Exchange!Next]_Exchange!vars
    PROVE  ExchangeInv'
  <1>1. CASE UNCHANGED Exchange!vars
    <2>1. UNCHANGED <<policy, consent, linked, tok, req, cut>>
      BY <1>1 DEF Exchange!vars
    <2>2. Exchange!TypeOK'
      BY <2>1 DEF ExchangeInv, Exchange!TypeOK
    <2> QED
      BY <2>1, <2>2, SameTokens, StillAllowed, StillCovered, RowsKeep
  <1>2. ASSUME NEW p \in Perms, Exchange!setExchangePolicy(p)
        PROVE  ExchangeInv'
    BY <1>2, EnableKeeps, DisableKeeps DEF Exchange!setExchangePolicy, Exchange!SetExchangePolicy
  <1>3. ASSUME NEW w \in Cuts,
               \/ \E u \in Users, p \in Perms : Exchange!RevokeConsent(w, u, p)
               \/ \E u \in Users, a \in Apps : Exchange!RevokeLink(w, u, a)
               \/ Exchange!Commit(w) \/ Exchange!Rollback(w)
        PROVE  ExchangeInv'
    BY <1>3, RevokeConsentKeeps, RevokeLinkKeeps, CommitKeeps, RollbackKeeps
  <1>4. ASSUME NEW u \in Users, NEW a \in Apps, Exchange!LinkActivated(u, a)
        PROVE  ExchangeInv'
    BY <1>4, ActivatedKeeps
  <1>5. ASSUME NEW t \in Tokens,
               Exchange!TokenEnds(t) \/ \E u \in Users, a \in Apps : Exchange!UserToken(t, u, a)
        PROVE  ExchangeInv'
    BY <1>5, TokenEndsKeeps, UserTokenKeeps
  <1>6. ASSUME NEW r \in Reqs,
               \/ \E u \in Users, p \in Perms : Exchange!setDelegation(r, u, p)
               \/ Exchange!GrantConsent(r) \/ Exchange!CreateAccessToken(r)
               \/ \E s \in Tokens, P \in SUBSET Perms :
                     Exchange!ValidateTokenExchangeRequest(r, s, P)
               \/ \E t \in Tokens : Exchange!InsertAccess(r, t)
               \/ Exchange!GetPrivateClaimsFromTokenExchangeRequest(r)
        PROVE  ExchangeInv'
    BY <1>6, setDelegationKeeps, GrantKeeps, CreateKeeps, ValidateKeeps, InsertKeeps, ClaimsKeep
  <1> QED
    BY <1>1, <1>2, <1>3, <1>4, <1>5, <1>6 DEF Exchange!Next

\* The inductive invariant of token exchange, for any number of applications, permissions,
\* users, tokens and requests.
THEOREM ExchangeInvariant == Exchange!Spec => []ExchangeInv
  <1>1. Exchange!Init => ExchangeInv
    BY ExchangeInit
  <1>2. ExchangeInv /\ [Exchange!Next]_Exchange!vars => ExchangeInv'
    BY ExchangeStep
  <1> QED
    BY <1>1, <1>2, PTL DEF Exchange!Spec

\* Every table and request of token exchange keeps its type.
THEOREM ExchangeTypes == Exchange!Spec => []Exchange!TypeOK
  <1>1. ExchangeInv => Exchange!TypeOK
    BY DEF ExchangeInv
  <1> QED
    BY <1>1, ExchangeInvariant, PTL

\* A committed withdrawal (a policy turned off, a consent or a link revoked: exchange.go,
\* links.go) has ended every delegated token that rests on it and was inserted before its
\* sweep, and no later grant brings one back.
THEOREM WithdrawalHolds == Exchange!Spec => []Exchange!WithdrawalEndsDelegation
  <1>1. ExchangeInv => Exchange!WithdrawalEndsDelegation
    BY DEF ExchangeInv, Covered, Exchange!WithdrawalEndsDelegation, Exchange!ActiveToken,
           Exchange!Committed
  <1> QED
    BY <1>1, ExchangeInvariant, PTL

\* An active delegated token whose permission is gone was validated before a withdrawal of
\* it committed (ValidateTokenExchangeRequest) and inserted after that withdrawal's sweep
\* (CreateAccessToken).
THEOREM RacesOnly == Exchange!Spec => []Exchange!OnlyRacesOutlivePermission
  <1>1. ASSUME ExchangeInv
        PROVE  Exchange!OnlyRacesOutlivePermission
    <2> SUFFICES ASSUME NEW t \in Tokens, tok[t].st = "live", Exchange!Delegated(t),
                        NEW p \in tok[t].perms, ~Exchange!Allowed(tok[t].u, p)
                 PROVE  \E w \in Exchange!Committed :
                          /\ Exchange!Hits(w, tok[t].u, p)
                          /\ w \notin tok[t].seen /\ w \in tok[t].born
      BY DEF Exchange!OnlyRacesOutlivePermission, Exchange!ActiveToken
    <2>1. PICK w \in Exchange!Committed : Exchange!Hits(w, tok[t].u, p) /\ w \notin tok[t].seen
      BY <1>1 DEF ExchangeInv, TokensHeld, Held
    <2>2. w \in tok[t].born
      BY <1>1, <2>1 DEF ExchangeInv, Covered, Exchange!Committed
    <2> QED
      BY <2>1, <2>2
  <1> QED
    BY <1>1, ExchangeInvariant, PTL

=============================================================================
