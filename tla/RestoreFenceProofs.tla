------------------------- MODULE RestoreFenceProofs -------------------------
(***************************************************************************)
(* Proofs about RestoreFence, and about how an application comes to the    *)
(* links it knows.                                                         *)
(*                                                                         *)
(* The fence leaves the database such that all three promises hold before  *)
(* anything is delivered (AfterFence): nothing that it has to end is live, *)
(* every revoked link and every owner of a link has its event queued.      *)
(* Afterwards the service keeps them.  An event about a link reaches an    *)
(* application that has the link active because it carries version 2 or 3  *)
(* and an active link has version 2, before and after any restore (Sound,  *)
(* KnownActive).                                                           *)
(***************************************************************************)
EXTENDS RestoreFence, TLAPS

\* Events about a link are queued; the event that ends an identity's sessions.
LinkEvent(out, l) == \E e \in out : e.type = "link" /\ e.l = l
Logout(u) == [type |-> "logout", u |-> u]

\* The version of a link counts its states, and only a final one is announced.
Sound(d) ==
    /\ \A l \in Links :
         /\ d.link[l].st = "prepared" => d.link[l].version = 1
         /\ d.link[l].st = "active" => d.link[l].version = 2
         /\ d.link[l].st = "revoked" => d.link[l].version \in {2, 3}
         /\ d.link[l].st # "absent" => d.link[l].u \in Users
    /\ \A e \in d.out : e.type = "link" => e.version \in {2, 3}

\* What the application knows as active has the version of the activation.
KnownActive == \A l \in Links : app.known[l].st = "active" => app.known[l].version = 2

\* The database between the fence and the start of the service.
AfterFence ==
    phase = "fenced" =>
        /\ \A c \in db.live : Kind(c) \notin FencedKinds
        /\ \A l \in Links : db.link[l].st = "revoked" => LinkEvent(db.out, l)
        /\ \A u \in fenced : Logout(u) \in db.out

\* The inductive invariant.
FenceInv ==
    /\ TypeOK /\ Sound(db) /\ (snap # None => Sound(snap)) /\ KnownActive /\ AfterFence
    /\ SnapshotGrantsDie /\ RevokedLinksReachApp /\ OldSessionsEnd

-----------------------------------------------------------------------------
(* Records.                                                                *)

\* The columns of the database.
LEMMA Columns ==
    ASSUME NEW d \in Database
    PROVE  /\ d.live \subseteq Creds /\ d.version \in [Users -> 1..MaxVersion]
           /\ d.link \in [Links -> Link] /\ d.out \subseteq Event
    BY DEF Database

\* The events about links and the logouts.
LEMMA EventFacts ==
    /\ \A e \in Event : e.type \in {"link", "logout", "status"}
    /\ \A e \in Event : e.type = "link" => e.l \in Links /\ e.version \in 1..3
    /\ \A l \in Links, v \in 1..3 :
         LET e == [type |-> "link", l |-> l, version |-> v] IN
         e \in Event /\ e.type = "link" /\ e.l = l /\ e.version = v
    /\ \A u \in Users : Logout(u) \in Event /\ Logout(u).type = "logout" /\ Logout(u).u = u
    /\ \A e \in Event : e.type = "logout" => e.u \in Users /\ e = Logout(e.u)
    /\ \A e \in Event : e.type = "status" => e.u \in Users
<1>1. \A l \in Links, v \in 1..3 :
         LET e == [type |-> "link", l |-> l, version |-> v] IN
         e \in Event /\ e.type = "link" /\ e.l = l /\ e.version = v
    BY DEF Event
<1>2. \A u \in Users : Logout(u) \in Event /\ Logout(u).type = "logout" /\ Logout(u).u = u
    BY DEF Event, Logout
<1>3. \A e \in Event : e.type = "logout" => e.u \in Users /\ e = Logout(e.u)
    BY DEF Event, Logout
<1>4. \A e \in Event : e.type = "link" => e.l \in Links /\ e.version \in 1..3
    BY DEF Event
<1>5. \A e \in Event : e.type \in {"link", "logout", "status"}
    BY DEF Event
<1>6. \A e \in Event : e.type = "status" => e.u \in Users
    BY DEF Event
<1> QED
    BY <1>1, <1>2, <1>3, <1>4, <1>5, <1>6

\* What the application keeps.
LEMMA Kept ==
    ASSUME NEW a \in App
    PROVE  /\ a.known \in [Links -> Link]
           /\ a.session \in [Users -> (0..MaxRestores) \cup {None}]
    BY DEF App

-----------------------------------------------------------------------------
(* The service while it is up.                                             *)

\* Credentials are issued in the epoch of the restore, and end.
LEMMA Granting ==
    ASSUME FenceInv, NEW c \in Creds, Issue(c) \/ End(c)
    PROVE  FenceInv'
<1>1. /\ db \in Database /\ phase = "up" /\ UNCHANGED <<snap, phase, app, told, fenced, epoch>>
      /\ epoch \in 0..MaxRestores
    BY DEF Issue, End, FenceInv, TypeOK
<1>2. PICK live \in SUBSET Creds : /\ db' = [db EXCEPT !.live = live]
                                   /\ \A x \in live : x \in db.live \/ (x = c /\ Issue(c))
    BY <1>1, Columns DEF Issue, End
<1>3. /\ db' \in Database /\ db'.live = live /\ db'.version = db.version
      /\ db'.link = db.link /\ db'.out = db.out
    BY <1>1, <1>2 DEF Database
<1>4. /\ born' \in [Creds -> (0..MaxRestores) \cup {None}] /\ ended' \subseteq Creds
      /\ \A x \in live : (x \in db.live /\ born'[x] = born[x]) \/ born'[x] = epoch
    BY <1>1, <1>2 DEF Issue, End, FenceInv, TypeOK
<1>5. TypeOK'
    BY <1>1, <1>3, <1>4 DEF FenceInv, TypeOK
<1>6. SnapshotGrantsDie'
    BY <1>1, <1>3, <1>4 DEF FenceInv, SnapshotGrantsDie
<1>7. Sound(db') /\ (snap' # None => Sound(snap')) /\ KnownActive' /\ AfterFence'
    BY <1>1, <1>3 DEF FenceInv, Sound, KnownActive, AfterFence
<1>8. RevokedLinksReachApp' /\ OldSessionsEnd'
    BY <1>1, <1>3 DEF FenceInv, RevokedLinksReachApp, OldSessionsEnd
<1> QED
    BY <1>5, <1>6, <1>7, <1>8 DEF FenceInv

\* A step of the running service that issues and ends nothing.
LEMMA Running ==
    ASSUME FenceInv, phase = "up", UNCHANGED <<snap, phase, born, fenced, epoch>>,
           TypeOK', db'.live = db.live, Sound(db'), KnownActive',
           \A l \in Links : db'.link[l].st = "revoked" /\ ~LinkEvent(db'.out, l)
                            => app'.known[l].st # "active",
           \A u \in fenced : Logout(u) \notin db'.out => app'.session[u] \in {None, epoch}
    PROVE  FenceInv'
<1>1. SnapshotGrantsDie' /\ AfterFence' /\ (snap' # None => Sound(snap'))
    BY DEF FenceInv, SnapshotGrantsDie, AfterFence, Sound
<1>2. RevokedLinksReachApp'
    BY DEF RevokedLinksReachApp, LinkEvent
<1>3. OldSessionsEnd'
    BY DEF OldSessionsEnd, Logout
<1> QED
    BY <1>1, <1>2, <1>3 DEF FenceInv

\* What the invariant gives such a step to start from.
LEMMA Promised ==
    ASSUME FenceInv, phase = "up"
    PROVE  /\ \A l \in Links : db.link[l].st = "revoked" /\ ~LinkEvent(db.out, l)
                               => app.known[l].st # "active"
           /\ \A u \in fenced : Logout(u) \notin db.out => app.session[u] \in {None, epoch}
    BY DEF FenceInv, RevokedLinksReachApp, OldSessionsEnd, LinkEvent, Logout

\* SetIdentityStatus queues events about the identity.
LEMMA Governing ==
    ASSUME FenceInv, NEW u \in Users, SetIdentityStatus(u)
    PROVE  FenceInv'
<1> DEFINE v == db.version[u] + 1
           linked == \E l \in Links : db.link[l].st = "active" /\ db.link[l].u = u
           logout == IF v % 2 = 0 THEN {[type |-> "logout", u |-> u]} ELSE {}
           status == [type |-> "status", u |-> u, version |-> v]
           version == [db.version EXCEPT ![u] = v]
           out == IF linked THEN db.out \cup {status} \cup logout ELSE db.out
<1>1. /\ db \in Database /\ phase = "up" /\ v <= MaxVersion /\ db.version \in [Users -> 1..MaxVersion]
      /\ db.out \subseteq Event /\ UNCHANGED <<snap, phase, app, born, ended, fenced, epoch>>
      /\ told \in [Users -> 1..MaxVersion]
    BY Columns DEF SetIdentityStatus, FenceInv, TypeOK
<1>2. db.version[u] \in Nat /\ 1 <= db.version[u]
    BY <1>1
<1>3. v \in 1..MaxVersion /\ v \in 2..MaxVersion
    BY <1>1, <1>2, BoundAssumption
<1>4. version \in [Users -> 1..MaxVersion]
    BY <1>1, <1>3
<1>5. status \in Event /\ status.type = "status" /\ logout \subseteq Event
    BY <1>3 DEF Event
<1>6. out \subseteq Event /\ db.out \subseteq out
      /\ \A e \in out : e.type = "link" => e \in db.out
    BY <1>1, <1>5
<1>7. db' = [db EXCEPT !.version = version, !.out = out]
    BY <1>1 DEF SetIdentityStatus, Database
<1>8. told' \in [Users -> 1..MaxVersion]
    BY <1>1, <1>3 DEF SetIdentityStatus
<1> HIDE DEF version, out
<1>9. /\ db' \in Database /\ db'.live = db.live /\ db'.link = db.link /\ db'.out = out
    BY <1>1, <1>4, <1>6, <1>7 DEF Database
<1>10. TypeOK'
    BY <1>1, <1>8, <1>9 DEF FenceInv, TypeOK
<1>11. Sound(db') /\ KnownActive'
    BY <1>1, <1>6, <1>9 DEF FenceInv, Sound, KnownActive
<1>12. \A l \in Links : LinkEvent(db.out, l) => LinkEvent(out, l)
    BY <1>6 DEF LinkEvent
<1> QED
    BY <1>1, <1>6, <1>9, <1>10, <1>11, <1>12, Promised, Running

\* A link changes its row and an event may be queued for it.
LEMMA Linking ==
    ASSUME FenceInv, phase = "up", NEW l \in Links, NEW row \in Link,
           NEW out \in SUBSET Event,
           db' = [db EXCEPT !.link = [db.link EXCEPT ![l] = row], !.out = out],
           UNCHANGED <<snap, phase, born, ended, told, fenced, epoch>>,
           app' \in App, app'.session = app.session, KnownActive',
           \A k \in Links \ {l} : app'.known[k] = app.known[k],
           row.st = "prepared" => row.version = 1,
           row.st = "active" => row.version = 2,
           row.st = "revoked" => row.version \in {2, 3},
           row.st # "absent" => row.u \in Users,
           db.out \subseteq out, \A e \in out : e.type = "link" => e.version \in {2, 3},
           row.st = "revoked" => LinkEvent(out, l)
    PROVE  FenceInv'
<1>1. db \in Database /\ db.link \in [Links -> Link]
    BY Columns DEF FenceInv, TypeOK
<1>2. /\ db' \in Database /\ db'.live = db.live /\ db'.link = [db.link EXCEPT ![l] = row]
      /\ db'.out = out
    BY <1>1 DEF Database
<1>3. db'.link[l] = row /\ \A k \in Links \ {l} : db'.link[k] = db.link[k]
    BY <1>1, <1>2
<1>4. TypeOK'
    BY <1>2 DEF FenceInv, TypeOK
<1>5. Sound(db')
    BY <1>2, <1>3 DEF FenceInv, Sound
<1>6. \A k \in Links : LinkEvent(db.out, k) => LinkEvent(out, k)
    BY DEF LinkEvent
<1>7. \A k \in Links : db'.link[k].st = "revoked" /\ ~LinkEvent(db'.out, k)
                       => app'.known[k].st # "active"
    BY <1>2, <1>3, <1>6, Promised
<1>8. \A u \in fenced : Logout(u) \notin db'.out => app'.session[u] \in {None, epoch}
    BY <1>2, Promised
<1> QED
    BY <1>2, <1>4, <1>5, <1>7, <1>8, Running

\* PrepareLink and ActivateLink.
LEMMA Activating ==
    ASSUME FenceInv, NEW l \in Links, ActivateLink(l) \/ \E u \in Users : PrepareLink(l, u)
    PROVE  FenceInv'
<1>1. /\ phase = "up" /\ db \in Database /\ db.link \in [Links -> Link] /\ db.link[l] \in Link
      /\ db.out \in SUBSET Event /\ Sound(db) /\ KnownActive /\ app \in App
      /\ app.known \in [Links -> Link]
      /\ UNCHANGED <<snap, phase, born, ended, told, fenced, epoch>>
    BY Columns, Kept DEF ActivateLink, PrepareLink, FenceInv, TypeOK
<1>2. CASE ActivateLink(l)
  <2> DEFINE v == db.link[l].version + 1
             row == [db.link[l] EXCEPT !.st = "active", !.version = v]
  <2>1. v = 2 /\ v \in 0..3 /\ db.link[l].u \in Users
    BY <1>1, <1>2 DEF ActivateLink, Sound
  <2>3. db' = [db EXCEPT !.link = [db.link EXCEPT ![l] = row], !.out = db.out] /\ app' = app
    BY <1>1, <1>2 DEF ActivateLink, Database
  <2> HIDE DEF v
  <2>2. row \in Link /\ row.st = "active" /\ row.version = v /\ row.u = db.link[l].u
    BY <1>1, <2>1 DEF Link
  <2> HIDE DEF row
  <2>4. KnownActive' /\ app'.session = app.session
        /\ \A k \in Links \ {l} : app'.known[k] = app.known[k]
    BY <1>1, <2>3 DEF KnownActive
  <2>5. \A e \in db.out : e.type = "link" => e.version \in {2, 3}
    BY <1>1 DEF Sound
  <2> QED
    BY <1>1, <2>1, <2>2, <2>3, <2>4, <2>5, Linking
<1>3. ASSUME NEW u \in Users, PrepareLink(l, u) PROVE FenceInv'
  <2> DEFINE row == [st |-> "prepared", version |-> 1, u |-> u]
  <2>1. row \in Link /\ row.st = "prepared" /\ row.version = 1 /\ row.u = u
    BY DEF Link
  <2>2. /\ db' = [db EXCEPT !.link = [db.link EXCEPT ![l] = row], !.out = db.out]
        /\ db'.link[l] = row
    BY <1>1, <1>3 DEF PrepareLink, Database
  <2>3. app' = [app EXCEPT !.known[l] = row]
    BY <1>3, <2>2 DEF PrepareLink
  <2> HIDE DEF row
  <2>4. /\ app' \in App /\ app'.session = app.session /\ app'.known = [app.known EXCEPT ![l] = row]
    BY <1>1, <2>1, <2>3 DEF App
  <2>5. KnownActive' /\ \A k \in Links \ {l} : app'.known[k] = app.known[k]
    BY <1>1, <2>1, <2>4 DEF KnownActive
  <2>6. \A e \in db.out : e.type = "link" => e.version \in {2, 3}
    BY <1>1 DEF Sound
  <2> QED
    BY <1>1, <2>1, <2>2, <2>4, <2>5, <2>6, Linking
<1> QED
    BY <1>2, <1>3

\* RevokeLink queues its event with the row.
LEMMA Revoking ==
    ASSUME FenceInv, NEW l \in Links, RevokeLink(l)
    PROVE  FenceInv'
<1> DEFINE v == db.link[l].version + 1
           row == [db.link[l] EXCEPT !.st = "revoked", !.version = v]
           new == [type |-> "link", l |-> l, version |-> v]
           out == db.out \cup {new}
<1>1. /\ phase = "up" /\ db \in Database /\ db.link \in [Links -> Link] /\ db.link[l] \in Link
      /\ db.out \in SUBSET Event /\ Sound(db) /\ KnownActive /\ app \in App
      /\ UNCHANGED <<snap, phase, app, born, ended, told, fenced, epoch>>
    BY Columns DEF RevokeLink, FenceInv, TypeOK
<1>2. v \in {2, 3} /\ v \in 0..3 /\ v \in 1..3 /\ db.link[l].u \in Users
    BY <1>1 DEF RevokeLink, Sound
<1>3. db' = [db EXCEPT !.link = [db.link EXCEPT ![l] = row], !.out = out]
    BY <1>1 DEF RevokeLink, Database
<1> HIDE DEF v
<1>4. row \in Link /\ row.st = "revoked" /\ row.version = v /\ row.u = db.link[l].u
    BY <1>1, <1>2 DEF Link
<1>5. new \in Event /\ new.type = "link" /\ new.l = l /\ new.version = v
    BY <1>2 DEF Event
<1> HIDE DEF row, new
<1>6. /\ out \in SUBSET Event /\ db.out \subseteq out /\ LinkEvent(out, l)
      /\ \A e \in out : e.type = "link" => e.version \in {2, 3}
    BY <1>1, <1>2, <1>5 DEF LinkEvent, Sound
<1> HIDE DEF out
<1>7. KnownActive' /\ app'.session = app.session
      /\ \A k \in Links \ {l} : app'.known[k] = app.known[k]
    BY <1>1 DEF KnownActive
<1> QED
    BY <1>1, <1>2, <1>3, <1>4, <1>6, <1>7, Linking

-----------------------------------------------------------------------------
(* The application.                                                        *)

\* It reads active links, and logs its users in.
LEMMA Using ==
    ASSUME FenceInv, (\E l \in Links : GetLink(l)) \/ (\E u \in Users : AppLogin(u))
    PROVE  FenceInv'
<1>1. /\ phase = "up" /\ db \in Database /\ Sound(db) /\ KnownActive /\ app \in App
      /\ app.known \in [Links -> Link] /\ db.link \in [Links -> Link]
      /\ app.session \in [Users -> (0..MaxRestores) \cup {None}] /\ epoch \in 0..MaxRestores
      /\ UNCHANGED <<db, snap, phase, born, ended, told, fenced, epoch>>
    BY Columns, Kept DEF GetLink, AppLogin, FenceInv, TypeOK
<1>2. ASSUME NEW l \in Links, GetLink(l) PROVE FenceInv'
  <2>1. app' = [app EXCEPT !.known[l] = db.link[l]] /\ db.link[l].st = "active"
    BY <1>2 DEF GetLink
  <2>2. /\ app' \in App /\ app'.session = app.session
        /\ app'.known = [app.known EXCEPT ![l] = db.link[l]]
    BY <1>1, <2>1 DEF App
  <2>3. app'.known[l] = db.link[l] /\ \A k \in Links \ {l} : app'.known[k] = app.known[k]
    BY <1>1, <2>2
  <2>4. TypeOK' /\ Sound(db') /\ KnownActive'
    BY <1>1, <2>1, <2>2, <2>3 DEF FenceInv, TypeOK, Sound, KnownActive
  <2> QED
    BY <1>1, <2>1, <2>2, <2>3, <2>4, Promised, Running
<1>3. ASSUME NEW u \in Users, AppLogin(u) PROVE FenceInv'
  <2>1. app' = [app EXCEPT !.session[u] = epoch]
    BY <1>3 DEF AppLogin
  <2>2. /\ app' \in App /\ app'.known = app.known
        /\ app'.session = [app.session EXCEPT ![u] = epoch]
    BY <1>1, <2>1 DEF App
  <2>3. \A w \in Users : app'.session[w] \in {epoch, app.session[w]}
    BY <1>1, <2>2
  <2>4. TypeOK' /\ Sound(db') /\ KnownActive'
    BY <1>1, <2>2 DEF FenceInv, TypeOK, Sound, KnownActive
  <2>5. fenced \subseteq Users
    BY DEF FenceInv, TypeOK
  <2> QED
    BY <1>1, <2>2, <2>3, <2>4, <2>5, Promised, Running
<1> QED
    BY <1>2, <1>3

\* What a delivery does to the application, whatever the event.
LEMMA Receiving ==
    ASSUME FenceInv, NEW e \in db.out, Deliver(e)
    PROVE  /\ app' \in App
           /\ \A k \in Links : app'.known[k] = app.known[k] \/ app'.known[k].st = "revoked"
           /\ e.type = "link" => app'.known[e.l].st # "active"
           /\ \A u \in Users : app'.session[u] \in {None, app.session[u]}
           /\ e.type = "logout" => app'.session[e.u] = None
<1>1. /\ db \in Database /\ e \in Event /\ app \in App /\ app.known \in [Links -> Link]
      /\ app.session \in [Users -> (0..MaxRestores) \cup {None}] /\ Sound(db) /\ KnownActive
    BY Columns, Kept DEF FenceInv, TypeOK
<1>2. /\ e.type = "link" => e.l \in Links /\ e.version \in {2, 3} /\ e.version \in 0..3
      /\ e.type \in {"logout", "status"} => e.u \in Users
    BY <1>1, EventFacts DEF Sound
<1>3. CASE e.type = "link" /\ e.version >= app.known[e.l].version
  <2> DEFINE v == e.version
             row == [app.known[e.l] EXCEPT !.st = "revoked", !.version = v]
             owner == app.known[e.l].u
  <2>1. v \in 0..3 /\ e.l \in Links /\ app.known[e.l] \in Link
    BY <1>1, <1>2, <1>3
  <2>2. app' = [app EXCEPT !.known = [app.known EXCEPT ![e.l] = row],
                           !.session = [app.session EXCEPT ![owner] = None]]
    BY <1>1, <1>3, <2>1 DEF Deliver, App
  <2> HIDE DEF v
  <2>3. row \in Link /\ row.st = "revoked"
    BY <2>1 DEF Link
  <2> HIDE DEF row, owner
  <2>4. /\ app' \in App /\ app'.known = [app.known EXCEPT ![e.l] = row]
        /\ app'.session = [app.session EXCEPT ![owner] = None]
    BY <1>1, <2>1, <2>2, <2>3 DEF App
  <2> QED
    BY <1>1, <1>3, <2>1, <2>3, <2>4
<1>4. CASE e.type = "link" /\ ~(e.version >= app.known[e.l].version)
  <2>1. app' = app
    BY <1>4 DEF Deliver
  <2>2. e.l \in Links /\ e.version \in {2, 3} /\ app.known[e.l].version \in 0..3
    BY <1>1, <1>2, <1>4 DEF Link
  <2>3. app.known[e.l].version # 2
    BY <1>4, <2>2
  <2> QED
    BY <1>1, <1>4, <2>1, <2>2, <2>3 DEF KnownActive
<1>5. CASE e.type # "link" /\ app' = [app EXCEPT !.session[e.u] = None]
  <2>1. /\ app' \in App /\ app'.known = app.known
        /\ app'.session = [app.session EXCEPT ![e.u] = None]
    BY <1>1, <1>5 DEF App
  <2> QED
    BY <1>1, <1>2, <1>5, <2>1
<1>6. CASE e.type # "link" /\ e.type # "logout" /\ app' = app
    BY <1>1, <1>6
<1>7. \/ e.type = "link"
      \/ e.type # "link" /\ app' = [app EXCEPT !.session[e.u] = None]
      \/ e.type # "link" /\ e.type # "logout" /\ app' = app
    BY DEF Deliver
<1> QED
    BY <1>3, <1>4, <1>5, <1>6, <1>7

\* An event that is gone from the queue has done what the queue promised.
LEMMA Delivering ==
    ASSUME FenceInv, NEW e \in db.out, Deliver(e)
    PROVE  FenceInv'
<1>1. /\ phase = "up" /\ db \in Database /\ e \in Event /\ Sound(db) /\ KnownActive
      /\ db.out \subseteq Event /\ fenced \subseteq Users
      /\ UNCHANGED <<snap, phase, born, ended, told, fenced, epoch>>
      /\ db' = [db EXCEPT !.out = db.out \ {e}]
    BY Columns DEF Deliver, FenceInv, TypeOK
<1>2. /\ db' \in Database /\ db'.live = db.live /\ db'.link = db.link
      /\ db'.out = db.out \ {e}
    BY <1>1 DEF Database
<1>3. TypeOK'
    BY <1>1, <1>2, Receiving DEF FenceInv, TypeOK
<1>4. Sound(db')
    BY <1>1, <1>2 DEF Sound
<1>5. KnownActive'
    BY <1>1, Receiving DEF KnownActive
<1>6. ASSUME NEW l \in Links, db'.link[l].st = "revoked", ~LinkEvent(db'.out, l)
      PROVE  app'.known[l].st # "active"
  <2>1. CASE LinkEvent(db.out, l)
    <3>1. e.type = "link" /\ e.l = l
      BY <1>2, <1>6, <2>1 DEF LinkEvent
    <3> QED
      BY <3>1, Receiving
  <2>2. CASE ~LinkEvent(db.out, l)
    BY <1>1, <1>2, <1>6, <2>2, Promised, Receiving
  <2> QED
    BY <2>1, <2>2
<1>7. ASSUME NEW u \in fenced, Logout(u) \notin db'.out
      PROVE  app'.session[u] \in {None, epoch}
  <2>1. CASE Logout(u) \in db.out
    <3>1. e.type = "logout" /\ e.u = u
      BY <1>1, <1>2, <1>7, <2>1, EventFacts
    <3> QED
      BY <3>1, Receiving
  <2>2. CASE Logout(u) \notin db.out
    BY <1>1, <2>2, Promised, Receiving
  <2> QED
    BY <2>1, <2>2
<1> QED
    BY <1>1, <1>2, <1>3, <1>4, <1>5, <1>6, <1>7, Running

-----------------------------------------------------------------------------
(* Backup, restore, fence.                                                 *)

\* A backup is as sound as the database, and a restored one too.
LEMMA Restoring ==
    ASSUME FenceInv, Backup \/ Restore
    PROVE  FenceInv'
<1>1. CASE Backup
  <2>1. TypeOK' /\ Sound(db') /\ Sound(snap') /\ KnownActive' /\ AfterFence'
    BY <1>1 DEF Backup, FenceInv, TypeOK, Sound, KnownActive, AfterFence
  <2>2. SnapshotGrantsDie' /\ RevokedLinksReachApp' /\ OldSessionsEnd'
    BY <1>1 DEF Backup, FenceInv, SnapshotGrantsDie, RevokedLinksReachApp, OldSessionsEnd
  <2> QED
    BY <2>1, <2>2 DEF FenceInv
<1>2. CASE Restore
  <2>1. epoch' \in 0..MaxRestores
    BY <1>2, BoundAssumption DEF Restore, FenceInv, TypeOK
  <2>2. TypeOK'
    BY <1>2, <2>1 DEF Restore, FenceInv, TypeOK
  <2>3. Sound(db') /\ (snap' # None => Sound(snap')) /\ KnownActive'
    BY <1>2 DEF Restore, FenceInv, KnownActive
  <2>4. AfterFence' /\ SnapshotGrantsDie' /\ RevokedLinksReachApp' /\ OldSessionsEnd'
    BY <1>2 DEF Restore, AfterFence, SnapshotGrantsDie, RevokedLinksReachApp, OldSessionsEnd
  <2> QED
    BY <2>2, <2>3, <2>4 DEF FenceInv
<1> QED
    BY <1>1, <1>2

\* FenceRestoredState revokes every link and leaves the version of a revocation.
LEMMA FencedLinks ==
    ASSUME FenceInv
    PROVE  /\ FenceLinks \in [Links -> Link]
           /\ \A l \in Links : l \in Existing => /\ FenceLinks[l].st = "revoked"
                                                 /\ FenceLinks[l].version \in {2, 3}
                                                 /\ FenceLinks[l].u = db.link[l].u
           /\ \A l \in Links \ Existing : FenceLinks[l].st = "absent"
<1>1. db.link \in [Links -> Link] /\ Sound(db)
    BY Columns DEF FenceInv, TypeOK
<1>2. ASSUME NEW l \in Links
      PROVE  /\ FenceLinks[l] \in Link
             /\ l \in Existing => /\ FenceLinks[l].st = "revoked"
                                  /\ FenceLinks[l].version \in {2, 3}
                                  /\ FenceLinks[l].u = db.link[l].u
             /\ l \notin Existing => FenceLinks[l].st = "absent"
  <2> DEFINE v == db.link[l].version + 1
             row == [db.link[l] EXCEPT !.st = "revoked", !.version = v]
  <2>1. db.link[l] \in Link /\ db.link[l].st \in {"absent", "prepared", "active", "revoked"}
    BY <1>1 DEF Link
  <2>2. CASE db.link[l].st \in {"prepared", "active"}
    <3>1. v \in {2, 3} /\ v \in 0..3
      BY <1>1, <2>2 DEF Sound
    <3>2. FenceLinks[l] = row /\ l \in Existing
      BY <2>2 DEF FenceLinks, Existing
    <3> HIDE DEF v
    <3>3. row \in Link /\ row.st = "revoked" /\ row.version = v /\ row.u = db.link[l].u
      BY <2>1, <3>1 DEF Link
    <3> QED
      BY <3>1, <3>2, <3>3
  <2>3. CASE db.link[l].st = "revoked"
    BY <1>1, <2>1, <2>3 DEF FenceLinks, Existing, Sound
  <2>4. CASE db.link[l].st = "absent"
    BY <2>1, <2>4 DEF FenceLinks, Existing
  <2> QED
    BY <2>1, <2>2, <2>3, <2>4
<1>3. FenceLinks = [l \in Links |-> FenceLinks[l]]
    BY DEF FenceLinks
<1> QED
    BY <1>2, <1>3

\* It queues a revocation of every link and a logout of every owner.
LEMMA FencedEvents ==
    ASSUME FenceInv
    PROVE  /\ FenceEvents \subseteq Event
           /\ \A e \in FenceEvents : e.type = "link" => e.version \in {2, 3}
           /\ \A l \in Existing : LinkEvent(FenceEvents, l) /\ Logout(db.link[l].u) \in FenceEvents
<1> DEFINE version(l) == IF db.link[l].st = "revoked" THEN db.link[l].version
                         ELSE db.link[l].version + 1
           revoke(l) == [type |-> "link", l |-> l, version |-> version(l)]
<1>1. db.link \in [Links -> Link] /\ Sound(db)
    BY Columns DEF FenceInv, TypeOK
<1>2. FenceEvents = {revoke(l) : l \in Existing} \cup {Logout(db.link[l].u) : l \in Existing}
    BY DEF FenceEvents, Logout
<1>3. \A l \in Existing : version(l) \in {2, 3} /\ db.link[l].u \in Users /\ l \in Links
  <2>1. \A l \in Links : db.link[l].st \in {"absent", "prepared", "active", "revoked"}
    BY <1>1 DEF Link
  <2> QED
    BY <1>1, <2>1 DEF Existing, Sound
<1> HIDE DEF version
<1>4. \A l \in Existing : /\ revoke(l) \in Event /\ revoke(l).type = "link"
                          /\ revoke(l).l = l /\ revoke(l).version \in {2, 3}
  <2> SUFFICES ASSUME NEW l \in Existing
               PROVE  /\ revoke(l) \in Event /\ revoke(l).type = "link"
                      /\ revoke(l).l = l /\ revoke(l).version \in {2, 3}
    OBVIOUS
  <2>1. version(l) \in 1..3 /\ version(l) \in {2, 3} /\ l \in Links
    BY <1>3
  <2> QED
    BY <2>1 DEF Event
<1> HIDE DEF revoke
<1>5. \A l \in Existing : Logout(db.link[l].u) \in Event /\ Logout(db.link[l].u).type = "logout"
    BY <1>3, EventFacts
<1> QED
    BY <1>2, <1>4, <1>5 DEF LinkEvent

\* So FenceRestoredState establishes AfterFence.
LEMMA Fencing ==
    ASSUME FenceInv, FenceRestoredState
    PROVE  FenceInv'
<1> DEFINE live == {c \in db.live : Kind(c) \notin FencedKinds}
<1>1. /\ db \in Database /\ Sound(db) /\ db.live \subseteq Creds
      /\ db' = [db EXCEPT !.live = live, !.link = FenceLinks, !.out = FenceEvents]
      /\ phase' = "fenced" /\ fenced' = {db.link[l].u : l \in Existing}
      /\ UNCHANGED <<snap, app, born, ended, told, epoch>>
    BY Columns DEF FenceRestoredState, FenceInv, TypeOK
<1>2. live \subseteq Creds /\ \A c \in live : Kind(c) \notin FencedKinds
    BY <1>1
<1> HIDE DEF live
<1>3. /\ db' \in Database /\ db'.live = live /\ db'.link = FenceLinks /\ db'.out = FenceEvents
    BY <1>1, <1>2, FencedLinks, FencedEvents DEF Database
<1>4. fenced' \subseteq Users
    BY <1>1 DEF Sound, Existing
<1>5. TypeOK'
    BY <1>1, <1>3, <1>4 DEF FenceInv, TypeOK
<1>6. Sound(db')
  <2>1. \A l \in Existing : l \in Links /\ db.link[l].u \in Users
    BY <1>1 DEF Sound, Existing
  <2> QED
    BY <1>3, <2>1, FencedLinks, FencedEvents DEF Sound
<1>7. KnownActive' /\ (snap' # None => Sound(snap'))
    BY <1>1 DEF FenceInv, KnownActive, Sound
<1>8. AfterFence'
  <2>1. \A l \in Links : db'.link[l].st = "revoked" => LinkEvent(db'.out, l)
    BY <1>3, FencedLinks, FencedEvents
  <2>2. \A u \in fenced' : Logout(u) \in db'.out
    BY <1>1, <1>3, FencedEvents
  <2> QED
    BY <1>2, <1>3, <2>1, <2>2 DEF AfterFence
<1>9. SnapshotGrantsDie' /\ RevokedLinksReachApp' /\ OldSessionsEnd'
    BY <1>1 DEF SnapshotGrantsDie, RevokedLinksReachApp, OldSessionsEnd
<1> QED
    BY <1>5, <1>6, <1>7, <1>8, <1>9 DEF FenceInv

\* The service starts with all the promises kept by what is queued.
LEMMA Starting ==
    ASSUME FenceInv, Start
    PROVE  FenceInv'
<1>1. TypeOK' /\ Sound(db') /\ (snap' # None => Sound(snap')) /\ KnownActive' /\ AfterFence'
    BY DEF Start, FenceInv, TypeOK, Sound, KnownActive, AfterFence
<1>2. SnapshotGrantsDie'
    BY DEF Start, FenceInv, AfterFence, SnapshotGrantsDie
<1>3. RevokedLinksReachApp'
    BY DEF Start, FenceInv, AfterFence, LinkEvent, RevokedLinksReachApp
<1>4. OldSessionsEnd'
    BY DEF Start, FenceInv, AfterFence, Logout, OldSessionsEnd
<1> QED
    BY <1>1, <1>2, <1>3, <1>4 DEF FenceInv

-----------------------------------------------------------------------------
(* The theorems.                                                           *)

\* The invariant holds before the first backup.
LEMMA FenceInit ==
    ASSUME Init
    PROVE  FenceInv
<1>1. NoLink \in Link /\ NoLink.st = "absent"
    BY DEF NoLink, Link
<1>2. /\ db.live = {} /\ db.out = {} /\ db.link = [l \in Links |-> NoLink]
      /\ db.version = [u \in Users |-> 1] /\ app.known = [l \in Links |-> NoLink]
      /\ snap = None /\ phase = "up" /\ fenced = {}
    BY DEF Init
<1>3. db \in Database /\ app \in App
    BY <1>1, BoundAssumption DEF Init, Database, App
<1>4. TypeOK
    BY <1>3, BoundAssumption DEF Init, TypeOK
<1>5. Sound(db) /\ KnownActive
    BY <1>1, <1>2 DEF Sound, KnownActive
<1>6. AfterFence /\ SnapshotGrantsDie /\ OldSessionsEnd
    BY <1>2 DEF AfterFence, SnapshotGrantsDie, OldSessionsEnd
<1>7. RevokedLinksReachApp
    BY <1>1, <1>2 DEF RevokedLinksReachApp
<1> QED
    BY <1>2, <1>4, <1>5, <1>6, <1>7 DEF FenceInv

\* Every step keeps the invariant.
LEMMA FenceStep ==
    ASSUME FenceInv, [Next]_vars
    PROVE  FenceInv'
<1>1. CASE Next
    BY <1>1, Granting, Governing, Activating, Revoking, Using, Delivering, Restoring, Fencing,
       Starting DEF Next
<1>2. CASE UNCHANGED vars
  <2>1. TypeOK' /\ Sound(db') /\ (snap' # None => Sound(snap')) /\ KnownActive' /\ AfterFence'
    BY <1>2 DEF vars, FenceInv, TypeOK, Sound, KnownActive, AfterFence
  <2>2. SnapshotGrantsDie' /\ RevokedLinksReachApp' /\ OldSessionsEnd'
    BY <1>2 DEF vars, FenceInv, SnapshotGrantsDie, RevokedLinksReachApp, OldSessionsEnd
  <2> QED
    BY <2>1, <2>2 DEF FenceInv
<1> QED
    BY <1>1, <1>2

\* The inductive invariant holds through backups, restores and fences, for any
\* number of restores, identities, links and credentials.
THEOREM Fenced == Spec => []FenceInv
<1>1. Init => FenceInv
    BY FenceInit
<1>2. FenceInv /\ [Next]_vars => FenceInv'
    BY FenceStep
<1> QED
    BY <1>1, <1>2, PTL DEF Spec

\* After FenceRestoredState and a start, no fenced credential from before the
\* restore is live, whatever the backup held.
THEOREM GrantsDie == Spec => [](TypeOK /\ SnapshotGrantsDie)
<1>1. FenceInv => TypeOK /\ SnapshotGrantsDie
    BY DEF FenceInv
<1> QED
    BY <1>1, Fenced, PTL

\* A link that the restored centre holds revoked has its event queued, or the
\* application does not keep it as active: the versions the fence announces
\* are never below what the application knows.
THEOREM RevocationsReachApp == Spec => []RevokedLinksReachApp
<1>1. FenceInv => RevokedLinksReachApp
    BY DEF FenceInv
<1> QED
    BY <1>1, Fenced, PTL

\* An identity with a link in the backup has its logout queued, or keeps no
\* session of the application from before the restore.
THEOREM SessionsEnd == Spec => []OldSessionsEnd
<1>1. FenceInv => OldSessionsEnd
    BY DEF FenceInv
<1> QED
    BY <1>1, Fenced, PTL

-----------------------------------------------------------------------------
(* Login and linking, the instance Sdk of SdkLogin.  The steps of a login  *)
(* all touch one transaction, which one request holds at a time: Holds     *)
(* says what that request knows, Agrees that the transaction, its link and *)
(* its record fit together, Follows that the results do.  Codes are burned *)
(* and never come back.                                                    *)
(* The bound on crashes is all the proofs need to know of the constants.   *)

CONSTANTS Txs, Auths, Browsers, Accounts, Subjects, Reqs, MaxCrashes
VARIABLES tx, code, link, event, rec, cur, req, results, crashes

Sdk == INSTANCE SdkLogin

\* A linking transaction has its intent, for its account; a login has none.
Intended(t, purpose, acct) ==
    /\ purpose = "login" => link[t].st = "absent"
    /\ purpose # "login" => link[t].st # "absent" /\ link[t].acct = acct

HasResult(t, acct, subj) == \E x \in results : x.t = t /\ x.acct = acct /\ x.subj = subj

\* A code of the transaction was exchanged for the subject.
HasCode(t, subj) ==
    \E a \in Auths : code[a].st = "used" /\ code[a].t = t /\ code[a].subj = subj

\* The states of a link that has a row in account_links.
Rows == {"prepared", "active", "revoked"}

\* What a request in flight knows: a callback holds a transaction that was
\* taken, of its browser, purpose and account; after the exchange it has the
\* subject of a code, and it links what FinishLogin returned; an activation
\* has its record, which only the event of a revocation may have ended.
Holds(q) ==
    /\ q.pc # "idle" => q.t \in Txs
    /\ q.pc = "begun" => /\ q.b \in Browsers /\ tx[q.t].st = "absent"
                         /\ Intended(q.t, q.purpose, q.acct)
    /\ q.pc \notin {"idle", "begun"} => tx[q.t].st = "taken"
    /\ q.pc \in {"taken", "exchanged", "result", "prepared"} =>
         q.b = tx[q.t].b /\ q.purpose = tx[q.t].purpose /\ q.acct = tx[q.t].acct
    /\ q.pc \in {"taken", "exchanged"} => \A x \in results : x.t # q.t
    /\ q.pc \in {"exchanged", "result", "prepared"} =>
         q.subj \in Subjects /\ HasCode(q.t, q.subj)
    /\ q.pc \in {"result", "prepared"} =>
         q.purpose # "login" /\ HasResult(q.t, q.acct, q.subj)
    /\ q.pc \in {"taken", "exchanged", "result", "prepared"} => rec[q.t] = "none"
    /\ q.pc \in {"pending", "activated"} => rec[q.t] \in {"pending", "ended"}
    /\ q.pc \in {"prepared", "pending", "activated"} => link[q.t].st \in Rows
    /\ q.pc = "activated" => link[q.t].st \in {"active", "revoked"}

\* A transaction, its link, its event and its record agree.
Agrees(t) ==
    /\ tx[t].st # "absent" => tx[t].b \in Browsers /\ Intended(t, tx[t].purpose, tx[t].acct)
    /\ rec[t] # "none" => tx[t].st = "taken"
    /\ rec[t] = "pending" => link[t].st \in Rows
    /\ event[t] = "queued" \/ rec[t] = "ended" => link[t].st = "revoked"
    /\ link[t].st \in {"prepared", "active"} => HasResult(t, link[t].acct, link[t].subj)
    /\ link[t].st = "active" => rec[t] \in {"pending", "active"}

\* A result is of the browser of its transaction, and of the subject of a code of it.
Follows(x) == tx[x.t].st = "taken" /\ x.b = tx[x.t].b /\ HasCode(x.t, x.subj)

\* The subject of a code is one of the centre.
Subjected == \A a \in Auths : code[a].st # "none" => code[a].subj \in Subjects

\* A transaction has one result.
OneResult == \A x, y \in results : x.t = y.t => x = y

\* A transaction is held by one request.
OneHolder ==
    \A r, s \in Reqs : req[r].pc # "idle" /\ req[s].pc # "idle" /\ r # s => req[r].t # req[s].t

\* The inductive invariant.
SdkInv ==
    /\ Sdk!TypeOK /\ OneHolder /\ OneResult /\ Subjected
    /\ \A r \in Reqs : Holds(req[r])
    /\ \A t \in Txs : Agrees(t)
    /\ \A x \in results : Follows(x)

\* A step leaves transaction t alone; it leaves what the holder of t relies on.
Alone(t) == tx'[t] = tx[t] /\ link'[t] = link[t] /\ event'[t] = event[t] /\ rec'[t] = rec[t]
Relied(t) ==
    /\ tx'[t] = tx[t] /\ (rec'[t] = rec[t] \/ (rec[t] = "pending" /\ rec'[t] = "ended"))
    /\ link'[t].acct = link[t].acct
    /\ link'[t].st = "absent" <=> link[t].st = "absent"
    /\ link[t].st \in Rows => link'[t].st \in Rows
    /\ link[t].st \in {"active", "revoked"} => link'[t].st \in {"active", "revoked"}

\* A step leaves the codes that were exchanged; it leaves all of them.
Burned == \A a \in Auths : code[a].st = "used" => code'[a] = code[a]

\* A step returns no result, or the first one of transaction t.
Adds(t) ==
    /\ results \subseteq results'
    /\ \A x \in results' \ results : x.t = t /\ \A y \in results' : y.t = t => y = x

-----------------------------------------------------------------------------
(* One transaction at a time.                                              *)

\* Who holds a transaction keeps what he knows when it is left alone.
LEMMA HoldsKept ==
    ASSUME NEW q, Holds(q), q.pc # "idle" => Relied(q.t), results \subseteq results',
           \A x \in results' \ results : x.t # q.t \/ q.pc = "idle", Burned
    PROVE  Holds(q)'
  BY DEF Holds, Relied, Intended, HasResult, HasCode, Burned, Rows

\* A transaction that is left alone agrees with its link and its record as before,
LEMMA AgreesKept ==
    ASSUME NEW t \in Txs, Agrees(t), Alone(t), results \subseteq results'
    PROVE  Agrees(t)'
  BY DEF Agrees, Alone, Intended, HasResult

\* and so do the results of it.
LEMMA FollowsKept ==
    ASSUME NEW x, Follows(x), Alone(x.t), Burned
    PROVE  Follows(x)'
  BY DEF Follows, Alone, HasCode, Burned

\* Most steps leave the codes.
LEMMA CodesKept ==
    ASSUME SdkInv, code' = code
    PROVE  Burned /\ Subjected'
  BY DEF SdkInv, Burned, Subjected

\* A step of request r that touches the transaction z, which no other request holds.
LEMMA RequestKeeps ==
    ASSUME SdkInv, Sdk!TypeOK', NEW r \in Reqs, NEW z \in Txs,
           \A s \in Reqs \ {r} : req'[s] = req[s] /\ (req[s].pc # "idle" => req[s].t # z),
           \A t \in Txs \ {z} : Alone(t), Burned, Subjected',
           Adds(z),
           Holds(req[r])', req'[r].pc # "idle" => req'[r].t = z,
           Agrees(z)',
           \A x \in results' : (x \in results /\ x.t # z) \/ Follows(x)'
    PROVE  SdkInv'
  <1>1. ASSUME NEW s \in Reqs PROVE Holds(req[s])'
    <2>1. CASE s = r
      BY <2>1
    <2>2. CASE s # r
      <3>1. PICK q : q = req[s]
        OBVIOUS
      <3>2. req'[s] = q /\ (q.pc # "idle" => q.t # z /\ q.t \in Txs) /\ Holds(q)
        BY <2>2, <3>1 DEF SdkInv, Holds
      <3>3. q.pc # "idle" => Relied(q.t)
        BY <3>2 DEF Alone, Relied, Rows
      <3>4. Holds(q)'
        BY <3>2, <3>3, HoldsKept DEF Adds
      <3> QED
        BY <3>2, <3>4 DEF Holds, Intended, HasResult, HasCode, Rows
    <2> QED
      BY <2>1, <2>2
  <1>2. ASSUME NEW t \in Txs PROVE Agrees(t)'
    BY AgreesKept DEF SdkInv, Adds
  <1>3. ASSUME NEW x \in results' PROVE Follows(x)'
    <2>1. CASE x \in results /\ x.t # z
      <3>1. x.t \in Txs
        BY <2>1 DEF SdkInv, Sdk!TypeOK, Sdk!Result
      <3> QED
        BY <2>1, <3>1, FollowsKept DEF SdkInv
    <2> QED
      BY <2>1
  <1>4. OneHolder'
    BY DEF SdkInv, OneHolder
  <1>5. OneResult'
    BY DEF SdkInv, OneResult, Adds
  <1> QED
    BY <1>1, <1>2, <1>3, <1>4, <1>5 DEF SdkInv

\* A step of the centre, of the store or of time on the transaction z.
LEMMA CentreKeeps ==
    ASSUME SdkInv, Sdk!TypeOK', req' = req, results' = results, NEW z \in Txs,
           \A t \in Txs \ {z} : Alone(t), Burned, Subjected',
           \A s \in Reqs : req[s].pc # "idle" /\ req[s].t = z => Relied(z),
           Agrees(z)',
           \A x \in results : x.t = z => Follows(x)'
    PROVE  SdkInv'
  <1>1. ASSUME NEW s \in Reqs PROVE Holds(req[s])'
    <2>1. PICK q : q = req[s]
      OBVIOUS
    <2>2. req'[s] = q /\ (q.pc # "idle" => q.t \in Txs) /\ Holds(q)
      BY <2>1 DEF SdkInv, Holds
    <2>3. q.pc # "idle" => Relied(q.t)
      BY <2>1, <2>2 DEF Alone, Relied, Rows
    <2>4. Holds(q)'
      BY <2>2, <2>3, HoldsKept
    <2> QED
      BY <2>2, <2>4 DEF Holds, Intended, HasResult, HasCode, Rows
  <1>2. ASSUME NEW t \in Txs PROVE Agrees(t)'
    BY AgreesKept DEF SdkInv
  <1>3. ASSUME NEW x \in results' PROVE Follows(x)'
    <2>1. x.t \in Txs
      BY DEF SdkInv, Sdk!TypeOK, Sdk!Result
    <2> QED
      BY <2>1, FollowsKept DEF SdkInv
  <1>4. OneHolder'
    BY DEF SdkInv, OneHolder
  <1>5. OneResult'
    BY DEF SdkInv, OneResult
  <1> QED
    BY <1>1, <1>2, <1>3, <1>4, <1>5 DEF SdkInv

-----------------------------------------------------------------------------
(* Rows.                                                                   *)

\* The states of a request and of a link.
Pcs == {"idle", "begun", "taken", "exchanged", "result", "prepared", "pending", "activated"}
LinkStates == {"absent", "pending", "confirmed", "prepared", "active", "revoked"}

\* A request that moves on keeps the rest of its row.
LEMMA MovesRow ==
    ASSUME Sdk!TypeOK, NEW r \in Reqs, NEW pc \in Pcs, Sdk!Moves(r, pc)
    PROVE  /\ req' \in [Reqs -> Sdk!Req] /\ req'[r].pc = pc
           /\ req'[r].t = req[r].t /\ req'[r].b = req[r].b /\ req'[r].purpose = req[r].purpose
           /\ req'[r].acct = req[r].acct /\ req'[r].subj = req[r].subj
           /\ \A s \in Reqs \ {r} : req'[s] = req[s]
  <1>1. req \in [Reqs -> Sdk!Req] /\ req[r] \in Sdk!Req
    BY DEF Sdk!TypeOK
  <1> QED
    BY <1>1 DEF Sdk!Moves, Sdk!Req, Pcs

\* A request that ends, or begins, replaces its row.
LEMMA NewRow ==
    ASSUME Sdk!TypeOK, NEW r \in Reqs, NEW row \in Sdk!Req, req' = [req EXCEPT ![r] = row]
    PROVE  /\ req' \in [Reqs -> Sdk!Req] /\ req'[r] = row
           /\ \A s \in Reqs \ {r} : req'[s] = req[s]
  BY DEF Sdk!TypeOK

\* The row of a request that has ended.
LEMMA IdleRow == Sdk!Idle \in Sdk!Req /\ Sdk!Idle.pc = "idle"
  BY DEF Sdk!Idle, Sdk!Req, Sdk!Purposes

\* A link that changes state keeps its account and its subject.
LEMMA LinkRow ==
    ASSUME Sdk!TypeOK, NEW t \in Txs, NEW st \in LinkStates,
           link' = [link EXCEPT ![t].st = st]
    PROVE  /\ link' \in [Txs -> Sdk!Link] /\ link'[t].st = st
           /\ link'[t].acct = link[t].acct /\ link'[t].subj = link[t].subj
           /\ \A z \in Txs \ {t} : link'[z] = link[z]
  <1>1. link \in [Txs -> Sdk!Link] /\ link[t] \in Sdk!Link
    BY DEF Sdk!TypeOK
  <1> QED
    BY <1>1 DEF Sdk!Link, LinkStates

\* The transaction of a request is held by no other.
LEMMA HeldAlone ==
    ASSUME SdkInv, NEW r \in Reqs, req[r].pc # "idle"
    PROVE  /\ req[r].t \in Txs /\ Agrees(req[r].t) /\ Holds(req[r])
           /\ \A s \in Reqs \ {r} : req[s].pc # "idle" => req[s].t # req[r].t
           /\ \A x \in results : Follows(x)
  BY DEF SdkInv, OneHolder, OneResult, Holds

\* A request ends and leaves its transaction as it is.
LEMMA EndKeeps ==
    ASSUME SdkInv, Sdk!TypeOK', NEW r \in Reqs, req[r].pc # "idle",
           req' = [req EXCEPT ![r] = Sdk!Idle], UNCHANGED <<tx, code, link, event, rec, results>>
    PROVE  SdkInv'
  <1>1. PICK z \in Txs : z = req[r].t
    BY HeldAlone
  <1>2. req'[r].pc = "idle" /\ \A s \in Reqs \ {r} : req'[s] = req[s]
    BY IdleRow, NewRow DEF SdkInv
  <1>3. Holds(req[r])'
    BY <1>2 DEF Holds
  <1>4. \A t \in Txs : Alone(t)
    BY DEF Alone
  <1>5. Agrees(z)' /\ \A x \in results' : Follows(x)'
    BY <1>4, AgreesKept DEF SdkInv, Follows, HasCode
  <1>6. \A s \in Reqs \ {r} : req[s].pc # "idle" => req[s].t # z
    BY <1>1, HeldAlone
  <1> QED
    BY <1>2, <1>3, <1>4, <1>5, <1>6, RequestKeeps, CodesKept DEF Adds

-----------------------------------------------------------------------------
(* The first redirect.                                                     *)

\* begin posts the intent of a transaction nobody holds yet.
LEMMA beginKeeps ==
    ASSUME SdkInv, NEW r \in Reqs, NEW t \in Txs, NEW b \in Browsers,
           NEW purpose \in Sdk!Purposes, NEW acct \in Accounts \cup {None},
           Sdk!begin(r, t, b, purpose, acct)
    PROVE  SdkInv'
  <1> DEFINE row == [pc |-> "begun", t |-> t, b |-> b, purpose |-> purpose,
                     acct |-> acct, subj |-> None]
  <1>1. row \in Sdk!Req /\ row.pc = "begun" /\ row.t = t /\ row.b = b
        /\ row.purpose = purpose /\ row.acct = acct
    BY DEF Sdk!Req
  <1>2. /\ tx[t].st = "absent" /\ link[t].st = "absent" /\ \A s \in Reqs : req[s].t # t
        /\ req' = [req EXCEPT ![r] = row] /\ UNCHANGED <<tx, code, event, rec, cur, results, crashes>>
    BY DEF Sdk!begin
  <1> HIDE DEF row
  <1>3. /\ req' \in [Reqs -> Sdk!Req] /\ req'[r] = row
        /\ \A s \in Reqs \ {r} : req'[s] = req[s]
    BY <1>1, <1>2, NewRow DEF SdkInv
  <1>4. /\ link' \in [Txs -> Sdk!Link] /\ link'[t].st \in {"absent", "pending"}
        /\ Intended(t, purpose, acct)'
        /\ \A z \in Txs \ {t} : link'[z] = link[z]
    <2>1. link \in [Txs -> Sdk!Link] /\ link[t] \in Sdk!Link
      BY DEF SdkInv, Sdk!TypeOK
    <2>2. CASE purpose = "login" /\ link' = link
      BY <1>2, <2>1, <2>2 DEF Intended
    <2>3. CASE purpose # "login" /\ link' = [link EXCEPT ![t].st = "pending", ![t].acct = acct]
      BY <2>1, <2>3 DEF Intended, Sdk!Link
    <2> QED
      BY <2>2, <2>3 DEF Sdk!begin, Sdk!Purposes
  <1>5. Sdk!TypeOK'
    BY <1>2, <1>3, <1>4 DEF SdkInv, Sdk!TypeOK
  <1>6. \A z \in Txs \ {t} : Alone(z)
    BY <1>2, <1>4 DEF Alone
  <1>7. Holds(req[r])'
    BY <1>1, <1>2, <1>3, <1>4 DEF Holds, Intended
  <1>8. Agrees(t)'
    BY <1>2, <1>4 DEF SdkInv, Agrees
  <1>9. \A x \in results' : Follows(x)'
    BY <1>2 DEF SdkInv, Follows, HasCode
  <1> QED
    BY <1>1, <1>2, <1>3, <1>5, <1>6, <1>7, <1>8, <1>9, RequestKeeps, CodesKept DEF Adds

\* Put stores the transaction with the browser and the account of the intent.
LEMMA PutKeeps ==
    ASSUME SdkInv, NEW r \in Reqs, Sdk!Put(r)
    PROVE  SdkInv'
  <1>1. PICK z \in Txs : z = req[r].t
    BY HeldAlone DEF Sdk!Put
  <1> DEFINE b == req[r].b
             purpose == req[r].purpose
             acct == req[r].acct
             row == [st |-> "stored", b |-> b, expired |-> FALSE, purpose |-> purpose, acct |-> acct]
  <1>2. /\ b \in Browsers /\ purpose \in Sdk!Purposes /\ acct \in Accounts \cup {None}
        /\ tx[z].st = "absent" /\ Intended(z, purpose, acct) /\ Agrees(z)
        /\ \A s \in Reqs \ {r} : req[s].pc # "idle" => req[s].t # z
    <2>1. req[r] \in Sdk!Req
      BY DEF SdkInv, Sdk!TypeOK
    <2>2. purpose \in Sdk!Purposes /\ acct \in Accounts \cup {None}
      BY <2>1 DEF Sdk!Req
    <2> QED
      BY <1>1, <2>2, HeldAlone DEF Sdk!Put, Holds
  <1>3. /\ tx' = [tx EXCEPT ![z] = row] /\ req' = [req EXCEPT ![r] = Sdk!Idle]
        /\ UNCHANGED <<code, link, event, rec, cur, results, crashes>>
    BY <1>1 DEF Sdk!Put
  <1> HIDE DEF b, purpose, acct
  <1>4. row \in Sdk!Tx /\ row.st = "stored" /\ row.b = b /\ row.purpose = purpose /\ row.acct = acct
    BY <1>2 DEF Sdk!Tx
  <1> HIDE DEF row
  <1>5. tx' \in [Txs -> Sdk!Tx] /\ tx'[z] = row /\ \A t \in Txs \ {z} : tx'[t] = tx[t]
    BY <1>3, <1>4 DEF SdkInv, Sdk!TypeOK
  <1>6. /\ req' \in [Reqs -> Sdk!Req] /\ req'[r] = Sdk!Idle
        /\ \A s \in Reqs \ {r} : req'[s] = req[s]
    BY <1>3, IdleRow, NewRow DEF SdkInv
  <1>7. Sdk!TypeOK'
    BY <1>3, <1>5, <1>6 DEF SdkInv, Sdk!TypeOK
  <1>8. \A t \in Txs \ {z} : Alone(t)
    BY <1>3, <1>5 DEF Alone
  <1>9. Holds(req[r])' /\ req'[r].pc = "idle"
    BY <1>6, IdleRow DEF Holds
  <1>10. Agrees(z)'
    BY <1>2, <1>3, <1>4, <1>5 DEF Agrees, Intended, HasResult, Rows
  <1>11. \A x \in results' : x \in results /\ x.t # z
    BY <1>2, <1>3 DEF SdkInv, Follows, HasCode
  <1> QED
    BY <1>2, <1>3, <1>6, <1>7, <1>8, <1>9, <1>10, <1>11, RequestKeeps, CodesKept DEF Adds

\* The centre confirms an intent that is pending, and grants a code of its own.
LEMMA CompleteKeeps ==
    ASSUME SdkInv, NEW a \in Auths, NEW t \in Txs, NEW u \in Subjects,
           Sdk!CompleteAuthorization(a, t, u)
    PROVE  SdkInv'
  <1> DEFINE row == [st |-> "granted", t |-> t, subj |-> u]
  <1>1. /\ code[a].st = "none" /\ Agrees(t)
        /\ code \in [Auths -> Sdk!Code] /\ link \in [Txs -> Sdk!Link] /\ link[t] \in Sdk!Link
        /\ code' = [code EXCEPT ![a] = row]
        /\ UNCHANGED <<tx, event, rec, cur, req, results, crashes>>
    BY DEF SdkInv, Sdk!TypeOK, Sdk!CompleteAuthorization
  <1>2. row \in Sdk!Code /\ row.st = "granted" /\ row.subj = u
    BY DEF Sdk!Code
  <1> HIDE DEF row
  <1>3. /\ code' \in [Auths -> Sdk!Code] /\ code'[a] = row
        /\ \A c \in Auths \ {a} : code'[c] = code[c]
    BY <1>1, <1>2
  <1>4. /\ link' \in [Txs -> Sdk!Link] /\ link'[t].acct = link[t].acct
        /\ \/ link[t].st = "pending" /\ link'[t].st = "confirmed"
           \/ link'[t] = link[t]
        /\ \A z \in Txs \ {t} : link'[z] = link[z]
    <2>1. CASE link[t].st = "pending"
      BY <1>1, <2>1 DEF Sdk!Link, Sdk!CompleteAuthorization
    <2>2. CASE link[t].st # "pending"
      BY <1>1, <2>2 DEF Sdk!CompleteAuthorization
    <2> QED
      BY <2>1, <2>2
  <1>5. Sdk!TypeOK'
    BY <1>1, <1>3, <1>4 DEF SdkInv, Sdk!TypeOK
  <1>6. \A z \in Txs \ {t} : Alone(z)
    BY <1>1, <1>4 DEF Alone
  <1>7. Relied(t)
    BY <1>1, <1>4 DEF Relied, Rows
  <1>8. Agrees(t)'
    BY <1>1, <1>4 DEF Agrees, Intended, HasResult, Rows
  <1>9. Burned /\ Subjected'
    BY <1>1, <1>2, <1>3 DEF SdkInv, Burned, Subjected
  <1>10. \A x \in results : Follows(x)'
    BY <1>1, <1>9 DEF SdkInv, Follows, HasCode, Burned
  <1> QED
    BY <1>1, <1>5, <1>6, <1>7, <1>8, <1>9, <1>10, CentreKeeps

-----------------------------------------------------------------------------
(* The callback.                                                           *)

\* FinishLogin takes a transaction that no request holds and that has no result; the
\* comparison with the account signed in makes the callback's account the intent's.
LEMMA FinishKeeps ==
    ASSUME SdkInv, NEW r \in Reqs, NEW t \in Txs, NEW b \in Browsers, Sdk!FinishLogin(r, t, b)
    PROVE  SdkInv'
  <1>1. /\ req[r].pc = "idle" /\ tx[t].st = "stored" /\ Agrees(t)
        /\ tx \in [Txs -> Sdk!Tx] /\ tx[t] \in Sdk!Tx /\ tx' = [tx EXCEPT ![t].st = "taken"]
        /\ UNCHANGED <<code, link, event, rec, cur, results, crashes>>
    BY DEF SdkInv, Sdk!TypeOK, Sdk!FinishLogin, Sdk!Take
  <1>2. /\ tx' \in [Txs -> Sdk!Tx] /\ tx'[t].st = "taken" /\ tx'[t].b = tx[t].b
        /\ tx'[t].purpose = tx[t].purpose /\ tx'[t].acct = tx[t].acct
        /\ \A z \in Txs \ {t} : tx'[z] = tx[z]
    BY <1>1 DEF Sdk!Tx
  <1>3. \A s \in Reqs : req[s].pc # "idle" => req[s].t # t
    BY <1>1 DEF SdkInv, Holds
  <1>4. \A x \in results' : x \in results /\ x.t # t
    BY <1>1 DEF SdkInv, Follows, HasCode
  <1>5. /\ req' \in [Reqs -> Sdk!Req] /\ Holds(req[r])' /\ (req'[r].pc # "idle" => req'[r].t = t)
        /\ \A s \in Reqs \ {r} : req'[s] = req[s]
    <2>1. CASE ~tx[t].expired /\ tx[t].b = b /\ Sdk!SameLocal(t, b)
      <3> DEFINE purpose == tx[t].purpose
                 acct == IF purpose = "link" THEN cur[b] ELSE tx[t].acct
                 row == [pc |-> "taken", t |-> t, b |-> b, purpose |-> purpose, subj |-> None,
                         acct |-> acct]
      <3>1. acct = tx[t].acct
        BY <2>1 DEF Sdk!SameLocal
      <3>2. purpose \in Sdk!Purposes /\ acct \in Accounts \cup {None}
        BY <1>1, <3>1 DEF Sdk!Tx
      <3>3. req' = [req EXCEPT ![r] = row]
        BY <2>1 DEF Sdk!FinishLogin
      <3> HIDE DEF purpose, acct
      <3>4. row \in Sdk!Req /\ row.pc = "taken" /\ row.t = t /\ row.b = b
            /\ row.purpose = purpose /\ row.acct = acct
        BY <3>2 DEF Sdk!Req
      <3> HIDE DEF row
      <3>5. /\ req' \in [Reqs -> Sdk!Req] /\ req'[r] = row
            /\ \A s \in Reqs \ {r} : req'[s] = req[s]
        BY <3>3, <3>4, NewRow DEF SdkInv
      <3>6. purpose = tx'[t].purpose /\ acct = tx'[t].acct /\ b = tx'[t].b
        BY <1>2, <2>1, <3>1 DEF purpose
      <3>7. Holds(req[r])'
        BY <1>1, <1>2, <1>4, <3>4, <3>5, <3>6 DEF Holds, Agrees
      <3> QED
        BY <3>4, <3>5, <3>7
    <2>2. CASE ~(~tx[t].expired /\ tx[t].b = b /\ Sdk!SameLocal(t, b))
      <3>1. req' = req
        BY <2>2 DEF Sdk!FinishLogin
      <3> QED
        BY <1>1, <3>1 DEF SdkInv, Sdk!TypeOK, Holds
    <2> QED
      BY <2>1, <2>2
  <1>6. Sdk!TypeOK'
    BY <1>1, <1>2, <1>5 DEF SdkInv, Sdk!TypeOK
  <1>7. \A z \in Txs \ {t} : Alone(z)
    BY <1>1, <1>2 DEF Alone
  <1>8. Agrees(t)'
    BY <1>1, <1>2 DEF Agrees, Intended, HasResult, Rows
  <1> QED
    BY <1>1, <1>3, <1>4, <1>5, <1>6, <1>7, <1>8, RequestKeeps, CodesKept DEF Adds

\* The exchange burns a code; it gives the request the subject of a code that is of
\* its transaction, and ends it otherwise.
LEMMA ExchangeKeeps ==
    ASSUME SdkInv, NEW r \in Reqs, NEW a \in Auths, Sdk!Exchange(r, a)
    PROVE  SdkInv'
  <1>1. PICK z \in Txs : z = req[r].t
    BY HeldAlone DEF Sdk!Exchange
  <1>2. /\ req[r].pc = "taken" /\ code[a].st = "granted" /\ Agrees(z) /\ Holds(req[r])
        /\ req \in [Reqs -> Sdk!Req] /\ req[r] \in Sdk!Req
        /\ code \in [Auths -> Sdk!Code] /\ code[a] \in Sdk!Code /\ code[a].subj \in Subjects
        /\ \A s \in Reqs \ {r} : req[s].pc # "idle" => req[s].t # z
    BY <1>1, HeldAlone DEF SdkInv, Sdk!TypeOK, Sdk!Exchange, Subjected
  <1>3. /\ code' = [code EXCEPT ![a].st = "used"]
        /\ UNCHANGED <<tx, link, event, rec, cur, results, crashes>>
    BY DEF Sdk!Exchange
  <1>4. /\ code' \in [Auths -> Sdk!Code] /\ code'[a].st = "used"
        /\ code'[a].t = code[a].t /\ code'[a].subj = code[a].subj
        /\ \A c \in Auths \ {a} : code'[c] = code[c]
    BY <1>2, <1>3 DEF Sdk!Code
  <1>5. Burned /\ Subjected'
    BY <1>2, <1>4 DEF SdkInv, Burned, Subjected
  <1>6. \A t \in Txs : Alone(t)
    BY <1>3 DEF Alone
  <1>7. Agrees(z)' /\ \A x \in results' : Follows(x)'
    BY <1>2, <1>3, <1>5, <1>6, AgreesKept DEF SdkInv, Follows, HasCode, Burned
  <1>8. /\ req' \in [Reqs -> Sdk!Req] /\ \A s \in Reqs \ {r} : req'[s] = req[s]
        /\ \/ req'[r].pc = "idle"
           \/ /\ code[a].t = z /\ req'[r].pc = "exchanged" /\ req'[r].subj = code[a].subj
              /\ req'[r].t = z /\ req'[r].b = req[r].b
              /\ req'[r].purpose = req[r].purpose /\ req'[r].acct = req[r].acct
    <2>1. CASE code[a].t = req[r].t
      <3>1. req' = [req EXCEPT ![r].pc = "exchanged", ![r].subj = code[a].subj]
        BY <2>1 DEF Sdk!Exchange
      <3> QED
        BY <1>1, <1>2, <2>1, <3>1 DEF Sdk!Req
    <2>2. CASE code[a].t # req[r].t
      <3>1. req' = [req EXCEPT ![r] = Sdk!Idle]
        BY <2>2 DEF Sdk!Exchange
      <3> QED
        BY <3>1, IdleRow, NewRow DEF SdkInv
    <2> QED
      BY <2>1, <2>2
  <1>9. Sdk!TypeOK'
    BY <1>3, <1>4, <1>8 DEF SdkInv, Sdk!TypeOK
  <1>10. Holds(req[r])'
    <2>1. CASE req'[r].pc = "idle"
      BY <2>1 DEF Holds
    <2>2. CASE req'[r].pc # "idle"
      <3>1. HasCode(req[r].t, req[r].subj)'
        BY <1>4, <1>8, <2>2 DEF HasCode
      <3> QED
        BY <1>1, <1>2, <1>3, <1>8, <2>2, <3>1 DEF Holds
    <2> QED
      BY <2>1, <2>2
  <1> QED
    BY <1>2, <1>3, <1>5, <1>6, <1>7, <1>8, <1>9, <1>10, RequestKeeps DEF Adds

\* FinishLogin returns the first and only result of its transaction.
LEMMA ReturnKeeps ==
    ASSUME SdkInv, NEW r \in Reqs, Sdk!ReturnResult(r)
    PROVE  SdkInv'
  <1>1. PICK z \in Txs : z = req[r].t
    BY HeldAlone DEF Sdk!ReturnResult
  <1> DEFINE x0 == [t |-> req[r].t, r |-> r, b |-> req[r].b, subj |-> req[r].subj,
                    acct |-> req[r].acct]
  <1>2. /\ req[r].pc = "exchanged" /\ Agrees(z) /\ Holds(req[r])
        /\ req \in [Reqs -> Sdk!Req] /\ req[r] \in Sdk!Req
        /\ \A s \in Reqs \ {r} : req[s].pc # "idle" => req[s].t # z
    BY <1>1, HeldAlone DEF SdkInv, Sdk!TypeOK, Sdk!ReturnResult
  <1>3. /\ tx[z].st = "taken" /\ req[r].b = tx[z].b /\ req[r].b \in Browsers
        /\ req[r].purpose = tx[z].purpose /\ req[r].acct = tx[z].acct
        /\ HasCode(z, req[r].subj) /\ req[r].subj \in Subjects /\ rec[z] = "none"
        /\ req[r].acct \in Accounts \cup {None}
    <2>1. req[r].acct \in Accounts \cup {None}
      BY <1>2 DEF Sdk!Req
    <2> QED
      BY <1>1, <1>2, <2>1 DEF Holds, Agrees
  <1>4. x0 \in Sdk!Result /\ x0.t = z /\ x0.b = req[r].b /\ x0.subj = req[r].subj /\ x0.acct = req[r].acct
    BY <1>1, <1>3 DEF Sdk!Result
  <1>5. results' = results \cup {x0} /\ UNCHANGED <<tx, code, link, event, rec, cur, crashes>>
    BY DEF Sdk!ReturnResult
  <1>6. req' = [req EXCEPT ![r] = IF req[r].purpose = "login" THEN Sdk!Idle
                                  ELSE [req[r] EXCEPT !.pc = "result"]]
    BY DEF Sdk!ReturnResult
  <1> HIDE DEF x0
  <1>7. /\ req' \in [Reqs -> Sdk!Req] /\ \A s \in Reqs \ {r} : req'[s] = req[s]
        /\ \/ req'[r].pc = "idle"
           \/ /\ req'[r].pc = "result" /\ req'[r].t = z /\ req'[r].b = req[r].b
              /\ req'[r].purpose = req[r].purpose /\ req'[r].purpose # "login"
              /\ req'[r].acct = req[r].acct /\ req'[r].subj = req[r].subj
    <2>1. CASE req[r].purpose = "login"
      BY <1>6, <2>1, IdleRow, NewRow DEF SdkInv
    <2>2. CASE req[r].purpose # "login"
      BY <1>1, <1>2, <1>6, <2>2 DEF Sdk!Req
    <2> QED
      BY <2>1, <2>2
  <1>8. Sdk!TypeOK'
    BY <1>4, <1>5, <1>7 DEF SdkInv, Sdk!TypeOK
  <1>9. \A t \in Txs : Alone(t)
    BY <1>5 DEF Alone
  <1>10. Holds(req[r])'
    <2>1. CASE req'[r].pc = "idle"
      BY <2>1 DEF Holds
    <2>2. CASE req'[r].pc = "result"
      <3>1. HasResult(req[r].t, req[r].acct, req[r].subj)'
        BY <1>4, <1>5, <1>7, <2>2 DEF HasResult
      <3>2. HasCode(req[r].t, req[r].subj)'
        BY <1>3, <1>5, <1>7, <2>2 DEF HasCode
      <3> QED
        BY <1>3, <1>5, <1>7, <2>2, <3>1, <3>2 DEF Holds
    <2> QED
      BY <1>7, <2>1, <2>2
  <1>11. Agrees(z)'
    BY <1>2, <1>5, <1>9, AgreesKept
  <1>12. Adds(z)
    <2>1. \A x \in results : x.t # z
      BY <1>1, <1>2 DEF Holds
    <2> QED
      BY <1>4, <1>5, <2>1 DEF Adds
  <1>13. ASSUME NEW x \in results' PROVE Follows(x)'
    <2>1. CASE x \in results
      BY <1>5, <2>1 DEF SdkInv, Follows, HasCode
    <2>2. CASE x = x0
      BY <1>3, <1>4, <1>5, <2>2 DEF Follows, HasCode
    <2> QED
      BY <1>5, <2>1, <2>2
  <1> QED
    BY <1>2, <1>7, <1>8, <1>9, <1>10, <1>11, <1>12, <1>13, <1>5, RequestKeeps, CodesKept

-----------------------------------------------------------------------------
(* Linking.                                                                *)

\* PrepareLink reserves the link for the account and the subject of the result.
LEMMA PrepareKeeps ==
    ASSUME SdkInv, NEW r \in Reqs, Sdk!PrepareLink(r)
    PROVE  SdkInv'
  <1>1. PICK z \in Txs : z = req[r].t
    BY HeldAlone DEF Sdk!PrepareLink
  <1>2. /\ req[r].pc = "result" /\ link[z].st = "confirmed" /\ link[z].subj = req[r].subj
        /\ link' = [link EXCEPT ![z].st = "prepared"] /\ Sdk!Moves(r, "prepared")
        /\ UNCHANGED <<tx, code, event, rec, cur, results, crashes>>
    BY <1>1 DEF Sdk!PrepareLink
  <1>3. /\ Agrees(z) /\ Holds(req[r])
        /\ \A s \in Reqs \ {r} : req[s].pc # "idle" => req[s].t # z
    BY <1>1, <1>2, HeldAlone
  <1>4. /\ link' \in [Txs -> Sdk!Link] /\ link'[z].st = "prepared"
        /\ link'[z].acct = link[z].acct /\ link'[z].subj = link[z].subj
        /\ \A t \in Txs \ {z} : link'[t] = link[t]
    BY <1>2, LinkRow DEF SdkInv, LinkStates
  <1>5. /\ req' \in [Reqs -> Sdk!Req] /\ req'[r].pc = "prepared"
        /\ req'[r].t = z /\ req'[r].b = req[r].b /\ req'[r].purpose = req[r].purpose
        /\ req'[r].acct = req[r].acct /\ req'[r].subj = req[r].subj
        /\ \A s \in Reqs \ {r} : req'[s] = req[s]
    BY <1>1, <1>2, MovesRow DEF SdkInv, Pcs
  <1>6. Sdk!TypeOK'
    BY <1>2, <1>4, <1>5 DEF SdkInv, Sdk!TypeOK
  <1>7. \A t \in Txs \ {z} : Alone(t)
    BY <1>2, <1>4 DEF Alone
  <1>8. Holds(req[r])'
    BY <1>1, <1>2, <1>3, <1>4, <1>5 DEF Holds, HasResult, HasCode, Rows
  <1>9. Agrees(z)'
    <2>1. link[z].acct = req[r].acct /\ HasResult(z, req[r].acct, req[r].subj)
      BY <1>1, <1>2, <1>3 DEF Holds, Agrees, Intended
    <2>2. HasResult(z, link[z].acct, link[z].subj)'
      BY <1>2, <1>4, <2>1 DEF HasResult
    <2> QED
      BY <1>1, <1>2, <1>3, <1>4, <2>2 DEF Agrees, Holds, Intended, Rows
  <1>10. \A x \in results' : Follows(x)'
    BY <1>2 DEF SdkInv, Follows, HasCode
  <1> QED
    BY <1>2, <1>3, <1>5, <1>6, <1>7, <1>8, <1>9, <1>10, RequestKeeps, CodesKept DEF Adds

\* The pending record is written before the link can be active.
LEMMA CommitPendingKeeps ==
    ASSUME SdkInv, NEW r \in Reqs, Sdk!CommitPending(r)
    PROVE  SdkInv'
  <1>1. PICK z \in Txs : z = req[r].t
    BY HeldAlone DEF Sdk!CommitPending
  <1>2. /\ req[r].pc = "prepared" /\ rec' = [rec EXCEPT ![z] = "pending"] /\ Sdk!Moves(r, "pending")
        /\ UNCHANGED <<tx, code, link, event, cur, results, crashes>>
    BY <1>1 DEF Sdk!CommitPending
  <1>3. /\ Agrees(z) /\ Holds(req[r])
        /\ \A s \in Reqs \ {r} : req[s].pc # "idle" => req[s].t # z
    BY <1>1, <1>2, HeldAlone
  <1>4. /\ req' \in [Reqs -> Sdk!Req] /\ req'[r].pc = "pending" /\ req'[r].t = z
        /\ \A s \in Reqs \ {r} : req'[s] = req[s]
    BY <1>1, <1>2, MovesRow DEF SdkInv, Pcs
  <1>5. Sdk!TypeOK' /\ rec'[z] = "pending" /\ \A t \in Txs \ {z} : rec'[t] = rec[t]
    BY <1>2, <1>4 DEF SdkInv, Sdk!TypeOK
  <1>6. \A t \in Txs \ {z} : Alone(t)
    BY <1>2, <1>5 DEF Alone
  <1>7. Holds(req[r])' /\ Agrees(z)'
    BY <1>1, <1>2, <1>3, <1>4, <1>5 DEF Holds, Agrees, Intended, HasResult, HasCode, Rows
  <1>8. \A x \in results' : Follows(x)'
    BY <1>2 DEF SdkInv, Follows, HasCode
  <1> QED
    BY <1>2, <1>3, <1>4, <1>5, <1>6, <1>7, <1>8, RequestKeeps, CodesKept DEF Adds

\* ActivateLink activates a link that has its record.
LEMMA ActivateKeeps ==
    ASSUME SdkInv, NEW r \in Reqs, Sdk!ActivateLink(r)
    PROVE  SdkInv'
  <1>1. PICK z \in Txs : z = req[r].t
    BY HeldAlone DEF Sdk!ActivateLink
  <1>2. /\ req[r].pc = "pending" /\ link[z].st \in {"prepared", "active"}
        /\ link' = [link EXCEPT ![z].st = "active"] /\ Sdk!Moves(r, "activated")
        /\ UNCHANGED <<tx, code, event, rec, cur, results, crashes>>
    BY <1>1 DEF Sdk!ActivateLink
  <1>3. /\ Agrees(z) /\ Holds(req[r])
        /\ \A s \in Reqs \ {r} : req[s].pc # "idle" => req[s].t # z
    BY <1>1, <1>2, HeldAlone
  <1>4. /\ link' \in [Txs -> Sdk!Link] /\ link'[z].st = "active"
        /\ link'[z].acct = link[z].acct /\ link'[z].subj = link[z].subj
        /\ \A t \in Txs \ {z} : link'[t] = link[t]
    BY <1>2, LinkRow DEF SdkInv, LinkStates
  <1>5. /\ req' \in [Reqs -> Sdk!Req] /\ req'[r].pc = "activated" /\ req'[r].t = z
        /\ \A s \in Reqs \ {r} : req'[s] = req[s]
    BY <1>1, <1>2, MovesRow DEF SdkInv, Pcs
  <1>6. Sdk!TypeOK'
    BY <1>2, <1>4, <1>5 DEF SdkInv, Sdk!TypeOK
  <1>7. \A t \in Txs \ {z} : Alone(t)
    BY <1>2, <1>4 DEF Alone
  <1>8. Holds(req[r])'
    BY <1>1, <1>2, <1>3, <1>4, <1>5 DEF Holds, Rows
  <1>9. rec[z] = "pending"
    BY <1>1, <1>2, <1>3 DEF Holds, Agrees
  <1>10. Agrees(z)'
    BY <1>2, <1>3, <1>4, <1>9 DEF Agrees, Intended, HasResult, Rows
  <1>11. \A x \in results' : Follows(x)'
    BY <1>2 DEF SdkInv, Follows, HasCode
  <1> QED
    BY <1>2, <1>3, <1>5, <1>6, <1>7, <1>8, <1>10, <1>11, RequestKeeps, CodesKept DEF Adds

\* The request writes the end of its record, which it may, and ends.
LEMMA SettleKeeps ==
    ASSUME SdkInv, NEW r \in Reqs, NEW z \in Txs, z = req[r].t, req[r].pc \in {"pending", "activated"},
           NEW v \in {"active", "ended"}, v = "ended" => link[z].st = "revoked",
           rec' = [rec EXCEPT ![z] = v], req' = [req EXCEPT ![r] = Sdk!Idle],
           UNCHANGED <<tx, code, link, event, cur, results, crashes>>
    PROVE  SdkInv'
  <1>1. /\ Agrees(z) /\ Holds(req[r])
        /\ \A s \in Reqs \ {r} : req[s].pc # "idle" => req[s].t # z
    BY HeldAlone
  <1>2. /\ req' \in [Reqs -> Sdk!Req] /\ req'[r] = Sdk!Idle
        /\ \A s \in Reqs \ {r} : req'[s] = req[s]
    BY IdleRow, NewRow DEF SdkInv
  <1>3. Sdk!TypeOK' /\ rec'[z] = v /\ \A t \in Txs \ {z} : rec'[t] = rec[t]
    BY <1>2 DEF SdkInv, Sdk!TypeOK
  <1>4. \A t \in Txs \ {z} : Alone(t)
    BY <1>3 DEF Alone
  <1>5. Holds(req[r])' /\ req'[r].pc = "idle"
    BY <1>2, IdleRow DEF Holds
  <1>6. Agrees(z)'
    BY <1>1, <1>3 DEF Agrees, Holds, Intended, HasResult, Rows
  <1>7. \A x \in results' : Follows(x)'
    BY DEF SdkInv, Follows, HasCode
  <1> QED
    BY <1>1, <1>2, <1>3, <1>4, <1>5, <1>6, <1>7, RequestKeeps, CodesKept DEF Adds

\* A record ends only when the centre says that the link is revoked.
LEMMA ActivateRefusedKeeps ==
    ASSUME SdkInv, NEW r \in Reqs, Sdk!ActivateRefused(r)
    PROVE  SdkInv'
  <1>1. PICK z \in Txs : z = req[r].t
    BY HeldAlone DEF Sdk!ActivateRefused
  <1>2. /\ req[r].pc = "pending" /\ link[z].st \notin {"prepared", "active"}
        /\ rec' = [rec EXCEPT ![z] = "ended"] /\ req' = [req EXCEPT ![r] = Sdk!Idle]
        /\ UNCHANGED <<tx, code, link, event, cur, results, crashes>>
    BY <1>1 DEF Sdk!ActivateRefused
  <1>3. link[z].st = "revoked"
    BY <1>1, <1>2, HeldAlone DEF Holds, Rows
  <1> QED
    BY <1>1, <1>2, <1>3, SettleKeeps

\* The record of a link that the centre activated becomes active, or stays ended.
LEMMA CommitActiveKeeps ==
    ASSUME SdkInv, NEW r \in Reqs, Sdk!CommitActive(r)
    PROVE  SdkInv'
  <1>1. PICK z \in Txs : z = req[r].t
    BY HeldAlone DEF Sdk!CommitActive
  <1>2. /\ req[r].pc = "activated" /\ req' = [req EXCEPT ![r] = Sdk!Idle]
        /\ UNCHANGED <<tx, code, link, event, cur, results, crashes>>
    BY <1>1 DEF Sdk!CommitActive
  <1>3. CASE rec[z] = "pending"
    <2>1. rec' = [rec EXCEPT ![z] = "active"]
      BY <1>1, <1>3 DEF Sdk!CommitActive
    <2> QED
      BY <1>1, <1>2, <2>1, SettleKeeps
  <1>4. CASE rec[z] # "pending"
    <2>1. rec' = rec
      BY <1>1, <1>4 DEF Sdk!CommitActive
    <2>2. Sdk!TypeOK'
      BY <1>2, <2>1, IdleRow, NewRow DEF SdkInv, Sdk!TypeOK
    <2> QED
      BY <1>2, <2>1, <2>2, EndKeeps
  <1> QED
    BY <1>3, <1>4

\* A retry takes up a pending record that no request holds.
LEMMA RetryKeeps ==
    ASSUME SdkInv, NEW r \in Reqs, NEW t \in Txs, Sdk!RetryActivate(r, t)
    PROVE  SdkInv'
  <1> DEFINE row == [Sdk!Idle EXCEPT !.pc = "pending", !.t = t]
  <1>1. row \in Sdk!Req /\ row.pc = "pending" /\ row.t = t
    BY IdleRow DEF Sdk!Req
  <1>2. /\ rec[t] = "pending" /\ (\A s \in Reqs : req[s].t # t)
        /\ req' = [req EXCEPT ![r] = row]
        /\ UNCHANGED <<tx, code, link, event, rec, cur, results, crashes>>
    BY DEF Sdk!RetryActivate
  <1> HIDE DEF row
  <1>3. /\ req' \in [Reqs -> Sdk!Req] /\ req'[r] = row
        /\ \A s \in Reqs \ {r} : req'[s] = req[s]
    BY <1>1, <1>2, NewRow DEF SdkInv
  <1>4. Sdk!TypeOK'
    BY <1>2, <1>3 DEF SdkInv, Sdk!TypeOK
  <1>5. tx[t].st = "taken" /\ link[t].st \in Rows
    BY <1>2 DEF SdkInv, Agrees
  <1>6. Holds(req[r])'
    BY <1>1, <1>2, <1>3, <1>5 DEF Holds
  <1>7. \A z \in Txs : Alone(z)
    BY <1>2 DEF Alone
  <1>8. Agrees(t)' /\ \A x \in results' : Follows(x)'
    BY <1>2, <1>7, AgreesKept DEF SdkInv, Follows, HasCode
  <1> QED
    BY <1>1, <1>2, <1>3, <1>4, <1>6, <1>7, <1>8, RequestKeeps, CodesKept DEF Adds

-----------------------------------------------------------------------------
(* Faults, browsers and time.                                              *)

\* A refusal ends a request that has recorded nothing.
LEMMA RefusedKeeps ==
    ASSUME SdkInv, NEW r \in Reqs, Sdk!Refused(r)
    PROVE  SdkInv'
  <1>1. /\ req[r].pc # "idle" /\ req' = [req EXCEPT ![r] = Sdk!Idle]
        /\ UNCHANGED <<tx, code, link, event, rec, cur, results, crashes>>
    BY DEF Sdk!Refused
  <1>2. Sdk!TypeOK'
    BY <1>1, IdleRow, NewRow DEF SdkInv, Sdk!TypeOK
  <1> QED
    BY <1>1, <1>2, EndKeeps

\* A crash loses the request and leaves the record.
LEMMA CrashKeeps ==
    ASSUME MaxCrashes \in Nat, SdkInv, NEW r \in Reqs, Sdk!Crash(r)
    PROVE  SdkInv'
  <1>1. /\ req[r].pc # "idle" /\ req' = [req EXCEPT ![r] = Sdk!Idle]
        /\ UNCHANGED <<tx, code, link, event, rec, cur, results>>
    BY DEF Sdk!Crash
  <1>2. crashes' \in 0..MaxCrashes
    BY DEF SdkInv, Sdk!TypeOK, Sdk!Crash
  <1>3. Sdk!TypeOK'
    BY <1>1, <1>2, IdleRow, NewRow DEF SdkInv, Sdk!TypeOK
  <1> QED
    BY <1>1, <1>3, EndKeeps

\* Signing in to another account changes nothing that was begun.
LEMMA SwitchKeeps ==
    ASSUME SdkInv, NEW b \in Browsers, NEW a \in Accounts \cup {None}, Sdk!SwitchAccount(b, a)
    PROVE  SdkInv'
  <1>1. Sdk!TypeOK'
    BY DEF SdkInv, Sdk!TypeOK, Sdk!SwitchAccount
  <1>2. UNCHANGED <<tx, code, link, event, rec, req, results>>
    BY DEF Sdk!SwitchAccount
  <1> QED
    BY <1>1, <1>2 DEF SdkInv, OneHolder, OneResult, Subjected, Holds, Agrees, Follows, Intended,
       HasResult, HasCode, Rows

\* Only a transaction in the store expires, which no request holds.
LEMMA ExpireTxKeeps ==
    ASSUME SdkInv, NEW t \in Txs, Sdk!ExpireTx(t)
    PROVE  SdkInv'
  <1>1. /\ tx[t].st = "stored" /\ tx' = [tx EXCEPT ![t].expired = TRUE] /\ Agrees(t)
        /\ tx \in [Txs -> Sdk!Tx] /\ tx[t] \in Sdk!Tx
        /\ UNCHANGED <<code, link, event, rec, cur, req, results, crashes>>
    BY DEF SdkInv, Sdk!TypeOK, Sdk!ExpireTx
  <1>2. /\ tx' \in [Txs -> Sdk!Tx] /\ tx'[t].st = tx[t].st /\ tx'[t].b = tx[t].b
        /\ tx'[t].purpose = tx[t].purpose /\ tx'[t].acct = tx[t].acct
        /\ \A z \in Txs \ {t} : tx'[z] = tx[z]
    BY <1>1 DEF Sdk!Tx
  <1>3. Sdk!TypeOK'
    BY <1>1, <1>2 DEF SdkInv, Sdk!TypeOK
  <1>4. \A z \in Txs \ {t} : Alone(z)
    BY <1>1, <1>2 DEF Alone
  <1>5. \A s \in Reqs : req[s].pc # "idle" => req[s].t # t
    BY <1>1 DEF SdkInv, Holds
  <1>6. Agrees(t)'
    BY <1>1, <1>2 DEF Agrees, Intended, HasResult, Rows
  <1>7. \A x \in results : x.t # t
    BY <1>1 DEF SdkInv, Follows, HasCode
  <1> QED
    BY <1>1, <1>3, <1>4, <1>5, <1>6, <1>7, CentreKeeps, CodesKept

\* Maintenance ends reservations, never an active link.
LEMMA ExpireIntentKeeps ==
    ASSUME SdkInv, NEW t \in Txs, Sdk!ExpireIntent(t)
    PROVE  SdkInv'
  <1>1. /\ link[t].st \in {"pending", "confirmed", "prepared"}
        /\ link' = [link EXCEPT ![t].st = "revoked"] /\ Agrees(t)
        /\ UNCHANGED <<tx, code, event, rec, cur, req, results, crashes>>
    BY DEF SdkInv, Sdk!ExpireIntent
  <1>2. /\ link' \in [Txs -> Sdk!Link] /\ link'[t].st = "revoked"
        /\ link'[t].acct = link[t].acct /\ \A z \in Txs \ {t} : link'[z] = link[z]
    BY <1>1, LinkRow DEF SdkInv, LinkStates
  <1>3. Sdk!TypeOK'
    BY <1>1, <1>2 DEF SdkInv, Sdk!TypeOK
  <1>4. \A z \in Txs \ {t} : Alone(z)
    BY <1>1, <1>2 DEF Alone
  <1>5. Relied(t)
    BY <1>1, <1>2 DEF Relied, Rows
  <1>6. Agrees(t)'
    BY <1>1, <1>2 DEF Agrees, Intended, Rows
  <1>7. \A x \in results : Follows(x)'
    BY <1>1 DEF SdkInv, Follows, HasCode
  <1> QED
    BY <1>1, <1>3, <1>4, <1>5, <1>6, <1>7, CentreKeeps, CodesKept

\* A revocation ends a link that has a row, prepared or active, and queues its event.
LEMMA RevokeKeeps ==
    ASSUME SdkInv, NEW t \in Txs, Sdk!RevokeLink(t)
    PROVE  SdkInv'
  <1>1. /\ link[t].st \in {"prepared", "active"}
        /\ link' = [link EXCEPT ![t].st = "revoked"] /\ Agrees(t)
        /\ event' = [event EXCEPT ![t] = "queued"]
        /\ UNCHANGED <<tx, code, rec, cur, req, results, crashes>>
    BY DEF SdkInv, Sdk!RevokeLink
  <1>2. /\ link' \in [Txs -> Sdk!Link] /\ link'[t].st = "revoked"
        /\ link'[t].acct = link[t].acct /\ \A z \in Txs \ {t} : link'[z] = link[z]
    BY <1>1, LinkRow DEF SdkInv, LinkStates
  <1>3. Sdk!TypeOK' /\ \A z \in Txs \ {t} : event'[z] = event[z]
    BY <1>1, <1>2 DEF SdkInv, Sdk!TypeOK
  <1>4. \A z \in Txs \ {t} : Alone(z)
    BY <1>1, <1>2, <1>3 DEF Alone
  <1>5. Relied(t)
    BY <1>1, <1>2 DEF Relied, Rows
  <1>6. Agrees(t)'
    BY <1>1, <1>2 DEF Agrees, Intended, Rows
  <1>7. \A x \in results : Follows(x)'
    BY <1>1 DEF SdkInv, Follows, HasCode
  <1> QED
    BY <1>1, <1>3, <1>4, <1>5, <1>6, <1>7, CentreKeeps, CodesKept

\* The event ends the record of a link that is revoked.
LEMMA HandleKeeps ==
    ASSUME SdkInv, NEW t \in Txs, Sdk!HandleNotification(t)
    PROVE  SdkInv'
  <1>1. /\ event[t] = "queued" /\ event' = [event EXCEPT ![t] = "done"]
        /\ link[t].st = "revoked" /\ Agrees(t)
        /\ UNCHANGED <<tx, code, link, cur, req, results, crashes>>
    BY DEF SdkInv, Agrees, Sdk!HandleNotification
  <1>2. /\ rec' \in [Txs -> {"none", "pending", "active", "ended"}]
        /\ rec[t] \in {"none", "pending", "active", "ended"}
        /\ IF rec[t] \in {"pending", "active"} THEN rec'[t] = "ended" ELSE rec'[t] = rec[t]
        /\ \A z \in Txs \ {t} : rec'[z] = rec[z]
    <2>1. rec \in [Txs -> {"none", "pending", "active", "ended"}]
      BY DEF SdkInv, Sdk!TypeOK
    <2>2. rec' = IF rec[t] \in {"pending", "active"} THEN [rec EXCEPT ![t] = "ended"] ELSE rec
      BY DEF Sdk!HandleNotification
    <2> QED
      BY <2>1, <2>2
  <1>3. Sdk!TypeOK' /\ \A z \in Txs \ {t} : event'[z] = event[z]
    BY <1>1, <1>2 DEF SdkInv, Sdk!TypeOK
  <1>4. \A z \in Txs \ {t} : Alone(z)
    BY <1>1, <1>2, <1>3 DEF Alone
  <1>5. ASSUME NEW s \in Reqs, req[s].pc # "idle", req[s].t = t PROVE Relied(t)
    <2>1. rec[t] # "active"
      <3>1. Holds(req[s]) /\ req[s] \in Sdk!Req
        BY DEF SdkInv, Sdk!TypeOK
      <3> QED
        BY <1>1, <1>5, <3>1 DEF Holds, Agrees, Sdk!Req
    <2> QED
      BY <1>1, <1>2, <2>1 DEF Relied
  <1>6. Agrees(t)'
    BY <1>1, <1>2, <1>3 DEF Agrees, Intended, SdkInv, Sdk!TypeOK
  <1>7. \A x \in results : Follows(x)'
    BY <1>1 DEF SdkInv, Follows, HasCode
  <1> QED
    BY <1>1, <1>3, <1>4, <1>5, <1>6, <1>7, CentreKeeps, CodesKept

-----------------------------------------------------------------------------
(* Login and linking through the SDK keep their promises.                  *)

\* The inductive invariant holds at the start ...
LEMMA SdkInit ==
    ASSUME MaxCrashes \in Nat, Sdk!Init
    PROVE  SdkInv
  <1>1. Sdk!NoTx \in Sdk!Tx /\ Sdk!NoLink \in Sdk!Link
        /\ Sdk!NoCode \in Sdk!Code
    BY DEF Sdk!NoCode, Sdk!NoTx, Sdk!Tx, Sdk!NoLink, Sdk!Link, Sdk!Code, Sdk!Purposes
  <1>2. Sdk!TypeOK
    BY <1>1, IdleRow DEF Sdk!Init, Sdk!TypeOK
  <1>3. /\ \A r \in Reqs : req[r].pc = "idle"
        /\ \A t \in Txs : /\ tx[t].st = "absent" /\ link[t].st = "absent"
                           /\ event[t] = "none" /\ rec[t] = "none"
        /\ results = {} /\ \A a \in Auths : code[a].st = "none"
    BY IdleRow DEF Sdk!Init, Sdk!NoTx, Sdk!NoLink, Sdk!NoCode
  <1> QED
    BY <1>2, <1>3 DEF SdkInv, OneHolder, OneResult, Subjected, Holds, Agrees

\* ... and is kept by every step.
LEMMA SdkStep ==
    ASSUME MaxCrashes \in Nat, SdkInv, [Sdk!Next]_Sdk!vars
    PROVE  SdkInv'
  <1>1. CASE UNCHANGED Sdk!vars
    <2>1. UNCHANGED <<tx, code, link, event, rec, cur, req, results, crashes>>
      BY <1>1 DEF Sdk!vars
    <2> QED
      BY <2>1 DEF SdkInv, Sdk!TypeOK, OneHolder, OneResult, Subjected, Holds, Agrees, Follows, Intended,
       HasResult, HasCode, Rows
  <1>2. ASSUME NEW r \in Reqs, NEW t \in Txs,
               \/ \E b \in Browsers :
                    \/ Sdk!FinishLogin(r, t, b)
                    \/ \E p \in Sdk!Purposes, a \in Accounts \cup {None} : Sdk!begin(r, t, b, p, a)
               \/ Sdk!RetryActivate(r, t)
        PROVE  SdkInv'
    BY <1>2, FinishKeeps, beginKeeps, RetryKeeps
  <1>3. ASSUME NEW r \in Reqs,
               \/ \E a \in Auths : Sdk!Exchange(r, a)
               \/ Sdk!Put(r) \/ Sdk!ReturnResult(r) \/ Sdk!PrepareLink(r)
               \/ Sdk!CommitPending(r) \/ Sdk!ActivateLink(r) \/ Sdk!ActivateRefused(r)
               \/ Sdk!CommitActive(r) \/ Sdk!Refused(r) \/ Sdk!Crash(r)
        PROVE  SdkInv'
    BY <1>3, PutKeeps, ExchangeKeeps, ReturnKeeps, PrepareKeeps, CommitPendingKeeps, ActivateKeeps,
       ActivateRefusedKeeps, CommitActiveKeeps, RefusedKeeps, CrashKeeps
  <1>4. ASSUME NEW t \in Txs,
               \/ Sdk!ExpireTx(t) \/ Sdk!ExpireIntent(t) \/ Sdk!RevokeLink(t)
               \/ Sdk!HandleNotification(t)
               \/ \E a \in Auths, u \in Subjects : Sdk!CompleteAuthorization(a, t, u)
        PROVE  SdkInv'
    BY <1>4, ExpireTxKeeps, ExpireIntentKeeps, RevokeKeeps, HandleKeeps, CompleteKeeps
  <1>5. ASSUME NEW b \in Browsers, NEW a \in Accounts \cup {None}, Sdk!SwitchAccount(b, a)
        PROVE  SdkInv'
    BY <1>5, SwitchKeeps
  <1> QED
    BY <1>1, <1>2, <1>3, <1>4, <1>5 DEF Sdk!Next

\* The inductive invariant of the SDK flow, for any number of transactions, browsers,
\* accounts and requests.
THEOREM SdkInvariant == ASSUME MaxCrashes \in Nat PROVE Sdk!Spec => []SdkInv
  <1>1. Sdk!Init => SdkInv
    BY SdkInit
  <1>2. SdkInv /\ [Sdk!Next]_Sdk!vars => SdkInv'
    BY SdkStep
  <1> QED
    BY <1>1, <1>2, PTL DEF Sdk!Spec

\* The transaction store, the centre, the application's records and its requests keep
\* their types.
THEOREM SdkTypes == ASSUME MaxCrashes \in Nat PROVE Sdk!Spec => []Sdk!TypeOK
  <1>1. SdkInv => Sdk!TypeOK
    BY DEF SdkInv
  <1> QED
    BY <1>1, SdkInvariant, PTL

\* FinishLogin (sdk/go/client.go) returns one result per transaction, to the browser
\* that began it, and no account is linked but the one that was signed in at both ends.
THEOREM LinksOfResults == ASSUME MaxCrashes \in Nat PROVE Sdk!Spec => []Sdk!LinksFollowResults
  <1>1. SdkInv => Sdk!LinksFollowResults
    BY DEF SdkInv, OneResult, Follows, Agrees, HasResult, HasCode, Sdk!LinksFollowResults
  <1> QED
    BY <1>1, SdkInvariant, PTL

\* The application has a record of every link that is active at the centre, whatever
\* call of PrepareLink and ActivateLink it died in.
THEOREM ActiveRecorded == ASSUME MaxCrashes \in Nat PROVE Sdk!Spec => []Sdk!ActiveLinksAreRecorded
  <1>1. SdkInv => Sdk!ActiveLinksAreRecorded
    BY DEF SdkInv, Agrees, Sdk!ActiveLinksAreRecorded
  <1> QED
    BY <1>1, SdkInvariant, PTL

=============================================================================
