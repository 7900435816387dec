--------------------------- MODULE KeyRingProofs ---------------------------
(***************************************************************************)
(* Proofs about KeyRing.                                                   *)
(*                                                                         *)
(* Whatever a power loss puts together from the directory and its durable  *)
(* entries loads as one of the two (Entries, LoadMix).  So it is enough to *)
(* follow those two manifests through a rotation: they load (Load), their  *)
(* keys are not dropped (Undropped) and they cover the signed tokens       *)
(* (Covered).                                                              *)
(***************************************************************************)
EXTENDS KeyRing, TLAPS

\* The keys of a manifest, those out of retention included.
AllKeys(m) == {m.key} \cup {r.key : r \in m.previous}

\* A manifest that can verify every signed token until the token expires.
Covers(m) ==
    \A t \in tokens : t.key = m.key \/ \E r \in m.previous : r.key = t.key /\ t.exp < r.until

\* The order of writes and syncs.
Entries ==
    /\ durable.encryption = disk.encryption
    /\ durable.keyring = None => /\ disk.signing = durable.signing
                                 /\ disk.keyring # None => disk.signing # None
    /\ durable.keyring # None => disk.keyring # None
    /\ ~durable.made \/ ~disk.made =>
         disk.keyring = None /\ disk.signing = None /\ ~disk.encryption

\* init-keys, rotate-keys and the issuers keep out of each other's way.
Alone ==
    /\ \A p \in Rotators : rot[p].pc # "idle" => disk.lock /\ ~init /\ Offline /\ disk.made
    /\ \A p, q \in Rotators : rot[p].pc # "idle" /\ rot[q].pc # "idle" => p = q
    /\ init => /\ disk.made /\ disk.keyring = None
               /\ ~(disk.encryption /\ disk.signing # None)
    /\ \A s \in Servers : ring[s] # None => ~init /\ ring[s] = LoadKeys(disk)

\* What a rotation knows at each of its steps.
Progress ==
    \A p \in Rotators :
        /\ rot[p].pc # "idle" => RetentionOK(rot[p].retain, rot[p].emergency)
        /\ rot[p].pc \in {"built", "renamed"} =>
             /\ rot[p].old # None /\ rot[p].new # None
             /\ LoadKeys(disk) = IF rot[p].pc = "built" THEN rot[p].old ELSE rot[p].new
             /\ \A k \in AllKeys(rot[p].new) : k <= gen /\ k \notin dropped
             /\ rot[p].emergency => AllKeys(rot[p].new) \cap AllKeys(rot[p].old) = {}
        /\ rot[p].pc = "renamed" =>
             disk.keyring # None /\ \A k \in AllKeys(rot[p].old) : k <= gen
        /\ rot[p].pc \in {"synced", "removed", "done"} => durable.keyring # None

\* The directory gives out nothing before it loads.
Load ==
    /\ LoadKeys(disk) = None => tokens = {} /\ dropped = {}
    /\ \A k \in {disk.signing, durable.signing} : k # None => k <= gen

\* Keys are numbered, and a ring that can be loaded has no dropped key.
Undropped ==
    /\ \A k \in dropped : k <= gen
    /\ \A m \in {LoadKeys(disk), LoadKeys(durable)} :
         m # None => \A k \in AllKeys(m) : k <= gen /\ k \notin dropped

\* A ring that can be loaded covers the tokens, unless a torn rotation was served.
Covered ==
    /\ \A t \in tokens : now <= t.exp /\ t.exp <= now + Life
    /\ ~torn =>
         /\ \A m \in {LoadKeys(disk), LoadKeys(durable)} : m # None => Covers(m)
         /\ \A p \in Rotators : rot[p].pc = "built" /\ ~rot[p].emergency => Covers(rot[p].new)
         /\ (\A p \in Rotators : rot[p].pc # "renamed") => LoadKeys(durable) = LoadKeys(disk)

\* The inductive invariant.
KeyInv == TypeOK /\ Entries /\ Alone /\ Progress /\ Load /\ Undropped /\ Covered

-----------------------------------------------------------------------------
(* What a directory loads.                                                 *)

\* LoadKeys by cases: keyring.json before signing.pem, nothing without the
\* encryption key.
LEMMA LoadFacts ==
    ASSUME NEW d \in Dir
    PROVE  /\ LoadKeys(d) \in Manifest \cup {None}
           /\ LoadKeys(d) = None <=> ~d.encryption \/ (d.keyring = None /\ d.signing = None)
           /\ d.encryption /\ d.keyring # None => LoadKeys(d) = d.keyring
           /\ d.encryption /\ d.keyring = None /\ d.signing # None =>
                LoadKeys(d) = [key |-> d.signing, previous |-> {}]
<1>1. d.signing \in Key \cup {None} /\ d.keyring \in Manifest \cup {None} /\ d.encryption \in BOOLEAN
    BY DEF Dir
<1>2. d.signing # None => [key |-> d.signing, previous |-> {}] \in Manifest
    BY <1>1 DEF Manifest
<1> QED
    BY <1>1, <1>2, NoneAssumption DEF LoadKeys

\* The lock and the directory itself do not matter to LoadKeys.
LEMMA LoadSame ==
    ASSUME NEW d, NEW e, d.encryption = e.encryption, d.signing = e.signing, d.keyring = e.keyring
    PROVE  LoadKeys(d) = LoadKeys(e)
    BY DEF LoadKeys

\* Keys are numbers.
LEMMA KeysAreNumbers ==
    ASSUME NEW m \in Manifest
    PROVE  m.key \in Key /\ AllKeys(m) \subseteq Nat /\ m.previous \subseteq Retained
<1>1. m.key \in Key /\ m.previous \subseteq Retained
    BY DEF Manifest
<1>2. \A r \in m.previous : r.key \in Key
    BY <1>1 DEF Retained
<1>3. Key \subseteq Nat
    BY KeyAssumption DEF Key
<1> QED
    BY <1>1, <1>2, <1>3 DEF AllKeys

\* A power loss in whatever state loads what the directory loaded, or what its
\* durable entries load.
LEMMA LoadMix ==
    ASSUME KeyInv, NEW d \in Dir, d.encryption = durable.encryption,
           d.signing \in {disk.signing, durable.signing},
           d.keyring \in {disk.keyring, durable.keyring}
    PROVE  /\ LoadKeys(d) \in {LoadKeys(disk), LoadKeys(durable)}
           /\ LoadKeys(disk) # None => LoadKeys(d) # None
<1>1. disk \in Dir /\ durable \in Dir /\ Entries
    BY DEF KeyInv, TypeOK
<1>2. CASE durable.keyring # None /\ d.encryption
    BY <1>1, <1>2, LoadFacts DEF Entries
<1>3. CASE durable.keyring = None /\ d.encryption
  <2>1. CASE d.keyring = None
    <3>1. LoadKeys(d) = LoadKeys(durable)
      BY <1>1, <1>3, <2>1, LoadSame DEF Entries
    <3>2. LoadKeys(disk) # None => d.signing # None
      BY <1>1, <1>3, LoadFacts DEF Entries
    <3> QED
      BY <1>3, <3>1, <3>2, LoadFacts
  <2>2. CASE d.keyring # None
    <3>1. LoadKeys(d) = LoadKeys(disk)
      BY <1>1, <1>3, <2>2, LoadSame DEF Entries
    <3> QED
      BY <3>1
  <2> QED
    BY <2>1, <2>2
<1>4. CASE ~d.encryption
    BY <1>1, <1>4, LoadFacts DEF Entries
<1> QED
    BY <1>1, <1>2, <1>3, <1>4 DEF Dir

\* A lock, the claim of the directory.
LEMMA DirUpdate ==
    ASSUME NEW d \in Dir, NEW b \in BOOLEAN
    PROVE  /\ [d EXCEPT !.lock = b] \in Dir /\ [d EXCEPT !.lock = b].lock = b
           /\ [d EXCEPT !.lock = b].made = d.made
           /\ [d EXCEPT !.lock = b].encryption = d.encryption
           /\ [d EXCEPT !.lock = b].signing = d.signing
           /\ [d EXCEPT !.lock = b].keyring = d.keyring
           /\ [d EXCEPT !.made = b] \in Dir /\ [d EXCEPT !.made = b].made = b
           /\ [d EXCEPT !.made = b].lock = d.lock
           /\ [d EXCEPT !.made = b].encryption = d.encryption
           /\ [d EXCEPT !.made = b].signing = d.signing
           /\ [d EXCEPT !.made = b].keyring = d.keyring
    BY DEF Dir

\* The states of a process that does nothing.
LEMMA Blank ==
    EmptyDir \in Dir /\ IdleRotator \in Rotator /\ IdleRotator.pc = "idle"
    BY DEF EmptyDir, Dir, IdleRotator, Rotator

-----------------------------------------------------------------------------
(* Steps that write no key.                                                *)

\* Processes start and end, the directory is claimed or locked: no ring changes.
LEMMA Idling ==
    ASSUME KeyInv, disk' \in Dir, disk'.encryption = disk.encryption,
           disk'.signing = disk.signing, disk'.keyring = disk.keyring,
           UNCHANGED <<durable, tokens, gen, now, dropped>>,
           rot' \in [Rotators -> Rotator], torn' \in BOOLEAN,
           \A p \in Rotators :
              \/ rot'[p] = rot[p]
              \/ /\ rot'[p].pc \in {"idle", "locked"}
                 /\ rot'[p].pc = "locked" => RetentionOK(rot'[p].retain, rot'[p].emergency)
                 /\ rot[p].pc = "renamed" => torn',
           torn => torn'
    PROVE  /\ LoadKeys(disk') = LoadKeys(disk)
           /\ Progress' /\ Load' /\ Undropped' /\ Covered'
<1>1. LoadKeys(disk') = LoadKeys(disk) /\ LoadKeys(durable') = LoadKeys(durable)
    BY LoadSame
<1>2. Progress'
    BY <1>1 DEF KeyInv, Progress, RetentionOK, AllKeys
<1>3. Load' /\ Undropped'
    BY <1>1 DEF KeyInv, Load, Undropped, AllKeys
<1>4. Covered'
  <2>1. \A m : Covers(m)' <=> Covers(m)
    BY DEF Covers
  <2>2. ~torn' => \A p \in Rotators : rot[p].pc = "renamed" => rot'[p] = rot[p]
    OBVIOUS
  <2>3. ~torn' => \A p \in Rotators : rot'[p].pc = "built" => rot'[p] = rot[p]
    OBVIOUS
  <2> QED
    BY <1>1, <2>1, <2>2, <2>3 DEF KeyInv, Covered
<1> QED
    BY <1>1, <1>2, <1>3, <1>4

\* os.Mkdir of init-keys: nothing has been written yet.
LEMMA Claiming ==
    ASSUME KeyInv, InitializeKeys
    PROVE  KeyInv'
<1>1. disk \in Dir /\ disk' = [disk EXCEPT !.made = TRUE] /\ init' = TRUE /\ ~disk.made
      /\ UNCHANGED <<durable, rot, ring, tokens, gen, now, dropped, torn>>
    BY DEF InitializeKeys, KeyInv, TypeOK
<1>2. disk' \in Dir /\ disk'.made /\ disk'.encryption = disk.encryption
      /\ disk'.signing = disk.signing /\ disk'.keyring = disk.keyring
    BY <1>1, DirUpdate
<1>3. LoadKeys(disk') = LoadKeys(disk) /\ Progress' /\ Load' /\ Undropped' /\ Covered'
    BY <1>1, <1>2, Idling DEF KeyInv, TypeOK
<1>4. disk.keyring = None /\ disk.signing = None /\ ~disk.encryption
    BY <1>1 DEF KeyInv, Entries
<1>5. Entries'
    BY <1>1, <1>2, <1>4 DEF KeyInv, Entries
<1>6. Alone'
  <2>1. \A p \in Rotators : rot[p].pc = "idle"
    BY <1>1 DEF KeyInv, Alone
  <2>2. \A s \in Servers : ring[s] = None
    BY <1>1, <1>4, LoadFacts DEF KeyInv, Alone
  <2> QED
    BY <1>1, <1>2, <1>4, <2>1, <2>2 DEF Alone
<1>7. TypeOK'
    BY <1>1, <1>2 DEF KeyInv, TypeOK
<1> QED
    BY <1>3, <1>5, <1>6, <1>7 DEF KeyInv

\* Issuers start on the ring in the directory, and stop.
LEMMA Serving ==
    ASSUME KeyInv, NEW s \in Servers, Serve(s) \/ Stop(s)
    PROVE  KeyInv'
<1>1. UNCHANGED <<disk, durable, init, rot, tokens, gen, now, dropped, torn>>
    BY DEF Serve, Stop
<1>2. /\ ring' \in [Servers -> Manifest \cup {None}]
      /\ \A q \in Servers : ring'[q] \in {ring[q], None} \/ (Quiet /\ ring'[q] = LoadKeys(disk))
    BY LoadFacts DEF Serve, Stop, KeyInv, TypeOK
<1>3. Progress' /\ Load' /\ Undropped' /\ Covered'
    BY <1>1, Idling DEF KeyInv, TypeOK
<1>4. TypeOK' /\ Entries'
    BY <1>1, <1>2 DEF KeyInv, TypeOK, Entries
<1>5. Alone'
    BY <1>1, <1>2 DEF KeyInv, Alone, Offline, Quiet
<1> QED
    BY <1>3, <1>4, <1>5 DEF KeyInv

\* rotation.lock is taken while nothing else runs.
LEMMA Locking ==
    ASSUME KeyInv, NEW p \in Rotators, NEW retain \in Retains, NEW emergency \in BOOLEAN,
           RotateKeys(p, retain, emergency)
    PROVE  KeyInv'
<1> DEFINE new == [IdleRotator EXCEPT !.pc = "locked", !.retain = retain, !.emergency = emergency]
<1>1. disk \in Dir /\ disk' = [disk EXCEPT !.lock = TRUE] /\ rot' = [rot EXCEPT ![p] = new]
      /\ UNCHANGED <<durable, init, ring, tokens, gen, now, dropped, torn>>
    BY DEF RotateKeys, KeyInv, TypeOK
<1>2. disk' \in Dir /\ disk'.lock /\ disk'.made = disk.made /\ disk'.encryption = disk.encryption
      /\ disk'.signing = disk.signing /\ disk'.keyring = disk.keyring
    BY <1>1, DirUpdate
<1>3. /\ new \in Rotator /\ new.pc = "locked"
      /\ RetentionOK(new.retain, new.emergency)
    BY RetentionAssumption DEF IdleRotator, Rotator, RotateKeys
<1> HIDE DEF new
<1>4. rot' \in [Rotators -> Rotator] /\ rot'[p] = new /\ \A q \in Rotators \ {p} : rot'[q] = rot[q]
    BY <1>1, <1>3 DEF KeyInv, TypeOK
<1>5. \A q \in Rotators : rot[q].pc = "idle"
    BY DEF RotateKeys, KeyInv, Alone
<1>6. LoadKeys(disk') = LoadKeys(disk) /\ Progress' /\ Load' /\ Undropped' /\ Covered'
  <2>1. \A q \in Rotators :
              \/ rot'[q] = rot[q]
              \/ /\ rot'[q].pc \in {"idle", "locked"}
                 /\ rot'[q].pc = "locked" => RetentionOK(rot'[q].retain, rot'[q].emergency)
                 /\ rot[q].pc = "renamed" => torn'
    BY <1>3, <1>4, <1>5
  <2>2. torn' \in BOOLEAN
    BY <1>1 DEF KeyInv, TypeOK
  <2> QED
    BY <1>1, <1>2, <1>4, <2>1, <2>2, Idling
<1>7. TypeOK'
    BY <1>1, <1>2, <1>4 DEF KeyInv, TypeOK
<1>8. Entries'
    BY <1>1, <1>2 DEF KeyInv, Entries
<1>9. Alone'
    BY <1>1, <1>2, <1>4, <1>5, <1>6 DEF RotateKeys, KeyInv, Alone, Offline
<1> QED
    BY <1>6, <1>7, <1>8, <1>9 DEF KeyInv

\* A rotation returns or is killed, init-keys is killed, the operator clears a lock.
LEMMA Ending ==
    ASSUME KeyInv, (\E p \in Rotators : Return(p)) \/ Kill \/ ClearLock
    PROVE  KeyInv'
<1>0. init \in BOOLEAN /\ disk \in Dir
    BY DEF KeyInv, TypeOK
<1>1. /\ UNCHANGED <<durable, ring, tokens, gen, now, dropped>>
      /\ init' \in BOOLEAN
      /\ init' => init
      /\ disk' = disk \/ disk' = [disk EXCEPT !.lock = FALSE]
  <2>1. CASE \E p \in Rotators : Return(p)
    BY <1>0, <2>1 DEF Return
  <2>2. CASE Kill
    <3>1. disk' = disk /\ UNCHANGED <<durable, ring, tokens, gen, now, dropped>>
      BY <2>2 DEF Kill
    <3>2. init' = FALSE \/ init' = init
      BY <2>2 DEF Kill
    <3>3. CASE init' = FALSE
      BY <3>1, <3>3
    <3>4. CASE init' = init
      BY <1>0, <3>1, <3>4
    <3> QED
      BY <3>2, <3>3, <3>4
  <2>3. CASE ClearLock
    BY <1>0, <2>3 DEF ClearLock
  <2> QED
    BY <2>1, <2>2, <2>3
<1>2. disk' \in Dir /\ disk'.made = disk.made /\ disk'.encryption = disk.encryption
      /\ disk'.signing = disk.signing /\ disk'.keyring = disk.keyring
  <2>1. CASE disk' = disk
    BY <1>0, <2>1
  <2>2. CASE disk' = [disk EXCEPT !.lock = FALSE]
    BY <1>0, <2>2, DirUpdate
  <2> QED
    BY <1>1, <2>1, <2>2
<1>3. /\ rot' \in [Rotators -> Rotator] /\ torn' \in BOOLEAN
      /\ torn => torn'
      /\ \A q \in Rotators : \/ rot'[q] = rot[q]
                             \/ rot'[q] = IdleRotator /\ (rot[q].pc = "renamed" => torn')
    BY Blank DEF Return, Kill, ClearLock, KeyInv, TypeOK
<1>4. LoadKeys(disk') = LoadKeys(disk) /\ Progress' /\ Load' /\ Undropped' /\ Covered'
    BY <1>1, <1>2, <1>3, Blank, Idling
<1>5. TypeOK'
    BY <1>1, <1>2, <1>3 DEF KeyInv, TypeOK
<1>6. Entries'
    BY <1>1, <1>2 DEF KeyInv, Entries
<1>7. \A q \in Rotators : rot'[q].pc # "idle" => disk'.lock /\ rot'[q] = rot[q]
  <2>1. CASE disk' = disk
    BY <1>3, <2>1, Blank DEF KeyInv, Alone
  <2>2. CASE \E p \in Rotators : Return(p)
    <3>1. PICK p \in Rotators : Return(p)
      BY <2>2
    <3>2. rot'[p].pc = "idle" /\ \A q \in Rotators \ {p} : rot'[q].pc = "idle"
      BY <3>1, Blank DEF Return, KeyInv, TypeOK, Alone
    <3> QED
      BY <3>2
  <2>3. CASE ClearLock
    BY <2>3 DEF ClearLock, Quiet
  <2> QED
    BY <2>1, <2>2, <2>3 DEF Kill
<1>8. Alone'
    BY <1>1, <1>2, <1>4, <1>7 DEF KeyInv, Alone, Offline
<1> QED
    BY <1>4, <1>5, <1>6, <1>8 DEF KeyInv

-----------------------------------------------------------------------------
(* Keys are written.                                                       *)

\* init-keys writes its two files; the directory did not load before.
LEMMA Writing ==
    ASSUME KeyInv, NEW file \in {"signing", "encryption"}, InitWrite(file)
    PROVE  KeyInv'
<1>1. /\ disk \in Dir /\ init /\ disk.made /\ disk.keyring = None /\ gen \in Nat
      /\ disk.signing = None \/ ~disk.encryption
      /\ durable' = disk' /\ UNCHANGED <<rot, ring, tokens, now, dropped, torn>>
    BY KeyAssumption DEF InitWrite, KeyInv, TypeOK, Alone
<1>2. \A p \in Rotators : rot[p].pc = "idle"
    BY <1>1 DEF KeyInv, Alone
<1>3. LoadKeys(disk) = None
    BY <1>1, LoadFacts
<1>4. tokens = {} /\ dropped = {} /\ \A s \in Servers : ring[s] = None
    BY <1>1, <1>3 DEF KeyInv, Load, Alone
<1>5. /\ disk' \in Dir /\ disk'.made /\ disk'.keyring = None /\ gen' \in 0..MaxKey
      /\ disk'.signing # None => disk'.signing <= gen'
      /\ init' = ~(disk'.encryption /\ disk'.signing # None)
  <2>1. CASE file = "signing"
    <3>1. disk' = [disk EXCEPT !.signing = gen + 1] /\ gen' = gen + 1 /\ gen + 1 \in Key
      BY <1>1, <2>1, KeyAssumption DEF InitWrite, KeyInv, TypeOK, Key
    <3>2. disk' \in Dir /\ disk'.made = disk.made /\ disk'.keyring = None /\ disk'.signing = gen + 1
      BY <1>1, <3>1 DEF Dir
    <3>3. gen' \in 0..MaxKey
      BY <1>1, <3>1, KeyAssumption DEF Key
    <3> QED
      BY <1>1, <3>1, <3>2, <3>3 DEF InitWrite
  <2>2. CASE file = "encryption"
    <3>1. disk' = [disk EXCEPT !.encryption = TRUE] /\ gen' = gen
      BY <2>2 DEF InitWrite
    <3>2. /\ disk' \in Dir /\ disk'.made = disk.made /\ disk'.keyring = None
          /\ disk'.signing = disk.signing
      BY <1>1, <3>1 DEF Dir
    <3> QED
      BY <1>1, <3>1, <3>2 DEF InitWrite, KeyInv, TypeOK, Load
  <2> QED
    BY <2>1, <2>2
<1>6. TypeOK'
    BY <1>1, <1>5 DEF KeyInv, TypeOK
<1>7. Entries'
    BY <1>1, <1>5 DEF Entries
<1>8. Alone' /\ Progress'
    BY <1>1, <1>2, <1>4, <1>5 DEF Alone, Progress
<1>9. Load' /\ Covered'
    BY <1>1, <1>2, <1>4, <1>5 DEF Load, Covered, Covers
<1>10. Undropped'
  <2>1. LoadKeys(disk') # None => AllKeys(LoadKeys(disk')) = {disk'.signing}
                                  /\ disk'.signing # None
    BY <1>5, LoadFacts DEF AllKeys, Dir
  <2> QED
    BY <1>1, <1>4, <1>5, <2>1 DEF Undropped
<1> QED
    BY <1>6, <1>7, <1>8, <1>9, <1>10 DEF KeyInv

\* A rotation builds a ring that has a fresh key and keeps what still verifies.
LEMMA Building ==
    ASSUME KeyInv, NEW p \in Rotators, BuildManifest(p)
    PROVE  KeyInv'
<1> DEFINE m == LoadKeys(disk)
           kept == IF rot[p].emergency THEN {} ELSE RetainedKeys(m, now + rot[p].retain)
           made == [key |-> gen + 1, previous |-> kept]
           new == [rot[p] EXCEPT !.pc = "built", !.old = m, !.new = made]
<1>1. /\ disk \in Dir /\ m \in Manifest /\ m # None /\ rot[p] \in Rotator /\ rot[p].pc = "locked"
      /\ gen \in Nat /\ gen + 1 \in Key /\ now \in Nat /\ rot[p].retain \in Nat
      /\ gen' = gen + 1 /\ gen' \in 0..MaxKey
      /\ UNCHANGED <<disk, durable, init, ring, tokens, now, dropped, torn>>
    BY LoadFacts, KeyAssumption DEF BuildManifest, KeyInv, TypeOK, Key, Rotator
<1>2. rot' = [rot EXCEPT ![p] = new]
    BY <1>1 DEF BuildManifest, KeyInv, TypeOK
<1>3. /\ kept \subseteq Retained
      /\ {r.key : r \in kept} \subseteq AllKeys(m)
      /\ rot[p].emergency => kept = {}
  <2>1. m.key \in Key /\ m.previous \subseteq Retained
    BY <1>1, KeysAreNumbers
  <2>2. [key |-> m.key, until |-> now + rot[p].retain] \in Retained
    BY <1>1, <2>1 DEF Retained
  <2> QED
    BY <2>1, <2>2 DEF RetainedKeys, AllKeys
<1>4. made \in Manifest /\ made.key = gen + 1 /\ made.previous = kept
    BY <1>1, <1>3 DEF Manifest
<1>5. ~torn /\ ~rot[p].emergency => Covers(made)
  <2> SUFFICES ASSUME ~torn, ~rot[p].emergency, NEW t \in tokens
               PROVE  \E r \in kept : r.key = t.key /\ t.exp < r.until
    BY <1>4 DEF Covers
  <2>1. /\ t.exp \in Nat /\ now <= t.exp /\ t.exp <= now + Life
        /\ t.key = m.key \/ \E r \in m.previous : r.key = t.key /\ t.exp < r.until
    BY <1>1 DEF KeyInv, TypeOK, Covered, Covers
  <2>2. rot[p].retain >= MinRetain
    BY <1>1 DEF KeyInv, Progress, RetentionOK
  <2>3. CASE t.key = m.key
    <3> DEFINE r == [key |-> m.key, until |-> now + rot[p].retain]
    <3>1. r \in kept /\ r.key = t.key /\ r.until = now + rot[p].retain
      BY <2>3 DEF RetainedKeys
    <3>2. t.exp < now + rot[p].retain
      BY <1>1, <2>1, <2>2, RetentionAssumption
    <3> HIDE DEF r
    <3> QED
      BY <3>1, <3>2
  <2>4. ASSUME NEW r \in m.previous, r.key = t.key, t.exp < r.until
        PROVE  r \in kept
    <3>1. r.until \in Nat
      BY <1>1, KeysAreNumbers DEF Retained
    <3>2. r.until > now
      BY <1>1, <2>1, <2>4, <3>1
    <3> QED
      BY <3>2 DEF RetainedKeys
  <2> QED
    BY <2>1, <2>3, <2>4
<1> HIDE DEF made, kept
<1>6. /\ new \in Rotator /\ new.pc = "built" /\ new.old = m /\ new.new = made
      /\ new.emergency = rot[p].emergency /\ new.retain = rot[p].retain
    BY <1>1, <1>4 DEF Rotator
<1> HIDE DEF new
<1>7. rot' \in [Rotators -> Rotator] /\ rot'[p] = new /\ \A q \in Rotators \ {p} : rot'[q] = rot[q]
    BY <1>2, <1>6 DEF KeyInv, TypeOK
<1>8. \A q \in Rotators \ {p} : rot[q].pc = "idle"
    BY <1>1 DEF KeyInv, Alone
<1>9. /\ \A k \in AllKeys(m) : k \in Nat /\ k <= gen /\ k \notin dropped
      /\ \A k \in dropped : k \in Nat /\ k <= gen
    BY <1>1, KeysAreNumbers, KeyAssumption DEF KeyInv, TypeOK, Undropped, Key
<1>10. /\ \A k \in AllKeys(made) : k <= gen + 1 /\ k \notin dropped
       /\ rot[p].emergency => AllKeys(made) \cap AllKeys(m) = {}
  <2>1. AllKeys(made) \subseteq {gen + 1} \cup AllKeys(m)
    BY <1>3, <1>4 DEF AllKeys
  <2>2. rot[p].emergency => AllKeys(made) = {gen + 1}
    BY <1>3, <1>4 DEF AllKeys
  <2>3. gen + 1 \notin dropped /\ gen + 1 \notin AllKeys(m) /\ \A k \in AllKeys(m) : k <= gen + 1
    BY <1>1, <1>9
  <2> QED
    BY <1>1, <1>9, <2>1, <2>2, <2>3
<1>11. TypeOK' /\ Entries'
    BY <1>1, <1>7 DEF KeyInv, TypeOK, Entries
<1>12. Alone'
    BY <1>1, <1>6, <1>7, <1>8 DEF KeyInv, Alone, Offline
<1>13. Progress'
  <2>1. rot[p].pc # "idle" => RetentionOK(rot[p].retain, rot[p].emergency)
    BY DEF KeyInv, Progress
  <2>2. made # None
    BY <1>4, NoneAssumption
  <2> QED
    BY <1>1, <1>6, <1>7, <1>8, <1>10, <2>1, <2>2 DEF Progress
<1>14. Load'
  <2>1. \A k \in {disk.signing, durable.signing} : k # None => k \in Nat
    BY KeyAssumption DEF KeyInv, TypeOK, Dir, Key
  <2> QED
    BY <1>1, <2>1 DEF KeyInv, Load
<1>15. Undropped'
  <2>1. \A k \in AllKeys(LoadKeys(durable)) : LoadKeys(durable) # None => k \in Nat
    BY LoadFacts, KeysAreNumbers DEF KeyInv, TypeOK
  <2> QED
    BY <1>1, <1>9, <2>1 DEF KeyInv, Undropped
<1>16. Covered'
  <2>1. \A n : Covers(n)' <=> Covers(n)
    BY <1>1 DEF Covers
  <2> QED
    BY <1>1, <1>5, <1>6, <1>7, <1>8, <2>1 DEF KeyInv, Covered
<1> QED
    BY <1>11, <1>12, <1>13, <1>14, <1>15, <1>16 DEF KeyInv

\* The rename makes the new ring the one that loads; the durable one still covers.
LEMMA Renaming ==
    ASSUME KeyInv, NEW p \in Rotators, RenameManifest(p)
    PROVE  KeyInv'
<1> DEFINE new == [rot[p] EXCEPT !.pc = "renamed"]
<1>1. /\ disk \in Dir /\ durable \in Dir /\ rot[p] \in Rotator /\ rot[p].pc = "built"
      /\ rot[p].new \in Manifest /\ rot[p].new # None /\ rot[p].old # None
      /\ LoadKeys(disk) = rot[p].old
      /\ UNCHANGED <<durable, init, ring, gen, now, dropped, torn>>
    BY DEF RenameManifest, KeyInv, TypeOK, Progress, Rotator
<1>2. /\ disk' = [disk EXCEPT !.keyring = rot[p].new]
      /\ rot' = [rot EXCEPT ![p] = new]
      /\ tokens' = IF rot[p].emergency THEN {} ELSE tokens
    BY DEF RenameManifest, KeyInv, TypeOK
<1>3. /\ disk' \in Dir /\ disk'.keyring = rot[p].new /\ disk'.made = disk.made
      /\ disk'.encryption = disk.encryption /\ disk'.signing = disk.signing /\ disk'.lock = disk.lock
    BY <1>1, <1>2 DEF Dir
<1>4. /\ new \in Rotator /\ new.pc = "renamed" /\ new.old = rot[p].old /\ new.new = rot[p].new
      /\ new.emergency = rot[p].emergency /\ new.retain = rot[p].retain
    BY <1>1 DEF Rotator
<1> HIDE DEF new
<1>5. rot' \in [Rotators -> Rotator] /\ rot'[p] = new /\ \A q \in Rotators \ {p} : rot'[q] = rot[q]
    BY <1>2, <1>4 DEF KeyInv, TypeOK
<1>6. \A q \in Rotators \ {p} : rot[q].pc = "idle"
    BY <1>1 DEF KeyInv, Alone
<1>7. disk.encryption /\ (disk.keyring # None \/ disk.signing # None)
    BY <1>1, LoadFacts
<1>8. LoadKeys(disk') = rot[p].new /\ LoadKeys(durable') = LoadKeys(durable)
    BY <1>1, <1>3, <1>7, LoadFacts
<1>9. tokens' \subseteq tokens
    BY <1>2
<1>10. TypeOK'
    BY <1>1, <1>3, <1>5, <1>9 DEF KeyInv, TypeOK
<1>11. Entries'
  <2>1. disk.made /\ durable.made
    BY <1>7 DEF KeyInv, Entries
  <2>2. durable.keyring = None => disk.signing # None /\ disk.signing = durable.signing
    BY <1>7 DEF KeyInv, Entries
  <2> QED
    BY <1>1, <1>3, <2>1, <2>2 DEF KeyInv, Entries
<1>12. Alone'
    BY <1>1, <1>3, <1>4, <1>5, <1>6 DEF KeyInv, Alone, Offline
<1>13. Progress'
  <2>1. \A k \in AllKeys(rot[p].old) : k <= gen
    BY <1>1 DEF KeyInv, Undropped
  <2>2. /\ RetentionOK(rot[p].retain, rot[p].emergency)
        /\ \A k \in AllKeys(rot[p].new) : k <= gen /\ k \notin dropped
        /\ rot[p].emergency => AllKeys(rot[p].new) \cap AllKeys(rot[p].old) = {}
    BY <1>1 DEF KeyInv, Progress
  <2> QED
    BY <1>1, <1>3, <1>4, <1>5, <1>6, <1>8, <2>1, <2>2 DEF Progress
<1>14. Load'
    BY <1>1, <1>3, <1>8 DEF KeyInv, Load
<1>15. Undropped'
  <2>1. \A k \in AllKeys(rot[p].new) : k <= gen /\ k \notin dropped
    BY <1>1 DEF KeyInv, Progress
  <2> QED
    BY <1>1, <1>8, <2>1 DEF KeyInv, Undropped
<1>16. Covered'
  <2>1. \A n : Covers(n) => Covers(n)'
    BY <1>9 DEF Covers
  <2>2. rot[p].emergency => \A n : Covers(n)'
    BY <1>2 DEF Covers
  <2>3. ASSUME NEW n, n = rot[p].new, ~torn PROVE Covers(n)'
    <3>1. ~rot[p].emergency => Covers(n)
      BY <1>1, <2>3 DEF KeyInv, Covered
    <3> QED
      BY <2>1, <2>2, <3>1
  <2>4. ASSUME NEW n, n = LoadKeys(durable), n # None, ~torn PROVE Covers(n)'
    <3>1. Covers(n)
      BY <2>4 DEF KeyInv, Covered
    <3> QED
      BY <2>1, <3>1
  <2>5. \A q \in Rotators : rot'[q].pc # "built"
    BY <1>4, <1>5, <1>6
  <2>6. rot'[p].pc = "renamed"
    BY <1>4, <1>5
  <2>7. \A n \in {LoadKeys(disk'), LoadKeys(durable')} : n # None /\ ~torn => Covers(n)'
    BY <1>8, <2>3, <2>4
  <2>8. \A t \in tokens' : now' <= t.exp /\ t.exp <= now' + Life
    BY <1>1, <1>9 DEF KeyInv, Covered
  <2> QED
    BY <1>1, <2>5, <2>6, <2>7, <2>8 DEF Covered
<1> QED
    BY <1>10, <1>11, <1>12, <1>13, <1>14, <1>15, <1>16 DEF KeyInv

\* A rotator moves on: its record keeps everything but pc.
LEMMA Advancing ==
    ASSUME KeyInv, NEW p \in Rotators, NEW pc \in {"synced", "removed", "done"},
           rot[p].pc # "idle", rot' = [rot EXCEPT ![p].pc = pc]
    PROVE  /\ rot' \in [Rotators -> Rotator] /\ rot'[p].pc = pc
           /\ rot'[p].retain = rot[p].retain /\ rot'[p].emergency = rot[p].emergency
           /\ \A q \in Rotators \ {p} : rot'[q] = rot[q] /\ rot[q].pc = "idle"
<1>1. rot[p] \in Rotator
    BY DEF KeyInv, TypeOK
<1>2. rot' = [rot EXCEPT ![p] = [rot[p] EXCEPT !.pc = pc]]
    BY DEF KeyInv, TypeOK
<1>3. /\ [rot[p] EXCEPT !.pc = pc] \in Rotator /\ [rot[p] EXCEPT !.pc = pc].pc = pc
      /\ [rot[p] EXCEPT !.pc = pc].retain = rot[p].retain
      /\ [rot[p] EXCEPT !.pc = pc].emergency = rot[p].emergency
    BY <1>1 DEF Rotator
<1>4. \A q \in Rotators \ {p} : rot[q].pc = "idle"
    BY DEF KeyInv, Alone
<1> QED
    BY <1>2, <1>3, <1>4 DEF KeyInv, TypeOK

\* The sync of the directory makes the rename durable, and an emergency final.
LEMMA Syncing ==
    ASSUME KeyInv, NEW p \in Rotators, SyncManifest(p)
    PROVE  KeyInv'
<1> DEFINE m == rot[p].new
<1>1. /\ disk \in Dir /\ rot[p] \in Rotator /\ rot[p].pc = "renamed" /\ durable' = disk
      /\ m \in Manifest /\ rot[p].old \in Manifest /\ LoadKeys(disk) = m /\ m # None
      /\ UNCHANGED <<disk, init, ring, tokens, gen, now, torn>>
    BY DEF SyncManifest, KeyInv, TypeOK, Progress, Rotator
<1>2. /\ rot' \in [Rotators -> Rotator] /\ rot'[p].pc = "synced"
      /\ rot'[p].retain = rot[p].retain /\ rot'[p].emergency = rot[p].emergency
      /\ \A q \in Rotators \ {p} : rot'[q] = rot[q] /\ rot[q].pc = "idle"
    BY <1>1, Advancing DEF SyncManifest
<1>3. dropped' = IF rot[p].emergency THEN dropped \cup AllKeys(rot[p].old) ELSE dropped
    BY DEF SyncManifest, AllKeys
<1>4. /\ \A k \in AllKeys(m) : k <= gen /\ k \notin dropped
      /\ rot[p].emergency => AllKeys(m) \cap AllKeys(rot[p].old) = {}
      /\ \A k \in AllKeys(rot[p].old) : k <= gen
    BY <1>1 DEF KeyInv, Progress
<1>5. AllKeys(rot[p].old) \subseteq Key
    BY <1>1 DEF AllKeys, Manifest, Retained
<1>6. TypeOK'
    BY <1>1, <1>2, <1>3, <1>5 DEF KeyInv, TypeOK
<1>7. disk.keyring # None
    BY <1>1 DEF KeyInv, Progress
<1>8. Entries'
    BY <1>1, <1>7 DEF KeyInv, Entries
<1>9. Alone'
    BY <1>1, <1>2 DEF KeyInv, Alone, Offline
<1>10. Progress'
    BY <1>1, <1>2, <1>7 DEF KeyInv, Progress
<1>11. Load' /\ Undropped'
    BY <1>1, <1>3, <1>4 DEF KeyInv, Load, Undropped
<1>12. Covered'
  <2>1. \A n : Covers(n)' <=> Covers(n)
    BY <1>1 DEF Covers
  <2> QED
    BY <1>1, <1>2, <2>1 DEF KeyInv, Covered
<1> QED
    BY <1>6, <1>8, <1>9, <1>10, <1>11, <1>12 DEF KeyInv

\* signing.pem goes when keyring.json is durable; nothing loads it any more.
LEMMA Removing ==
    ASSUME KeyInv, NEW p \in Rotators, RemoveLegacy(p) \/ SyncRemoval(p)
    PROVE  KeyInv'
<1>1. /\ disk \in Dir /\ durable \in Dir /\ rot[p].pc \in {"synced", "removed"}
      /\ durable.keyring # None /\ disk.keyring # None
      /\ UNCHANGED <<init, ring, tokens, gen, now, dropped, torn>>
    BY DEF RemoveLegacy, SyncRemoval, KeyInv, TypeOK, Progress, Entries
<1>2. PICK pc \in {"removed", "done"} : rot' = [rot EXCEPT ![p].pc = pc]
    BY DEF RemoveLegacy, SyncRemoval
<1>3. /\ rot' \in [Rotators -> Rotator] /\ rot'[p].pc = pc
      /\ rot'[p].retain = rot[p].retain /\ rot'[p].emergency = rot[p].emergency
      /\ \A q \in Rotators \ {p} : rot'[q] = rot[q] /\ rot[q].pc = "idle"
    BY <1>1, <1>2, Advancing
<1>4. /\ disk' \in Dir /\ disk'.keyring = disk.keyring /\ disk'.made = disk.made
      /\ disk'.encryption = disk.encryption /\ disk'.lock = disk.lock
      /\ disk'.signing \in {disk.signing, None}
      /\ durable' \in {durable, disk'}
  <2>1. CASE RemoveLegacy(p)
    BY <1>1, <2>1 DEF RemoveLegacy, Dir
  <2>2. CASE SyncRemoval(p)
    BY <1>1, <2>2 DEF SyncRemoval
  <2> QED
    BY <2>1, <2>2
<1>5. LoadKeys(disk') = LoadKeys(disk) /\ LoadKeys(durable') \in {LoadKeys(durable), LoadKeys(disk)}
  <2>1. LoadKeys(disk') = LoadKeys(disk)
    BY <1>1, <1>4, LoadFacts DEF Dir
  <2> QED
    BY <1>4, <2>1
<1>6. TypeOK'
    BY <1>1, <1>3, <1>4 DEF KeyInv, TypeOK
<1>7. Entries'
    BY <1>1, <1>4 DEF KeyInv, Entries
<1>8. Alone'
    BY <1>1, <1>3, <1>4, <1>5 DEF KeyInv, Alone, Offline
<1>9. Progress'
    BY <1>1, <1>3, <1>4 DEF KeyInv, Progress
<1>10. Load' /\ Undropped'
    BY <1>1, <1>4, <1>5 DEF KeyInv, Load, Undropped
<1>11. Covered'
  <2>1. \A n : Covers(n)' <=> Covers(n)
    BY <1>1 DEF Covers
  <2>2. \A q \in Rotators : rot[q].pc # "renamed"
    BY <1>1, <1>3
  <2> QED
    BY <1>1, <1>3, <1>5, <2>1, <2>2 DEF KeyInv, Covered
<1> QED
    BY <1>6, <1>7, <1>8, <1>9, <1>10, <1>11 DEF KeyInv

-----------------------------------------------------------------------------
(* Tokens, power and time.                                                 *)

\* An issuer signs with the key of the ring in the directory.
LEMMA Signing ==
    ASSUME KeyInv, NEW s \in Servers, SigningKey(s)
    PROVE  KeyInv'
<1> DEFINE t == [key |-> ring[s].key, exp |-> now + Life]
<1>1. /\ ring[s] # None /\ ring[s] \in Manifest /\ ring[s] = LoadKeys(disk)
      /\ now \in Nat /\ Life \in Nat
      /\ UNCHANGED <<disk, durable, init, rot, ring, gen, now, dropped, torn>>
      /\ tokens' = tokens \cup {t}
    BY KeyAssumption, RetentionAssumption DEF SigningKey, KeyInv, TypeOK, Alone
<1>2. t \in [key: Key, exp: Nat] /\ t.key = ring[s].key /\ t.exp = now + Life
    BY <1>1, KeysAreNumbers
<1> HIDE DEF t
<1>3. \A p \in Rotators : rot[p].pc = "idle"
    BY <1>1 DEF KeyInv, Alone, Offline
<1>4. TypeOK' /\ Entries'
    BY <1>1, <1>2 DEF KeyInv, TypeOK, Entries
<1>5. Alone' /\ Progress' /\ Undropped'
    BY <1>1 DEF KeyInv, Alone, Offline, Progress, Undropped
<1>6. Load'
    BY <1>1 DEF KeyInv, Load
<1>7. Covered'
  <2>1. \A x \in tokens' : now <= x.exp /\ x.exp <= now + Life
    BY <1>1, <1>2 DEF KeyInv, Covered
  <2>2. ~torn => LoadKeys(durable) = ring[s] /\ Covers(ring[s])
    BY <1>1, <1>3 DEF KeyInv, Covered
  <2>3. Covers(ring[s]) => Covers(ring[s])'
    BY <1>1, <1>2 DEF Covers
  <2> QED
    BY <1>1, <1>3, <2>1, <2>2, <2>3 DEF Covered
<1> QED
    BY <1>4, <1>5, <1>6, <1>7 DEF KeyInv

\* A power loss stops everything and settles the directory.
LEMMA Losing ==
    ASSUME KeyInv, PowerLoss
    PROVE  KeyInv'
<1>1. disk \in Dir /\ durable \in Dir
    BY DEF KeyInv, TypeOK
<1>2. /\ disk'.made \in {disk.made, durable.made} /\ disk'.encryption = durable.encryption
      /\ disk'.signing \in {disk.signing, durable.signing}
      /\ disk'.keyring \in {disk.keyring, durable.keyring}
      /\ durable' = disk' /\ init' = FALSE
      /\ rot' = [p \in Rotators |-> IdleRotator] /\ ring' = [s \in Servers |-> None]
      /\ UNCHANGED <<tokens, gen, now, dropped, torn>>
    BY DEF PowerLoss
<1>3. disk' \in Dir
    BY <1>1 DEF PowerLoss, Dir
<1>4. LoadKeys(disk') \in {LoadKeys(disk), LoadKeys(durable)}
      /\ (LoadKeys(disk) # None => LoadKeys(disk') # None)
    BY <1>2, <1>3, LoadMix
<1>5. \A p \in Rotators : rot'[p] \in Rotator /\ rot'[p].pc = "idle"
    BY <1>2, Blank
<1>6. TypeOK'
    BY <1>2, <1>3, Blank DEF KeyInv, TypeOK
<1>7. Entries'
  <2>1. ~disk'.made => disk'.keyring = None /\ disk'.signing = None /\ ~disk'.encryption
    BY <1>1, <1>2 DEF KeyInv, Entries
  <2> QED
    BY <1>2, <2>1 DEF Entries
<1>8. Alone' /\ Progress'
    BY <1>2, <1>5 DEF Alone, Progress
<1>9. Load'
    BY <1>2, <1>4 DEF KeyInv, Load
<1>10. Undropped'
    BY <1>2, <1>4 DEF KeyInv, Undropped
<1>11. Covered'
  <2>1. \A n : Covers(n)' <=> Covers(n)
    BY <1>2 DEF Covers
  <2> QED
    BY <1>2, <1>4, <1>5, <2>1 DEF KeyInv, Covered
<1> QED
    BY <1>6, <1>7, <1>8, <1>9, <1>10, <1>11 DEF KeyInv

\* The clock drops expired tokens.
LEMMA Ticking ==
    ASSUME KeyInv, Tick
    PROVE  KeyInv'
<1>1. /\ UNCHANGED <<disk, durable, init, rot, ring, gen, dropped, torn>>
      /\ now \in Nat /\ now' = now + 1 /\ now' \in 0..MaxTime
      /\ tokens' = {t \in tokens : t.exp >= now + 1} /\ tokens' \subseteq tokens
    BY KeyAssumption DEF Tick, KeyInv, TypeOK
<1>2. TypeOK' /\ Entries'
    BY <1>1 DEF KeyInv, TypeOK, Entries
<1>3. Alone' /\ Progress' /\ Undropped'
    BY <1>1 DEF KeyInv, Alone, Offline, Progress, Undropped
<1>4. Load'
    BY <1>1 DEF KeyInv, Load
<1>5. Covered'
  <2>1. \A n : Covers(n) => Covers(n)'
    BY <1>1 DEF Covers
  <2>2. \A t \in tokens' : now' <= t.exp /\ t.exp <= now' + Life
    BY <1>1, RetentionAssumption DEF KeyInv, TypeOK, Covered
  <2> QED
    BY <1>1, <2>1, <2>2 DEF KeyInv, Covered
<1> QED
    BY <1>2, <1>3, <1>4, <1>5 DEF KeyInv

-----------------------------------------------------------------------------
(* Theorems.                                                               *)

\* Every step of KeyRing keeps the invariant.
LEMMA KeyStep == KeyInv /\ [Next]_vars => KeyInv'
<1> SUFFICES ASSUME KeyInv, [Next]_vars PROVE KeyInv'
    OBVIOUS
<1>1. CASE UNCHANGED vars
    BY <1>1 DEF vars, KeyInv, TypeOK, Entries, Alone, Offline, Progress, Load, Undropped,
       Covered, Covers
<1>2. CASE Next
    BY <1>2, Claiming, Writing, Serving, Signing, Locking, Building, Renaming, Syncing, Removing,
       Ending, Losing, Ticking DEF Next
<1> QED
    BY <1>1, <1>2

\* The inductive invariant holds in every state of the specification.
THEOREM Rings == Spec => []KeyInv
<1>1. Init => KeyInv
  <2> SUFFICES ASSUME Init PROVE KeyInv
    OBVIOUS
  <2>1. TypeOK
    <3>1. gen \in 0..MaxKey /\ now \in 0..MaxTime
      BY KeyAssumption DEF Init
    <3>2. disk \in Dir /\ durable \in Dir /\ init \in BOOLEAN /\ torn \in BOOLEAN
      BY Blank DEF Init
    <3> QED
      BY <3>1, <3>2, Blank DEF Init, TypeOK
  <2>2. /\ disk.made = FALSE /\ disk.encryption = FALSE /\ disk.signing = None
        /\ disk.keyring = None /\ durable = disk
    BY DEF Init, EmptyDir
  <2>3. \A p \in Rotators : rot[p].pc = "idle"
    BY Blank DEF Init
  <2>4. LoadKeys(disk) = None /\ LoadKeys(durable) = None
    BY <2>2 DEF LoadKeys
  <2>5. Entries /\ Alone /\ Progress
    BY <2>2, <2>3 DEF Init, Entries, Alone, Progress
  <2>6. Load /\ Undropped /\ Covered
    BY <2>2, <2>3, <2>4 DEF Init, Load, Undropped, Covered
  <2> QED
    BY <2>1, <2>5, <2>6 DEF KeyInv
<1> QED
    BY <1>1, KeyStep, PTL DEF Spec

\* RotateKeys retains every key whose tokens may still be presented: the ring in the
\* directory verifies them, after any interrupted rotation but a torn one.
THEOREM TokensVerify == Spec => [](TypeOK /\ SignedTokensVerify)
<1>1. KeyInv => TypeOK /\ SignedTokensVerify
  <2> SUFFICES ASSUME KeyInv, ~torn, LoadKeys(disk) # None, NEW t \in tokens
               PROVE  t.key \in KeySet(LoadKeys(disk))
    BY DEF KeyInv, SignedTokensVerify
  <2> DEFINE m == LoadKeys(disk)
  <2>1. /\ t.exp \in Nat /\ now <= t.exp /\ now \in Nat /\ m \in Manifest
        /\ t.key = m.key \/ \E r \in m.previous : r.key = t.key /\ t.exp < r.until
    BY LoadFacts, KeyAssumption DEF KeyInv, TypeOK, Covered, Covers
  <2>2. \A r \in m.previous : r.until \in Nat
    BY <2>1, KeysAreNumbers DEF Retained
  <2> HIDE DEF m
  <2>3. t.key = m.key \/ \E r \in m.previous : r.key = t.key /\ r.until > now
    BY <2>1, <2>2
  <2>4. t.key \in KeySet(m)
    BY <2>3 DEF KeySet
  <2> QED
    BY <2>4 DEF m
<1> QED
    BY <1>1, Rings, PTL

\* A key that an emergency rotation left out is in no ring that an issuer has or that
\* the directory can load, even when a power loss brings signing.pem back.
THEOREM DroppedForGood == Spec => []DroppedKeysStayDropped
<1>1. KeyInv => DroppedKeysStayDropped
  <2> SUFFICES ASSUME KeyInv PROVE DroppedKeysStayDropped
    OBVIOUS
  <2>1. \A m : KeySet(m) \subseteq AllKeys(m)
    BY DEF KeySet, AllKeys
  <2>2. \A m \in {LoadKeys(disk), LoadKeys(durable)} : m # None => KeySet(m) \cap dropped = {}
    BY <2>1 DEF KeyInv, Undropped
  <2>3. \A s \in Servers : ring[s] # None => ring[s] = LoadKeys(disk)
    BY DEF KeyInv, Alone
  <2> QED
    BY <2>2, <2>3 DEF DroppedKeysStayDropped
<1> QED
    BY <1>1, Rings, PTL

\* No step, fault or power loss makes a directory that loads one that does not.
THEOREM LoadsOnce == Spec => LoadsForEver
<1> DEFINE A == LoadKeys(disk) # None => LoadKeys(disk)' # None
<1>1. KeyInv /\ [Next]_vars => [A]_vars
  <2> SUFFICES ASSUME KeyInv, Next, LoadKeys(disk) # None PROVE LoadKeys(disk') # None
    OBVIOUS
  <2>1. disk \in Dir /\ disk' \in Dir /\ disk.encryption /\ disk.made /\ ~init
    BY KeyStep, LoadFacts DEF KeyInv, TypeOK, Entries, Alone
  <2>2. CASE PowerLoss
    BY <2>1, <2>2, LoadMix DEF PowerLoss
  <2>3. ASSUME NEW p \in Rotators, RemoveLegacy(p) PROVE LoadKeys(disk') # None
    <3>1. disk.keyring # None
      BY <2>3 DEF RemoveLegacy, KeyInv, Progress, Entries
    <3>2. disk'.keyring = disk.keyring /\ disk'.encryption = disk.encryption
      BY <2>1, <2>3 DEF RemoveLegacy, Dir
    <3> QED
      BY <2>1, <3>1, <3>2, LoadFacts
  <2>4. ASSUME NEW p \in Rotators, RenameManifest(p) PROVE LoadKeys(disk') # None
    <3>1. rot[p].new # None
      BY <2>4 DEF RenameManifest, KeyInv, Progress
    <3>2. disk'.keyring = rot[p].new /\ disk'.encryption = disk.encryption
      BY <2>1, <2>4 DEF RenameManifest, Dir
    <3> QED
      BY <2>1, <3>1, <3>2, LoadFacts
  <2>5. ASSUME NEW b \in BOOLEAN, disk' = [disk EXCEPT !.lock = b] PROVE LoadKeys(disk') # None
    <3>1. /\ disk'.encryption = disk.encryption /\ disk'.signing = disk.signing
          /\ disk'.keyring = disk.keyring
      BY <2>1, <2>5 DEF Dir
    <3> QED
      BY <3>1, LoadSame
  <2>6. CASE disk' = disk
    BY <2>6
  <2>7. ~InitializeKeys /\ \A file \in {"signing", "encryption"} : ~InitWrite(file)
    BY <2>1 DEF InitializeKeys, InitWrite
  <2>8. CASE ClearLock \/ \E p \in Rotators : \/ Return(p)
          \/ \E retain \in Retains, emergency \in BOOLEAN : RotateKeys(p, retain, emergency)
    BY <2>5, <2>8 DEF ClearLock, Return, RotateKeys
  <2> QED
    BY <2>2, <2>3, <2>4, <2>6, <2>7, <2>8 DEF Next, Serve, Stop, SigningKey, BuildManifest,
       SyncManifest, SyncRemoval, Kill, Tick
<1> QED
    BY <1>1, Rings, PTL DEF Spec, LoadsForEver

=============================================================================
