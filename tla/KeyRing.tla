------------------------------ MODULE KeyRing ------------------------------
(***************************************************************************)
(* Signing keys on disk and in the issuer (internal/core: keys.go,         *)
(* key_rotation.go; cmd/fastcas: init-keys, rotate-keys, serve).           *)
(*                                                                         *)
(* Rotation runs while every issuer is stopped and writes one file at a    *)
(* time, so the process may die, or the machine lose power, between any    *)
(* two writes.  fsync of a file makes its contents and its creation        *)
(* durable; a rename or a removal is durable once the directory is synced, *)
(* and until then a power loss may undo it.  A file that was being written *)
(* when its writer died counts as missing: LoadKeys refuses both.  Keys    *)
(* are numbered in the order in which they are generated.                  *)
(***************************************************************************)
EXTENDS Naturals, FiniteSets

CONSTANTS
    Servers,     \* issuer replicas
    Rotators,    \* rotate-keys processes
    Life,        \* lifetime of a signed token
    MinRetain,   \* the least retention RotateKeys accepts
    Retains,     \* values of --retain
    MaxKey,      \* bound: keys generated
    MaxTime,     \* bound: clock
    None

ASSUME RetentionAssumption == /\ Life \in Nat /\ MinRetain \in Nat
                              /\ Life < MinRetain /\ Retains \subseteq Nat
ASSUME KeyAssumption == MaxKey \in Nat /\ MaxTime \in Nat

VARIABLES
    disk,      \* the key directory as processes see it
    durable,   \* the entries of it that a power loss cannot undo
    init,      \* the init-keys process
    rot,       \* the rotate-keys processes
    ring,      \* s.Keys of every issuer
    tokens,    \* signed tokens, not expired and not given up by an emergency rotation
    gen,       \* keys generated so far
    now,       \* clock
    dropped,   \* history: keys left out by an emergency rotation
    torn       \* history: a rotation ended between its rename and its sync

vars == <<disk, durable, init, rot, ring, tokens, gen, now, dropped, torn>>

Key == 1..MaxKey
Retained == [key: Key, until: Nat]
\* keyring.json, or what signing.pem stands for: no retained keys.
Manifest == [key: Key, previous: SUBSET Retained]
Dir == [made: BOOLEAN, encryption: BOOLEAN, signing: Key \cup {None},
        keyring: Manifest \cup {None}, lock: BOOLEAN]
EmptyDir == [made |-> FALSE, encryption |-> FALSE, signing |-> None,
             keyring |-> None, lock |-> FALSE]
Rotator == [pc: {"idle", "locked", "built", "renamed", "synced", "removed", "done"},
            emergency: BOOLEAN, retain: Nat, old: Manifest \cup {None},
            new: Manifest \cup {None}]
IdleRotator == [pc |-> "idle", emergency |-> FALSE, retain |-> 0, old |-> None, new |-> None]

\* A missing file is neither a key nor a manifest.
ASSUME NoneAssumption == None \notin Key /\ None \notin Manifest

\* The directory, the processes and the rings hold what their types allow.
TypeOK ==
    /\ disk \in Dir /\ durable \in Dir
    /\ init \in BOOLEAN /\ torn \in BOOLEAN
    /\ rot \in [Rotators -> Rotator]
    /\ ring \in [Servers -> Manifest \cup {None}]
    /\ tokens \subseteq [key: Key, exp: Nat]
    /\ gen \in 0..MaxKey /\ now \in 0..MaxTime
    /\ dropped \subseteq Key

Init ==
    /\ disk = EmptyDir /\ durable = EmptyDir
    /\ init = FALSE /\ torn = FALSE
    /\ rot = [p \in Rotators |-> IdleRotator]
    /\ ring = [s \in Servers |-> None]
    /\ tokens = {} /\ gen = 0 /\ now = 0 /\ dropped = {}

Offline == \A s \in Servers : ring[s] = None
Quiet == ~init /\ \A p \in Rotators : rot[p].pc = "idle"

-----------------------------------------------------------------------------
(* init-keys.                                                              *)

\* os.Mkdir claims the directory and refuses one that exists.
InitializeKeys ==
    /\ ~disk.made
    /\ disk' = [disk EXCEPT !.made = TRUE] /\ init' = TRUE
    /\ UNCHANGED <<durable, rot, ring, tokens, gen, now, dropped, torn>>

\* The files are written in the order of a map, that is in any order.
InitWrite(file) ==
    /\ init /\ gen < MaxKey
    /\ \/ file = "signing" /\ disk.signing = None /\ disk' = [disk EXCEPT !.signing = gen + 1]
          /\ gen' = gen + 1
       \/ file = "encryption" /\ ~disk.encryption
          /\ disk' = [disk EXCEPT !.encryption = TRUE] /\ gen' = gen
    /\ durable' = disk'
    /\ init' = ~(disk'.encryption /\ disk'.signing # None)
    /\ UNCHANGED <<rot, ring, tokens, now, dropped, torn>>

-----------------------------------------------------------------------------
(* The issuer.                                                             *)

\* Mutant: a keyring.json is ignored while signing.pem is there.
LoadKeysLegacyFirst(d) ==
    IF ~d.encryption THEN None
    ELSE IF d.signing # None THEN [key |-> d.signing, previous |-> {}]
    ELSE d.keyring

LoadKeys(d) ==
    IF ~d.encryption THEN None
    ELSE IF d.keyring # None THEN d.keyring
    ELSE IF d.signing # None THEN [key |-> d.signing, previous |-> {}]
    ELSE None

\* The keys an issuer with manifest m publishes.
KeySet(m) == {m.key} \cup {r.key : r \in {q \in m.previous : q.until > now}}

Serve(s) ==
    /\ ring[s] = None /\ Quiet
    /\ LoadKeys(disk) # None
    /\ ring' = [ring EXCEPT ![s] = LoadKeys(disk)]
    /\ UNCHANGED <<disk, durable, init, rot, tokens, gen, now, dropped, torn>>

Stop(s) ==
    /\ ring[s] # None
    /\ ring' = [ring EXCEPT ![s] = None]
    /\ UNCHANGED <<disk, durable, init, rot, tokens, gen, now, dropped, torn>>

SigningKey(s) ==
    /\ ring[s] # None
    /\ tokens' = tokens \cup {[key |-> ring[s].key, exp |-> now + Life]}
    /\ UNCHANGED <<disk, durable, init, rot, ring, gen, now, dropped, torn>>

-----------------------------------------------------------------------------
(* rotate-keys.                                                            *)

RetentionOK(retain, emergency) == emergency \/ retain >= MinRetain

\* The operator has stopped the issuers; rotation.lock is created with O_EXCL.
RotateKeys(p, retain, emergency) ==
    /\ Offline /\ ~init /\ rot[p].pc = "idle"
    /\ RetentionOK(retain, emergency)
    /\ disk.made /\ ~disk.lock
    /\ disk' = [disk EXCEPT !.lock = TRUE]
    /\ rot' = [rot EXCEPT ![p] = [IdleRotator EXCEPT !.pc = "locked", !.retain = retain,
                                                     !.emergency = emergency]]
    /\ UNCHANGED <<durable, init, ring, tokens, gen, now, dropped, torn>>

\* Mutant: only the key in use is retained.
RetainedKeysLast(m, until) == {[key |-> m.key, until |-> until]}

RetainedKeys(m, until) ==
    {[key |-> m.key, until |-> until]} \cup {r \in m.previous : r.until > now}

\* LoadKeys, the new key, the manifest, and the temporary file with its fsync.
BuildManifest(p) ==
    LET m == LoadKeys(disk) IN
    /\ rot[p].pc = "locked" /\ m # None /\ gen < MaxKey
    /\ gen' = gen + 1
    /\ rot' = [rot EXCEPT ![p].pc = "built", ![p].old = m,
         ![p].new = [key |-> gen + 1,
                     previous |-> IF rot[p].emergency THEN {}
                                  ELSE RetainedKeys(m, now + rot[p].retain)]]
    /\ UNCHANGED <<disk, durable, init, ring, tokens, now, dropped, torn>>

RenameManifest(p) ==
    /\ rot[p].pc = "built"
    /\ disk' = [disk EXCEPT !.keyring = rot[p].new]
    /\ rot' = [rot EXCEPT ![p].pc = "renamed"]
    /\ tokens' = IF rot[p].emergency THEN {} ELSE tokens
    /\ UNCHANGED <<durable, init, ring, gen, now, dropped, torn>>

\* Mutant: the directory is not synced before signing.pem is removed.
SyncManifestLater(p) ==
    /\ rot[p].pc = "renamed"
    /\ rot' = [rot EXCEPT ![p].pc = "synced"]
    /\ dropped' = IF rot[p].emergency
                    THEN dropped \cup {rot[p].old.key} \cup {r.key : r \in rot[p].old.previous}
                    ELSE dropped
    /\ UNCHANGED <<disk, durable, init, ring, tokens, gen, now, torn>>

SyncManifest(p) ==
    /\ rot[p].pc = "renamed"
    /\ durable' = disk
    /\ rot' = [rot EXCEPT ![p].pc = "synced"]
    /\ dropped' = IF rot[p].emergency
                    THEN dropped \cup {rot[p].old.key} \cup {r.key : r \in rot[p].old.previous}
                    ELSE dropped
    /\ UNCHANGED <<disk, init, ring, tokens, gen, now, torn>>

RemoveLegacy(p) ==
    /\ rot[p].pc = "synced"
    /\ disk' = [disk EXCEPT !.signing = None]
    /\ rot' = [rot EXCEPT ![p].pc = "removed"]
    /\ UNCHANGED <<durable, init, ring, tokens, gen, now, dropped, torn>>

SyncRemoval(p) ==
    /\ rot[p].pc = "removed"
    /\ durable' = disk
    /\ rot' = [rot EXCEPT ![p].pc = "done"]
    /\ UNCHANGED <<disk, init, ring, tokens, gen, now, dropped, torn>>

\* The deferred calls remove the lock, after success and after every error.
Return(p) ==
    /\ rot[p].pc # "idle"
    /\ disk' = [disk EXCEPT !.lock = FALSE]
    /\ rot' = [rot EXCEPT ![p] = IdleRotator]
    /\ torn' = (torn \/ rot[p].pc = "renamed")
    /\ UNCHANGED <<durable, init, ring, tokens, gen, now, dropped>>

-----------------------------------------------------------------------------
(* Faults, the operator and time.                                          *)

\* A process is killed; its lock stays.
Kill ==
    /\ \/ init /\ init' = FALSE /\ UNCHANGED <<rot, torn>>
       \/ \E p \in Rotators :
            /\ rot[p].pc # "idle"
            /\ rot' = [rot EXCEPT ![p] = IdleRotator]
            /\ torn' = (torn \/ rot[p].pc = "renamed")
            /\ UNCHANGED init
    /\ UNCHANGED <<disk, durable, ring, tokens, gen, now, dropped>>

\* Every process dies and each entry that was not synced may be undone.
PowerLoss ==
    /\ disk' \in [made: {disk.made, durable.made}, encryption: {durable.encryption},
                  signing: {disk.signing, durable.signing},
                  keyring: {disk.keyring, durable.keyring},
                  lock: {disk.lock, durable.lock}]
    /\ durable' = disk'
    /\ init' = FALSE
    /\ rot' = [p \in Rotators |-> IdleRotator]
    /\ ring' = [s \in Servers |-> None]
    /\ UNCHANGED <<tokens, gen, now, dropped, torn>>

\* The operator removes the lock of a process that died.
ClearLock ==
    /\ Quiet /\ disk.lock
    /\ disk' = [disk EXCEPT !.lock = FALSE]
    /\ UNCHANGED <<durable, init, rot, ring, tokens, gen, now, dropped, torn>>

Tick ==
    /\ now < MaxTime
    /\ now' = now + 1
    /\ tokens' = {t \in tokens : t.exp >= now + 1}
    /\ UNCHANGED <<disk, durable, init, rot, ring, gen, dropped, torn>>

Next ==
    \/ InitializeKeys \/ (\E file \in {"signing", "encryption"} : InitWrite(file))
    \/ \E s \in Servers : Serve(s) \/ Stop(s) \/ SigningKey(s)
    \/ \E p \in Rotators :
         \/ \E retain \in Retains, emergency \in BOOLEAN : RotateKeys(p, retain, emergency)
         \/ BuildManifest(p) \/ RenameManifest(p) \/ SyncManifest(p)
         \/ RemoveLegacy(p) \/ SyncRemoval(p) \/ Return(p)
    \/ Kill \/ PowerLoss \/ ClearLock \/ Tick

Spec == Init /\ [][Next]_vars

-----------------------------------------------------------------------------
(* Properties.                                                             *)

\* Once the key directory loads it loads for ever: no kill and no power loss
\* between the writes of a rotation leaves a directory without a signing key.
LoadsForEver == [][LoadKeys(disk) # None => LoadKeys(disk)' # None]_vars

\* A signed token can be verified until it expires: however often keys are
\* rotated and wherever rotations are interrupted, the ring in the directory
\* publishes its key, unless an emergency rotation gave it up.  A rotation that
\* ended between its rename and its sync is excepted: the new ring may be
\* served and then undone by a later power loss.
SignedTokensVerify ==
    ~torn /\ Quiet /\ LoadKeys(disk) # None =>
        \A t \in tokens : t.key \in KeySet(LoadKeys(disk))

\* A key that an emergency rotation left out is never published again: not by
\* an issuer, not after a later rotation, and not after a power loss that
\* brings signing.pem back.
DroppedKeysStayDropped ==
    /\ \A s \in Servers : ring[s] # None => KeySet(ring[s]) \cap dropped = {}
    /\ \A d \in {disk, durable} :
         LoadKeys(d) # None => KeySet(LoadKeys(d)) \cap dropped = {}

=============================================================================
