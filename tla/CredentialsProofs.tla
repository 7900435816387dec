-------------------------- MODULE CredentialsProofs --------------------------
(***************************************************************************)
(* Proofs about Credentials, in layers that each rest on the ones before.  *)
(*                                                                         *)
(* Typed: rows and requests name users, sessions and credentials that      *)
(* exist, and a user has one recovery in flight.                           *)
(* Factors: a secret belongs to one user and is new when it is generated;  *)
(* steps from mfa_last_step on, secrets that wait for their confirmation   *)
(* and recovery codes that are still valid have not been used.             *)
(* Followed: a recovery has swept every session but those inserted since;  *)
(* what a password change verified is still enrolled while its session     *)
(* lives.                                                                  *)
(* Superseded: what an issue had to void is spent when it commits.         *)
(***************************************************************************)
EXTENDS Credentials, TLAPS

\* The rows name existing users.
SessOwned == \A s \in Sessions :
    sess[s].st # "absent" => sess[s].u \in Users /\ ident[sess[s].u].st = "active"
CredOwned == \A c \in Creds : IF cred[c].st = "absent" THEN cred[c] = NoCred ELSE cred[c].u \in Users

UsesSession(q) == \/ q.op \in {"confirm", "reauth", "change"}
                  \/ q.op = "login" /\ q.pc = "mark"

\* What request q has read still exists in identities id, sessions ss and
\* credentials cr.
ReqOK(q, id, ss, cr) ==
    /\ IF q.op = "idle" THEN q = Idle ELSE q.u \in Users
    /\ UsesSession(q) => q.s \in Sessions /\ ss[q.s].st # "absent" /\ ss[q.s].u = q.u
    /\ q.op \in {"reset", "recover"} => q.c \in Creds
    /\ \A c \in Creds : c = q.c \/ c \in q.over => cr[c].st # "absent"
    /\ q.op = "recover" => q.pc = "swept" /\ id[q.u].st = "active" /\ id[q.u].pw < MaxPw

OneRecovery == \A q, r \in Reqs :
    req[q].op = "recover" /\ req[r].op = "recover" /\ req[q].u = req[r].u => q = r

Typed == /\ TypeOK /\ SessOwned /\ CredOwned /\ OneRecovery
         /\ \A r \in Reqs : ReqOK(req[r], ident, sess, cred)

\* Secret k is, or waits to become, the second factor of u.
Holds(u, k) == k # 0 /\ (ident[u].mfa = k \/ ident[u].pend = k)
SecretsOwned ==
    /\ \A u \in Users : ident[u].mfa # 0 => ident[u].pend = 0
    /\ \A u \in Users, k \in 1..MaxSecret : Holds(u, k) => k <= made.secrets
    /\ \A u, w \in Users, k \in 1..MaxSecret : Holds(u, k) /\ Holds(w, k) => u = w

\* What has not been accepted yet.
StepsUnused == \A k \in 1..MaxSecret, t \in 0..MaxStep :
    /\ k > made.secrets => uses[<<k, t>>] = 0
    /\ \A u \in Users : ident[u].pend = k => uses[<<k, t>>] = 0
    /\ \A u \in Users : ident[u].mfa = k /\ t >= ident[u].last => uses[<<k, t>>] = 0
CodesUnused == \A n \in 1..MaxCodes :
    /\ n > made.codes => uses[<<0, n>>] = 0 /\ code[n].u = None
    /\ code[n].u # None => /\ code[n].u \in Users /\ code[n].secret # 0
                           /\ uses[<<0, n>>] = 0
FactorInv == SecretsOwned /\ StepsUnused /\ CodesUnused /\ CodesMatchSecret /\ FactorAcceptedOnce

\* The sessions a recovery has not swept were inserted after its sweep.
RecoveryCovers == \A r \in Reqs, s \in Sessions :
    req[r].op = "recover" /\ sess[s].st = "live" /\ ~sess[s].late /\ sess[s].u = req[r].u
      => s \in req[r].swept
\* What a password change has verified, while its session lives.
ChangeOK(q, id, ss) ==
    q.op = "change" =>
      /\ q.pc \in {"entered", "password"} \/ ~q.enabled => q.factor = 0
      /\ q.pc = "mfa" => q.enabled
      /\ q.pc = "verified" /\ q.enabled /\ ss[q.s].st = "live" =>
           q.factor # 0 /\ q.factor = id[q.u].mfa
SessInv == SessionsFollowCredentials /\ RecoveryCovers
           /\ \A r \in Reqs : ChangeOK(req[r], ident, sess)

\* The credentials that an issue had to void are spent.
Voided == \A d \in Creds : \A c \in cred[d].over : cred[c].st = "spent"

-----------------------------------------------------------------------------
(* Rows.                                                                   *)

\* The columns of an identity.
LEMMA IdentRow ==
    ASSUME NEW i \in Ident
    PROVE  /\ i.st \in {"absent", "active"} /\ i.pw \in 0..MaxPw /\ i.mfa \in 0..MaxSecret
           /\ i.pend \in 0..MaxSecret /\ i.last \in 0..(MaxStep + 1)
    BY DEF Ident

\* Revoked changes only live rows of its set, and no owner.
LEMMA RevokedRows ==
    ASSUME sess \in [Sessions -> Sess], NEW S
    PROVE  /\ Revoked(S) \in [Sessions -> Sess]
           /\ \A s \in Sessions : Revoked(S)[s].u = sess[s].u
           /\ \A s \in Sessions : Revoked(S)[s].st = "absent" <=> sess[s].st = "absent"
           /\ \A s \in Sessions : Revoked(S)[s] = sess[s] \/ Revoked(S)[s].st = "revoked"
           /\ \A s \in Sessions : s \in S => Revoked(S)[s].st # "live"
           /\ \A s \in Sessions : s \notin S => Revoked(S)[s] = sess[s]
<1> SUFFICES ASSUME NEW s \in Sessions
             PROVE  /\ Revoked(S)[s] \in Sess /\ Revoked(S)[s].u = sess[s].u
                    /\ Revoked(S)[s].st = "absent" <=> sess[s].st = "absent"
                    /\ Revoked(S)[s] = sess[s] \/ Revoked(S)[s].st = "revoked"
                    /\ s \in S => Revoked(S)[s].st # "live"
                    /\ s \notin S => Revoked(S)[s] = sess[s]
    BY DEF Revoked
<1> DEFINE row == [NoSess EXCEPT !.st = "revoked", !.u = sess[s].u]
<1>1. sess[s].u \in Users \cup {None} /\ 0 \in 0..MaxPw /\ 0 \in 0..MaxSecret
    BY BoundsAssumption DEF Sess
<1>2. row \in Sess /\ row.st = "revoked" /\ row.u = sess[s].u
    BY <1>1 DEF NoSess, Sess
<1>3. Revoked(S)[s] = IF s \in S /\ sess[s].st = "live" THEN row ELSE sess[s]
    BY DEF Revoked
<1> HIDE DEF row
<1> QED
    BY <1>2, <1>3

\* Void spends the rows of its set.
LEMMA VoidRows ==
    ASSUME cred \in [Creds -> Cred], NEW S
    PROVE  /\ Void(S) \in [Creds -> Cred]
           /\ \A c \in Creds : c \notin S => Void(S)[c] = cred[c]
           /\ \A c \in Creds : c \in S => /\ Void(S)[c].st = "spent" /\ Void(S)[c].over = {}
                                          /\ Void(S)[c].u = cred[c].u
<1> SUFFICES ASSUME NEW c \in Creds
             PROVE  /\ Void(S)[c] \in Cred
                    /\ c \notin S => Void(S)[c] = cred[c]
                    /\ c \in S => /\ Void(S)[c].st = "spent" /\ Void(S)[c].over = {}
                                  /\ Void(S)[c].u = cred[c].u
    BY DEF Void
<1> DEFINE row == [cred[c] EXCEPT !.st = "spent", !.over = {}]
<1>1. row \in Cred /\ row.st = "spent" /\ row.over = {} /\ row.u = cred[c].u
  <2>1. cred[c] \in Cred /\ {} \in SUBSET Creds
    OBVIOUS
  <2> QED
    BY <2>1 DEF Cred
<1>2. Void(S)[c] = IF c \in S THEN row ELSE cred[c]
    BY DEF Void
<1> HIDE DEF row
<1> QED
    BY <1>1, <1>2

\* A request that has not begun.
LEMMA IdleRow ==
    /\ Idle \in Req /\ Idle.op = "idle" /\ Idle.pc = "entered" /\ Idle.over = {} /\ Idle.swept = {}
    /\ Idle.factor = 0 /\ Idle.c = None /\ None \notin Creds
<1>1. 0 \in 0..MaxPw /\ 0 \in 0..MaxSecret
    BY BoundsAssumption
<1> QED
    BY <1>1, NoneAssumption DEF Idle, Req

-----------------------------------------------------------------------------
(* Types.                                                                  *)

\* What a step has to show: rows do not vanish or change hands, and a request
\* that waits to recover keeps its user's password.
LEMMA Assemble ==
    ASSUME Typed,
           ident' \in [Users -> Ident], sess' \in [Sessions -> Sess], cred' \in [Creds -> Cred],
           req' \in [Reqs -> Req], code' \in [1..MaxCodes -> [u: Users \cup {None}, secret: 0..MaxSecret]],
           made' \in [secrets: 0..MaxSecret, codes: 0..MaxCodes], uses' \in [Factors -> 0..2],
           \A u \in Users : ident[u].st = "active" => ident'[u].st = "active",
           \A s \in Sessions : sess[s].st # "absent" =>
                sess'[s].st # "absent" /\ sess'[s].u = sess[s].u,
           \A s \in Sessions : sess'[s].st # "absent" /\ sess[s].st = "absent" =>
                sess'[s].u \in Users /\ ident'[sess'[s].u].st = "active",
           \A c \in Creds : cred'[c] = cred[c] \/ (cred'[c].st # "absent" /\ cred'[c].u \in Users),
           \A r \in Reqs : req'[r] = req[r]
                \/ (ReqOK(req'[r], ident', sess', cred') /\ req'[r].op # "recover"),
           \A r \in Reqs : req'[r] = req[r] /\ req[r].op = "recover" =>
                ident'[req[r].u].pw = ident[req[r].u].pw
    PROVE  Typed'
<1>1. TypeOK'
    BY DEF TypeOK
<1>2. SessOwned'
    BY DEF Typed, SessOwned
<1>3. CredOwned'
    BY DEF Typed, CredOwned
<1>4. ASSUME NEW r \in Reqs PROVE ReqOK(req'[r], ident', sess', cred')
  <2>1. ReqOK(req[r], ident, sess, cred)
    BY DEF Typed
  <2> QED
    BY <2>1 DEF ReqOK
<1>5. OneRecovery'
    BY DEF Typed, OneRecovery
<1> QED
    BY <1>1, <1>2, <1>3, <1>4, <1>5 DEF Typed

\* A step that only moves one request on.
LEMMA Moving ==
    ASSUME Typed, NEW r \in Reqs, NEW n \in Req, req' = [req EXCEPT ![r] = n],
           ReqOK(n, ident, sess, cred), n.op # "recover",
           UNCHANGED <<ident, code, sess, cred, made, uses>>
    PROVE  Typed'
<1>1. /\ req \in [Reqs -> Req] /\ req'[r] = n /\ req' \in [Reqs -> Req]
      /\ \A q \in Reqs \ {r} : req'[q] = req[q]
    BY DEF Typed, TypeOK
<1>2. TypeOK
    BY DEF Typed
<1> QED
    BY <1>1, <1>2, Assemble DEF TypeOK

\* A request that ends.
LEMMA Ending ==
    ASSUME Typed, NEW r \in Reqs, Done(r)
    PROVE  /\ req' \in [Reqs -> Req] /\ req'[r] = Idle
           /\ \A q \in Reqs : req'[q] = req[q]
                \/ (ReqOK(req'[q], ident', sess', cred') /\ req'[q].op # "recover")
           /\ \A q \in Reqs \ {r} : req'[q] = req[q]
<1>1. req \in [Reqs -> Req] /\ req' = [req EXCEPT ![r] = Idle]
    BY DEF Typed, TypeOK, Done
<1>2. ReqOK(Idle, ident', sess', cred')
    BY IdleRow DEF ReqOK, UsesSession
<1> QED
    BY <1>1, <1>2, IdleRow

-----------------------------------------------------------------------------
(* What the statements do, row by row.                                     *)

\* An identity's row is replaced.
IdentBecomes(u, st, pw, mfa, pend, last) ==
    /\ ident' \in [Users -> Ident]
    /\ ident'[u].st = st /\ ident'[u].pw = pw /\ ident'[u].mfa = mfa
    /\ ident'[u].pend = pend /\ ident'[u].last = last
    /\ \A w \in Users \ {u} : ident'[w] = ident[w]

\* A statement that writes a whole row of identities.
LEMMA Replacing ==
    ASSUME Typed, NEW u \in Users, NEW row \in Ident, ident' = [ident EXCEPT ![u] = row]
    PROVE  IdentBecomes(u, row.st, row.pw, row.mfa, row.pend, row.last)
<1>1. ident \in [Users -> Ident]
    BY DEF Typed, TypeOK
<1>2. ident' \in [Users -> Ident] /\ ident'[u] = row /\ \A w \in Users \ {u} : ident'[w] = ident[w]
    BY <1>1
<1> QED
    BY <1>2 DEF IdentBecomes

\* The row of an identity.
LEMMA Stored ==
    ASSUME Typed, NEW u \in Users
    PROVE  /\ ident[u] \in Ident
           /\ ident[u].pw \in 0..MaxPw /\ ident[u].mfa \in 0..MaxSecret
           /\ ident[u].pend \in 0..MaxSecret /\ ident[u].last \in 0..(MaxStep + 1)
           /\ 0 \in 0..MaxSecret /\ 0 \in 0..(MaxStep + 1)
<1>1. ident[u] \in Ident
    BY DEF Typed, TypeOK
<1>2. 0 \in 0..MaxSecret /\ 0 \in 0..(MaxStep + 1)
    BY BoundsAssumption
<1> QED
    BY <1>1, <1>2, IdentRow

\* A factor is accepted.
LEMMA Accepting ==
    ASSUME Typed, NEW f \in Factors, Use(f)
    PROVE  /\ uses' \in [Factors -> 0..2]
           /\ uses[f] = 0 => uses'[f] = 1
           /\ \A g \in Factors : g # f => uses'[g] = uses[g]
    BY DEF Typed, TypeOK, Use

\* Factors as pairs.
LEMMA TotpPairs ==
    ASSUME NEW f \in Totp
    PROVE  /\ f \in Factors /\ f[1] \in 1..MaxSecret /\ f[2] \in 0..MaxStep /\ f = <<f[1], f[2]>>
           /\ f[2] + 1 \in 0..(MaxStep + 1)
    BY BoundsAssumption DEF Totp, Factors

\* Every factor is a step of a secret or a recovery code, and not both.
LEMMA Pairs ==
    /\ \A k \in 1..MaxSecret, t \in 0..MaxStep : <<k, t>> \in Factors
    /\ \A n \in 1..MaxCodes : <<0, n>> \in Factors
    /\ \A g \in Factors : \/ \E k \in 1..MaxSecret, t \in 0..MaxStep : g = <<k, t>>
                          \/ \E n \in 1..MaxCodes : g = <<0, n>>
    /\ \A k \in 1..MaxSecret, t \in 0..MaxStep, n \in 1..MaxCodes : <<k, t>> # <<0, n>>
    BY DEF Factors, Totp

\* A request moves on within its handler.
ReqBecomes(r, pc, s, enabled, factor) ==
    /\ req' \in [Reqs -> Req]
    /\ req'[r].op = req[r].op /\ req'[r].u = req[r].u /\ req'[r].c = req[r].c
    /\ req'[r].pw = req[r].pw /\ req'[r].over = req[r].over /\ req'[r].swept = req[r].swept
    /\ req'[r].pc = pc /\ req'[r].s = s /\ req'[r].enabled = enabled /\ req'[r].factor = factor
    /\ \A q \in Reqs \ {r} : req'[q] = req[q]

\* A request whose handler, user and credential stay the same.
LEMMA Advancing ==
    ASSUME Typed, NEW r \in Reqs, NEW n \in Req, req' = [req EXCEPT ![r] = n],
           n.op = req[r].op, n.u = req[r].u, n.c = req[r].c, n.pw = req[r].pw,
           n.over = req[r].over, n.swept = req[r].swept
    PROVE  ReqBecomes(r, n.pc, n.s, n.enabled, n.factor)
<1>1. req \in [Reqs -> Req]
    BY DEF Typed, TypeOK
<1>2. req' \in [Reqs -> Req] /\ req'[r] = n /\ \A q \in Reqs \ {r} : req'[q] = req[q]
    BY <1>1
<1> QED
    BY <1>2 DEF ReqBecomes

\* A second factor has been verified.
LEMMA Verifying ==
    ASSUME Typed, NEW r \in Reqs, NEW k \in 0..MaxSecret,
           req' = [req EXCEPT ![r] = [req[r] EXCEPT !.pc = "verified", !.factor = k]]
    PROVE  ReqBecomes(r, "verified", req[r].s, req[r].enabled, k)
<1> DEFINE n == [req[r] EXCEPT !.pc = "verified", !.factor = k]
<1>1. req[r] \in Req /\ req' = [req EXCEPT ![r] = n]
    BY DEF Typed, TypeOK
<1>2. n \in Req
    BY <1>1 DEF Req
<1>3. n.enabled = req[r].enabled
    BY <1>1 DEF Req
<1>4. /\ n.op = req[r].op /\ n.u = req[r].u /\ n.c = req[r].c /\ n.pw = req[r].pw
      /\ n.over = req[r].over /\ n.swept = req[r].swept /\ n.pc = "verified"
      /\ n.s = req[r].s /\ n.factor = k
    BY <1>1 DEF Req
<1> HIDE DEF n
<1>5. ReqBecomes(r, n.pc, n.s, n.enabled, n.factor)
    BY <1>1, <1>2, <1>4, Advancing
<1> QED
    BY <1>3, <1>4, <1>5

\* A request in the middle of a handler, spelled out.
LEMMA Reading ==
    ASSUME Typed, NEW r \in Reqs, req[r].op # "idle" \/ req[r].pc # "entered"
    PROVE  /\ req[r] \in Req /\ ReqOK(req[r], ident, sess, cred) /\ req[r].op # "idle" /\ req[r].u \in Users
           /\ req[r].s \in Sessions \cup {None} /\ req[r].factor \in 0..MaxSecret
           /\ req[r].enabled \in BOOLEAN
<1>1. req[r] \in Req /\ ReqOK(req[r], ident, sess, cred)
    BY DEF Typed, TypeOK
<1>2. req[r].op # "idle" /\ req[r].u \in Users
    BY <1>1, IdleRow DEF ReqOK
<1> QED
    BY <1>1, <1>2 DEF Req

\* VerifyMFA with a TOTP code.
LEMMA TotpEffect ==
    ASSUME Typed, NEW r \in Reqs, NEW f \in Totp, VerifyTotp(r, f), NEW u, u = req[r].u
    PROVE  /\ u \in Users /\ req[r].pc = "mfa" /\ req[r].op # "idle" /\ ~Recovering(u)
           /\ ident[u].mfa # 0 /\ f[1] = ident[u].mfa /\ f[2] >= ident[u].last
           /\ IdentBecomes(u, ident[u].st, ident[u].pw, ident[u].mfa, ident[u].pend, f[2] + 1)
           /\ ReqBecomes(r, "verified", req[r].s, req[r].enabled, ident[u].mfa)
           /\ UNCHANGED <<code, sess, cred, made>> /\ Use(f)
<1>1. /\ req[r].pc = "mfa" /\ ident[u].mfa # 0 /\ f[1] = ident[u].mfa /\ f[2] >= ident[u].last
      /\ ~Recovering(u)
      /\ ident' = [ident EXCEPT ![u] = [ident[u] EXCEPT !.last = f[2] + 1]]
      /\ req' = [req EXCEPT ![r] = [req[r] EXCEPT !.pc = "verified", !.factor = ident[u].mfa]]
      /\ UNCHANGED <<code, sess, cred, made>> /\ Use(f)
    BY DEF VerifyTotp, Locked, totpStep, Typed, TypeOK
<1>2. u \in Users /\ req[r].op # "idle"
    BY <1>1, Reading
<1>3. IdentBecomes(u, ident[u].st, ident[u].pw, ident[u].mfa, ident[u].pend, f[2] + 1)
  <2> DEFINE v == f[2] + 1
             row == [ident[u] EXCEPT !.last = v]
  <2>1. v \in 0..(MaxStep + 1)
    BY TotpPairs
  <2> HIDE DEF v
  <2>2. /\ row \in Ident /\ row.st = ident[u].st
        /\ row.pw = ident[u].pw /\ row.mfa = ident[u].mfa /\ row.pend = ident[u].pend /\ row.last = v
    BY <1>2, <2>1, Stored DEF Ident
  <2>3. ident' = [ident EXCEPT ![u] = row]
    BY <1>1 DEF v
  <2> HIDE DEF row
  <2>4. IdentBecomes(u, row.st, row.pw, row.mfa, row.pend, row.last)
    BY <1>2, <2>2, <2>3, Replacing
  <2> QED
    BY <2>2, <2>4 DEF v
<1>4. ReqBecomes(r, "verified", req[r].s, req[r].enabled, ident[u].mfa)
    BY <1>1, <1>2, Stored, Verifying
<1> QED
    BY <1>1, <1>2, <1>3, <1>4

\* VerifyMFA with a recovery code.
LEMMA RecoveryCodeEffect ==
    ASSUME Typed, NEW r \in Reqs, NEW n \in 1..MaxCodes, VerifyRecoveryCode(r, n), NEW u, u = req[r].u
    PROVE  /\ u \in Users /\ req[r].pc = "mfa" /\ req[r].op # "idle" /\ ident[u].mfa # 0
           /\ code[n].u = u /\ code'[n].u = None
           /\ code' \in [1..MaxCodes -> [u: Users \cup {None}, secret: 0..MaxSecret]]
           /\ \A m \in 1..MaxCodes : m # n => code'[m] = code[m]
           /\ ReqBecomes(r, "verified", req[r].s, req[r].enabled, ident[u].mfa)
           /\ UNCHANGED <<ident, sess, cred, made>> /\ Use(<<0, n>>)
<1>1. /\ req[r].pc = "mfa" /\ ident[u].mfa # 0 /\ code[n].u = u
      /\ code' = [code EXCEPT ![n] = NoCode]
      /\ req' = [req EXCEPT ![r] = [req[r] EXCEPT !.pc = "verified", !.factor = ident[u].mfa]]
      /\ UNCHANGED <<ident, sess, cred, made>> /\ Use(<<0, n>>)
    BY DEF VerifyRecoveryCode, Typed, TypeOK
<1>2. u \in Users /\ req[r].op # "idle"
    BY <1>1, Reading
<1>3. NoCode \in [u: Users \cup {None}, secret: 0..MaxSecret] /\ NoCode.u = None
    BY BoundsAssumption DEF NoCode
<1>4. /\ code'[n].u = None
      /\ code' \in [1..MaxCodes -> [u: Users \cup {None}, secret: 0..MaxSecret]]
      /\ \A m \in 1..MaxCodes : m # n => code'[m] = code[m]
    BY <1>1, <1>3 DEF Typed, TypeOK
<1>5. ReqBecomes(r, "verified", req[r].s, req[r].enabled, ident[u].mfa)
    BY <1>1, <1>2, Stored, Verifying
<1> QED
    BY <1>1, <1>2, <1>4, <1>5

\* ChangePassword, on a session that is alive.
LEMMA ChangeEffect ==
    ASSUME Typed, NEW r \in Reqs, ChangePassword(r), NEW u, u = req[r].u
    PROVE  /\ u \in Users /\ req[r].op = "change" /\ req[r].pc = "verified" /\ ~Recovering(u)
           /\ req[r].s \in Sessions /\ sess[req[r].s].st = "live" /\ sess[req[r].s].u = u
           /\ (ident[u].mfa # 0) <=> req[r].enabled
           /\ ident[u].st = "active"
           /\ IdentBecomes(u, ident[u].st, ident[u].pw + 1, ident[u].mfa, ident[u].pend, ident[u].last)
           /\ sess' = Revoked(SessionsOf(u)) /\ Done(r) /\ UNCHANGED <<code, cred, made, uses>>
<1>1. /\ req[r].op = "change" /\ req[r].pc = "verified" /\ ~Recovering(u)
      /\ Session(req[r].s) /\ ident[u].pw < MaxPw /\ (ident[u].mfa # 0) = req[r].enabled
      /\ ident' = [ident EXCEPT ![u] = [ident[u] EXCEPT !.pw = ident[u].pw + 1]]
      /\ sess' = Revoked(SessionsOf(u)) /\ Done(r) /\ UNCHANGED <<code, cred, made, uses>>
    BY DEF ChangePassword, Locked, At, RevokeAll, Typed, TypeOK
<1>2. /\ u \in Users /\ req[r].s \in Sessions /\ sess[req[r].s].u = u /\ sess[req[r].s].st = "live"
      /\ ident[u].st = "active"
    BY <1>1, Reading DEF ReqOK, UsesSession, Session, Active
<1>3. IdentBecomes(u, ident[u].st, ident[u].pw + 1, ident[u].mfa, ident[u].pend, ident[u].last)
  <2> DEFINE v == ident[u].pw + 1
             row == [ident[u] EXCEPT !.pw = v]
  <2>1. v \in 0..MaxPw
    BY <1>1, <1>2, Stored, BoundsAssumption
  <2> HIDE DEF v
  <2>2. /\ row \in Ident /\ row.st = ident[u].st
        /\ row.pw = v /\ row.mfa = ident[u].mfa /\ row.pend = ident[u].pend /\ row.last = ident[u].last
    BY <1>2, <2>1, Stored DEF Ident
  <2>3. ident' = [ident EXCEPT ![u] = row]
    BY <1>1 DEF v
  <2> HIDE DEF row
  <2>4. IdentBecomes(u, row.st, row.pw, row.mfa, row.pend, row.last)
    BY <1>2, <2>2, <2>3, Replacing
  <2> QED
    BY <2>2, <2>4 DEF v
<1>4. (ident[u].mfa # 0) <=> req[r].enabled
  <2>1. req[r].enabled \in BOOLEAN
    BY <1>1, Reading
  <2> QED
    BY <1>1, <2>1
<1> QED
    BY <1>1, <1>2, <1>3, <1>4

\* BeginMFA stores the next secret as pending.
LEMMA BeginEffect ==
    ASSUME Typed, NEW r \in Reqs, BeginMFA(r), NEW u, u = req[r].u
    PROVE  /\ u \in Users /\ ident[u].mfa = 0 /\ made.secrets \in 0..MaxSecret
           /\ made.secrets + 1 \in 1..MaxSecret
           /\ IdentBecomes(u, ident[u].st, ident[u].pw, 0, made.secrets + 1, ident[u].last)
           /\ made' \in [secrets: 0..MaxSecret, codes: 0..MaxCodes]
           /\ made'.secrets = made.secrets + 1 /\ made'.codes = made.codes
           /\ Done(r) /\ UNCHANGED <<code, sess, cred, uses>>
<1> DEFINE k == made.secrets + 1
<1>1. /\ req[r].op = "enroll" /\ ident[u].mfa = 0 /\ made.secrets < MaxSecret
      /\ made' = [made EXCEPT !.secrets = k]
      /\ ident' = [ident EXCEPT ![u] = [ident[u] EXCEPT !.pend = k]]
      /\ Done(r) /\ UNCHANGED <<code, sess, cred, uses>>
    BY DEF BeginMFA, At, Typed, TypeOK
<1>2. u \in Users /\ made \in [secrets: 0..MaxSecret, codes: 0..MaxCodes]
    BY <1>1, Reading DEF Typed, TypeOK
<1>3. made.secrets \in 0..MaxSecret /\ k \in 1..MaxSecret /\ k \in 0..MaxSecret
    BY <1>1, <1>2, BoundsAssumption
<1> HIDE DEF k
<1>4. /\ made' \in [secrets: 0..MaxSecret, codes: 0..MaxCodes]
      /\ made'.secrets = k /\ made'.codes = made.codes
    BY <1>1, <1>2, <1>3
<1>5. IdentBecomes(u, ident[u].st, ident[u].pw, ident[u].mfa, k, ident[u].last)
  <2> DEFINE v == k
             row == [ident[u] EXCEPT !.pend = v]
  <2>1. v \in 0..MaxSecret
    BY <1>3
  <2> HIDE DEF v
  <2>2. /\ row \in Ident /\ row.st = ident[u].st
        /\ row.pw = ident[u].pw /\ row.mfa = ident[u].mfa /\ row.pend = v /\ row.last = ident[u].last
    BY <1>2, <2>1, Stored DEF Ident
  <2>3. ident' = [ident EXCEPT ![u] = row]
    BY <1>1 DEF v
  <2> HIDE DEF row
  <2>4. IdentBecomes(u, row.st, row.pw, row.mfa, row.pend, row.last)
    BY <1>2, <2>2, <2>3, Replacing
  <2> QED
    BY <2>2, <2>4 DEF v
<1> QED
    BY <1>1, <1>2, <1>3, <1>4, <1>5 DEF k

\* Recovery codes are added, or replaced.
Coded(u, k) ==
    /\ made.codes \in 0..MaxCodes /\ made.codes + 1 \in 1..MaxCodes
    /\ made' \in [secrets: 0..MaxSecret, codes: 0..MaxCodes]
    /\ made'.secrets = made.secrets /\ made'.codes = made.codes + 1
    /\ code' \in [1..MaxCodes -> [u: Users \cup {None}, secret: 0..MaxSecret]]
    /\ code'[made.codes + 1].u = u /\ code'[made.codes + 1].secret = k
    /\ \A n \in 1..MaxCodes : n # made.codes + 1 => code'[n] = code[n] \/ code'[n].u = None

\* Both ways to insert recovery codes give the next code to the user.
LEMMA Coding ==
    ASSUME Typed, NEW u \in Users, NEW k \in 0..MaxSecret, AddCodes(u, k) \/ NewCodes(u, k)
    PROVE  Coded(u, k)
<1> DEFINE m == made.codes + 1
           new == [u |-> u, secret |-> k]
           Code == [u: Users \cup {None}, secret: 0..MaxSecret]
<1>1. /\ made \in [secrets: 0..MaxSecret, codes: 0..MaxCodes] /\ code \in [1..MaxCodes -> Code]
      /\ made.codes < MaxCodes /\ made' = [made EXCEPT !.codes = m]
    BY DEF Typed, TypeOK, AddCodes, NewCodes
<1>2. /\ made.codes \in 0..MaxCodes /\ m \in 1..MaxCodes /\ m \in 0..MaxCodes
    BY <1>1, BoundsAssumption
<1>3. /\ \/ code' = [code EXCEPT ![m] = new]
         \/ code' = [n \in 1..MaxCodes |-> IF n = m THEN new
                                           ELSE IF code[n].u = u THEN NoCode ELSE code[n]]
    BY DEF AddCodes, NewCodes
<1> HIDE DEF m
<1>4. /\ made' \in [secrets: 0..MaxSecret, codes: 0..MaxCodes]
      /\ made'.secrets = made.secrets /\ made'.codes = m
    BY <1>1, <1>2
<1>5. /\ new \in Code /\ new.u = u /\ new.secret = k /\ NoCode \in Code /\ NoCode.u = None
    BY BoundsAssumption DEF NoCode
<1> HIDE DEF new, Code
<1>6. /\ code' \in [1..MaxCodes -> Code] /\ code'[m] = new
      /\ \A n \in 1..MaxCodes : n # m => code'[n] = code[n] \/ code'[n] = NoCode
    BY <1>1, <1>2, <1>3, <1>5
<1> QED
    BY <1>2, <1>4, <1>5, <1>6 DEF Coded, m, Code

\* Only the stamps of a session change.
Stamped ==
    /\ sess' \in [Sessions -> Sess]
    /\ \A s \in Sessions : /\ sess'[s].st = sess[s].st /\ sess'[s].u = sess[s].u
                           /\ sess'[s].pw0 = sess[s].pw0 /\ sess'[s].mfa0 = sess[s].mfa0
                           /\ sess'[s].late <=> sess[s].late

\* Writing mfa_at or authenticated_at is such a change.
LEMMA Stamping ==
    ASSUME Typed, NEW s \in Sessions, NEW b \in BOOLEAN,
           \/ sess' = [sess EXCEPT ![s].mfa = b] \/ sess' = [sess EXCEPT ![s].fresh = b]
    PROVE  Stamped
<1> DEFINE a == [sess[s] EXCEPT !.mfa = b]
           f == [sess[s] EXCEPT !.fresh = b]
<1>1. sess \in [Sessions -> Sess] /\ sess[s] \in Sess
    BY DEF Typed, TypeOK
<1>2. /\ a \in Sess /\ a.st = sess[s].st /\ a.u = sess[s].u /\ a.pw0 = sess[s].pw0
      /\ a.mfa0 = sess[s].mfa0
    BY <1>1 DEF Sess
<1>3. /\ f \in Sess /\ f.st = sess[s].st /\ f.u = sess[s].u /\ f.pw0 = sess[s].pw0
      /\ f.mfa0 = sess[s].mfa0
    BY <1>1 DEF Sess
<1>4. (a.late <=> sess[s].late) /\ (f.late <=> sess[s].late)
    BY <1>1 DEF Sess
<1>5. sess' = [sess EXCEPT ![s] = a] \/ sess' = [sess EXCEPT ![s] = f]
    BY <1>1
<1> HIDE DEF a, f
<1>6. /\ sess' \in [Sessions -> Sess] /\ sess'[s] \in {a, f}
      /\ \A t \in Sessions : t # s => sess'[t] = sess[t]
    BY <1>1, <1>2, <1>3, <1>5
<1> QED
    BY <1>2, <1>3, <1>4, <1>6 DEF Stamped

\* MarkMFA ends a login or goes on with a reauthentication.
LEMMA MarkEffect ==
    ASSUME Typed, NEW r \in Reqs, MarkMFA(r)
    PROVE  /\ Stamped /\ UNCHANGED <<ident, code, cred, made, uses>>
           /\ req[r].op # "change" /\ req[r].op # "recover"
           /\ Done(r) \/ ReqBecomes(r, "stamp", req[r].s, req[r].enabled, req[r].factor)
<1>1. /\ req[r].op \in {"login", "reauth"} /\ UsesSession(req[r])
      /\ sess' = [sess EXCEPT ![req[r].s].mfa = TRUE] /\ UNCHANGED <<ident, code, cred, made, uses>>
      /\ Done(r) \/ Goto(r, "stamp")
    BY DEF MarkMFA, At, UsesSession
<1>2. req[r].s \in Sessions /\ req[r] \in Req
    BY <1>1, Reading DEF ReqOK
<1>3. Stamped
    BY <1>1, <1>2, Stamping
<1>4. CASE Goto(r, "stamp")
  <2> DEFINE n == [req[r] EXCEPT !.pc = "stamp"]
  <2>1. n \in Req
    BY <1>2 DEF Req
  <2>2. n.enabled = req[r].enabled
    BY <1>2 DEF Req
  <2>3. /\ n.op = req[r].op /\ n.u = req[r].u /\ n.c = req[r].c /\ n.pw = req[r].pw
        /\ n.over = req[r].over /\ n.swept = req[r].swept /\ n.pc = "stamp"
        /\ n.s = req[r].s /\ n.factor = req[r].factor
    BY <1>2 DEF Req
  <2>4. req' = [req EXCEPT ![r] = n]
    BY <1>4 DEF Goto, Typed, TypeOK
  <2> HIDE DEF n
  <2>5. ReqBecomes(r, n.pc, n.s, n.enabled, n.factor)
    BY <2>1, <2>3, <2>4, Advancing
  <2> QED
    BY <1>1, <1>3, <2>2, <2>3, <2>5
<1> QED
    BY <1>1, <1>3, <1>4

\* NewSession inserts a row that was absent.
LEMMA NewSessionEffect ==
    ASSUME Typed, NEW r \in Reqs, NEW s \in Sessions, NewSession(r, s), NEW u, u = req[r].u
    PROVE  /\ u \in Users /\ ident[u].st = "active" /\ req[r].op = "login" /\ sess[s].st = "absent"
           /\ sess' \in [Sessions -> Sess] /\ \A t \in Sessions : t # s => sess'[t] = sess[t]
           /\ sess'[s].st = "live" /\ sess'[s].u = u
           /\ ~sess'[s].late => /\ sess'[s].pw0 = ident[u].pw /\ sess'[s].mfa0 = ident[u].mfa
                                /\ ~Recovering(u)
           /\ Done(r) \/ ReqBecomes(r, "mark", s, req[r].enabled, req[r].factor)
           /\ UNCHANGED <<ident, code, cred, made, uses>>
<1> DEFINE row == [NoSess EXCEPT !.st = "live", !.u = u, !.fresh = TRUE, !.pw0 = req[r].pw,
                                 !.mfa0 = req[r].factor, !.late = Late(r)]
<1>1. /\ req[r].op = "login" /\ sess[s].st = "absent" /\ ident[u].st = "active"
      /\ sess' = [sess EXCEPT ![s] = row] /\ UNCHANGED <<ident, code, cred, made, uses>>
      /\ Done(r) \/ req' = [req EXCEPT ![r].pc = "mark", ![r].s = s]
    BY DEF NewSession, At, Active
<1>2. u \in Users /\ req[r] \in Req /\ sess \in [Sessions -> Sess]
    BY <1>1, Reading DEF Typed, TypeOK
<1>3. Late(r) \in BOOLEAN
    BY DEF Late
<1>9. ~Late(r) => req[r].pw = ident[u].pw /\ req[r].factor = ident[u].mfa /\ ~Recovering(u)
    BY DEF Late
<1>10. req[r].pw \in 0..MaxPw /\ req[r].factor \in 0..MaxSecret
    BY <1>2 DEF Req
<1>4. row \in Sess
    BY <1>2, <1>3, <1>10 DEF Sess, NoSess
<1>5. /\ row.st = "live" /\ row.u = u /\ row.pw0 = req[r].pw /\ row.mfa0 = req[r].factor
    BY DEF NoSess
<1>6. row.late <=> Late(r)
    BY DEF NoSess
<1> HIDE DEF row
<1>7. /\ sess' \in [Sessions -> Sess] /\ sess'[s] = row /\ \A t \in Sessions : t # s => sess'[t] = sess[t]
    BY <1>1, <1>2, <1>4
<1>8. CASE req' = [req EXCEPT ![r].pc = "mark", ![r].s = s]
  <2> DEFINE n == [req[r] EXCEPT !.pc = "mark", !.s = s]
  <2>1. n \in Req
    BY <1>2 DEF Req
  <2>2. n.enabled = req[r].enabled
    BY <1>2 DEF Req
  <2>3. /\ n.op = req[r].op /\ n.u = req[r].u /\ n.c = req[r].c /\ n.pw = req[r].pw
        /\ n.over = req[r].over /\ n.swept = req[r].swept /\ n.pc = "mark"
        /\ n.s = s /\ n.factor = req[r].factor
    BY <1>2 DEF Req
  <2>4. req' = [req EXCEPT ![r] = n]
    BY <1>8 DEF Typed, TypeOK
  <2> HIDE DEF n
  <2>5. ReqBecomes(r, n.pc, n.s, n.enabled, n.factor)
    BY <2>1, <2>3, <2>4, Advancing
  <2>6. ReqBecomes(r, "mark", s, req[r].enabled, req[r].factor)
    BY <2>2, <2>3, <2>5
  <2> QED
    BY <1>1, <1>2, <1>5, <1>6, <1>7, <1>9, <2>6
<1> QED
    BY <1>1, <1>2, <1>5, <1>6, <1>7, <1>9, <1>8

\* The enrolment keeps the session that confirms it and no other of the user.
LEMMA ConfirmEffect ==
    ASSUME Typed, NEW r \in Reqs, NEW f \in Totp, ConfirmMFA(r, f), NEW u, u = req[r].u,
           NEW me, me = req[r].s
    PROVE  /\ u \in Users /\ req[r].op = "confirm" /\ ~Recovering(u)
           /\ ident[u].mfa = 0 /\ ident[u].pend # 0 /\ f[1] = ident[u].pend
           /\ IdentBecomes(u, ident[u].st, ident[u].pw, ident[u].pend, 0, f[2] + 1)
           /\ Coded(u, ident[u].pend)
           /\ sess' \in [Sessions -> Sess]
           /\ \A s \in Sessions : sess'[s].u = sess[s].u
           /\ \A s \in Sessions : sess'[s].st = "absent" <=> sess[s].st = "absent"
           /\ \A s \in Sessions : sess'[s].st = "live" => sess[s].st = "live"
           /\ \A s \in Sessions : sess[s].u # u => sess'[s] = sess[s]
           /\ \A s \in Sessions : sess[s].u = u /\ sess'[s].st = "live" =>
                /\ sess'[s].pw0 = sess[s].pw0 /\ sess'[s].mfa0 = ident[u].pend
                /\ sess'[s].late <=> sess[s].late
           /\ Use(f) /\ Done(r) /\ UNCHANGED cred
<1> DEFINE others == Revoked(SessionsOf(u) \ {me})
           k == ident[u].pend
<1>1. /\ req[r].op = "confirm" /\ ~Recovering(u)
      /\ ident[u].mfa = 0 /\ ident[u].pend # 0 /\ f[1] = ident[u].pend
      /\ ident' = [ident EXCEPT ![u].mfa = k, ![u].pend = 0, ![u].last = f[2] + 1]
      /\ AddCodes(u, k)
      /\ sess' = IF sess[me].st = "live" THEN [others EXCEPT ![me].mfa = TRUE, ![me].mfa0 = k]
                 ELSE others
      /\ Use(f) /\ Done(r) /\ UNCHANGED cred
    BY DEF ConfirmMFA, Locked, At, totpStep
<1>2. /\ u \in Users /\ me \in Sessions /\ sess[me].u = u /\ sess \in [Sessions -> Sess]
      /\ ident \in [Users -> Ident]
    BY <1>1, Reading DEF ReqOK, UsesSession, Typed, TypeOK
<1>3. IdentBecomes(u, ident[u].st, ident[u].pw, ident[u].pend, 0, f[2] + 1)
  <2> DEFINE v == f[2] + 1
             row == [ident[u] EXCEPT !.mfa = k, !.pend = 0, !.last = v]
  <2>1. v \in 0..(MaxStep + 1)
    BY TotpPairs
  <2>3. ident' = [ident EXCEPT ![u] = row]
    BY <1>1, <1>2
  <2> HIDE DEF v
  <2>2. /\ row \in Ident /\ row.st = ident[u].st /\ row.pw = ident[u].pw /\ row.mfa = k
        /\ row.pend = 0 /\ row.last = v
    BY <1>2, <2>1, Stored DEF Ident
  <2> HIDE DEF row
  <2>4. IdentBecomes(u, row.st, row.pw, row.mfa, row.pend, row.last)
    BY <1>2, <2>2, <2>3, Replacing
  <2> QED
    BY <2>2, <2>4 DEF v
<1>4. Coded(u, k)
    BY <1>1, <1>2, Stored, Coding
<1>5. k \in 0..MaxSecret
    BY <1>2, Stored
<1> HIDE DEF k
<1>6. /\ others \in [Sessions -> Sess]
      /\ \A s \in Sessions : others[s].u = sess[s].u
      /\ \A s \in Sessions : others[s].st = "absent" <=> sess[s].st = "absent"
      /\ \A s \in Sessions : others[s] = sess[s] \/ others[s].st = "revoked"
      /\ \A s \in Sessions : sess[s].u = u /\ s # me => others[s].st # "live"
      /\ \A s \in Sessions : sess[s].u # u \/ s = me => others[s] = sess[s]
    BY <1>2, RevokedRows DEF SessionsOf
<1> HIDE DEF others
<1>7. CASE sess[me].st = "live"
  <2> DEFINE row == [sess[me] EXCEPT !.mfa = TRUE, !.mfa0 = k]
  <2>1. sess[me] \in Sess /\ others[me] = sess[me]
    BY <1>2, <1>6
  <2>2. row \in Sess
    BY <1>5, <2>1 DEF Sess
  <2>3. row.late <=> sess[me].late
    BY <2>1 DEF Sess
  <2>4. row.st = sess[me].st /\ row.u = sess[me].u /\ row.pw0 = sess[me].pw0 /\ row.mfa0 = k
    BY <2>1 DEF Sess
  <2>5. sess' = [others EXCEPT ![me] = row]
    BY <1>1, <1>2, <1>6, <1>7, <2>1
  <2> HIDE DEF row
  <2>6. sess' \in [Sessions -> Sess] /\ sess'[me] = row /\ \A s \in Sessions : s # me => sess'[s] = others[s]
    BY <1>2, <1>6, <2>2, <2>5
  <2>7. /\ \A s \in Sessions : sess'[s].u = sess[s].u
        /\ \A s \in Sessions : sess'[s].st = "absent" <=> sess[s].st = "absent"
        /\ \A s \in Sessions : sess'[s].st = "live" => sess[s].st = "live"
        /\ \A s \in Sessions : sess[s].u # u => sess'[s] = sess[s]
    BY <1>2, <1>6, <2>4, <2>6
  <2>8. \A s \in Sessions : sess[s].u = u /\ sess'[s].st = "live" => s = me
    BY <1>6, <2>6
  <2>9. /\ sess'[me].pw0 = sess[me].pw0 /\ sess'[me].mfa0 = k
        /\ sess'[me].late <=> sess[me].late
    BY <2>3, <2>4, <2>6
  <2> QED
    BY <1>1, <1>2, <1>3, <1>4, <2>6, <2>7, <2>8, <2>9 DEF k
<1>8. CASE sess[me].st # "live"
    BY <1>1, <1>2, <1>3, <1>4, <1>6, <1>8 DEF k
<1> QED
    BY <1>7, <1>8

\* RedeemMFAReset.
LEMMA ResetEffect ==
    ASSUME Typed, NEW r \in Reqs, RedeemMFAReset(r), NEW u, u = req[r].u
    PROVE  /\ u \in Users /\ req[r].op = "reset" /\ ~Recovering(u) /\ req[r].c \in Creds
           /\ cred[req[r].c].st = "live"
           /\ cred' = Void({req[r].c}) /\ sess' = Revoked(SessionsOf(u))
           /\ IdentBecomes(u, ident[u].st, ident[u].pw, 0, 0, 0)
           /\ code' \in [1..MaxCodes -> [u: Users \cup {None}, secret: 0..MaxSecret]]
           /\ \A n \in 1..MaxCodes : /\ code[n].u = u => code'[n].u = None
                                     /\ code[n].u # u => code'[n] = code[n]
           /\ Done(r) /\ UNCHANGED <<made, uses>>
<1>1. /\ req[r].op = "reset" /\ ~Recovering(u) /\ cred[req[r].c].st = "live"
      /\ cred' = Void({req[r].c}) /\ sess' = Revoked(SessionsOf(u))
      /\ ident' = [ident EXCEPT ![u].mfa = 0, ![u].pend = 0, ![u].last = 0]
      /\ code' = [n \in 1..MaxCodes |-> IF code[n].u = u THEN NoCode ELSE code[n]]
      /\ Done(r) /\ UNCHANGED <<made, uses>>
    BY DEF RedeemMFAReset, Locked, At, RevokeAll
<1>2. u \in Users /\ req[r].c \in Creds /\ ident \in [Users -> Ident]
    BY <1>1, Reading DEF ReqOK, Typed, TypeOK
<1>3. NoCode \in [u: Users \cup {None}, secret: 0..MaxSecret] /\ NoCode.u = None
    BY BoundsAssumption DEF NoCode
<1>4. /\ code' \in [1..MaxCodes -> [u: Users \cup {None}, secret: 0..MaxSecret]]
      /\ \A n \in 1..MaxCodes : /\ code[n].u = u => code'[n].u = None
                                /\ code[n].u # u => code'[n] = code[n]
    BY <1>1, <1>3 DEF Typed, TypeOK
<1>5. IdentBecomes(u, ident[u].st, ident[u].pw, 0, 0, 0)
  <2> DEFINE row == [ident[u] EXCEPT !.mfa = 0, !.pend = 0, !.last = 0]
  <2>1. ident' = [ident EXCEPT ![u] = row]
    BY <1>1, <1>2
  <2>2. /\ row \in Ident /\ row.st = ident[u].st /\ row.pw = ident[u].pw /\ row.mfa = 0
        /\ row.pend = 0 /\ row.last = 0
    BY <1>2, Stored DEF Ident
  <2> HIDE DEF row
  <2>3. IdentBecomes(u, row.st, row.pw, row.mfa, row.pend, row.last)
    BY <1>2, <2>1, <2>2, Replacing
  <2> QED
    BY <2>2, <2>3
<1> QED
    BY <1>1, <1>2, <1>4, <1>5

\* RedeemCredential of an invitation.
LEMMA InviteEffect ==
    ASSUME Typed, NEW c \in Creds, RedeemInvite(c), NEW u, u = cred[c].u
    PROVE  /\ u \in Users /\ ident[u].st = "absent" /\ cred[c].st = "live" /\ cred' = Void({c})
           /\ IdentBecomes(u, "active", 1, ident[u].mfa, ident[u].pend, ident[u].last)
           /\ UNCHANGED <<code, sess, req, made, uses>>
<1>1. /\ cred[c].st = "live" /\ ident[u].st = "absent" /\ cred' = Void({c})
      /\ ident' = [ident EXCEPT ![u].st = "active", ![u].pw = 1]
      /\ UNCHANGED <<code, sess, req, made, uses>>
    BY DEF RedeemInvite
<1>2. u \in Users /\ ident \in [Users -> Ident]
    BY <1>1 DEF Typed, TypeOK, CredOwned
<1>3. IdentBecomes(u, "active", 1, ident[u].mfa, ident[u].pend, ident[u].last)
  <2> DEFINE v == 1
             row == [ident[u] EXCEPT !.st = "active", !.pw = v]
  <2>4. ident' = [ident EXCEPT ![u] = row]
    BY <1>1, <1>2
  <2>1. v \in 0..MaxPw
    BY BoundsAssumption
  <2> HIDE DEF v
  <2>2. /\ row \in Ident /\ row.st = "active" /\ row.pw = v /\ row.mfa = ident[u].mfa
        /\ row.pend = ident[u].pend /\ row.last = ident[u].last
    BY <1>2, <2>1, Stored DEF Ident
  <2> HIDE DEF row
  <2>3. IdentBecomes(u, row.st, row.pw, row.mfa, row.pend, row.last)
    BY <1>2, <2>2, <2>4, Replacing
  <2> QED
    BY <2>2, <2>3 DEF v
<1> QED
    BY <1>1, <1>2, <1>3

\* The commit of RedeemCredential of a recovery.
LEMMA RecoveryEffect ==
    ASSUME Typed, NEW r \in Reqs, RedeemRecovery(r), NEW u, u = req[r].u
    PROVE  /\ u \in Users /\ req[r].op = "recover" /\ req[r].c \in Creds
           /\ ident[u].st = "active" /\ cred' = Void({req[r].c})
           /\ IdentBecomes(u, ident[u].st, ident[u].pw + 1, ident[u].mfa, ident[u].pend, ident[u].last)
           /\ sess' = Revoked(req[r].swept) /\ Done(r) /\ UNCHANGED <<code, made, uses>>
<1>1. /\ req[r].op = "recover" /\ cred' = Void({req[r].c})
      /\ ident' = [ident EXCEPT ![u] = [ident[u] EXCEPT !.pw = ident[u].pw + 1]]
      /\ sess' = Revoked(req[r].swept) /\ Done(r) /\ UNCHANGED <<code, made, uses>>
    BY DEF RedeemRecovery, At, Typed, TypeOK
<1>2. u \in Users /\ req[r].c \in Creds /\ ident[u].st = "active" /\ ident[u].pw < MaxPw
    BY <1>1, Reading DEF ReqOK
<1>3. IdentBecomes(u, ident[u].st, ident[u].pw + 1, ident[u].mfa, ident[u].pend, ident[u].last)
  <2> DEFINE v == ident[u].pw + 1
             row == [ident[u] EXCEPT !.pw = v]
  <2>1. v \in 0..MaxPw
    BY <1>1, <1>2, Stored, BoundsAssumption
  <2> HIDE DEF v
  <2>2. /\ row \in Ident /\ row.st = ident[u].st
        /\ row.pw = v /\ row.mfa = ident[u].mfa /\ row.pend = ident[u].pend /\ row.last = ident[u].last
    BY <1>2, <2>1, Stored DEF Ident
  <2>3. ident' = [ident EXCEPT ![u] = row]
    BY <1>1 DEF v
  <2> HIDE DEF row
  <2>4. IdentBecomes(u, row.st, row.pw, row.mfa, row.pend, row.last)
    BY <1>2, <2>2, <2>3, Replacing
  <2> QED
    BY <2>2, <2>4 DEF v
<1> QED
    BY <1>1, <1>2, <1>3

\* The commit of an issue.
LEMMA IssueEffect ==
    ASSUME Typed, NEW r \in Reqs, NEW c \in Creds, IssueInsert(r, c)
    PROVE  /\ cred[c].st = "absent" /\ req[r].op = "issue" /\ cred' \in [Creds -> Cred]
           /\ cred'[c].st = "live" /\ cred'[c].u \in Users /\ cred'[c].over = req[r].over
           /\ \A d \in Creds : d # c => cred'[d] = Void(req[r].over)[d]
           /\ req[r].over \subseteq Creds /\ Done(r) /\ UNCHANGED <<ident, code, sess, made, uses>>
<1>1. /\ req[r].op = "issue" /\ cred[c].st = "absent"
      /\ cred' = [Void(req[r].over) EXCEPT ![c] = Inserted(r)]
      /\ Done(r) /\ UNCHANGED <<ident, code, sess, made, uses>>
    BY DEF IssueInsert, At
<1>2. req[r] \in Req /\ req[r].u \in Users /\ Void(req[r].over) \in [Creds -> Cred]
    BY <1>1, Reading, VoidRows DEF Typed, TypeOK
<1>3. req[r].kind \in Kinds \cup {None} /\ req[r].over \subseteq Creds
    BY <1>2 DEF Req
<1>4. /\ Inserted(r) \in Cred /\ Inserted(r).st = "live" /\ Inserted(r).u = req[r].u
      /\ Inserted(r).over = req[r].over
    BY <1>2, <1>3 DEF Inserted, Cred
<1> QED
    BY <1>1, <1>2, <1>3, <1>4

\* Maintenance clears a pending secret.
LEMMA PendingEffect ==
    ASSUME Typed, NEW u \in Users, PendingExpires(u)
    PROVE  /\ IdentBecomes(u, ident[u].st, ident[u].pw, ident[u].mfa, 0, ident[u].last)
           /\ UNCHANGED <<code, sess, cred, req, made, uses>>
<1> DEFINE row == [ident[u] EXCEPT !.pend = 0]
<1>1. ident' = [ident EXCEPT ![u] = row] /\ UNCHANGED <<code, sess, cred, req, made, uses>>
    BY DEF PendingExpires
<1>2. /\ row \in Ident /\ row.st = ident[u].st /\ row.pw = ident[u].pw /\ row.mfa = ident[u].mfa
      /\ row.pend = 0 /\ row.last = ident[u].last
    BY Stored DEF Ident
<1> HIDE DEF row
<1>3. IdentBecomes(u, row.st, row.pw, row.mfa, row.pend, row.last)
    BY <1>1, <1>2, Replacing
<1> QED
    BY <1>1, <1>2, <1>3

\* A handler passes its gate and has read n.
Entered(r, n) ==
    /\ n \in Req /\ req' = [req EXCEPT ![r] = n] /\ req[r].op = "idle"
    /\ ReqOK(n, ident, sess, cred) /\ n.over = {} /\ n.factor = 0
    /\ n.pc \in {"entered", "password", "swept"}
    /\ n.op = "recover" => ~Recovering(n.u) /\ n.swept = SessionsOf(n.u)
    /\ UNCHANGED <<ident, code, sess, cred, made, uses>>

\* A row that names existing rows passes as such a request.
LEMMA EnterRow ==
    ASSUME Typed, NEW r \in Reqs, NEW n \in Req, Enter(r, n), n.op # "idle", n.u \in Users,
           n.pc \in {"entered", "password", "swept"}, n.over = {}, n.factor = 0,
           n.op \in {"confirm", "reauth", "change"} =>
               n.s \in Sessions /\ sess[n.s].st = "live" /\ sess[n.s].u = n.u,
           n.op \in {"reset", "recover"} => n.c \in Creds,
           n.c \in Creds => cred[n.c].st # "absent",
           n.op = "recover" => /\ n.pc = "swept" /\ ~Recovering(n.u) /\ n.swept = SessionsOf(n.u)
                               /\ ident[n.u].st = "active" /\ ident[n.u].pw < MaxPw
    PROVE  \E m \in Req : Entered(r, m)
<1>1. /\ req' = [req EXCEPT ![r] = n] /\ req[r].op = "idle"
      /\ UNCHANGED <<ident, code, sess, cred, made, uses>>
    BY DEF Enter
<1>2. ReqOK(n, ident, sess, cred)
    BY DEF ReqOK, UsesSession
<1> QED
    BY <1>1, <1>2 DEF Entered

\* The gates that only look at the session.
LEMMA GateEffect ==
    ASSUME Typed, NEW r \in Reqs, NEW s \in Sessions,
           NEW op \in {"enroll", "confirm", "rotate", "issue"}, Authenticated(r, op, s)
    PROVE  \E n \in Req : Entered(r, n)
<1> DEFINE u == sess[s].u
           me == IF op = "confirm" THEN s ELSE None
           n == [Idle EXCEPT !.op = op, !.u = u, !.s = me]
<1>1. sess[s].st = "live" /\ u \in Users /\ Enter(r, n)
    BY DEF Authenticated, Session, Typed, SessOwned
<1>2. 0 \in 0..MaxPw /\ 0 \in 0..MaxSecret
    BY BoundsAssumption
<1>4. me \in Sessions \cup {None} /\ (op = "confirm" => me = s)
    OBVIOUS
<1> HIDE DEF u, me
<1>3. /\ n \in Req /\ n.op = op /\ n.u = u /\ n.s = me /\ n.pc = "entered" /\ n.over = {}
      /\ n.factor = 0 /\ n.c \notin Creds
    BY <1>1, <1>2, <1>4, NoneAssumption DEF Idle, Req
<1> HIDE DEF n
<1> QED
    BY <1>1, <1>3, <1>4, EnterRow DEF u

\* The gates that check the password.
LEMMA PasswordEffect ==
    ASSUME Typed, NEW r \in Reqs, NEW op \in {"login", "reauth", "change", "reset"}, NEW u \in Users,
           NEW s \in Sessions \cup {None}, NEW c \in Creds \cup {None}, Authenticate(r, op, u, s, c),
           op \in {"reauth", "change"} => s \in Sessions /\ sess[s].st = "live" /\ sess[s].u = u,
           op = "reset" => c \in Creds, c \in Creds => cred[c].st # "absent"
    PROVE  \E n \in Req : Entered(r, n)
<1> DEFINE pw == ident[u].pw
           n == [Idle EXCEPT !.op = op, !.pc = "password", !.u = u, !.s = s, !.c = c, !.pw = pw]
<1>1. Enter(r, n)
    BY DEF Authenticate
<1>2. pw \in 0..MaxPw /\ 0 \in 0..MaxSecret
    BY Stored
<1> HIDE DEF pw
<1>3. /\ n \in Req /\ n.op = op /\ n.u = u /\ n.s = s /\ n.c = c /\ n.pc = "password"
      /\ n.over = {} /\ n.factor = 0
    BY <1>2 DEF Idle, Req
<1> HIDE DEF n
<1> QED
    BY <1>1, <1>3, EnterRow

\* Every handler enters a request, or redeems an invitation at once.
LEMMA HandlerEffect ==
    ASSUME Typed, NEW r \in Reqs, Handler(r)
    PROVE  (\E c \in Creds : RedeemInvite(c)) \/ \E n \in Req : Entered(r, n)
<1>1. ASSUME NEW s \in Sessions, \/ enrollMFA(r, s) \/ confirmMFA(r, s)
                                 \/ rotateMFARecoveryCodes(r, s) \/ issueCredential(r, s)
      PROVE  \E n \in Req : Entered(r, n)
    BY <1>1, GateEffect DEF enrollMFA, confirmMFA, rotateMFARecoveryCodes, issueCredential
<1>2. ASSUME NEW s \in Sessions, reauthenticate(r, s) \/ changePassword(r, s)
      PROVE  \E n \in Req : Entered(r, n)
  <2>1. sess[s].st = "live" /\ sess[s].u \in Users
    BY <1>2 DEF reauthenticate, changePassword, Session, Typed, SessOwned
  <2> QED
    BY <1>2, <2>1, PasswordEffect, NoneAssumption DEF reauthenticate, changePassword
<1>3. ASSUME NEW u \in Users, login(r, u) PROVE \E n \in Req : Entered(r, n)
    BY <1>3, PasswordEffect, NoneAssumption DEF login
<1>4. ASSUME NEW c \in Creds, redeemMFAReset(r, c) PROVE \E n \in Req : Entered(r, n)
  <2>1. cred[c].u \in Users /\ cred[c].st # "absent"
    BY <1>4 DEF redeemMFAReset, Typed, CredOwned
  <2> QED
    BY <1>4, <2>1, PasswordEffect DEF redeemMFAReset
<1>5. ASSUME NEW c \in Creds, RecoverySweep(r, c) PROVE \E n \in Req : Entered(r, n)
  <2> DEFINE u == cred[c].u
             swept == SessionsOf(u)
             n == [Idle EXCEPT !.op = "recover", !.pc = "swept", !.u = u, !.c = c,
                               !.swept = swept]
  <2>1. /\ cred[c].st = "live" /\ u \in Users /\ ident[u].st = "active" /\ ident[u].pw < MaxPw /\ ~Recovering(u)
        /\ swept \in SUBSET Sessions /\ 0 \in 0..MaxPw /\ 0 \in 0..MaxSecret
    BY <1>5, BoundsAssumption DEF RecoverySweep, Locked, Active, SessionsOf, Typed, CredOwned
  <2>2. Enter(r, n)
    BY <1>5 DEF RecoverySweep
  <2> HIDE DEF u, swept
  <2>3. /\ n \in Req /\ n.op = "recover" /\ n.u = u /\ n.c = c /\ n.pc = "swept"
        /\ n.swept = swept /\ n.over = {} /\ n.factor = 0
    BY <2>1 DEF Idle, Req
  <2> HIDE DEF n
  <2> QED
    BY <2>1, <2>2, <2>3, EnterRow DEF swept
<1> QED
    BY <1>1, <1>2, <1>3, <1>4, <1>5 DEF Handler, redeem

\* MFAEnabled decides whether a second factor is asked for.
LEMMA EnabledEffect ==
    ASSUME Typed, NEW r \in Reqs, MFAEnabled(r), NEW u, u = req[r].u
    PROVE  /\ u \in Users /\ req[r].pc = "password" /\ req[r].op # "idle"
           /\ \/ ReqBecomes(r, "mfa", req[r].s, TRUE, req[r].factor)
              \/ ReqBecomes(r, "verified", req[r].s, FALSE, req[r].factor)
           /\ UNCHANGED <<ident, code, sess, cred, made, uses>>
<1> DEFINE on == ident[u].mfa # 0
           n == [req[r] EXCEPT !.pc = IF on THEN "mfa" ELSE "verified", !.enabled = on]
<1>1. /\ req[r].op # "idle" /\ req[r].pc = "password"
      /\ UNCHANGED <<ident, code, sess, cred, made, uses>>
    BY DEF MFAEnabled, At
<1>2. req[r] \in Req /\ u \in Users /\ req \in [Reqs -> Req]
    BY <1>1, Reading DEF Typed, TypeOK
<1>3. req' = [req EXCEPT ![r] = n]
    BY <1>2 DEF MFAEnabled
<1>4. on \in BOOLEAN
    OBVIOUS
<1> HIDE DEF on
<1>5. n \in Req
    BY <1>2, <1>4 DEF Req
<1>6. (on => n.enabled = TRUE) /\ (~on => n.enabled = FALSE)
    BY <1>2, <1>4 DEF Req
<1>7. /\ n.op = req[r].op /\ n.u = req[r].u /\ n.c = req[r].c /\ n.pw = req[r].pw
      /\ n.over = req[r].over /\ n.swept = req[r].swept
      /\ n.s = req[r].s /\ n.factor = req[r].factor
    BY <1>2 DEF Req
<1>8. n.pc = IF on THEN "mfa" ELSE "verified"
    BY <1>2 DEF Req
<1> HIDE DEF n
<1>9. ReqBecomes(r, n.pc, n.s, n.enabled, n.factor)
    BY <1>3, <1>5, <1>7, Advancing
<1>10. CASE on
    BY <1>1, <1>2, <1>6, <1>7, <1>8, <1>9, <1>10
<1>11. CASE ~on
    BY <1>1, <1>2, <1>6, <1>7, <1>8, <1>9, <1>11
<1> QED
    BY <1>10, <1>11

\* The sweep of an issue sees credentials that exist.
LEMMA SweepEffect ==
    ASSUME Typed, NEW r \in Reqs, NEW kind \in Issued, NEW u \in Users, IssueSweep(r, kind, u)
    PROVE  \E n \in Req : /\ req' = [req EXCEPT ![r] = n] /\ n.op = "issue" /\ n.u \in Users
                          /\ n.c = req[r].c /\ \A c \in n.over : c \in Creds /\ cred[c].st # "absent"
                          /\ req[r].op = "issue" /\ UNCHANGED <<ident, code, sess, cred, made, uses>>
<1> DEFINE over == Same(kind, u)
           n == [req[r] EXCEPT !.pc = "swept", !.kind = kind, !.u = u, !.over = over]
<1>1. /\ req[r] \in Req /\ req \in [Reqs -> Req] /\ req[r].op = "issue" /\ kind \in Kinds
      /\ UNCHANGED <<ident, code, sess, cred, made, uses>>
    BY AdminsAssumption DEF IssueSweep, At, Typed, TypeOK
<1>2. over \in SUBSET Creds /\ \A c \in over : c \in Creds /\ cred[c].st # "absent"
    BY NoneAssumption DEF Same, Typed, CredOwned, NoCred
<1>3. req' = [req EXCEPT ![r] = n]
    BY <1>1 DEF IssueSweep
<1> HIDE DEF over
<1>4. n \in Req /\ n.op = "issue" /\ n.u = u /\ n.over = over /\ n.c = req[r].c
    BY <1>1, <1>2 DEF Req
<1> HIDE DEF n
<1> QED
    BY <1>1, <1>2, <1>3, <1>4

-----------------------------------------------------------------------------
(* Layer 1: rows and requests name what exists.                            *)

\* The first layer holds at the start.
LEMMA TypedInit ==
    ASSUME Init
    PROVE  Typed
<1>1. 0 \in 0..MaxPw /\ 1 \in 0..MaxPw /\ 0 \in 0..MaxSecret /\ 0 \in 0..(MaxStep + 1) /\ 0 \in 0..MaxCodes
    BY BoundsAssumption
<1>2. ident \in [Users -> Ident]
  <2> DEFINE pw(u) == IF u \in Admins THEN 1 ELSE 0
             st(u) == IF u \in Admins THEN "active" ELSE "absent"
  <2>1. \A u \in Users : pw(u) \in 0..MaxPw /\ st(u) \in {"active", "absent"}
    BY <1>1
  <2>2. ident = [u \in Users |-> [st |-> st(u), pw |-> pw(u), mfa |-> 0, pend |-> 0, last |-> 0]]
    BY DEF Init
  <2> HIDE DEF pw, st
  <2> QED
    BY <1>1, <2>1, <2>2 DEF Ident
<1>3. NoSess \in Sess /\ NoSess.st = "absent"
    BY <1>1 DEF NoSess, Sess
<1>4. NoCred \in Cred /\ NoCred.st = "absent"
    BY DEF NoCred, Cred
<1>5. code \in [1..MaxCodes -> [u: Users \cup {None}, secret: 0..MaxSecret]]
    BY <1>1 DEF Init, NoCode
<1>6. made \in [secrets: 0..MaxSecret, codes: 0..MaxCodes] /\ uses \in [Factors -> 0..2]
    BY <1>1 DEF Init
<1>7. TypeOK
    BY <1>2, <1>3, <1>4, <1>5, <1>6, IdleRow DEF Init, TypeOK
<1>8. SessOwned /\ CredOwned
    BY <1>3, <1>4 DEF Init, SessOwned, CredOwned
<1>9. \A r \in Reqs : req[r] = Idle /\ ReqOK(req[r], ident, sess, cred)
    BY IdleRow DEF Init, ReqOK, UsesSession
<1>10. OneRecovery
    BY <1>9, IdleRow DEF OneRecovery
<1> QED
    BY <1>7, <1>8, <1>9, <1>10 DEF Typed

\* A request that moves on and keeps what it has read.
LEMMA Onward ==
    ASSUME Typed, NEW r \in Reqs, NEW pc, NEW s, NEW enabled, NEW factor,
           ReqBecomes(r, pc, s, enabled, factor), req[r].op # "idle",
           req[r].op # "recover", pc # "mark" /\ s = req[r].s,
           \A t \in Sessions : sess[t].st # "absent" => sess'[t].st # "absent" /\ sess'[t].u = sess[t].u,
           cred' = cred
    PROVE  /\ req' \in [Reqs -> Req]
           /\ \A q \in Reqs : req'[q] = req[q]
                \/ (ReqOK(req'[q], ident', sess', cred') /\ req'[q].op # "recover")
           /\ \A q \in Reqs \ {r} : req'[q] = req[q]
<1>1. ReqOK(req[r], ident, sess, cred)
    BY DEF Typed
<1>2. ReqOK(req'[r], ident', sess', cred')
    BY <1>1 DEF ReqBecomes, ReqOK, UsesSession
<1> QED
    BY <1>2 DEF ReqBecomes

\* Recovering, in the words of Assemble.
LEMMA Waits ==
    ASSUME NEW u, ~Recovering(u)
    PROVE  \A q \in Reqs : req[q].op = "recover" => req[q].u # u
    BY DEF Recovering

\* The types of the variables.
LEMMA TypedTypes ==
    ASSUME Typed
    PROVE  /\ ident \in [Users -> Ident] /\ sess \in [Sessions -> Sess] /\ cred \in [Creds -> Cred]
           /\ req \in [Reqs -> Req]
           /\ code \in [1..MaxCodes -> [u: Users \cup {None}, secret: 0..MaxSecret]]
           /\ made \in [secrets: 0..MaxSecret, codes: 0..MaxCodes] /\ uses \in [Factors -> 0..2]
           /\ \A r \in Reqs : req[r].op = "recover" => req[r].u \in Users /\ ident[req[r].u].st = "active"
    BY DEF Typed, TypeOK, ReqOK

\* VerifyMFA.
LEMMA TypedVerify ==
    ASSUME Typed, NEW r \in Reqs, \/ \E f \in Totp : VerifyTotp(r, f)
                                  \/ \E n \in 1..MaxCodes : VerifyRecoveryCode(r, n)
    PROVE  Typed'
<1> DEFINE u == req[r].u
<1>3. req[r].op # "recover"
    BY Reading DEF VerifyTotp, VerifyRecoveryCode, ReqOK
<1>1. ASSUME NEW f \in Totp, VerifyTotp(r, f) PROVE Typed'
  <2>1. /\ u \in Users /\ req[r].op # "idle" /\ ~Recovering(u)
        /\ IdentBecomes(u, ident[u].st, ident[u].pw, ident[u].mfa, ident[u].pend, f[2] + 1)
        /\ ReqBecomes(r, "verified", req[r].s, req[r].enabled, ident[u].mfa)
        /\ UNCHANGED <<code, sess, cred, made>> /\ Use(f)
    BY <1>1, TotpEffect
  <2>2. /\ ident' \in [Users -> Ident]
        /\ \A w \in Users : ident'[w].st = ident[w].st /\ ident'[w].pw = ident[w].pw
    BY <2>1 DEF IdentBecomes
  <2>3. /\ req' \in [Reqs -> Req]
        /\ \A q \in Reqs : req'[q] = req[q]
             \/ (ReqOK(req'[q], ident', sess', cred') /\ req'[q].op # "recover")
    BY <1>3, <2>1, Onward
  <2>4. uses' \in [Factors -> 0..2]
    BY <2>1, TotpPairs, Accepting
  <2> QED
    BY <2>1, <2>2, <2>3, <2>4, TypedTypes, Assemble
<1>2. ASSUME NEW n \in 1..MaxCodes, VerifyRecoveryCode(r, n) PROVE Typed'
  <2>1. /\ u \in Users /\ req[r].op # "idle"
        /\ code' \in [1..MaxCodes -> [u: Users \cup {None}, secret: 0..MaxSecret]]
        /\ ReqBecomes(r, "verified", req[r].s, req[r].enabled, ident[u].mfa)
        /\ UNCHANGED <<ident, sess, cred, made>> /\ Use(<<0, n>>)
    BY <1>2, RecoveryCodeEffect
  <2>2. /\ req' \in [Reqs -> Req]
        /\ \A q \in Reqs : req'[q] = req[q]
             \/ (ReqOK(req'[q], ident', sess', cred') /\ req'[q].op # "recover")
    BY <1>3, <2>1, Onward
  <2>3. uses' \in [Factors -> 0..2]
    BY <2>1, Pairs, Accepting
  <2> QED
    BY <2>1, <2>2, <2>3, TypedTypes, Assemble
<1> QED
    BY <1>1, <1>2

\* ChangePassword.
LEMMA TypedChange ==
    ASSUME Typed, NEW r \in Reqs, ChangePassword(r)
    PROVE  Typed'
<1> DEFINE u == req[r].u
<1>1. /\ u \in Users /\ ~Recovering(u)
      /\ IdentBecomes(u, ident[u].st, ident[u].pw + 1, ident[u].mfa, ident[u].pend, ident[u].last)
      /\ sess' = Revoked(SessionsOf(u)) /\ Done(r) /\ UNCHANGED <<code, cred, made, uses>>
    BY ChangeEffect
<1>2. /\ ident' \in [Users -> Ident]
      /\ \A w \in Users : ident'[w].st = ident[w].st
      /\ \A w \in Users \ {u} : ident'[w] = ident[w]
    BY <1>1 DEF IdentBecomes
<1>3. /\ sess' \in [Sessions -> Sess]
      /\ \A s \in Sessions : sess'[s].u = sess[s].u
      /\ \A s \in Sessions : sess'[s].st = "absent" <=> sess[s].st = "absent"
    BY <1>1, RevokedRows, TypedTypes
<1>4. /\ req' \in [Reqs -> Req]
      /\ \A q \in Reqs : req'[q] = req[q]
           \/ (ReqOK(req'[q], ident', sess', cred') /\ req'[q].op # "recover")
    BY <1>1, Ending
<1>5. \A q \in Reqs : req[q].op = "recover" => req[q].u \in Users \ {u}
    BY <1>1, Waits, TypedTypes
<1> QED
    BY <1>1, <1>2, <1>3, <1>4, <1>5, TypedTypes, Assemble

\* Enrolment and rotation of recovery codes.
LEMMA TypedEnrol ==
    ASSUME Typed, NEW r \in Reqs, BeginMFA(r) \/ (\E f \in Totp : ConfirmMFA(r, f))
                                  \/ RotateMFARecoveryCodes(r)
    PROVE  Typed'
<1> DEFINE u == req[r].u
<1>1. CASE BeginMFA(r)
  <2>1. /\ u \in Users /\ ident[u].mfa = 0
        /\ IdentBecomes(u, ident[u].st, ident[u].pw, 0, made.secrets + 1, ident[u].last)
        /\ made' \in [secrets: 0..MaxSecret, codes: 0..MaxCodes]
        /\ Done(r) /\ UNCHANGED <<code, sess, cred, uses>>
    BY <1>1, BeginEffect
  <2>2. /\ ident' \in [Users -> Ident]
        /\ \A w \in Users : ident'[w].st = ident[w].st /\ ident'[w].pw = ident[w].pw
    BY <2>1 DEF IdentBecomes
  <2> QED
    BY <2>1, <2>2, Ending, TypedTypes, Assemble
<1>2. ASSUME NEW f \in Totp, ConfirmMFA(r, f) PROVE Typed'
  <2> DEFINE me == req[r].s
  <2>1. /\ u \in Users
        /\ IdentBecomes(u, ident[u].st, ident[u].pw, ident[u].pend, 0, f[2] + 1)
        /\ Coded(u, ident[u].pend)
        /\ sess' \in [Sessions -> Sess]
        /\ \A s \in Sessions : sess'[s].u = sess[s].u
        /\ \A s \in Sessions : sess'[s].st = "absent" <=> sess[s].st = "absent"
        /\ Use(f) /\ Done(r) /\ UNCHANGED cred
    BY <1>2, ConfirmEffect
  <2>2. /\ ident' \in [Users -> Ident]
        /\ \A w \in Users : ident'[w].st = ident[w].st /\ ident'[w].pw = ident[w].pw
    BY <2>1 DEF IdentBecomes
  <2>3. /\ made' \in [secrets: 0..MaxSecret, codes: 0..MaxCodes]
        /\ code' \in [1..MaxCodes -> [u: Users \cup {None}, secret: 0..MaxSecret]]
    BY <2>1 DEF Coded
  <2>4. uses' \in [Factors -> 0..2]
    BY <2>1, TotpPairs, Accepting
  <2> QED
    BY <2>1, <2>2, <2>3, <2>4, Ending, TypedTypes, Assemble
<1>3. CASE RotateMFARecoveryCodes(r)
  <2>1. /\ req[r].op = "rotate" /\ NewCodes(u, ident[u].mfa) /\ Done(r)
        /\ UNCHANGED <<ident, sess, cred, uses>>
    BY <1>3 DEF RotateMFARecoveryCodes, At
  <2>2. Coded(u, ident[u].mfa)
    BY <2>1, Reading, Stored, Coding
  <2>3. /\ made' \in [secrets: 0..MaxSecret, codes: 0..MaxCodes]
        /\ code' \in [1..MaxCodes -> [u: Users \cup {None}, secret: 0..MaxSecret]]
    BY <2>2 DEF Coded
  <2> QED
    BY <2>1, <2>3, Ending, TypedTypes, Assemble
<1> QED
    BY <1>1, <1>2, <1>3

\* The statements that write a session.
LEMMA TypedSession ==
    ASSUME Typed, NEW r \in Reqs, MarkMFA(r) \/ Restamp(r) \/ \E s \in Sessions : NewSession(r, s)
    PROVE  Typed'
<1>1. ASSUME Stamped, Done(r), UNCHANGED <<ident, code, cred, made, uses>> PROVE Typed'
    BY <1>1, Ending, TypedTypes, Assemble DEF Stamped
<1>2. CASE MarkMFA(r)
  <2>1. /\ Stamped /\ UNCHANGED <<ident, code, cred, made, uses>> /\ req[r].op # "recover"
        /\ Done(r) \/ ReqBecomes(r, "stamp", req[r].s, req[r].enabled, req[r].factor)
    BY <1>2, MarkEffect
  <2>2. req[r].op # "idle"
    BY <1>2 DEF MarkMFA, At
  <2>3. CASE ReqBecomes(r, "stamp", req[r].s, req[r].enabled, req[r].factor)
    <3>1. \A s \in Sessions : sess'[s].st = sess[s].st /\ sess'[s].u = sess[s].u
      BY <2>1 DEF Stamped
    <3>2. /\ req' \in [Reqs -> Req]
          /\ \A q \in Reqs : req'[q] = req[q]
               \/ (ReqOK(req'[q], ident', sess', cred') /\ req'[q].op # "recover")
      BY <2>1, <2>2, <2>3, <3>1, Onward
    <3> QED
      BY <2>1, <3>1, <3>2, TypedTypes, Assemble DEF Stamped
  <2> QED
    BY <1>1, <2>1, <2>3
<1>3. CASE Restamp(r)
  <2>1. /\ sess' = [sess EXCEPT ![req[r].s].fresh = TRUE] \/ sess' = sess
        /\ req[r].op = "reauth"
        /\ Done(r) /\ UNCHANGED <<ident, code, cred, made, uses>>
    BY <1>3 DEF Restamp, At
  <2>2. req[r].s \in Sessions
    BY <2>1, Reading DEF ReqOK, UsesSession
  <2>3. Stamped
    <3>1. CASE sess' = sess
      BY <3>1 DEF Stamped, Typed, TypeOK
    <3> QED
      BY <2>1, <2>2, <3>1, Stamping
  <2> QED
    BY <1>1, <2>1, <2>3
<1>4. ASSUME NEW s \in Sessions, NewSession(r, s) PROVE Typed'
  <2> DEFINE u == req[r].u
  <2>1. /\ u \in Users /\ ident[u].st = "active" /\ req[r].op = "login" /\ sess[s].st = "absent"
        /\ sess' \in [Sessions -> Sess] /\ \A t \in Sessions : t # s => sess'[t] = sess[t]
        /\ sess'[s].st = "live" /\ sess'[s].u = u
        /\ Done(r) \/ ReqBecomes(r, "mark", s, req[r].enabled, req[r].factor)
        /\ UNCHANGED <<ident, code, cred, made, uses>>
    BY <1>4, NewSessionEffect
  <2>2. ASSUME ReqBecomes(r, "mark", s, req[r].enabled, req[r].factor)
        PROVE  /\ req' \in [Reqs -> Req]
               /\ \A q \in Reqs : req'[q] = req[q]
                    \/ (ReqOK(req'[q], ident', sess', cred') /\ req'[q].op # "recover")
    <3>1. ReqOK(req'[r], ident', sess', cred') /\ req'[r].op = "login"
      <4>1. ReqOK(req[r], ident, sess, cred)
        BY DEF Typed
      <4> QED
        BY <2>1, <2>2, <4>1 DEF ReqBecomes, ReqOK, UsesSession
    <3> QED
      BY <2>2, <3>1 DEF ReqBecomes
  <2>3. /\ req' \in [Reqs -> Req]
        /\ \A q \in Reqs : req'[q] = req[q]
             \/ (ReqOK(req'[q], ident', sess', cred') /\ req'[q].op # "recover")
    BY <2>1, <2>2, Ending
  <2> QED
    BY <2>1, <2>3, TypedTypes, Assemble
<1> QED
    BY <1>2, <1>3, <1>4

\* Spending credentials that exist keeps their owners.
LEMMA Spending ==
    ASSUME Typed, NEW S, \A c \in Creds : c \in S => cred[c].st # "absent", cred' = Void(S)
    PROVE  /\ cred' \in [Creds -> Cred]
           /\ \A c \in Creds : cred'[c] = cred[c] \/ (cred'[c].st # "absent" /\ cred'[c].u \in Users)
<1>1. cred \in [Creds -> Cred] /\ CredOwned
    BY DEF Typed, TypeOK
<1> QED
    BY <1>1, VoidRows DEF CredOwned

\* Reset and recovery.
LEMMA TypedRedeem ==
    ASSUME Typed, NEW r \in Reqs, RedeemMFAReset(r) \/ RedeemRecovery(r)
    PROVE  Typed'
<1> DEFINE u == req[r].u
<1>3. ASSUME req[r].c \in Creds PROVE cred[req[r].c].st # "absent"
    BY <1>3 DEF Typed, ReqOK
<1>1. CASE RedeemMFAReset(r)
  <2>1. /\ u \in Users /\ ~Recovering(u) /\ req[r].c \in Creds
        /\ cred' = Void({req[r].c}) /\ sess' = Revoked(SessionsOf(u))
        /\ IdentBecomes(u, ident[u].st, ident[u].pw, 0, 0, 0)
        /\ code' \in [1..MaxCodes -> [u: Users \cup {None}, secret: 0..MaxSecret]]
        /\ Done(r) /\ UNCHANGED <<made, uses>>
    BY <1>1, ResetEffect
  <2>2. /\ ident' \in [Users -> Ident]
        /\ \A w \in Users : ident'[w].st = ident[w].st /\ ident'[w].pw = ident[w].pw
    BY <2>1 DEF IdentBecomes
  <2>3. /\ sess' \in [Sessions -> Sess]
        /\ \A s \in Sessions : sess'[s].u = sess[s].u
        /\ \A s \in Sessions : sess'[s].st = "absent" <=> sess[s].st = "absent"
    BY <2>1, RevokedRows, TypedTypes
  <2>4. /\ cred' \in [Creds -> Cred]
        /\ \A c \in Creds : cred'[c] = cred[c] \/ (cred'[c].st # "absent" /\ cred'[c].u \in Users)
    <3>1. \A c \in Creds : c \in {req[r].c} => cred[c].st # "absent"
      BY <1>3
    <3> QED
      BY <2>1, <3>1, Spending
  <2> QED
    BY <2>1, <2>2, <2>3, <2>4, Ending, TypedTypes, Assemble
<1>2. CASE RedeemRecovery(r)
  <2>1. /\ u \in Users /\ req[r].op = "recover" /\ cred' = Void({req[r].c}) /\ req[r].c \in Creds
        /\ IdentBecomes(u, ident[u].st, ident[u].pw + 1, ident[u].mfa, ident[u].pend, ident[u].last)
        /\ sess' = Revoked(req[r].swept) /\ Done(r) /\ UNCHANGED <<code, made, uses>>
    BY <1>2, RecoveryEffect
  <2>2. /\ ident' \in [Users -> Ident]
        /\ \A w \in Users : ident'[w].st = ident[w].st
        /\ \A w \in Users \ {u} : ident'[w] = ident[w]
    BY <2>1 DEF IdentBecomes
  <2>3. /\ sess' \in [Sessions -> Sess]
        /\ \A s \in Sessions : sess'[s].u = sess[s].u
        /\ \A s \in Sessions : sess'[s].st = "absent" <=> sess[s].st = "absent"
    BY <2>1, RevokedRows, TypedTypes
  <2>4. /\ cred' \in [Creds -> Cred]
        /\ \A c \in Creds : cred'[c] = cred[c] \/ (cred'[c].st # "absent" /\ cred'[c].u \in Users)
    <3>1. \A c \in Creds : c \in {req[r].c} => cred[c].st # "absent"
      BY <1>3
    <3> QED
      BY <2>1, <3>1, Spending
  <2>5. \A q \in Reqs : q # r /\ req[q].op = "recover" => req[q].u \in Users \ {u}
    BY <2>1, TypedTypes DEF Typed, OneRecovery
  <2>6. /\ req' \in [Reqs -> Req] /\ req'[r] = Idle
        /\ \A q \in Reqs : req'[q] = req[q]
             \/ (ReqOK(req'[q], ident', sess', cred') /\ req'[q].op # "recover")
    BY <2>1, Ending
  <2>7. \A q \in Reqs : req'[q] = req[q] /\ req[q].op = "recover" => q # r
    BY <2>1, <2>6, IdleRow
  <2> QED
    BY <2>1, <2>2, <2>3, <2>4, <2>5, <2>6, <2>7, TypedTypes, Assemble
<1> QED
    BY <1>1, <1>2

\* Invitations, issues and expiry.
LEMMA TypedIssue ==
    ASSUME Typed, \/ \E c \in Creds : RedeemInvite(c) \/ CredentialExpires(c)
                  \/ \E r \in Reqs, c \in Creds : IssueInsert(r, c)
    PROVE  Typed'
<1>1. ASSUME NEW c \in Creds, RedeemInvite(c) PROVE Typed'
  <2> DEFINE u == cred[c].u
  <2>1. /\ u \in Users /\ ident[u].st = "absent" /\ cred[c].st = "live" /\ cred' = Void({c})
        /\ IdentBecomes(u, "active", 1, ident[u].mfa, ident[u].pend, ident[u].last)
        /\ UNCHANGED <<code, sess, req, made, uses>>
    BY <1>1, InviteEffect
  <2>2. /\ ident' \in [Users -> Ident] /\ ident'[u].st = "active"
        /\ \A w \in Users \ {u} : ident'[w] = ident[w]
    BY <2>1 DEF IdentBecomes
  <2>3. /\ cred' \in [Creds -> Cred]
        /\ \A d \in Creds : cred'[d] = cred[d] \/ (cred'[d].st # "absent" /\ cred'[d].u \in Users)
    <3>1. \A d \in Creds : d \in {c} => cred[d].st # "absent"
      BY <2>1
    <3> QED
      BY <2>1, <3>1, Spending
  <2>4. \A q \in Reqs : req[q].op = "recover" => req[q].u \in Users \ {u}
    BY <2>1, TypedTypes
  <2> QED
    BY <2>1, <2>2, <2>3, <2>4, TypedTypes, Assemble
<1>2. ASSUME NEW c \in Creds, CredentialExpires(c) PROVE Typed'
  <2>1. cred[c].st = "live" /\ cred' = Void({c}) /\ UNCHANGED <<ident, code, sess, req, made, uses>>
    BY <1>2 DEF CredentialExpires
  <2>2. /\ cred' \in [Creds -> Cred]
        /\ \A d \in Creds : cred'[d] = cred[d] \/ (cred'[d].st # "absent" /\ cred'[d].u \in Users)
    <3>1. \A d \in Creds : d \in {c} => cred[d].st # "absent"
      BY <2>1
    <3> QED
      BY <2>1, <3>1, Spending
  <2> QED
    BY <2>1, <2>2, TypedTypes, Assemble
<1>3. ASSUME NEW r \in Reqs, NEW c \in Creds, IssueInsert(r, c) PROVE Typed'
  <2>1. /\ cred' \in [Creds -> Cred] /\ cred'[c].st = "live" /\ cred'[c].u \in Users
        /\ \A d \in Creds : d # c => cred'[d] = Void(req[r].over)[d]
        /\ Done(r) /\ UNCHANGED <<ident, code, sess, made, uses>>
    BY <1>3, IssueEffect
  <2>2. \A d \in Creds : cred'[d] = cred[d] \/ (cred'[d].st # "absent" /\ cred'[d].u \in Users)
    <3>1. ReqOK(req[r], ident, sess, cred) /\ CredOwned /\ cred \in [Creds -> Cred]
      BY DEF Typed, TypeOK
    <3>2. \A d \in Creds : d \in req[r].over => cred[d].st # "absent"
      BY <3>1 DEF ReqOK
    <3> QED
      BY <2>1, <3>1, <3>2, VoidRows DEF CredOwned
  <2> QED
    BY <2>1, <2>2, Ending, TypedTypes, Assemble
<1> QED
    BY <1>1, <1>2, <1>3

\* The steps that only move a request.
LEMMA TypedRequest ==
    ASSUME Typed, NEW r \in Reqs,
           \/ \E n \in Req : Entered(r, n)
           \/ MFAEnabled(r) \/ Refused(r)
           \/ \E kind \in Issued, u \in Users : IssueSweep(r, kind, u)
    PROVE  Typed'
<1>1. ASSUME NEW n \in Req, Entered(r, n), n.op # "recover" PROVE Typed'
    BY <1>1, Moving DEF Entered
<1>2. ASSUME NEW n \in Req, Entered(r, n), n.op = "recover" PROVE Typed'
  <2>1. /\ req \in [Reqs -> Req] /\ req' \in [Reqs -> Req] /\ req'[r] = n
        /\ \A q \in Reqs \ {r} : req'[q] = req[q]
    BY <1>2, TypedTypes DEF Entered
  <2>2. /\ UNCHANGED <<ident, code, sess, cred, made, uses>> /\ ReqOK(n, ident, sess, cred)
        /\ ~Recovering(n.u)
    BY <1>2 DEF Entered
  <2>3. TypeOK' /\ SessOwned' /\ CredOwned'
    BY <2>1, <2>2 DEF Typed, TypeOK, SessOwned, CredOwned
  <2>4. ASSUME NEW q \in Reqs PROVE ReqOK(req'[q], ident', sess', cred')
    <3>1. ReqOK(req[q], ident, sess, cred)
      BY DEF Typed
    <3> QED
      BY <2>1, <2>2, <3>1
  <2>5. OneRecovery'
    BY <1>2, <2>1, <2>2, Waits DEF Typed, OneRecovery
  <2> QED
    BY <2>3, <2>4, <2>5 DEF Typed
<1>3. CASE MFAEnabled(r)
  <2>1. /\ req[r].pc = "password" /\ req[r].op # "idle"
        /\ \/ ReqBecomes(r, "mfa", req[r].s, TRUE, req[r].factor)
           \/ ReqBecomes(r, "verified", req[r].s, FALSE, req[r].factor)
        /\ UNCHANGED <<ident, code, sess, cred, made, uses>>
    BY <1>3, EnabledEffect
  <2>2. req[r].op # "recover"
    BY <2>1 DEF Typed, ReqOK
  <2>3. /\ req' \in [Reqs -> Req]
        /\ \A q \in Reqs : req'[q] = req[q]
             \/ (ReqOK(req'[q], ident', sess', cred') /\ req'[q].op # "recover")
    BY <2>1, <2>2, Onward
  <2> QED
    BY <2>1, <2>3, TypedTypes, Assemble
<1>4. CASE Refused(r)
    BY <1>4, Ending, TypedTypes, Assemble DEF Refused
<1>5. ASSUME NEW kind \in Issued, NEW u \in Users, IssueSweep(r, kind, u) PROVE Typed'
  <2>1. PICK n \in Req : /\ req' = [req EXCEPT ![r] = n] /\ n.op = "issue" /\ n.u \in Users
                         /\ n.c = req[r].c /\ \A c \in n.over : c \in Creds /\ cred[c].st # "absent"
                         /\ UNCHANGED <<ident, code, sess, cred, made, uses>>
    BY <1>5, SweepEffect
  <2>2. ReqOK(n, ident, sess, cred)
    BY <2>1 DEF Typed, ReqOK, UsesSession
  <2> QED
    BY <2>1, <2>2, Moving
<1> QED
    BY <1>1, <1>2, <1>3, <1>4, <1>5

\* Logout and time.
LEMMA TypedEnvironment ==
    ASSUME Typed, \/ \E s \in Sessions : SessionEnds(s) \/ Ages(s)
                  \/ \E u \in Users : PendingExpires(u)
    PROVE  Typed'
<1>1. ASSUME NEW s \in Sessions, SessionEnds(s) PROVE Typed'
  <2>1. sess' = Revoked({s}) /\ UNCHANGED <<ident, code, cred, req, made, uses>>
    BY <1>1 DEF SessionEnds
  <2>2. /\ sess' \in [Sessions -> Sess]
        /\ \A t \in Sessions : sess'[t].u = sess[t].u
        /\ \A t \in Sessions : sess'[t].st = "absent" <=> sess[t].st = "absent"
    BY <2>1, RevokedRows, TypedTypes
  <2> QED
    BY <2>1, <2>2, TypedTypes, Assemble
<1>2. ASSUME NEW s \in Sessions, Ages(s) PROVE Typed'
  <2>1. Stamped /\ UNCHANGED <<ident, code, cred, req, made, uses>>
    BY <1>2, Stamping DEF Ages
  <2> QED
    BY <2>1, TypedTypes, Assemble DEF Stamped
<1>3. ASSUME NEW u \in Users, PendingExpires(u) PROVE Typed'
  <2>1. /\ IdentBecomes(u, ident[u].st, ident[u].pw, ident[u].mfa, 0, ident[u].last)
        /\ UNCHANGED <<code, sess, cred, req, made, uses>>
    BY <1>3, PendingEffect
  <2>2. /\ ident' \in [Users -> Ident]
        /\ \A w \in Users : ident'[w].st = ident[w].st /\ ident'[w].pw = ident[w].pw
    BY <2>1 DEF IdentBecomes
  <2> QED
    BY <2>1, <2>2, TypedTypes, Assemble
<1> QED
    BY <1>1, <1>2, <1>3

\* Every step keeps the first layer.
LEMMA TypedStep ==
    ASSUME Typed, [Next]_vars
    PROVE  Typed'
<1>1. ASSUME NEW r \in Reqs, Handler(r) PROVE Typed'
    BY <1>1, HandlerEffect, TypedIssue, TypedRequest
<1>2. ASSUME NEW r \in Reqs, Statement(r) PROVE Typed'
    BY <1>2, TypedVerify, TypedChange, TypedEnrol, TypedSession, TypedRedeem, TypedIssue,
       TypedRequest DEF Statement
<1>3. ASSUME NEW r \in Reqs, Refused(r) PROVE Typed'
    BY <1>3, TypedRequest
<1>4. CASE Environment
    BY <1>4, TypedIssue, TypedEnvironment DEF Environment
<1>5. CASE UNCHANGED vars
    BY <1>5, TypedTypes, Assemble DEF vars
<1> QED
    BY <1>1, <1>2, <1>3, <1>4, <1>5 DEF Next

-----------------------------------------------------------------------------
(* Layer 2: factors.                                                       *)

\* The second layer holds at the start.
LEMMA FactorInit ==
    ASSUME Init
    PROVE  FactorInv
<1>1. /\ \A u \in Users : ident[u].mfa = 0 /\ ident[u].pend = 0
      /\ \A n \in 1..MaxCodes : code[n].u = None
      /\ \A f \in Factors : uses[f] = 0
    BY DEF Init, NoCode
<1> QED
    BY <1>1, Pairs DEF FactorInv, SecretsOwned, Holds, StepsUnused, CodesUnused, CodesMatchSecret,
       FactorAcceptedOnce

\* Steps that leave the second factors alone.
LEMMA FactorFrame ==
    ASSUME FactorInv, UNCHANGED <<code, made, uses>>,
           \A u \in Users : /\ ident'[u].mfa = ident[u].mfa /\ ident'[u].pend = ident[u].pend
                            /\ ident'[u].last = ident[u].last
    PROVE  FactorInv'
<1>1. SecretsOwned'
    BY DEF FactorInv, SecretsOwned, Holds
<1>2. StepsUnused'
    BY DEF FactorInv, StepsUnused
<1>3. CodesUnused' /\ CodesMatchSecret'
    BY DEF FactorInv, CodesUnused, CodesMatchSecret
<1>4. FactorAcceptedOnce'
    BY DEF FactorInv, FactorAcceptedOnce
<1> QED
    BY <1>1, <1>2, <1>3, <1>4 DEF FactorInv

\* mfa_last_step moves past the step that is accepted.
LEMMA FactorTotp ==
    ASSUME Typed, FactorInv, NEW r \in Reqs, NEW f \in Totp, VerifyTotp(r, f)
    PROVE  FactorInv'
<1> DEFINE u == req[r].u
           k == f[1]
           t == f[2]
<1>1. /\ u \in Users /\ ident[u].mfa = k /\ t >= ident[u].last
      /\ IdentBecomes(u, ident[u].st, ident[u].pw, ident[u].mfa, ident[u].pend, t + 1)
      /\ UNCHANGED <<code, made>> /\ Use(f)
    BY TotpEffect
<1>2. f \in Factors /\ k \in 1..MaxSecret /\ t \in 0..MaxStep /\ f = <<k, t>>
    BY TotpPairs
<1> HIDE DEF k, t
<1>3. uses[f] = 0 /\ k <= made.secrets /\ \A w \in Users : Holds(w, k) => w = u
    BY <1>1, <1>2 DEF FactorInv, StepsUnused, SecretsOwned, Holds
<1>4. uses'[f] = 1 /\ \A g \in Factors : g # f => uses'[g] = uses[g]
    BY <1>1, <1>2, <1>3, Accepting
<1>5. \A w \in Users : ident'[w].mfa = ident[w].mfa /\ ident'[w].pend = ident[w].pend
    BY <1>1 DEF IdentBecomes
<1>6. \A w \in Users : w # u => ident'[w].last = ident[w].last
    BY <1>1 DEF IdentBecomes
<1>7. SecretsOwned'
    BY <1>1, <1>5 DEF FactorInv, SecretsOwned, Holds
<1>8. StepsUnused'
  <2> SUFFICES ASSUME NEW j \in 1..MaxSecret, NEW i \in 0..MaxStep
               PROVE  /\ j > made.secrets => uses'[<<j, i>>] = 0
                      /\ \A w \in Users : ident'[w].pend = j => uses'[<<j, i>>] = 0
                      /\ \A w \in Users : ident'[w].mfa = j /\ i >= ident'[w].last => uses'[<<j, i>>] = 0
    BY <1>1 DEF StepsUnused
  <2>1. /\ j > made.secrets => uses[<<j, i>>] = 0
        /\ \A w \in Users : ident[w].pend = j => uses[<<j, i>>] = 0
        /\ \A w \in Users : ident[w].mfa = j /\ i >= ident[w].last => uses[<<j, i>>] = 0
    BY DEF FactorInv, StepsUnused
  <2>2. CASE <<j, i>> # f
    <3>1. uses'[<<j, i>>] = uses[<<j, i>>]
      BY <1>4, <2>2, Pairs
    <3>2. ident'[u].last = t + 1 /\ ident[u].last <= t /\ ident[u].last \in 0..(MaxStep + 1)
      BY <1>1, <1>2, Stored DEF IdentBecomes
    <3>3. i >= ident'[u].last => i >= ident[u].last
      BY <1>2, <3>2, BoundsAssumption
    <3> QED
      BY <1>5, <1>6, <2>1, <3>1, <3>3
  <2>3. CASE <<j, i>> = f
    <3>1. j = k /\ i = t
      BY <1>2, <2>3
    <3>2. ident'[u].last = t + 1 /\ ~(t >= t + 1)
      BY <1>1, <1>2 DEF IdentBecomes
    <3>3. made.secrets \in 0..MaxSecret
      BY TypedTypes
    <3>4. \A w \in Users : ident[w].mfa = k \/ ident[w].pend = k => w = u /\ ident[u].pend # k
      <4>1. k # 0 /\ ident[u].pend = 0
        BY <1>1, <1>2 DEF FactorInv, SecretsOwned
      <4> QED
        BY <1>3, <4>1 DEF Holds
    <3> QED
      BY <1>2, <1>3, <1>5, <3>1, <3>2, <3>3, <3>4
  <2> QED
    BY <2>2, <2>3
<1>9. CodesUnused'
  <2>1. \A n \in 1..MaxCodes : uses'[<<0, n>>] = uses[<<0, n>>]
    BY <1>2, <1>4, Pairs
  <2> QED
    BY <1>1, <2>1 DEF FactorInv, CodesUnused
<1>10. CodesMatchSecret'
    BY <1>1, <1>5 DEF FactorInv, CodesUnused, CodesMatchSecret
<1>11. FactorAcceptedOnce'
    BY <1>4 DEF FactorInv, FactorAcceptedOnce
<1> QED
    BY <1>7, <1>8, <1>9, <1>10, <1>11 DEF FactorInv

\* A recovery code that is accepted is not valid any more.
LEMMA FactorCode ==
    ASSUME Typed, FactorInv, NEW r \in Reqs, NEW n \in 1..MaxCodes, VerifyRecoveryCode(r, n)
    PROVE  FactorInv'
<1> DEFINE u == req[r].u
<1>1. /\ u \in Users /\ code[n].u = u /\ code'[n].u = None
      /\ \A m \in 1..MaxCodes : m # n => code'[m] = code[m]
      /\ UNCHANGED <<ident, made>> /\ Use(<<0, n>>)
    BY RecoveryCodeEffect
<1>2. uses[<<0, n>>] = 0 /\ <<0, n>> \in Factors /\ ~(n > made.codes) /\ u # None
    BY <1>1, Pairs, NoneAssumption DEF FactorInv, CodesUnused
<1>3. uses'[<<0, n>>] = 1 /\ \A g \in Factors : g # <<0, n>> => uses'[g] = uses[g]
    BY <1>1, <1>2, Accepting
<1>4. SecretsOwned'
    BY <1>1 DEF FactorInv, SecretsOwned, Holds
<1>5. StepsUnused'
  <2>1. \A k \in 1..MaxSecret, t \in 0..MaxStep : uses'[<<k, t>>] = uses[<<k, t>>]
    BY <1>3, Pairs
  <2> QED
    BY <1>1, <2>1 DEF FactorInv, StepsUnused
<1>6. CodesUnused'
  <2>1. \A m \in 1..MaxCodes : m # n => uses'[<<0, m>>] = uses[<<0, m>>]
    BY <1>3, Pairs
  <2> QED
    BY <1>1, <1>2, <2>1 DEF FactorInv, CodesUnused
<1>7. CodesMatchSecret'
    BY <1>1 DEF FactorInv, CodesMatchSecret
<1>8. FactorAcceptedOnce'
    BY <1>3 DEF FactorInv, FactorAcceptedOnce
<1> QED
    BY <1>4, <1>5, <1>6, <1>7, <1>8 DEF FactorInv

\* A secret is new when it is generated, and a user without a second factor has
\* no recovery codes.
LEMMA FactorBegin ==
    ASSUME Typed, FactorInv, NEW r \in Reqs, BeginMFA(r)
    PROVE  FactorInv'
<1> DEFINE u == req[r].u
           k == made.secrets + 1
<1>1. /\ u \in Users /\ ident[u].mfa = 0 /\ k \in 1..MaxSecret /\ made.secrets \in 0..MaxSecret
      /\ IdentBecomes(u, ident[u].st, ident[u].pw, 0, k, ident[u].last)
      /\ made'.secrets = k /\ made'.codes = made.codes /\ UNCHANGED <<code, uses>>
    BY BeginEffect
<1>2. made.secrets < k /\ \A j \in 1..MaxSecret : (j <= made.secrets => j <= k /\ j # k)
                                                  /\ (j > k => j > made.secrets)
    BY <1>1
<1> HIDE DEF k
<1>3. /\ \A w \in Users : ident'[w].mfa = ident[w].mfa /\ ident'[w].last = ident[w].last
      /\ \A w \in Users : w # u => ident'[w].pend = ident[w].pend
      /\ ident'[u].pend = k
    BY <1>1 DEF IdentBecomes
<1>4. \A w \in Users : ~Holds(w, k)
    BY <1>1, <1>2 DEF FactorInv, SecretsOwned
<1>5. \A w \in Users, j \in 1..MaxSecret : Holds(w, j)' => Holds(w, j) \/ (w = u /\ j = k)
    BY <1>3 DEF Holds
<1>6. SecretsOwned'
  <2>1. \A w \in Users : ident'[w].mfa # 0 => ident'[w].pend = 0
    BY <1>1, <1>3 DEF FactorInv, SecretsOwned
  <2>2. \A w \in Users, j \in 1..MaxSecret : Holds(w, j)' => j <= made'.secrets
    BY <1>1, <1>2, <1>5 DEF FactorInv, SecretsOwned
  <2>3. \A v, w \in Users, j \in 1..MaxSecret : Holds(v, j)' /\ Holds(w, j)' => v = w
    BY <1>4, <1>5 DEF FactorInv, SecretsOwned
  <2> QED
    BY <2>1, <2>2, <2>3 DEF SecretsOwned
<1>7. StepsUnused'
  <2>1. \A j \in 1..MaxSecret, t \in 0..MaxStep : j > made'.secrets => uses'[<<j, t>>] = 0
    BY <1>1, <1>2 DEF FactorInv, StepsUnused
  <2>2. \A t \in 0..MaxStep : uses'[<<k, t>>] = 0
    BY <1>1, <1>2 DEF FactorInv, StepsUnused
  <2>3. \A j \in 1..MaxSecret, t \in 0..MaxStep, w \in Users :
          ident'[w].pend = j => uses'[<<j, t>>] = 0
    BY <1>1, <1>3, <2>2 DEF FactorInv, StepsUnused
  <2>4. \A j \in 1..MaxSecret, t \in 0..MaxStep, w \in Users :
          ident'[w].mfa = j /\ t >= ident'[w].last => uses'[<<j, t>>] = 0
    BY <1>1, <1>3 DEF FactorInv, StepsUnused
  <2> QED
    BY <2>1, <2>3, <2>4 DEF StepsUnused
<1>8. CodesUnused' /\ CodesMatchSecret' /\ FactorAcceptedOnce'
    BY <1>1, <1>3 DEF FactorInv, CodesUnused, CodesMatchSecret, FactorAcceptedOnce
<1> QED
    BY <1>6, <1>7, <1>8 DEF FactorInv

\* The confirmed step is the only one of its secret that has been accepted.
LEMMA FactorConfirm ==
    ASSUME Typed, FactorInv, NEW r \in Reqs, NEW f \in Totp, ConfirmMFA(r, f)
    PROVE  FactorInv'
<1> DEFINE u == req[r].u
           me == req[r].s
           k == f[1]
           t == f[2]
           m == made.codes + 1
<1>1. /\ u \in Users /\ ident[u].mfa = 0 /\ ident[u].pend # 0 /\ ident[u].pend = k
      /\ IdentBecomes(u, ident[u].st, ident[u].pw, k, 0, t + 1)
      /\ Coded(u, k) /\ Use(f)
    BY ConfirmEffect
<1>2. f \in Factors /\ k \in 1..MaxSecret /\ t \in 0..MaxStep /\ f = <<k, t>> /\ k # 0
    BY TotpPairs
<1>3. /\ m \in 1..MaxCodes /\ made.codes \in 0..MaxCodes
      /\ made'.secrets = made.secrets /\ made'.codes = m
      /\ code'[m].u = u /\ code'[m].secret = k
      /\ \A n \in 1..MaxCodes : n # m => code'[n] = code[n] \/ code'[n].u = None
    BY <1>1 DEF Coded
<1>4. m > made.codes /\ \A n \in 1..MaxCodes : n > m => n > made.codes /\ n # m
    BY <1>3
<1> HIDE DEF k, t, m
<1>5. /\ \A i \in 0..MaxStep : uses[<<k, i>>] = 0
      /\ k <= made.secrets /\ \A w \in Users : Holds(w, k) => w = u
    BY <1>1, <1>2 DEF FactorInv, StepsUnused, SecretsOwned, Holds
<1>6. uses'[f] = 1 /\ \A g \in Factors : g # f => uses'[g] = uses[g]
    BY <1>1, <1>2, <1>5, Accepting
<1>7. /\ \A w \in Users : w # u => ident'[w] = ident[w]
      /\ ident'[u].mfa = k /\ ident'[u].pend = 0 /\ ident'[u].last = t + 1
    BY <1>1 DEF IdentBecomes
<1>8. \A w \in Users, j \in 1..MaxSecret : Holds(w, j)' => Holds(w, j)
    BY <1>1, <1>7 DEF Holds
<1>9. SecretsOwned'
  <2>1. \A w \in Users : ident'[w].mfa # 0 => ident'[w].pend = 0
    BY <1>7 DEF FactorInv, SecretsOwned
  <2> QED
    BY <1>3, <1>8, <2>1 DEF FactorInv, SecretsOwned
<1>10. StepsUnused'
  <2>1. \A j \in 1..MaxSecret, i \in 0..MaxStep : j # k => uses'[<<j, i>>] = uses[<<j, i>>]
    BY <1>2, <1>6, Pairs
  <2>2. \A i \in 0..MaxStep : i >= t + 1 => uses'[<<k, i>>] = 0
    <3>1. \A i \in 0..MaxStep : i >= t + 1 => <<k, i>> # f
      BY <1>2
    <3> QED
      BY <1>2, <1>5, <1>6, <3>1, Pairs
  <2>3. \A w \in Users : w # u => ident[w].mfa # k /\ ident[w].pend # k
    BY <1>2, <1>5 DEF Holds
  <2>4. \A j \in 1..MaxSecret, i \in 0..MaxStep : j > made'.secrets => uses'[<<j, i>>] = 0
    <3>1. \A j \in 1..MaxSecret : j > made.secrets => j # k
      BY <1>2, <1>5, TypedTypes
    <3> QED
      BY <1>3, <2>1, <3>1 DEF FactorInv, StepsUnused
  <2>5. \A j \in 1..MaxSecret, i \in 0..MaxStep, w \in Users :
          ident'[w].pend = j => uses'[<<j, i>>] = 0
    BY <1>7, <2>1, <2>3 DEF FactorInv, StepsUnused
  <2>6. \A j \in 1..MaxSecret, i \in 0..MaxStep, w \in Users :
          ident'[w].mfa = j /\ i >= ident'[w].last => uses'[<<j, i>>] = 0
    BY <1>7, <2>1, <2>2, <2>3 DEF FactorInv, StepsUnused
  <2> QED
    BY <2>4, <2>5, <2>6 DEF StepsUnused
<1>11. \A n \in 1..MaxCodes : uses'[<<0, n>>] = uses[<<0, n>>]
    BY <1>2, <1>6, Pairs
<1>12. CodesUnused'
  <2>1. \A n \in 1..MaxCodes : n > made'.codes => uses'[<<0, n>>] = 0 /\ code'[n].u = None
    BY <1>3, <1>4, <1>11 DEF FactorInv, CodesUnused
  <2>2. \A n \in 1..MaxCodes : code'[n].u # None =>
          code'[n].u \in Users /\ code'[n].secret # 0 /\ uses'[<<0, n>>] = 0
    BY <1>1, <1>2, <1>3, <1>4, <1>11 DEF FactorInv, CodesUnused
  <2> QED
    BY <2>1, <2>2 DEF CodesUnused
<1>13. CodesMatchSecret'
  <2>1. \A n \in 1..MaxCodes : code[n].u # None => code[n].u \in Users /\ code[n].u # u
    BY <1>1 DEF FactorInv, CodesUnused, CodesMatchSecret
  <2> QED
    BY <1>3, <1>7, <2>1 DEF FactorInv, CodesMatchSecret
<1>14. FactorAcceptedOnce'
    BY <1>6 DEF FactorInv, FactorAcceptedOnce
<1> QED
    BY <1>9, <1>10, <1>12, <1>13, <1>14 DEF FactorInv

\* Rotation replaces the codes by one of the same secret.
LEMMA FactorRotate ==
    ASSUME Typed, FactorInv, NEW r \in Reqs, RotateMFARecoveryCodes(r)
    PROVE  FactorInv'
<1> DEFINE u == req[r].u
           m == made.codes + 1
<1>1. /\ req[r].op = "rotate" /\ ident[u].mfa # 0 /\ NewCodes(u, ident[u].mfa)
      /\ UNCHANGED <<ident, uses>>
    BY DEF RotateMFARecoveryCodes, At
<1>2. u \in Users /\ Coded(u, ident[u].mfa)
    BY <1>1, Reading, Stored, Coding
<1>3. /\ m \in 1..MaxCodes /\ made.codes \in 0..MaxCodes
      /\ made'.secrets = made.secrets /\ made'.codes = m
      /\ code'[m].u = u /\ code'[m].secret = ident[u].mfa
      /\ \A n \in 1..MaxCodes : n # m => code'[n] = code[n] \/ code'[n].u = None
    BY <1>2 DEF Coded
<1>4. m > made.codes /\ \A n \in 1..MaxCodes : n > m => n > made.codes /\ n # m
    BY <1>3
<1> HIDE DEF m
<1>5. SecretsOwned' /\ StepsUnused' /\ FactorAcceptedOnce'
    BY <1>1, <1>3 DEF FactorInv, SecretsOwned, StepsUnused, FactorAcceptedOnce, Holds
<1>6. CodesUnused'
    BY <1>1, <1>2, <1>3, <1>4 DEF FactorInv, CodesUnused
<1>7. CodesMatchSecret'
    BY <1>1, <1>3 DEF FactorInv, CodesMatchSecret
<1> QED
    BY <1>5, <1>6, <1>7 DEF FactorInv

\* A reset leaves neither the secret nor a code of the user.
LEMMA FactorReset ==
    ASSUME Typed, FactorInv, NEW r \in Reqs, RedeemMFAReset(r)
    PROVE  FactorInv'
<1> DEFINE u == req[r].u
<1>1. /\ u \in Users /\ IdentBecomes(u, ident[u].st, ident[u].pw, 0, 0, 0)
      /\ \A n \in 1..MaxCodes : /\ code[n].u = u => code'[n].u = None
                                /\ code[n].u # u => code'[n] = code[n]
      /\ UNCHANGED <<made, uses>>
    BY ResetEffect
<1>2. /\ \A w \in Users : w # u => ident'[w] = ident[w]
      /\ ident'[u].mfa = 0 /\ ident'[u].pend = 0
    BY <1>1 DEF IdentBecomes
<1>3. SecretsOwned'
    BY <1>1, <1>2 DEF FactorInv, SecretsOwned, Holds
<1>4. StepsUnused'
  <2>1. \A k \in 1..MaxSecret, w \in Users :
          /\ ident'[w].mfa = k => ident'[w].mfa = ident[w].mfa /\ ident'[w].last = ident[w].last
          /\ ident'[w].pend = k => ident'[w].pend = ident[w].pend
    BY <1>2
  <2> QED
    BY <1>1, <2>1 DEF FactorInv, StepsUnused
<1>5. CodesUnused'
    BY <1>1 DEF FactorInv, CodesUnused
<1>6. CodesMatchSecret'
  <2>1. \A n \in 1..MaxCodes : code'[n].u # None =>
          code'[n] = code[n] /\ code[n].u \in Users /\ code[n].u # u
    BY <1>1 DEF FactorInv, CodesUnused
  <2> QED
    BY <1>2, <2>1 DEF FactorInv, CodesMatchSecret
<1>7. FactorAcceptedOnce'
    BY <1>1 DEF FactorInv, FactorAcceptedOnce
<1> QED
    BY <1>3, <1>4, <1>5, <1>6, <1>7 DEF FactorInv

\* A pending secret that lapses is gone for good.
LEMMA FactorPending ==
    ASSUME Typed, FactorInv, NEW u \in Users, PendingExpires(u)
    PROVE  FactorInv'
<1>1. /\ IdentBecomes(u, ident[u].st, ident[u].pw, ident[u].mfa, 0, ident[u].last)
      /\ UNCHANGED <<code, made, uses>>
    BY PendingEffect
<1>2. /\ \A w \in Users : ident'[w].mfa = ident[w].mfa /\ ident'[w].last = ident[w].last
      /\ \A w \in Users : w # u => ident'[w].pend = ident[w].pend
      /\ ident'[u].pend = 0
    BY <1>1 DEF IdentBecomes
<1>3. SecretsOwned'
    BY <1>1, <1>2 DEF FactorInv, SecretsOwned, Holds
<1>4. StepsUnused'
  <2>1. \A k \in 1..MaxSecret, w \in Users :
          /\ ident'[w].mfa = k => ident'[w].mfa = ident[w].mfa /\ ident'[w].last = ident[w].last
          /\ ident'[w].pend = k => ident'[w].pend = ident[w].pend
    BY <1>2
  <2> QED
    BY <1>1, <2>1 DEF FactorInv, StepsUnused
<1>5. CodesUnused' /\ CodesMatchSecret' /\ FactorAcceptedOnce'
    BY <1>1, <1>2 DEF FactorInv, CodesUnused, CodesMatchSecret, FactorAcceptedOnce
<1> QED
    BY <1>3, <1>4, <1>5 DEF FactorInv

\* A new password leaves the second factor alone.
LEMMA FactorPassword ==
    ASSUME Typed, FactorInv, \/ \E r \in Reqs : ChangePassword(r) \/ RedeemRecovery(r)
                             \/ \E c \in Creds : RedeemInvite(c)
    PROVE  FactorInv'
<1>1. ASSUME NEW r \in Reqs, ChangePassword(r) PROVE FactorInv'
    BY <1>1, ChangeEffect, FactorFrame DEF IdentBecomes
<1>2. ASSUME NEW r \in Reqs, RedeemRecovery(r) PROVE FactorInv'
    BY <1>2, RecoveryEffect, FactorFrame DEF IdentBecomes
<1>3. ASSUME NEW c \in Creds, RedeemInvite(c) PROVE FactorInv'
    BY <1>3, InviteEffect, FactorFrame DEF IdentBecomes
<1> QED
    BY <1>1, <1>2, <1>3

\* Every step keeps the second layer.
LEMMA FactorStep ==
    ASSUME Typed, FactorInv, [Next]_vars
    PROVE  FactorInv'
<1>1. ASSUME NEW r \in Reqs, Handler(r) PROVE FactorInv'
    BY <1>1, HandlerEffect, FactorPassword, FactorFrame DEF Entered
<1>2. ASSUME UNCHANGED <<ident, code, made, uses>> PROVE FactorInv'
    BY <1>2, FactorFrame
<1>3. ASSUME NEW r \in Reqs, Statement(r) PROVE FactorInv'
  <2>1. CASE \/ MFAEnabled(r) \/ MarkMFA(r) \/ Restamp(r) \/ \E s \in Sessions : NewSession(r, s)
             \/ \E kind \in Issued, u \in Users : IssueSweep(r, kind, u)
             \/ \E c \in Creds : IssueInsert(r, c)
    BY <1>2, <2>1 DEF MFAEnabled, MarkMFA, Restamp, NewSession, IssueSweep, IssueInsert
  <2> QED
    BY <1>3, <2>1, FactorTotp, FactorCode, FactorBegin, FactorConfirm, FactorRotate, FactorReset,
       FactorPassword DEF Statement
<1>4. ASSUME NEW r \in Reqs, Refused(r) PROVE FactorInv'
    BY <1>2, <1>4 DEF Refused
<1>5. CASE Environment
    BY <1>2, <1>5, FactorPending DEF Environment, SessionEnds, Ages, CredentialExpires
<1>6. CASE UNCHANGED vars
    BY <1>2, <1>6 DEF vars
<1> QED
    BY <1>1, <1>3, <1>4, <1>5, <1>6 DEF Next

-----------------------------------------------------------------------------
(* Layer 3: sessions.                                                      *)

\* The third layer holds at the start.
LEMMA SessInit ==
    ASSUME Init
    PROVE  SessInv
<1>1. \A s \in Sessions : sess[s].st = "absent"
    BY DEF Init, NoSess
<1>2. \A r \in Reqs : req[r] = Idle
    BY DEF Init
<1> QED
    BY <1>1, <1>2, IdleRow DEF SessInv, SessionsFollowCredentials, RecoveryCovers, ChangeOK

\* The sessions that are in order now were in order before, under the same
\* password and the same second factor.
SessKept == \A s \in Sessions : sess'[s].st = "live" /\ ~sess'[s].late =>
    /\ sess[s].st = "live" /\ ~sess[s].late /\ sess'[s].u = sess[s].u
    /\ sess'[s].pw0 = sess[s].pw0 /\ sess'[s].mfa0 = sess[s].mfa0
    /\ ident'[sess[s].u].pw = ident[sess[s].u].pw /\ ident'[sess[s].u].mfa = ident[sess[s].u].mfa
\* No session comes back, and one that stays alive keeps an enrolled secret.
FactorKept == \A s \in Sessions : sess[s].st # "absent" /\ sess'[s].st = "live" =>
    /\ sess[s].st = "live"
    /\ ident'[sess[s].u].mfa = ident[sess[s].u].mfa \/ ident[sess[s].u].mfa = 0
RequestsKept == \A r \in Reqs :
    \/ req'[r] = req[r]
    \/ req'[r].op # "recover" /\ ChangeOK(req'[r], ident', sess')

\* What a password change verified outlasts such a step.
LEMMA ChangeKept ==
    ASSUME Typed, SessInv, FactorKept, RequestsKept, NEW r \in Reqs
    PROVE  ChangeOK(req'[r], ident', sess')
<1>1. CASE req'[r] = req[r]
  <2> DEFINE q == req[r]
  <2>1. ChangeOK(q, ident, sess)
    BY DEF SessInv
  <2>2. q.op = "change" => q.s \in Sessions /\ sess[q.s].st # "absent" /\ sess[q.s].u = q.u
    BY DEF Typed, ReqOK, UsesSession
  <2>3. q.op = "change" /\ sess'[q.s].st = "live" =>
          sess[q.s].st = "live" /\ (ident'[q.u].mfa = ident[q.u].mfa \/ ident[q.u].mfa = 0)
    BY <2>2 DEF FactorKept
  <2> HIDE DEF q
  <2>4. ChangeOK(q, ident', sess')
    BY <2>1, <2>3 DEF ChangeOK
  <2> QED
    BY <1>1, <2>4 DEF q
<1>2. CASE req'[r] # req[r]
    BY <1>2 DEF RequestsKept
<1> QED
    BY <1>1, <1>2

\* Such a step keeps the third layer.
LEMMA SessFrame ==
    ASSUME Typed, SessInv, SessKept, FactorKept, RequestsKept
    PROVE  SessInv'
<1>1. SessionsFollowCredentials'
    BY DEF SessInv, SessKept, SessionsFollowCredentials
<1>2. RecoveryCovers'
    BY DEF SessInv, SessKept, RequestsKept, RecoveryCovers
<1> QED
    BY <1>1, <1>2, ChangeKept DEF SessInv

\* Statements that leave sessions, passwords and second factors alone.
LEMMA SessSame ==
    ASSUME Typed, UNCHANGED sess,
           \A u \in Users : ident'[u].pw = ident[u].pw /\ ident'[u].mfa = ident[u].mfa
    PROVE  SessKept /\ FactorKept
    BY DEF SessKept, FactorKept, Typed, SessOwned

\* So does the end of a request.
LEMMA SessDone ==
    ASSUME Typed, NEW r \in Reqs, Done(r)
    PROVE  RequestsKept
<1>1. req'[r] = Idle /\ \A q \in Reqs \ {r} : req'[q] = req[q]
    BY Ending
<1> QED
    BY <1>1, IdleRow DEF RequestsKept, ChangeOK

\* The sessions of S end.
LEMMA SessEnd ==
    ASSUME Typed, NEW S, sess' = Revoked(S),
           \A s \in Sessions \ S : sess[s].st # "absent" =>
               /\ ident'[sess[s].u].pw = ident[sess[s].u].pw
               /\ ident'[sess[s].u].mfa = ident[sess[s].u].mfa
    PROVE  SessKept /\ FactorKept
<1>1. \A s \in Sessions : sess'[s].st = "live" => s \notin S /\ sess'[s] = sess[s]
    BY RevokedRows, TypedTypes
<1> QED
    BY <1>1 DEF SessKept, FactorKept

\* A recovery starts with every session of its user in its sweep.
LEMMA SessEnter ==
    ASSUME Typed, SessInv, NEW r \in Reqs, NEW n \in Req, Entered(r, n)
    PROVE  SessInv'
<1>1. /\ req' = [req EXCEPT ![r] = n] /\ req \in [Reqs -> Req] /\ UNCHANGED <<ident, sess>>
      /\ n.factor = 0 /\ n.pc \in {"entered", "password", "swept"}
      /\ n.op = "recover" => n.swept = SessionsOf(n.u)
    BY TypedTypes DEF Entered
<1>2. req'[r] = n /\ \A q \in Reqs \ {r} : req'[q] = req[q]
    BY <1>1
<1>3. SessionsFollowCredentials'
    BY <1>1 DEF SessInv, SessionsFollowCredentials
<1>4. RecoveryCovers'
    BY <1>1, <1>2 DEF SessInv, RecoveryCovers, SessionsOf
<1>5. ChangeOK(n, ident', sess')
    BY <1>1 DEF ChangeOK
<1>6. ASSUME NEW q \in Reqs PROVE ChangeOK(req'[q], ident', sess')
    BY <1>1, <1>2, <1>5 DEF SessInv
<1> QED
    BY <1>3, <1>4, <1>6 DEF SessInv

\* A verified factor is the enrolled one.
LEMMA SessVerify ==
    ASSUME Typed, SessInv, NEW r \in Reqs,
           \/ \E f \in Totp : VerifyTotp(r, f)
           \/ \E n \in 1..MaxCodes : VerifyRecoveryCode(r, n)
           \/ MFAEnabled(r)
    PROVE  SessInv'
<1> DEFINE u == req[r].u
<1>1. ChangeOK(req[r], ident, sess)
    BY DEF SessInv
<1>2. ASSUME u \in Users, req[r].pc = "mfa", ident[u].mfa # 0, UNCHANGED sess,
             \A w \in Users : ident'[w].pw = ident[w].pw /\ ident'[w].mfa = ident[w].mfa,
             ReqBecomes(r, "verified", req[r].s, req[r].enabled, ident[u].mfa)
      PROVE  SessInv'
  <2>1. req[r].op # "recover"
    BY <1>2 DEF Typed, ReqOK
  <2>2. ChangeOK(req'[r], ident', sess')
    BY <1>1, <1>2 DEF ReqBecomes, ChangeOK
  <2>3. RequestsKept
    BY <1>2, <2>1, <2>2 DEF RequestsKept, ReqBecomes
  <2> QED
    BY <1>2, <2>3, SessSame, SessFrame
<1>3. ASSUME NEW f \in Totp, VerifyTotp(r, f) PROVE SessInv'
  <2>1. /\ u \in Users /\ req[r].pc = "mfa" /\ ident[u].mfa # 0 /\ UNCHANGED sess
        /\ IdentBecomes(u, ident[u].st, ident[u].pw, ident[u].mfa, ident[u].pend, f[2] + 1)
        /\ ReqBecomes(r, "verified", req[r].s, req[r].enabled, ident[u].mfa)
    BY <1>3, TotpEffect
  <2>2. \A w \in Users : ident'[w].pw = ident[w].pw /\ ident'[w].mfa = ident[w].mfa
    BY <2>1 DEF IdentBecomes
  <2> QED
    BY <1>2, <2>1, <2>2
<1>4. ASSUME NEW n \in 1..MaxCodes, VerifyRecoveryCode(r, n) PROVE SessInv'
    BY <1>2, <1>4, RecoveryCodeEffect
<1>5. CASE MFAEnabled(r)
  <2>1. /\ u \in Users /\ req[r].pc = "password" /\ UNCHANGED <<ident, sess>>
        /\ \/ ReqBecomes(r, "mfa", req[r].s, TRUE, req[r].factor)
           \/ ReqBecomes(r, "verified", req[r].s, FALSE, req[r].factor)
    BY <1>5, EnabledEffect
  <2>2. req[r].op # "recover"
    BY <2>1 DEF Typed, ReqOK
  <2>3. ChangeOK(req'[r], ident', sess')
    BY <1>1, <2>1 DEF ReqBecomes, ChangeOK
  <2>4. RequestsKept
    BY <2>1, <2>2, <2>3 DEF RequestsKept, ReqBecomes
  <2> QED
    BY <2>1, <2>4, SessSame, SessFrame
<1> QED
    BY <1>3, <1>4, <1>5

\* A new password and a reset end every session of the user.
LEMMA SessChange ==
    ASSUME Typed, SessInv, NEW r \in Reqs, ChangePassword(r) \/ RedeemMFAReset(r)
    PROVE  SessInv'
<1> DEFINE u == req[r].u
<1>1. /\ u \in Users /\ sess' = Revoked(SessionsOf(u)) /\ Done(r)
      /\ \A w \in Users \ {u} : ident'[w] = ident[w]
  <2>1. CASE ChangePassword(r)
    BY <2>1, ChangeEffect DEF IdentBecomes
  <2>2. CASE RedeemMFAReset(r)
    BY <2>2, ResetEffect DEF IdentBecomes
  <2> QED
    BY <2>1, <2>2
<1>2. \A s \in Sessions \ SessionsOf(u) : sess[s].st # "absent" => sess[s].u \in Users \ {u}
    BY DEF SessionsOf, Typed, SessOwned
<1>3. SessKept /\ FactorKept
    BY <1>1, <1>2, SessEnd
<1> QED
    BY <1>1, <1>3, SessDone, SessFrame

\* The sessions that a recovery has not swept are late.
LEMMA SessRecovery ==
    ASSUME Typed, SessInv, NEW r \in Reqs, RedeemRecovery(r)
    PROVE  SessInv'
<1> DEFINE u == req[r].u
<1>1. /\ u \in Users /\ req[r].op = "recover" /\ sess' = Revoked(req[r].swept) /\ Done(r)
      /\ \A w \in Users \ {u} : ident'[w] = ident[w]
      /\ ident'[u].mfa = ident[u].mfa
    BY RecoveryEffect DEF IdentBecomes
<1>2. \A s \in Sessions : sess'[s].st = "live" => s \notin req[r].swept /\ sess'[s] = sess[s]
    BY <1>1, RevokedRows, TypedTypes
<1>3. \A s \in Sessions : sess'[s].st = "live" /\ ~sess'[s].late => sess[s].u # u
    BY <1>1, <1>2 DEF SessInv, RecoveryCovers
<1>4. \A s \in Sessions : sess'[s].st = "live" => sess[s].u \in Users
    BY <1>2 DEF Typed, SessOwned
<1>5. SessKept
    BY <1>1, <1>2, <1>3, <1>4 DEF SessKept
<1>6. FactorKept
    BY <1>1, <1>2, <1>4 DEF FactorKept
<1> QED
    BY <1>1, <1>5, <1>6, SessDone, SessFrame

\* A new session is in order, or late for every recovery of its user.
LEMMA SessNew ==
    ASSUME Typed, SessInv, NEW r \in Reqs, NEW s \in Sessions, NewSession(r, s)
    PROVE  SessInv'
<1> DEFINE u == req[r].u
<1>1. /\ u \in Users /\ req[r].op = "login" /\ sess[s].st = "absent"
      /\ \A t \in Sessions : t # s => sess'[t] = sess[t]
      /\ sess'[s].st = "live" /\ sess'[s].u = u
      /\ ~sess'[s].late => /\ sess'[s].pw0 = ident[u].pw /\ sess'[s].mfa0 = ident[u].mfa
                           /\ ~Recovering(u)
      /\ Done(r) \/ ReqBecomes(r, "mark", s, req[r].enabled, req[r].factor)
      /\ UNCHANGED ident
    BY NewSessionEffect
<1>2. SessionsFollowCredentials'
    BY <1>1 DEF SessInv, SessionsFollowCredentials
<1>3. RequestsKept
  <2>1. CASE ReqBecomes(r, "mark", s, req[r].enabled, req[r].factor)
    BY <1>1, <2>1 DEF RequestsKept, ReqBecomes, ChangeOK
  <2> QED
    BY <1>1, <2>1, SessDone
<1>4. RecoveryCovers'
  <2>1. \A q \in Reqs : req'[q].op = "recover" => req'[q] = req[q]
    BY <1>3 DEF RequestsKept
  <2>2. \A q \in Reqs : req[q].op = "recover" /\ ~sess'[s].late => req[q].u # u
    BY <1>1 DEF Recovering
  <2> QED
    BY <1>1, <2>1, <2>2 DEF SessInv, RecoveryCovers
<1>5. FactorKept
    BY <1>1 DEF FactorKept
<1> QED
    BY <1>2, <1>3, <1>4, <1>5, ChangeKept DEF SessInv

\* The session that enrols a factor goes on under it.
LEMMA SessConfirm ==
    ASSUME Typed, SessInv, NEW r \in Reqs, NEW f \in Totp, ConfirmMFA(r, f)
    PROVE  SessInv'
<1> DEFINE u == req[r].u
           me == req[r].s
<1>1. /\ u \in Users /\ ident[u].mfa = 0 /\ Done(r)
      /\ IdentBecomes(u, ident[u].st, ident[u].pw, ident[u].pend, 0, f[2] + 1)
      /\ \A s \in Sessions : sess'[s].u = sess[s].u
      /\ \A s \in Sessions : sess'[s].st = "live" => sess[s].st = "live"
      /\ \A s \in Sessions : sess[s].u # u => sess'[s] = sess[s]
      /\ \A s \in Sessions : sess[s].u = u /\ sess'[s].st = "live" =>
           /\ sess'[s].pw0 = sess[s].pw0 /\ sess'[s].mfa0 = ident[u].pend
           /\ sess'[s].late <=> sess[s].late
    BY ConfirmEffect
<1>2. /\ ident'[u].pw = ident[u].pw /\ ident'[u].mfa = ident[u].pend
      /\ \A w \in Users : w # u => ident'[w] = ident[w]
    BY <1>1 DEF IdentBecomes
<1>3. RequestsKept
    BY <1>1, SessDone
<1>4. \A s \in Sessions : sess[s].st = "live" => sess[s].u \in Users
    BY DEF Typed, SessOwned
<1>5. SessionsFollowCredentials'
  <2> SUFFICES ASSUME NEW s \in Sessions, sess'[s].st = "live", ~sess'[s].late
               PROVE  sess'[s].pw0 = ident'[sess'[s].u].pw /\ sess'[s].mfa0 = ident'[sess'[s].u].mfa
    BY DEF SessionsFollowCredentials
  <2>1. sess[s].st = "live" /\ sess'[s].u = sess[s].u
    BY <1>1
  <2>2. CASE sess[s].u = u
    BY <1>1, <1>2, <2>1, <2>2 DEF SessInv, SessionsFollowCredentials
  <2>3. CASE sess[s].u # u
    BY <1>1, <1>2, <1>4, <2>1, <2>3 DEF SessInv, SessionsFollowCredentials
  <2> QED
    BY <2>2, <2>3
<1>6. RecoveryCovers'
  <2>1. \A q \in Reqs : req'[q].op = "recover" => req'[q] = req[q]
    BY <1>3 DEF RequestsKept
  <2>2. \A s \in Sessions : sess'[s].st = "live" /\ ~sess'[s].late =>
          sess[s].st = "live" /\ ~sess[s].late
    BY <1>1
  <2> QED
    BY <1>1, <2>1, <2>2 DEF SessInv, RecoveryCovers
<1>7. FactorKept
    BY <1>1, <1>2, <1>4 DEF FactorKept
<1> QED
    BY <1>3, <1>5, <1>6, <1>7, ChangeKept DEF SessInv

\* An account that is created has no session yet.
LEMMA SessInvite ==
    ASSUME Typed, SessInv, NEW c \in Creds, RedeemInvite(c)
    PROVE  SessInv'
<1> DEFINE u == cred[c].u
<1>1. /\ u \in Users /\ ident[u].st = "absent" /\ UNCHANGED <<sess, req>>
      /\ \A w \in Users \ {u} : ident'[w] = ident[w]
  <2>1. /\ u \in Users /\ ident[u].st = "absent" /\ UNCHANGED <<sess, req>>
        /\ IdentBecomes(u, "active", 1, ident[u].mfa, ident[u].pend, ident[u].last)
    BY InviteEffect
  <2> QED
    BY <2>1 DEF IdentBecomes
<1>2. \A s \in Sessions : sess[s].st # "absent" => sess[s].u \in Users \ {u}
    BY <1>1 DEF Typed, SessOwned
<1>3. SessKept /\ FactorKept /\ RequestsKept
    BY <1>1, <1>2 DEF SessKept, FactorKept, RequestsKept
<1> QED
    BY <1>3, SessFrame

\* Stamps, enrolments that begin or lapse, recovery codes and credentials.
LEMMA SessOther ==
    ASSUME Typed, SessInv, NEW r \in Reqs,
           \/ MarkMFA(r) \/ Restamp(r) \/ BeginMFA(r) \/ RotateMFARecoveryCodes(r) \/ Refused(r)
           \/ \E c \in Creds : IssueInsert(r, c)
           \/ \E kind \in Issued, u \in Users : IssueSweep(r, kind, u)
    PROVE  SessInv'
<1>1. ASSUME Stamped, UNCHANGED ident PROVE SessKept /\ FactorKept
    BY <1>1 DEF Stamped, SessKept, FactorKept
<1>2. CASE MarkMFA(r)
  <2>1. /\ Stamped /\ UNCHANGED ident /\ req[r].op # "change" /\ req[r].op # "recover"
        /\ Done(r) \/ ReqBecomes(r, "stamp", req[r].s, req[r].enabled, req[r].factor)
    BY <1>2, MarkEffect
  <2>2. CASE ReqBecomes(r, "stamp", req[r].s, req[r].enabled, req[r].factor)
    <3>1. RequestsKept
      BY <2>1, <2>2 DEF RequestsKept, ReqBecomes, ChangeOK
    <3> QED
      BY <1>1, <2>1, <3>1, SessFrame
  <2> QED
    BY <1>1, <2>1, <2>2, SessDone, SessFrame
<1>3. CASE Restamp(r)
  <2>1. /\ sess' = [sess EXCEPT ![req[r].s].fresh = TRUE] \/ sess' = sess
        /\ req[r].op = "reauth"
        /\ Done(r) /\ UNCHANGED ident
    BY <1>3 DEF Restamp, At
  <2>2. req[r].s \in Sessions
    BY <2>1, Reading DEF ReqOK, UsesSession
  <2>3. Stamped
    <3>1. CASE sess' = sess
      BY <3>1 DEF Stamped, Typed, TypeOK
    <3> QED
      BY <2>1, <2>2, <3>1, Stamping
  <2> QED
    BY <1>1, <2>1, <2>3, SessDone, SessFrame
<1>4. CASE BeginMFA(r)
  <2> DEFINE u == req[r].u
  <2>1. /\ UNCHANGED sess /\ Done(r) /\ ident[u].mfa = 0
        /\ IdentBecomes(u, ident[u].st, ident[u].pw, 0, made.secrets + 1, ident[u].last)
    BY <1>4, BeginEffect
  <2>2. \A w \in Users : ident'[w].pw = ident[w].pw /\ ident'[w].mfa = ident[w].mfa
    BY <2>1 DEF IdentBecomes
  <2> QED
    BY <2>1, <2>2, SessSame, SessDone, SessFrame
<1>5. CASE RotateMFARecoveryCodes(r) \/ Refused(r) \/ \E c \in Creds : IssueInsert(r, c)
  <2>1. UNCHANGED <<ident, sess>> /\ Done(r)
    BY <1>5 DEF RotateMFARecoveryCodes, Refused, IssueInsert
  <2> QED
    BY <2>1, SessSame, SessDone, SessFrame
<1>6. ASSUME NEW kind \in Issued, NEW u \in Users, IssueSweep(r, kind, u) PROVE SessInv'
  <2>1. PICK n \in Req : /\ req' = [req EXCEPT ![r] = n] /\ n.op = "issue"
                         /\ UNCHANGED <<ident, sess>>
    BY <1>6, SweepEffect
  <2>2. req'[r] = n /\ \A q \in Reqs \ {r} : req'[q] = req[q]
    BY <2>1, TypedTypes
  <2>3. RequestsKept
    BY <2>1, <2>2 DEF RequestsKept, ChangeOK
  <2> QED
    BY <2>1, <2>3, SessSame, SessFrame
<1> QED
    BY <1>2, <1>3, <1>4, <1>5, <1>6

\* Logout and time.
LEMMA SessEnvironment ==
    ASSUME Typed, SessInv, Environment
    PROVE  SessInv'
<1>1. UNCHANGED req
    BY DEF Environment, SessionEnds, Ages, CredentialExpires, PendingExpires
<1>2. RequestsKept
    BY <1>1 DEF RequestsKept
<1>3. ASSUME NEW s \in Sessions, SessionEnds(s) PROVE SessInv'
    BY <1>2, <1>3, SessEnd, SessFrame DEF SessionEnds
<1>4. ASSUME NEW s \in Sessions, Ages(s) PROVE SessInv'
  <2>1. Stamped /\ UNCHANGED ident
    BY <1>4, Stamping DEF Ages
  <2>2. SessKept /\ FactorKept
    BY <2>1 DEF Stamped, SessKept, FactorKept
  <2> QED
    BY <1>2, <2>2, SessFrame
<1>5. ASSUME NEW c \in Creds, CredentialExpires(c) PROVE SessInv'
    BY <1>2, <1>5, SessSame, SessFrame DEF CredentialExpires
<1>6. ASSUME NEW u \in Users, PendingExpires(u) PROVE SessInv'
  <2>1. /\ IdentBecomes(u, ident[u].st, ident[u].pw, ident[u].mfa, 0, ident[u].last)
        /\ UNCHANGED sess
    BY <1>6, PendingEffect
  <2>2. \A w \in Users : ident'[w].pw = ident[w].pw /\ ident'[w].mfa = ident[w].mfa
    BY <2>1 DEF IdentBecomes
  <2> QED
    BY <1>2, <2>1, <2>2, SessSame, SessFrame
<1> QED
    BY <1>3, <1>4, <1>5, <1>6 DEF Environment

\* Every step keeps the third layer.
LEMMA SessStep ==
    ASSUME Typed, SessInv, [Next]_vars
    PROVE  SessInv'
<1>1. ASSUME NEW r \in Reqs, Handler(r) PROVE SessInv'
    BY <1>1, HandlerEffect, SessEnter, SessInvite
<1>2. ASSUME NEW r \in Reqs, Statement(r) PROVE SessInv'
    BY <1>2, SessVerify, SessChange, SessRecovery, SessNew, SessConfirm, SessOther DEF Statement
<1>3. ASSUME NEW r \in Reqs, Refused(r) PROVE SessInv'
    BY <1>3, SessOther
<1>4. CASE UNCHANGED vars
    BY <1>4, SessSame, SessFrame DEF vars, RequestsKept
<1> QED
    BY <1>1, <1>2, <1>3, <1>4, SessEnvironment DEF Next

-----------------------------------------------------------------------------
(* Layer 4: one-time credentials.                                          *)

\* Credentials do not come back to life, and only an issue adds to what they
\* replace.
LEMMA VoidedStep ==
    ASSUME Typed, Voided, [Next]_vars
    PROVE  Voided'
<1>1. cred \in [Creds -> Cred] /\ \A c \in Creds : cred[c].over \subseteq Creds
    BY TypedTypes DEF Cred
<1>2. ASSUME NEW S, cred' = Void(S) PROVE Voided'
    BY <1>1, <1>2, VoidRows DEF Voided
<1>3. ASSUME NEW r \in Reqs, NEW c \in Creds, IssueInsert(r, c) PROVE Voided'
  <2>1. /\ cred[c].st = "absent" /\ cred'[c].over = req[r].over /\ req[r].over \subseteq Creds
        /\ \A d \in Creds : d # c => cred'[d] = Void(req[r].over)[d]
    BY <1>3, IssueEffect
  <2>2. c \notin req[r].over
    BY <2>1 DEF Typed, ReqOK
  <2>3. \A d \in req[r].over : cred'[d].st = "spent"
    BY <1>1, <2>1, <2>2, VoidRows
  <2>4. \A d \in Creds : cred[d].st = "spent" => cred'[d].st = "spent"
    BY <1>1, <2>1, VoidRows
  <2>5. \A d \in Creds : d # c => cred'[d].over \subseteq cred[d].over
    BY <1>1, <2>1, VoidRows
  <2> SUFFICES ASSUME NEW d \in Creds, NEW b \in cred'[d].over PROVE cred'[b].st = "spent"
    BY DEF Voided
  <2> QED
    BY <1>1, <2>1, <2>3, <2>4, <2>5 DEF Voided
<1>4. ASSUME UNCHANGED cred PROVE Voided'
    BY <1>4 DEF Voided
<1>5. ASSUME NEW r \in Reqs, Handler(r) PROVE Voided'
    BY <1>2, <1>4, <1>5, HandlerEffect DEF Entered, RedeemInvite
<1>6. ASSUME NEW r \in Reqs, Statement(r) PROVE Voided'
  <2>1. CASE RedeemMFAReset(r) \/ RedeemRecovery(r)
    BY <1>2, <2>1 DEF RedeemMFAReset, RedeemRecovery
  <2>2. CASE \E c \in Creds : IssueInsert(r, c)
    BY <1>3, <2>2
  <2>3. CASE \/ MFAEnabled(r) \/ MarkMFA(r) \/ Restamp(r) \/ ChangePassword(r) \/ BeginMFA(r)
             \/ RotateMFARecoveryCodes(r) \/ \E s \in Sessions : NewSession(r, s)
    BY <1>4, <2>3 DEF MFAEnabled, MarkMFA, Restamp, ChangePassword, BeginMFA,
       RotateMFARecoveryCodes, NewSession
  <2>4. CASE \/ \E f \in Totp : VerifyTotp(r, f) \/ ConfirmMFA(r, f)
             \/ \E n \in 1..MaxCodes : VerifyRecoveryCode(r, n)
             \/ \E kind \in Issued, u \in Users : IssueSweep(r, kind, u)
    BY <1>4, <2>4 DEF VerifyTotp, ConfirmMFA, VerifyRecoveryCode, IssueSweep
  <2> QED
    BY <1>6, <2>1, <2>2, <2>3, <2>4 DEF Statement
<1>7. ASSUME NEW r \in Reqs, Refused(r) PROVE Voided'
    BY <1>4, <1>7 DEF Refused
<1>8. CASE Environment
    BY <1>2, <1>4, <1>8 DEF Environment, SessionEnds, Ages, CredentialExpires, PendingExpires
<1>9. CASE UNCHANGED vars
    BY <1>4, <1>9 DEF vars
<1> QED
    BY <1>5, <1>6, <1>7, <1>8, <1>9 DEF Next

-----------------------------------------------------------------------------
(* The theorems.                                                           *)

\* The layers together.
CredentialsInv == Typed /\ FactorInv /\ SessInv /\ Voided

\* The inductive invariant holds for any number of users, sessions, credentials
\* and concurrent requests.
THEOREM Kept == Spec => []CredentialsInv
<1>1. Init => CredentialsInv
  <2>1. Init => Voided
    BY DEF Init, Voided, NoCred
  <2> QED
    BY <2>1, TypedInit, FactorInit, SessInit DEF CredentialsInv
<1>2. CredentialsInv /\ [Next]_vars => CredentialsInv'
    BY TypedStep, FactorStep, SessStep, VoidedStep DEF CredentialsInv
<1> QED
    BY <1>1, <1>2, PTL DEF Spec

\* VerifyMFA and ConfirmMFA accept a TOTP step or a recovery code at most once,
\* also across resets and new enrolments.
THEOREM FactorsOnce == Spec => [](TypeOK /\ FactorAcceptedOnce)
<1>1. CredentialsInv => TypeOK /\ FactorAcceptedOnce
    BY DEF CredentialsInv, Typed, FactorInv
<1> QED
    BY <1>1, Kept, PTL

\* Valid recovery codes belong to the secret that is enrolled: RedeemMFAReset
\* deletes them with it.
THEOREM CodesOfSecret == Spec => []CodesMatchSecret
<1>1. CredentialsInv => CodesMatchSecret
    BY DEF CredentialsInv, FactorInv
<1> QED
    BY <1>1, Kept, PTL

\* A live session was inserted under the password and the second factor in
\* force, unless it was inserted between the sweep of a recovery and its commit.
THEOREM SessionsFollow == Spec => []SessionsFollowCredentials
<1>1. CredentialsInv => SessionsFollowCredentials
    BY DEF CredentialsInv, SessInv
<1> QED
    BY <1>1, Kept, PTL

\* IssueCredential voids every credential that was there when it began.
THEOREM IssuesVoid == Spec => []IssueVoidsEarlier
<1>1. CredentialsInv => IssueVoidsEarlier
    BY DEF CredentialsInv, Voided, IssueVoidsEarlier
<1> QED
    BY <1>1, Kept, PTL

\* Only ChangePassword ends a password change with a new password, and what the
\* request verified is enrolled: a reset would have ended its session.
LEMMA ChangeStep ==
    ASSUME CredentialsInv, [Next]_vars, NEW r \in Reqs, NEW u \in Users,
           req[r].op = "change", req[r].u = u, req'[r] = Idle, ident'[u].pw # ident[u].pw
    PROVE  req[r].factor = ident[u].mfa
<1>1. Typed /\ ChangeOK(req[r], ident, sess) /\ req \in [Reqs -> Req]
    BY TypedTypes DEF CredentialsInv, SessInv
<1>2. req' # req /\ ~UNCHANGED ident
    BY IdleRow
<1>3. PICK q \in Reqs : \/ ChangePassword(q) \/ RedeemRecovery(q)
                        \/ \E f \in Totp : VerifyTotp(q, f) \/ ConfirmMFA(q, f)
                        \/ BeginMFA(q) \/ RedeemMFAReset(q)
  <2>1. ~Environment
    BY <1>2 DEF Environment, SessionEnds, Ages, CredentialExpires, PendingExpires
  <2>2. \A q \in Reqs : ~Handler(q) /\ ~Refused(q)
    BY <1>1, <1>2, HandlerEffect DEF Entered, RedeemInvite, Refused
  <2>3. PICK q \in Reqs : Statement(q)
    BY <1>2, <2>1, <2>2 DEF Next, vars
  <2> QED
    BY <1>2, <2>3 DEF Statement, MFAEnabled, MarkMFA, Restamp, NewSession, IssueSweep, IssueInsert,
       RotateMFARecoveryCodes, VerifyRecoveryCode
<1>4. q = r
  <2>1. Done(q) \/ \E pc, s, e, k : ReqBecomes(q, pc, s, e, k)
    BY <1>1, <1>3, TotpEffect DEF ChangePassword, RedeemRecovery, ConfirmMFA, BeginMFA, RedeemMFAReset
  <2>2. \A p \in Reqs \ {q} : req'[p] = req[p]
    BY <1>1, <2>1, Ending DEF ReqBecomes
  <2> QED
    BY <2>2, IdleRow
<1>5. ChangePassword(r)
    BY <1>1, <1>3, <1>4, TotpEffect, ConfirmEffect, BeginEffect, ResetEffect, RecoveryEffect, IdleRow
       DEF ReqBecomes, ConfirmMFA, BeginMFA, RedeemMFAReset, RedeemRecovery, At
<1>6. /\ req[r].pc = "verified" /\ sess[req[r].s].st = "live"
      /\ (ident[u].mfa # 0) <=> req[r].enabled
    BY <1>1, <1>5, ChangeEffect
<1> QED
    BY <1>1, <1>6 DEF ChangeOK

\* A password change that passed a second factor passed the enrolled one.
THEOREM ChangesVerified == Spec => ChangeVerifiedCurrentFactor
<1>1. CredentialsInv /\ [Next]_vars =>
        [\A r \in Reqs, u \in Users :
          req[r].op = "change" /\ req[r].u = u /\ req'[r] = Idle /\ ident'[u].pw # ident[u].pw
          => req[r].factor = ident[u].mfa]_vars
    BY ChangeStep
<1> QED
    BY <1>1, Kept, PTL DEF Spec, ChangeVerifiedCurrentFactor

=============================================================================
