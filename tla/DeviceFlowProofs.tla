-------------------------- MODULE DeviceFlowProofs --------------------------
(***************************************************************************)
(* Proofs about DeviceFlow.                                                *)
(*                                                                         *)
(* A code has one holder after its poll: the request that consumed it or   *)
(* the token that this request inserted, never two of them (OneHolder).    *)
(* Installations hold tokens that are there, each its own (Paired).        *)
(***************************************************************************)
EXTENDS DeviceFlow, FiniteSetTheorems, TLAPS

\* The states of a poll that has consumed its code.
Minting == {"consumed", "valid"}

Mints(r, d) == req[r].op \in Minting /\ req[r].dev = d
Made(t, d) == tok[t].st # "absent" /\ tok[t].dev = d

\* What a request in flight has read and no other step undoes.
ReqKnows ==
    \A r \in Reqs :
        /\ req[r].op \in {"page", "confirm"} \cup Minting => req[r].dev \in Codes
        /\ req[r].op \in {"confirm"} \cup Minting => req[r].u \in Users
        /\ req[r].op \in Minting => dev[req[r].dev].st = "consumed"
        /\ req[r].op = "register" => req[r].tok \in Tokens /\ tok[req[r].tok].st # "absent"

\* Columns that are filled when the row is written.
Filled ==
    /\ \A d \in Codes : dev[d].st = "approved" => dev[d].u \in Users
    /\ \A t \in Tokens : IF tok[t].st = "absent" THEN tok[t].u = None
                         ELSE /\ tok[t].u \in Users /\ tok[t].dev \in Codes
                              /\ dev[tok[t].dev].st = "consumed"
    /\ \A u \in Users : user[u].denials <= user[u].sweeps

\* A consumed code is with one request or with one token.
OneHolder ==
    \A d \in Codes :
        /\ \A r, s \in Reqs : Mints(r, d) /\ Mints(s, d) => r = s
        /\ \A r \in Reqs, t \in Tokens : ~(Mints(r, d) /\ Made(t, d))
        /\ \A t, v \in Tokens : Made(t, d) /\ Made(v, d) => t = v

\* UNIQUE(device_token_id), the foreign key, and the token that goes with the row.
Paired ==
    \A i \in Installs : inst[i].st # "absent" =>
        /\ inst[i].tok \in Tokens /\ tok[inst[i].tok].st # "absent"
        /\ inst[i].st = "revoked" => tok[inst[i].tok].st = "revoked"
        /\ \A j \in Installs : inst[j].st # "absent" /\ inst[j].tok = inst[i].tok => i = j

\* A live row was inserted after the last sweep of its subject.
LiveSinceSweep == \A t \in Tokens : tok[t].st = "live" => tok[t].born = user[tok[t].u].sweeps

\* A request and its token keep the denials at which the approval was consumed, and
\* these are the denials at which it was given.
Polled ==
    /\ \A r \in Reqs : req[r].op \in Minting =>
         req[r].polled = dev[req[r].dev].born /\ req[r].polled <= user[req[r].u].denials
    /\ \A t \in Tokens : tok[t].st # "absent" =>
         tok[t].polled = dev[tok[t].dev].born /\ tok[t].polled <= user[tok[t].u].denials

\* The inductive invariant.
FlowInv ==
    /\ TypeOK /\ ReqKnows /\ Filled /\ OneHolder /\ Paired
    /\ CredentialChangeEndsApprovals /\ LiveSinceSweep /\ Polled

-----------------------------------------------------------------------------
(* Records.                                                                *)

\* Idle requests and rows not inserted are of their types.
LEMMA Blank ==
    /\ NoDev \in Dev /\ NoTok \in Tok /\ NoInst \in Inst /\ Idle \in Req
    /\ Idle.op = "idle" /\ 0 \in 0..MaxSweeps
<1>1. 0 \in 0..MaxSweeps /\ 1 \in 1..MaxInterval
    BY BoundAssumption DEF MaxInterval
<1> QED
    BY <1>1 DEF NoDev, Dev, NoTok, Tok, NoInst, Inst, Idle, Req

\* What revocation and sweeps make of a row of access_tokens.
Ends(t) ==
    /\ tok[t].st # "absent" /\ tok'[t] \in Tok /\ tok'[t].st = "revoked"
    /\ tok'[t].u = tok[t].u /\ tok'[t].dev = tok[t].dev /\ tok'[t].polled = tok[t].polled

-----------------------------------------------------------------------------
(* Steps by the table they change.                                         *)

\* One authorization changes, without being consumed or brought back; the request
\* that changed it ends.
LEMMA DevStep ==
    ASSUME FlowInv, NEW d \in Codes, NEW row \in Dev, dev' = [dev EXCEPT ![d] = row],
           UNCHANGED <<user, tok, inst>>,
           req' = req \/ \E r \in Reqs : req' = [req EXCEPT ![r] = Idle],
           dev[d].st = "consumed" => row.st = "consumed" /\ row.born = dev[d].born,
           row.st = "approved" => row.u \in Users /\ row.born = user[row.u].denials
    PROVE  FlowInv'
<1>1. dev' \in [Codes -> Dev] /\ dev'[d] = row /\ \A c \in Codes \ {d} : dev'[c] = dev[c]
    BY DEF FlowInv, TypeOK
<1>2. req' \in [Reqs -> Req] /\ \A r \in Reqs : req'[r] = req[r] \/ req'[r] = Idle
    BY Blank DEF FlowInv, TypeOK
<1>3. TypeOK'
    BY <1>1, <1>2 DEF FlowInv, TypeOK
<1>4. ReqKnows'
    BY <1>1, <1>2, Blank DEF FlowInv, ReqKnows, Minting
<1>5. Filled'
    BY <1>1 DEF FlowInv, Filled
<1>6. OneHolder'
    BY <1>2, Blank DEF FlowInv, OneHolder, Mints, Made, Minting
<1>7. Paired' /\ LiveSinceSweep'
    BY DEF FlowInv, Paired, LiveSinceSweep
<1>8. CredentialChangeEndsApprovals'
    BY <1>1 DEF FlowInv, CredentialChangeEndsApprovals
<1>9. Polled'
    BY <1>1, <1>2, Blank DEF FlowInv, ReqKnows, Filled, Polled, Minting
<1> QED
    BY <1>3, <1>4, <1>5, <1>6, <1>7, <1>8, <1>9 DEF FlowInv

\* Only a request changes, and it holds no code that it did not hold.
LEMMA ReqStep ==
    ASSUME FlowInv, NEW r \in Reqs, NEW new \in Req, req' = [req EXCEPT ![r] = new],
           UNCHANGED <<dev, user, tok, inst>>,
           new.op \in {"page", "confirm"} => new.dev \in Codes,
           new.op = "confirm" => new.u \in Users,
           new.op = "register" => new.tok \in Tokens /\ tok[new.tok].st # "absent",
           new.op \in Minting => /\ req[r].op \in Minting
                                 /\ new.dev = req[r].dev /\ new.u = req[r].u
                                 /\ new.polled = req[r].polled
    PROVE  FlowInv'
<1>1. req' \in [Reqs -> Req] /\ req'[r] = new /\ \A s \in Reqs \ {r} : req'[s] = req[s]
    BY DEF FlowInv, TypeOK
<1>2. ReqKnows'
    BY <1>1 DEF FlowInv, ReqKnows, Minting
<1>3. OneHolder'
  <2>1. \A s \in Reqs, d \in Codes : Mints(s, d)' => Mints(s, d)
    BY <1>1 DEF Mints
  <2> QED
    BY <2>1 DEF FlowInv, OneHolder, Made
<1>4. Polled'
    BY <1>1 DEF FlowInv, Polled, Minting
<1> QED
    BY <1>1, <1>2, <1>3, <1>4 DEF FlowInv, TypeOK, Filled, Paired, CredentialChangeEndsApprovals,
       LiveSinceSweep

\* Tokens end, approvals are denied, and the subject's counters move with them.
LEMMA UserStep ==
    ASSUME FlowInv, NEW u \in Users, NEW row \in User, user' = [user EXCEPT ![u] = row],
           UNCHANGED <<inst, req>>,
           row.denials <= row.sweeps, user[u].denials <= row.denials,
           tok' \in [Tokens -> Tok], dev' \in [Codes -> Dev],
           \A t \in Tokens : \/ Ends(t)
                             \/ /\ tok'[t] = tok[t]
                                /\ row.sweeps = user[u].sweeps \/ tok[t].u # u,
           \A d \in Codes : \/ dev[d].st = "approved" /\ dev'[d].st = "denied"
                            \/ /\ dev'[d] = dev[d]
                               /\ \/ row.denials = user[u].denials
                                  \/ dev[d].st # "approved" \/ dev[d].u # u
    PROVE  FlowInv'
<1>1. user' \in [Users -> User] /\ user'[u] = row /\ \A w \in Users \ {u} : user'[w] = user[w]
    BY DEF FlowInv, TypeOK
<1>2. \A t \in Tokens : /\ tok'[t].st = "absent" <=> tok[t].st = "absent"
                        /\ tok[t].st = "revoked" => tok'[t].st = "revoked"
                        /\ tok'[t].u = tok[t].u /\ tok'[t].dev = tok[t].dev
                        /\ tok'[t].polled = tok[t].polled
    BY DEF Ends
<1>3. \A d \in Codes : dev[d].st = "consumed" => dev'[d] = dev[d]
    OBVIOUS
<1>4. TypeOK'
    BY <1>1 DEF FlowInv, TypeOK
<1>5. ReqKnows'
    BY <1>2, <1>3 DEF FlowInv, ReqKnows, Minting
<1>6. Filled'
    BY <1>1, <1>2, <1>3 DEF FlowInv, Filled
<1>7. OneHolder'
    BY <1>2 DEF FlowInv, OneHolder, Mints, Made
<1>8. Paired'
    BY <1>2 DEF FlowInv, Paired
<1>9. CredentialChangeEndsApprovals'
    BY <1>1 DEF FlowInv, Filled, CredentialChangeEndsApprovals
<1>10. LiveSinceSweep'
    BY <1>1 DEF FlowInv, Filled, LiveSinceSweep, Ends
<1>11. Polled'
  <2>1. /\ row.denials \in Nat /\ user[u].denials \in Nat
        /\ \A w \in Users : user'[w].denials >= user[w].denials
        /\ \A w \in Users : user[w].denials \in Nat /\ user'[w].denials \in Nat
    BY <1>1, BoundAssumption DEF FlowInv, TypeOK, User
  <2>2. \A r \in Reqs : req[r].op \in Minting => req[r].u \in Users
    BY DEF FlowInv, ReqKnows
  <2>3. \A r \in Reqs : req[r].polled \in Nat
    BY BoundAssumption DEF FlowInv, TypeOK, Req
  <2>4. \A t \in Tokens : tok[t].polled \in Nat /\ (tok[t].st # "absent" => tok[t].u \in Users)
    BY BoundAssumption DEF FlowInv, TypeOK, Tok, Filled
  <2>5. \A r \in Reqs : req[r].op \in Minting => dev'[req[r].dev] = dev[req[r].dev]
    BY <1>3 DEF FlowInv, ReqKnows
  <2>6. \A t \in Tokens : tok[t].st # "absent" => dev'[tok[t].dev] = dev[tok[t].dev]
    BY <1>3 DEF FlowInv, Filled
  <2>7. \A r \in Reqs : req[r].op \in Minting =>
          req[r].polled = dev'[req[r].dev].born /\ req[r].polled <= user'[req[r].u].denials
    BY <2>1, <2>2, <2>3, <2>5 DEF FlowInv, Polled
  <2>8. \A t \in Tokens : tok[t].st # "absent" =>
          tok[t].polled = dev'[tok[t].dev].born /\ tok[t].polled <= user'[tok[t].u].denials
    BY <2>1, <2>4, <2>6 DEF FlowInv, Polled
  <2> QED
    BY <1>2, <2>7, <2>8 DEF Polled
<1> QED
    BY <1>4, <1>5, <1>6, <1>7, <1>8, <1>9, <1>10, <1>11 DEF FlowInv

-----------------------------------------------------------------------------
(* The browser and the polls.                                              *)

\* StoreDeviceAuthorization, the clock, and polls that find no approval.
LEMMA Waiting ==
    ASSUME FlowInv, NEW d \in Codes,
           StoreDeviceAuthorization(d) \/ Time(d) \/ PollPending(d) \/ PollEarly(d)
    PROVE  FlowInv'
<1>0. dev[d] \in Dev
    BY DEF FlowInv, TypeOK
<1>1. dev[d].st = "approved" => dev[d].u \in Users /\ dev[d].born = user[dev[d].u].denials
    BY DEF FlowInv, Filled, CredentialChangeEndsApprovals
<1>2. CASE StoreDeviceAuthorization(d)
  <2> DEFINE row == [dev[d] EXCEPT !.st = "pending"]
  <2>1. row \in Dev /\ row.st = "pending"
    BY <1>0 DEF Dev
  <2>2. dev' = [dev EXCEPT ![d] = row] /\ UNCHANGED <<user, tok, inst, req>> /\ dev[d].st = "absent"
    BY <1>2 DEF StoreDeviceAuthorization, FlowInv, TypeOK
  <2> HIDE DEF row
  <2> QED
    BY <2>1, <2>2, DevStep
<1>3. ASSUME NEW row \in Dev, dev' = [dev EXCEPT ![d] = row], UNCHANGED <<user, tok, inst, req>>,
             row.st = dev[d].st, row.u = dev[d].u, row.born = dev[d].born
      PROVE  FlowInv'
    BY <1>1, <1>3, DevStep
<1>4. CASE Time(d)
  <2>1. \/ dev' = [dev EXCEPT ![d] = [dev[d] EXCEPT !.wait = FALSE]]
        \/ dev' = [dev EXCEPT ![d] = [dev[d] EXCEPT !.expired = TRUE]]
    BY <1>4 DEF Time, FlowInv, TypeOK
  <2>2. UNCHANGED <<user, tok, inst, req>>
    BY <1>4 DEF Time
  <2> DEFINE w == [dev[d] EXCEPT !.wait = FALSE]
             e == [dev[d] EXCEPT !.expired = TRUE]
  <2>3. /\ w \in Dev /\ w.st = dev[d].st /\ w.u = dev[d].u /\ w.born = dev[d].born
        /\ e \in Dev /\ e.st = dev[d].st /\ e.u = dev[d].u /\ e.born = dev[d].born
    BY <1>0 DEF Dev
  <2>4. dev' = [dev EXCEPT ![d] = w] \/ dev' = [dev EXCEPT ![d] = e]
    BY <2>1
  <2> HIDE DEF w, e
  <2> QED
    BY <1>3, <2>2, <2>3, <2>4
<1>5. CASE PollPending(d)
  <2> DEFINE w == [dev[d] EXCEPT !.wait = TRUE]
  <2>1. w \in Dev /\ w.st = dev[d].st /\ w.u = dev[d].u /\ w.born = dev[d].born
    BY <1>0 DEF Dev
  <2>2. dev' = [dev EXCEPT ![d] = w] /\ UNCHANGED <<user, tok, inst, req>>
    BY <1>5 DEF PollPending, FlowInv, TypeOK
  <2> HIDE DEF w
  <2> QED
    BY <1>3, <2>1, <2>2
<1>6. CASE PollEarly(d)
  <2> DEFINE n == SlowDown(dev[d].interval)
             w == [dev[d] EXCEPT !.interval = n]
  <2>1. n \in 1..MaxInterval
    BY <1>0 DEF Dev, SlowDown, MaxInterval
  <2>2. dev' = [dev EXCEPT ![d] = w] /\ UNCHANGED <<user, tok, inst, req>>
    BY <1>6 DEF PollEarly, FlowInv, TypeOK
  <2> HIDE DEF n
  <2>3. w \in Dev /\ w.st = dev[d].st /\ w.u = dev[d].u /\ w.born = dev[d].born
    BY <1>0, <2>1 DEF Dev
  <2> HIDE DEF w
  <2> QED
    BY <1>3, <2>2, <2>3
<1> QED
    BY <1>2, <1>4, <1>5, <1>6

\* ConfirmDevice writes a decision with the denials of that moment.
LEMMA Confirming ==
    ASSUME FlowInv, NEW r \in Reqs, NEW approve \in BOOLEAN, ConfirmDevice(r, approve)
    PROVE  FlowInv'
<1> DEFINE d == req[r].dev
           st == IF approve THEN "approved" ELSE "denied"
           n == user[req[r].u].denials
           row == [dev[d] EXCEPT !.st = st, !.u = req[r].u, !.born = n]
<1>1. d \in Codes /\ req[r].u \in Users /\ dev[d] \in Dev /\ dev[d].st = "pending"
    BY DEF ConfirmDevice, DeviceRequest, FlowInv, ReqKnows, TypeOK
<1>2. n \in 0..MaxSweeps /\ st \in {"approved", "denied"}
    BY <1>1 DEF FlowInv, TypeOK, User
<1>3. dev' = [dev EXCEPT ![d] = row] /\ UNCHANGED <<user, tok, inst>>
      /\ req' = [req EXCEPT ![r] = Idle]
    BY <1>1 DEF ConfirmDevice, Done, FlowInv, TypeOK
<1> HIDE DEF st, n
<1>4. row \in Dev /\ row.st = st /\ row.u = req[r].u /\ row.born = n
    BY <1>1, <1>2 DEF Dev
<1>5. n = user[req[r].u].denials
    BY DEF n
<1> HIDE DEF row
<1> QED
    BY <1>1, <1>2, <1>3, <1>4, <1>5, DevStep

\* Pages, forms, checks and refusals write no table.
LEMMA Requesting ==
    ASSUME FlowInv, NEW r \in Reqs,
           \/ \E d \in Codes, u \in Users : devicePage(r, d, u)
           \/ \E u \in Users : deviceConfirm(r, u)
           \/ \E t \in Tokens : registerDeviceInstallation(r, t)
           \/ ValidateSubject(r) \/ Refused(r)
    PROVE  FlowInv'
<1>0. req[r] \in Req /\ req \in [Reqs -> Req]
    BY DEF FlowInv, TypeOK
<1>1. ASSUME NEW d \in Codes, NEW u \in Users, devicePage(r, d, u) PROVE FlowInv'
  <2> DEFINE new == [op |-> "page", dev |-> d, u |-> None, tok |-> None, polled |-> 0]
  <2>1. new \in Req /\ new.op = "page" /\ new.dev = d
    BY Blank DEF Req
  <2>2. req' = [req EXCEPT ![r] = new] /\ UNCHANGED <<dev, user, tok, inst>>
    BY <1>1 DEF devicePage, Begin
  <2> HIDE DEF new
  <2> QED
    BY <2>1, <2>2, ReqStep DEF Minting
<1>2. ASSUME NEW u \in Users, deviceConfirm(r, u) PROVE FlowInv'
  <2> DEFINE new == [req[r] EXCEPT !.op = "confirm", !.u = u]
  <2>1. new \in Req /\ new.op = "confirm" /\ new.dev = req[r].dev /\ new.u = u
    BY <1>0 DEF Req
  <2>2. req' = [req EXCEPT ![r] = new] /\ UNCHANGED <<dev, user, tok, inst>>
    BY <1>0, <1>2 DEF deviceConfirm
  <2>3. req[r].dev \in Codes
    BY <1>2 DEF deviceConfirm, FlowInv, ReqKnows
  <2> HIDE DEF new
  <2> QED
    BY <2>1, <2>2, <2>3, ReqStep DEF Minting
<1>3. ASSUME NEW t \in Tokens, registerDeviceInstallation(r, t) PROVE FlowInv'
  <2> DEFINE new == [op |-> "register", dev |-> None, u |-> None, tok |-> t, polled |-> 0]
  <2>1. new \in Req /\ new.op = "register" /\ new.tok = t
    BY Blank DEF Req
  <2>2. req' = [req EXCEPT ![r] = new] /\ UNCHANGED <<dev, user, tok, inst>>
        /\ tok[t].st # "absent"
    BY <1>3 DEF registerDeviceInstallation, Begin, ActiveToken
  <2> HIDE DEF new
  <2> QED
    BY <2>1, <2>2, ReqStep DEF Minting
<1>4. CASE ValidateSubject(r)
  <2> DEFINE new == [req[r] EXCEPT !.op = "valid"]
  <2>1. /\ new \in Req /\ new.op = "valid" /\ new.dev = req[r].dev /\ new.u = req[r].u
        /\ new.polled = req[r].polled
    BY <1>0 DEF Req
  <2>2. req' = [req EXCEPT ![r] = new] /\ UNCHANGED <<dev, user, tok, inst>>
        /\ req[r].op = "consumed"
    BY <1>0, <1>4 DEF ValidateSubject
  <2> HIDE DEF new
  <2> QED
    BY <2>1, <2>2, ReqStep DEF Minting
<1>5. CASE Refused(r)
    BY <1>5, Blank, ReqStep DEF Refused, Done, Minting
<1> QED
    BY <1>1, <1>2, <1>3, <1>4, <1>5

-----------------------------------------------------------------------------
(* Tokens.                                                                 *)

\* A poll consumes an approved code: nobody held it.
LEMMA Consuming ==
    ASSUME FlowInv, NEW r \in Reqs, NEW d \in Codes, PollApproved(r, d)
    PROVE  FlowInv'
<1> DEFINE row == [dev[d] EXCEPT !.st = "consumed"]
           n == user[dev[d].u].denials
           new == [op |-> "consumed", dev |-> d, u |-> dev[d].u, tok |-> None, polled |-> n]
<1>1. /\ dev[d] \in Dev /\ dev[d].st = "approved" /\ dev[d].u \in Users /\ dev[d].u # None
      /\ dev[d].born = n
    BY NoneAssumption DEF PollApproved, FlowInv, TypeOK, Filled, CredentialChangeEndsApprovals
<1>2. row \in Dev /\ row.st = "consumed" /\ row.born = n
    BY <1>1 DEF Dev
<1>3. /\ dev' = [dev EXCEPT ![d] = row] /\ req' = [req EXCEPT ![r] = new]
      /\ UNCHANGED <<user, tok, inst>>
    BY <1>1 DEF PollApproved, Begin, FlowInv, TypeOK
<1>4. n \in 0..MaxSweeps /\ n \in Nat
    BY <1>1, BoundAssumption DEF FlowInv, TypeOK, User
<1>5. n = user[dev[d].u].denials
    OBVIOUS
<1> HIDE DEF n
<1>6. /\ new \in Req /\ new.op = "consumed" /\ new.dev = d /\ new.u = dev[d].u
      /\ new.polled = n
    BY <1>1, <1>4 DEF Req
<1> HIDE DEF row, new
<1>7. /\ dev' \in [Codes -> Dev] /\ dev'[d] = row /\ \A c \in Codes \ {d} : dev'[c] = dev[c]
      /\ req' \in [Reqs -> Req] /\ req'[r] = new /\ \A s \in Reqs \ {r} : req'[s] = req[s]
    BY <1>2, <1>3, <1>6 DEF FlowInv, TypeOK
<1>8. /\ \A s \in Reqs : ~Mints(s, d)
      /\ \A t \in Tokens : ~Made(t, d)
    BY <1>1 DEF FlowInv, ReqKnows, Filled, Mints, Made
<1>9. TypeOK'
    BY <1>3, <1>7 DEF FlowInv, TypeOK
<1>10. ReqKnows'
    BY <1>1, <1>2, <1>3, <1>6, <1>7 DEF FlowInv, ReqKnows, Minting
<1>11. Filled'
    BY <1>2, <1>3, <1>7 DEF FlowInv, Filled
<1>12. OneHolder'
  <2>1. \A c \in Codes : \A t \in Tokens : Made(t, c)' <=> Made(t, c)
    BY <1>3 DEF Made
  <2>2. \A c \in Codes : \A s \in Reqs : Mints(s, c)' => (s = r /\ c = d) \/ Mints(s, c)
    BY <1>6, <1>7 DEF Mints
  <2>3. \A s \in Reqs \ {r} : \A c \in Codes : Mints(s, c)' => c # d
    BY <1>7, <1>8 DEF Mints
  <2>4. \A c \in Codes : Mints(r, c)' => c = d
    BY <1>6, <1>7 DEF Mints
  <2> QED
    BY <1>8, <2>1, <2>2, <2>3, <2>4 DEF FlowInv, OneHolder
<1>13. Paired' /\ LiveSinceSweep'
    BY <1>3 DEF FlowInv, Paired, LiveSinceSweep
<1>14. CredentialChangeEndsApprovals'
    BY <1>2, <1>3, <1>7 DEF FlowInv, CredentialChangeEndsApprovals
<1>15. Polled'
  <2>1. \A s \in Reqs \ {r} : req[s].op \in Minting => req[s].dev # d
    BY <1>8 DEF Mints
  <2>2. \A t \in Tokens : tok[t].st # "absent" => tok[t].dev # d
    BY <1>8 DEF Made
  <2>3. /\ \A s \in Reqs : req[s].op \in Minting => req[s].dev \in Codes
        /\ \A t \in Tokens : tok[t].st # "absent" => tok[t].dev \in Codes
    BY DEF FlowInv, ReqKnows, Filled
  <2>4. \A s \in Reqs : req'[s].op \in Minting =>
          /\ req'[s].polled = dev'[req'[s].dev].born
          /\ req'[s].polled <= user[req'[s].u].denials
    BY <1>2, <1>6, <1>7, <1>4, <1>5, <2>1, <2>3 DEF FlowInv, Polled
  <2>5. \A t \in Tokens : tok[t].st # "absent" => tok[t].polled = dev'[tok[t].dev].born
    BY <1>7, <2>2, <2>3 DEF FlowInv, Polled
  <2> QED
    BY <1>3, <2>4, <2>5 DEF FlowInv, Polled
<1> QED
    BY <1>9, <1>10, <1>11, <1>12, <1>13, <1>14, <1>15 DEF FlowInv

\* The request that consumed a code hands it over to the token it inserts.
LEMMA Inserting ==
    ASSUME FlowInv, NEW r \in Reqs, NEW t \in Tokens, InsertAccess(r, t)
    PROVE  FlowInv'
<1> DEFINE n == user[req[r].u].sweeps
           new == [st |-> "live", u |-> req[r].u, dev |-> req[r].dev, born |-> n,
                   polled |-> req[r].polled]
<1>1. /\ req[r].u \in Users /\ req[r].dev \in Codes /\ dev[req[r].dev].st = "consumed"
      /\ req[r].op \in Minting /\ tok[t].st = "absent"
    BY DEF InsertAccess, FlowInv, ReqKnows, Minting
<1>2. n \in 0..MaxSweeps /\ req[r].polled \in 0..MaxSweeps
    BY <1>1 DEF FlowInv, TypeOK, User, Req
<1>3. /\ tok' = [tok EXCEPT ![t] = new] /\ req' = [req EXCEPT ![r] = Idle]
      /\ UNCHANGED <<dev, user, inst>>
    BY DEF InsertAccess, Done
<1> HIDE DEF n
<1>4. /\ new \in Tok /\ new.st = "live" /\ new.u = req[r].u /\ new.dev = req[r].dev
      /\ new.born = n /\ new.polled = req[r].polled
    BY <1>1, <1>2 DEF Tok
<1> HIDE DEF new
<1>5. /\ tok' \in [Tokens -> Tok] /\ tok'[t] = new /\ \A v \in Tokens \ {t} : tok'[v] = tok[v]
      /\ req' \in [Reqs -> Req] /\ req'[r] = Idle /\ \A s \in Reqs \ {r} : req'[s] = req[s]
    BY <1>3, <1>4, Blank DEF FlowInv, TypeOK
<1>6. TypeOK'
    BY <1>3, <1>5 DEF FlowInv, TypeOK
<1>7. ReqKnows'
    BY <1>3, <1>4, <1>5, Blank DEF FlowInv, ReqKnows, Minting
<1>8. Filled'
    BY <1>1, <1>3, <1>4, <1>5 DEF FlowInv, Filled
<1>9. OneHolder'
  <2>1. \A c \in Codes : ~Mints(r, c)'
    BY <1>5, Blank DEF Mints, Minting
  <2>2. \A c \in Codes : \A s \in Reqs \ {r} : Mints(s, c)' <=> Mints(s, c)
    BY <1>5 DEF Mints
  <2>3. \A c \in Codes : Made(t, c)' => Mints(r, c)
    BY <1>1, <1>4, <1>5 DEF Mints, Made
  <2>4. \A c \in Codes : \A v \in Tokens \ {t} : Made(v, c)' <=> Made(v, c)
    BY <1>5 DEF Made
  <2> QED
    BY <2>1, <2>2, <2>3, <2>4 DEF FlowInv, OneHolder
<1>10. Paired'
    BY <1>1, <1>3, <1>5 DEF FlowInv, Paired
<1>11. CredentialChangeEndsApprovals'
    BY <1>3 DEF FlowInv, CredentialChangeEndsApprovals
<1>12. LiveSinceSweep'
    BY <1>3, <1>4, <1>5 DEF FlowInv, LiveSinceSweep, n
<1>13. Polled'
    BY <1>1, <1>3, <1>4, <1>5, Blank DEF FlowInv, Polled, Minting
<1> QED
    BY <1>6, <1>7, <1>8, <1>9, <1>10, <1>11, <1>12, <1>13 DEF FlowInv

\* A registration takes a token that no installation has.
LEMMA Pairing ==
    ASSUME FlowInv, NEW r \in Reqs, NEW i \in Installs, NEW ref \in Refs,
           RegisterDeviceInstallation(r, i, ref)
    PROVE  FlowInv'
<1> DEFINE new == [st |-> "live", ref |-> ref, tok |-> req[r].tok]
<1>1. /\ req[r].tok \in Tokens /\ tok[req[r].tok].st # "absent"
      /\ \A j \in Installs : inst[j].st # "absent" => inst[j].tok # req[r].tok
    BY DEF RegisterDeviceInstallation, FlowInv, ReqKnows
<1>2. new \in Inst /\ new.st = "live" /\ new.tok = req[r].tok
    BY <1>1 DEF Inst
<1>3. /\ inst' = [inst EXCEPT ![i] = new] /\ req' = [req EXCEPT ![r] = Idle]
      /\ UNCHANGED <<dev, user, tok>>
    BY DEF RegisterDeviceInstallation, Done
<1> HIDE DEF new
<1>4. /\ inst' \in [Installs -> Inst] /\ inst'[i] = new
      /\ \A j \in Installs \ {i} : inst'[j] = inst[j]
      /\ req' \in [Reqs -> Req] /\ \A s \in Reqs : req'[s] = req[s] \/ req'[s] = Idle
    BY <1>2, <1>3, Blank DEF FlowInv, TypeOK
<1>5. TypeOK'
    BY <1>3, <1>4 DEF FlowInv, TypeOK
<1>6. ReqKnows'
    BY <1>3, <1>4, Blank DEF FlowInv, ReqKnows, Minting
<1>7. OneHolder'
    BY <1>3, <1>4, Blank DEF FlowInv, OneHolder, Mints, Made, Minting
<1>8. Paired'
    BY <1>1, <1>2, <1>3, <1>4 DEF FlowInv, Paired
<1>9. Polled'
    BY <1>3, <1>4, Blank DEF FlowInv, Polled, Minting
<1> QED
    BY <1>3, <1>5, <1>6, <1>7, <1>8, <1>9 DEF FlowInv, Filled, CredentialChangeEndsApprovals,
       LiveSinceSweep

\* A revocation takes the token with the installation.
LEMMA Unpairing ==
    ASSUME FlowInv, NEW i \in Installs, RevokeInstallation(i)
    PROVE  FlowInv'
<1> DEFINE t == inst[i].tok
           row == [inst[i] EXCEPT !.st = "revoked"]
           dead == [tok[t] EXCEPT !.st = "revoked"]
<1>1. inst[i] \in Inst /\ t \in Tokens /\ tok[t] \in Tok /\ tok[t].st # "absent"
    BY DEF RevokeInstallation, FlowInv, TypeOK, Paired
<1>2. row \in Inst /\ row.st = "revoked" /\ row.tok = t
    BY <1>1 DEF Inst
<1>3. /\ dead \in Tok /\ dead.st = "revoked" /\ dead.u = tok[t].u /\ dead.dev = tok[t].dev
      /\ dead.polled = tok[t].polled
    BY <1>1 DEF Tok
<1>4. /\ inst' = [inst EXCEPT ![i] = row] /\ tok' = [tok EXCEPT ![t] = dead]
      /\ UNCHANGED <<dev, user, req>>
    BY <1>1 DEF RevokeInstallation, FlowInv, TypeOK
<1> HIDE DEF row, dead
<1>5. /\ inst' \in [Installs -> Inst] /\ inst'[i] = row
      /\ \A j \in Installs \ {i} : inst'[j] = inst[j]
      /\ tok' \in [Tokens -> Tok] /\ tok'[t] = dead
      /\ \A v \in Tokens \ {t} : tok'[v] = tok[v]
    BY <1>1, <1>2, <1>3, <1>4 DEF FlowInv, TypeOK
<1>6. \A v \in Tokens : /\ tok'[v].st = "absent" <=> tok[v].st = "absent"
                        /\ tok[v].st = "revoked" => tok'[v].st = "revoked"
                        /\ tok'[v].st = "live" => tok'[v] = tok[v]
                        /\ tok'[v].u = tok[v].u /\ tok'[v].dev = tok[v].dev
                        /\ tok'[v].polled = tok[v].polled
    BY <1>1, <1>3, <1>5
<1>7. TypeOK'
    BY <1>4, <1>5 DEF FlowInv, TypeOK
<1>8. ReqKnows' /\ Filled' /\ OneHolder'
    BY <1>4, <1>6 DEF FlowInv, ReqKnows, Filled, OneHolder, Mints, Made
<1>9. Paired'
  <2>1. \A j \in Installs : /\ inst'[j].tok = inst[j].tok
                            /\ inst'[j].st = "absent" <=> inst[j].st = "absent"
                            /\ inst'[j].st = "revoked" => j = i \/ inst[j].st = "revoked"
    BY <1>2, <1>5 DEF RevokeInstallation
  <2>2. tok'[t].st = "revoked"
    BY <1>3, <1>5
  <2> QED
    BY <1>6, <2>1, <2>2 DEF FlowInv, Paired
<1>10. CredentialChangeEndsApprovals' /\ LiveSinceSweep' /\ Polled'
    BY <1>4, <1>6 DEF FlowInv, CredentialChangeEndsApprovals, LiveSinceSweep, Polled
<1> QED
    BY <1>7, <1>8, <1>9, <1>10 DEF FlowInv

-----------------------------------------------------------------------------
(* The identity.                                                           *)

\* UPDATE access_tokens ... WHERE subject: every row of the subject ends.
LEMMA Sweeping ==
    ASSUME FlowInv, NEW u \in Users, tok' = SweepTokens(u)
    PROVE  /\ tok' \in [Tokens -> Tok]
           /\ \A t \in Tokens : Ends(t) \/ (tok'[t] = tok[t] /\ tok[t].u # u)
<1>1. ASSUME NEW t \in Tokens
      PROVE  tok'[t] \in Tok /\ (Ends(t) \/ (tok'[t] = tok[t] /\ tok[t].u # u))
  <2>1. tok[t] \in Tok
    BY DEF FlowInv, TypeOK
  <2>2. CASE tok[t].u = u
    <3>1. tok'[t] = [tok[t] EXCEPT !.st = "revoked"]
      BY <2>2 DEF SweepTokens
    <3>2. tok[t].st # "absent"
      BY <2>2, NoneAssumption DEF FlowInv, Filled
    <3> QED
      BY <2>1, <3>1, <3>2 DEF Tok, Ends
  <2>3. CASE tok[t].u # u
    BY <2>1, <2>3 DEF SweepTokens
  <2> QED
    BY <2>2, <2>3
<1>2. tok' = [t \in Tokens |-> tok'[t]]
    BY DEF SweepTokens
<1> QED
    BY <1>1, <1>2

\* Status changes, logins and changes of credentials.
LEMMA Governing ==
    ASSUME FlowInv, NEW u \in Users,
           Disable(u) \/ Enable(u) \/ CredentialChange(u) \/ Login(u)
    PROVE  FlowInv'
<1>0. /\ user \in [Users -> User] /\ user[u] \in User
      /\ tok \in [Tokens -> Tok] /\ dev \in [Codes -> Dev]
      /\ user[u].sweeps \in 0..MaxSweeps /\ user[u].denials \in 0..MaxSweeps
      /\ user[u].denials <= user[u].sweeps
    BY DEF FlowInv, TypeOK, Filled, User
<1>1. CASE Disable(u)
  <2> DEFINE n == user[u].sweeps + 1
             row == [user[u] EXCEPT !.active = FALSE, !.session = FALSE, !.sweeps = n]
  <2>1. n \in 0..MaxSweeps /\ user[u].denials <= n
    BY <1>0, <1>1, BoundAssumption DEF Disable
  <2>2. user' = [user EXCEPT ![u] = row] /\ tok' = SweepTokens(u) /\ UNCHANGED <<dev, inst, req>>
    BY <1>0, <1>1 DEF Disable
  <2> HIDE DEF n
  <2>3. row \in User /\ row.sweeps = n /\ row.denials = user[u].denials
    BY <1>0, <2>1 DEF User
  <2> HIDE DEF row
  <2>4. /\ tok' \in [Tokens -> Tok]
        /\ \A t \in Tokens : \/ Ends(t)
                             \/ /\ tok'[t] = tok[t]
                                /\ row.sweeps = user[u].sweeps \/ tok[t].u # u
    BY <2>2, Sweeping
  <2>5. /\ dev' \in [Codes -> Dev] /\ UNCHANGED <<inst, req>> /\ row.denials <= row.sweeps
        /\ user[u].denials <= row.denials
        /\ \A d \in Codes : \/ dev[d].st = "approved" /\ dev'[d].st = "denied"
                            \/ /\ dev'[d] = dev[d]
                               /\ \/ row.denials = user[u].denials
                                  \/ dev[d].st # "approved" \/ dev[d].u # u
    BY <1>0, <2>1, <2>2, <2>3
  <2>6. user' = [user EXCEPT ![u] = row]
    BY <2>2
  <2> QED
    BY <2>3, <2>4, <2>5, <2>6, UserStep
<1>2. CASE CredentialChange(u)
  <2> DEFINE n == user[u].sweeps + 1
             m == user[u].denials + 1
             row == [user[u] EXCEPT !.session = FALSE, !.sweeps = n, !.denials = m]
  <2>1. n \in 0..MaxSweeps /\ m \in 0..MaxSweeps /\ m <= n /\ user[u].denials <= m
    BY <1>0, <1>2, BoundAssumption DEF CredentialChange
  <2>2. /\ user' = [user EXCEPT ![u] = row] /\ tok' = SweepTokens(u) /\ UNCHANGED <<inst, req>>
        /\ dev' = [d \in Codes |-> IF dev[d].st = "approved" /\ dev[d].u = u
                                   THEN [dev[d] EXCEPT !.st = "denied"] ELSE dev[d]]
    BY <1>0, <1>2 DEF CredentialChange
  <2> HIDE DEF n, m
  <2>3. row \in User /\ row.sweeps = n /\ row.denials = m
    BY <1>0, <2>1 DEF User
  <2> HIDE DEF row
  <2>4. ASSUME NEW d \in Codes
        PROVE  /\ dev'[d] \in Dev
               /\ \/ dev[d].st = "approved" /\ dev'[d].st = "denied"
                  \/ dev'[d] = dev[d] /\ (dev[d].st # "approved" \/ dev[d].u # u)
    <3>1. dev[d] \in Dev
      BY <1>0
    <3>2. CASE dev[d].st = "approved" /\ dev[d].u = u
      <4>1. dev'[d] = [dev[d] EXCEPT !.st = "denied"]
        BY <2>2, <3>2
      <4> QED
        BY <3>1, <3>2, <4>1 DEF Dev
    <3>3. CASE ~(dev[d].st = "approved" /\ dev[d].u = u)
      BY <2>2, <3>1, <3>3
    <3> QED
      BY <3>2, <3>3
  <2>5. dev' \in [Codes -> Dev]
    <3>1. dev' = [d \in Codes |-> dev'[d]]
      BY <2>2
    <3> QED
      BY <2>4, <3>1
  <2>6. \A d \in Codes :
          \/ dev[d].st = "approved" /\ dev'[d].st = "denied"
          \/ dev'[d] = dev[d] /\ (dev[d].st # "approved" \/ dev[d].u # u)
    BY <2>4
  <2>7. /\ tok' \in [Tokens -> Tok]
        /\ \A t \in Tokens : Ends(t) \/ (tok'[t] = tok[t] /\ tok[t].u # u)
    BY <2>2, Sweeping
  <2>8. /\ user' = [user EXCEPT ![u] = row] /\ UNCHANGED <<inst, req>>
        /\ row.denials <= row.sweeps /\ user[u].denials <= row.denials
    BY <2>1, <2>2, <2>3
  <2> QED
    BY <2>3, <2>5, <2>6, <2>7, <2>8, UserStep
<1>3. CASE Enable(u) \/ Login(u)
  <2>1. PICK row \in User :
           /\ user' = [user EXCEPT ![u] = row] /\ UNCHANGED <<dev, tok, inst, req>>
           /\ row.sweeps = user[u].sweeps /\ row.denials = user[u].denials
    <3> DEFINE e == [user[u] EXCEPT !.active = TRUE]
               l == [user[u] EXCEPT !.session = TRUE]
    <3>1. /\ e \in User /\ e.sweeps = user[u].sweeps /\ e.denials = user[u].denials
          /\ l \in User /\ l.sweeps = user[u].sweeps /\ l.denials = user[u].denials
      BY <1>0 DEF User
    <3>2. \/ user' = [user EXCEPT ![u] = e]
          \/ user' = [user EXCEPT ![u] = l]
      BY <1>0, <1>3 DEF Enable, Login
    <3>3. UNCHANGED <<dev, tok, inst, req>>
      BY <1>3 DEF Enable, Login
    <3> HIDE DEF e, l
    <3> QED
      BY <3>1, <3>2, <3>3
  <2>2. row.denials <= row.sweeps /\ user[u].denials <= row.denials
    BY <1>0, <2>1, BoundAssumption
  <2> QED
    BY <1>0, <2>1, <2>2, UserStep
<1> QED
    BY <1>1, <1>2, <1>3

-----------------------------------------------------------------------------
(* Theorems.                                                               *)

\* The inductive invariant holds in every state of the specification.
THEOREM Flow == Spec => []FlowInv
<1>1. Init => FlowInv
  <2> SUFFICES ASSUME Init PROVE FlowInv
    OBVIOUS
  <2>1. TypeOK
    BY Blank DEF Init, TypeOK, User
  <2>2. ReqKnows /\ OneHolder
    BY Blank DEF Init, ReqKnows, OneHolder, Mints, Made, Minting, NoTok
  <2>3. Filled /\ Paired /\ CredentialChangeEndsApprovals /\ LiveSinceSweep /\ Polled
    BY Blank DEF Init, Filled, Paired, CredentialChangeEndsApprovals, LiveSinceSweep, Polled,
           Minting, NoDev, NoTok, NoInst
  <2> QED
    BY <2>1, <2>2, <2>3 DEF FlowInv
<1>2. FlowInv /\ [Next]_vars => FlowInv'
  <2> SUFFICES ASSUME FlowInv, [Next]_vars PROVE FlowInv'
    OBVIOUS
  <2>1. CASE UNCHANGED vars
    BY <2>1 DEF vars, FlowInv, TypeOK, ReqKnows, Filled, OneHolder, Mints, Made, Paired,
       CredentialChangeEndsApprovals, LiveSinceSweep, Polled
  <2>2. CASE Next
    BY <2>2, Waiting, Confirming, Requesting, Consuming, Inserting, Pairing, Unpairing, Governing
       DEF Next, GetDeviceAuthorizatonState, revokeMyDeviceInstallation, revokeDeviceInstallation
  <2> QED
    BY <2>1, <2>2
<1> QED
    BY <1>1, <1>2, PTL DEF Spec

\* A set whose elements are all equal has one at most.
LEMMA AtMostOne ==
    ASSUME NEW S, \A x, y \in S : x = y
    PROVE  Cardinality(S) <= 1
<1>1. CASE S = {}
    BY <1>1, FS_EmptySet
<1>2. ASSUME NEW x \in S PROVE Cardinality(S) <= 1
  <2>1. S = {x}
    OBVIOUS
  <2> QED
    BY <2>1, FS_Singleton
<1> QED
    BY <1>1, <1>2

\* PollApproved consumes its code in the transaction that reads the approval, so one
\* confirmation yields one token and one installation, for any number of polls.
THEOREM PairedOnce == Spec => [](TypeOK /\ OneInstallationPerCode)
<1>1. FlowInv => TypeOK /\ OneInstallationPerCode
  <2> SUFFICES ASSUME FlowInv PROVE OneInstallationPerCode
    BY DEF FlowInv
  <2> SUFFICES ASSUME NEW d \in Codes,
                      NEW mine, mine = {t \in Tokens : tok[t].st # "absent" /\ tok[t].dev = d}
               PROVE  /\ Cardinality(mine) <= 1
                      /\ Cardinality({i \in Installs : inst[i].st # "absent"
                                                       /\ inst[i].tok \in mine}) <= 1
    BY DEF OneInstallationPerCode
  <2>1. \A t, v \in mine : t = v
    BY DEF FlowInv, OneHolder, Made
  <2>2. \A i, j \in {k \in Installs : inst[k].st # "absent" /\ inst[k].tok \in mine} : i = j
    BY <2>1 DEF FlowInv, Paired
  <2> QED
    BY <2>1, <2>2, AtMostOne
<1> QED
    BY <1>1, Flow, PTL

\* RevokeInstallation ends the token with the row, and nothing revives it.
THEOREM RevocationReachesToken == Spec => []RevokedInstallationHasNoToken
<1>1. FlowInv => RevokedInstallationHasNoToken
    BY DEF FlowInv, Paired, RevokedInstallationHasNoToken, ActiveToken
<1> QED
    BY <1>1, Flow, PTL

\* Approvals do not survive a change of password or second factor that found them.
THEOREM ApprovalsEnd == Spec => []CredentialChangeEndsApprovals
<1>1. FlowInv => CredentialChangeEndsApprovals
    BY DEF FlowInv
<1> QED
    BY <1>1, Flow, PTL

\* An active device token was inserted after the last sweep over its subject, and its
\* approval was given, or had been consumed, since the last change of credentials.
THEOREM TokensFollowApprovals == Spec => []DeviceTokensFollowApprovals
<1>1. FlowInv => DeviceTokensFollowApprovals
  <2> SUFFICES ASSUME FlowInv, NEW t \in Tokens, tok[t].st # "absent", ActiveToken(t)
               PROVE  /\ tok[t].born = user[tok[t].u].sweeps
                      /\ \/ dev[tok[t].dev].born = user[tok[t].u].denials
                         \/ tok[t].polled < user[tok[t].u].denials
    BY DEF DeviceTokensFollowApprovals
  <2>1. tok[t].born = user[tok[t].u].sweeps
    BY DEF FlowInv, LiveSinceSweep, ActiveToken
  <2>2. tok[t].polled = dev[tok[t].dev].born /\ tok[t].polled <= user[tok[t].u].denials
    BY DEF FlowInv, Polled
  <2>3. tok[t].polled \in Nat /\ tok[t].u \in Users /\ user[tok[t].u].denials \in Nat
    BY BoundAssumption DEF FlowInv, Filled, TypeOK, Tok, User
  <2> QED
    BY <2>1, <2>2, <2>3
<1> QED
    BY <1>1, Flow, PTL

=============================================================================
