------------------------ MODULE TokenLifecycleProofs ------------------------
(***************************************************************************)
(* Proofs about TokenLifecycle, for any number of identities, sessions,    *)
(* requests, tokens, handlers and revocations.                             *)
(***************************************************************************)
EXTENDS TokenLifecycle, TLAPS

\* A row in use carries the columns its state promises.
RowsFilled ==
    /\ \A s \in Sessions : session[s].st # "unused" => session[s].owner \in Identities
    /\ \A r \in Requests :
          /\ authReq[r].st # "unused" => authReq[r].client \in Clients
          /\ authReq[r].st \in {"authenticated", "coded"} => authReq[r].tok \in Payload
    /\ \A f \in Families : /\ family[f].st # "unused" => family[f].tok \in Payload
                           /\ family[f].st = "unused" => family[f].tok = None
    /\ \A t \in Refreshes :
          refresh[t].st # "unused" => /\ refresh[t].tok \in Payload
                                      /\ refresh[t].family \in Families
                                      /\ family[refresh[t].family].st # "unused"

\* A handler between two statements holds what its first statement returned.
HandlerFilled ==
    \A h \in Handlers :
        /\ handler[h].pc = "login" => handler[h].ref \in Identities
        /\ handler[h].pc = "approve" => handler[h].ref \in Requests /\ handler[h].tok \in Payload
        /\ handler[h].pc \in {"lookup", "replay"} =>
              handler[h].ref \in Refreshes /\ refresh[handler[h].ref].st # "unused"
        /\ handler[h].pc \in {"lookup", "create", "insert"} => handler[h].tok \in Payload
        /\ handler[h].pc \in {"create", "insert"} =>
              \/ handler[h].ref \in Requests \cup {None}
              \/ handler[h].ref \in Refreshes /\ refresh[handler[h].ref].st # "unused"

\* A revocation in flight is about an identity and has locked sessions of it and families
\* in use.
SweepFilled ==
    \A w \in Sweepers :
        /\ sweep[w].kind # "idle" => sweep[w].subject \in Identities
        /\ \A s \in sweep[w].sess : /\ session[s].st # "unused"
                                     /\ session[s].owner = sweep[w].subject
        /\ \A f \in sweep[w].fams : family[f].st # "unused"

FilledInv == TypeOK /\ RowsFilled /\ HandlerFilled /\ SweepFilled

-----------------------------------------------------------------------------
(* Types.                                                                  *)

\* The login and consent handlers write well-typed rows.
LEMMA LoginType ==
    ASSUME FilledInv, NEW h \in Handlers, LoginStep(h)
    PROVE  TypeOK'
<1> USE DEF FilledInv
<1>1. ASSUME NEW u \in Identities, NewSessionRead(h, u) PROVE TypeOK'
    BY <1>1 DEF NewSessionRead, TypeOK, HandlerState, tables
<1>2. ASSUME NEW s \in Sessions, NewSessionInsert(h, s) PROVE TypeOK'
  <2>1. session' \in [Sessions -> SessionRow]
    BY <1>2 DEF NewSessionInsert, TypeOK, SessionRow, HandlerFilled
  <2>2. handler' \in [Handlers -> HandlerState]
    BY <1>2 DEF NewSessionInsert, TypeOK, HandlerState, Idle
  <2> QED
    BY <1>2, <2>1, <2>2 DEF NewSessionInsert, TypeOK
<1>3. ASSUME NEW r \in Requests, NEW s \in Sessions, ApproveRead(h, r, s) PROVE TypeOK'
  <2>1. [client |-> authReq[r].client, subject |-> session[s].owner, sid |-> s] \in Payload
    BY <1>3 DEF ApproveRead, RowsFilled, Payload
  <2> QED
    BY <1>3, <2>1 DEF ApproveRead, TypeOK, HandlerState, tables
<1>4. ASSUME CompleteAuthorization(h) PROVE TypeOK'
  <2>1. handler' \in [Handlers -> HandlerState]
    BY <1>4 DEF CompleteAuthorization, TypeOK, HandlerState, Idle
  <2>2. authReq' \in [Requests -> AuthReqRow]
    BY <1>4 DEF CompleteAuthorization, TypeOK, HandlerFilled, AuthReqRow
  <2> QED
    BY <1>4, <2>1, <2>2 DEF CompleteAuthorization, TypeOK
<1> QED
    BY <1>1, <1>2, <1>3, <1>4 DEF LoginStep

\* The token endpoint writes well-typed rows.
LEMMA TokenType ==
    ASSUME FilledInv, NEW h \in Handlers, TokenStep(h)
    PROVE  TypeOK'
<1> USE DEF FilledInv
<1>1. ASSUME NEW r \in Requests, AuthRequestByCode(h, r) PROVE TypeOK'
  <2>1. authReq' \in [Requests -> AuthReqRow]
    BY <1>1 DEF AuthRequestByCode, TypeOK, AuthReqRow
  <2>2. handler' \in [Handlers -> HandlerState]
    BY <1>1 DEF AuthRequestByCode, TypeOK, HandlerState, RowsFilled
  <2> QED
    BY <1>1, <2>1, <2>2 DEF AuthRequestByCode, TypeOK
<1>2. ASSUME NEW u \in Identities, NEW c \in Clients, DeviceGrant(h, u, c) PROVE TypeOK'
  <2>1. [client |-> c, subject |-> u, sid |-> None] \in Payload
    BY DEF Payload
  <2> QED
    BY <1>2, <2>1 DEF DeviceGrant, TypeOK, HandlerState, tables
<1>3. ASSUME NEW t \in Refreshes, RefreshLookup(h, t) PROVE TypeOK'
  <2>1. refresh[t].tok \in Payload
    BY <1>3 DEF RefreshLookup, RowsFilled
  <2> DEFINE pc == IF refresh[t].st = "consumed" THEN "replay" ELSE "lookup"
  <2>2. [pc |-> pc, ref |-> t, tok |-> refresh[t].tok] \in HandlerState
    BY <2>1 DEF HandlerState
  <2>3. handler' \in [Handlers -> HandlerState]
    BY <1>3, <2>2 DEF RefreshLookup, TypeOK
  <2> QED
    BY <1>3, <2>3 DEF RefreshLookup, TypeOK, tables
<1>4. ASSUME ReplayRevoke(h) PROVE TypeOK'
  <2>1. family' \in [Families -> FamilyRow]
    BY <1>4 DEF ReplayRevoke, RevokeFamily, TypeOK, FamilyRow
  <2>2. handler' \in [Handlers -> HandlerState]
    BY <1>4 DEF ReplayRevoke, TypeOK, HandlerState, Idle
  <2>3. presented' \in [Refreshes -> 0..2]
    <3>1. handler[h].ref \in Refreshes
      BY <1>4 DEF ReplayRevoke, HandlerFilled
    <3> QED
      BY <1>4, <3>1 DEF ReplayRevoke, Decided, TypeOK
  <2> QED
    BY <1>4, <2>1, <2>2, <2>3 DEF ReplayRevoke, TypeOK
<1>5. ASSUME ValidateTokenSubject(h) PROVE TypeOK'
  <2>1. handler' \in [Handlers -> HandlerState]
    BY <1>5 DEF ValidateTokenSubject, TypeOK, HandlerState, Idle
  <2> QED
    BY <1>5, <2>1 DEF ValidateTokenSubject, TypeOK, tables
<1>6. ASSUME NEW a \in Accesses, InsertAccess(h, a) PROVE TypeOK'
  <2>1. NewAccess(None, handler[h].tok, handler[h].ref) \in AccessRow
    BY <1>6 DEF InsertAccess, NewAccess, AccessRow, HandlerFilled
  <2>2. access' \in [Accesses -> AccessRow]
    BY <1>6, <2>1 DEF InsertAccess, TypeOK
  <2>3. handler' \in [Handlers -> HandlerState]
    BY <1>6 DEF InsertAccess, TypeOK, HandlerState, Idle
  <2> QED
    BY <1>6, <2>2, <2>3 DEF InsertAccess, TypeOK
<1>7. ASSUME NEW f \in Families, NEW t \in Refreshes, NEW a \in Accesses,
             InsertFamily(h, f, t, a)
      PROVE TypeOK'
  <2>1. /\ NewAccess(f, handler[h].tok, handler[h].ref) \in AccessRow
        /\ NewRefresh(f, handler[h].tok) \in RefreshRow
        /\ [st |-> "live", tok |-> handler[h].tok] \in FamilyRow
    BY <1>7 DEF InsertFamily, NewAccess, NewRefresh, AccessRow, RefreshRow, FamilyRow,
                HandlerFilled
  <2>2. /\ access' \in [Accesses -> AccessRow]
        /\ refresh' \in [Refreshes -> RefreshRow]
        /\ family' \in [Families -> FamilyRow]
    BY <1>7, <2>1 DEF InsertFamily, TypeOK
  <2>3. handler' \in [Handlers -> HandlerState]
    BY <1>7 DEF InsertFamily, TypeOK, HandlerState, Idle
  <2> QED
    BY <1>7, <2>2, <2>3 DEF InsertFamily, TypeOK
<1>8. ASSUME Rotate(h) PROVE TypeOK'
  <2>1. presented' \in [Refreshes -> 0..2]
    BY <1>8 DEF Rotate, Decided, TypeOK
  <2>2. handler' \in [Handlers -> HandlerState]
    BY <1>8 DEF Rotate, TypeOK, HandlerState, Idle
  <2> DEFINE P == /\ access' \in [Accesses -> AccessRow]
                  /\ refresh' \in [Refreshes -> RefreshRow]
                  /\ family' \in [Families -> FamilyRow]
  <2>3. P
    <3>1. ASSUME NEW t \in Refreshes, NEW a \in Accesses, RotateConsumes(h, t, a)
          PROVE  P
      <4> DEFINE old == handler[h].ref
                 f == refresh[old].family
                 tok == handler[h].tok
      <4>1. old \in Refreshes /\ f \in Families /\ tok \in Payload
        BY <1>8, <3>1 DEF Rotate, HandlerFilled, RowsFilled, RotateConsumes
      <4>2. NewAccess(f, tok, old) \in AccessRow /\ NewRefresh(f, tok) \in RefreshRow
        BY <4>1 DEF NewAccess, NewRefresh, AccessRow, RefreshRow
      <4>3. access' \in [Accesses -> AccessRow] /\ family' \in [Families -> FamilyRow]
        BY <3>1, <4>2 DEF RotateConsumes, TypeOK
      <4>4. [refresh EXCEPT ![old].st = "consumed"] \in [Refreshes -> RefreshRow]
        BY <4>1 DEF TypeOK, RefreshRow
      <4>5. refresh' \in [Refreshes -> RefreshRow]
        BY <3>1, <4>2, <4>4 DEF RotateConsumes
      <4> QED
        BY <4>3, <4>5
    <3>2. ASSUME RotateReplayed(h) PROVE P
      BY <3>2 DEF RotateReplayed, RevokeFamily, TypeOK, FamilyRow
    <3>3. ASSUME RotateRefused(h) PROVE P
      BY <3>3 DEF RotateRefused, TypeOK
    <3> QED
      BY <1>8, <3>1, <3>2, <3>3 DEF Rotate
  <2> QED
    BY <1>8, <2>1, <2>2, <2>3 DEF Rotate, TypeOK
<1>9. ASSUME Abandon(h) PROVE TypeOK'
    BY <1>9 DEF Abandon, TypeOK, HandlerState, Idle, tables
<1> QED
    BY <1>1, <1>2, <1>3, <1>4, <1>5, <1>6, <1>7, <1>8, <1>9 DEF TokenStep

\* What the first statements of a revocation's transaction have read of its request.
Named(m) ==
    /\ m \in SweepState /\ m.subject \in Identities /\ m.kind # "idle"
    /\ m.kind = "logout_session" => m.sid \in Sessions
    /\ m.kind \notin {"logout_session", "confirm_mfa"} => m.sid = None

\* A revocation's step begins, commits or undoes it.
LEMMA SweepPhases ==
    ASSUME NEW w \in Sweepers, SweepStep(w)
    PROVE  CommitSweep(w) \/ RollbackSweep(w) \/ \E m : BeginSweep(w, m)
<1> DEFINE Begun == \E m : BeginSweep(w, m)
<1>1. ASSUME NEW u \in Identities, LogoutAll(w, u) PROVE Begun
    BY <1>1 DEF LogoutAll
<1>2. ASSUME NEW u \in Identities, Disable(w, u) PROVE Begun
    BY <1>2 DEF Disable
<1>3. ASSUME NEW u \in Identities, RedeemMFAReset(w, u) PROVE Begun
    BY <1>3 DEF RedeemMFAReset
<1>4. ASSUME NEW u \in Identities, RedeemCredential(w, u) PROVE Begun
    BY <1>4 DEF RedeemCredential
<1>5. ASSUME NEW s \in Sessions, LogoutSession(w, s) PROVE Begun
    BY <1>5 DEF LogoutSession
<1>6. ASSUME NEW s \in Sessions, ChangePassword(w, s) PROVE Begun
    BY <1>6 DEF ChangePassword
<1>7. ASSUME NEW s \in Sessions, ConfirmMFA(w, s) PROVE Begun
    BY <1>7 DEF ConfirmMFA
<1>8. ASSUME NEW u \in Identities, NEW c \in Clients, TerminateSession(w, u, c) PROVE Begun
    BY <1>8 DEF TerminateSession
<1> HIDE DEF Begun
<1>9. CommitSweep(w) \/ RollbackSweep(w) \/ Begun
    BY <1>1, <1>2, <1>3, <1>4, <1>5, <1>6, <1>7, <1>8 DEF SweepStep
<1> QED
    BY <1>9 DEF Begun

\* A revocation that begins is about an identity, and it is a disabling only if it is
\* SetIdentityStatus's.
LEMMA SweepBegins ==
    ASSUME FilledInv, NEW w \in Sweepers, SweepStep(w)
    PROVE  \/ CommitSweep(w) \/ RollbackSweep(w)
           \/ \E m \in SweepState :
                 /\ BeginSweep(w, m) /\ Named(m)
                 /\ m.kind = "disable" => \E u \in Identities : Disable(w, u)
<1> DEFINE Begun == \E m \in SweepState :
                       /\ BeginSweep(w, m) /\ Named(m)
                       /\ m.kind = "disable" => \E u \in Identities : Disable(w, u)
<1>1. ASSUME NEW u \in Identities, NEW k \in {"logout_all", "disable", "credentials", "recover"},
             BeginSweep(w, [IdleSweep EXCEPT !.kind = k, !.subject = u]),
             k = "disable" => Disable(w, u)
      PROVE  Begun
  <2> DEFINE m == [IdleSweep EXCEPT !.kind = k, !.subject = u]
  <2>1. m \in SweepState /\ m.subject = u /\ m.kind = k /\ m.sid = None
    BY DEF IdleSweep, SweepState, SweepKind
  <2>2. BeginSweep(w, m)
    BY <1>1
  <2> HIDE DEF m
  <2> QED
    BY <1>1, <2>1, <2>2 DEF Named
<1>2. ASSUME NEW u \in Identities, LogoutAll(w, u) \/ Disable(w, u) PROVE Begun
  <2>1. CASE LogoutAll(w, u)
    <3>1. BeginSweep(w, [IdleSweep EXCEPT !.kind = "logout_all", !.subject = u])
      BY <2>1 DEF LogoutAll
    <3> HIDE DEF Begun
    <3> QED
      BY <1>1, <3>1
  <2>2. CASE Disable(w, u)
    <3>1. BeginSweep(w, [IdleSweep EXCEPT !.kind = "disable", !.subject = u])
      BY <2>2 DEF Disable
    <3> HIDE DEF Begun
    <3> QED
      BY <1>1, <2>2, <3>1
  <2> QED
    BY <1>2, <2>1, <2>2
<1>3. ASSUME NEW u \in Identities, RedeemMFAReset(w, u) \/ RedeemCredential(w, u) PROVE Begun
  <2>1. PICK k \in {"credentials", "recover"} :
            BeginSweep(w, [IdleSweep EXCEPT !.kind = k, !.subject = u])
    BY <1>3 DEF RedeemMFAReset, RedeemCredential
  <2> HIDE DEF Begun
  <2> QED
    BY <1>1, <2>1
<1>4. ASSUME NEW s \in Sessions, ChangePassword(w, s) PROVE Begun
  <2>1. session[s].owner \in Identities
    BY <1>4 DEF ChangePassword, FilledInv, RowsFilled
  <2>2. BeginSweep(w, [IdleSweep EXCEPT !.kind = "credentials", !.subject = session[s].owner])
    BY <1>4 DEF ChangePassword
  <2> HIDE DEF Begun
  <2> QED
    BY <1>1, <2>1, <2>2
<1>5. ASSUME NEW s \in Sessions, LogoutSession(w, s) \/ ConfirmMFA(w, s) PROVE Begun
  <2>1. session[s].owner \in Identities
    BY <1>5 DEF LogoutSession, ConfirmMFA, FilledInv, RowsFilled
  <2>2. PICK k \in {"logout_session", "confirm_mfa"} :
            BeginSweep(w, [IdleSweep EXCEPT !.kind = k, !.sid = s, !.subject = session[s].owner])
    BY <1>5 DEF LogoutSession, ConfirmMFA
  <2> DEFINE m == [IdleSweep EXCEPT !.kind = k, !.sid = s, !.subject = session[s].owner]
  <2>3. /\ m \in SweepState /\ m.subject = session[s].owner /\ m.kind = k /\ m.sid = s
        /\ BeginSweep(w, m)
    BY <2>1, <2>2 DEF IdleSweep, SweepState, SweepKind
  <2> HIDE DEF m
  <2> QED
    BY <2>1, <2>3 DEF Named
<1>6. ASSUME NEW u \in Identities, NEW c \in Clients, TerminateSession(w, u, c) PROVE Begun
  <2> DEFINE m == [IdleSweep EXCEPT !.kind = "terminate", !.subject = u, !.client = c]
  <2>1. /\ m \in SweepState /\ m.subject = u /\ m.kind = "terminate" /\ m.sid = None
        /\ BeginSweep(w, m)
    BY <1>6 DEF TerminateSession, IdleSweep, SweepState, SweepKind
  <2> HIDE DEF m
  <2> QED
    BY <2>1 DEF Named
<1> HIDE DEF Begun
<1>7. CommitSweep(w) \/ RollbackSweep(w) \/ Begun
    BY <1>2, <1>3, <1>4, <1>5, <1>6 DEF SweepStep
<1> QED
    BY <1>7 DEF Begun

\* Its transaction then holds what the request names and the rows it selects.
LEMMA BegunRow ==
    ASSUME TypeOK, NEW w \in Sweepers, NEW m \in SweepState, BeginSweep(w, m)
    PROVE  /\ sweep' \in [Sweepers -> SweepState]
           /\ \A v \in Sweepers \ {w} : sweep'[v] = sweep[v]
           /\ sweep'[w].kind = m.kind /\ sweep'[w].subject = m.subject
           /\ sweep'[w].sid = m.sid
           /\ sweep'[w].sess = {s \in Sessions : SweptSession(m, s)}
           /\ sweep'[w].fams = {f \in Families : Selects(m, family[f].tok)}
           /\ status' = status /\ session' = session /\ family' = family
<1> DEFINE ss == {s \in Sessions : SweptSession(m, s)}
           fs == {f \in Families : Selects(m, family[f].tok)}
           n == [m EXCEPT !.sess = ss, !.fams = fs]
<1>1. sweep' = [sweep EXCEPT ![w] = n]
    BY DEF BeginSweep
<1>2. ss \in SUBSET Sessions /\ fs \in SUBSET Families
    OBVIOUS
<1> HIDE DEF ss, fs
<1>3. /\ n \in SweepState /\ n.kind = m.kind /\ n.subject = m.subject /\ n.sid = m.sid
      /\ n.sess = ss /\ n.fams = fs
    BY <1>2 DEF SweepState
<1> HIDE DEF n
<1>4. sweep \in [Sweepers -> SweepState]
    BY DEF TypeOK
<1>5. sweep'[w] = n /\ sweep' \in [Sweepers -> SweepState]
      /\ \A v \in Sweepers \ {w} : sweep'[v] = sweep[v]
    BY <1>1, <1>3, <1>4
<1>6. status' = status /\ session' = session /\ family' = family
    BY DEF BeginSweep, tables
<1> QED
    BY <1>3, <1>5, <1>6 DEF ss, fs

\* A revocation's COMMIT leaves an ended session ended and ends the ones it has selected.
LEMMA RevokedRow ==
    ASSUME NEW row \in SessionRow, NEW k \in SweepKind
    PROVE  /\ RevokedBy(k, row) \in SessionRow
           /\ RevokedBy(k, row).st = "revoked" /\ RevokedBy(k, row).owner = row.owner
           /\ row.st = "revoked" => RevokedBy(k, row) = row
           /\ row.st # "revoked" =>
                 (RevokedBy(k, row).by = "confirm_mfa" <=> k = "confirm_mfa")
<1> DEFINE b == IF k = "confirm_mfa" THEN k ELSE "logout"
           n == [row EXCEPT !.st = "revoked", !.by = b]
<1>1. b \in {"logout", "confirm_mfa"} /\ (b = "confirm_mfa" <=> k = "confirm_mfa")
    OBVIOUS
<1>2. RevokedBy(k, row) = IF row.st = "revoked" THEN row ELSE n
    BY DEF RevokedBy
<1> HIDE DEF b
<1>3. n \in SessionRow /\ n.st = "revoked" /\ n.owner = row.owner /\ n.by = b
    BY <1>1 DEF SessionRow
<1> HIDE DEF n
<1> QED
    BY <1>1, <1>2, <1>3

\* A revocation writes well-typed rows and notices.
LEMMA SweepType ==
    ASSUME FilledInv, NEW w \in Sweepers, SweepStep(w)
    PROVE  TypeOK'
<1> USE DEF FilledInv
<1>1. ASSUME NEW m \in SweepState, BeginSweep(w, m) PROVE TypeOK'
  <2>1. sweep' \in [Sweepers -> SweepState]
    BY <1>1, BegunRow
  <2> QED
    BY <1>1, <2>1 DEF BeginSweep, TypeOK, tables
<1>2. IdleSweep \in SweepState
    BY DEF IdleSweep, SweepState
<1>6. ASSUME CommitSweep(w) PROVE TypeOK'
  <2> DEFINE m == sweep[w]
  <2>1. m \in SweepState /\ m.subject \in Identities /\ m.sid \in Sessions \cup {None}
    BY <1>6 DEF CommitSweep, InFlight, SweepFilled, TypeOK, SweepState
  <2>2. status' \in [Identities -> {"active", "disabled"}]
    BY <1>6, <2>1 DEF CommitSweep, TypeOK
  <2>3. session' \in [Sessions -> SessionRow]
    <3>1. m.kind \in SweepKind /\ session \in [Sessions -> SessionRow]
      BY <1>6, <2>1 DEF CommitSweep, InFlight, SweepState, TypeOK
    <3>2. \A s \in Sessions : session[s] \in SessionRow /\ RevokedBy(m.kind, session[s]) \in SessionRow
      BY <3>1, RevokedRow
    <3>3. session' = [s \in Sessions |->
              IF s \in m.sess THEN RevokedBy(m.kind, session[s]) ELSE session[s]]
      BY <1>6 DEF CommitSweep
    <3> QED
      BY <3>2, <3>3
  <2>4. family' \in [Families -> FamilyRow]
    BY <1>6 DEF CommitSweep, TypeOK, FamilyRow
  <2>5. access' \in [Accesses -> AccessRow]
    <3>1. /\ access \in [Accesses -> AccessRow]
          /\ access' = [a \in Accesses |-> IF Selects(m, access[a].tok)
                                           THEN [access[a] EXCEPT !.st = "revoked"] ELSE access[a]]
      BY <1>6 DEF CommitSweep, TypeOK
    <3> HIDE DEF m
    <3> QED
      BY <3>1 DEF AccessRow
  <2>6. SweepNotices(m) \subseteq Notice
    BY <2>1, RolesAssumption DEF SweepNotices, Announce, Notice
  <2>7. sweep' \in [Sweepers -> SweepState]
    BY <1>2, <1>6 DEF CommitSweep, TypeOK
  <2>8. authReq' \in [Requests -> AuthReqRow]
    BY <1>6 DEF CommitSweep, TypeOK, AuthReqRow
  <2>9. notices' \subseteq Notice
    BY <1>6, <2>6 DEF CommitSweep, TypeOK
  <2> QED
    BY <1>6, <2>2, <2>3, <2>4, <2>5, <2>7, <2>8, <2>9 DEF CommitSweep, TypeOK
<1>7. ASSUME RollbackSweep(w) PROVE TypeOK'
    BY <1>2, <1>7 DEF RollbackSweep, TypeOK, tables
<1> QED
    BY <1>1, <1>6, <1>7, SweepBegins

\* The remaining statements, and the passing of time, write well-typed rows.
LEMMA OtherType ==
    ASSUME FilledInv,
           \/ \E r \in Requests, c \in Clients : CreateAuthRequest(r, c)
           \/ \E r \in Requests : SaveAuthCode(r)
           \/ \E x \in Refreshes \cup Accesses, c \in Clients : RevokeToken(x, c)
           \/ \E u \in Identities : Enable(u)
           \/ TimeStep
    PROVE  TypeOK'
<1> USE DEF FilledInv
<1>1. ASSUME NEW r \in Requests, NEW c \in Clients, CreateAuthRequest(r, c) PROVE TypeOK'
    BY <1>1 DEF CreateAuthRequest, TypeOK, AuthReqRow
<1>2. ASSUME NEW r \in Requests, SaveAuthCode(r) PROVE TypeOK'
    BY <1>2 DEF SaveAuthCode, TypeOK, AuthReqRow
<1>3. ASSUME NEW x \in Refreshes \cup Accesses, NEW c \in Clients, RevokeToken(x, c)
      PROVE TypeOK'
  <2>1. family' \in [Families -> FamilyRow]
    BY <1>3 DEF RevokeToken, RevokeFamily, TypeOK, FamilyRow
  <2>2. access' \in [Accesses -> AccessRow]
    BY <1>3 DEF RevokeToken, TypeOK, AccessRow
  <2> QED
    BY <1>3, <2>1, <2>2 DEF RevokeToken, TypeOK
<1>4. ASSUME NEW u \in Identities, Enable(u) PROVE TypeOK'
  <2>1. Announce("active", u, None) \subseteq Notice
    BY RolesAssumption DEF Announce, Notice
  <2> QED
    BY <1>4, <2>1 DEF Enable, TypeOK
<1>5. ASSUME NEW s \in Sessions, ExpireSession(s) PROVE TypeOK'
    BY <1>5 DEF ExpireSession, TypeOK, SessionRow
<1>6. ASSUME NEW r \in Requests, ExpireRequest(r) PROVE TypeOK'
    BY <1>6 DEF ExpireRequest, TypeOK, AuthReqRow
<1>7. ASSUME NEW f \in Families, ExpireFamily(f) PROVE TypeOK'
    BY <1>7 DEF ExpireFamily, TypeOK, FamilyRow
<1>8. ASSUME NEW a \in Accesses, ExpireAccess(a) PROVE TypeOK'
    BY <1>8 DEF ExpireAccess, TypeOK, AccessRow
<1> QED
    BY <1>1, <1>2, <1>3, <1>4, <1>5, <1>6, <1>7, <1>8 DEF TimeStep

\* Every statement of every handler and revocation keeps the schema's types.
LEMMA TypeStep == ASSUME FilledInv, [Next]_vars PROVE TypeOK'
<1>1. CASE UNCHANGED vars
    BY <1>1 DEF FilledInv, TypeOK, vars
<1> QED
    BY <1>1, LoginType, TokenType, SweepType, OtherType DEF Next

-----------------------------------------------------------------------------
(* Which statements write which table.                                     *)

FamilyWrite ==
    \/ \E h \in Handlers : \/ ReplayRevoke(h) \/ Rotate(h)
                           \/ \E f \in Families, t \in Refreshes, a \in Accesses :
                                 InsertFamily(h, f, t, a)
    \/ \E x \in Refreshes \cup Accesses, c \in Clients : RevokeToken(x, c)
    \/ \E w \in Sweepers : CommitSweep(w)
    \/ \E f \in Families : ExpireFamily(f)

RefreshWrite ==
    \E h \in Handlers : \/ Rotate(h)
                        \/ \E f \in Families, t \in Refreshes, a \in Accesses :
                              InsertFamily(h, f, t, a)

AccessWrite ==
    \/ RefreshWrite
    \/ \E h \in Handlers, a \in Accesses : InsertAccess(h, a)
    \/ \E x \in Refreshes \cup Accesses, c \in Clients : RevokeToken(x, c)
    \/ \E w \in Sweepers : CommitSweep(w)
    \/ \E a \in Accesses : ExpireAccess(a)

AuthReqWrite ==
    \/ \E h \in Handlers : \/ CompleteAuthorization(h)
                           \/ \E r \in Requests : AuthRequestByCode(h, r)
    \/ \E r \in Requests : SaveAuthCode(r) \/ ExpireRequest(r)
    \/ \E r \in Requests, c \in Clients : CreateAuthRequest(r, c)
    \/ \E w \in Sweepers : CommitSweep(w)

SessionWrite ==
    \/ \E h \in Handlers, s \in Sessions : NewSessionInsert(h, s)
    \/ \E w \in Sweepers : CommitSweep(w)
    \/ \E s \in Sessions : ExpireSession(s)

HandlerWrite == \E h \in Handlers : LoginStep(h) \/ TokenStep(h)
SweepWrite == \E w \in Sweepers : SweepStep(w)

\* A step that writes a table is one of the statements named for it.
LEMMA Writers ==
    ASSUME [Next]_vars
    PROVE  /\ FamilyWrite \/ family' = family
           /\ RefreshWrite \/ refresh' = refresh
           /\ AccessWrite \/ access' = access
           /\ AuthReqWrite \/ authReq' = authReq
           /\ SessionWrite \/ session' = session
           /\ HandlerWrite \/ handler' = handler
           /\ SweepWrite \/ sweep' = sweep
<1> DEFINE P == /\ FamilyWrite \/ family' = family
                /\ RefreshWrite \/ refresh' = refresh
                /\ AccessWrite \/ access' = access
                /\ AuthReqWrite \/ authReq' = authReq
                /\ SessionWrite \/ session' = session
                /\ HandlerWrite \/ handler' = handler
                /\ SweepWrite \/ sweep' = sweep
<1>1. ASSUME NEW h \in Handlers, LoginStep(h) PROVE P
    BY <1>1 DEF LoginStep, NewSessionRead, NewSessionInsert, ApproveRead, CompleteAuthorization,
       tables, AuthReqWrite, SessionWrite, HandlerWrite
<1>2. ASSUME NEW h \in Handlers, TokenStep(h) PROVE P
  <2>1. HandlerWrite /\ session' = session /\ sweep' = sweep
    BY <1>2 DEF TokenStep, AuthRequestByCode, DeviceGrant, RefreshLookup, ReplayRevoke,
       ValidateTokenSubject, InsertAccess, InsertFamily, Rotate, Abandon, tables, HandlerWrite
  <2>2. FamilyWrite \/ family' = family
    BY <1>2 DEF TokenStep, AuthRequestByCode, DeviceGrant, RefreshLookup,
       ValidateTokenSubject, InsertAccess, Abandon, tables, FamilyWrite
  <2>3. RefreshWrite \/ refresh' = refresh
    BY <1>2 DEF TokenStep, AuthRequestByCode, DeviceGrant, RefreshLookup, ReplayRevoke,
       ValidateTokenSubject, InsertAccess, Abandon, tables, RefreshWrite
  <2>4. AccessWrite \/ access' = access
    BY <1>2 DEF TokenStep, AuthRequestByCode, DeviceGrant, RefreshLookup, ReplayRevoke,
       ValidateTokenSubject, Abandon, tables, AccessWrite, RefreshWrite
  <2>5. AuthReqWrite \/ authReq' = authReq
    BY <1>2 DEF TokenStep, DeviceGrant, RefreshLookup, ReplayRevoke,
       ValidateTokenSubject, InsertAccess, InsertFamily, Rotate, Abandon, tables, AuthReqWrite
  <2> QED
    BY <2>1, <2>2, <2>3, <2>4, <2>5
<1>3. ASSUME NEW w \in Sweepers, SweepStep(w) PROVE P
  <2>1. SweepWrite
    BY <1>3 DEF SweepWrite
  <2>2. CASE CommitSweep(w)
    BY <2>1, <2>2 DEF CommitSweep, FamilyWrite, AccessWrite, SessionWrite, AuthReqWrite
  <2>3. CASE ~CommitSweep(w)
    BY <1>3, <2>1, <2>3, SweepPhases DEF BeginSweep, RollbackSweep, tables
  <2> QED
    BY <2>2, <2>3
<1>4. ASSUME NEW x \in Refreshes \cup Accesses, NEW c \in Clients, RevokeToken(x, c) PROVE P
  <2>1. FamilyWrite /\ AccessWrite
    BY <1>4 DEF FamilyWrite, AccessWrite
  <2> QED
    BY <1>4, <2>1 DEF RevokeToken
<1>5. CASE \/ \E r \in Requests, c \in Clients : CreateAuthRequest(r, c)
           \/ \E r \in Requests : SaveAuthCode(r)
           \/ \E u \in Identities : Enable(u)
    BY <1>5 DEF CreateAuthRequest, SaveAuthCode, Enable, AuthReqWrite
<1>6. CASE TimeStep
    BY <1>6 DEF TimeStep, ExpireSession, ExpireRequest, ExpireFamily, ExpireAccess,
       FamilyWrite, AccessWrite, AuthReqWrite, SessionWrite
<1>7. CASE UNCHANGED vars
    BY <1>7 DEF vars
<1> QED
    BY <1>1, <1>2, <1>3, <1>4, <1>5, <1>6, <1>7 DEF Next

-----------------------------------------------------------------------------
(* Rows in use stay in use.                                                *)

\* A family in use keeps its owner, and one that is dead stays dead: revoked_at is
\* never cleared and expires_at never moved.
LEMMA FamilyKept ==
    ASSUME FilledInv, [Next]_vars, NEW f \in Families, family[f].st # "unused"
    PROVE  /\ family'[f].st # "unused"
           /\ family'[f].tok = family[f].tok
           /\ family[f].st # "live" => family'[f].st # "live"
<1> DEFINE P == /\ family'[f].st # "unused" /\ family'[f].tok = family[f].tok
                /\ family[f].st # "live" => family'[f].st # "live"
<1>0. family \in [Families -> FamilyRow]
    BY DEF FilledInv, TypeOK
<1>1. ASSUME NEW g, RevokeFamily(g) PROVE P
    BY <1>0, <1>1 DEF RevokeFamily, FamilyRow
<1>2. ASSUME NEW h \in Handlers, ReplayRevoke(h) \/ Rotate(h) PROVE P
    BY <1>1, <1>2 DEF ReplayRevoke, Rotate, RotateConsumes, RotateReplayed, RotateRefused
<1>3. ASSUME NEW h \in Handlers, NEW g \in Families, NEW t \in Refreshes, NEW a \in Accesses,
             InsertFamily(h, g, t, a)
      PROVE P
    BY <1>0, <1>3 DEF InsertFamily
<1>4. ASSUME NEW x \in Refreshes \cup Accesses, NEW c \in Clients, RevokeToken(x, c) PROVE P
    BY <1>1, <1>4 DEF RevokeToken
<1>5. ASSUME NEW w \in Sweepers, CommitSweep(w) PROVE P
    BY <1>0, <1>5 DEF CommitSweep, FamilyRow
<1>6. ASSUME NEW g \in Families, ExpireFamily(g) PROVE P
    BY <1>0, <1>6 DEF ExpireFamily, FamilyRow
<1>7. CASE family' = family
    BY <1>7
<1> QED
    BY <1>2, <1>3, <1>4, <1>5, <1>6, <1>7, Writers DEF FamilyWrite

\* A refresh token in use keeps its family and payload and stays consumed.
LEMMA RefreshKept ==
    ASSUME FilledInv, [Next]_vars, NEW t \in Refreshes, refresh[t].st # "unused"
    PROVE  /\ refresh'[t].st # "unused"
           /\ refresh'[t].tok = refresh[t].tok
           /\ refresh'[t].family = refresh[t].family
           /\ refresh[t].st = "consumed" => refresh'[t].st = "consumed"
<1> DEFINE P == /\ refresh'[t].st # "unused" /\ refresh'[t].tok = refresh[t].tok
                /\ refresh'[t].family = refresh[t].family
                /\ refresh[t].st = "consumed" => refresh'[t].st = "consumed"
<1>0. refresh \in [Refreshes -> RefreshRow]
    BY DEF FilledInv, TypeOK
<1>1. ASSUME NEW h \in Handlers, NEW v \in Refreshes, NEW a \in Accesses,
             RotateConsumes(h, v, a)
      PROVE P
    BY <1>0, <1>1 DEF RotateConsumes, RefreshRow
<1>2. ASSUME NEW h \in Handlers, Rotate(h) PROVE P
    BY <1>1, <1>2 DEF Rotate, RotateReplayed, RotateRefused
<1>3. ASSUME NEW h \in Handlers, NEW g \in Families, NEW v \in Refreshes, NEW a \in Accesses,
             InsertFamily(h, g, v, a)
      PROVE P
    BY <1>0, <1>3 DEF InsertFamily
<1>4. CASE refresh' = refresh
    BY <1>4
<1> QED
    BY <1>2, <1>3, <1>4, Writers DEF RefreshWrite

\* Only CreateAccessAndRefreshTokens brings a family into use, and with its owner.
LEMMA FamilyFilled ==
    ASSUME FilledInv, [Next]_vars, NEW f \in Families, family[f].st = "unused"
    PROVE  \/ family'[f] = family[f]
           \/ family'[f].st # "unused" /\ family'[f].tok \in Payload
<1> DEFINE P == \/ family'[f] = family[f]
                \/ family'[f].st # "unused" /\ family'[f].tok \in Payload
<1>0. family \in [Families -> FamilyRow]
    BY DEF FilledInv, TypeOK
<1>1. ASSUME NEW g \in Families, family[g].st # "unused", RevokeFamily(g) PROVE P
    BY <1>0, <1>1 DEF RevokeFamily
<1>2. ASSUME NEW t \in Refreshes, refresh[t].st # "unused"
      PROVE  refresh[t].family \in Families /\ family[refresh[t].family].st # "unused"
    BY <1>2 DEF FilledInv, RowsFilled
<1>3. ASSUME NEW h \in Handlers, ReplayRevoke(h) PROVE P
    BY <1>1, <1>2, <1>3 DEF ReplayRevoke, FilledInv, HandlerFilled
<1>4. ASSUME NEW h \in Handlers, Rotate(h) PROVE P
    BY <1>1, <1>2, <1>4 DEF Rotate, RotateConsumes, RotateReplayed, RotateRefused
<1>5. ASSUME NEW h \in Handlers, NEW g \in Families, NEW t \in Refreshes, NEW a \in Accesses,
             InsertFamily(h, g, t, a)
      PROVE P
  <2>1. handler[h].tok \in Payload
    BY <1>5 DEF InsertFamily, FilledInv, HandlerFilled
  <2> QED
    BY <1>0, <1>5, <2>1 DEF InsertFamily
<1>6. ASSUME NEW x \in Refreshes \cup Accesses, NEW c \in Clients, RevokeToken(x, c) PROVE P
    BY <1>1, <1>2, <1>6 DEF RevokeToken
<1>7. ASSUME NEW w \in Sweepers, CommitSweep(w) PROVE P
    BY <1>7 DEF CommitSweep, FilledInv, SweepFilled
<1>8. ASSUME NEW g \in Families, ExpireFamily(g) PROVE P
    BY <1>0, <1>8 DEF ExpireFamily
<1>9. CASE family' = family
    BY <1>9
<1> QED
    BY <1>3, <1>4, <1>5, <1>6, <1>7, <1>8, <1>9, Writers DEF FamilyWrite

\* A refresh token is inserted with its payload, into a family in use.
LEMMA RefreshFilled ==
    ASSUME FilledInv, [Next]_vars, NEW t \in Refreshes, refresh[t].st = "unused"
    PROVE  \/ refresh'[t] = refresh[t]
           \/ /\ refresh'[t].tok \in Payload
              /\ refresh'[t].family \in Families
              /\ family'[refresh'[t].family].st # "unused"
<1> DEFINE P == \/ refresh'[t] = refresh[t]
                \/ /\ refresh'[t].tok \in Payload
                   /\ refresh'[t].family \in Families
                   /\ family'[refresh'[t].family].st # "unused"
<1>0. refresh \in [Refreshes -> RefreshRow] /\ family \in [Families -> FamilyRow]
    BY DEF FilledInv, TypeOK
<1>1. ASSUME NEW h \in Handlers, Rotate(h), NEW v \in Refreshes, NEW a \in Accesses,
             RotateConsumes(h, v, a)
      PROVE P
  <2> DEFINE old == handler[h].ref
  <2>1. /\ old \in Refreshes /\ handler[h].tok \in Payload
        /\ refresh[old].family \in Families /\ family[refresh[old].family].st # "unused"
    BY <1>1 DEF Rotate, RotateConsumes, FilledInv, HandlerFilled, RowsFilled
  <2>2. family' = family
    BY <1>1 DEF RotateConsumes
  <2>3. CASE t = v
    <3>1. refresh'[t] = NewRefresh(refresh[old].family, handler[h].tok)
      BY <1>0, <1>1, <2>3 DEF RotateConsumes
    <3> QED
      BY <2>1, <2>2, <3>1 DEF NewRefresh
  <2>4. CASE t # v
    BY <1>0, <1>1, <2>4 DEF RotateConsumes
  <2> QED
    BY <2>3, <2>4
<1>2. ASSUME NEW h \in Handlers, Rotate(h) PROVE P
    BY <1>1, <1>2 DEF Rotate, RotateReplayed, RotateRefused
<1>3. ASSUME NEW h \in Handlers, NEW g \in Families, NEW v \in Refreshes, NEW a \in Accesses,
             InsertFamily(h, g, v, a)
      PROVE P
  <2>1. handler[h].tok \in Payload
    BY <1>3 DEF InsertFamily, FilledInv, HandlerFilled
  <2> QED
    BY <1>0, <1>3, <2>1 DEF InsertFamily, NewRefresh
<1>4. CASE refresh' = refresh
    BY <1>4
<1> QED
    BY <1>2, <1>3, <1>4, Writers DEF RefreshWrite

\* Rows keep the columns their state promises.
LEMMA RowsStep == ASSUME FilledInv, [Next]_vars PROVE RowsFilled'
<1>0. TypeOK
    BY DEF FilledInv
<1>1. ASSUME NEW s \in Sessions, session'[s].st # "unused" PROVE session'[s].owner \in Identities
  <2>1. ASSUME NEW h \in Handlers, NEW v \in Sessions, NewSessionInsert(h, v)
        PROVE  session'[s].owner \in Identities
    BY <1>0, <1>1, <2>1 DEF NewSessionInsert, FilledInv, RowsFilled, HandlerFilled, TypeOK
  <2>2. ASSUME NEW w \in Sweepers, CommitSweep(w) PROVE session'[s].owner \in Identities
    <3>1. /\ sweep[w].kind \in SweepKind /\ session[s] \in SessionRow
          /\ \A v \in sweep[w].sess : session[v].st # "unused"
      BY <1>0, <2>2 DEF CommitSweep, InFlight, TypeOK, SweepState, FilledInv, SweepFilled
    <3>2. RevokedBy(sweep[w].kind, session[s]).owner = session[s].owner
      BY <3>1, RevokedRow
    <3> QED
      BY <1>0, <1>1, <2>2, <3>1, <3>2 DEF CommitSweep, FilledInv, RowsFilled, TypeOK
  <2>3. ASSUME NEW v \in Sessions, ExpireSession(v) PROVE session'[s].owner \in Identities
    BY <1>0, <1>1, <2>3 DEF ExpireSession, FilledInv, RowsFilled, TypeOK, SessionRow
  <2>4. CASE session' = session
    BY <1>1, <2>4 DEF FilledInv, RowsFilled
  <2> QED
    BY <2>1, <2>2, <2>3, <2>4, Writers DEF SessionWrite
<1> DEFINE Req(r) ==
        /\ authReq[r].st # "unused" => authReq[r].client \in Clients
        /\ authReq[r].st \in {"authenticated", "coded"} => authReq[r].tok \in Payload
<1>2. ASSUME NEW r \in Requests PROVE Req(r)'
  <2>0. Req(r) /\ authReq \in [Requests -> AuthReqRow]
    BY DEF FilledInv, RowsFilled, TypeOK
  <2>1. ASSUME NEW h \in Handlers, CompleteAuthorization(h) PROVE Req(r)'
    <3>1. handler[h].ref \in Requests /\ handler[h].tok \in Payload
      BY <2>1 DEF CompleteAuthorization, FilledInv, HandlerFilled
    <3> QED
      BY <2>0, <2>1, <3>1 DEF CompleteAuthorization, AuthReqRow
  <2>2. ASSUME NEW h \in Handlers, NEW q \in Requests, AuthRequestByCode(h, q) PROVE Req(r)'
    BY <2>0, <2>2 DEF AuthRequestByCode, AuthReqRow
  <2>3. ASSUME NEW q \in Requests, SaveAuthCode(q) \/ ExpireRequest(q) PROVE Req(r)'
    BY <2>0, <2>3 DEF SaveAuthCode, ExpireRequest, AuthReqRow
  <2>4. ASSUME NEW q \in Requests, NEW c \in Clients, CreateAuthRequest(q, c) PROVE Req(r)'
    BY <2>0, <2>4 DEF CreateAuthRequest, AuthReqRow
  <2>5. ASSUME NEW w \in Sweepers, CommitSweep(w) PROVE Req(r)'
    <3>1. /\ authReq'[r].client = authReq[r].client /\ authReq'[r].tok = authReq[r].tok
          /\ authReq'[r].st = authReq[r].st \/ VoidedRequest(sweep[w], authReq[r])
      BY <2>0, <2>5 DEF CommitSweep, AuthReqRow
    <3>2. VoidedRequest(sweep[w], authReq[r]) => authReq[r].st \in {"authenticated", "coded"}
      BY DEF VoidedRequest
    <3> QED
      BY <2>0, <3>1, <3>2
  <2>6. CASE authReq' = authReq
    BY <2>0, <2>6
  <2> QED
    BY <2>1, <2>2, <2>3, <2>4, <2>5, <2>6, Writers DEF AuthReqWrite
<1>3. ASSUME NEW f \in Families
      PROVE  /\ family'[f].st # "unused" => family'[f].tok \in Payload
             /\ family'[f].st = "unused" => family'[f].tok = None
    BY FamilyKept, FamilyFilled DEF FilledInv, RowsFilled
<1>4. ASSUME NEW t \in Refreshes, refresh'[t].st # "unused"
      PROVE  /\ refresh'[t].tok \in Payload
             /\ refresh'[t].family \in Families
             /\ family'[refresh'[t].family].st # "unused"
  <2>1. CASE refresh[t].st = "unused"
    BY <1>4, <2>1, RefreshFilled
  <2>2. CASE refresh[t].st # "unused"
    BY <2>2, RefreshKept, FamilyKept DEF FilledInv, RowsFilled
  <2> QED
    BY <2>1, <2>2
<1> QED
    BY <1>1, <1>2, <1>3, <1>4 DEF RowsFilled

\* A handler that has finished satisfies every claim about handlers at work.
LEMMA HandlerStep == ASSUME FilledInv, [Next]_vars PROVE HandlerFilled'
<1> DEFINE P(k, R) ==
        /\ k.pc = "login" => k.ref \in Identities
        /\ k.pc = "approve" => k.ref \in Requests /\ k.tok \in Payload
        /\ k.pc \in {"lookup", "replay"} => k.ref \in Refreshes /\ R[k.ref].st # "unused"
        /\ k.pc \in {"lookup", "create", "insert"} => k.tok \in Payload
        /\ k.pc \in {"create", "insert"} =>
              \/ k.ref \in Requests \cup {None}
              \/ k.ref \in Refreshes /\ R[k.ref].st # "unused"
<1>1. SUFFICES ASSUME NEW k \in Handlers PROVE P(handler'[k], refresh')
    BY DEF HandlerFilled
<1>2. ASSUME NEW v \in Handlers PROVE P(handler[v], refresh)
    BY DEF FilledInv, HandlerFilled
<1>3. ASSUME NEW s, P(s, refresh) PROVE P(s, refresh')
    BY <1>3, RefreshKept
<1>4. P(Idle, refresh')
    BY DEF Idle
<1>5. CASE handler'[k] = handler[k]
    BY <1>2, <1>3, <1>5
<1>6. CASE handler'[k] = Idle
    BY <1>4, <1>6
<1>7. ASSUME NEW s, P(s, refresh), handler' = [handler EXCEPT ![k] = s]
      PROVE  P(handler'[k], refresh')
    BY <1>3, <1>7 DEF FilledInv, TypeOK
<1>8. CASE LoginStep(k)
  <2>1. ASSUME NEW u \in Identities, NewSessionRead(k, u) PROVE P(handler'[k], refresh')
    BY <1>7, <2>1 DEF NewSessionRead
  <2>2. ASSUME NEW r \in Requests, NEW s \in Sessions, ApproveRead(k, r, s)
        PROVE  P(handler'[k], refresh')
    <3>1. [client |-> authReq[r].client, subject |-> session[s].owner, sid |-> s] \in Payload
      BY <2>2 DEF ApproveRead, FilledInv, RowsFilled, Payload
    <3> QED
      BY <1>7, <2>2, <3>1 DEF ApproveRead
  <2>3. CASE CompleteAuthorization(k) \/ \E s \in Sessions : NewSessionInsert(k, s)
    BY <1>6, <2>3 DEF CompleteAuthorization, NewSessionInsert, FilledInv, TypeOK
  <2> QED
    BY <1>8, <2>1, <2>2, <2>3 DEF LoginStep
<1>9. CASE TokenStep(k)
  <2>1. ASSUME NEW r \in Requests, AuthRequestByCode(k, r) PROVE P(handler'[k], refresh')
    BY <1>7, <2>1 DEF AuthRequestByCode, FilledInv, RowsFilled
  <2>2. ASSUME NEW u \in Identities, NEW c \in Clients, DeviceGrant(k, u, c)
        PROVE  P(handler'[k], refresh')
    <3>1. [client |-> c, subject |-> u, sid |-> None] \in Payload
      BY DEF Payload
    <3> QED
      BY <1>7, <2>2, <3>1 DEF DeviceGrant
  <2>3. ASSUME NEW t \in Refreshes, RefreshLookup(k, t) PROVE P(handler'[k], refresh')
    <3>1. refresh[t].tok \in Payload /\ refresh[t].st # "unused"
      BY <2>3 DEF RefreshLookup, FilledInv, RowsFilled
    <3> DEFINE pc == IF refresh[t].st = "consumed" THEN "replay" ELSE "lookup"
    <3>2. P([pc |-> pc, ref |-> t, tok |-> refresh[t].tok], refresh)
      BY <3>1
    <3> HIDE DEF P
    <3> QED
      BY <1>7, <2>3, <3>2 DEF RefreshLookup
  <2>4. ASSUME ValidateTokenSubject(k) PROVE P(handler'[k], refresh')
    <3>1. CASE handler'[k] = Idle
      BY <1>6, <3>1
    <3>2. CASE /\ handler'[k].ref = handler[k].ref /\ handler'[k].tok = handler[k].tok
               /\ handler[k].pc \in {"lookup", "create"} /\ handler'[k].pc \in {"create", "insert"}
      BY <1>2, <3>2, RefreshKept
    <3>3. handler[k] \in HandlerState /\ handler \in [Handlers -> HandlerState]
      BY DEF FilledInv, TypeOK
    <3> HIDE DEF P
    <3> QED
      BY <2>4, <3>1, <3>2, <3>3 DEF ValidateTokenSubject, HandlerState
  <2>5. CASE \/ ReplayRevoke(k) \/ Rotate(k) \/ Abandon(k)
             \/ \E a \in Accesses : InsertAccess(k, a)
             \/ \E f \in Families, t \in Refreshes, a \in Accesses : InsertFamily(k, f, t, a)
    <3>1. handler'[k] = Idle
      BY <2>5 DEF ReplayRevoke, Rotate, Abandon, InsertAccess, InsertFamily, FilledInv, TypeOK
    <3> QED
      BY <1>6, <3>1
  <2> QED
    BY <1>9, <2>1, <2>2, <2>3, <2>4, <2>5 DEF TokenStep
<1>10. ASSUME NEW h \in Handlers, h # k, LoginStep(h) \/ TokenStep(h)
       PROVE  handler'[k] = handler[k]
    BY <1>10 DEF LoginStep, TokenStep, NewSessionRead, NewSessionInsert, ApproveRead,
       CompleteAuthorization, AuthRequestByCode, DeviceGrant, RefreshLookup, ReplayRevoke,
       ValidateTokenSubject, InsertAccess, InsertFamily, Rotate, Abandon, FilledInv, TypeOK
<1> HIDE DEF P
<1> QED
    BY <1>5, <1>8, <1>9, <1>10, Writers DEF HandlerWrite

\* A session in use stays in use with its owner, only a fresh login makes one
\* live, and revoked_at is set once.
LEMMA SessionKept ==
    ASSUME FilledInv, [Next]_vars, NEW s \in Sessions, session[s].st # "unused"
    PROVE  /\ session'[s].st # "unused"
           /\ session'[s].owner = session[s].owner
           /\ session'[s].st = "live" => session[s].st = "live"
           /\ session[s].st = "revoked" => session'[s] = session[s]
<1> DEFINE P == /\ session'[s].st # "unused" /\ session'[s].owner = session[s].owner
                /\ session'[s].st = "live" => session[s].st = "live"
                /\ session[s].st = "revoked" => session'[s] = session[s]
<1>0. session \in [Sessions -> SessionRow]
    BY DEF FilledInv, TypeOK
<1>1. ASSUME NEW h \in Handlers, NEW v \in Sessions, NewSessionInsert(h, v) PROVE P
    BY <1>0, <1>1 DEF NewSessionInsert
<1>2. ASSUME NEW w \in Sweepers, CommitSweep(w) PROVE P
  <2>1. sweep[w].kind \in SweepKind /\ session[s] \in SessionRow
    BY <1>0, <1>2 DEF CommitSweep, InFlight, FilledInv, TypeOK, SweepState
  <2>2. /\ RevokedBy(sweep[w].kind, session[s]).st = "revoked"
        /\ RevokedBy(sweep[w].kind, session[s]).owner = session[s].owner
        /\ session[s].st = "revoked" => RevokedBy(sweep[w].kind, session[s]) = session[s]
    BY <2>1, RevokedRow
  <2> QED
    BY <1>0, <1>2, <2>2 DEF CommitSweep
<1>3. ASSUME NEW v \in Sessions, ExpireSession(v) PROVE P
    BY <1>0, <1>3 DEF ExpireSession, SessionRow
<1>4. CASE session' = session
    BY <1>4
<1> QED
    BY <1>1, <1>2, <1>3, <1>4, Writers DEF SessionWrite

\* A revocation selects families and sessions by their owner, so only rows in use.
LEMMA SweepFilledStep == ASSUME FilledInv, [Next]_vars PROVE SweepFilled'
<1> DEFINE P(m, F, S) == /\ m.kind # "idle" => m.subject \in Identities
                         /\ \A s \in m.sess : S[s].st # "unused" /\ S[s].owner = m.subject
                         /\ \A f \in m.fams : F[f].st # "unused"
<1>1. SUFFICES ASSUME NEW v \in Sweepers PROVE P(sweep'[v], family', session')
    BY DEF SweepFilled
<1>2. ASSUME NEW m \in SweepState, P(m, family, session) PROVE P(m, family', session')
  <2>1. \A f \in m.fams : family'[f].st # "unused"
    BY <1>2, FamilyKept DEF SweepState
  <2>2. \A s \in m.sess : session'[s].st # "unused" /\ session'[s].owner = m.subject
    BY <1>2, SessionKept DEF SweepState
  <2> QED
    BY <1>2, <2>1, <2>2
<1>3. P(sweep[v], family, session) /\ sweep[v] \in SweepState
    BY DEF FilledInv, SweepFilled, TypeOK
<1>4. CASE sweep'[v] = sweep[v]
    BY <1>2, <1>3, <1>4
<1>5. CASE sweep'[v] = IdleSweep
    BY <1>5 DEF IdleSweep
<1>6. ASSUME NEW w \in Sweepers, NEW m \in SweepState, Named(m), BeginSweep(w, m)
      PROVE  P(sweep'[v], family', session')
  <2> DEFINE n == sweep'[w]
  <2>1. /\ n \in SweepState /\ n.subject = m.subject /\ n.kind = m.kind
        /\ n.sess = {s \in Sessions : SweptSession(m, s)}
        /\ n.fams = {f \in Families : Selects(m, family[f].tok)}
        /\ \A x \in Sweepers \ {w} : sweep'[x] = sweep[x]
    BY <1>6, BegunRow DEF FilledInv
  <2> HIDE DEF n
  <2>2. \A f \in n.fams : family[f].st # "unused"
    BY <2>1 DEF FilledInv, RowsFilled, Selects
  <2>3. \A s \in n.sess : session[s].st # "unused" /\ session[s].owner = n.subject
    BY <2>1 DEF SweptSession
  <2>4. n.subject \in Identities
    BY <1>6, <2>1 DEF Named
  <2>5. P(n, family', session')
    BY <1>2, <2>1, <2>2, <2>3, <2>4
  <2> HIDE DEF P
  <2> QED
    BY <1>4, <2>1, <2>5 DEF n
<1>7. ASSUME NEW w \in Sweepers, SweepStep(w) PROVE P(sweep'[v], family', session')
  <2>1. CASE CommitSweep(w) \/ RollbackSweep(w)
    <3>1. sweep'[v] \in {sweep[v], IdleSweep}
      BY <2>1 DEF CommitSweep, RollbackSweep, FilledInv, TypeOK
    <3> QED
      BY <1>4, <1>5, <3>1
  <2> HIDE DEF P
  <2> QED
    BY <1>6, <1>7, <2>1, SweepBegins
<1> HIDE DEF P
<1> QED
    BY <1>4, <1>7, Writers DEF SweepWrite

\* The rows, handlers and revocations are well formed initially and for ever.
LEMMA Filled == Spec => []FilledInv
<1>1. Init => FilledInv
  <2>1. Init => TypeOK
    BY DEF Init, TypeOK, SessionRow, AuthReqRow, FamilyRow, RefreshRow, AccessRow,
       HandlerState, SweepState, Idle, IdleSweep
  <2>2. Init => RowsFilled /\ HandlerFilled /\ SweepFilled
    BY DEF Init, RowsFilled, HandlerFilled, SweepFilled, Idle, IdleSweep
  <2> QED
    BY <2>1, <2>2 DEF FilledInv
<1>2. FilledInv /\ [Next]_vars => FilledInv'
    BY TypeStep, RowsStep, HandlerStep, SweepFilledStep DEF FilledInv
<1> QED
    BY <1>1, <1>2, PTL DEF Spec

\* The tables, the handlers' local variables and the revocations in flight keep
\* their types under every interleaving.
THEOREM TypeCorrect == Spec => []TypeOK
<1>1. FilledInv => TypeOK
    BY DEF FilledInv
<1> QED
    BY <1>1, Filled, PTL

-----------------------------------------------------------------------------
(* Every code and every refresh token mints once.                          *)

\* Handler h has burned the code of r and has not finished with it.
Redeems(h, r) == handler[h].pc \in {"create", "insert"} /\ handler[h].ref = r

\* What a code or a refresh token has minted it can not mint again: it is consumed,
\* and whoever consumed it has not minted yet or is done.
MintInv ==
    /\ \A a \in Accesses :
          /\ access[a].grant \in Requests => authReq[access[a].grant].st = "consumed"
          /\ access[a].grant \in Refreshes => refresh[access[a].grant].st = "consumed"
    /\ \A h \in Handlers, r \in Requests :
          Redeems(h, r) => /\ authReq[r].st = "consumed"
                           /\ \A a \in Accesses : access[a].grant # r
                           /\ \A k \in Handlers : Redeems(k, r) => k = h
    /\ GrantMintsOnce

\* consumed_at is never cleared.
LEMMA ConsumedKept ==
    ASSUME FilledInv, [Next]_vars, NEW r \in Requests, authReq[r].st = "consumed"
    PROVE  authReq'[r].st = "consumed"
<1>0. authReq \in [Requests -> AuthReqRow]
    BY DEF FilledInv, TypeOK
<1>1. ASSUME NEW h \in Handlers, CompleteAuthorization(h) PROVE authReq'[r].st = "consumed"
    BY <1>0, <1>1 DEF CompleteAuthorization, AuthReqRow
<1>2. ASSUME NEW h \in Handlers, NEW q \in Requests, AuthRequestByCode(h, q)
      PROVE  authReq'[r].st = "consumed"
    BY <1>0, <1>2 DEF AuthRequestByCode, AuthReqRow
<1>3. ASSUME NEW q \in Requests, SaveAuthCode(q) \/ ExpireRequest(q)
      PROVE  authReq'[r].st = "consumed"
    BY <1>0, <1>3 DEF SaveAuthCode, ExpireRequest, AuthReqRow
<1>4. ASSUME NEW q \in Requests, NEW c \in Clients, CreateAuthRequest(q, c)
      PROVE  authReq'[r].st = "consumed"
    BY <1>0, <1>4 DEF CreateAuthRequest
<1>5. ASSUME NEW w \in Sweepers, CommitSweep(w) PROVE authReq'[r].st = "consumed"
    BY <1>0, <1>5 DEF CommitSweep, AuthReqRow
<1> QED
    BY <1>1, <1>2, <1>3, <1>4, <1>5, Writers DEF AuthReqWrite

\* A handler redeems a code only after burning it.
LEMMA RedeemSource ==
    ASSUME FilledInv, [Next]_vars, NEW h \in Handlers, NEW r \in Requests, Redeems(h, r)'
    PROVE  Redeems(h, r) \/ AuthRequestByCode(h, r)
<1> DEFINE P == Redeems(h, r) \/ AuthRequestByCode(h, r)
<1>0. /\ handler \in [Handlers -> HandlerState] /\ handler[h] \in HandlerState
      /\ r # None /\ r \notin Refreshes
    BY FreshIdsAssumption DEF FilledInv, TypeOK
<1>1. CASE handler'[h] = handler[h]
    BY <1>1 DEF Redeems
<1>2. CASE handler'[h] = Idle
    BY <1>2 DEF Redeems, Idle
<1>3. CASE LoginStep(h)
    BY <1>0, <1>2, <1>3 DEF LoginStep, NewSessionRead, NewSessionInsert, ApproveRead,
       CompleteAuthorization, Redeems
<1>4. CASE TokenStep(h)
  <2>1. ASSUME NEW q \in Requests, AuthRequestByCode(h, q) PROVE P
    BY <1>0, <2>1 DEF AuthRequestByCode, Redeems
  <2>2. ASSUME NEW u \in Identities, NEW c \in Clients, DeviceGrant(h, u, c) PROVE P
    BY <1>0, <2>2 DEF DeviceGrant, Redeems
  <2>3. ASSUME NEW t \in Refreshes, RefreshLookup(h, t) PROVE P
    BY <1>0, <2>3 DEF RefreshLookup, Redeems
  <2>4. ASSUME ValidateTokenSubject(h) PROVE P
    <3>1. CASE handler[h].pc = "lookup"
      <4>1. handler[h].ref \in Refreshes
        BY <3>1 DEF FilledInv, HandlerFilled
      <4>2. handler'[h].ref = handler[h].ref \/ handler'[h] = Idle
        BY <1>0, <2>4 DEF ValidateTokenSubject, HandlerState
      <4> QED
        BY <1>0, <1>2, <4>1, <4>2 DEF Redeems
    <3>2. CASE handler[h].pc = "create"
      <4>1. handler'[h].ref = handler[h].ref \/ handler'[h] = Idle
        BY <1>0, <2>4 DEF ValidateTokenSubject, HandlerState
      <4> QED
        BY <1>2, <3>2, <4>1 DEF Redeems
    <3> QED
      BY <2>4, <3>1, <3>2 DEF ValidateTokenSubject
  <2>5. CASE \/ ReplayRevoke(h) \/ Rotate(h) \/ Abandon(h)
             \/ \E a \in Accesses : InsertAccess(h, a)
             \/ \E f \in Families, t \in Refreshes, a \in Accesses : InsertFamily(h, f, t, a)
    BY <1>0, <1>2, <2>5 DEF ReplayRevoke, Rotate, Abandon, InsertAccess, InsertFamily
  <2> QED
    BY <1>4, <2>1, <2>2, <2>3, <2>4, <2>5 DEF TokenStep
<1>5. ASSUME NEW k \in Handlers, k # h, LoginStep(k) \/ TokenStep(k)
      PROVE  handler'[h] = handler[h]
    BY <1>0, <1>5 DEF LoginStep, TokenStep, NewSessionRead, NewSessionInsert, ApproveRead,
       CompleteAuthorization, AuthRequestByCode, DeviceGrant, RefreshLookup, ReplayRevoke,
       ValidateTokenSubject, InsertAccess, InsertFamily, Rotate, Abandon
<1> QED
    BY <1>1, <1>3, <1>4, <1>5, Writers DEF HandlerWrite

\* Handler h inserts access token a for its grant and finishes.
Mints(h, a) ==
    /\ handler[h].pc = "insert"
    /\ access'[a].grant = handler[h].ref
    /\ \A b \in Accesses : b # a => access'[b].grant = access[b].grant
    /\ handler'[h] = Idle
    /\ \/ handler[h].ref \in Requests \cup {None} /\ authReq' = authReq
       \/ /\ handler[h].ref \in Refreshes
          /\ refresh[handler[h].ref].st = "fresh" /\ refresh'[handler[h].ref].st = "consumed"

\* A step mints one access token or leaves every token's grant alone.
LEMMA MintOrKeep ==
    ASSUME FilledInv, [Next]_vars
    PROVE  \/ \E h \in Handlers, a \in Accesses : Mints(h, a)
           \/ \A b \in Accesses : access'[b].grant = access[b].grant
<1> DEFINE P == \/ \E h \in Handlers, a \in Accesses : Mints(h, a)
                \/ \A b \in Accesses : access'[b].grant = access[b].grant
<1>0. /\ access \in [Accesses -> AccessRow] /\ refresh \in [Refreshes -> RefreshRow]
      /\ handler \in [Handlers -> HandlerState]
    BY DEF FilledInv, TypeOK
<1>1. ASSUME NEW h \in Handlers, handler[h].pc = "insert", handler[h].ref \notin Refreshes
      PROVE  handler[h].ref \in Requests \cup {None}
    BY <1>1 DEF FilledInv, HandlerFilled
<1>2. ASSUME NEW h \in Handlers, NEW a \in Accesses, InsertAccess(h, a) PROVE P
  <2>1. Mints(h, a)
    BY <1>0, <1>1, <1>2 DEF InsertAccess, NewAccess, Mints
  <2> QED
    BY <2>1
<1>3. ASSUME NEW h \in Handlers, NEW f \in Families, NEW t \in Refreshes, NEW a \in Accesses,
             InsertFamily(h, f, t, a)
      PROVE P
  <2>1. Mints(h, a)
    BY <1>0, <1>1, <1>3 DEF InsertFamily, NewAccess, Mints
  <2> QED
    BY <2>1
<1>4. ASSUME NEW h \in Handlers, Rotate(h) PROVE P
  <2>1. ASSUME NEW t \in Refreshes, NEW a \in Accesses, RotateConsumes(h, t, a) PROVE P
    <3>1. /\ handler[h].ref \in Refreshes /\ handler[h].pc = "insert" /\ handler'[h] = Idle
      BY <1>0, <1>4 DEF Rotate
    <3>2. /\ access'[a].grant = handler[h].ref
          /\ \A b \in Accesses : b # a => access'[b].grant = access[b].grant
      BY <1>0, <2>1 DEF RotateConsumes, NewAccess
    <3>3. refresh[handler[h].ref].st = "fresh" /\ refresh'[handler[h].ref].st = "consumed"
      BY <1>0, <2>1, <3>1 DEF RotateConsumes, RefreshRow
    <3>4. Mints(h, a)
      BY <3>1, <3>2, <3>3 DEF Mints
    <3> QED
      BY <3>4
  <2> QED
    BY <1>4, <2>1 DEF Rotate, RotateReplayed, RotateRefused
<1>5. ASSUME NEW x \in Refreshes \cup Accesses, NEW c \in Clients, RevokeToken(x, c) PROVE P
    BY <1>0, <1>5 DEF RevokeToken, AccessRow
<1>6. ASSUME NEW w \in Sweepers, CommitSweep(w) PROVE P
    BY <1>0, <1>6 DEF CommitSweep, AccessRow
<1>7. ASSUME NEW a \in Accesses, ExpireAccess(a) PROVE P
    BY <1>0, <1>7 DEF ExpireAccess, AccessRow
<1>8. CASE access' = access
    BY <1>8
<1> QED
    BY <1>2, <1>3, <1>4, <1>5, <1>6, <1>7, <1>8, Writers DEF AccessWrite, RefreshWrite

\* Single use is preserved by every step.
LEMMA MintStep == ASSUME FilledInv, MintInv, [Next]_vars PROVE MintInv'
<1>0. Requests \cap Refreshes = {} /\ None \notin Requests /\ None \notin Refreshes
    BY FreshIdsAssumption
<1>1. ASSUME NEW t \in Refreshes, refresh[t].st = "consumed" PROVE refresh'[t].st = "consumed"
    BY <1>1, RefreshKept
<1>2. ASSUME NEW h \in Handlers, NEW a \in Accesses, Mints(h, a) PROVE MintInv'
  <2> DEFINE g == handler[h].ref
  <2>1. ASSUME g \in Requests
        PROVE  /\ Redeems(h, g) /\ authReq[g].st = "consumed"
               /\ \A b \in Accesses : access[b].grant # g
               /\ \A k \in Handlers : Redeems(k, g) => k = h
    BY <1>2, <2>1 DEF Mints, Redeems, MintInv
  <2>2. ASSUME g \in Refreshes PROVE \A b \in Accesses : access[b].grant # g
    BY <1>0, <1>2, <2>2 DEF Mints, MintInv
  <2>3. ASSUME NEW b \in Accesses
        PROVE  /\ access'[b].grant \in Requests => authReq'[access'[b].grant].st = "consumed"
               /\ access'[b].grant \in Refreshes => refresh'[access'[b].grant].st = "consumed"
    <3>1. CASE b = a
      BY <1>0, <1>2, <2>1, <3>1, ConsumedKept DEF Mints
    <3>2. CASE b # a
      BY <1>1, <1>2, <3>2, ConsumedKept DEF Mints, MintInv
    <3> QED
      BY <3>1, <3>2
  <2>4. GrantMintsOnce'
    <3>1. g \in Requests \cup Refreshes \cup {None}
      BY <1>2 DEF Mints
    <3> QED
      BY <1>2, <2>1, <2>2, <3>1 DEF Mints, MintInv, GrantMintsOnce
  <2>5. ASSUME NEW k \in Handlers, NEW r \in Requests, Redeems(k, r)'
        PROVE  /\ authReq'[r].st = "consumed"
               /\ \A b \in Accesses : access'[b].grant # r
               /\ \A j \in Handlers : Redeems(j, r)' => j = k
    <3>1. k # h
      BY <1>2, <2>5 DEF Mints, Redeems, Idle
    <3>2. \A j \in Handlers : Redeems(j, r)' => Redeems(j, r)
      BY <1>2, RedeemSource DEF Mints, AuthRequestByCode, Idle, FilledInv, TypeOK
    <3>3. Redeems(k, r)
      BY <2>5, <3>2
    <3>4. r # g
      BY <2>1, <3>1, <3>3
    <3> QED
      BY <1>2, <3>2, <3>3, <3>4, ConsumedKept DEF Mints, MintInv
  <2> QED
    BY <2>3, <2>4, <2>5 DEF MintInv
<1>3. ASSUME \A b \in Accesses : access'[b].grant = access[b].grant PROVE MintInv'
  <2>1. ASSUME NEW b \in Accesses
        PROVE  /\ access'[b].grant \in Requests => authReq'[access'[b].grant].st = "consumed"
               /\ access'[b].grant \in Refreshes => refresh'[access'[b].grant].st = "consumed"
    BY <1>1, <1>3, ConsumedKept DEF MintInv
  <2>2. GrantMintsOnce'
    BY <1>3 DEF MintInv, GrantMintsOnce
  <2>3. ASSUME NEW h \in Handlers, NEW r \in Requests, AuthRequestByCode(h, r)
        PROVE  /\ authReq[r].st = "coded" /\ authReq'[r].st = "consumed"
               /\ \A k \in Handlers, q \in Requests : AuthRequestByCode(k, q) => k = h
    BY <2>3 DEF AuthRequestByCode, FilledInv, TypeOK, AuthReqRow, HandlerState
  <2>4. ASSUME NEW k \in Handlers, NEW r \in Requests, Redeems(k, r)'
        PROVE  /\ authReq'[r].st = "consumed"
               /\ \A b \in Accesses : access'[b].grant # r
               /\ \A j \in Handlers : Redeems(j, r)' => j = k
    <3>1. CASE Redeems(k, r)
      <4>1. authReq[r].st = "consumed"
        BY <3>1 DEF MintInv
      <4>2. \A j \in Handlers : ~AuthRequestByCode(j, r)
        BY <4>1 DEF AuthRequestByCode
      <4> QED
        BY <1>3, <3>1, <4>1, <4>2, ConsumedKept, RedeemSource DEF MintInv
    <3>2. CASE AuthRequestByCode(k, r)
      <4>1. authReq[r].st = "coded" /\ authReq'[r].st = "consumed"
        BY <2>3, <3>2
      <4>2. \A b \in Accesses : access'[b].grant # r
        BY <1>3, <4>1 DEF MintInv
      <4>3. \A j \in Handlers : ~Redeems(j, r)
        BY <4>1 DEF MintInv
      <4>4. ASSUME NEW j \in Handlers, Redeems(j, r)' PROVE j = k
        BY <2>3, <3>2, <4>3, <4>4, RedeemSource
      <4> QED
        BY <4>1, <4>2, <4>4
    <3> QED
      BY <2>4, <3>1, <3>2, RedeemSource
  <2> QED
    BY <2>1, <2>2, <2>4 DEF MintInv
<1> QED
    BY <1>2, <1>3, MintOrKeep

\* However many token requests present it at the same time, an authorization code
\* or a refresh token mints at most one access token.
THEOREM SingleUse == Spec => []GrantMintsOnce
<1>1. Init => MintInv
    BY FreshIdsAssumption DEF Init, MintInv, GrantMintsOnce, Redeems, Idle
<1>2. FilledInv /\ MintInv /\ [Next]_vars => MintInv'
    BY MintStep
<1>3. MintInv => GrantMintsOnce
    BY DEF MintInv
<1> QED
    BY <1>1, <1>2, <1>3, Filled, PTL DEF Spec

-----------------------------------------------------------------------------
(* Rotation.                                                               *)

\* A handler rotating a refresh token carries that token's payload.
CarriesPayload ==
    \A h \in Handlers :
        handler[h].pc \in {"lookup", "create", "insert"} /\ handler[h].ref \in Refreshes =>
            handler[h].tok = refresh[handler[h].ref].tok

\* A token whose presentation was decided is consumed or belongs to a dead family.
PresentedIsSpent ==
    \A t \in Refreshes :
        presented[t] # 0 => /\ refresh[t].st # "unused"
                            /\ \/ refresh[t].st = "consumed"
                               \/ family[refresh[t].family].st # "live"

AccessInFamily ==
    \A a \in Accesses :
        access[a].family # None => /\ access[a].family \in Families
                                   /\ family[access[a].family].st # "unused"

BindingInv == CarriesPayload /\ AccessInFamily /\ FamilyBinding

\* A refresh token's payload travels with it from the lookup to the rotation.
LEMMA CarriesStep == ASSUME FilledInv, CarriesPayload, [Next]_vars PROVE CarriesPayload'
<1> DEFINE P(s, R) == s.pc \in {"lookup", "create", "insert"} /\ s.ref \in Refreshes =>
                          s.tok = R[s.ref].tok
<1>0. SUFFICES ASSUME NEW h \in Handlers PROVE P(handler'[h], refresh')
    BY DEF CarriesPayload
<1>1. /\ handler \in [Handlers -> HandlerState] /\ handler[h] \in HandlerState
      /\ Requests \cap Refreshes = {} /\ None \notin Refreshes
    BY FreshIdsAssumption DEF FilledInv, TypeOK
<1>2. ASSUME handler'[h].ref = handler[h].ref, handler'[h].tok = handler[h].tok,
             handler[h].pc \in {"lookup", "create", "insert"}
      PROVE  P(handler'[h], refresh')
  <2>1. handler[h].ref \in Refreshes => refresh[handler[h].ref].st # "unused"
    BY <1>1, <1>2 DEF FilledInv, HandlerFilled
  <2> QED
    BY <1>2, <2>1, RefreshKept DEF CarriesPayload
<1>3. CASE handler'[h] = handler[h]
    BY <1>2, <1>3
<1>4. CASE handler'[h] = Idle
    BY <1>4 DEF Idle
<1>5. CASE LoginStep(h)
    BY <1>1, <1>4, <1>5 DEF LoginStep, NewSessionRead, NewSessionInsert, ApproveRead,
       CompleteAuthorization
<1>6. CASE TokenStep(h)
  <2>1. ASSUME NEW q \in Requests, AuthRequestByCode(h, q) PROVE P(handler'[h], refresh')
    BY <1>1, <2>1 DEF AuthRequestByCode
  <2>2. ASSUME NEW u \in Identities, NEW c \in Clients, DeviceGrant(h, u, c)
        PROVE  P(handler'[h], refresh')
    BY <1>1, <2>2 DEF DeviceGrant
  <2>3. ASSUME NEW t \in Refreshes, RefreshLookup(h, t) PROVE P(handler'[h], refresh')
    BY <1>1, <2>3 DEF RefreshLookup, tables
  <2>4. ASSUME ValidateTokenSubject(h) PROVE P(handler'[h], refresh')
    <3>1. \/ handler'[h] = Idle
          \/ /\ handler'[h].ref = handler[h].ref /\ handler'[h].tok = handler[h].tok
             /\ handler[h].pc \in {"lookup", "create"}
      BY <1>1, <2>4 DEF ValidateTokenSubject, HandlerState
    <3> QED
      BY <1>2, <1>4, <3>1
  <2>5. CASE \/ ReplayRevoke(h) \/ Rotate(h) \/ Abandon(h)
             \/ \E a \in Accesses : InsertAccess(h, a)
             \/ \E f \in Families, t \in Refreshes, a \in Accesses : InsertFamily(h, f, t, a)
    <3>1. handler'[h] = Idle
      BY <1>1, <2>5 DEF ReplayRevoke, Rotate, Abandon, InsertAccess, InsertFamily
    <3> QED
      BY <1>4, <3>1
  <2> HIDE DEF P
  <2> QED
    BY <1>6, <2>1, <2>2, <2>3, <2>4, <2>5 DEF TokenStep
<1>7. ASSUME NEW k \in Handlers, k # h, LoginStep(k) \/ TokenStep(k)
      PROVE  handler'[h] = handler[h]
    BY <1>1, <1>7 DEF LoginStep, TokenStep, NewSessionRead, NewSessionInsert, ApproveRead,
       CompleteAuthorization, AuthRequestByCode, DeviceGrant, RefreshLookup, ReplayRevoke,
       ValidateTokenSubject, InsertAccess, InsertFamily, Rotate, Abandon
<1> HIDE DEF P
<1> QED
    BY <1>3, <1>5, <1>6, <1>7, Writers DEF HandlerWrite

\* Handler h consumes the refresh token it holds and inserts t and a in its place.
Rotates(h, t, a) ==
    LET old == handler[h].ref
        f   == refresh[old].family
    IN  /\ old \in Refreshes /\ f \in Families /\ old # t
        /\ refresh[old].st = "fresh" /\ family[f].st = "live"
        /\ refresh'[old].st = "consumed"
        /\ refresh'[t] = [st |-> "fresh", family |-> f, tok |-> family[f].tok]
        /\ \A v \in Refreshes \ {old, t} : refresh'[v] = refresh[v]
        /\ access'[a] = [st |-> "live", family |-> f, tok |-> family[f].tok, grant |-> old]
        /\ \A b \in Accesses \ {a} : access'[b] = access[b]
        /\ family' = family

\* That is all a successful rotation does to the three tables.
LEMMA Rotation ==
    ASSUME FilledInv, BindingInv, NEW h \in Handlers, Rotate(h),
           NEW t \in Refreshes, NEW a \in Accesses, RotateConsumes(h, t, a)
    PROVE  Rotates(h, t, a)
<1> DEFINE old == handler[h].ref
           f == refresh[old].family
<1>1. old \in Refreshes /\ refresh[old].st = "fresh" /\ refresh[t].st = "unused"
    BY DEF Rotate, RotateConsumes
<1>2. f \in Families /\ family[f].st = "live" /\ family' = family
    BY <1>1 DEF FilledInv, RowsFilled, RotateConsumes
<1>3. handler[h].tok = family[f].tok
    BY <1>1 DEF Rotate, BindingInv, CarriesPayload, FamilyBinding
<1>4. refresh \in [Refreshes -> RefreshRow] /\ access \in [Accesses -> AccessRow]
    BY DEF FilledInv, TypeOK
<1>5. /\ refresh'[old].st = "consumed"
      /\ refresh'[t] = [st |-> "fresh", family |-> f, tok |-> family[f].tok]
      /\ \A v \in Refreshes \ {old, t} : refresh'[v] = refresh[v]
    BY <1>1, <1>3, <1>4 DEF RotateConsumes, NewRefresh, RefreshRow
<1>6. /\ access'[a] = [st |-> "live", family |-> f, tok |-> family[f].tok, grant |-> old]
      /\ \A b \in Accesses \ {a} : access'[b] = access[b]
    BY <1>3, <1>4 DEF RotateConsumes, NewAccess
<1> QED
    BY <1>1, <1>2, <1>5, <1>6 DEF Rotates

\* Handler h starts family f with refresh token t and access token a.
Starts(h, f, t, a) ==
    /\ family[f].st = "unused" /\ refresh[t].st = "unused"
    /\ family'[f] = [st |-> "live", tok |-> handler[h].tok]
    /\ refresh'[t] = [st |-> "fresh", family |-> f, tok |-> handler[h].tok]
    /\ \A v \in Refreshes \ {t} : refresh'[v] = refresh[v]
    /\ access'[a].family = f /\ access'[a].tok = handler[h].tok /\ access'[a].st = "live"
    /\ \A b \in Accesses \ {a} : access'[b] = access[b]

\* That is all the first tokens of a family do to the three tables.
LEMMA NewFamily ==
    ASSUME FilledInv, NEW h \in Handlers, NEW f \in Families, NEW t \in Refreshes,
           NEW a \in Accesses, InsertFamily(h, f, t, a)
    PROVE  Starts(h, f, t, a)
<1>1. /\ refresh \in [Refreshes -> RefreshRow] /\ access \in [Accesses -> AccessRow]
      /\ family \in [Families -> FamilyRow]
    BY DEF FilledInv, TypeOK
<1> QED
    BY <1>1 DEF InsertFamily, NewRefresh, NewAccess, Starts

\* A step starts a family, rotates, or leaves the refresh tokens alone; in the last
\* case an access token keeps family and payload or is inserted without a family.
LEMMA StartRotateOrKeep ==
    ASSUME FilledInv, [Next]_vars
    PROVE  \/ \E h \in Handlers, f \in Families, t \in Refreshes, a \in Accesses :
                 InsertFamily(h, f, t, a)
           \/ \E h \in Handlers, t \in Refreshes, a \in Accesses :
                 Rotate(h) /\ RotateConsumes(h, t, a)
           \/ /\ refresh' = refresh
              /\ \A b \in Accesses :
                    \/ access'[b].family = None
                    \/ /\ access'[b].family = access[b].family /\ access'[b].tok = access[b].tok
                       /\ access'[b].st = "live" => access[b].st = "live"
<1> DEFINE Keep == \A b \in Accesses :
              \/ access'[b].family = None
              \/ /\ access'[b].family = access[b].family /\ access'[b].tok = access[b].tok
                 /\ access'[b].st = "live" => access[b].st = "live"
           Start == \E h \in Handlers, f \in Families, t \in Refreshes, a \in Accesses :
                 InsertFamily(h, f, t, a)
           Consume == \E h \in Handlers, t \in Refreshes, a \in Accesses :
                 Rotate(h) /\ RotateConsumes(h, t, a)
<1>0. access \in [Accesses -> AccessRow]
    BY DEF FilledInv, TypeOK
<1>1. ASSUME NEW h \in Handlers, Rotate(h)
      PROVE  Consume \/ (refresh' = refresh /\ access' = access)
  <2>1. \/ \E t \in Refreshes, a \in Accesses : RotateConsumes(h, t, a)
        \/ refresh' = refresh /\ access' = access
    BY <1>1 DEF Rotate, RotateReplayed, RotateRefused
  <2> QED
    BY <1>1, <2>1
<1>2. Start \/ Consume \/ refresh' = refresh
    BY <1>1, Writers DEF RefreshWrite
<1>3. ASSUME NEW h \in Handlers, NEW a \in Accesses, InsertAccess(h, a) PROVE Keep
    BY <1>0, <1>3 DEF InsertAccess, NewAccess
<1>4. ASSUME NEW x \in Refreshes \cup Accesses, NEW c \in Clients, RevokeToken(x, c) PROVE Keep
    BY <1>0, <1>4 DEF RevokeToken, AccessRow
<1>5. ASSUME NEW w \in Sweepers, CommitSweep(w) PROVE Keep
    BY <1>0, <1>5 DEF CommitSweep, AccessRow
<1>6. ASSUME NEW a \in Accesses, ExpireAccess(a) PROVE Keep
    BY <1>0, <1>6 DEF ExpireAccess, AccessRow
<1>7. Start \/ Consume \/ Keep
  <2>1. CASE access' = access
    BY <2>1
  <2>2. CASE RefreshWrite
    BY <1>1, <2>1, <2>2 DEF RefreshWrite
  <2> HIDE DEF Keep
  <2>3. CASE AccessWrite /\ ~RefreshWrite
    BY <1>3, <1>4, <1>5, <1>6, <2>3 DEF AccessWrite
  <2> QED
    BY <2>1, <2>2, <2>3, Writers
<1> QED
    BY <1>2, <1>7

\* What ties a token to its family survives every step of every handler.
LEMMA BindingStep == ASSUME FilledInv, BindingInv, [Next]_vars PROVE BindingInv'
<1> DEFINE R(v) == refresh[v].st # "unused" => refresh[v].tok = family[refresh[v].family].tok
           A(b) == access[b].family # None =>
                      /\ access[b].family \in Families
                      /\ family[access[b].family].st # "unused"
                      /\ access[b].tok = family[access[b].family].tok
<1>0. None \notin Families
    BY FreshIdsAssumption
<1>1. /\ \A v \in Refreshes : R(v)
      /\ \A b \in Accesses : A(b)
    BY DEF BindingInv, FamilyBinding, AccessInFamily
<1>2. ASSUME NEW v \in Refreshes, refresh'[v] = refresh[v] PROVE R(v)'
    BY <1>1, <1>2, FamilyKept DEF FilledInv, RowsFilled
<1>3. ASSUME NEW b \in Accesses, \/ access'[b].family = None
                                 \/ /\ access'[b].family = access[b].family
                                    /\ access'[b].tok = access[b].tok
      PROVE  A(b)'
    BY <1>1, <1>3, FamilyKept
<1>4. ASSUME NEW h \in Handlers, NEW f \in Families, NEW t \in Refreshes, NEW a \in Accesses,
             InsertFamily(h, f, t, a), NEW v \in Refreshes, NEW b \in Accesses
      PROVE  R(v)' /\ A(b)'
  <2>0. Starts(h, f, t, a)
    BY <1>4, NewFamily
  <2>1. R(v)'
    <3>1. CASE v = t
      BY <2>0, <3>1 DEF Starts
    <3>2. CASE v # t
      BY <1>2, <2>0, <3>2 DEF Starts
    <3> QED
      BY <3>1, <3>2
  <2>2. A(b)'
    <3>1. CASE b = a
      BY <2>0, <3>1 DEF Starts
    <3>2. CASE b # a
      BY <1>3, <2>0, <3>2 DEF Starts
    <3> QED
      BY <3>1, <3>2
  <2> QED
    BY <2>1, <2>2
<1>5. ASSUME NEW h \in Handlers, NEW t \in Refreshes, NEW a \in Accesses,
             Rotate(h), RotateConsumes(h, t, a), NEW v \in Refreshes, NEW b \in Accesses
      PROVE  R(v)' /\ A(b)'
  <2> DEFINE old == handler[h].ref
  <2>1. Rotates(h, t, a)
    BY <1>5, Rotation
  <2>2. R(v)'
    <3>1. CASE v = t
      BY <2>1, <3>1 DEF Rotates
    <3>2. CASE v = old
      BY <1>1, <2>1, <3>2, RefreshKept DEF Rotates
    <3>3. CASE v \notin {old, t}
      BY <1>2, <2>1, <3>3 DEF Rotates
    <3> QED
      BY <3>1, <3>2, <3>3
  <2>3. A(b)'
    <3>1. CASE b = a
      BY <2>1, <3>1 DEF Rotates
    <3>2. CASE b # a
      BY <1>3, <2>1, <3>2 DEF Rotates
    <3> QED
      BY <3>1, <3>2
  <2> QED
    BY <2>2, <2>3
<1>6. ASSUME NEW v \in Refreshes PROVE R(v)'
  <2> HIDE DEF R, A
  <2> QED
    BY <1>2, <1>4, <1>5, StartRotateOrKeep
<1>7. ASSUME NEW b \in Accesses PROVE A(b)'
  <2> HIDE DEF R, A
  <2> QED
    BY <1>3, <1>4, <1>5, StartRotateOrKeep
<1>8. CarriesPayload'
    BY CarriesStep DEF BindingInv
<1> QED
    BY <1>6, <1>7, <1>8 DEF BindingInv, FamilyBinding, AccessInFamily

\* The payload is bound to its family initially and for ever.
LEMMA Binding == Spec => []BindingInv
<1>1. Init => BindingInv
    BY DEF Init, BindingInv, CarriesPayload, AccessInFamily, FamilyBinding, Idle
<1>2. FilledInv /\ BindingInv /\ [Next]_vars => BindingInv'
    BY BindingStep
<1> QED
    BY <1>1, <1>2, Filled, PTL DEF Spec

\* Every token of a family carries the client, subject and session the family was
\* created for, so the session check of ActiveToken never looks at another session.
THEOREM FamilyBound == Spec => []FamilyBinding
<1>1. BindingInv => FamilyBinding
    BY DEF BindingInv
<1> QED
    BY <1>1, Binding, PTL

\* Consuming a refresh token and inserting its successor leave one fresh token.
LEMMA OneFreshStep ==
    ASSUME FilledInv, BindingInv, OneFreshPerFamily, [Next]_vars PROVE OneFreshPerFamily'
<1>1. ASSUME NEW h \in Handlers, NEW f \in Families, NEW t \in Refreshes, NEW a \in Accesses,
             InsertFamily(h, f, t, a)
      PROVE  OneFreshPerFamily'
  <2>0. Starts(h, f, t, a)
    BY <1>1, NewFamily
  <2>1. \A v \in Refreshes : refresh[v].st = "fresh" => refresh[v].family # f
    BY <2>0 DEF FilledInv, RowsFilled, Starts
  <2> QED
    BY <2>0, <2>1 DEF OneFreshPerFamily, Starts
<1>2. ASSUME NEW h \in Handlers, NEW t \in Refreshes, NEW a \in Accesses,
             Rotate(h), RotateConsumes(h, t, a)
      PROVE  OneFreshPerFamily'
  <2> DEFINE old == handler[h].ref
             f == refresh[old].family
  <2>1. Rotates(h, t, a)
    BY <1>2, Rotation
  <2>2. \A v \in Refreshes \ {old} : refresh[v].st = "fresh" => refresh[v].family # f
    BY <2>1 DEF OneFreshPerFamily, Rotates
  <2> QED
    BY <2>1, <2>2 DEF OneFreshPerFamily, Rotates
<1>3. CASE refresh' = refresh
    BY <1>3 DEF OneFreshPerFamily
<1> QED
    BY <1>1, <1>2, <1>3, StartRotateOrKeep

\* At most one refresh token of a family is usable, whatever requests race.
THEOREM OneFresh == Spec => []OneFreshPerFamily
<1>1. Init => OneFreshPerFamily
    BY DEF Init, OneFreshPerFamily
<1>2. FilledInv /\ BindingInv /\ OneFreshPerFamily /\ [Next]_vars => OneFreshPerFamily'
    BY OneFreshStep
<1> QED
    BY <1>1, <1>2, Filled, Binding, PTL DEF Spec

\* A step that inserts an access token into a family finds or makes it live.
THEOREM DeadFamilyIsBarren == Spec => DeadFamilyMintsNothing
<1> DEFINE A == \A a \in Accesses :
          access[a].st = "unused" /\ access'[a].st = "live" /\ access'[a].family # None
             => family'[access'[a].family].st = "live"
<1>1. ASSUME FilledInv, BindingInv, [Next]_vars PROVE A
  <2>1. ASSUME NEW h \in Handlers, NEW f \in Families, NEW t \in Refreshes, NEW a \in Accesses,
               InsertFamily(h, f, t, a)
        PROVE  A
    <3>1. Starts(h, f, t, a)
      BY <1>1, <2>1, NewFamily
    <3> QED
      BY <3>1 DEF Starts
  <2>2. ASSUME NEW h \in Handlers, NEW t \in Refreshes, NEW a \in Accesses,
               Rotate(h), RotateConsumes(h, t, a)
        PROVE  A
    <3>1. Rotates(h, t, a)
      BY <1>1, <2>2, Rotation
    <3> QED
      BY <3>1 DEF Rotates
  <2>3. CASE \A b \in Accesses :
                \/ access'[b].family = None
                \/ access'[b].st = "live" => access[b].st = "live"
    BY <2>3
  <2> QED
    BY <1>1, <2>1, <2>2, <2>3, StartRotateOrKeep
<1> QED
    BY <1>1, Filled, Binding, PTL DEF Spec, DeadFamilyMintsNothing

-----------------------------------------------------------------------------
(* Reuse.                                                                  *)

\* Only the two statements that decide a presentation count it.
LEMMA Presenters ==
    ASSUME [Next]_vars
    PROVE  presented' = presented \/ \E h \in Handlers : ReplayRevoke(h) \/ Rotate(h)
<1> DEFINE P == presented' = presented \/ \E h \in Handlers : ReplayRevoke(h) \/ Rotate(h)
<1>1. ASSUME NEW h \in Handlers, LoginStep(h) PROVE P
    BY <1>1 DEF LoginStep, NewSessionRead, NewSessionInsert, ApproveRead, CompleteAuthorization
<1>2. ASSUME NEW h \in Handlers, TokenStep(h) PROVE P
    BY <1>2 DEF TokenStep, AuthRequestByCode, DeviceGrant, RefreshLookup, ValidateTokenSubject,
       InsertAccess, InsertFamily, Abandon
<1>3. ASSUME NEW w \in Sweepers, SweepStep(w) PROVE P
    BY <1>3, SweepPhases DEF BeginSweep, CommitSweep, RollbackSweep
<1>4. CASE \/ \E r \in Requests, c \in Clients : CreateAuthRequest(r, c)
           \/ \E r \in Requests : SaveAuthCode(r)
           \/ \E x \in Refreshes \cup Accesses, c \in Clients : RevokeToken(x, c)
           \/ \E u \in Identities : Enable(u)
           \/ TimeStep
    BY <1>4 DEF CreateAuthRequest, SaveAuthCode, RevokeToken, Enable, TimeStep, ExpireSession,
       ExpireRequest, ExpireFamily, ExpireAccess
<1>5. CASE UNCHANGED vars
    BY <1>5 DEF vars
<1> QED
    BY <1>1, <1>2, <1>3, <1>4, <1>5 DEF Next

\* A presentation is decided on a token not presented before, or kills its family.
LEMMA ReuseStep ==
    ASSUME FilledInv, BindingInv, PresentedIsSpent, ReuseKillsFamily, [Next]_vars
    PROVE  PresentedIsSpent' /\ ReuseKillsFamily'
<1> DEFINE Dead(t) == family[refresh[t].family].st # "live"
           Spent(t) == presented[t] # 0 => /\ refresh[t].st # "unused"
                                           /\ refresh[t].st = "consumed" \/ Dead(t)
           Killed(t) == presented[t] = 2 => Dead(t)
<1> SUFFICES ASSUME NEW t \in Refreshes PROVE Spent(t)' /\ Killed(t)'
    BY DEF PresentedIsSpent, ReuseKillsFamily
<1>1. Spent(t) /\ Killed(t) /\ presented \in [Refreshes -> 0..2]
    BY DEF PresentedIsSpent, ReuseKillsFamily, FilledInv, TypeOK
<1>2. ASSUME refresh[t].st # "unused"
      PROVE  /\ refresh'[t].st # "unused"
             /\ refresh[t].st = "consumed" => refresh'[t].st = "consumed"
             /\ refresh'[t].family = refresh[t].family
             /\ Dead(t) => Dead(t)'
  <2>1. refresh[t].family \in Families /\ family[refresh[t].family].st # "unused"
    BY <1>2 DEF FilledInv, RowsFilled
  <2> QED
    BY <1>2, <2>1, RefreshKept, FamilyKept
<1>3. CASE presented'[t] = presented[t]
    BY <1>1, <1>2, <1>3
<1>4. ASSUME refresh[t].st # "unused", Dead(t)' PROVE Spent(t)' /\ Killed(t)'
    BY <1>2, <1>4
<1>5. ASSUME NEW h \in Handlers, ReplayRevoke(h) PROVE Spent(t)' /\ Killed(t)'
  <2>1. CASE handler[h].ref # t
    BY <1>1, <1>3, <1>5, <2>1 DEF ReplayRevoke, Decided
  <2>2. CASE handler[h].ref = t
    <3>1. /\ refresh[t].st # "unused" /\ refresh[t].family \in Families
          /\ family \in [Families -> FamilyRow]
      BY <1>5, <2>2 DEF ReplayRevoke, FilledInv, HandlerFilled, RowsFilled, TypeOK
    <3>2. Dead(t)'
      BY <1>5, <2>2, <3>1 DEF ReplayRevoke, RevokeFamily, FamilyRow
    <3> QED
      BY <1>4, <3>1, <3>2
  <2> QED
    BY <2>1, <2>2
<1>6. ASSUME NEW h \in Handlers, Rotate(h) PROVE Spent(t)' /\ Killed(t)'
  <2>1. CASE handler[h].ref # t
    BY <1>1, <1>3, <1>6, <2>1 DEF Rotate, Decided
  <2>2. CASE handler[h].ref = t
    <3>1. /\ refresh[t].st # "unused" /\ refresh[t].family \in Families
          /\ family \in [Families -> FamilyRow]
      BY <1>6, <2>2, FreshIdsAssumption
      DEF Rotate, FilledInv, HandlerFilled, RowsFilled, TypeOK
    <3>2. ASSUME NEW v \in Refreshes, NEW a \in Accesses, RotateConsumes(h, v, a)
          PROVE  Spent(t)' /\ Killed(t)'
      <4>1. Rotates(h, v, a)
        BY <1>6, <3>2, Rotation
      <4>2. presented[t] = 0
        BY <1>1, <2>2, <4>1 DEF Rotates
      <4>3. presented'[t] = 1
        BY <1>1, <1>6, <2>2, <4>2 DEF Rotate, Decided
      <4>4. refresh'[t].st = "consumed"
        BY <2>2, <4>1 DEF Rotates
      <4> QED
        BY <4>3, <4>4
    <3>3. CASE RotateReplayed(h)
      <4>1. Dead(t)'
        BY <2>2, <3>1, <3>3 DEF RotateReplayed, RevokeFamily, FamilyRow
      <4> QED
        BY <1>4, <3>1, <4>1
    <3>4. CASE RotateRefused(h)
      <4>1. Dead(t)'
        BY <2>2, <3>4 DEF RotateRefused
      <4> QED
        BY <1>4, <3>1, <4>1
    <3> QED
      BY <1>6, <3>2, <3>3, <3>4 DEF Rotate
  <2> QED
    BY <2>1, <2>2
<1> QED
    BY <1>3, <1>5, <1>6, Presenters

\* Presenting a refresh token twice kills its family, whichever way the two
\* requests interleave with each other and with everything else.
THEOREM ReuseDetected == Spec => []ReuseKillsFamily
<1>1. Init => PresentedIsSpent /\ ReuseKillsFamily
    BY DEF Init, PresentedIsSpent, ReuseKillsFamily
<1>2. /\ FilledInv /\ BindingInv /\ PresentedIsSpent /\ ReuseKillsFamily /\ [Next]_vars
      => PresentedIsSpent' /\ ReuseKillsFamily'
    BY ReuseStep
<1> QED
    BY <1>1, <1>2, Filled, Binding, PTL DEF Spec

-----------------------------------------------------------------------------
(* The last administrator.                                                 *)

\* One status change is in flight at a time, and it leaves an administrator.
AdminInv ==
    /\ SomeAdminActive
    /\ \A w, v \in Sweepers :
          sweep[w].kind = "disable" /\ sweep[v].kind = "disable" => w = v
    /\ \A w \in Sweepers :
          sweep[w].kind = "disable" /\ sweep[w].subject \in Admins =>
              \E u \in Admins \ {sweep[w].subject} : status[u] = "active"

\* Only SetIdentityStatus changes a status.
LEMMA StatusWriters ==
    ASSUME [Next]_vars
    PROVE  \/ status' = status
           \/ \E u \in Identities : Enable(u)
           \/ \E w \in Sweepers : CommitSweep(w)
<1> DEFINE P == \/ status' = status
                \/ \E u \in Identities : Enable(u)
                \/ \E w \in Sweepers : CommitSweep(w)
<1>1. ASSUME NEW h \in Handlers, LoginStep(h) PROVE P
    BY <1>1 DEF LoginStep, NewSessionRead, NewSessionInsert, ApproveRead, CompleteAuthorization,
       tables
<1>2. ASSUME NEW h \in Handlers, TokenStep(h) PROVE P
    BY <1>2 DEF TokenStep, AuthRequestByCode, DeviceGrant, RefreshLookup, ReplayRevoke,
       ValidateTokenSubject, InsertAccess, InsertFamily, Rotate, Abandon, tables
<1>3. ASSUME NEW w \in Sweepers, SweepStep(w) PROVE P
    BY <1>3, SweepPhases DEF BeginSweep, RollbackSweep, tables
<1>4. CASE \/ \E r \in Requests, c \in Clients : CreateAuthRequest(r, c)
           \/ \E r \in Requests : SaveAuthCode(r)
           \/ \E x \in Refreshes \cup Accesses, c \in Clients : RevokeToken(x, c)
           \/ TimeStep
    BY <1>4 DEF CreateAuthRequest, SaveAuthCode, RevokeToken, TimeStep, ExpireSession,
       ExpireRequest, ExpireFamily, ExpireAccess
<1>5. CASE UNCHANGED vars
    BY <1>5 DEF vars
<1> QED
    BY <1>1, <1>2, <1>3, <1>4, <1>5 DEF Next

\* A status change that has counted the administrators commits before the next
\* one counts.
LEMMA AdminStep == ASSUME FilledInv, AdminInv, [Next]_vars PROVE AdminInv'
<1>0. /\ sweep \in [Sweepers -> SweepState]
      /\ status \in [Identities -> {"active", "disabled"}]
      /\ Admins \subseteq Identities
    BY RolesAssumption DEF FilledInv, TypeOK
<1>1. ASSUME NEW w \in Sweepers, CommitSweep(w) PROVE AdminInv'
  <2>1. /\ \A v \in Sweepers \ {w} : sweep'[v] = sweep[v]
        /\ sweep'[w].kind = "idle"
    BY <1>0, <1>1 DEF CommitSweep, IdleSweep
  <2>2. CASE sweep[w].kind = "disable"
    <3>1. \A v \in Sweepers : sweep'[v].kind # "disable"
      BY <2>1, <2>2 DEF AdminInv
    <3>2. SomeAdminActive'
      BY <1>0, <1>1, <2>2 DEF CommitSweep, AdminInv, SomeAdminActive
    <3> QED
      BY <3>1, <3>2 DEF AdminInv
  <2>3. CASE sweep[w].kind # "disable"
    <3>1. status' = status
      BY <1>0, <1>1, <2>3 DEF CommitSweep
    <3> QED
      BY <2>1, <3>1 DEF AdminInv, SomeAdminActive
  <2> QED
    BY <2>2, <2>3
<1>2. ASSUME NEW u \in Identities, Enable(u) PROVE AdminInv'
    BY <1>0, <1>2 DEF Enable, AdminInv, SomeAdminActive
<1>3. ASSUME status' = status, sweep' = sweep PROVE AdminInv'
    BY <1>3 DEF AdminInv, SomeAdminActive
<1>4. ASSUME NEW w \in Sweepers, NEW m \in SweepState, BeginSweep(w, m), m.kind # "disable"
      PROVE  AdminInv'
  <2>1. /\ sweep'[w].kind # "disable" /\ status' = status
        /\ \A v \in Sweepers \ {w} : sweep'[v] = sweep[v]
    BY <1>4, BegunRow DEF FilledInv
  <2> QED
    BY <2>1 DEF AdminInv, SomeAdminActive
<1>5. ASSUME NEW w \in Sweepers, NEW u \in Identities, Disable(w, u) PROVE AdminInv'
  <2> DEFINE m == [IdleSweep EXCEPT !.kind = "disable", !.subject = u]
  <2>0. m \in SweepState /\ m.subject = u /\ BeginSweep(w, m)
    BY <1>5 DEF Disable, IdleSweep, SweepState, SweepKind
  <2> HIDE DEF m
  <2>1. /\ sweep'[w].subject = u /\ status' = status
        /\ \A v \in Sweepers \ {w} : sweep'[v] = sweep[v]
    BY <2>0, BegunRow DEF FilledInv
  <2>2. \A v \in Sweepers : sweep[v].kind # "disable"
    BY <1>5 DEF Disable, StatusLocked
  <2>3. u \in Admins => \E v \in Admins \ {u} : status[v] = "active"
    BY <1>5 DEF Disable
  <2> QED
    BY <2>1, <2>2, <2>3 DEF AdminInv, SomeAdminActive
<1>6. ASSUME NEW w \in Sweepers, RollbackSweep(w) PROVE AdminInv'
  <2>1. /\ sweep'[w].kind # "disable" /\ status' = status
        /\ \A v \in Sweepers \ {w} : sweep'[v] = sweep[v]
    BY <1>0, <1>6 DEF RollbackSweep, IdleSweep, tables
  <2> QED
    BY <2>1 DEF AdminInv, SomeAdminActive
<1>7. ASSUME NEW w \in Sweepers, SweepStep(w) PROVE AdminInv'
    BY <1>1, <1>4, <1>5, <1>6, <1>7, SweepBegins
<1> QED
    BY <1>1, <1>2, <1>3, <1>7, Writers, StatusWriters DEF SweepWrite

\* Administrators who disable one another at the same moment never leave the system
\* without an active administrator.
THEOREM AdminRemains == Spec => []SomeAdminActive
<1>1. Init => AdminInv
    BY RolesAssumption DEF Init, AdminInv, SomeAdminActive, IdleSweep
<1>2. FilledInv /\ AdminInv /\ [Next]_vars => AdminInv'
    BY AdminStep
<1>3. AdminInv => SomeAdminActive
    BY DEF AdminInv
<1> QED
    BY <1>1, <1>2, <1>3, Filled, PTL DEF Spec

-----------------------------------------------------------------------------
(* Announced logouts.                                                      *)

\* A revocation of one session selects only that session, and one of all sessions names
\* none.  A disabling has selected every session of its subject: FOR UPDATE keeps new ones
\* out until it commits.
SweepNames ==
    \A w \in Sweepers :
        /\ sweep[w].kind \in {"idle", "terminate"} => sweep[w].sess = {}
        /\ sweep[w].kind = "logout_session" => sweep[w].sess \subseteq {sweep[w].sid}
        /\ sweep[w].kind \notin {"logout_session", "confirm_mfa"} => sweep[w].sid = None
        /\ sweep[w].kind = "disable" =>
              \A s \in Sessions : session[s].st # "unused" /\ session[s].owner = sweep[w].subject
                                    => s \in sweep[w].sess

\* What a revocation names and selects does not change before it commits, and no session
\* of an identity that is being disabled comes in.
LEMMA SweepNamesStep == ASSUME FilledInv, SweepNames, [Next]_vars PROVE SweepNames'
<1> DEFINE Fixed(m) == /\ m.kind \in {"idle", "terminate"} => m.sess = {}
                       /\ m.kind = "logout_session" => m.sess \subseteq {m.sid}
                       /\ m.kind \notin {"logout_session", "confirm_mfa"} => m.sid = None
           All(m, S) == m.kind = "disable" =>
                           \A s \in Sessions : S[s].st # "unused" /\ S[s].owner = m.subject
                                                 => s \in m.sess
           P(m, S) == Fixed(m) /\ All(m, S)
<1>1. SUFFICES ASSUME NEW v \in Sweepers PROVE P(sweep'[v], session')
    BY DEF SweepNames
<1>2. P(sweep[v], session)
    BY DEF SweepNames
<1>3. CASE sweep'[v] = sweep[v]
  <2>1. ASSUME NEW s \in Sessions, sweep[v].kind = "disable", session'[s].st # "unused",
               session'[s].owner = sweep[v].subject
        PROVE  s \in sweep[v].sess
    <3>1. CASE session[s].st # "unused"
      BY <1>2, <2>1, <3>1, SessionKept
    <3>2. CASE session[s].st = "unused"
      <4>0. session \in [Sessions -> SessionRow]
        BY DEF FilledInv, TypeOK
      <4>1. ASSUME NEW h \in Handlers, NEW x \in Sessions, NewSessionInsert(h, x) PROVE FALSE
        <5>1. x = s /\ session'[s].owner = handler[h].ref
          BY <2>1, <3>2, <4>0, <4>1 DEF NewSessionInsert
        <5>2. KeyLocked(handler[h].ref)
          BY <2>1, <5>1 DEF KeyLocked
        <5> QED
          BY <4>1, <5>2 DEF NewSessionInsert
      <4>2. ASSUME NEW w \in Sweepers, CommitSweep(w) PROVE FALSE
        <5>1. s \notin sweep[w].sess
          BY <3>2 DEF FilledInv, SweepFilled
        <5>2. session'[s] = session[s]
          BY <4>0, <4>2, <5>1 DEF CommitSweep
        <5> QED
          BY <2>1, <3>2, <5>2
      <4>3. ASSUME NEW x \in Sessions, ExpireSession(x) PROVE FALSE
        BY <2>1, <3>2, <4>0, <4>3 DEF ExpireSession
      <4>4. CASE session' = session
        BY <2>1, <3>2, <4>4
      <4> QED
        BY <4>1, <4>2, <4>3, <4>4, Writers DEF SessionWrite
    <3> QED
      BY <3>1, <3>2
  <2>2. All(sweep[v], session')
    BY <2>1
  <2> HIDE DEF All
  <2> QED
    BY <1>2, <1>3, <2>2
<1>4. CASE sweep'[v] = IdleSweep
    BY <1>4 DEF IdleSweep
<1>5. ASSUME NEW w \in Sweepers, NEW m \in SweepState, Named(m), BeginSweep(w, m)
      PROVE  P(sweep'[v], session')
  <2> DEFINE n == sweep'[w]
  <2>1. /\ n.subject = m.subject /\ n.kind = m.kind /\ n.sid = m.sid
        /\ n.sess = {s \in Sessions : SweptSession(m, s)}
        /\ session' = session
        /\ \A x \in Sweepers \ {w} : sweep'[x] = sweep[x]
    BY <1>5, BegunRow DEF FilledInv
  <2> HIDE DEF n
  <2>2. All(n, session')
    BY <2>1 DEF SweptSession
  <2>3. ASSUME m.kind = "idle" PROVE FALSE
    BY <1>5, <2>3 DEF Named
  <2>4. Fixed(n)
    BY <1>5, <2>1, <2>3 DEF SweptSession, Named
  <2>5. P(n, session')
    BY <2>2, <2>4
  <2> HIDE DEF P
  <2> QED
    BY <1>3, <2>1, <2>5 DEF n
<1>6. ASSUME NEW w \in Sweepers, SweepStep(w) PROVE P(sweep'[v], session')
  <2>1. CASE CommitSweep(w) \/ RollbackSweep(w)
    <3>1. sweep'[v] \in {sweep[v], IdleSweep}
      BY <2>1 DEF CommitSweep, RollbackSweep, FilledInv, TypeOK
    <3> QED
      BY <1>3, <1>4, <3>1
  <2> HIDE DEF P
  <2> QED
    BY <1>5, <1>6, <2>1, SweepBegins
<1> HIDE DEF P
<1> QED
    BY <1>3, <1>6, Writers DEF SweepWrite

\* The outbox only grows.
LEMMA NoticesKept == ASSUME [Next]_vars PROVE notices \subseteq notices'
<1>1. ASSUME NEW h \in Handlers, LoginStep(h) \/ TokenStep(h) PROVE notices \subseteq notices'
    BY <1>1 DEF LoginStep, NewSessionRead, NewSessionInsert, ApproveRead, CompleteAuthorization,
       TokenStep, AuthRequestByCode, DeviceGrant, RefreshLookup, ReplayRevoke,
       ValidateTokenSubject, InsertAccess, InsertFamily, Rotate, Abandon, tables
<1>2. ASSUME NEW w \in Sweepers, SweepStep(w) PROVE notices \subseteq notices'
  <2>1. CASE CommitSweep(w)
    BY <2>1 DEF CommitSweep
  <2>2. CASE \E m : BeginSweep(w, m)
    BY <2>2 DEF BeginSweep, tables
  <2>3. CASE RollbackSweep(w)
    BY <2>3 DEF RollbackSweep, tables
  <2> QED
    BY <1>2, <2>1, <2>2, <2>3, SweepPhases
<1>3. CASE \/ \E r \in Requests, c \in Clients : CreateAuthRequest(r, c)
           \/ \E r \in Requests : SaveAuthCode(r)
           \/ \E x \in Refreshes \cup Accesses, c \in Clients : RevokeToken(x, c)
           \/ \E u \in Identities : Enable(u)
           \/ TimeStep
    BY <1>3 DEF CreateAuthRequest, SaveAuthCode, RevokeToken, Enable, TimeStep, ExpireSession,
       ExpireRequest, ExpireFamily, ExpireAccess
<1>4. CASE UNCHANGED vars
    BY <1>4 DEF vars
<1> QED
    BY <1>1, <1>2, <1>3, <1>4 DEF Next

\* Whatever but ConfirmMFA revokes a session (its own logout, the logout of all sessions of
\* its owner, the disabling of its owner, a new password or a reset factor) tells every
\* linked application of it in the same transaction, even if sessions, owners or other
\* revocations changed since it began.
THEOREM LogoutsAnnounced == Spec => []RevocationIsAnnounced
<1> DEFINE Told(s, u, c, N) == \E n \in N : /\ n.kind = "logout" /\ n.client = c
                                            /\ n.subject = u /\ n.sid \in {s, None}
<1>1. Init => SweepNames /\ RevocationIsAnnounced
    BY DEF Init, SweepNames, RevocationIsAnnounced, IdleSweep
<1>2. ASSUME FilledInv, SweepNames, RevocationIsAnnounced, [Next]_vars
      PROVE  RevocationIsAnnounced'
  <2> SUFFICES ASSUME NEW s \in Sessions, NEW c \in Linked, session'[s].st = "revoked",
                      session'[s].by # "confirm_mfa"
               PROVE  Told(s, session'[s].owner, c, notices')
    BY DEF RevocationIsAnnounced
  <2>0. session \in [Sessions -> SessionRow] /\ notices \subseteq notices'
    BY <1>2, NoticesKept DEF FilledInv, TypeOK
  <2>1. CASE session[s].st = "revoked"
    <3>1. session'[s] = session[s]
      BY <1>2, <2>1, SessionKept
    <3>2. Told(s, session[s].owner, c, notices)
      BY <1>2, <2>1, <3>1 DEF RevocationIsAnnounced
    <3> QED
      BY <2>0, <3>1, <3>2
  <2>2. ASSUME session[s].st # "revoked", NEW w \in Sweepers, CommitSweep(w)
        PROVE  Told(s, session'[s].owner, c, notices')
    <3> DEFINE m == sweep[w]
    <3>0. m \in SweepState /\ m.kind \in SweepKind /\ session[s] \in SessionRow
      BY <1>2, <2>0, <2>2 DEF CommitSweep, InFlight, FilledInv, TypeOK, SweepState
    <3>1. s \in m.sess /\ session'[s] = RevokedBy(m.kind, session[s])
      BY <2>0, <2>2 DEF CommitSweep
    <3>2. session'[s].owner = session[s].owner /\ m.kind # "confirm_mfa"
      BY <2>2, <3>0, <3>1, RevokedRow
    <3>3. SweepNotices(m) \subseteq notices'
      BY <2>2 DEF CommitSweep
    <3>4. m.subject = session[s].owner /\ m.kind # "terminate"
      BY <1>2, <3>1 DEF FilledInv, SweepFilled, SweepNames
    <3> HIDE DEF m
    <3>5. PICK x \in {s, None} : Announce("logout", m.subject, x) \subseteq notices'
      <4>1. m.sid \in {s, None}
        BY <1>2, <3>1, <3>2 DEF SweepNames, m
      <4>2. CASE m.kind = "disable"
        BY <3>3, <4>2 DEF SweepNotices
      <4>3. CASE m.kind # "disable"
        BY <3>2, <3>3, <3>4, <4>1, <4>3 DEF SweepNotices
      <4> QED
        BY <4>2, <4>3
    <3> DEFINE n == [kind |-> "logout", client |-> c, subject |-> m.subject, sid |-> x]
    <3>6. n \in Announce("logout", m.subject, x)
      BY DEF Announce
    <3>7. n.kind = "logout" /\ n.client = c /\ n.subject = m.subject /\ n.sid = x
      OBVIOUS
    <3> HIDE DEF n
    <3> QED
      BY <3>2, <3>4, <3>5, <3>6, <3>7
  <2>3. ASSUME NEW h \in Handlers, NEW v \in Sessions, NewSessionInsert(h, v)
        PROVE  session[s].st = "revoked"
    BY <2>0, <2>3 DEF NewSessionInsert
  <2>4. ASSUME NEW v \in Sessions, ExpireSession(v) PROVE session[s].st = "revoked"
    BY <2>0, <2>4 DEF ExpireSession, SessionRow
  <2>5. CASE session' = session
    BY <2>1, <2>5
  <2> HIDE DEF Told
  <2> QED
    BY <1>2, <2>1, <2>2, <2>3, <2>4, <2>5, Writers DEF SessionWrite
<1>3. FilledInv /\ SweepNames /\ [Next]_vars => SweepNames'
    BY SweepNamesStep
<1> QED
    BY <1>1, <1>2, <1>3, Filled, PTL DEF Spec

-----------------------------------------------------------------------------
(* The death of a session's tokens.                                        *)

\* A payload names a session of its subject, and the session of a disabled subject
\* is dead: disabling has revoked it.
Bound(p, S, u) ==
    p.sid # None => /\ S[p.sid].st # "unused" /\ S[p.sid].owner = p.subject
                    /\ u[p.subject] # "active" => S[p.sid].st # "live"

\* The payloads in the tables and in the hands of handlers.
InUse ==
    UNION {{handler[h].tok : h \in Handlers}, {authReq[r].tok : r \in Requests},
           {refresh[t].tok : t \in Refreshes}, {access[a].tok : a \in Accesses}}

\* Every one of them is bound; access tokens have one.
BoundInv ==
    /\ \A p \in Payload : p \in InUse => Bound(p, session, status)
    /\ \A a \in Accesses : access[a].st # "unused" => access[a].tok \in Payload

\* A bound payload stays bound: the transaction that disables the subject revokes the
\* session with it, and no login brings a session back.
LEMMA BoundKept ==
    ASSUME FilledInv, SweepNames, [Next]_vars, NEW p \in Payload, Bound(p, session, status)
    PROVE  Bound(p, session', status')
<1> SUFFICES ASSUME p.sid # None PROVE Bound(p, session', status')
    BY DEF Bound
<1>1. p.sid \in Sessions /\ p.subject \in Identities
    BY DEF Payload
<1>2. /\ session[p.sid].st # "unused" /\ session[p.sid].owner = p.subject
      /\ status[p.subject] # "active" => session[p.sid].st # "live"
    BY DEF Bound
<1>3. /\ session'[p.sid].st # "unused" /\ session'[p.sid].owner = p.subject
      /\ session'[p.sid].st = "live" => session[p.sid].st = "live"
    BY <1>1, <1>2, SessionKept
<1>4. ASSUME status'[p.subject] # "active", session'[p.sid].st = "live" PROVE FALSE
  <2>0. /\ status \in [Identities -> {"active", "disabled"}]
        /\ session \in [Sessions -> SessionRow]
    BY DEF FilledInv, TypeOK
  <2>1. status[p.subject] = "active"
    BY <1>2, <1>3, <1>4
  <2>2. PICK w \in Sweepers : CommitSweep(w)
    BY <1>1, <1>4, <2>0, <2>1, StatusWriters DEF Enable
  <2>3. sweep[w].kind = "disable" /\ sweep[w].subject = p.subject
    BY <1>1, <1>4, <2>0, <2>1, <2>2 DEF CommitSweep
  <2>4. p.sid \in sweep[w].sess
    BY <1>1, <1>2, <2>3 DEF SweepNames
  <2>5. session'[p.sid].st = "revoked"
    <3>1. session'[p.sid] = RevokedBy(sweep[w].kind, session[p.sid])
      BY <1>1, <2>0, <2>2, <2>4 DEF CommitSweep
    <3>2. sweep[w].kind \in SweepKind /\ session[p.sid] \in SessionRow
      BY <1>1, <2>0, <2>3 DEF SweepKind
    <3> QED
      BY <3>1, <3>2, RevokedRow
  <2> QED
    BY <1>4, <2>5
<1> QED
    BY <1>3, <1>4 DEF Bound

\* An access token in use keeps its family and payload, and a dead one stays dead.
LEMMA AccessKept ==
    ASSUME FilledInv, [Next]_vars, NEW a \in Accesses, access[a].st # "unused"
    PROVE  /\ access'[a].st # "unused"
           /\ access'[a].family = access[a].family /\ access'[a].tok = access[a].tok
           /\ access'[a].st = "live" => access[a].st = "live"
<1> DEFINE P == /\ access'[a].st # "unused"
                /\ access'[a].family = access[a].family /\ access'[a].tok = access[a].tok
                /\ access'[a].st = "live" => access[a].st = "live"
<1>0. access \in [Accesses -> AccessRow]
    BY DEF FilledInv, TypeOK
<1>1. ASSUME NEW h \in Handlers, NEW b \in Accesses, InsertAccess(h, b) PROVE P
    BY <1>0, <1>1 DEF InsertAccess
<1>2. ASSUME NEW h \in Handlers, NEW f \in Families, NEW t \in Refreshes, NEW b \in Accesses,
             InsertFamily(h, f, t, b)
      PROVE P
    BY <1>0, <1>2 DEF InsertFamily
<1>3. ASSUME NEW h \in Handlers, Rotate(h) PROVE P
  <2>1. ASSUME NEW t \in Refreshes, NEW b \in Accesses, RotateConsumes(h, t, b) PROVE P
    BY <1>0, <2>1 DEF RotateConsumes
  <2> QED
    BY <1>3, <2>1 DEF Rotate, RotateReplayed, RotateRefused
<1>4. ASSUME NEW x \in Refreshes \cup Accesses, NEW c \in Clients, RevokeToken(x, c) PROVE P
    BY <1>0, <1>4 DEF RevokeToken, AccessRow
<1>5. ASSUME NEW w \in Sweepers, CommitSweep(w) PROVE P
    BY <1>0, <1>5 DEF CommitSweep, AccessRow
<1>6. ASSUME NEW b \in Accesses, ExpireAccess(b) PROVE P
    BY <1>0, <1>6 DEF ExpireAccess, AccessRow
<1>7. CASE access' = access
    BY <1>7
<1> QED
    BY <1>1, <1>2, <1>3, <1>4, <1>5, <1>6, <1>7, Writers DEF AccessWrite, RefreshWrite

\* A row of the tokens' tables keeps its payload or gets a handler's; an access token
\* that comes into use gets one.
LEMMA RowPayload ==
    ASSUME FilledInv, [Next]_vars
    PROVE  /\ \A r \in Requests : \/ authReq'[r].tok \in {authReq[r].tok, None}
                                  \/ \E h \in Handlers : authReq'[r].tok = handler[h].tok
           /\ \A t \in Refreshes : \/ refresh'[t].tok = refresh[t].tok
                                   \/ \E h \in Handlers : refresh'[t].tok = handler[h].tok
           /\ \A a \in Accesses : \/ /\ access'[a].tok = access[a].tok
                                     /\ access[a].st = "unused" => access'[a].st = "unused"
                                                                   \/ access[a].tok # None
                                  \/ \E h \in Handlers : /\ handler[h].tok \in Payload
                                                         /\ access'[a].tok = handler[h].tok
<1>0. /\ authReq \in [Requests -> AuthReqRow] /\ refresh \in [Refreshes -> RefreshRow]
      /\ access \in [Accesses -> AccessRow] /\ handler \in [Handlers -> HandlerState]
    BY DEF FilledInv, TypeOK
<1>1. ASSUME NEW r \in Requests
      PROVE  \/ authReq'[r].tok \in {authReq[r].tok, None}
             \/ \E h \in Handlers : authReq'[r].tok = handler[h].tok
  <2> DEFINE P == \/ authReq'[r].tok \in {authReq[r].tok, None}
                  \/ \E h \in Handlers : authReq'[r].tok = handler[h].tok
  <2>1. ASSUME NEW h \in Handlers, CompleteAuthorization(h) PROVE P
    <3>1. authReq'[r].tok \in {authReq[r].tok, handler[h].tok}
      BY <1>0, <2>1 DEF CompleteAuthorization, AuthReqRow
    <3> QED
      BY <3>1
  <2>2. ASSUME NEW h \in Handlers, NEW q \in Requests, AuthRequestByCode(h, q) PROVE P
    BY <1>0, <2>2 DEF AuthRequestByCode, AuthReqRow
  <2>3. ASSUME NEW q \in Requests, SaveAuthCode(q) \/ ExpireRequest(q) PROVE P
    BY <1>0, <2>3 DEF SaveAuthCode, ExpireRequest, AuthReqRow
  <2>4. ASSUME NEW q \in Requests, NEW c \in Clients, CreateAuthRequest(q, c) PROVE P
    BY <1>0, <2>4 DEF CreateAuthRequest, AuthReqRow
  <2>5. ASSUME NEW w \in Sweepers, CommitSweep(w) PROVE P
    BY <1>0, <2>5 DEF CommitSweep, AuthReqRow
  <2>6. ASSUME authReq' = authReq PROVE P
    BY <2>6
  <2> HIDE DEF P
  <2>7. P
    BY <2>1, <2>2, <2>3, <2>4, <2>5, <2>6, Writers DEF AuthReqWrite
  <2> QED
    BY <2>7 DEF P
<1>2. ASSUME NEW t \in Refreshes
      PROVE  \/ refresh'[t].tok = refresh[t].tok
             \/ \E h \in Handlers : refresh'[t].tok = handler[h].tok
  <2> DEFINE P == \/ refresh'[t].tok = refresh[t].tok
                  \/ \E h \in Handlers : refresh'[t].tok = handler[h].tok
  <2>1. ASSUME NEW h \in Handlers, NEW v \in Refreshes, NEW a \in Accesses,
               RotateConsumes(h, v, a)
        PROVE  P
    <3>1. refresh'[t].tok \in {refresh[t].tok, handler[h].tok}
      BY <1>0, <2>1 DEF RotateConsumes, NewRefresh, RefreshRow
    <3> QED
      BY <3>1
  <2>2. ASSUME NEW h \in Handlers, Rotate(h) PROVE P
    BY <2>1, <2>2 DEF Rotate, RotateReplayed, RotateRefused
  <2>3. ASSUME NEW h \in Handlers, NEW f \in Families, NEW v \in Refreshes, NEW a \in Accesses,
               InsertFamily(h, f, v, a)
        PROVE  P
    BY <1>0, <2>3 DEF InsertFamily, NewRefresh
  <2>4. ASSUME refresh' = refresh PROVE P
    BY <2>4
  <2> HIDE DEF P
  <2>5. P
    BY <2>2, <2>3, <2>4, Writers DEF RefreshWrite
  <2> QED
    BY <2>5 DEF P
<1>3. ASSUME NEW a \in Accesses
      PROVE  \/ /\ access'[a].tok = access[a].tok
                /\ access[a].st = "unused" => access'[a].st = "unused" \/ access[a].tok # None
             \/ \E h \in Handlers : handler[h].tok \in Payload /\ access'[a].tok = handler[h].tok
  <2> DEFINE Keep == /\ access'[a].tok = access[a].tok
                     /\ access[a].st = "unused" => access'[a].st = "unused"
                                                   \/ access[a].tok # None
             P == \/ Keep
                  \/ \E h \in Handlers : /\ handler[h].tok \in Payload
                                         /\ access'[a].tok = handler[h].tok
  <2>0. ASSUME NEW h \in Handlers, handler[h].pc = "insert" PROVE handler[h].tok \in Payload
    BY <2>0 DEF FilledInv, HandlerFilled
  <2>1. ASSUME NEW h \in Handlers, NEW b \in Accesses, InsertAccess(h, b) PROVE P
    BY <1>0, <2>0, <2>1 DEF InsertAccess, NewAccess
  <2>2. ASSUME NEW h \in Handlers, NEW f \in Families, NEW t \in Refreshes, NEW b \in Accesses,
               InsertFamily(h, f, t, b)
        PROVE P
    BY <1>0, <2>0, <2>2 DEF InsertFamily, NewAccess
  <2>3. ASSUME NEW h \in Handlers, Rotate(h) PROVE P
    <3>1. ASSUME NEW t \in Refreshes, NEW b \in Accesses, RotateConsumes(h, t, b) PROVE P
      BY <1>0, <2>0, <2>3, <3>1 DEF Rotate, RotateConsumes, NewAccess
    <3>2. ASSUME access' = access PROVE P
      BY <3>2
    <3> HIDE DEF P
    <3> QED
      BY <2>3, <3>1, <3>2 DEF Rotate, RotateReplayed, RotateRefused
  <2>4. ASSUME NEW x \in Refreshes \cup Accesses, NEW c \in Clients, RevokeToken(x, c) PROVE Keep
    BY <1>0, <2>4 DEF RevokeToken, AccessRow
  <2>5. ASSUME NEW w \in Sweepers, CommitSweep(w) PROVE Keep
    BY <1>0, <2>5 DEF CommitSweep, AccessRow, Selects
  <2>6. ASSUME NEW b \in Accesses, ExpireAccess(b) PROVE Keep
    BY <1>0, <2>6 DEF ExpireAccess, AccessRow
  <2>7. ASSUME access' = access PROVE P
    BY <2>7
  <2>8. Keep => P
    OBVIOUS
  <2> HIDE DEF P, Keep
  <2>9. P
    BY <2>1, <2>2, <2>3, <2>4, <2>5, <2>6, <2>7, <2>8, Writers DEF AccessWrite, RefreshWrite
  <2> QED
    BY <2>9 DEF P, Keep
<1> QED
    BY <1>1, <1>2, <1>3

\* A handler's payload is the one it had, one it has read from a table, one without a
\* session, or the one ApproveRead makes from a live session of an active identity.
LEMMA HandlerPayload ==
    ASSUME FilledInv, [Next]_vars, NEW h \in Handlers, handler'[h].tok \in Payload
    PROVE  \/ handler'[h].tok \in InUse
           \/ Bound(handler'[h].tok, session, status)
<1> DEFINE P == handler'[h].tok \in InUse \/ Bound(handler'[h].tok, session, status)
<1>0. handler \in [Handlers -> HandlerState] /\ None \notin Sessions
    BY FreshIdsAssumption DEF FilledInv, TypeOK
<1>1. ASSUME handler'[h].tok = handler[h].tok PROVE P
    BY <1>1 DEF InUse
<1>2. handler'[h].tok # None
    BY PayloadAssumption
<1>3. ASSUME LoginStep(h) PROVE P
  <2>1. ASSUME NEW r \in Requests, NEW s \in Sessions, ApproveRead(h, r, s) PROVE P
    <3> DEFINE p == [client |-> authReq[r].client, subject |-> session[s].owner, sid |-> s]
    <3>1. handler'[h].tok = p /\ session[s].st = "live" /\ status[session[s].owner] = "active"
      BY <1>0, <2>1 DEF ApproveRead
    <3>2. Bound(p, session, status)
      BY <3>1 DEF Bound
    <3> QED
      BY <3>1, <3>2
  <2>2. ASSUME \/ CompleteAuthorization(h) \/ \E s \in Sessions : NewSessionInsert(h, s)
               \/ \E u \in Identities : NewSessionRead(h, u)
        PROVE  P
    <3>1. handler'[h].tok = None
      BY <1>0, <2>2 DEF CompleteAuthorization, NewSessionInsert, NewSessionRead, Idle
    <3> QED
      BY <1>2, <3>1
  <2> HIDE DEF P
  <2> QED
    BY <1>3, <2>1, <2>2 DEF LoginStep
<1>4. ASSUME TokenStep(h) PROVE P
  <2>1. ASSUME NEW r \in Requests, AuthRequestByCode(h, r) PROVE P
    <3>1. handler'[h].tok = authReq[r].tok
      BY <1>0, <2>1 DEF AuthRequestByCode
    <3> QED
      BY <3>1 DEF InUse
  <2>2. ASSUME NEW u \in Identities, NEW c \in Clients, DeviceGrant(h, u, c) PROVE P
    BY <1>0, <2>2 DEF DeviceGrant, Bound
  <2>3. ASSUME NEW t \in Refreshes, RefreshLookup(h, t) PROVE P
    <3>1. handler'[h].tok = refresh[t].tok
      BY <1>0, <2>3 DEF RefreshLookup
    <3> QED
      BY <3>1 DEF InUse
  <2>4. ASSUME ValidateTokenSubject(h) PROVE P
    <3>1. handler'[h].tok \in {handler[h].tok, None}
      BY <1>0, <2>4 DEF ValidateTokenSubject, HandlerState, Idle
    <3> QED
      BY <1>1, <1>2, <3>1
  <2>5. ASSUME \/ ReplayRevoke(h) \/ Rotate(h) \/ Abandon(h)
               \/ \E a \in Accesses : InsertAccess(h, a)
               \/ \E f \in Families, t \in Refreshes, a \in Accesses : InsertFamily(h, f, t, a)
        PROVE  P
    <3>1. handler'[h].tok = None
      BY <1>0, <2>5 DEF ReplayRevoke, Rotate, Abandon, InsertAccess, InsertFamily, Idle
    <3> QED
      BY <1>2, <3>1
  <2> HIDE DEF P
  <2> QED
    BY <1>4, <2>1, <2>2, <2>3, <2>4, <2>5 DEF TokenStep
<1>5. ASSUME NEW k \in Handlers, k # h, LoginStep(k) \/ TokenStep(k)
      PROVE  handler'[h] = handler[h]
    BY <1>0, <1>5 DEF LoginStep, TokenStep, NewSessionRead, NewSessionInsert, ApproveRead,
       CompleteAuthorization, AuthRequestByCode, DeviceGrant, RefreshLookup, ReplayRevoke,
       ValidateTokenSubject, InsertAccess, InsertFamily, Rotate, Abandon
<1> HIDE DEF P
<1>6. P
    BY <1>1, <1>3, <1>4, <1>5, Writers DEF HandlerWrite
<1> QED
    BY <1>6 DEF P

\* Payloads are only copied, apart from the ones ApproveRead and a device grant make.
LEMMA BoundStep == ASSUME FilledInv, SweepNames, BoundInv, [Next]_vars PROVE BoundInv'
<1>0. None \notin Payload
    BY PayloadAssumption
<1>1. ASSUME NEW p \in Payload, p \in InUse' PROVE p \in InUse \/ Bound(p, session, status)
  <2>1. ASSUME NEW h \in Handlers, p = handler'[h].tok
        PROVE  p \in InUse \/ Bound(p, session, status)
    BY <2>1, HandlerPayload
  <2>2. ASSUME NEW h \in Handlers, p = handler[h].tok PROVE p \in InUse
    BY <2>2 DEF InUse
  <2>3. ASSUME NEW r \in Requests, p = authReq'[r].tok PROVE p \in InUse
    <3>1. p = authReq[r].tok \/ \E h \in Handlers : p = handler[h].tok
      BY <1>0, <2>3, RowPayload
    <3> QED
      BY <2>2, <3>1 DEF InUse
  <2>4. ASSUME NEW t \in Refreshes, p = refresh'[t].tok PROVE p \in InUse
    <3>1. p = refresh[t].tok \/ \E h \in Handlers : p = handler[h].tok
      BY <2>4, RowPayload
    <3> QED
      BY <2>2, <3>1 DEF InUse
  <2>5. ASSUME NEW a \in Accesses, p = access'[a].tok PROVE p \in InUse
    <3>1. p = access[a].tok \/ \E h \in Handlers : p = handler[h].tok
      BY <2>5, RowPayload
    <3> QED
      BY <2>2, <3>1 DEF InUse
  <2>6. \/ \E h \in Handlers : p = handler'[h].tok
        \/ \E r \in Requests : p = authReq'[r].tok
        \/ \E t \in Refreshes : p = refresh'[t].tok
        \/ \E a \in Accesses : p = access'[a].tok
    BY <1>1 DEF InUse
  <2> QED
    BY <2>1, <2>3, <2>4, <2>5, <2>6
<1>2. ASSUME NEW p \in Payload, p \in InUse' PROVE Bound(p, session', status')
    BY <1>1, <1>2, BoundKept DEF BoundInv
<1>3. ASSUME NEW a \in Accesses, access'[a].st # "unused" PROVE access'[a].tok \in Payload
  <2>1. access[a].tok \in Payload \cup {None}
    BY DEF FilledInv, TypeOK, AccessRow
  <2>2. CASE access[a].st # "unused"
    BY <2>2, AccessKept DEF BoundInv
  <2>3. CASE access[a].st = "unused"
    BY <1>3, <2>1, <2>3, RowPayload
  <2> QED
    BY <2>2, <2>3
<1> QED
    BY <1>2, <1>3 DEF BoundInv

\* Introspection's refusal of a token that is bound to a session is final, for any number
\* of sessions, families and concurrent logouts: re-enabling an identity revives none of
\* its old tokens, because disabling it ended the sessions they are bound to.
THEOREM DeathIsFinal == Spec => SessionTokenDeathIsFinal
<1> DEFINE A == \A a \in Accesses :
          access[a].st # "unused" /\ access[a].tok.sid # None /\ ~ActiveToken(a)
             => ~ActiveToken(a)'
<1>1. Init => BoundInv
  <2> SUFFICES ASSUME Init PROVE BoundInv
    OBVIOUS
  <2>1. \A p \in InUse : p = None
    BY DEF Init, InUse, Idle
  <2>2. None \notin Payload
    BY PayloadAssumption
  <2> QED
    BY <2>1, <2>2 DEF Init, BoundInv
<1>2. FilledInv /\ SweepNames /\ BoundInv /\ [Next]_vars => BoundInv'
    BY BoundStep
<1>4. Spec => []SweepNames
  <2>1. Init => SweepNames
    BY DEF Init, SweepNames, IdleSweep
  <2>2. FilledInv /\ SweepNames /\ [Next]_vars => SweepNames'
    BY SweepNamesStep
  <2> QED
    BY <2>1, <2>2, Filled, PTL DEF Spec
<1>3. ASSUME FilledInv, BindingInv, BoundInv, [Next]_vars PROVE A
  <2> SUFFICES ASSUME NEW a \in Accesses, access[a].st # "unused", access[a].tok.sid # None,
                      ActiveToken(a)'
               PROVE  ActiveToken(a)
    OBVIOUS
  <2> DEFINE p == access[a].tok
             f == access[a].family
  <2>1. /\ access[a].st = "live" /\ access'[a].st = "live"
        /\ access'[a].family = f /\ access'[a].tok = p
    BY <1>3, AccessKept DEF ActiveToken
  <2>2. p \in Payload /\ p.sid \in Sessions /\ Bound(p, session, status)
    BY <1>3 DEF BoundInv, InUse, Payload
  <2>3. f # None => family[f].st = "live"
    <3> SUFFICES ASSUME f # None PROVE family[f].st = "live"
      OBVIOUS
    <3>1. f \in Families /\ family[f].st # "unused"
      BY <1>3 DEF BindingInv, AccessInFamily
    <3>2. family'[f].st = "live"
      BY <2>1 DEF ActiveToken
    <3> QED
      BY <1>3, <3>1, <3>2, FamilyKept
  <2>4. session[p.sid].st = "live"
    <3>1. session'[p.sid].st = "live"
      BY <2>1 DEF ActiveToken, ValidSubject, ValidSession
    <3> QED
      BY <1>3, <2>2, <3>1, SessionKept DEF Bound
  <2>5. status[p.subject] = "active"
    BY <2>2, <2>4 DEF Bound
  <2> QED
    BY <2>1, <2>3, <2>4, <2>5 DEF ActiveToken, ValidSubject, ValidSession
<1> QED
    BY <1>1, <1>2, <1>3, <1>4, Filled, Binding, PTL DEF Spec, SessionTokenDeathIsFinal

=============================================================================
