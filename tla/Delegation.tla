----------------------------- MODULE Delegation -----------------------------
(***************************************************************************)
(* Token exchange between linked applications: administrator policies,     *)
(* user consents, links, and the delegated tokens that rest on them        *)
(* (internal/core: exchange.go, tokens.go, the sweeps of links.go).        *)
(*                                                                         *)
(* An exchange is four steps of one request: ValidateTokenExchangeRequest, *)
(* the checks of CreateAccessToken, its INSERT, and the claims of the JWT. *)
(* A withdrawal (policy off, consent or link revoked) is a transaction:    *)
(* its UPDATE access_tokens finds the tokens of that moment, and an        *)
(* exchange that still sees the permission may insert until its commit and *)
(* after it.                                                               *)
(***************************************************************************)
EXTENDS Naturals, FiniteSets

CONSTANTS
    Apps,       \* applications
    Perms,      \* permissions [caller, target, resource, scope]
    Users,      \* identities
    Tokens,     \* pool of access tokens
    Reqs,       \* requests in flight
    Cuts,       \* pool of withdrawals
    None

ASSUME PermsAssumption ==
    \A p \in Perms : p.caller \in Apps /\ p.target \in Apps /\ p.caller # p.target
ASSUME NoneAssumption == None \notin Users \cup Tokens \cup Apps

VARIABLES
    policy,    \* exchange_policies: "absent", "on" or "off"
    consent,   \* exchange_consents that are not revoked: <<user, permission>>
    link,      \* account_links in state active: <<user, application>>
    tok,       \* access_tokens
    req,       \* requests in flight
    cut        \* withdrawals, in flight and committed

vars == <<policy, consent, link, tok, req, cut>>

Pairs == Users \X Perms
\* source # None for a delegated token.  History: seen, the withdrawals committed when
\* its request was validated, and born, those that had swept when it was inserted.
Tok == [st: {"absent", "live", "revoked"}, app: Apps \cup {None}, u: Users \cup {None},
        source: Tokens \cup {None}, perms: SUBSET Perms,
        seen: SUBSET Cuts, born: SUBSET Cuts]
NoTok == [st |-> "absent", app |-> None, u |-> None, source |-> None, perms |-> {},
          seen |-> {}, born |-> {}]
Req == [op: {"idle", "validated", "checked", "inserted", "consent"}, u: Users \cup {None},
        source: Tokens \cup {None}, perms: SUBSET Perms, seen: SUBSET Cuts]
Idle == [op |-> "idle", u |-> None, source |-> None, perms |-> {}, seen |-> {}]
\* What a withdrawal takes away when it commits, and the tokens its sweep found.
Cut == [st: {"new", "swept", "done", "failed"}, off: SUBSET Perms, given: SUBSET Pairs,
        ended: SUBSET (Users \X Apps), found: SUBSET Tokens]
NoCut == [st |-> "new", off |-> {}, given |-> {}, ended |-> {}, found |-> {}]

\* Variables hold what the schema and the Go types allow.
TypeOK ==
    /\ policy \in [Perms -> {"absent", "on", "off"}]
    /\ consent \subseteq Pairs
    /\ link \subseteq Users \X Apps
    /\ tok \in [Tokens -> Tok]
    /\ req \in [Reqs -> Req]
    /\ cut \in [Cuts -> Cut]

Init ==
    /\ policy = [p \in Perms |-> "absent"]
    /\ consent = {}
    /\ link = {}
    /\ tok = [t \in Tokens |-> NoTok]
    /\ req = [r \in Reqs |-> Idle]
    /\ cut = [w \in Cuts |-> NoCut]

Linked(u, p) == <<u, p.caller>> \in link /\ <<u, p.target>> \in link
\* The join of ValidateTokenExchangeRequest, for one scope.
Allowed(u, p) == policy[p] = "on" /\ <<u, p>> \in consent /\ Linked(u, p)

Delegated(t) == tok[t].source # None

ActiveToken(t) ==
    /\ tok[t].st = "live"
    /\ Delegated(t) => tok[tok[t].source].st = "live" /\ ~Delegated(tok[t].source)

\* SetIntrospectionFromToken, asked by application a.
Introspects(t, a) ==
    /\ ActiveToken(t)
    /\ \/ tok[t].app = a
       \/ Delegated(t) /\ \A p \in tok[t].perms : p.target = a /\ policy[p] = "on"

\* Of a revoked token only its owner and application are read again.
Revoke(S) == [t \in Tokens |->
                IF t \in S /\ tok[t].st = "live"
                  THEN [NoTok EXCEPT !.st = "revoked", !.u = tok[t].u, !.app = tok[t].app]
                  ELSE tok[t]]
\* The delegated tokens of an application for a resource.
DelegatedFor(a, resource) ==
    {t \in Tokens : Delegated(t) /\ tok[t].app = a
                    /\ \E p \in tok[t].perms : p.resource = resource}

Committed == {w \in Cuts : cut[w].st = "done"}
Swept == {w \in Cuts : cut[w].st \in {"swept", "done"}}
\* Withdrawal w is about what lets user u use permission p.
Hits(w, u, p) == \/ p \in cut[w].off \/ <<u, p>> \in cut[w].given
                 \/ <<u, p.caller>> \in cut[w].ended \/ <<u, p.target>> \in cut[w].ended

-----------------------------------------------------------------------------
(* Withdrawals.  The row a withdrawal updates is locked until it ends, and *)
(* others that write the row wait.  No lock keeps a token from being       *)
(* inserted.                                                               *)

Sweep(w, what, S) ==
    /\ cut[w].st = "new"
    /\ cut' = [cut EXCEPT ![w] = [what EXCEPT !.st = "swept", !.found = S]]
    /\ UNCHANGED <<policy, consent, link, tok, req>>

\* Mutant: the sweep of the tokens is left out.
CommitOnly(w) ==
    /\ cut[w].st = "swept"
    /\ policy' = [p \in Perms |-> IF p \in cut[w].off THEN "off" ELSE policy[p]]
    /\ consent' = consent \ cut[w].given
    /\ link' = link \ cut[w].ended
    /\ cut' = [cut EXCEPT ![w].st = "done", ![w].found = {}]
    /\ UNCHANGED <<req, tok>>

Commit(w) ==
    /\ cut[w].st = "swept"
    /\ policy' = [p \in Perms |-> IF p \in cut[w].off THEN "off" ELSE policy[p]]
    /\ consent' = consent \ cut[w].given
    /\ link' = link \ cut[w].ended
    /\ tok' = Revoke(cut[w].found)
    /\ cut' = [cut EXCEPT ![w].st = "done", ![w].found = {}]
    /\ UNCHANGED req

\* A later statement fails (audit, outbox), or the connection.
Rollback(w) ==
    /\ cut[w].st = "swept"
    /\ cut' = [cut EXCEPT ![w] = [NoCut EXCEPT !.st = "failed"]]
    /\ UNCHANGED <<policy, consent, link, tok, req>>

InFlight == {w \in Cuts : cut[w].st = "swept"}

-----------------------------------------------------------------------------
(* Policies, consents and links.                                           *)

EnablePolicy(p) ==
    /\ policy' = [policy EXCEPT ![p] = "on"]
    /\ UNCHANGED <<consent, link, tok, req, cut>>

DisablePolicy(w, p) ==
    Sweep(w, [NoCut EXCEPT !.off = {p}], DelegatedFor(p.caller, p.resource))

\* UNIQUE(caller_client, resource, scope): one target for each.
Key(p) == <<p.caller, p.resource, p.scope>>
SetExchangePolicy(p) ==
    /\ \A q \in Perms \ {p} : policy[q] # "absent" => Key(q) # Key(p)
    /\ \A w \in InFlight : \A q \in cut[w].off : Key(q) # Key(p)
    /\ EnablePolicy(p) \/ \E w \in Cuts : DisablePolicy(w, p)

setExchangePolicy(p) == SetExchangePolicy(p)

\* SetExchangeConsent reads whether the consent is possible ...
setDelegation(r, u, p) ==
    /\ req[r].op = "idle"
    /\ policy[p] = "on" /\ Linked(u, p)
    /\ req' = [req EXCEPT ![r] = [Idle EXCEPT !.op = "consent", !.u = u, !.perms = {p}]]
    /\ UNCHANGED <<policy, consent, link, tok, cut>>

\* ... and writes it.
GrantConsent(r) ==
    /\ req[r].op = "consent"
    /\ \A w \in InFlight : cut[w].given \cap ({req[r].u} \X req[r].perms) = {}
    /\ consent' = consent \cup ({req[r].u} \X req[r].perms)
    /\ req' = [req EXCEPT ![r] = Idle]
    /\ UNCHANGED <<policy, link, tok, cut>>

\* A consent that is not in force is no row to lock; the sweep runs all the same.
RevokeConsent(w, u, p) ==
    /\ \A v \in InFlight : <<u, p>> \notin cut[v].given
    /\ Sweep(w, [NoCut EXCEPT !.given = consent \cap {<<u, p>>}],
             {t \in DelegatedFor(p.caller, p.resource) : tok[t].u = u})

\* AccountLinks models how a link becomes active.
LinkActivated(u, a) ==
    /\ <<u, a>> \notin link
    /\ link' = link \cup {<<u, a>>}
    /\ UNCHANGED <<policy, consent, tok, req, cut>>

\* Mutant: only the application's own tokens are revoked.
RevokeLinkOwnTokens(w, u, a) ==
    /\ <<u, a>> \in link /\ \A v \in InFlight : <<u, a>> \notin cut[v].ended
    /\ Sweep(w, [NoCut EXCEPT !.ended = {<<u, a>>}],
             {t \in Tokens : tok[t].u = u /\ tok[t].app = a})

\* Its two UPDATEs of access_tokens find different tokens.
RevokeLink(w, u, a) ==
    LET callers == {p.caller : p \in {q \in Perms : q.target = a /\ policy[q] # "absent"}} IN
    /\ <<u, a>> \in link /\ \A v \in InFlight : <<u, a>> \notin cut[v].ended
    /\ Sweep(w, [NoCut EXCEPT !.ended = {<<u, a>>}],
             {t \in Tokens : tok[t].u = u /\
                (tok[t].app = a \/ (Delegated(t) /\ tok[t].app \in callers))})

-----------------------------------------------------------------------------
(* Exchange.                                                               *)

\* A user token of application a; TokenLifecycle models where it comes from.
UserToken(t, u, a) ==
    /\ tok[t].st = "absent"
    /\ \E p \in Perms : p.caller = a
    /\ tok' = [tok EXCEPT ![t] = [NoTok EXCEPT !.st = "live", !.u = u, !.app = a]]
    /\ UNCHANGED <<policy, consent, link, req, cut>>

\* Revocation, logout or expiry.
TokenEnds(t) ==
    /\ tok[t].st = "live"
    /\ tok' = Revoke({t})
    /\ UNCHANGED <<policy, consent, link, req, cut>>

ValidateTokenExchangeRequest(r, source, P) ==
    LET u == tok[source].u IN
    /\ req[r].op = "idle" /\ P # {}
    /\ Cardinality({p.resource : p \in P}) = 1
    /\ ActiveToken(source) /\ ~Delegated(source)
    /\ \A p \in P : p.caller = tok[source].app /\ Allowed(u, p)
    /\ req' = [req EXCEPT ![r] = [op |-> "validated", u |-> u, source |-> source, perms |-> P,
                                  seen |-> Committed]]
    /\ UNCHANGED <<policy, consent, link, tok, cut>>

Proceed(r, op) ==
    /\ req' = [req EXCEPT ![r].op = op]
    /\ UNCHANGED <<policy, consent, link, cut>>

\* CreateAccessToken looks at the source token again ...
CreateAccessToken(r) ==
    /\ req[r].op = "validated" /\ ActiveToken(req[r].source)
    /\ Proceed(r, "checked") /\ UNCHANGED tok

\* ... and inserts the delegated one.
InsertAccess(r, t) ==
    LET q == req[r] IN
    /\ q.op = "checked" /\ tok[t].st = "absent"
    /\ tok' = [tok EXCEPT ![t] = [st |-> "live", app |-> tok[q.source].app, u |-> q.u,
                  source |-> q.source, perms |-> q.perms, seen |-> q.seen,
                  born |-> Swept]]
    /\ Proceed(r, "inserted")

\* The response is built, or refused when the source is gone by then; or any
\* earlier step of a request fails.
GetPrivateClaimsFromTokenExchangeRequest(r) ==
    /\ req[r].op # "idle"
    /\ req' = [req EXCEPT ![r] = Idle]
    /\ UNCHANGED <<policy, consent, link, tok, cut>>

-----------------------------------------------------------------------------

Next ==
    \/ \E p \in Perms : setExchangePolicy(p)
    \/ \E u \in Users, a \in Apps : LinkActivated(u, a)
    \/ \E w \in Cuts :
         \/ \E u \in Users, p \in Perms : RevokeConsent(w, u, p)
         \/ \E u \in Users, a \in Apps : RevokeLink(w, u, a)
         \/ Commit(w) \/ Rollback(w)
    \/ \E t \in Tokens : TokenEnds(t) \/ \E u \in Users, a \in Apps : UserToken(t, u, a)
    \/ \E r \in Reqs :
         \/ \E u \in Users, p \in Perms : setDelegation(r, u, p)
         \/ GrantConsent(r) \/ CreateAccessToken(r)
         \/ \E s \in Tokens, P \in SUBSET Perms : ValidateTokenExchangeRequest(r, s, P)
         \/ \E t \in Tokens : InsertAccess(r, t)
         \/ GetPrivateClaimsFromTokenExchangeRequest(r)

Spec == Init /\ [][Next]_vars

-----------------------------------------------------------------------------
(* Properties.                                                             *)

\* No delegated token outlives a withdrawal that it was there for: a policy turned off,
\* a consent or a link of either application revoked ends, when it commits, what had been
\* inserted before its sweep of access_tokens, and granting the permission again does not
\* bring it back.
WithdrawalEndsDelegation ==
    \A t \in Tokens : ActiveToken(t) /\ Delegated(t) =>
        \A p \in tok[t].perms, w \in Committed : Hits(w, tok[t].u, p) => w \in tok[t].born

\* An active delegated token whose permission is gone comes from a race with a withdrawal:
\* its request was validated before the withdrawal committed, and it was inserted after
\* the withdrawal's sweep.  No other order leaves one behind.
OnlyRacesOutlivePermission ==
    \A t \in Tokens : ActiveToken(t) /\ Delegated(t) =>
        \A p \in tok[t].perms :
            \/ Allowed(tok[t].u, p)
            \/ \E w \in Committed : /\ Hits(w, tok[t].u, p)
                                    /\ w \notin tok[t].seen /\ w \in tok[t].born

\* "Introspection refuses an exchanged token once its source token or the
\* target's link has been revoked."
RevokedTargetRefuses ==
    \A t \in Tokens, a \in Apps : Delegated(t) /\ tok[t].app # a /\ Introspects(t, a)
                                  => <<tok[t].u, a>> \in link

=============================================================================
