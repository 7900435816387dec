------------------------ MODULE OutboxDeliveryProofs ------------------------
(***************************************************************************)
(* Proofs about OutboxDelivery, for any number of events, workers and      *)
(* attempts.                                                               *)
(***************************************************************************)
EXTENDS OutboxDelivery, FiniteSetTheorems, TLAPS

\* A lease is only ever on a pending row, and lease_until only beside a token.
LeaseOnPending ==
    \A e \in Events : /\ row[e].lease # None => row[e].st = "pending"
                      /\ row[e].held => row[e].lease # None

\* A worker at work has a queued event; a 2xx it holds was an acknowledgement.
WorkerKnows ==
    \A w \in Workers :
        /\ worker[w].pc # "idle" => /\ worker[w].event \in Events
                                    /\ row[worker[w].event].st # "absent"
        /\ worker[w].reply = "ok" => worker[w].event \in acked

\* Requests on the wire are about queued events.
StrayQueued == \A e \in stray : row[e].st # "absent"

\* The inductive invariant: what lease fencing preserves.
FencingInv == TypeOK /\ LeaseOnPending /\ WorkerKnows /\ StrayQueued

-----------------------------------------------------------------------------

\* The completion's SET clause keeps the row's type and drops its lease.
LEMMA CompletedRow ==
    ASSUME NEW r \in Row, NEW ok \in BOOLEAN
    PROVE  /\ Completed(r, ok) \in Row
           /\ Completed(r, ok).lease = None
           /\ Completed(r, ok).held = FALSE
           /\ Completed(r, ok).attempts = r.attempts
           /\ Completed(r, ok).st \in {"delivered", "dead", "pending"}
           /\ Completed(r, ok).st = "delivered" <=> ok
BY DEF Row, Completed

\* Every step of DeliverEvent, RetryDeadEvent and Maintenance writes values of
\* the column's and the variable's types.
LEMMA TypeStep == TypeOK /\ WorkerKnows /\ [Next]_vars => TypeOK'
<1> SUFFICES ASSUME TypeOK, WorkerKnows, [Next]_vars PROVE TypeOK'
    OBVIOUS
<1>1. ASSUME NEW w \in Workers, NEW e \in Events, Claim(w, e) PROVE TypeOK'
    BY <1>1 DEF Claim, TypeOK, Row, Worker
<1>2. ASSUME NEW w \in Workers, CannotSend(w) PROVE TypeOK'
    BY <1>2 DEF CannotSend, TypeOK, Worker
<1>3. ASSUME NEW w \in Workers, Post(w) PROVE TypeOK'
    BY <1>3 DEF Post, TypeOK, Worker
<1>4. ASSUME NEW w \in Workers, Respond(w) PROVE TypeOK'
    BY <1>4 DEF Respond, TypeOK, Worker
<1>5. ASSUME NEW w \in Workers, Timeout(w) PROVE TypeOK'
    BY <1>5 DEF Timeout, WorkerKnows, TypeOK, Worker
<1>6. ASSUME NEW w \in Workers, Complete(w) PROVE TypeOK'
  <2>1. worker[w].event \in Events
    BY <1>6 DEF WorkerKnows, Complete
  <2>2. Completed(row[worker[w].event], worker[w].reply = "ok") \in Row
    BY <2>1, CompletedRow DEF TypeOK
  <2>3. row' \in [Events -> Row]
    BY <1>6, <2>1, <2>2 DEF TypeOK, Complete
  <2>4. recorded' \in [Events -> Nat]
    BY <1>6, <2>1 DEF TypeOK, Complete
  <2>5. worker' \in [Workers -> Worker]
    BY <1>6 DEF TypeOK, Complete, Resting, Worker
  <2> QED
    BY <1>6, <2>3, <2>4, <2>5 DEF TypeOK, Complete
<1>7. ASSUME NEW w \in Workers, Crash(w) PROVE TypeOK'
    BY <1>7, BoundsAssumption DEF Crash, Resting, WorkerKnows, TypeOK, Worker
<1>8. ASSUME NEW w \in Workers, Accept(w) PROVE TypeOK'
    BY <1>8 DEF Accept, WorkerKnows, TypeOK, Worker
<1>9. ASSUME NEW w \in Workers, Refuse(w) PROVE TypeOK'
    BY <1>9 DEF Refuse, TypeOK, Worker
<1>10. ASSUME NEW e \in Events, Queue(e) PROVE TypeOK'
    BY <1>10 DEF Queue, TypeOK, Row
<1>11. ASSUME NEW e \in Events, BackoffEnds(e) PROVE TypeOK'
    BY <1>11 DEF BackoffEnds, TypeOK, Row
<1>12. ASSUME NEW e \in Events, LeaseEnds(e) PROVE TypeOK'
    BY <1>12 DEF LeaseEnds, TypeOK, Row
<1>13. ASSUME NEW e \in Events, LeaseSlips(e) PROVE TypeOK'
  <2>1. row' \in [Events -> Row]
    BY <1>13 DEF LeaseSlips, TypeOK, Row
  <2>2. slips' \in 0..MaxSlips
    BY <1>13, BoundsAssumption DEF LeaseSlips, TypeOK
  <2> QED
    BY <1>13, <2>1, <2>2 DEF LeaseSlips, TypeOK
<1>14. ASSUME NEW e \in Events, RetryDeadEvent(e) PROVE TypeOK'
    BY <1>14 DEF RetryDeadEvent, TypeOK, Row
<1>15. ASSUME NEW e \in Events, Purge(e) PROVE TypeOK'
    BY <1>15 DEF Purge, TypeOK, Row
<1>16. ASSUME NEW e \in Events, LateArrival(e) PROVE TypeOK'
    BY <1>16 DEF LateArrival, TypeOK
<1>17. CASE UNCHANGED vars
    BY <1>17 DEF vars, TypeOK
<1> QED
    BY <1>1, <1>2, <1>3, <1>4, <1>5, <1>6, <1>7, <1>8, <1>9, <1>10, <1>11, <1>12,
       <1>13, <1>14, <1>15, <1>16, <1>17 DEF Next, WorkerStep

\* A completion that the lease does not fence off leaves the row unleased, and
\* every other step keeps the lease of a pending row or takes it with its token.
LEMMA LeaseStep ==
    TypeOK /\ LeaseOnPending /\ WorkerKnows /\ [Next]_vars => LeaseOnPending'
<1> SUFFICES ASSUME TypeOK, LeaseOnPending, WorkerKnows, [Next]_vars PROVE LeaseOnPending'
    OBVIOUS
<1>1. ASSUME NEW w \in Workers, NEW e \in Events, Claim(w, e) PROVE LeaseOnPending'
    BY <1>1, NoneAssumption DEF Claim, Claimable, LeaseOnPending, TypeOK, Row
<1>2. ASSUME NEW w \in Workers, Complete(w) PROVE LeaseOnPending'
  <2> DEFINE e == worker[w].event
             c == Completed(row[e], worker[w].reply = "ok")
  <2>1. e \in Events
    BY <1>2 DEF WorkerKnows, Complete
  <2>2. CASE row[e].lease = w
    <3>1. c.lease = None /\ c.held = FALSE
      BY <2>1, CompletedRow DEF TypeOK
    <3> QED
      BY <1>2, <2>1, <2>2, <3>1 DEF TypeOK, LeaseOnPending, Complete
  <2>3. CASE row[e].lease # w
    BY <1>2, <2>3 DEF LeaseOnPending, Complete
  <2> QED
    BY <2>2, <2>3
<1>3. ASSUME NEW e \in Events, Queue(e) PROVE LeaseOnPending'
    BY <1>3 DEF Queue, LeaseOnPending, TypeOK, Row
<1>4. ASSUME NEW e \in Events, BackoffEnds(e) PROVE LeaseOnPending'
    BY <1>4 DEF BackoffEnds, LeaseOnPending, TypeOK, Row
<1>5. ASSUME NEW e \in Events, LeaseEnds(e) \/ LeaseSlips(e) PROVE LeaseOnPending'
    BY <1>5 DEF LeaseEnds, LeaseSlips, LeaseOnPending, TypeOK, Row
<1>6. ASSUME NEW e \in Events, RetryDeadEvent(e) PROVE LeaseOnPending'
    BY <1>6 DEF RetryDeadEvent, LeaseOnPending, TypeOK, Row
<1>7. ASSUME NEW e \in Events, Purge(e) PROVE LeaseOnPending'
    BY <1>7 DEF Purge, LeaseOnPending, TypeOK, Row
<1>8. ASSUME UNCHANGED row PROVE LeaseOnPending'
    BY <1>8 DEF LeaseOnPending
<1>9. CASE \E w \in Workers : \/ CannotSend(w) \/ Post(w) \/ Respond(w) \/ Timeout(w)
                              \/ Crash(w) \/ Accept(w) \/ Refuse(w)
    BY <1>8, <1>9 DEF CannotSend, Post, Respond, Timeout, Crash, Accept, Refuse
<1>10. CASE \E e \in Events : LateArrival(e)
    BY <1>8, <1>10 DEF LateArrival
<1>11. CASE UNCHANGED vars
    BY <1>8, <1>11 DEF vars
<1> QED
    BY <1>1, <1>2, <1>3, <1>4, <1>5, <1>6, <1>7, <1>9, <1>10, <1>11 DEF Next, WorkerStep

\* No step makes a queued event absent again.
LEMMA QueuedStaysQueued ==
    ASSUME TypeOK, WorkerKnows, [Next]_vars, NEW e \in Events, row[e].st # "absent"
    PROVE  row'[e].st # "absent"
<1>1. ASSUME NEW w \in Workers, NEW d \in Events, Claim(w, d) PROVE row'[e].st # "absent"
    BY <1>1 DEF Claim, TypeOK, Row
<1>2. ASSUME NEW w \in Workers, Complete(w) PROVE row'[e].st # "absent"
  <2>1. worker[w].event \in Events
    BY <1>2 DEF WorkerKnows, Complete
  <2>2. Completed(row[worker[w].event], worker[w].reply = "ok").st # "absent"
    BY <2>1, CompletedRow DEF TypeOK
  <2> QED
    BY <1>2, <2>1, <2>2 DEF Complete, TypeOK
<1>3. ASSUME NEW d \in Events, Queue(d) \/ BackoffEnds(d) PROVE row'[e].st # "absent"
    BY <1>3 DEF Queue, BackoffEnds, TypeOK, Row
<1>4. ASSUME NEW d \in Events, LeaseEnds(d) \/ LeaseSlips(d) PROVE row'[e].st # "absent"
    BY <1>4 DEF LeaseEnds, LeaseSlips, TypeOK, Row
<1>5. ASSUME NEW d \in Events, RetryDeadEvent(d) PROVE row'[e].st # "absent"
    BY <1>5 DEF RetryDeadEvent, TypeOK, Row
<1>6. ASSUME NEW d \in Events, Purge(d) PROVE row'[e].st # "absent"
    BY <1>6 DEF Purge, TypeOK, Row
<1>7. CASE \E w \in Workers : \/ CannotSend(w) \/ Post(w) \/ Respond(w) \/ Timeout(w)
                              \/ Crash(w) \/ Accept(w) \/ Refuse(w)
    BY <1>7 DEF CannotSend, Post, Respond, Timeout, Crash, Accept, Refuse
<1>8. CASE \E d \in Events : LateArrival(d)
    BY <1>8 DEF LateArrival
<1>9. CASE UNCHANGED vars
    BY <1>9 DEF vars
<1> QED
    BY <1>1, <1>2, <1>3, <1>4, <1>5, <1>6, <1>7, <1>8, <1>9 DEF Next, WorkerStep

\* A worker holds a 2xx only for an event the application has acknowledged.
LEMMA WorkerKnowsStep == TypeOK /\ WorkerKnows /\ [Next]_vars => WorkerKnows'
<1> SUFFICES ASSUME TypeOK, WorkerKnows, [Next]_vars PROVE WorkerKnows'
    OBVIOUS
<1> DEFINE Knows(w) == /\ worker[w].pc # "idle" => /\ worker[w].event \in Events
                                                   /\ row[worker[w].event].st # "absent"
                       /\ worker[w].reply = "ok" => worker[w].event \in acked
<1> SUFFICES ASSUME NEW v \in Workers PROVE Knows(v)'
    BY DEF WorkerKnows
<1>1. Knows(v)
    BY DEF WorkerKnows
<1>2. acked \subseteq acked'
    BY DEF Next, vars, WorkerStep, Claim, CannotSend, Post, Respond, Timeout, Complete, Crash,
           Accept, Refuse, Queue, BackoffEnds, LeaseEnds, LeaseSlips, RetryDeadEvent, Purge,
           LateArrival
<1>3. ASSUME worker'[v] = worker[v] PROVE Knows(v)'
    BY <1>1, <1>2, <1>3, QueuedStaysQueued
<1>4. ASSUME worker'[v] = Resting PROVE Knows(v)'
    BY <1>4 DEF Resting
<1>5. ASSUME NEW w \in Workers, NEW e \in Events, Claim(w, e) PROVE Knows(v)'
  <2>1. CASE v = w
    <3>1. worker'[v] = [pc |-> "claimed", event |-> e, reply |-> "none"]
      BY <1>5, <2>1 DEF Claim, TypeOK
    <3>2. row[e].st # "absent"
      BY <1>5 DEF Claim, Claimable
    <3> QED
      BY <3>1, <3>2, QueuedStaysQueued
  <2>2. CASE v # w
    BY <1>3, <1>5, <2>2 DEF Claim, TypeOK
  <2> QED
    BY <2>1, <2>2
<1>6. ASSUME NEW w \in Workers, CannotSend(w) \/ Post(w) \/ Respond(w) \/ Timeout(w)
      PROVE Knows(v)'
  <2>1. CASE v = w
    <3>1. /\ worker[v].pc # "idle"
          /\ worker'[v].event = worker[v].event
          /\ worker'[v].reply \in {worker[v].reply, "none"}
      BY <1>6, <2>1 DEF CannotSend, Post, Respond, Timeout, TypeOK, Worker
    <3> QED
      BY <1>1, <1>2, <3>1, QueuedStaysQueued
  <2>2. CASE v # w
    BY <1>3, <1>6, <2>2 DEF CannotSend, Post, Respond, Timeout, TypeOK
  <2> QED
    BY <2>1, <2>2
<1>7. ASSUME NEW w \in Workers, Complete(w) \/ Crash(w) PROVE Knows(v)'
    BY <1>3, <1>4, <1>7 DEF Complete, Crash, TypeOK
<1>8. ASSUME NEW w \in Workers, Accept(w) \/ Refuse(w) PROVE Knows(v)'
  <2>1. CASE v = w
    <3>1. /\ worker[v].pc # "idle"
          /\ worker'[v].event = worker[v].event
          /\ \/ worker'[v].reply = "refused"
             \/ worker[v].event \in acked'
      BY <1>8, <2>1 DEF Accept, Refuse, TypeOK, Worker
    <3> QED
      BY <1>1, <3>1, QueuedStaysQueued
  <2>2. CASE v # w
    BY <1>3, <1>8, <2>2 DEF Accept, Refuse, TypeOK
  <2> QED
    BY <2>1, <2>2
<1>9. CASE \E e \in Events : \/ Queue(e) \/ BackoffEnds(e) \/ LeaseEnds(e) \/ LeaseSlips(e)
                             \/ RetryDeadEvent(e) \/ Purge(e) \/ LateArrival(e)
    BY <1>3, <1>9 DEF Queue, BackoffEnds, LeaseEnds, LeaseSlips, RetryDeadEvent, Purge,
                      LateArrival
<1>10. CASE UNCHANGED vars
    BY <1>3, <1>10 DEF vars
<1> HIDE DEF Knows
<1> QED
    BY <1>5, <1>6, <1>7, <1>8, <1>9, <1>10 DEF Next, WorkerStep

\* A request leaves its sender only for the wire, so it is about a queued event.
LEMMA StrayStep == TypeOK /\ WorkerKnows /\ StrayQueued /\ [Next]_vars => StrayQueued'
<1> SUFFICES ASSUME TypeOK, WorkerKnows, StrayQueued, [Next]_vars, NEW e \in stray'
             PROVE row'[e].st # "absent"
    BY DEF StrayQueued
<1>1. e \in Events /\ row[e].st # "absent"
  <2>1. CASE \E w \in Workers : Timeout(w) \/ Crash(w)
    BY <2>1 DEF Timeout, Crash, WorkerKnows, StrayQueued, TypeOK
  <2>2. CASE stray' \subseteq stray
    BY <2>2 DEF StrayQueued, TypeOK
  <2> QED
    BY <2>1, <2>2 DEF Next, vars, WorkerStep, Claim, CannotSend, Post, Respond, Complete,
         Accept, Refuse, Queue, BackoffEnds, LeaseEnds, LeaseSlips, RetryDeadEvent, Purge,
         LateArrival
<1> QED
    BY <1>1, QueuedStaysQueued

\* Fencing holds initially and in every reachable state.
LEMMA Fencing == Spec => []FencingInv
<1>1. Init => FencingInv
    BY BoundsAssumption, NoneAssumption
    DEF Init, FencingInv, TypeOK, Row, Worker, Resting, LeaseOnPending, WorkerKnows, StrayQueued
<1>2. FencingInv /\ [Next]_vars => FencingInv'
    BY TypeStep, LeaseStep, WorkerKnowsStep, StrayStep DEF FencingInv
<1> QED
    BY <1>1, <1>2, PTL DEF Spec

-----------------------------------------------------------------------------
(* The theorems.                                                           *)

\* The rows, the workers and the history keep their types under every schedule of
\* workers, crashes and late replies.
THEOREM TypeCorrect == Spec => []TypeOK
<1>1. FencingInv => TypeOK
    BY DEF FencingInv
<1> QED
    BY <1>1, Fencing, PTL

\* Delivered and dead rows carry no lease: what RetryDeadEvent relies on when it
\* resets a dead row without asking whether a worker still holds it.
THEOREM SettledUnleased == Spec => []SettledIsUnleased
<1>1. FencingInv => SettledIsUnleased
    BY DEF FencingInv, LeaseOnPending, SettledIsUnleased, Settled
<1> QED
    BY <1>1, Fencing, PTL

\* A claim is recorded at most once, by its own worker: a completion finds its
\* lease only if the attempt it claimed has not been recorded yet.
THEOREM RecordedOnce == Spec => []RecordedByClaimant
<1> DEFINE Counted(e) == /\ recorded[e] <= row[e].attempts
                         /\ row[e].lease # None => recorded[e] < row[e].attempts
<1>1. Init => RecordedByClaimant
    BY DEF Init, RecordedByClaimant
<1>2. ASSUME FencingInv, RecordedByClaimant, [Next]_vars PROVE RecordedByClaimant'
  <2> SUFFICES ASSUME NEW e \in Events PROVE Counted(e)'
    BY DEF RecordedByClaimant
  <2>1. /\ Counted(e) /\ row[e] \in Row /\ recorded[e] \in Nat /\ row[e].attempts \in Nat
        /\ row \in [Events -> Row] /\ recorded \in [Events -> Nat]
    BY <1>2 DEF FencingInv, TypeOK, RecordedByClaimant, Row
  <2>2. ASSUME /\ recorded'[e] = recorded[e] /\ row'[e].attempts = row[e].attempts
               /\ row'[e].lease = row[e].lease
        PROVE  Counted(e)'
    BY <2>1, <2>2
  <2>3. ASSUME NEW w \in Workers, NEW d \in Events, Claim(w, d) PROVE Counted(e)'
    BY <2>1, <2>3, NoneAssumption DEF Claim, Row
  <2>4. ASSUME NEW w \in Workers, Complete(w) PROVE Counted(e)'
    <3> DEFINE d == worker[w].event
               c == Completed(row[d], worker[w].reply = "ok")
    <3>1. d \in Events
      BY <1>2, <2>4 DEF FencingInv, WorkerKnows, Complete
    <3>2. CASE row[d].lease = w /\ d = e
      <4>1. c.lease = None /\ c.attempts = row[e].attempts
        BY <2>1, <3>2, CompletedRow
      <4>2. row'[e] = c /\ recorded'[e] = recorded[e] + 1
        BY <2>1, <2>4, <3>2 DEF Complete
      <4>3. recorded[e] < row[e].attempts
        BY <2>1, <3>2, NoneAssumption
      <4> QED
        BY <2>1, <4>1, <4>2, <4>3
    <3>3. CASE ~(row[d].lease = w /\ d = e)
      BY <2>1, <2>2, <2>4, <3>3 DEF Complete
    <3> QED
      BY <3>2, <3>3
  <2>5. ASSUME NEW d \in Events, Queue(d) \/ BackoffEnds(d) PROVE Counted(e)'
    BY <2>1, <2>2, <2>5 DEF Queue, BackoffEnds, Row
  <2>6. ASSUME NEW d \in Events, LeaseEnds(d) \/ LeaseSlips(d) PROVE Counted(e)'
    BY <2>1, <2>2, <2>6 DEF LeaseEnds, LeaseSlips, Row
  <2>7. ASSUME NEW d \in Events, RetryDeadEvent(d) PROVE Counted(e)'
    BY <2>1, <2>2, <2>7 DEF RetryDeadEvent
  <2>8. ASSUME NEW d \in Events, Purge(d) PROVE Counted(e)'
    <3>1. row[d].lease = None
      BY <1>2, <2>8 DEF FencingInv, LeaseOnPending, Purge
    <3> QED
      BY <2>1, <2>2, <2>8, <3>1 DEF Purge, Row
  <2>9. CASE UNCHANGED <<row, recorded>>
    BY <2>2, <2>9
  <2> HIDE DEF Counted
  <2> QED
    BY <1>2, <2>3, <2>4, <2>5, <2>6, <2>7, <2>8, <2>9
    DEF Next, WorkerStep, vars, CannotSend, Post, Respond, Timeout, Crash, Accept, Refuse,
        LateArrival
<1> QED
    BY <1>1, <1>2, Fencing, PTL DEF Spec

\* DeliverEvent with its leases, crashes, stale workers and late replies implements
\* OutboxAbstract: an event is marked delivered only after the application has
\* acknowledged it, and a delivered event is never pending or dead again.
THEOREM Refinement == Spec => KeepsPromise
<1> DEFINE st == [e \in Events |-> row[e].st]
<1>1. Init => Abstract!Init
    BY DEF Init, Abstract!Init
<1>2. ASSUME FencingInv, [Next]_vars PROVE [Abstract!Next]_(Abstract!vars)
  <2> USE DEF Abstract!Next, Abstract!vars
  <2>1. TypeOK
    BY <1>2 DEF FencingInv
  <2>2. ASSUME st' = st, acked' = acked PROVE [Abstract!Next]_(Abstract!vars)
    BY <2>2
  <2>3. ASSUME NEW w \in Workers, NEW e \in Events, Claim(w, e) PROVE st' = st /\ acked' = acked
    BY <2>1, <2>3 DEF Claim, TypeOK, Row
  <2>4. ASSUME NEW w \in Workers, Complete(w) PROVE [Abstract!Next]_(Abstract!vars)
    <3> DEFINE e == worker[w].event
               c == Completed(row[e], worker[w].reply = "ok")
    <3>1. e \in Events
      BY <1>2, <2>4 DEF FencingInv, WorkerKnows, Complete
    <3>2. CASE row[e].lease # w
      BY <2>2, <2>4, <3>2 DEF Complete
    <3>3. CASE row[e].lease = w
      <4>1. row[e].st = "pending"
        BY <1>2, <3>1, <3>3, NoneAssumption DEF FencingInv, LeaseOnPending
      <4>2. st' = [st EXCEPT ![e] = c.st] /\ acked' = acked
        BY <2>1, <2>4, <3>1, <3>3 DEF Complete, TypeOK
      <4>3. c.st \in {"delivered", "dead", "pending"} /\ (c.st = "delivered" => e \in acked)
        BY <1>2, <2>1, <3>1, CompletedRow DEF TypeOK, FencingInv, WorkerKnows
      <4>4. CASE c.st = "delivered"
        BY <3>1, <4>1, <4>2, <4>3, <4>4 DEF Abstract!Deliver, Abstract!Move
      <4>5. CASE c.st = "dead"
        BY <3>1, <4>1, <4>2, <4>5 DEF Abstract!GiveUp, Abstract!Move
      <4>6. CASE c.st = "pending"
        BY <2>2, <3>1, <4>1, <4>2, <4>6
      <4> QED
        BY <4>3, <4>4, <4>5, <4>6
    <3> QED
      BY <3>2, <3>3
  <2>5. ASSUME NEW w \in Workers, Accept(w) PROVE [Abstract!Next]_(Abstract!vars)
    BY <1>2, <2>1, <2>5 DEF Accept, FencingInv, WorkerKnows, Abstract!Acknowledge
  <2>6. ASSUME NEW e \in Events, LateArrival(e) PROVE [Abstract!Next]_(Abstract!vars)
    BY <1>2, <2>1, <2>6 DEF LateArrival, FencingInv, StrayQueued, Abstract!Acknowledge
  <2>7. ASSUME NEW e \in Events, Queue(e) PROVE [Abstract!Next]_(Abstract!vars)
    <3>1. st[e] = "absent" /\ st' = [st EXCEPT ![e] = "pending"] /\ acked' = acked
      BY <2>1, <2>7 DEF Queue, TypeOK, Row
    <3> QED
      BY <3>1 DEF Abstract!Queue, Abstract!Move
  <2>8. ASSUME NEW e \in Events, RetryDeadEvent(e) PROVE [Abstract!Next]_(Abstract!vars)
    <3>1. st[e] = "dead" /\ st' = [st EXCEPT ![e] = "pending"] /\ acked' = acked
      BY <2>1, <2>8 DEF RetryDeadEvent, TypeOK, Row
    <3> QED
      BY <3>1 DEF Abstract!Requeue, Abstract!Move
  <2>9. ASSUME NEW e \in Events, Purge(e) PROVE [Abstract!Next]_(Abstract!vars)
    <3>1. st[e] = "delivered" /\ st' = [st EXCEPT ![e] = "purged"] /\ acked' = acked
      BY <2>1, <2>9 DEF Purge, TypeOK, Row
    <3> QED
      BY <3>1 DEF Abstract!Purge, Abstract!Move
  <2>10. ASSUME NEW e \in Events, BackoffEnds(e) \/ LeaseEnds(e) \/ LeaseSlips(e)
         PROVE st' = st /\ acked' = acked
    BY <2>1, <2>10 DEF BackoffEnds, LeaseEnds, LeaseSlips, TypeOK, Row
  <2>11. ASSUME NEW w \in Workers, \/ CannotSend(w) \/ Post(w) \/ Respond(w) \/ Timeout(w)
                                   \/ Crash(w) \/ Refuse(w)
         PROVE st' = st /\ acked' = acked
    BY <2>11 DEF CannotSend, Post, Respond, Timeout, Crash, Refuse
  <2>12. CASE UNCHANGED vars
    BY <2>2, <2>12 DEF vars
  <2> HIDE DEF st, Abstract!Next, Abstract!vars
  <2> QED
    BY <1>2, <2>2, <2>3, <2>4, <2>5, <2>6, <2>7, <2>8, <2>9, <2>10, <2>11, <2>12
    DEF Next, WorkerStep
<1> QED
    BY <1>1, <1>2, Fencing, PTL DEF Spec, KeepsPromise, Abstract!Spec

-----------------------------------------------------------------------------
(* Exclusive delivery.                                                     *)

\* The workers still delivering event e without a lease that is theirs and running.
Stale(e) == {w \in Workers : Delivering(w, e) /\ ~(row[e].held /\ row[e].lease = w)}

\* Each of them was overtaken by the end of its lease.
StaleInv == \A e \in Events : IsFiniteSet(Stale(e)) /\ Cardinality(Stale(e)) <= slips

\* Only a lease that ends under its running holder makes a worker stale: a claim
\* needs a row without a running lease, and completing or dying ends the delivery.
LEMMA StaleGrows ==
    ASSUME FencingInv, [Next]_vars, NEW e \in Events
    PROVE  \/ Stale(e)' \subseteq Stale(e) /\ slips' \in {slips, slips + 1}
           \/ \E x : Stale(e)' \subseteq Stale(e) \cup {x} /\ slips' = slips + 1
<1> DEFINE Shrinks == Stale(e)' \subseteq Stale(e)
<1>0. TypeOK /\ row \in [Events -> Row] /\ worker \in [Workers -> Worker]
    BY DEF FencingInv, TypeOK
<1>1. ASSUME NEW w \in Workers, NEW d \in Events, Claim(w, d) PROVE Shrinks
    BY <1>0, <1>1 DEF Claim, Claimable, Stale, Delivering, Row, Worker
<1>2. ASSUME NEW w \in Workers, CannotSend(w) \/ Post(w) \/ Respond(w) \/ Timeout(w)
                                  \/ Accept(w) \/ Refuse(w)
      PROVE  Shrinks
  <2>1. /\ row' = row /\ worker'[w].event = worker[w].event /\ worker[w].pc # "idle"
        /\ \A v \in Workers \ {w} : worker'[v] = worker[v]
    BY <1>0, <1>2 DEF CannotSend, Post, Respond, Timeout, Accept, Refuse, Worker
  <2> QED
    BY <2>1 DEF Stale, Delivering
<1>3. ASSUME NEW w \in Workers, Complete(w) PROVE Shrinks
  <2> DEFINE d == worker[w].event
             c == Completed(row[d], worker[w].reply = "ok")
  <2>1. d \in Events
    BY <1>3 DEF FencingInv, WorkerKnows, Complete
  <2>2. /\ worker'[w].pc = "idle" /\ \A v \in Workers \ {w} : worker'[v] = worker[v]
    BY <1>0, <1>3 DEF Complete, Resting
  <2>3. CASE row[d].lease = w
    <3>1. \A x \in Events \ {d} : row'[x] = row[x]
      BY <1>0, <1>3, <2>3 DEF Complete
    <3>2. \A v \in Workers \ {w} : row[d].lease # v
      BY <2>3
    <3> QED
      BY <2>1, <2>2, <2>3, <3>1, <3>2 DEF Stale, Delivering
  <2>4. CASE row[d].lease # w
    BY <1>3, <2>2, <2>4 DEF Complete, Stale, Delivering
  <2> QED
    BY <2>3, <2>4
<1>4. ASSUME NEW w \in Workers, Crash(w) PROVE Shrinks
    BY <1>0, <1>4 DEF Crash, Resting, Stale, Delivering
<1>5. ASSUME NEW d \in Events, Queue(d) \/ BackoffEnds(d) \/ Purge(d) PROVE Shrinks
    BY <1>0, <1>5 DEF Queue, BackoffEnds, Purge, Stale, Delivering, Row
<1>6. ASSUME NEW d \in Events, LeaseEnds(d) PROVE Shrinks
    BY <1>0, <1>6 DEF LeaseEnds, Stale, Delivering, Row
<1>7. ASSUME NEW d \in Events, LeaseSlips(d)
      PROVE  Stale(e)' \subseteq Stale(e) \cup {row[d].lease} /\ slips' = slips + 1
    BY <1>0, <1>7 DEF LeaseSlips, Stale, Delivering, Row
<1>8. ASSUME NEW d \in Events, RetryDeadEvent(d) PROVE Shrinks
    BY <1>0, <1>8 DEF RetryDeadEvent, Stale, Delivering, Row
<1>9. ASSUME UNCHANGED <<row, worker>> PROVE Shrinks
    BY <1>9 DEF Stale, Delivering
<1>10. slips' = slips \/ \E d \in Events : LeaseSlips(d)
    BY DEF Next, vars, WorkerStep, Claim, CannotSend, Post, Respond, Timeout, Complete, Crash,
           Accept, Refuse, Queue, BackoffEnds, LeaseEnds, RetryDeadEvent, Purge, LateArrival
<1>11. Shrinks \/ \E d \in Events : LeaseSlips(d)
  <2> HIDE DEF Shrinks
  <2> QED
    BY <1>1, <1>2, <1>3, <1>4, <1>5, <1>6, <1>8, <1>9 DEF Next, vars, WorkerStep, LateArrival
<1> QED
    BY <1>7, <1>10, <1>11

\* Workers deliver the same event side by side only after leases ran out under them:
\* at most one more worker than leases that ended too early, for any number of
\* workers and crashes.
THEOREM Exclusive == Spec => []DeliveryIsExclusive
<1>1. Init => StaleInv
  <2> SUFFICES ASSUME Init, NEW e \in Events PROVE IsFiniteSet(Stale(e)) /\ Cardinality(Stale(e)) <= slips
    BY DEF StaleInv
  <2>1. Stale(e) = {}
    BY DEF Init, Stale, Delivering, Resting
  <2> QED
    BY <2>1, FS_EmptySet DEF Init
<1>2. ASSUME FencingInv, StaleInv, [Next]_vars PROVE StaleInv'
  <2> SUFFICES ASSUME NEW e \in Events
               PROVE  IsFiniteSet(Stale(e)') /\ Cardinality(Stale(e)') <= slips'
    BY DEF StaleInv
  <2> DEFINE S == Stale(e)
             T == Stale(e)'
  <2>1. IsFiniteSet(S) /\ Cardinality(S) <= slips /\ slips \in Nat
    BY <1>2 DEF StaleInv, FencingInv, TypeOK
  <2>2. Cardinality(S) \in Nat
    BY <2>1, FS_CardinalityType
  <2>3. \/ T \subseteq S /\ slips' \in {slips, slips + 1}
        \/ \E x : T \subseteq S \cup {x} /\ slips' = slips + 1
    BY <1>2, StaleGrows
  <2> HIDE DEF S, T
  <2>4. ASSUME T \subseteq S, slips' \in {slips, slips + 1}
        PROVE  IsFiniteSet(T) /\ Cardinality(T) <= slips'
    <3>1. IsFiniteSet(T) /\ Cardinality(T) <= Cardinality(S)
      BY <2>1, <2>4, FS_Subset
    <3>2. Cardinality(T) \in Nat
      BY <3>1, FS_CardinalityType
    <3> QED
      BY <2>1, <2>2, <2>4, <3>1, <3>2
  <2>5. ASSUME NEW x, T \subseteq S \cup {x}, slips' = slips + 1
        PROVE  IsFiniteSet(T) /\ Cardinality(T) <= slips'
    <3>1. IsFiniteSet(S \cup {x}) /\ Cardinality(S \cup {x}) \in {Cardinality(S), Cardinality(S) + 1}
      BY <2>1, FS_AddElement
    <3>2. IsFiniteSet(T) /\ Cardinality(T) <= Cardinality(S \cup {x})
      BY <2>5, <3>1, FS_Subset
    <3>3. Cardinality(T) \in Nat
      BY <3>2, FS_CardinalityType
    <3> QED
      BY <2>1, <2>2, <2>5, <3>1, <3>2, <3>3
  <2>6. IsFiniteSet(T) /\ Cardinality(T) <= slips'
    BY <2>3, <2>4, <2>5
  <2> QED
    BY <2>6 DEF T
<1>3. ASSUME FencingInv, StaleInv PROVE DeliveryIsExclusive
  <2> SUFFICES ASSUME NEW e \in Events
               PROVE  Cardinality({w \in Workers : Delivering(w, e)}) <= 1 + slips
    BY DEF DeliveryIsExclusive
  <2> DEFINE S == Stale(e)
             D == {w \in Workers : Delivering(w, e)}
             x == row[e].lease
  <2>1. IsFiniteSet(S) /\ Cardinality(S) <= slips /\ slips \in Nat
    BY <1>3 DEF StaleInv, FencingInv, TypeOK
  <2>2. D \subseteq S \cup {x}
    BY DEF Stale
  <2> HIDE DEF S, D, x
  <2>3. /\ Cardinality(S) \in Nat /\ IsFiniteSet(S \cup {x})
        /\ Cardinality(S \cup {x}) \in {Cardinality(S), Cardinality(S) + 1}
    BY <2>1, FS_CardinalityType, FS_AddElement
  <2>4. IsFiniteSet(D) /\ Cardinality(D) <= Cardinality(S \cup {x})
    BY <2>2, <2>3, FS_Subset
  <2>5. Cardinality(D) \in Nat
    BY <2>4, FS_CardinalityType
  <2>6. Cardinality(D) <= 1 + slips
    BY <2>1, <2>3, <2>4, <2>5
  <2> QED
    BY <2>6 DEF D
<1> QED
    BY <1>1, <1>2, <1>3, Fencing, PTL DEF Spec

=============================================================================
