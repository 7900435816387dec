--------------------------- MODULE OutboxDelivery ---------------------------
(***************************************************************************)
(* The outbox table and the workers that deliver its events               *)
(* (internal/core: events.go, outbox_admin.go, maintenance.go; the worker  *)
(* goroutine of cmd/fastcas/main.go).                                      *)
(*                                                                         *)
(* A worker is a delivery goroutine of some server process.  It claims a   *)
(* row in one statement, posts the event over HTTP with no transaction     *)
(* open, and completes the row in another statement, guarded by the lease  *)
(* token it wrote.  A worker handles one event at a time, so its name      *)
(* stands for the random token of its current claim.                       *)
(*                                                                         *)
(* available_at and lease_until are abstracted to whether they have        *)
(* passed.  The receiving application is external.                         *)
(***************************************************************************)
EXTENDS Naturals, FiniteSets

CONSTANTS
    Events,       \* outbox.id, the jti of the signed event
    Workers,      \* delivery goroutines of all server processes
    MaxAttempts,  \* the 12 of events.go:119
    MaxCrashes,   \* bound: how many workers die in the middle of a delivery
    MaxSlips,     \* bound: how many leases run out under a worker still running
    None

ASSUME AttemptsAssumption == MaxAttempts \in Nat \ {0}
ASSUME BoundsAssumption == MaxCrashes \in Nat /\ MaxSlips \in Nat
ASSUME NoneAssumption == None \notin Workers /\ None \notin Events

VARIABLES
    row,       \* the outbox table
    recorded,  \* outbox_attempts rows of an event since it was last (re)queued
    worker,    \* each worker's local variables
    acked,     \* external: events the application has answered with 2xx
    stray,     \* external: requests whose sender no longer waits for them
    crashes,   \* history: worker crashes so far
    slips      \* history: leases that ran out under a running worker

vars == <<row, recorded, worker, acked, stray, crashes, slips>>

Settled == {"delivered", "dead"}

Row == [st: {"absent", "pending", "delivered", "dead", "purged"},
        attempts: Nat,
        lease: Workers \cup {None},  \* lease_token
        held: BOOLEAN,               \* lease_until is set and has not passed
        due: BOOLEAN]                \* available_at has passed

Worker == [pc: {"idle", "claimed", "posted", "done"},
           event: Events \cup {None},
           reply: {"none", "ok", "refused"}]

Resting == [pc |-> "idle", event |-> None, reply |-> "none"]

\* Variables hold what the schema and the Go types allow.
TypeOK ==
    /\ row \in [Events -> Row]
    /\ recorded \in [Events -> Nat]
    /\ worker \in [Workers -> Worker]
    /\ acked \subseteq Events
    /\ stray \subseteq Events
    /\ crashes \in 0..MaxCrashes
    /\ slips \in 0..MaxSlips

Init ==
    /\ row = [e \in Events |-> [st |-> "absent", attempts |-> 0, lease |-> None,
                                held |-> FALSE, due |-> FALSE]]
    /\ recorded = [e \in Events |-> 0]
    /\ worker = [w \in Workers |-> Resting]
    /\ acked = {}
    /\ stray = {}
    /\ crashes = 0
    /\ slips = 0

Delivering(w, e) == worker[w].pc # "idle" /\ worker[w].event = e

-----------------------------------------------------------------------------
(* The table.                                                              *)

\* INSERT INTO outbox by a link revocation, a status change or a logout.
Queue(e) ==
    /\ row[e].st = "absent"
    /\ row' = [row EXCEPT ![e].st = "pending", ![e].due = TRUE]
    /\ UNCHANGED <<recorded, worker, acked, stray, crashes, slips>>

\* Mutants: the lease is not looked at; a lease that ran out still counts.
ClaimableLeased(e) == row[e].st = "pending" /\ row[e].due
ClaimableNever(e) == row[e].st = "pending" /\ row[e].due /\ row[e].lease = None

\* The claim's WHERE clause.
Claimable(e) == row[e].st = "pending" /\ row[e].due /\ ~row[e].held

\* UPDATE ... FROM candidate: the attempt is counted when it starts.
Claim(w, e) ==
    /\ worker[w].pc = "idle"
    /\ Claimable(e)
    /\ row' = [row EXCEPT ![e].lease = w, ![e].held = TRUE,
                          ![e].attempts = row[e].attempts + 1]
    /\ worker' = [worker EXCEPT ![w] = [pc |-> "claimed", event |-> e, reply |-> "none"]]
    /\ UNCHANGED <<recorded, acked, stray, crashes, slips>>

\* The application is unknown or inactive, has no endpoint, or signing fails.
CannotSend(w) ==
    /\ worker[w].pc = "claimed"
    /\ worker' = [worker EXCEPT ![w].pc = "done"]
    /\ UNCHANGED <<row, recorded, acked, stray, crashes, slips>>

Post(w) ==
    /\ worker[w].pc = "claimed"
    /\ worker' = [worker EXCEPT ![w].pc = "posted"]
    /\ UNCHANGED <<row, recorded, acked, stray, crashes, slips>>

\* The response arrives: only 2xx confirms.
Respond(w) ==
    /\ worker[w].pc = "posted"
    /\ worker[w].reply # "none"
    /\ worker' = [worker EXCEPT ![w].pc = "done"]
    /\ UNCHANGED <<row, recorded, acked, stray, crashes, slips>>

\* Connection error or the 10 s client timeout; the response may be on its way
\* and the request may still reach the application.
Timeout(w) ==
    /\ worker[w].pc = "posted"
    /\ worker' = [worker EXCEPT ![w].pc = "done", ![w].reply = "none"]
    /\ stray' = IF worker[w].reply = "none" THEN stray \cup {worker[w].event} ELSE stray
    /\ UNCHANGED <<row, recorded, acked, crashes, slips>>

\* The SET clause of the completion.
Completed(r, ok) ==
    [r EXCEPT !.st = IF ok THEN "delivered"
                     ELSE IF r.attempts >= MaxAttempts THEN "dead" ELSE "pending",
              !.lease = None, !.held = FALSE, !.due = FALSE]

\* Mutant: the completion's WHERE clause names only the event.
CompleteUnfenced(w) ==
    LET e == worker[w].event IN
    /\ worker[w].pc = "done"
    /\ row' = [row EXCEPT ![e] = Completed(row[e], worker[w].reply = "ok")]
    /\ recorded' = [recorded EXCEPT ![e] = recorded[e] + 1]
    /\ worker' = [worker EXCEPT ![w] = Resting]
    /\ UNCHANGED <<acked, stray, crashes, slips>>

\* One statement updates the row and appends the attempt, if the lease is ours.
Complete(w) ==
    LET e == worker[w].event IN
    /\ worker[w].pc = "done"
    /\ IF row[e].lease = w
       THEN /\ row' = [row EXCEPT ![e] = Completed(row[e], worker[w].reply = "ok")]
            /\ recorded' = [recorded EXCEPT ![e] = recorded[e] + 1]
       ELSE UNCHANGED <<row, recorded>>
    /\ worker' = [worker EXCEPT ![w] = Resting]
    /\ UNCHANGED <<acked, stray, crashes, slips>>

\* The process dies, or shuts down and cancels the delivery's context: the lease
\* stays in the row and the attempt is not recorded.
Crash(w) ==
    /\ worker[w].pc # "idle"
    /\ crashes < MaxCrashes
    /\ crashes' = crashes + 1
    /\ stray' = IF worker[w].pc = "posted" /\ worker[w].reply = "none"
                THEN stray \cup {worker[w].event} ELSE stray
    /\ worker' = [worker EXCEPT ![w] = Resting]
    /\ UNCHANGED <<row, recorded, acked, slips>>

-----------------------------------------------------------------------------
(* Time.                                                                   *)

\* available_at passes.
BackoffEnds(e) ==
    /\ row[e].st = "pending"
    /\ ~row[e].due
    /\ row' = [row EXCEPT ![e].due = TRUE]
    /\ UNCHANGED <<recorded, worker, acked, stray, crashes, slips>>

\* lease_until passes after its holder died.
LeaseEnds(e) ==
    /\ row[e].held
    /\ ~Delivering(row[e].lease, e)
    /\ row' = [row EXCEPT ![e].held = FALSE]
    /\ UNCHANGED <<recorded, worker, acked, stray, crashes, slips>>

\* lease_until passes although its holder is still at work, held up for longer
\* than the 30 s that should cover the 10 s HTTP timeout.
LeaseSlips(e) ==
    /\ row[e].held
    /\ Delivering(row[e].lease, e)
    /\ slips < MaxSlips
    /\ slips' = slips + 1
    /\ row' = [row EXCEPT ![e].held = FALSE]
    /\ UNCHANGED <<recorded, worker, acked, stray, crashes>>

-----------------------------------------------------------------------------
(* Administration and retention.                                           *)

RetryDeadEvent(e) ==
    /\ row[e].st = "dead"
    /\ ~row[e].held
    /\ row' = [row EXCEPT ![e] = [st |-> "pending", attempts |-> 0, lease |-> None,
                                  held |-> FALSE, due |-> TRUE]]
    /\ recorded' = [recorded EXCEPT ![e] = 0]
    /\ UNCHANGED <<worker, acked, stray, crashes, slips>>

\* Maintenance deletes rows delivered more than 90 days ago, attempts included.
Purge(e) ==
    /\ row[e].st = "delivered"
    /\ row' = [row EXCEPT ![e].st = "purged"]
    /\ recorded' = [recorded EXCEPT ![e] = 0]
    /\ UNCHANGED <<worker, acked, stray, crashes, slips>>

-----------------------------------------------------------------------------
(* The application's endpoint (external).                                  *)

Accept(w) ==
    /\ worker[w].pc = "posted" /\ worker[w].reply = "none"
    /\ acked' = acked \cup {worker[w].event}
    /\ worker' = [worker EXCEPT ![w].reply = "ok"]
    /\ UNCHANGED <<row, recorded, stray, crashes, slips>>

Refuse(w) ==
    /\ worker[w].pc = "posted" /\ worker[w].reply = "none"
    /\ worker' = [worker EXCEPT ![w].reply = "refused"]
    /\ UNCHANGED <<row, recorded, acked, stray, crashes, slips>>

\* A request whose sender gave up is processed late, or never.
LateArrival(e) ==
    /\ e \in stray
    /\ stray' = stray \ {e}
    /\ acked' = acked \cup {e}
    /\ UNCHANGED <<row, recorded, worker, crashes, slips>>

-----------------------------------------------------------------------------

WorkerStep(w) ==
    CannotSend(w) \/ Post(w) \/ Respond(w) \/ Timeout(w) \/ Complete(w)

Next ==
    \/ \E w \in Workers : WorkerStep(w) \/ Crash(w) \/ Accept(w) \/ Refuse(w)
    \/ \E w \in Workers, e \in Events : Claim(w, e)
    \/ \E e \in Events :
          \/ Queue(e) \/ BackoffEnds(e) \/ LeaseEnds(e) \/ LeaseSlips(e)
          \/ RetryDeadEvent(e) \/ Purge(e) \/ LateArrival(e)

Spec == Init /\ [][Next]_vars

\* A running worker finishes what it started (its HTTP client times out), time
\* passes, and the worker loop claims oldest first (ORDER BY available_at,id): a
\* due row that is claimable whenever a worker looks is not passed over for ever.
Fairness ==
    /\ \A w \in Workers : WF_vars(WorkerStep(w))
    /\ \A e \in Events : WF_vars(BackoffEnds(e)) /\ WF_vars(LeaseEnds(e))
    /\ \A e \in Events : SF_vars(\E w \in Workers : Claim(w, e))

FairSpec == Spec /\ Fairness

-----------------------------------------------------------------------------
(* Properties.                                                             *)

\* The outbox keeps its promise: delivered only after an acknowledgement and
\* never taken back, although a slow worker may report a failure after a newer
\* worker's success (DeliverEvent: "Lease fencing prevents a slow worker from
\* overwriting a newer worker's result").
Abstract == INSTANCE OutboxAbstract WITH state <- [e \in Events |-> row[e].st]
KeepsPromise == Abstract!Spec

\* A settled row carries no lease, so RetryDeadEvent "never steals a live worker
\* lease" and no worker of an earlier round can complete the retried event.
SettledIsUnleased ==
    \A e \in Events : row[e].st \in Settled => row[e].lease = None /\ ~row[e].held

\* Each claim is recorded at most once, by the worker that made it: the history
\* of a round never shows more attempts than were claimed in it, and a round
\* with a delivery in progress shows fewer.
RecordedByClaimant ==
    \A e \in Events :
        /\ recorded[e] <= row[e].attempts
        /\ row[e].lease # None => recorded[e] < row[e].attempts

\* Two workers deliver the same event at the same time only if a lease ran out
\* under one of them.
DeliveryIsExclusive ==
    \A e \in Events : Cardinality({w \in Workers : Delivering(w, e)}) <= 1 + slips

\* Every queued or retried event is eventually delivered or dead, whatever the
\* application answers, once workers stop dying and stalling.
EventuallySettled ==
    \A e \in Events : row[e].st = "pending" ~> row[e].st \in Settled

\* What docs/events.md says of a dead event: it has failed MaxAttempts times.
DeadMeansMaxFailures ==
    \A e \in Events : row[e].st = "dead" => recorded[e] >= MaxAttempts

=============================================================================
