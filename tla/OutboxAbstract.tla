--------------------------- MODULE OutboxAbstract ---------------------------
(***************************************************************************)
(* What the outbox promises to the code that queues an event and to the    *)
(* application that receives it, with no workers, leases or attempts:      *)
(* an event is marked delivered only after the application acknowledged    *)
(* it, stays delivered until it is purged, and is otherwise pending or     *)
(* dead.  The application may be told more than once and at any later time.*)
(***************************************************************************)
CONSTANT Events

VARIABLES
    state,  \* of each event
    acked   \* the events the receiving application has acknowledged

vars == <<state, acked>>

Init ==
    /\ state = [e \in Events |-> "absent"]
    /\ acked = {}

Move(e, from, to) ==
    /\ state[e] = from
    /\ state' = [state EXCEPT ![e] = to]
    /\ UNCHANGED acked

Queue(e)   == Move(e, "absent", "pending")
Deliver(e) == e \in acked /\ Move(e, "pending", "delivered")
GiveUp(e)  == Move(e, "pending", "dead")
Requeue(e) == Move(e, "dead", "pending")
Purge(e)   == Move(e, "delivered", "purged")

Acknowledge(e) ==
    /\ state[e] # "absent"
    /\ acked' = acked \cup {e}
    /\ UNCHANGED state

Next ==
    \E e \in Events :
        Queue(e) \/ Deliver(e) \/ GiveUp(e) \/ Requeue(e) \/ Purge(e) \/ Acknowledge(e)

Spec == Init /\ [][Next]_vars

=============================================================================
