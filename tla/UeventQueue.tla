---------------------------- MODULE UeventQueue ----------------------------
(***************************************************************************)
(* What ueventd promises to the authors of filters and handlers.  A filter *)
(* publishes an event at any time.  Waiting events are collected into the  *)
(* batch of their queue, but never while the queue is being served, so a   *)
(* handler sees a batch that only it changes.  A queue is served by one    *)
(* handler at a time; queues are independent of each other.  What the      *)
(* handler leaves in the batch is served again.                            *)
(***************************************************************************)
CONSTANTS Queue, Event, QueueOf

VARIABLES
    state,     \* "new", "waiting", "batch" or "finished"
    serving    \* the queues a handler runs for

qvars == <<state, serving>>

Batch(q) == {e \in Event : state[e] = "batch" /\ QueueOf[e] = q}

QInit ==
    /\ state = [e \in Event |-> "new"]
    /\ serving = {}

Arrive(e) ==
    /\ state[e] = "new"
    /\ state' = [state EXCEPT ![e] = "waiting"]
    /\ UNCHANGED serving

Collect(e) ==
    /\ state[e] = "waiting" /\ QueueOf[e] \notin serving
    /\ state' = [state EXCEPT ![e] = "batch"]
    /\ UNCHANGED serving

Serve(q) ==
    /\ q \notin serving /\ Batch(q) # {}
    /\ serving' = serving \cup {q}
    /\ UNCHANGED state

Finish(e) ==
    /\ state[e] = "batch" /\ QueueOf[e] \in serving
    /\ state' = [state EXCEPT ![e] = "finished"]
    /\ UNCHANGED serving

Leave(q) ==
    /\ q \in serving
    /\ serving' = serving \ {q}
    /\ UNCHANGED state

QNext ==
    \/ \E e \in Event : Arrive(e) \/ Collect(e) \/ Finish(e)
    \/ \E q \in Queue : Serve(q) \/ Leave(q)

QSpec == QInit /\ [][QNext]_qvars

\* Every waiting event is collected and every batch is served, as long as
\* handlers end.
QFairness ==
    /\ \A e \in Event : SF_qvars(Collect(e))
    /\ \A q \in Queue : WF_qvars(Serve(q))

QFairSpec == QSpec /\ QFairness

============================================================================
