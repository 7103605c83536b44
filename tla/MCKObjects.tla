----------------------------- MODULE MCKObjects -----------------------------
(* Three tasks of two priorities and one event of two flags, or one queue. *)
EXTENDS KEvent, KQueue

CONSTANTS t1, t2, t3, e1, q1, f1, f2

VARIABLE object           \* which of the two is in use

MCBasePrio == [t \in Tasks |-> IF t = t1 THEN 1 ELSE 2]
MCTicks == {0, 1, Forever}
MCWaits ==
  {[flags |-> {f1}, all |-> FALSE, clear |-> TRUE],
   [flags |-> {f1, f2}, all |-> FALSE, clear |-> FALSE],
   [flags |-> {f1, f2}, all |-> TRUE, clear |-> TRUE]}

OfEvent == object = "event" /\ UNCHANGED <<object, queuevars>>
OfQueue == object = "queue" /\ UNCHANGED <<object, eventvars>>

InitObject ==
  /\ InitEvent /\ InitQueue
  /\ object \in {"event", "queue"}
  /\ object = "event" => kind = [q \in Queues |-> "queue"]

NextObject ==
  \/ event_get /\ OfEvent
  \/ TaskSet /\ OfEvent
  \/ IsrSet /\ OfEvent
  \/ event_del /\ OfEvent
  \/ event_create /\ OfEvent
  \/ EventReturn /\ OfEvent
  \/ EventTaskStep /\ OfEvent
  \/ queue_send /\ OfQueue
  \/ queue_recv /\ OfQueue
  \/ queue_flush /\ OfQueue
  \/ queue_del /\ OfQueue
  \/ queue_create /\ OfQueue
  \/ msgq_put /\ OfQueue
  \/ buf_queue_recv /\ OfQueue
  \/ buf_queue_flush /\ OfQueue
  \/ buf_queue_del /\ OfQueue
  \/ buf_queue_create /\ OfQueue
  \/ IsrSend /\ OfQueue
  \/ IsrRecv /\ OfQueue
  \/ QueueReturn /\ OfQueue
  \/ QueueTaskStep /\ OfQueue

SpecObject == InitObject /\ [][NextObject]_<<k, object, eventvars, queuevars>>
=============================================================================
