----------------------------- MODULE EventBroker -----------------------------
(***************************************************************************)
(* The fan-out of run events to SSE subscribers: EventBroker of            *)
(* backend/app/events.py.  Each subscriber owns a bounded asyncio.Queue    *)
(* that is fed by publish and drained by the SSE generator.  When a queue  *)
(* is full the broker decides, by the type of the event, what is dropped.  *)
(*                                                                         *)
(* publish contains no await that can suspend (its lock protects           *)
(* synchronous code only), so storing an event in RuntimeState and         *)
(* offering it to every subscriber of its run is one atomic step.          *)
(***************************************************************************)
EXTENDS Naturals, Sequences, SequencesExt

CONSTANTS Runs,           \* identifiers of runs
          NoRun,          \* the topic of a subscriber that is not subscribed
          Subscribers,    \* SSE generators that may be subscribed
          QueueMaxsize,   \* capacity of one subscriber's queue
          EmittedTypes,   \* the event types published in this instance
          MaxEvents       \* bound on the events stored for one run

CRITICAL_EVENT_TYPES ==
    {"run.accepted", "run.completed", "run.error",
     "run.permission.decision", "run.permission.requested"}
COALESCING_EVENT_TYPES == {"run.session_update"}
LOW_PRIORITY_EVENT_TYPES ==
    COALESCING_EVENT_TYPES \union {"run.queued", "run.started"}
EventTypes == CRITICAL_EVENT_TYPES \union LOW_PRIORITY_EVENT_TYPES

ASSUME BrokerAssumption ==
    /\ NoRun \notin Runs
    /\ QueueMaxsize \in Nat \ {0}        \* max(1, int(queue_maxsize))
    /\ MaxEvents \in Nat
    /\ EmittedTypes \subseteq EventTypes

VARIABLES
    events,     \* RuntimeState._run_events: the types stored, position = seq
    topic,      \* the run a subscriber's queue is registered under
    queues,     \* the queue of every subscriber
    delivered   \* seq up to which a subscriber has seen, or never asked for

vars == <<events, topic, queues, delivered>>

StreamEvent == [event_type : EventTypes, seq : Nat]
-----------------------------------------------------------------------------
(* The queue operations. *)

DropFirstMatching(queue, types) ==
    RemoveFirstMatch(queue, LAMBDA current : current.event_type \in types)

HasMatching(queue, types) ==
    \E i \in DOMAIN queue : queue[i].event_type \in types

Full(queue) == Len(queue) >= QueueMaxsize

\* What is left in the queue before the event's own place is looked for.
Coalesced(queue, event) ==
    IF event.event_type \in COALESCING_EVENT_TYPES
    THEN DropFirstMatching(queue, {event.event_type})
    ELSE queue

\* Mutant: the oldest entry gives way whatever it is.
MakeRoomOldest(queue, event) ==
    IF event.event_type \in CRITICAL_EVENT_TYPES
    THEN Append(Tail(queue), event)
    ELSE queue

\* Mutant: what is kept is put back behind the new event.
MakeRoomReordered(queue, event) ==
    IF HasMatching(queue, LOW_PRIORITY_EVENT_TYPES)
    THEN <<event>> \o DropFirstMatching(queue, LOW_PRIORITY_EVENT_TYPES)
    ELSE IF event.event_type \in CRITICAL_EVENT_TYPES
         THEN Append(Tail(queue), event)
         ELSE queue

\* A full queue: a low-priority entry gives way; without one, a critical event
\* pushes the oldest entry out and a low-priority event is not queued.
MakeRoom(queue, event) ==
    IF HasMatching(queue, LOW_PRIORITY_EVENT_TYPES)
    THEN Append(DropFirstMatching(queue, LOW_PRIORITY_EVENT_TYPES), event)
    ELSE IF event.event_type \in CRITICAL_EVENT_TYPES
         THEN Append(Tail(queue), event)
         ELSE queue

PublishToQueue(queue, event) ==
    LET kept == Coalesced(queue, event)
    IN  IF Full(kept) THEN MakeRoom(kept, event) ELSE Append(kept, event)
-----------------------------------------------------------------------------
Init ==
    /\ events = [r \in Runs |-> <<>>]
    /\ topic = [s \in Subscribers |-> NoRun]
    /\ queues = [s \in Subscribers |-> <<>>]
    /\ delivered = [s \in Subscribers |-> 0]

\* store_run_event followed by publish, as every caller does.
Publish(r, type) ==
    /\ Len(events[r]) < MaxEvents
    /\ events' = [events EXCEPT ![r] = Append(@, type)]
    /\ LET event == [event_type |-> type, seq |-> Len(events[r]) + 1]
       IN  queues' = [s \in Subscribers |->
                        IF topic[s] = r THEN PublishToQueue(queues[s], event)
                                        ELSE queues[s]]
    /\ UNCHANGED <<topic, delivered>>

\* A new queue; events stored before it were never offered to it.
Subscribe(s, r) ==
    /\ topic[s] = NoRun
    /\ topic' = [topic EXCEPT ![s] = r]
    /\ queues' = [queues EXCEPT ![s] = <<>>]
    /\ delivered' = [delivered EXCEPT ![s] = Len(events[r])]
    /\ UNCHANGED events

\* queue.get() in the subscriber's generator.
Receive(s) ==
    /\ queues[s] # <<>>
    /\ delivered' = [delivered EXCEPT ![s] = Head(queues[s]).seq]
    /\ queues' = [queues EXCEPT ![s] = Tail(@)]
    /\ UNCHANGED <<events, topic>>

Unsubscribe(s) ==
    /\ topic[s] # NoRun
    /\ topic' = [topic EXCEPT ![s] = NoRun]
    /\ queues' = [queues EXCEPT ![s] = <<>>]
    /\ UNCHANGED <<events, delivered>>

Next ==
    \/ \E r \in Runs, type \in EmittedTypes : Publish(r, type)
    \/ \E s \in Subscribers, r \in Runs : Subscribe(s, r)
    \/ \E s \in Subscribers : Receive(s) \/ Unsubscribe(s)

Spec == Init /\ [][Next]_vars
-----------------------------------------------------------------------------
(* Properties. *)

\* Every variable has its type and no queue exceeds its capacity
\* (asyncio.Queue(maxsize), events.py _publish_to_queue).
TypeOK ==
    /\ events \in [Runs -> Seq(EventTypes)]
    /\ topic \in [Subscribers -> Runs \union {NoRun}]
    /\ queues \in [Subscribers -> Seq(StreamEvent)]
    /\ delivered \in [Subscribers -> Nat]
    /\ \A s \in Subscribers : Len(queues[s]) <= QueueMaxsize
    /\ \A s \in Subscribers : topic[s] = NoRun => queues[s] = <<>>

\* What waits in a subscriber's queue are events of its own run, each once, in
\* the order in which they were stored, and all newer than what the subscriber
\* has seen: taking a queue apart and refilling it never reorders or repeats.
QueueInOrder ==
    \A s \in Subscribers :
        /\ \A i \in DOMAIN queues[s] :
              LET event == queues[s][i]
              IN  /\ event.seq > delivered[s]
                  /\ event.seq <= Len(events[topic[s]])
                  /\ event.event_type = events[topic[s]][event.seq]
        /\ \A i, j \in DOMAIN queues[s] :
              i < j => queues[s][i].seq < queues[s][j].seq

\* A waiting run.session_update is the newest one of its run: coalescing never
\* leaves an update in the queue that a later one has superseded.
OnlyNewestUpdateWaits ==
    \A s \in Subscribers : \A i \in DOMAIN queues[s] :
        queues[s][i].event_type \in COALESCING_EVENT_TYPES =>
            \A n \in DOMAIN events[topic[s]] :
                n > queues[s][i].seq =>
                    events[topic[s]][n] \notin COALESCING_EVENT_TYPES

\* What a queue may hold, however it was drained, overflowed and coalesced.
QueuesOK == TypeOK /\ QueueInOrder /\ OnlyNewestUpdateWaits

\* A critical event stored while the subscriber listens, and not yet passed by
\* it, waits in its queue, unless the queue is full of newer critical events.
\* In particular the newest critical event of a run is never dropped.
CriticalLostOnlyToNewerCritical ==
    \A s \in Subscribers : topic[s] # NoRun =>
        \A n \in DOMAIN events[topic[s]] :
            (n > delivered[s] /\ events[topic[s]][n] \in CRITICAL_EVENT_TYPES) =>
                \/ \E i \in DOMAIN queues[s] : queues[s][i].seq = n
                \/ /\ Full(queues[s])
                   /\ \A i \in DOMAIN queues[s] :
                         /\ queues[s][i].event_type \in CRITICAL_EVENT_TYPES
                         /\ queues[s][i].seq > n
=============================================================================
