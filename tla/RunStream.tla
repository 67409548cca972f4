------------------------------ MODULE RunStream ------------------------------
(***************************************************************************)
(* What a client sees of a run: stream_run_events of backend/app/main.py   *)
(* over the broker of module EventBroker.  The generator first replays the *)
(* events stored so far, a snapshot, and then subscribes to the broker.    *)
(* It is suspended in queue.get() and, when the client reads slowly, in a  *)
(* yield; a step here is what it does between two of them, and events are  *)
(* stored meanwhile.                                                       *)
(*                                                                         *)
(* A subscriber of EventBroker is one GET request.                         *)
(***************************************************************************)
EXTENDS EventBroker

CONSTANT MaxKept    \* max_events_per_run: how many events of a run are kept

ASSUME StreamAssumption == MaxKept \in Nat \ {0}

VARIABLES
    phase,      \* where the generator of a request stands
    watched,    \* the run a request is for
    history,    \* list_run_events when the generator began
    shown,      \* what it has yielded
    joined,     \* the events stored when it subscribed
    removed     \* runs the registry has removed, with their events

streamVars == <<phase, watched, history, shown, joined, removed>>

\* What ends a run in the registry, and what ends a stream.
TerminalEvents == {"run.completed", "run.error"}

\* Mutant: the generator does not stop at a run that completes.
terminal_event_types_short == {"run.error"}

terminal_event_types == {"run.completed", "run.error"}


\* The terminal event of a run, and whether there is one.
EndSeq(r) == CHOOSE n \in DOMAIN events[r] : events[r][n] \in TerminalEvents
Over(r) == \E n \in DOMAIN events[r] : events[r][n] \in TerminalEvents

\* How many events _prune_run_events_locked has deleted; it keeps the newest.
Pruned(r) == IF Len(events[r]) > MaxKept THEN Len(events[r]) - MaxKept ELSE 0

\* list_run_events
Stored(r) ==
    IF r \in removed THEN <<>>
    ELSE [n \in 1 .. Len(events[r]) - Pruned(r) |->
            [event_type |-> events[r][Pruned(r) + n], seq |-> Pruned(r) + n]]

\* The generator has yielded the event after which it returns.
SawTheEnd(s) ==
    shown[s] # <<>> /\ Last(shown[s]).event_type \in terminal_event_types
-----------------------------------------------------------------------------
(* The run. *)

Count(r, type) == Cardinality({n \in DOMAIN events[r] : events[r][n] = type})

\* Created with run.queued, over with one terminal event; only a permission
\* request that is still pending can be decided after that.
PublishOfRun(r, type) ==
    /\ r \notin removed
    /\ (type = "run.queued") <=> (events[r] = <<>>)
    /\ Over(r) => type = "run.permission.decision"
    /\ type = "run.permission.decision" =>
          Count(r, "run.permission.decision") < Count(r, "run.permission.requested")
    /\ Publish(r, type)
    /\ UNCHANGED streamVars

\* _remove_run_locked, for a run that is over.
RemoveRun(r) ==
    /\ Over(r) /\ r \notin removed
    /\ removed' = removed \union {r}
    /\ UNCHANGED <<vars, phase, watched, history, shown, joined>>
-----------------------------------------------------------------------------
(* The request. *)

\* The endpoint finds the run; the response is started later.
Request(s, r) ==
    /\ phase[s] = "none"
    /\ events[r] # <<>> /\ r \notin removed
    /\ phase' = [phase EXCEPT ![s] = "accepted"]
    /\ watched' = [watched EXCEPT ![s] = r]
    /\ UNCHANGED <<vars, history, shown, joined, removed>>

\* The generator takes its snapshot and yields the first event of it.
Begin(s) ==
    /\ phase[s] = "accepted"
    /\ Stored(watched[s]) # <<>>
    /\ phase' = [phase EXCEPT ![s] = "replaying"]
    /\ history' = [history EXCEPT ![s] = Stored(watched[s])]
    /\ shown' = [shown EXCEPT ![s] = <<Head(Stored(watched[s]))>>]
    /\ UNCHANGED <<vars, watched, joined, removed>>

Join(s) ==
    /\ Subscribe(s, watched[s])
    /\ phase' = [phase EXCEPT ![s] = "live"]
    /\ joined' = [joined EXCEPT ![s] = Len(events[watched[s]])]

\* ... or subscribes at once, the run having been removed in between.
BeginWithoutHistory(s) ==
    /\ phase[s] = "accepted"
    /\ Stored(watched[s]) = <<>>
    /\ Join(s)
    /\ UNCHANGED <<watched, history, shown, removed>>

Replay(s) ==
    /\ phase[s] = "replaying" /\ ~SawTheEnd(s)
    /\ Len(shown[s]) < Len(history[s])
    /\ shown' = [shown EXCEPT ![s] = Append(@, history[s][Len(@) + 1])]
    /\ UNCHANGED <<vars, phase, watched, history, joined, removed>>

\* Mutant: the last event of the history is received once more.
SubscribeOverlapping(s) ==
    /\ phase[s] = "replaying" /\ ~SawTheEnd(s)
    /\ Len(shown[s]) = Len(history[s])
    /\ phase' = [phase EXCEPT ![s] = "live"]
    /\ joined' = [joined EXCEPT ![s] = Last(history[s]).seq - 1]
    /\ topic' = [topic EXCEPT ![s] = watched[s]]
    /\ queues' = [queues EXCEPT ![s] = <<Last(history[s])>>]
    /\ delivered' = [delivered EXCEPT ![s] = Last(history[s]).seq - 1]
    /\ UNCHANGED <<events, watched, history, shown, removed>>

\* The history is used up.
SubscribeAfterHistory(s) ==
    /\ phase[s] = "replaying" /\ ~SawTheEnd(s)
    /\ Len(shown[s]) = Len(history[s])
    /\ Join(s)
    /\ UNCHANGED <<watched, history, shown, removed>>

\* queue.get() returned; while it does not, only keep-alives are sent.
Live(s) ==
    /\ phase[s] = "live" /\ ~SawTheEnd(s)
    /\ Receive(s)
    /\ shown' = [shown EXCEPT ![s] = Append(@, Head(queues[s]))]
    /\ UNCHANGED <<phase, watched, history, joined, removed>>

\* The generator ends; its finally clause unsubscribes if it had subscribed.
Leave(s) ==
    /\ phase' = [phase EXCEPT ![s] = "ended"]
    /\ Unsubscribe(s) \/ (topic[s] = NoRun /\ UNCHANGED vars)
    /\ UNCHANGED <<watched, history, shown, joined, removed>>

Return(s) == phase[s] \in {"replaying", "live"} /\ SawTheEnd(s) /\ Leave(s)

\* The client closes the connection and the generator is cancelled.
Disconnect(s) == phase[s] \in {"accepted", "replaying", "live"} /\ Leave(s)
-----------------------------------------------------------------------------
StreamInit ==
    /\ Init
    /\ phase = [s \in Subscribers |-> "none"]
    /\ watched = [s \in Subscribers |-> NoRun]
    /\ history = [s \in Subscribers |-> <<>>]
    /\ shown = [s \in Subscribers |-> <<>>]
    /\ joined = [s \in Subscribers |-> 0]
    /\ removed = {}

StreamNext ==
    \/ \E r \in Runs, type \in EmittedTypes : PublishOfRun(r, type)
    \/ \E r \in Runs : RemoveRun(r)
    \/ \E s \in Subscribers, r \in Runs : Request(s, r)
    \/ \E s \in Subscribers :
          \/ Begin(s) \/ BeginWithoutHistory(s) \/ Replay(s)
          \/ SubscribeAfterHistory(s) \/ Live(s) \/ Return(s) \/ Disconnect(s)

\* The event loop resumes every generator whose client reads.
StreamSpec ==
    /\ StreamInit /\ [][StreamNext]_<<vars, streamVars>>
    /\ \A s \in Subscribers :
          WF_<<vars, streamVars>>(Begin(s) \/ BeginWithoutHistory(s) \/ Replay(s)
                                  \/ SubscribeAfterHistory(s) \/ Live(s) \/ Return(s))
-----------------------------------------------------------------------------
(* Properties. *)

\* Every variable has its type, and a request is subscribed exactly while its
\* generator is past the history: an ended one leaves no queue behind.
StreamTypeOK ==
    /\ TypeOK
    /\ phase \in [Subscribers -> {"none", "accepted", "replaying", "live", "ended"}]
    /\ watched \in [Subscribers -> Runs \union {NoRun}]
    /\ history \in [Subscribers -> Seq(StreamEvent)]
    /\ shown \in [Subscribers -> Seq(StreamEvent)]
    /\ joined \in [Subscribers -> Nat]
    /\ removed \subseteq Runs
    /\ \A s \in Subscribers :
          topic[s] = IF phase[s] = "live" THEN watched[s] ELSE NoRun

\* A client sees events of its run in the order they were stored and none of
\* them twice, across the change from the history to the subscription.
ShownInOrder ==
    \A s \in Subscribers : \A i \in DOMAIN shown[s] :
        /\ shown[s][i].event_type = events[watched[s]][shown[s][i].seq]
        /\ \A j \in 1 .. (i - 1) : shown[s][j].seq < shown[s][i].seq

\* Both: order is kept, and by generators that are subscribed while they are live.
StreamInOrder == StreamTypeOK /\ ShownInOrder

\* Once the history is passed, all that was kept of it has been shown, and a critical event
\* stored after the subscription is shown or waits, unless as many newer ones
\* as a queue has places followed it.
CriticalShown ==
    \A s \in Subscribers : phase[s] = "live" =>
        LET Shown(n) == \E i \in DOMAIN shown[s] : shown[s][i].seq = n
            Waits(n) == \E i \in DOMAIN queues[s] : queues[s][i].seq = n
            Critical == {n \in DOMAIN events[watched[s]] :
                            events[watched[s]][n] \in CRITICAL_EVENT_TYPES}
        IN  /\ \A event \in ToSet(history[s]) : Shown(event.seq)
            /\ \A n \in Critical :
                  (n > joined[s] /\ Cardinality({m \in Critical : m > n}) < QueueMaxsize)
                      => Shown(n) \/ Waits(n)

\* A stream that was subscribed when its run ended ends itself, unless decisions
\* made after the end fill the whole queue.
SubscribedAtTheEnd(s) ==
    phase[s] = "live" /\ Over(watched[s]) /\ joined[s] < EndSeq(watched[s])

StreamOfLiveRunEnds ==
    \A s \in Subscribers :
        SubscribedAtTheEnd(s) ~>
            \/ phase[s] = "ended"
            \/ /\ SubscribedAtTheEnd(s)
               /\ Len(events[watched[s]]) - EndSeq(watched[s]) >= QueueMaxsize

\* The same events are pushed that are appended to the run: a client that is past
\* the history is passed over by none that was stored since.
\* The code does not keep it: a newer update replaces one that waits.
SameEventsArePushed ==
    \A s \in Subscribers : phase[s] = "live" =>
        \A n \in (joined[s] + 1) .. delivered[s] :
            \E i \in DOMAIN shown[s] : shown[s][i].seq = n

\* The stream pushes the events of its run: a client that is past the history
\* of a run that is over has seen its end, or has it waiting in the queue.
\* The code does not keep it: it subscribes after its snapshot.
EndIsPushed ==
    \A s \in Subscribers :
        (phase[s] = "live" /\ Over(watched[s]) /\ watched[s] \notin removed) =>
            \/ SawTheEnd(s)
            \/ \E i \in DOMAIN queues[s] : queues[s][i].event_type \in TerminalEvents
=============================================================================
