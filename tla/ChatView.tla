------------------------------- MODULE ChatView -------------------------------
(***************************************************************************)
(* The conversation view of frontend/src/App.tsx: what it shows of a       *)
(* session, put together from transcript snapshots and from the event      *)
(* stream of one run, while requests answer late or not at all and the     *)
(* user goes from session to session.                                      *)
(*                                                                         *)
(* The backend is what modules RunRegistry, RunStream and                  *)
(* TranscriptProjection say of it, reduced to the number of events each    *)
(* run has.  Event 0 of a run stands for the user's message.  The draft    *)
(* of a new session, the composer's text and logging out are left out.     *)
(***************************************************************************)
EXTENDS Naturals, FiniteSets

CONSTANTS Sessions, Runs, None,
          MaxEvents,        \* bound on the events of a run
          Requests,         \* HTTP requests that can be open at once
          MaxFailures       \* bound on failed requests and broken streams

ASSUME ChatViewAssumption ==
    /\ None \notin Runs \union Sessions
    /\ MaxEvents \in Nat /\ MaxFailures \in Nat

Items == Runs \X (0 .. MaxEvents)
TerminalEvents == {"run.completed", "run.error"}

VARIABLES
    session_of,         \* the session of a run, None before it is created
    events,             \* the events of a run stored so far
    pending,            \* runs with a pending permission request
    ended,              \* how a run ended, or None
    busy,               \* the sessions whose status is queued, assigned or running
    activeSessionId,    \* the session the view shows, or None
    route,              \* the session in the browser's location, or None
    transcriptItems,    \* the items of the last snapshot
    optimistic,         \* runs whose user message the view added itself
    live,               \* liveRunProjection
    activeRunId,        \* the run the view takes for active, or None
    sending,            \* the composer is locked
    loadingMessages,
    errorText,          \* an error is shown
    routeNotFound,      \* the page shows that there is no such session
    stream,             \* the EventSource of a run, or NoStream
    requests,           \* the requests under way
    failures            \* faults that happened

backendVars == <<session_of, events, pending, ended, busy>>
viewVars == <<activeSessionId, route, transcriptItems, optimistic, live, activeRunId,
              sending, loadingMessages, errorText, routeNotFound, stream>>
vars == <<backendVars, viewVars, requests, failures>>

Snapshot == [items : SUBSET Items, run : Runs \union {None}, busy : BOOLEAN]
Request == [kind : {"none", "select", "reload", "reconcile", "list", "send"},
            session : Sessions \union {None}, run : Runs \union {None},
            answer : {"none", "ok", "failed"}, snapshot : Snapshot]

NoStream == [run |-> None, session |-> None, next |-> 1]
NoLive == [run |-> None, shown |-> {}]
NoSnapshot == [items |-> {}, run |-> None, busy |-> FALSE]
NoRequest == [kind |-> "none", session |-> None, run |-> None,
              answer |-> "none", snapshot |-> NoSnapshot]

Exists(r) == session_of[r] # None
Live(r) == Exists(r) /\ ended[r] = None

ChatTypeOK ==
    /\ session_of \in [Runs -> Sessions \union {None}]
    /\ events \in [Runs -> 0 .. MaxEvents]
    /\ pending \subseteq Runs /\ busy \subseteq Sessions
    /\ ended \in [Runs -> TerminalEvents \union {None}]
    /\ activeSessionId \in Sessions \union {None} /\ route \in Sessions \union {None}
    /\ transcriptItems \subseteq Items /\ optimistic \subseteq Runs
    /\ live \in [run : Runs \union {None}, shown : SUBSET (1 .. MaxEvents)]
    /\ activeRunId \in Runs \union {None}
    /\ sending \in BOOLEAN /\ loadingMessages \in BOOLEAN
    /\ errorText \in BOOLEAN /\ routeNotFound \in BOOLEAN
    /\ stream \in [run : Runs \union {None}, session : Sessions \union {None},
                   next : 1 .. MaxEvents + 1]
    /\ requests \in [Requests -> Request]
    /\ failures \in 0 .. MaxFailures
-----------------------------------------------------------------------------
(* The backend. *)

\* A run of a session starts when the one before it is over.
EmitEvent(r) ==
    /\ Live(r) /\ events[r] < MaxEvents
    /\ \A q \in Runs \ {r} : session_of[q] = session_of[r] /\ Live(q) => events[q] = 0
    /\ events' = [events EXCEPT ![r] = @ + 1]
    /\ pending' \in {pending, pending \union {r}}
    /\ busy' = busy \union {session_of[r]}
    /\ UNCHANGED <<session_of, ended, viewVars, requests, failures>>

\* Assigned and accepted, before it shows anything: the session is active again
\* if another run's end had set it idle.
StartRun(r) ==
    /\ Live(r) /\ events[r] = 0
    /\ busy' = busy \union {session_of[r]}
    /\ UNCHANGED <<session_of, events, pending, ended, viewVars, requests, failures>>

DecidePermission(r) ==
    /\ r \in pending
    /\ pending' = pending \ {r}
    /\ UNCHANGED <<session_of, events, ended, busy, viewVars, requests, failures>>

\* A pending request stays pending; the session is idle, whatever its other
\* runs do.
EndRun(r, type) ==
    /\ Live(r)
    /\ ended' = [ended EXCEPT ![r] = type]
    /\ busy' = busy \ {session_of[r]}
    /\ UNCHANGED <<session_of, events, pending, viewVars, requests, failures>>

RunsOf(s) == {r \in Runs : session_of[r] = s}

\* findActiveRunId: a pending permission request comes before streaming text.
ActiveRunsOf(s) ==
    LET asking == RunsOf(s) \intersect pending
    IN  IF asking # {} THEN asking
        ELSE {r \in RunsOf(s) : Live(r) /\ events[r] > 0}

\* getSessionTranscript: the items, the run of those the view will take for
\* active, and whether the session's status is an active one.
Snapshots(s) ==
    LET items == {i \in Items : session_of[i[1]] = s /\ i[2] <= events[i[1]]}
        active == ActiveRunsOf(s)
    IN  [items : {items}, run : IF active = {} THEN {None} ELSE active, busy : {s \in busy}]
-----------------------------------------------------------------------------
(* Requests. *)

Free(i) == requests[i].kind = "none"
InFlight(kind) == {i \in Requests : requests[i].kind = kind}
Answered(i, kind) == requests[i].kind = kind /\ requests[i].answer = "ok"

New(kind, s, r) == [NoRequest EXCEPT !.kind = kind, !.session = s, !.run = r]

\* The effect that reconciles is disposed of when the run or the session it
\* was set up for is no longer the active one; its request is then forgotten.
Disposed(reqs, s, r) ==
    IF s = activeSessionId /\ r = activeRunId THEN reqs
    ELSE [i \in Requests |-> IF reqs[i].kind = "reconcile" THEN NoRequest ELSE reqs[i]]

HandleRead(i) ==
    /\ requests[i].kind \in {"select", "reload", "reconcile"} /\ requests[i].answer = "none"
    /\ \E snap \in Snapshots(requests[i].session) :
          requests' = [requests EXCEPT ![i].answer = "ok", ![i].snapshot = snap]
    /\ UNCHANGED <<backendVars, viewVars, failures>>

HandleList(i) ==
    /\ requests[i].kind = "list" /\ requests[i].answer = "none"
    /\ requests' = [requests EXCEPT ![i].answer = "ok"]
    /\ UNCHANGED <<backendVars, viewVars, failures>>

\* send_message creates the run.
HandleSend(i) ==
    LET s == requests[i].session  r == requests[i].run
    IN  /\ requests[i].kind = "send" /\ requests[i].answer = "none" /\ ~Exists(r)
        /\ session_of' = [session_of EXCEPT ![r] = s]
        /\ busy' = busy \union {s}
        /\ requests' = [requests EXCEPT ![i].answer = "ok"]
        /\ UNCHANGED <<events, pending, ended, viewVars, failures>>

\* Before or after the backend did what was asked.
RequestFails(i) ==
    /\ ~Free(i) /\ failures < MaxFailures
    /\ requests[i].answer = "none" \/ Answered(i, "send")
    /\ requests' = [requests EXCEPT ![i].answer = "failed"]
    /\ failures' = failures + 1
    /\ UNCHANGED <<backendVars, viewVars>>
-----------------------------------------------------------------------------
(* Transcript snapshots. *)

\* Mutant: the status of the session is not asked for.
deriveActiveRunIdAlways(snap, fallback) ==
    IF snap.run # None THEN snap.run ELSE fallback

deriveActiveRunId(snap, fallback) ==
    IF snap.run # None THEN snap.run
    ELSE IF snap.busy THEN fallback ELSE None

\* applyTranscriptSnapshot; r is the run it derives.  The stream stays open.
applyTranscriptSnapshot(i, r) ==
    /\ transcriptItems' = requests[i].snapshot.items
    /\ optimistic' = {}
    /\ live' = NoLive
    /\ activeSessionId' = requests[i].session
    /\ activeRunId' = r
    /\ routeNotFound' = FALSE
    /\ requests' = Disposed([requests EXCEPT ![i] = NoRequest], requests[i].session, r)

\* loadSessionTranscript, when its answer has come.
TranscriptLoaded(i) ==
    /\ Answered(i, "select") \/ Answered(i, "reload")
    /\ applyTranscriptSnapshot(i, deriveActiveRunId(requests[i].snapshot, None))
    /\ route' = requests[i].session
    /\ loadingMessages' = (loadingMessages /\ requests[i].kind # "select")
    /\ UNCHANGED <<backendVars, sending, errorText, stream, failures>>

\* An answer 404 puts the page for what is not found in place of the view.
LoadFailed(i) ==
    /\ requests[i].kind \in {"select", "reload"} /\ requests[i].answer = "failed"
    /\ \/ errorText' = TRUE /\ UNCHANGED routeNotFound
       \/ routeNotFound' = TRUE /\ UNCHANGED errorText
    /\ loadingMessages' = (loadingMessages /\ requests[i].kind # "select")
    /\ requests' = [requests EXCEPT ![i] = NoRequest]
    /\ UNCHANGED <<backendVars, activeSessionId, route, transcriptItems, optimistic, live,
                   activeRunId, sending, stream, failures>>

\* handleSessionSelect.  The view changes when the transcript comes; choosing
\* the session it shows only changes the location.  The page for what is not
\* found is left so by going back in the browser.
handleSessionSelect(s) ==
    \/ /\ s = activeSessionId /\ (s # route \/ routeNotFound)
       /\ route' = s /\ routeNotFound' = FALSE
       /\ UNCHANGED <<backendVars, activeSessionId, transcriptItems, optimistic, live,
                      activeRunId, sending, loadingMessages, errorText, stream, requests, failures>>
    \/ /\ s # activeSessionId
       /\ \E i \in Requests :
             /\ Free(i)
             /\ requests' = Disposed([requests EXCEPT ![i] = New("select", s, None)],
                                     activeSessionId, None)
       /\ route' = s
       /\ stream' = NoStream /\ live' = NoLive
       /\ sending' = FALSE /\ activeRunId' = None
       /\ loadingMessages' = TRUE /\ errorText' = FALSE /\ routeNotFound' = FALSE
       /\ UNCHANGED <<backendVars, activeSessionId, transcriptItems, optimistic, failures>>

\* refreshSessions loads the session of the location when the view shows
\* another one or, in the render the callback is from, no items.
SessionsListed(i) ==
    /\ Answered(i, "list")
    /\ \/ /\ route # None
          /\ requests' = [requests EXCEPT ![i] = New("select", route, None)]
          /\ loadingMessages' = TRUE
       \/ /\ route = activeSessionId
          /\ requests' = [requests EXCEPT ![i] = NoRequest]
          /\ UNCHANGED loadingMessages
    /\ UNCHANGED <<backendVars, activeSessionId, route, transcriptItems, optimistic, live,
                   activeRunId, sending, errorText, stream, failures, routeNotFound>>

ListFailed(i) ==
    /\ requests[i].kind = "list" /\ requests[i].answer = "failed"
    /\ errorText' = TRUE
    /\ requests' = [requests EXCEPT ![i] = NoRequest]
    /\ UNCHANGED <<backendVars, activeSessionId, route, transcriptItems, optimistic, live,
                   activeRunId, sending, loadingMessages, stream, failures, routeNotFound>>
-----------------------------------------------------------------------------
(* The reconciling effect. *)

\* No event came for a while, or there is no stream.
Reconcile(i) ==
    /\ Free(i)
    /\ activeRunId # None /\ activeSessionId # None /\ InFlight("reconcile") = {}
    /\ requests' = [requests EXCEPT ![i] = New("reconcile", activeSessionId, activeRunId)]
    /\ UNCHANGED <<backendVars, viewVars, failures>>

ReconcileAnswered(i) ==
    LET r == deriveActiveRunId(requests[i].snapshot, requests[i].run)
    IN  /\ Answered(i, "reconcile")
        /\ applyTranscriptSnapshot(i, r)
        /\ sending' = (sending /\ r # None)
        /\ stream' = IF r = None THEN NoStream ELSE stream
        /\ UNCHANGED <<backendVars, route, loadingMessages, errorText, failures>>

ReconcileFailed(i) ==
    /\ requests[i].kind = "reconcile" /\ requests[i].answer = "failed"
    /\ routeNotFound' \in {routeNotFound, TRUE}
    /\ requests' = [requests EXCEPT ![i] = NoRequest]
    /\ UNCHANGED <<backendVars, activeSessionId, route, transcriptItems, optimistic, live,
                   activeRunId, sending, loadingMessages, errorText, stream, failures>>
-----------------------------------------------------------------------------
(* Sending a message. *)

\* handleSend, until it waits for the answer.
handleSend(r) ==
    /\ activeSessionId # None /\ ~sending /\ ~loadingMessages /\ ~routeNotFound
    /\ ~Exists(r) /\ \A i \in Requests : requests[i].run # r
    /\ \E i \in Requests :
          /\ Free(i)
          /\ requests' = [requests EXCEPT ![i] = New("send", activeSessionId, r)]
    /\ live' = NoLive /\ sending' = TRUE /\ errorText' = FALSE
    /\ optimistic' = optimistic \union {r}
    /\ UNCHANGED <<backendVars, activeSessionId, route, transcriptItems, activeRunId,
                   loadingMessages, stream, failures, routeNotFound>>

\* bindRunStream, whatever the view shows by now.
bindRunStream(r, s) == stream' = [run |-> r, session |-> s, next |-> 1]

MessageSent(i) ==
    LET r == requests[i].run
    IN  /\ Answered(i, "send")
        /\ activeRunId' = r
        /\ bindRunStream(r, requests[i].session)
        /\ requests' = Disposed([requests EXCEPT ![i] = NoRequest], activeSessionId, r)
        /\ UNCHANGED <<backendVars, activeSessionId, route, transcriptItems, optimistic, live,
                       sending, loadingMessages, errorText, failures, routeNotFound>>

\* The message is taken back, also when the backend has created its run.
SendFailed(i) ==
    /\ requests[i].kind = "send" /\ requests[i].answer = "failed"
    /\ sending' = FALSE /\ errorText' = TRUE
    /\ optimistic' = optimistic \ {requests[i].run}
    /\ requests' = [requests EXCEPT ![i] = NoRequest]
    /\ UNCHANGED <<backendVars, activeSessionId, route, transcriptItems, live, activeRunId,
                   loadingMessages, stream, failures, routeNotFound>>
-----------------------------------------------------------------------------
(* The event stream. *)

\* applyRunStreamEvent ignores an event of another run than the projection's.
Projected(p, r, n) ==
    IF p.run \in {None, r} THEN [run |-> r, shown |-> p.shown \union {n}] ELSE p

DeliverEvent ==
    /\ stream.run # None /\ stream.next <= events[stream.run]
    /\ live' = Projected(live, stream.run, stream.next)
    /\ stream' = [stream EXCEPT !.next = @ + 1]
    /\ UNCHANGED <<backendVars, activeSessionId, route, transcriptItems, optimistic,
                   activeRunId, sending, loadingMessages, errorText, routeNotFound,
                   requests, failures>>

\* Mutant: the end of a run is taken for the end of the matter.
ReloadNothing(i) ==
    /\ Free(i)
    /\ requests' = Disposed(requests, activeSessionId, None)

\* The transcript is loaded once more, if the view still shows the session.
Reload(i) ==
    /\ Free(i)
    /\ requests' = Disposed([requests EXCEPT ![i] =
                                IF activeSessionId = stream.session
                                THEN New("reload", stream.session, None)
                                ELSE New("list", None, None)],
                            activeSessionId, None)

\* Mutant: the composer is left locked.
ClosedOnly == stream' = NoStream /\ activeRunId' = None /\ UNCHANGED sending

Closed == stream' = NoStream /\ activeRunId' = None /\ sending' = FALSE

\* run.completed and run.error
DeliverEnd ==
    /\ stream.run # None /\ stream.next > events[stream.run] /\ ended[stream.run] # None
    /\ \E i \in Requests : Reload(i)
    /\ Closed
    /\ errorText' = IF ended[stream.run] = "run.error" THEN TRUE
                    ELSE errorText /\ activeSessionId # stream.session
    /\ live' = IF live.run = None THEN [run |-> stream.run, shown |-> {}] ELSE live
    /\ UNCHANGED <<backendVars, activeSessionId, route, transcriptItems, optimistic,
                   loadingMessages, failures, routeNotFound>>

\* source.onerror
StreamBreaks ==
    /\ stream.run # None /\ failures < MaxFailures
    /\ \E i \in Requests : Reload(i)
    /\ Closed
    /\ errorText' = TRUE
    /\ failures' = failures + 1
    /\ UNCHANGED <<backendVars, activeSessionId, route, transcriptItems, optimistic, live,
                   loadingMessages, routeNotFound>>
-----------------------------------------------------------------------------
Init ==
    /\ session_of = [r \in Runs |-> None] /\ events = [r \in Runs |-> 0]
    /\ pending = {} /\ ended = [r \in Runs |-> None] /\ busy = {}
    /\ activeSessionId = None /\ route = None
    /\ transcriptItems = {} /\ optimistic = {} /\ live = NoLive
    /\ activeRunId = None /\ sending = FALSE /\ loadingMessages = FALSE /\ errorText = FALSE
    /\ routeNotFound = FALSE
    /\ stream = NoStream
    /\ requests = [i \in Requests |-> NoRequest]
    /\ failures = 0

Backend ==
    \E r \in Runs : \/ EmitEvent(r) \/ StartRun(r) \/ DecidePermission(r)
                    \/ \E type \in TerminalEvents : EndRun(r, type)

User == (\E s \in Sessions : handleSessionSelect(s)) \/ (\E r \in Runs : handleSend(r))

Handle(i) == HandleRead(i) \/ HandleList(i) \/ HandleSend(i)

Answer(i) ==
    \/ TranscriptLoaded(i) \/ LoadFailed(i) \/ SessionsListed(i) \/ ListFailed(i)
    \/ ReconcileAnswered(i) \/ ReconcileFailed(i)
    \/ MessageSent(i) \/ SendFailed(i)

Next ==
    \/ Backend \/ User \/ DeliverEvent \/ DeliverEnd \/ StreamBreaks
    \/ \E i \in Requests : Handle(i) \/ Answer(i) \/ RequestFails(i) \/ Reconcile(i)

Spec == Init /\ [][Next]_vars

\* The backend answers, the browser delivers and its timers fire; nobody has
\* to send, to choose or to end a run.
Fairness ==
    /\ \A i \in Requests : WF_vars(Handle(i)) /\ WF_vars(Answer(i))
    /\ WF_vars(\E i \in Requests : Reconcile(i))
    /\ WF_vars(DeliverEvent \/ DeliverEnd)

LiveSpec == Spec /\ Fairness
-----------------------------------------------------------------------------
(* Properties. *)

\* What the view shows of a run.
Shown(r) ==
    {n \in 0 .. MaxEvents : <<r, n>> \in transcriptItems}
       \union (IF live.run = r THEN live.shown ELSE {})
       \union (IF r \in optimistic THEN {0} ELSE {})

\* The composer is never locked with nothing under way that unlocks it: a
\* message whose answer is awaited, or a stream whose end does.
ComposerNotStuck == sending => InFlight("send") # {} \/ stream.run # None

\* A message the view added itself is of the session shown, and it is being
\* sent or it was.
ShownMessageIsSent ==
    \A r \in optimistic :
       \/ session_of[r] = activeSessionId
       \/ \E i \in InFlight("send") : requests[i].run = r /\ requests[i].session = activeSessionId

\* A message is sent for a run, from a session, and an answer says that the
\* run is one of that session.
SendKnown ==
    \A i \in Requests :
       requests[i].kind = "send" =>
          /\ requests[i].run \in Runs /\ requests[i].session \in Sessions
          /\ requests[i].answer = "ok" => session_of[requests[i].run] = requests[i].session

\* The two above with what makes them inductive: the messages being sent are known,
\* and a view that shows a message of its own has a session.
ChatInv ==
    /\ ChatTypeOK
    /\ SendKnown
    /\ ComposerNotStuck
    /\ optimistic # {} => activeSessionId # None
    /\ ShownMessageIsSent

\* The stream's run and the projection's are runs of the session shown:
\* README.md calls the transcript a session-level view.
\* The code does not keep it: an answer may come after the user left.
LiveIsOfSession == live.shown # {} => session_of[live.run] = activeSessionId

\* What the view shows of a run it streams, each event once and none left out.
\* The code does not keep it: a snapshot does not move the stream.
NothingTwiceNothingMissing ==
    stream.run # None /\ activeSessionId = stream.session /\ live.run \in {None, stream.run} =>
       /\ \A n \in live.shown : <<stream.run, n>> \notin transcriptItems
       /\ 1 .. stream.next - 1 \subseteq Shown(stream.run)

\* The view lets go of a run of its session that is not over only for another
\* run, or when the user leaves or the stream breaks; a reconciliation never
\* does it.
\* The code does not keep it: the session's status is that of its last end.
ActiveRunKept ==
    [][\A i \in Requests :
          /\ ReconcileAnswered(i)
          /\ Live(activeRunId) /\ session_of[activeRunId] = activeSessionId
          => activeRunId' # None]_vars

\* A run that is over while the view takes it for active ends up completely in
\* the view, unless an error is shown, or the user has left the session or loads
\* it again: of two loads under way the older one may come last, and it gives up
\* a run the newer one found.  Of a session with one run: see ActiveRunKept for
\* what another one can do.
ViewCatchesUp ==
    \A r \in Runs :
       (/\ activeRunId = r /\ ended[r] # None
        /\ InFlight("select") = {} /\ InFlight("reload") = {}) ~>
          \/ Shown(r) = 0 .. events[r]
          \/ errorText \/ routeNotFound \/ activeSessionId # session_of[r]
          \/ InFlight("select") # {}

\* The view does not take such a run for active for ever, once nobody waits
\* for a decision in it.
EndedRunIsReleased ==
    \A r \in Runs : (activeRunId = r /\ ended[r] # None /\ r \notin pending) ~> activeRunId # r
=============================================================================
