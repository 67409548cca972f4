---------------------------- MODULE ChatViewProofs -----------------------------
(* Theorems of module ChatView, for all its sessions, runs and requests.     *)
EXTENDS ChatView, TLAPS

(***************************************************************************)
(* Types.                                                                  *)
(***************************************************************************)

LEMMA NoRequestType == NoRequest \in Request
BY DEF NoRequest, Request, NoSnapshot, Snapshot, Items

LEMMA NewType ==
    ASSUME NEW kind \in {"select", "reload", "reconcile", "list", "send"},
           NEW s \in Sessions \union {None}, NEW r \in Runs \union {None}
    PROVE  /\ New(kind, s, r) \in Request
           /\ New(kind, s, r).kind = kind
           /\ New(kind, s, r).session = s
           /\ New(kind, s, r).run = r
           /\ New(kind, s, r).answer = "none"
BY DEF New, NoRequest, Request, NoSnapshot, Snapshot, Items

\* Forgetting the reconciling request keeps the type and every other request.
LEMMA DisposedType ==
    ASSUME NEW reqs \in [Requests -> Request], NEW s, NEW r
    PROVE  /\ Disposed(reqs, s, r) \in [Requests -> Request]
           /\ \A i \in Requests :
                 /\ reqs[i].kind # "reconcile" => Disposed(reqs, s, r)[i] = reqs[i]
                 /\ Disposed(reqs, s, r)[i] \in {reqs[i], NoRequest}
BY NoRequestType DEF Disposed

LEMMA SnapshotsType ==
    ASSUME NEW s \in Sessions \union {None}, NEW snap \in Snapshots(s)
    PROVE  snap \in Snapshot
BY DEF Snapshots, Snapshot, ActiveRunsOf, RunsOf

LEMMA DerivedType ==
    ASSUME NEW snap \in Snapshot, NEW r \in Runs \union {None}
    PROVE  deriveActiveRunId(snap, r) \in Runs \union {None}
BY DEF deriveActiveRunId, Snapshot

USE ChatViewAssumption

LEMMA NoStreamType ==
    /\ NoStream \in [run : Runs \union {None}, session : Sessions \union {None},
                    next : 1 .. MaxEvents + 1]
    /\ NoLive \in [run : Runs \union {None}, shown : SUBSET (1 .. MaxEvents)]
BY DEF NoStream, NoLive

LEMMA InitType == Init => ChatTypeOK
<1> SUFFICES ASSUME Init PROVE ChatTypeOK
  OBVIOUS
<1>1. requests \in [Requests -> Request]
  BY NoRequestType DEF Init
<1>2. /\ stream \in [run : Runs \union {None}, session : Sessions \union {None},
                     next : 1 .. MaxEvents + 1]
      /\ live \in [run : Runs \union {None}, shown : SUBSET (1 .. MaxEvents)]
  BY NoStreamType DEF Init
<1>3. /\ session_of \in [Runs -> Sessions \union {None}]
      /\ events \in [Runs -> 0 .. MaxEvents]
      /\ ended \in [Runs -> TerminalEvents \union {None}]
      /\ failures \in 0 .. MaxFailures
  BY DEF Init
<1>4. QED
  BY <1>1, <1>2, <1>3 DEF Init, ChatTypeOK

\* What the backend does.
LEMMA BackendType == ChatTypeOK /\ Backend => ChatTypeOK'
<1> SUFFICES ASSUME ChatTypeOK, Backend PROVE ChatTypeOK'
  OBVIOUS
<1> USE DEF ChatTypeOK, viewVars
<1>1. PICK r \in Runs : \/ EmitEvent(r) \/ StartRun(r) \/ DecidePermission(r)
                        \/ \E type \in TerminalEvents : EndRun(r, type)
  BY DEF Backend
<1>2. CASE EmitEvent(r)
  BY <1>2 DEF EmitEvent, Live, Exists
<1>3. CASE StartRun(r)
  BY <1>3 DEF StartRun, Live, Exists
<1>4. CASE DecidePermission(r)
  BY <1>4 DEF DecidePermission
<1>5. CASE \E type \in TerminalEvents : EndRun(r, type)
  BY <1>5 DEF EndRun
<1>6. QED
  BY <1>1, <1>2, <1>3, <1>4, <1>5

\* What the user and the stream do.
LEMMA ViewType ==
    ASSUME ChatTypeOK, User \/ DeliverEvent \/ DeliverEnd \/ StreamBreaks
    PROVE  ChatTypeOK'
<1> USE DEF ChatTypeOK, backendVars
<1>1. CASE \E s \in Sessions : handleSessionSelect(s)
  <2>1. PICK s \in Sessions : handleSessionSelect(s)
    BY <1>1
  <2>2. CASE s = activeSessionId
    BY <2>1, <2>2 DEF handleSessionSelect
  <2>3. CASE s # activeSessionId
    <3>1. PICK i \in Requests :
             requests' = Disposed([requests EXCEPT ![i] = New("select", s, None)],
                                  activeSessionId, None)
      BY <2>1, <2>3 DEF handleSessionSelect
    <3>2. requests' \in [Requests -> Request]
      BY <3>1, NewType, DisposedType
    <3>3. /\ stream' \in [run : Runs \union {None}, session : Sessions \union {None},
                          next : 1 .. MaxEvents + 1]
          /\ live' \in [run : Runs \union {None}, shown : SUBSET (1 .. MaxEvents)]
      BY <2>1, <2>3, NoStreamType DEF handleSessionSelect
    <3>4. QED
      BY <2>1, <2>3, <3>2, <3>3 DEF handleSessionSelect
  <2>4. QED
    BY <2>2, <2>3
<1>2. CASE \E r \in Runs : handleSend(r)
  <2>1. PICK r \in Runs : handleSend(r)
    BY <1>2
  <2>2. requests' \in [Requests -> Request]
    BY <2>1, NewType DEF handleSend
  <2>3. QED
    BY <2>1, <2>2 DEF handleSend, NoLive
<1>3. CASE DeliverEvent
  <2>1. stream.run \in Runs /\ stream.next \in 0 .. MaxEvents
    BY <1>3 DEF DeliverEvent
  <2>2. stream' \in [run : Runs \union {None}, session : Sessions \union {None},
                    next : 1 .. MaxEvents + 1]
    BY <1>3, <2>1 DEF DeliverEvent
  <2>3. live' \in [run : Runs \union {None}, shown : SUBSET (1 .. MaxEvents)]
    BY <1>3, <2>1 DEF DeliverEvent, Projected
  <2>4. QED
    BY <1>3, <2>2, <2>3 DEF DeliverEvent
<1>4. ASSUME NEW i \in Requests, Reload(i)
      PROVE  requests' \in [Requests -> Request]
  BY <1>4, NewType, DisposedType DEF Reload
<1>5. CASE DeliverEnd
  <2>1. requests' \in [Requests -> Request]
    BY <1>4, <1>5 DEF DeliverEnd
  <2>2. live' \in [run : Runs \union {None}, shown : SUBSET (1 .. MaxEvents)]
    BY <1>5 DEF DeliverEnd
  <2>3. stream' = NoStream /\ activeRunId' = None /\ sending' = FALSE
    BY <1>5 DEF DeliverEnd, Closed
  <2>4. errorText' \in BOOLEAN
    BY <1>5 DEF DeliverEnd
  <2>5. QED
    BY <1>5, <2>1, <2>2, <2>3, <2>4, NoStreamType DEF DeliverEnd
<1>6. CASE StreamBreaks
  <2>1. requests' \in [Requests -> Request]
    BY <1>4, <1>6 DEF StreamBreaks
  <2>2. stream' = NoStream /\ activeRunId' = None /\ sending' = FALSE
    BY <1>6 DEF StreamBreaks, Closed
  <2>3. failures' \in 0 .. MaxFailures
    BY <1>6 DEF StreamBreaks
  <2>4. QED
    BY <1>6, <2>1, <2>2, <2>3, NoStreamType DEF StreamBreaks
<1>7. QED
  BY <1>1, <1>2, <1>3, <1>5, <1>6 DEF User

\* What becomes of a request before its answer is taken.
LEMMA RequestType ==
    ASSUME ChatTypeOK, SendKnown, NEW i \in Requests,
           Handle(i) \/ RequestFails(i) \/ Reconcile(i)
    PROVE  ChatTypeOK'
<1> USE DEF ChatTypeOK, backendVars, viewVars
<1>1. CASE HandleRead(i)
  <2>1. PICK snap \in Snapshots(requests[i].session) :
           requests' = [requests EXCEPT ![i].answer = "ok", ![i].snapshot = snap]
    BY <1>1 DEF HandleRead
  <2>2. snap \in Snapshot
    BY <2>1, SnapshotsType DEF Request
  <2>3. [requests[i] EXCEPT !.answer = "ok", !.snapshot = snap] \in Request
    <3>1. requests[i] \in Request
      OBVIOUS
    <3>2. \A q \in Request : [q EXCEPT !.answer = "ok", !.snapshot = snap] \in Request
      BY <2>2 DEF Request
    <3>3. QED
      BY <3>1, <3>2
  <2>4. requests' = [requests EXCEPT ![i] =
                        [requests[i] EXCEPT !.answer = "ok", !.snapshot = snap]]
    BY <2>1
  <2>5. requests' \in [Requests -> Request]
    BY <2>3, <2>4
  <2>6. QED
    BY <1>1, <2>5 DEF HandleRead
<1>2. CASE HandleList(i)
  <2>1. requests' \in [Requests -> Request]
    BY <1>2 DEF HandleList, Request
  <2>2. QED
    BY <1>2, <2>1 DEF HandleList
<1>3. CASE HandleSend(i)
  <2>1. requests' \in [Requests -> Request]
    BY <1>3 DEF HandleSend, Request
  <2>2. requests[i].session \in Sessions
    BY <1>3 DEF HandleSend, SendKnown
  <2>3. QED
    BY <1>3, <2>1, <2>2 DEF HandleSend
<1>4. CASE RequestFails(i)
  <2>1. requests' \in [Requests -> Request]
    BY <1>4 DEF RequestFails, Request
  <2>2. failures' \in 0 .. MaxFailures
    BY <1>4 DEF RequestFails
  <2>3. QED
    BY <1>4, <2>1, <2>2 DEF RequestFails
<1>5. CASE Reconcile(i)
  <2>1. requests' \in [Requests -> Request]
    BY <1>5, NewType DEF Reconcile
  <2>2. QED
    BY <1>5, <2>1 DEF Reconcile
<1>6. QED
  BY <1>1, <1>2, <1>3, <1>4, <1>5 DEF Handle

\* A snapshot is put in the place of everything the view had.
LEMMA AppliedType ==
    ASSUME ChatTypeOK, NEW i \in Requests, NEW r \in Runs \union {None},
           applyTranscriptSnapshot(i, r)
    PROVE  /\ transcriptItems' \subseteq Items /\ optimistic' = {}
           /\ live' \in [run : Runs \union {None}, shown : SUBSET (1 .. MaxEvents)]
           /\ activeSessionId' \in Sessions \union {None}
           /\ activeRunId' \in Runs \union {None} /\ routeNotFound' = FALSE
           /\ requests' \in [Requests -> Request]
           /\ \A j \in Requests :
                 /\ requests'[j].kind = "send" => requests'[j] = requests[j]
                 /\ requests[j].kind = "send" => requests'[j] = requests[j] \/ j = i
<1> DEFINE forgotten == [requests EXCEPT ![i] = NoRequest]
<1>1. requests[i] \in Request
  BY DEF ChatTypeOK
<1>2. forgotten \in [Requests -> Request] /\ NoRequest.kind = "none"
  BY NoRequestType DEF ChatTypeOK, NoRequest
<1>3. requests' = Disposed(forgotten, requests[i].session, r)
  BY DEF applyTranscriptSnapshot
<1>4. /\ requests' \in [Requests -> Request]
      /\ \A j \in Requests :
            /\ forgotten[j].kind # "reconcile" => requests'[j] = forgotten[j]
            /\ requests'[j] \in {forgotten[j], NoRequest}
  <2> HIDE DEF forgotten
  <2>1. QED
    BY <1>2, <1>3, DisposedType
<1>5. \A j \in Requests : forgotten[j] = IF j = i THEN NoRequest ELSE requests[j]
  BY DEF ChatTypeOK
<1>6. ASSUME NEW j \in Requests
      PROVE  /\ requests'[j].kind = "send" => requests'[j] = requests[j]
             /\ requests[j].kind = "send" => requests'[j] = requests[j] \/ j = i
  BY <1>2, <1>4, <1>5
<1>7. QED
  BY <1>1, <1>4, <1>6, NoStreamType DEF applyTranscriptSnapshot, Request, Snapshot

\* What an answer does to the view.
LEMMA AnswerType ==
    ASSUME ChatTypeOK, SendKnown, NEW i \in Requests, Answer(i)
    PROVE  ChatTypeOK'
<1> USE DEF ChatTypeOK, backendVars
<1>1. requests[i] \in Request /\ requests[i].snapshot \in Snapshot
  BY DEF Request
<1>2. [requests EXCEPT ![i] = NoRequest] \in [Requests -> Request]
  BY NoRequestType
<1>3. CASE TranscriptLoaded(i)
  <2>1. deriveActiveRunId(requests[i].snapshot, None) \in Runs \union {None}
    BY <1>1, DerivedType
  <2>2. requests[i].session \in Sessions \union {None}
    BY <1>1 DEF Request
  <2>3. applyTranscriptSnapshot(i, deriveActiveRunId(requests[i].snapshot, None))
    BY <1>3 DEF TranscriptLoaded
  <2>4. loadingMessages' \in BOOLEAN
    BY <1>3 DEF TranscriptLoaded
  <2>5. /\ transcriptItems' \subseteq Items /\ optimistic' = {}
        /\ live' \in [run : Runs \union {None}, shown : SUBSET (1 .. MaxEvents)]
        /\ activeSessionId' \in Sessions \union {None}
        /\ activeRunId' \in Runs \union {None} /\ routeNotFound' = FALSE
        /\ requests' \in [Requests -> Request]
    BY <2>1, <2>3, AppliedType
  <2>6. QED
    BY <1>3, <2>2, <2>4, <2>5 DEF TranscriptLoaded
<1>4. CASE LoadFailed(i)
  <2>1. loadingMessages' \in BOOLEAN /\ errorText' \in BOOLEAN /\ routeNotFound' \in BOOLEAN
    BY <1>4 DEF LoadFailed
  <2>2. QED
    BY <1>2, <1>4, <2>1 DEF LoadFailed
<1>5. CASE SessionsListed(i)
  <2>1. requests' \in [Requests -> Request] /\ loadingMessages' \in BOOLEAN
    <3>1. New("select", route, None) \in Request
      BY NewType
    <3>2. [requests EXCEPT ![i] = New("select", route, None)] \in [Requests -> Request]
      BY <3>1
    <3>3. CASE requests' = [requests EXCEPT ![i] = New("select", route, None)]
               /\ loadingMessages' = TRUE
      BY <3>2, <3>3
    <3>4. CASE requests' = [requests EXCEPT ![i] = NoRequest] /\ UNCHANGED loadingMessages
      BY <1>2, <3>4
    <3>5. QED
      BY <1>5, <3>3, <3>4 DEF SessionsListed
  <2>2. QED
    BY <1>5, <2>1 DEF SessionsListed
<1>6. CASE ListFailed(i)
  BY <1>2, <1>6 DEF ListFailed
<1>7. CASE ReconcileAnswered(i)
  <2> DEFINE r == deriveActiveRunId(requests[i].snapshot, requests[i].run)
  <2>1. r \in Runs \union {None}
    BY <1>1, DerivedType DEF Request
  <2>2. applyTranscriptSnapshot(i, r)
    BY <1>7 DEF ReconcileAnswered
  <2>3. sending' \in BOOLEAN /\ stream' \in {NoStream, stream}
    BY <1>7 DEF ReconcileAnswered
  <2>4. /\ transcriptItems' \subseteq Items /\ optimistic' = {}
        /\ live' \in [run : Runs \union {None}, shown : SUBSET (1 .. MaxEvents)]
        /\ activeSessionId' \in Sessions \union {None}
        /\ activeRunId' \in Runs \union {None} /\ routeNotFound' = FALSE
        /\ requests' \in [Requests -> Request]
    BY <2>1, <2>2, AppliedType
  <2>5. QED
    BY <1>7, <2>3, <2>4, NoStreamType DEF ReconcileAnswered
<1>8. CASE ReconcileFailed(i)
  <2>1. routeNotFound' \in BOOLEAN
    BY <1>8 DEF ReconcileFailed
  <2>2. QED
    BY <1>2, <1>8, <2>1 DEF ReconcileFailed
<1>9. CASE MessageSent(i)
  <2>1. requests[i].run \in Runs /\ requests[i].session \in Sessions
    BY <1>9 DEF MessageSent, Answered, SendKnown
  <2>2. requests' \in [Requests -> Request]
    BY <1>2, <1>9, DisposedType DEF MessageSent
  <2>3. stream' \in [run : Runs \union {None}, session : Sessions \union {None},
                    next : 1 .. MaxEvents + 1]
    BY <1>9, <2>1 DEF MessageSent, bindRunStream
  <2>4. QED
    BY <1>9, <2>1, <2>2, <2>3 DEF MessageSent
<1>10. CASE SendFailed(i)
  BY <1>2, <1>10 DEF SendFailed
<1>11. QED
  BY <1>3, <1>4, <1>5, <1>6, <1>7, <1>8, <1>9, <1>10 DEF Answer

(***************************************************************************)
(* The invariant, ChatInv of ChatView.                                     *)
(***************************************************************************)

LEMMA InitInv == Init => ChatInv
<1> SUFFICES ASSUME Init PROVE ChatInv
  OBVIOUS
<1>1. \A i \in Requests : requests[i].kind = "none"
  BY DEF Init, NoRequest
<1>2. SendKnown
  BY <1>1 DEF SendKnown
<1>3. QED
  BY <1>2, InitType DEF Init, ChatInv, ComposerNotStuck, ShownMessageIsSent

LEMMA TypeKept == ChatInv /\ Next => ChatTypeOK'
<1> SUFFICES ASSUME ChatInv, Next PROVE ChatTypeOK'
  OBVIOUS
<1>1. ChatTypeOK /\ SendKnown
  BY DEF ChatInv
<1>2. CASE Backend
  BY <1>1, <1>2, BackendType
<1>3. CASE User \/ DeliverEvent \/ DeliverEnd \/ StreamBreaks
  BY <1>1, <1>3, ViewType
<1>4. CASE \E i \in Requests : Handle(i) \/ RequestFails(i) \/ Reconcile(i)
  BY <1>1, <1>4, RequestType
<1>5. CASE \E i \in Requests : Answer(i)
  BY <1>1, <1>5, AnswerType
<1>6. QED
  BY <1>2, <1>3, <1>4, <1>5 DEF Next

\* The steps that have nothing to do with sending: the messages being sent
\* and the sessions of the runs stay what they are, the composer is not locked
\* and does not lose the stream it is locked for, and the messages shown are
\* the same ones or none.
QuietStep ==
    /\ \A j \in Requests :
          requests[j].kind = "send" \/ requests'[j].kind = "send" => requests'[j] = requests[j]
    /\ session_of' = session_of
    /\ sending' => sending /\ (stream.run # None => stream'.run # None)
    /\ \/ optimistic' = {}
       \/ optimistic' = optimistic /\ activeSessionId' = activeSessionId

\* What the invariant says beyond the types.
SendInv ==
    /\ SendKnown
    /\ ComposerNotStuck
    /\ optimistic # {} => activeSessionId # None
    /\ ShownMessageIsSent

LEMMA QuietKeeps == SendInv /\ QuietStep => SendInv'
<1> SUFFICES ASSUME SendInv, QuietStep PROVE SendInv'
  OBVIOUS
<1>1. SendKnown'
  BY DEF SendInv, QuietStep, SendKnown
<1>2. ComposerNotStuck'
  BY DEF SendInv, QuietStep, ComposerNotStuck, InFlight
<1>3. (optimistic # {} => activeSessionId # None)'
  BY DEF SendInv, QuietStep
<1>4. ShownMessageIsSent'
  BY DEF SendInv, QuietStep, ShownMessageIsSent, InFlight
<1>5. QED
  BY <1>1, <1>2, <1>3, <1>4 DEF SendInv

LEMMA BackendQuiet == Backend => QuietStep
BY DEF Backend, EmitEvent, StartRun, DecidePermission, EndRun, QuietStep, viewVars

LEMMA ReadQuiet ==
    ASSUME ChatTypeOK, NEW i \in Requests, HandleRead(i) \/ HandleList(i) \/ Reconcile(i)
    PROVE  QuietStep
<1>1. CASE HandleRead(i)
  <2>1. PICK snap \in Snapshots(requests[i].session) :
           requests' = [requests EXCEPT ![i].answer = "ok", ![i].snapshot = snap]
    BY <1>1 DEF HandleRead
  <2>2. requests' = [requests EXCEPT ![i] =
                        [requests[i] EXCEPT !.answer = "ok", !.snapshot = snap]]
    BY <2>1 DEF ChatTypeOK
  <2>3. requests[i].kind # "send" /\ requests'[i].kind = requests[i].kind
    <3>1. requests[i] \in Request
             /\ requests'[i] = [requests[i] EXCEPT !.answer = "ok", !.snapshot = snap]
      BY <2>2 DEF ChatTypeOK
    <3>2. requests'[i].kind = requests[i].kind
      BY <3>1 DEF Request
    <3>3. QED
      BY <1>1, <3>2 DEF HandleRead
  <2>4. \A j \in Requests : j # i => requests'[j] = requests[j]
    BY <2>2 DEF ChatTypeOK
  <2>5. QED
    BY <1>1, <2>3, <2>4 DEF HandleRead, QuietStep, backendVars, viewVars
<1>2. CASE HandleList(i)
  BY <1>2 DEF HandleList, QuietStep, backendVars, viewVars, ChatTypeOK, Request
<1>3. CASE Reconcile(i)
  BY <1>3, NewType DEF Reconcile, Free, QuietStep, backendVars, viewVars, ChatTypeOK
<1>4. QED
  BY <1>1, <1>2, <1>3

LEMMA LoadQuiet ==
    ASSUME ChatTypeOK, NEW i \in Requests,
           \/ TranscriptLoaded(i) \/ LoadFailed(i) \/ SessionsListed(i) \/ ListFailed(i)
           \/ ReconcileAnswered(i) \/ ReconcileFailed(i)
    PROVE  QuietStep
<1> USE DEF backendVars, viewVars
<1>1. requests[i] \in Request /\ requests[i].snapshot \in Snapshot /\ NoRequest.kind = "none"
  BY DEF ChatTypeOK, Request, NoRequest
<1>2. requests[i].kind # "send"
  BY DEF TranscriptLoaded, LoadFailed, SessionsListed, ListFailed, ReconcileAnswered,
         ReconcileFailed, Answered
<1>3. CASE TranscriptLoaded(i)
  <2>1. deriveActiveRunId(requests[i].snapshot, None) \in Runs \union {None}
    BY <1>1, DerivedType
  <2>2. applyTranscriptSnapshot(i, deriveActiveRunId(requests[i].snapshot, None))
    BY <1>3 DEF TranscriptLoaded
  <2>3. /\ optimistic' = {}
        /\ \A j \in Requests :
              /\ requests'[j].kind = "send" => requests'[j] = requests[j]
              /\ requests[j].kind = "send" => requests'[j] = requests[j] \/ j = i
    BY <2>1, <2>2, AppliedType
  <2>4. QED
    BY <1>2, <1>3, <2>3 DEF TranscriptLoaded, QuietStep
<1>4. CASE ReconcileAnswered(i)
  <2> DEFINE r == deriveActiveRunId(requests[i].snapshot, requests[i].run)
  <2>1. r \in Runs \union {None}
    BY <1>1, DerivedType DEF Request
  <2>2. applyTranscriptSnapshot(i, r)
    BY <1>4 DEF ReconcileAnswered
  <2>3. /\ optimistic' = {}
        /\ \A j \in Requests :
              /\ requests'[j].kind = "send" => requests'[j] = requests[j]
              /\ requests[j].kind = "send" => requests'[j] = requests[j] \/ j = i
    BY <2>1, <2>2, AppliedType
  <2>4. sending' => sending /\ stream' = stream
    BY <1>4 DEF ReconcileAnswered
  <2>5. session_of' = session_of
    BY <1>4 DEF ReconcileAnswered
  <2>6. QED
    BY <1>2, <2>3, <2>4, <2>5 DEF QuietStep
<1>5. CASE LoadFailed(i) \/ ListFailed(i) \/ ReconcileFailed(i)
  <2>1. requests' = [requests EXCEPT ![i] = NoRequest]
    BY <1>5 DEF LoadFailed, ListFailed, ReconcileFailed
  <2>2. UNCHANGED <<session_of, activeSessionId, optimistic, sending, stream>>
    BY <1>5 DEF LoadFailed, ListFailed, ReconcileFailed
  <2>3. QED
    BY <1>1, <1>2, <2>1, <2>2 DEF QuietStep, ChatTypeOK
<1>6. CASE SessionsListed(i)
  <2>1. New("select", route, None).kind = "select"
    BY NewType DEF ChatTypeOK
  <2>2. requests'[i].kind \in {"select", "none"}
    BY <1>1, <1>6, <2>1 DEF SessionsListed, ChatTypeOK
  <2>3. \A j \in Requests : j # i => requests'[j] = requests[j]
    BY <1>6 DEF SessionsListed, ChatTypeOK
  <2>4. QED
    BY <1>2, <1>6, <2>2, <2>3 DEF SessionsListed, QuietStep
<1>7. QED
  BY <1>3, <1>4, <1>5, <1>6

LEMMA ViewQuiet ==
    ASSUME ChatTypeOK,
           \/ \E s \in Sessions : handleSessionSelect(s)
           \/ DeliverEvent \/ DeliverEnd \/ StreamBreaks
    PROVE  QuietStep
<1> USE DEF backendVars
<1>1. CASE \E s \in Sessions : handleSessionSelect(s)
  <2>1. PICK s \in Sessions : handleSessionSelect(s)
    BY <1>1
  <2>2. CASE s = activeSessionId
    BY <2>1, <2>2 DEF handleSessionSelect, QuietStep
  <2>3. CASE s # activeSessionId
    <3>1. PICK i \in Requests :
             /\ Free(i)
             /\ requests' = Disposed([requests EXCEPT ![i] = New("select", s, None)],
                                     activeSessionId, None)
      BY <2>1, <2>3 DEF handleSessionSelect
    <3> DEFINE asked == [requests EXCEPT ![i] = New("select", s, None)]
    <3>2. /\ asked \in [Requests -> Request] /\ asked[i].kind = "select"
          /\ \A j \in Requests : j # i => asked[j] = requests[j]
      BY NewType DEF ChatTypeOK
    <3>3. \A j \in Requests :
             requests[j].kind = "send" \/ requests'[j].kind = "send" => requests'[j] = requests[j]
      <4>1. \A j \in Requests :
               /\ asked[j].kind # "reconcile" => requests'[j] = asked[j]
               /\ requests'[j] \in {asked[j], NoRequest}
        <5> HIDE DEF asked
        <5>1. requests' = Disposed(asked, activeSessionId, None)
          BY <3>1 DEF asked
        <5>2. QED
          BY <3>2, <5>1, DisposedType
      <4>2. requests[i].kind = "none" /\ NoRequest.kind = "none"
        BY <3>1 DEF Free, NoRequest
      <4> HIDE DEF asked
      <4>3. QED
        BY <3>2, <4>1, <4>2
    <3>4. QED
      BY <2>1, <2>3, <3>3 DEF handleSessionSelect, QuietStep
  <2>4. QED
    BY <2>2, <2>3
<1>2. CASE DeliverEvent
  BY <1>2 DEF DeliverEvent, QuietStep, ChatTypeOK
<1>3. ASSUME NEW i \in Requests, Reload(i)
      PROVE  \A j \in Requests :
                requests[j].kind = "send" \/ requests'[j].kind = "send"
                   => requests'[j] = requests[j]
  <2>1. PICK new \in Request :
           /\ new.kind \in {"reload", "list"}
           /\ requests' = Disposed([requests EXCEPT ![i] = new], activeSessionId, None)
    <3>1. /\ New("reload", stream.session, None) \in Request
          /\ New("reload", stream.session, None).kind = "reload"
          /\ New("list", None, None) \in Request
          /\ New("list", None, None).kind = "list"
      BY NewType DEF ChatTypeOK
    <3>2. QED
      BY <1>3, <3>1 DEF Reload
  <2> DEFINE asked == [requests EXCEPT ![i] = new]
  <2>2. /\ asked \in [Requests -> Request] /\ asked[i] = new
        /\ \A j \in Requests : j # i => asked[j] = requests[j]
    BY DEF ChatTypeOK
  <2>3. \A j \in Requests :
           /\ asked[j].kind # "reconcile" => requests'[j] = asked[j]
           /\ requests'[j] \in {asked[j], NoRequest}
    <3>1. requests' = Disposed(asked, activeSessionId, None)
      BY <2>1
    <3> HIDE DEF asked
    <3>2. QED
      BY <2>2, <3>1, DisposedType
  <2>4. requests[i].kind = "none" /\ NoRequest.kind = "none"
    BY <1>3 DEF Reload, Free, NoRequest
  <2> HIDE DEF asked
  <2>5. QED
    BY <2>1, <2>2, <2>3, <2>4
<1>4. CASE DeliverEnd
  BY <1>3, <1>4 DEF DeliverEnd, Closed, QuietStep
<1>5. CASE StreamBreaks
  BY <1>3, <1>5 DEF StreamBreaks, Closed, QuietStep
<1>6. QED
  BY <1>1, <1>2, <1>4, <1>5

(* The steps of a message. *)

LEMMA SendKeeps ==
    ASSUME ChatTypeOK, SendInv, NEW r \in Runs, handleSend(r)
    PROVE  SendInv'
<1>1. PICK i \in Requests :
         Free(i) /\ requests' = [requests EXCEPT ![i] = New("send", activeSessionId, r)]
  BY DEF handleSend
<1>2. activeSessionId \in Sessions /\ activeSessionId' = activeSessionId /\ session_of' = session_of
  BY DEF handleSend, ChatTypeOK, backendVars
<1>3. /\ requests'[i].kind = "send" /\ requests'[i].run = r
      /\ requests'[i].session = activeSessionId /\ requests'[i].answer = "none"
      /\ \A j \in Requests : j # i => requests'[j] = requests[j]
      /\ requests[i].kind = "none"
  BY <1>1, <1>2, NewType DEF ChatTypeOK, Free
<1>4. SendKnown'
  BY <1>2, <1>3 DEF SendInv, SendKnown
<1>5. ComposerNotStuck'
  BY <1>3 DEF ComposerNotStuck, InFlight
<1>6. ShownMessageIsSent'
  BY <1>2, <1>3 DEF SendInv, ShownMessageIsSent, InFlight, handleSend
<1>7. QED
  BY <1>2, <1>4, <1>5, <1>6, ChatViewAssumption DEF SendInv

LEMMA HandleSendKeeps ==
    ASSUME ChatTypeOK, SendInv, NEW i \in Requests, HandleSend(i)
    PROVE  SendInv'
<1> DEFINE s == requests[i].session
           r == requests[i].run
<1>1. r \in Runs /\ s \in Sessions /\ session_of[r] = None /\ requests[i].kind = "send"
  BY DEF HandleSend, SendInv, SendKnown, Exists
<1>2. /\ session_of'[r] = s
      /\ \A q \in Runs : q # r => session_of'[q] = session_of[q]
  BY <1>1 DEF HandleSend, ChatTypeOK
<1>3. requests[i] \in Request /\ requests'[i] = [requests[i] EXCEPT !.answer = "ok"]
      /\ \A j \in Requests : j # i => requests'[j] = requests[j]
  BY DEF HandleSend, ChatTypeOK
<1>4. /\ requests'[i].kind = "send" /\ requests'[i].run = r /\ requests'[i].session = s
      /\ \A j \in Requests : j # i => requests'[j] = requests[j]
  BY <1>1, <1>3 DEF Request
<1>5. SendKnown'
  <2>1. \A j \in Requests : j # i /\ requests[j].kind = "send" /\ requests[j].answer = "ok"
           => requests[j].run # r
    BY <1>1, ChatViewAssumption DEF SendInv, SendKnown
  <2>2. QED
    BY <1>1, <1>2, <1>4, <2>1 DEF SendInv, SendKnown
<1>6. ComposerNotStuck'
  BY <1>1, <1>4 DEF SendInv, ComposerNotStuck, InFlight, HandleSend, viewVars
<1>7. optimistic' = optimistic /\ activeSessionId' = activeSessionId
  BY DEF HandleSend, viewVars
<1>8. ShownMessageIsSent'
  <2> SUFFICES ASSUME NEW q \in optimistic
               PROVE  \/ session_of'[q] = activeSessionId
                      \/ \E j \in InFlight("send")' :
                            requests'[j].run = q /\ requests'[j].session = activeSessionId
    BY <1>7 DEF ShownMessageIsSent
  <2>1. q \in Runs /\ activeSessionId # None
    BY DEF ChatTypeOK, SendInv
  <2>2. CASE session_of[q] = activeSessionId
    BY <1>1, <1>2, <2>1, <2>2
  <2>3. CASE \E j \in InFlight("send") :
                requests[j].run = q /\ requests[j].session = activeSessionId
    BY <1>4, <2>3 DEF InFlight
  <2>4. QED
    BY <2>2, <2>3 DEF SendInv, ShownMessageIsSent
<1>9. QED
  BY <1>5, <1>6, <1>7, <1>8 DEF SendInv

LEMMA RequestFailsKeeps ==
    ASSUME ChatTypeOK, SendInv, NEW i \in Requests, RequestFails(i)
    PROVE  SendInv'
<1>1. requests[i] \in Request /\ requests'[i] = [requests[i] EXCEPT !.answer = "failed"]
      /\ \A j \in Requests : j # i => requests'[j] = requests[j]
  BY DEF RequestFails, ChatTypeOK
<1>2. /\ requests'[i].kind = requests[i].kind /\ requests'[i].run = requests[i].run
      /\ requests'[i].session = requests[i].session /\ requests'[i].answer = "failed"
  BY <1>1 DEF Request
<1>3. UNCHANGED <<session_of, sending, stream, optimistic, activeSessionId>>
  BY DEF RequestFails, backendVars, viewVars
<1>4. SendKnown'
  BY <1>1, <1>2, <1>3 DEF SendInv, SendKnown
<1>5. ComposerNotStuck'
  BY <1>1, <1>2, <1>3 DEF SendInv, ComposerNotStuck, InFlight
<1>6. ShownMessageIsSent'
  <2> SUFFICES ASSUME NEW q \in optimistic, session_of[q] # activeSessionId
               PROVE  \E j \in InFlight("send")' :
                         requests'[j].run = q /\ requests'[j].session = activeSessionId
    BY <1>3 DEF ShownMessageIsSent
  <2>1. PICK j \in InFlight("send") :
           requests[j].run = q /\ requests[j].session = activeSessionId
    BY DEF SendInv, ShownMessageIsSent
  <2>2. /\ requests'[j].kind = "send" /\ requests'[j].run = q
        /\ requests'[j].session = activeSessionId
    BY <1>1, <1>2, <2>1 DEF InFlight
  <2>3. QED
    BY <2>1, <2>2 DEF InFlight
<1>7. QED
  BY <1>3, <1>4, <1>5, <1>6 DEF SendInv

LEMMA MessageSentKeeps ==
    ASSUME ChatTypeOK, SendInv, NEW i \in Requests, MessageSent(i)
    PROVE  SendInv'
<1> DEFINE left == [requests EXCEPT ![i] = NoRequest]
<1>1. /\ requests[i].run \in Runs /\ requests[i].kind = "send"
      /\ session_of[requests[i].run] = requests[i].session
  BY DEF MessageSent, Answered, SendInv, SendKnown
<1>2. /\ left \in [Requests -> Request] /\ left[i] = NoRequest /\ NoRequest.kind = "none"
      /\ \A j \in Requests : j # i => left[j] = requests[j]
  BY NoRequestType DEF ChatTypeOK, NoRequest
<1>3. /\ requests'[i].kind = "none"
      /\ \A j \in Requests : j # i /\ (requests[j].kind = "send" \/ requests'[j].kind = "send")
            => requests'[j] = requests[j]
  <2>1. requests' = Disposed(left, activeSessionId, requests[i].run)
    BY DEF MessageSent
  <2> HIDE DEF left
  <2>2. \A j \in Requests :
           /\ left[j].kind # "reconcile" => requests'[j] = left[j]
           /\ requests'[j] \in {left[j], NoRequest}
    BY <1>2, <2>1, DisposedType
  <2>3. QED
    BY <1>2, <2>2
<1>4. /\ UNCHANGED <<session_of, optimistic, activeSessionId>>
      /\ stream'.run = requests[i].run
  BY DEF MessageSent, bindRunStream, backendVars
<1>5. SendKnown'
  BY <1>3, <1>4 DEF SendInv, SendKnown
<1>6. ComposerNotStuck'
  BY <1>1, <1>4, ChatViewAssumption DEF ComposerNotStuck
<1>7. ShownMessageIsSent'
  BY <1>1, <1>3, <1>4 DEF SendInv, ShownMessageIsSent, InFlight
<1>8. QED
  BY <1>4, <1>5, <1>6, <1>7 DEF SendInv

LEMMA SendFailedKeeps ==
    ASSUME ChatTypeOK, SendInv, NEW i \in Requests, SendFailed(i)
    PROVE  SendInv'
<1>1. /\ requests'[i].kind = "none"
      /\ \A j \in Requests : j # i => requests'[j] = requests[j]
  BY DEF SendFailed, ChatTypeOK, NoRequest
<1>2. /\ UNCHANGED <<session_of, activeSessionId>> /\ ~sending'
      /\ optimistic' = optimistic \ {requests[i].run}
  BY DEF SendFailed, backendVars
<1>3. SendKnown'
  BY <1>1, <1>2 DEF SendInv, SendKnown
<1>4. ComposerNotStuck'
  BY <1>2 DEF ComposerNotStuck
<1>5. ShownMessageIsSent'
  BY <1>1, <1>2 DEF SendInv, ShownMessageIsSent, InFlight
<1>6. QED
  BY <1>2, <1>3, <1>4, <1>5 DEF SendInv

LEMMA NextInv == ChatInv /\ [Next]_vars => ChatInv'
<1> SUFFICES ASSUME ChatInv, [Next]_vars PROVE ChatInv'
  OBVIOUS
<1>1. ChatTypeOK /\ SendInv
  BY DEF ChatInv, SendInv
<1>2. CASE UNCHANGED vars
  <2>1. ChatTypeOK'
    BY <1>1, <1>2 DEF vars, backendVars, viewVars, ChatTypeOK
  <2>2. QuietStep
    BY <1>2 DEF vars, backendVars, viewVars, QuietStep
  <2>3. QED
    BY <1>1, <2>1, <2>2, QuietKeeps DEF ChatInv, SendInv
<1>3. CASE Next
  <2>1. ChatTypeOK'
    BY <1>3, TypeKept
  <2>2. SendInv'
    <3>1. CASE Backend
      BY <1>1, <3>1, BackendQuiet, QuietKeeps
    <3>2. CASE User \/ DeliverEvent \/ DeliverEnd \/ StreamBreaks
      BY <1>1, <3>2, ViewQuiet, SendKeeps, QuietKeeps DEF User
    <3>3. CASE \E i \in Requests : Handle(i) \/ RequestFails(i) \/ Reconcile(i)
      BY <1>1, <3>3, ReadQuiet, QuietKeeps, HandleSendKeeps, RequestFailsKeeps DEF Handle
    <3>4. CASE \E i \in Requests : Answer(i)
      BY <1>1, <3>4, LoadQuiet, QuietKeeps, MessageSentKeeps, SendFailedKeeps DEF Answer
    <3>5. QED
      BY <1>3, <3>1, <3>2, <3>3, <3>4 DEF Next
  <2>3. QED
    BY <2>1, <2>2 DEF ChatInv, SendInv
<1>4. QED
  BY <1>2, <1>3

\* However requests are answered, fail or overtake each other: a locked composer
\* has something under way that unlocks it, and a message shown as sent was sent,
\* or is being sent, to the session shown.
THEOREM Invariance == Spec => []ChatInv
<1>1. Init => ChatInv
  BY InitInv
<1>2. ChatInv /\ [Next]_vars => ChatInv'
  BY NextInv
<1>3. QED
  BY <1>1, <1>2, PTL DEF Spec

\* Every variable of the view and of what it talks to keeps its type.
THEOREM TypeCorrect == Spec => []ChatTypeOK
<1>1. ChatInv => ChatTypeOK
  BY DEF ChatInv
<1>2. QED
  BY <1>1, Invariance, PTL

\* However requests are answered, fail or overtake each other, the composer is
\* locked only while a message is being sent or a stream is open.
THEOREM ComposerUnlocks == Spec => []ComposerNotStuck
<1>1. ChatInv => ComposerNotStuck
  BY DEF ChatInv
<1>2. QED
  BY <1>1, Invariance, PTL

\* A message that handleSend shows before the backend has it belongs to the
\* session shown, and it has been sent or is being sent.
THEOREM ShownMessagesAreSent == Spec => []ShownMessageIsSent
<1>1. ChatInv => ShownMessageIsSent
  BY DEF ChatInv
<1>2. QED
  BY <1>1, Invariance, PTL
=============================================================================
