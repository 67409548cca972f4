------------------------ MODULE TranscriptProjection -------------------------
(***************************************************************************)
(* The three projections of session updates to the items of a transcript:  *)
(* build_run_transcript_items and build_synced_session_transcript_items of *)
(* backend/app/transcript_projection.py, which rebuild a run from its      *)
(* stored events and a session from the agent's replay, and                *)
(* applyRunStreamEvent of frontend/src/liveTranscript.ts, which follows    *)
(* the stream of a run one event at a time.                                *)
(*                                                                         *)
(* The place of an event in the log is also its time.  Of a chunk of text  *)
(* the projections tell apart whether it is empty, only white space        *)
(* ("blank") or was too large to be stored ("truncated"); a "step" is a    *)
(* tool call, a plan or the like, "silent" an update without a trace.      *)
(*                                                                         *)
(* The page need not get every update of a run: EventBroker replaces one   *)
(* that waits in its queue by a newer one, and drops updates when the      *)
(* queue is full; a step here chooses whether the page gets its update.    *)
(* Critical events are taken to reach the page: the broker gives one up    *)
(* only when a thousand newer ones wait (CriticalLostOnlyToNewerCritical). *)
(***************************************************************************)
EXTENDS Naturals, SequencesExt

CONSTANTS Approvals,    \* approval ids the agent may use
          MaxEvents,    \* max_events_per_run
          MaxLog,       \* bound on the events of a run
          MaxReplay,    \* bound on the updates of a replay
          MaxMissed,    \* bound on the updates that do not reach the page
          AskAgain      \* whether a request may repeat an approval id

ASSUME ProjectionAssumption ==
    /\ MaxEvents \in Nat \ {0} /\ MaxLog \in Nat /\ MaxReplay \in Nat /\ MaxMissed \in Nat
    /\ AskAgain \in BOOLEAN

VARIABLES
    of,     \* what is projected: a "run" or the replay of a "session"
    log,    \* the events stored and streamed, or the updates replayed
    rows,   \* _permission_requests of the run
    live,   \* the LiveRunProjection
    missed, \* the updates that never reached the page
    over    \* whether the run has completed

vars == <<of, log, rows, live, missed, over>>

Updates == {"message", "thought", "blank", "empty", "truncated", "step", "silent"}
Visible == {"message", "thought", "blank"}
NoRow == [at |-> 0, status |-> "none"]

\* What an update leaves in a transcript, and the items: a bubble of text and steps,
\* and the card of a permission request, which has neither.
Chunk(update, i) == [update |-> update, at |-> i]
Bubble(id, kind, parts, steps, at) ==
    [kind |-> kind, id |-> id, parts |-> parts, steps |-> steps, at |-> at]
Card(approval, status, at) ==
    [kind |-> "permission_request", approval |-> approval, status |-> status,
     parts |-> <<>>, steps |-> <<>>, at |-> at]
IsCard(item) == item.kind = "permission_request"

\* _visible_segment
SegmentKind(update) == IF update = "thought" THEN "thought" ELSE "message"

\* _step_from_update: a truncated update leaves a placeholder.
HasStep(update) == update \in {"step", "truncated"}
-----------------------------------------------------------------------------
(* build_run_transcript_items: a fold over the entries in time order. *)

Unstarted(run) == [run |-> run, items |-> <<>>, index |-> 0, kind |-> "none", at |-> 0,
                   parts |-> <<>>, steps |-> <<>>, pending |-> <<>>]

\* The id of the next segment.
SegmentId(b) == <<b.run, "segment", b.index>>

\* flush_segment
FlushSegment(b) ==
    IF b.kind = "none" THEN b
    ELSE [b EXCEPT !.items = Append(@, Bubble(SegmentId(b), b.kind, b.parts, b.steps, b.at)),
                   !.index = @ + 1,
                   !.kind = "none", !.parts = <<>>, !.steps = <<>>]

\* flush_pending_steps
FlushPendingSteps(b) ==
    IF b.pending = <<>> THEN b
    ELSE [b EXCEPT !.items = Append(@, Bubble(SegmentId(b), "steps", <<>>, b.pending,
                                              b.pending[1].at)),
                   !.index = @ + 1,
                   !.pending = <<>>]

\* start_segment
StartSegment(b, kind, i) ==
    [b EXCEPT !.kind = kind, !.at = i, !.steps = b.pending, !.pending = <<>>]

\* Mutant: text of another kind is added to the segment under way.
AddTextAnyway(b, update, i) ==
    LET begun == IF b.kind = "none" THEN StartSegment(b, SegmentKind(update), i) ELSE b
    IN  [begun EXCEPT !.parts = Append(@, Chunk(update, i))]

\* A chunk of text ends a segment of another kind.
AddText(b, update, i) ==
    LET kind == SegmentKind(update)
        ready == IF b.kind = kind THEN b ELSE FlushSegment(b)
        begun == IF ready.kind = "none" THEN StartSegment(ready, kind, i) ELSE ready
    IN  [begun EXCEPT !.parts = Append(@, Chunk(update, i))]

AddUpdate(b, update, i) ==
    CASE update \in Visible -> AddText(b, update, i)
      [] HasStep(update)    -> [FlushSegment(b) EXCEPT !.pending = Append(@, Chunk(update, i))]
      [] OTHER              -> b

\* Mutant: the steps that wait stay behind the card.
AddPermissionEarly(b, card) == [FlushSegment(b) EXCEPT !.items = Append(@, card)]

AddPermission(b, card) ==
    [FlushPendingSteps(FlushSegment(b)) EXCEPT !.items = Append(@, card)]

Finish(b) == FlushPendingSteps(FlushSegment(b))

\* _prune_run_events_locked keeps the newest events; the permission requests are
\* kept apart from them, one for each approval id.  A replay is not stored.
Kept(i) == of = "session" \/ i + MaxEvents > Len(log)

\* An entry that is not there leaves no trace, as a silent update does.
HasEntry(i) == IF log[i].kind = "ask" THEN rows[log[i].approval].at = i
               ELSE log[i].kind \in Updates /\ Kept(i)
Entries == [i \in DOMAIN log |-> Chunk(IF HasEntry(i) THEN log[i].kind ELSE "silent", i)]

CardAt(i) == Card(log[i].approval, rows[log[i].approval].status, i)

Add(b, c) == IF c.update = "ask" THEN AddPermission(b, CardAt(c.at))
             ELSE AddUpdate(b, c.update, c.at)

Build(run, chunks) ==
    LET after[n \in 0 .. Len(chunks)] ==
            IF n = 0 THEN Unstarted(run) ELSE Add(after[n - 1], chunks[n])
    IN  Finish(after[Len(chunks)]).items

Rebuilt == Build(<<"run">>, Entries)
-----------------------------------------------------------------------------
(* applyRunStreamEvent *)

NoSegment == Bubble(0, "none", <<>>, <<>>, 0)
NewProjection == [items |-> <<>>, next |-> 0, active |-> NoSegment, pending |-> <<>>]

IsBlank(parts) == \A n \in DOMAIN parts : parts[n].update \in {"blank", "empty", "truncated"}

\* flushActiveSegment: one without steps whose text is blank is dropped.
FlushActiveSegment(l) ==
    LET a == l.active
    IN  IF a.kind = "none" THEN l
        ELSE [l EXCEPT !.items = IF IsBlank(a.parts) /\ a.steps = <<>> THEN @ ELSE Append(@, a),
                       !.active = NoSegment]

\* flushPendingSteps
FlushLiveSteps(l) ==
    IF l.pending = <<>> THEN l
    ELSE [l EXCEPT
            !.items = Append(@, Bubble(l.next, "steps", <<>>, l.pending, l.pending[1].at)),
            !.next = @ + 1,
            !.pending = <<>>]

\* startSegment
StartLiveSegment(l, kind, i) ==
    [l EXCEPT !.active = Bubble(l.next, kind, <<>>, l.pending, i),
              !.next = @ + 1,
              !.pending = <<>>]

\* A chunk without text, also one that was truncated, begins a segment all the same.
LiveText(l, update, i) ==
    LET kind == SegmentKind(update)
        ready == IF l.active.kind = kind THEN l ELSE FlushActiveSegment(l)
        begun == IF ready.active.kind = "none" THEN StartLiveSegment(ready, kind, i) ELSE ready
    IN  [begun EXCEPT !.active.parts = Append(@, Chunk(update, i))]

\* appendStepToCurrentSegment
LiveStep(l, i) ==
    IF l.active.kind = "none" THEN [l EXCEPT !.pending = Append(@, Chunk("step", i))]
    ELSE [l EXCEPT !.active.steps = Append(@, Chunk("step", i))]

LiveUpdate(l, update, i) ==
    CASE update = "step"   -> LiveStep(l, i)
      [] update = "silent" -> l
      [] OTHER             -> LiveText(l, update, i)

HasCard(l, a) ==
    \E n \in DOMAIN l.items : IsCard(l.items[n]) /\ l.items[n].approval = a

\* run.permission.requested
LiveAsk(l, a, i) ==
    LET flushed == FlushLiveSteps(FlushActiveSegment(l))
    IN  IF HasCard(flushed, a) THEN flushed
        ELSE [flushed EXCEPT !.items = Append(@, Card(a, "pending", i))]

\* applyLivePermissionDecision
LiveDecide(l, a) ==
    [l EXCEPT !.items =
        [n \in DOMAIN @ |-> IF IsCard(@[n]) /\ @[n].approval = a
                            THEN [@[n] EXCEPT !.status = "decided"] ELSE @[n]]]

\* Mutant: the steps that wait are forgotten.
LiveCompletedShort(l) == FlushActiveSegment(l)

\* run.completed, run.error
LiveCompleted(l) == FlushLiveSteps(FlushActiveSegment(l))

\* materializeLiveTranscriptItems
LiveItems == IF live.active.kind = "none" THEN live.items ELSE Append(live.items, live.active)
-----------------------------------------------------------------------------
(* A run. *)

Init ==
    /\ of \in {"run", "session"}
    /\ log = <<>>
    /\ rows = [a \in Approvals |-> NoRow]
    /\ live = NewProjection
    /\ missed = {}
    /\ over = FALSE

Store(kind, approval) ==
    /\ ~over /\ Len(log) < IF of = "run" THEN MaxLog ELSE MaxReplay
    /\ log' = Append(log, [kind |-> kind, approval |-> approval])
    /\ UNCHANGED of

\* run.session_update is stored and published, and reaches the page or not.
SessionUpdate(update) ==
    /\ of = "run" /\ Store(update, "none")
    /\ \/ live' = LiveUpdate(live, update, Len(log')) /\ UNCHANGED missed
       \/ /\ Cardinality(missed) < MaxMissed
          /\ missed' = missed \union {Len(log')} /\ UNCHANGED live
    /\ UNCHANGED <<rows, over>>

\* run.permission.requested: create_permission_request replaces the row.
RequestPermission(a) ==
    /\ of = "run" /\ (rows[a] = NoRow \/ AskAgain)
    /\ Store("ask", a)
    /\ rows' = [rows EXCEPT ![a] = [at |-> Len(log'), status |-> "pending"]]
    /\ live' = LiveAsk(live, a, Len(log'))
    /\ UNCHANGED <<missed, over>>

\* run.permission.decision, while the stream is open.
DecidePermission(a) ==
    /\ rows[a].status = "pending"
    /\ Store("decision", a)
    /\ rows' = [rows EXCEPT ![a].status = "decided"]
    /\ live' = LiveDecide(live, a)
    /\ UNCHANGED <<missed, over>>

Complete ==
    /\ of = "run" /\ ~over /\ over' = TRUE
    /\ live' = LiveCompleted(live)
    /\ UNCHANGED <<of, log, rows, missed>>
-----------------------------------------------------------------------------
(* build_synced_session_transcript_items: the replay of a session, cut into
   turns.  The updates get times two milliseconds apart, in their order.      *)

\* The run id of a turn.
RemoteRun(turn) == <<"remote-sync", turn>>

UserMessage(run, users) ==
    Bubble(<<run, "user", 0>>, "user_message", users, <<>>, users[1].at)

\* flush_turn
FlushTurn(t) ==
    LET said == IF t.users = <<>> THEN <<>> ELSE <<UserMessage(RemoteRun(t.index), t.users)>>
    IN  [t EXCEPT !.items = @ \o said \o Build(RemoteRun(t.index), t.updates)]

\* Mutant: the updates of the turn before are kept.
NextTurnKeeping(t) == [FlushTurn(t) EXCEPT !.index = @ + 1, !.users = <<>>]

NextTurn(t) == [FlushTurn(t) EXCEPT !.index = @ + 1, !.users = <<>>, !.updates = <<>>]

\* A chunk of the user after something else begins a turn.
AddReplayed(t, c) ==
    IF c.update = "user"
    THEN [IF t.updates = <<>> THEN t ELSE NextTurn(t) EXCEPT !.users = Append(@, c)]
    ELSE [t EXCEPT !.updates = Append(@, c)]

NoTurn == [items |-> <<>>, users |-> <<>>, updates |-> <<>>, index |-> 0]

Synced ==
    LET after[n \in 0 .. Len(log)] ==
            IF n = 0 THEN NoTurn ELSE AddReplayed(after[n - 1], Chunk(log[n].kind, n))
    IN  FlushTurn(after[Len(log)]).items

\* The agent replays one more update in answer to session/load.
Replay(update) ==
    /\ of = "session" /\ Store(update, "none")
    /\ UNCHANGED <<rows, live, missed, over>>

Next ==
    \/ \E update \in Updates : SessionUpdate(update)
    \/ \E a \in Approvals : RequestPermission(a) \/ DecidePermission(a)
    \/ Complete
    \/ \E update \in (Updates \ {"truncated"}) \union {"user"} : Replay(update)

Spec == Init /\ [][Next]_vars
-----------------------------------------------------------------------------
(* Properties. *)

\* The text and the steps of each item, and all there are.
Texts(items) == [n \in DOMAIN items |-> items[n].parts]
Steps(items) == [n \in DOMAIN items |-> items[n].steps]
All(lists) == UNION {ToSet(lists[n]) : n \in DOMAIN lists}

\* Read from the first item to the last, the times ascend: nothing comes twice.
InOrder(lists) ==
    \A m, n \in DOMAIN lists : \A j \in DOMAIN lists[m], k \in DOMAIN lists[n] :
        m < n \/ (m = n /\ j < k) => lists[m][j].at < lists[n][k].at
Sorted(items) == \A m, n \in DOMAIN items : m < n => items[m].at < items[n].at

\* What the kept events hold.
StoredText ==
    {Chunk(log[i].kind, i) : i \in {n \in DOMAIN log : log[n].kind \in Visible \union {"user"}
                                                      /\ Kept(n)}}
StoredSteps ==
    {Chunk(log[i].kind, i) : i \in {n \in DOMAIN log : HasStep(log[n].kind) /\ Kept(n)}}

\* The types of the live projection.
ProjTypeOK ==
    /\ of \in {"run", "session"}
    /\ \A i \in DOMAIN log : log[i].kind \in Updates \union {"ask", "decision", "user"}
    /\ \A a \in Approvals : rows[a].at \in 0 .. Len(log)
                            /\ rows[a].status \in {"none", "pending", "decided"}
    /\ live.next \in Nat /\ over \in BOOLEAN /\ missed \subseteq DOMAIN log
    /\ live.active.kind \in {"none", "message", "thought"}
    /\ \A n \in DOMAIN live.items :
          live.items[n].kind \in {"message", "thought", "steps", "permission_request"}

\* A segment holds text of its kind.
SegmentsOfAKind(items) ==
    \A n \in DOMAIN items : items[n].kind \in {"message", "thought"} =>
        \A k \in DOMAIN items[n].parts : SegmentKind(items[n].parts[k].update) = items[n].kind

IdsUnique(items) ==
    \A m, n \in DOMAIN items :
        m # n /\ ~IsCard(items[m]) /\ ~IsCard(items[n]) => items[m].id # items[n].id

\* Items are in the order things happened, so that the sort by created_at in
\* build_session_transcript leaves them where they are.
Ordered(items) == InOrder(Texts(items)) /\ InOrder(Steps(items)) /\ Sorted(items)

\* The items show every kept chunk of text and every kept step, once, where it
\* happened, wherever segments begin and end; and each can be told from the others.
ShowsStored(items) ==
    /\ All(Texts(items)) = StoredText /\ All(Steps(items)) = StoredSteps
    /\ Ordered(items) /\ SegmentsOfAKind(items) /\ IdsUnique(items)

\* What is built of a run is the run, and what is followed live is in order, too.
RunProjectionOK ==
    /\ ProjTypeOK
    /\ of = "run" => ShowsStored(Rebuilt)
    /\ Ordered(LiveItems) /\ IdsUnique(LiveItems)

\* A permission card stands between what came before the request and what came after:
\* no bubble spans it.
Divides(items) ==
    \A c, n \in DOMAIN items :
        IsCard(items[c]) /\ ~IsCard(items[n]) =>
            \A chunk \in ToSet(items[n].parts) \union ToSet(items[n].steps) :
                IF n < c THEN chunk.at < items[c].at ELSE chunk.at > items[c].at
CardsDivide == Divides(Rebuilt) /\ Divides(LiveItems)

\* What a page and the transcript have in common: text but for white space, and
\* steps, of updates that are still stored; and the cards.
Text(items) == {c \in All(Texts(items)) : Kept(c.at) /\ ~IsBlank(<<c>>)}
KeptSteps(items) == {c \in All(Steps(items)) : Kept(c.at)}
Cards(items) == {items[n] : n \in {m \in DOMAIN items : IsCard(items[m])}}
Reached(chunks) == {c \in chunks : c.at \notin missed}

\* When a run is over, the page it was watched on shows, of what reached it, the text
\* and the steps that loading the transcript again shows, in order, and all of its
\* cards: the gaps that missed updates leave take nothing else with them.
LiveShowsSame ==
    over /\ "truncated" \notin {log[i].kind : i \in DOMAIN log} =>
        /\ Text(LiveItems) = Reached(Text(Rebuilt))
        /\ KeptSteps(LiveItems) = Reached(KeptSteps(Rebuilt))
        /\ Cards(LiveItems) = Cards(Rebuilt)
        /\ Ordered(LiveItems) /\ Ordered(Rebuilt)

\* What is built of a replay is the replay: every turn, once and in order.
ReplayProjectionOK == of = "session" => ShowsStored(Synced)

\* The page has got all text of a run that is over.
\* The code does not keep it: a newer update replaces one that waits for the page.
LiveShowsAll == over => Text(Rebuilt) \subseteq Text(LiveItems)

\* Replayed messages belong to no run.
\* The code does not keep it: each turn has a run id of its own.
ReplayHasNoRun == of = "session" => \A n \in DOMAIN Synced : Synced[n].id[1] = <<>>

\* No bubble of a live run has text from before and from after a step.
\* The code does not keep it: a step joins the segment under way.
LivePhasesSplit ==
    \A n \in DOMAIN LiveItems : LiveItems[n].kind \in {"message", "thought"} =>
        LET texts == {c \in ToSet(LiveItems[n].parts) : c.update \in Visible}
        IN  \A step \in ToSet(LiveItems[n].steps) :
               \/ \A c \in texts : c.at < step.at
               \/ \A c \in texts : c.at > step.at

\* An update that was truncated leaves a step in the live projection, too.
\* The code does not keep it: the page reads it as an empty chunk.
TruncatedIsShown ==
    over => \A i \in DOMAIN log :
               log[i].kind = "truncated" => \E c \in All(Steps(LiveItems)) : c.at = i

\* A request that waits for a decision is on a card that can be answered.
\* The code keeps it only for approval ids that are used once.
PendingIsShown ==
    \A a \in Approvals : rows[a].status = "pending" =>
        \E n \in DOMAIN LiveItems :
           /\ IsCard(LiveItems[n]) /\ LiveItems[n].approval = a /\ LiveItems[n].status = "pending"
=============================================================================
