# A TLA+ model of pocage

pocage lets a browser drive coding agents that run on the user's own machines.
A FastAPI backend keeps the runs in memory, a Python connector on every machine
drives an agent through ACP, and a React frontend shows what happens:

    frontend  --REST, SSE-->  backend  --WebSocket-->  connector  --ACP JSON-RPC-->  agent

This directory holds TLA+ modules translated from that code, TLC runs that check
them on small instances, and TLAPS proofs of what matters most for all instances.

## Inventory

| component | code | state | operations | modelled in |
|---|---|---|---|---|
| Event broker | `backend/app/events.py` | the bounded queue of every SSE subscriber | publish, subscribe, get, unsubscribe | `EventBroker` |
| Run registry | `backend/app/runtime_state.py` | runs, the list of queued runs, events, session status | create, claim, mark..., store, prune, cleanup | `RunRegistry` |
| Run dispatch and connector sessions | `backend/app/executor_manager.py`, `main.py` (`daemon_ws`, message, cancel, cleanup) | `_daemons`, `busy_run_id`, `_run_stream_bytes` | register, unregister, dispatch, events of a run, cancel | `RunDispatch`, `RunLifecycle` |
| Connector run loop | `connector/pocage/executor.py` | active runs, the run lock | connect, assign, cancel, prompt | `RunDispatch`, `Permissions`, `RemoteCalls`, `AcpClient` |
| SSE run stream | `main.py` 554-593 | history snapshot, subscription | stream | `RunStream` |
| Permissions | `runtime_state.py` 671-727, `main.py` 485-540, `executor.py` 380-430, 541-568 | requests and waiters | request, decide, forward, cancel | `Permissions` |
| Remote calls | `executor_manager.py` 208-497, 573-598, 777-871 | waiters, the single-flight table, the agent's status | create, list, sync, search | `RemoteCalls` |
| ACP client | `connector/pocage/acp_client.py` | subprocess, live sessions, replay cache | start, stop, load, prompt, route updates | `AcpClient` |
| Session index and remote transcripts | `runtime_state.py` 330-466, 729-859, `executor_manager.py` 313-497 | sessions, index per daemon, cached transcripts | upsert, replace, cache, resolve, load, clean | `SessionIndex` |
| Transcript projection | `transcript_projection.py`, `frontend/src/liveTranscript.ts` | none, and a live view | events to transcript items | `TranscriptProjection` |
| Frontend application | `frontend/src/App.tsx`, `liveTranscript.ts` | the session shown, its items, stream, active run, open requests | select, send, stream, reload, reconcile | `ChatView` |
| Pairing and machine credentials, user sessions | `control_api.py`, `auth_api.py`, `daemon_auth.py`, `pairing.py` | account records | pair, sign in, revoke | not modelled, see below |
| Context search, configuration, schema, scripts | | | | not modelled, see below |

How they interact. A posted message creates a run in the registry, which stays
on the list of queued runs until `dispatch_pending` claims it for the connector
its session lives on. The connector answers over its websocket; `daemon_ws`
hands each message to `handle_executor_event`, which changes the registry,
stores an event and publishes it to the broker. Subscribers of the run get the
event from their queues. When the connection is gone, `unregister` ends the run
its session was busy with. While a run works, its agent may ask for permission:
the request goes up, is decided by a user, and the decision goes down to the
future the agent waits on. Sessions live on the agents: the backend asks the
connectors for lists and replays, each with a future under a request id, and keeps
an index and the last replay of each. What the user sees of a session is put
together from that replay, the runs the registry holds and the stream of the run
under way, by the backend when the transcript is loaded and by the page in between.

What is hard. The backend is one asyncio event loop and most of its steps do not
suspend: the locks of `ExecutorManager` and `EventBroker` guard synchronous code
only. What does suspend are reads of a websocket, database calls, waits for an
answer and, under back-pressure, sends on a websocket. Between those points the
state may have moved: a run may have ended while its assignment was being sent, a
daemon may have reconnected while its old connection was being taken down. On top
of that come connections that break with messages under way, connectors that
reconnect before the backend has noticed, queues that overflow, and lists pruned
while they are used. `PROJECT.json` lists these hazards at their lines.

What makes each component correct, in a sentence: the broker never reorders or
repeats and gives up a critical event only to newer ones; every run goes once
through its life and ends exactly once; what the sessions say about a run agrees
with its status; a queued run waits in the list until it is claimed and reaches
its own daemon only; nothing is kept for a run that is gone; an agent that waits
for a permission gets the answer that was meant for it; a call ends when it can no
longer be answered, and takes nobody's answer; the agent process is not taken from
a task that works with it; no transcript shows a turn twice; a page that is told of
the end of its run shows all of it.

## Plan

1. `EventBroker`, the run core (`RunRegistry`, `RunDispatch`, `RunLifecycle`) and
   proofs about both. *Done.*
2. `RunStream`: the SSE handler over `EventBroker`. *Done.*
3. `Permissions`, `RemoteCalls`, `SessionIndex`. *Done.*
4. `AcpClient`: the run lock, the agent process and the replay cache. *Done.*
5. `TranscriptProjection` and `ChatView`, with proofs about the latter. *Done.*
6. `RemoteCallsProofs`: the invariants of `RemoteCalls`. *Done.*
7. More proofs: `AcpClientProofs`, `SessionIndexProofs`, `RunStreamProofs`,
   `PermissionsProofs`; in `RunDispatchProofs` the invariants that need sends that do
   not suspend and the refinement of `RunLifecycle`. *Done.*
8. `TranscriptProjectionProofs`: the invariants of `TranscriptProjection`. *Done.*

The abstract specification worth stating is the life of a run, `RunLifecycle`. The
modules of one component stand beside each other rather than in one composition:
each takes of the others what it meets at its edge (`Permissions` the life of a run
and of a connection, `SessionIndex` the runs of a session, `ChatView` the number of
events of a run), since one state space of all of them is out of reach.

## Modules

### EventBroker

One action per method: `Publish` (with the storing of the event, which no caller
separates from it by an await), `Subscribe`, `Receive` (the SSE generator's
`queue.get()`) and `Unsubscribe`. An event is its type and its `seq`. The decision
of `_publish_to_queue` is split as in the code: `Coalesced` (a waiting
`run.session_update` gives way to a newer one), then `Full`, then `MakeRoom` (a
low-priority entry gives way, and if there is none a critical event pushes out
the oldest). Taking the queue apart and refilling it is `DropFirstMatching`.
`delivered` is a history variable: how far the subscriber has come.

### RunRegistry

No variables. Every method of `RuntimeState` holds the object's lock and contains
no await, so it is a function on registry values. Runs are numbered in order of
creation, which is the order of every list the code keeps; this makes
`_queued_runs` a set. `clock` ticks when a run ends, the only times that are
compared. `ended = 0` is `terminal_at = None`; `"absent"` is a run that is not a
key of `_runs`. The events kept are those of a run's life; session updates,
permission events and the bounds `max_events_per_run` and
`max_event_payload_bytes` are left out.

### RunDispatch

Composes the registry with the sessions of the connectors, as
`ExecutorManager`, `daemon_ws` and the HTTP handlers do. One action is what runs
between two points that can suspend:

| action | code |
|---|---|
| `SendMessage`, `CancelQueued`, `CancelForwarded`, `CleanupRuns` | `_send_message_response`, `request_cancel`, `_runtime_cleanup_loop` |
| `Connect`, `Welcome`, `RegisterRaises` | `register` before and after its database call, or the call or the send raises |
| `HandleAccepted`, `HandleCompleted`, `HandleFailed`, `HandleViolation` | `handle_executor_event` |
| `Unregister`, `UnregisterReturns`, `UnregisterRaises` | `unregister` before and after its database call, or the call raises |
| `SendReturns`, `SendRaises` | the rest of `dispatch_pending` after a send |
| `Drop`, `NoticeDrop` | the network, external |
| `ConnectorReceives`, `ConnectorAccepts`, `ConnectorSetupFails`, `ConnectorFinishes` | `executor.py` |

`dispatch_pending` is the operator `Dispatch`: it claims the next run and begins
to send it, or returns. What it still has to do (the rest of its snapshot,
`made_progress`, who waits for it) is kept in `sending` under the run it is
sending. With `SendMaySuspend = FALSE` a begun send is finished before anything
else happens (`LoopFree`), which is what a websocket below its high-water mark
does; with `TRUE` everything may happen in between. The order of the sessions in
a snapshot is left open.

A connection `<<d, n>>` is the n-th of its daemon. `link` is `"half"` while the
connector's end is gone and the backend has not noticed. Messages that were under
way when the loss is noticed may or may not still be handled. The connector takes
the first message on a connection for the welcome, whatever it is, and stops for
good when it is closed with code 1008.

### RunLifecycle

The abstract specification: per run, a stage and the events told about it. Runs
are independent, and one step may move several. `RunDispatch` implements it under
the mapping `stage <- Stage(r)`, `told <- rt.run_events`
(`ImplementsLifecycle`).

### RunStream

The generator of `stream_run_events`, over the variables and actions of
`EventBroker`; a subscriber is one GET request. It is suspended in `queue.get()`
and, when the client reads slowly, in a `yield`, so `Begin`, `Replay`,
`SubscribeAfterHistory` and `Live` each go from one yield to the next. Between the
check that the run exists (`Request`) and the first step of the generator the run
may be removed (`RemoveRun`), which leaves an empty history (`BeginWithoutHistory`).
`PublishOfRun` publishes what a run can publish: `run.queued` first, one terminal
event, and after it only decisions of permission requests that were left pending.
`Stored` is what the backend still has of the events: the newest `MaxKept`
(`max_events_per_run`). The 15-second keep-alive changes nothing and is left out.
`joined` is a history variable.

### Permissions

A request from the agent to the user and back. A key is a run and an
`approval_id`, which is the agent's `toolCallId` and may be used again. `Ask` is
`on_permission_request` up to its await of the future in `futures`; `BackendReads`
handles what the connector sent (`HandleRequested`, `HandleEnded`), `ConnectorReads`
what the backend sent (`HandleRunAssign`, `HandlePermissionDecision`,
`HandleRunCancel`). `decide_permission` is split at its send: `DecidePermission`
checks and sends, `DecisionSent` marks the row, `DecisionNotSent` answers with an
error. `CancelPermissionWaiters` is what the end of a prompt, a cancel and the end of
a connection do to the futures. Which ask of its key a message, a row or an answer
is about is not in the code; it is carried along so that properties can say that a
decision reaches the ask it was made for.

### RemoteCalls

The requests of the backend to a connector. A call is an HTTP handler; `Begin`
creates its request or, for a sync, joins the one under way
(`_session_sync_inflight`); `Send` enters the waiter and sends; `HandleResult` takes
the waiter and either resolves it or first awaits the database (`storing`,
`Stored`, or `StoreFails` when the call raises: `daemon_ws` logs it and goes on, and the
future is in no dictionary any more, `unstored`); `TimesOut`, `CancelCall` (the client goes away; `asyncio.shield` keeps a
shared request running, `TakesRequest`) and `FailWaiters` (after `unregister`'s
database call, unless that raises, `UnregisterRaises`) end it otherwise. The connector answers in any order, with a result or
an error, or stays silent where its handler returns early (`MayStaySilent`).
`agent_status` is what `_mark_agent_connected`, `_mark_agent_disconnected` and
`_mark_agent_seen` write; `abandoned` are the connections whose `register` or
`unregister` was cut off by a database call that raised.

### AcpClient

The tasks of a connector around `_run_lock`, a queue whose head holds it, and the one
agent process they share. `Start` spawns or reuses, or fails to (`StartFails`);
`Initialized` is how it ends well. After an exception `start` calls `stop`, which waits
twice: `InitializeFails` leads to the wait for the connection to close, `ConnectionClosed`
clears the connection, tells the process to terminate (`signalled`) and waits for it,
`StartAbandoned` is the end of both. The caller's timeout cuts any of these waits off
(`StartCancelled`): the half-started process stays, and if the connection was cleared by
then, the next start puts another one in its place. A sync is answered from `replays` (`SyncFromCache`) or by a load; a run loads
unless its session is live (`NeedsLoad`, `SkipLoad`), is accepted and prompts. A run
whose setup fails leaves the lock and takes it again to reset the client
(`WaitToReset`, `Reset`). `Crash` is the agent exiting at any time, `InitializedLate` an
answer to an initialize that nobody waits for any more, `Update` an update of any
session, routed by `_resolve_callbacks` (`Callbacks`). A history is the number of its
turns, a replay the number it was made of.

### SessionIndex

What the backend knows of remote sessions: rows with a status and the daemon they are of
(`owner`), the index of each daemon, cached replays and the runs held. The operations of `RuntimeState` are
functions on that value (`UpsertSession`, `Replace`, `CacheTranscript`, `CreateRun`,
`EndRun`, `CleanUp`, `Transcript`); a call applies them when it resumes after a wait.
A list is asked of all daemons at once and comes in pages, of which a created session
may miss the last (`FirstPage`, `LastPage`, `ListFails`), and is applied daemon by daemon
(`ListApplied`, `ListReturns`);
`resolve_session` searches daemon by daemon (`AskNext`, `SearchGoesOn`); a load then
asks the daemon of the row for the replay (`target`, `SyncAnswered`, `LoadReturns`).
Sessions appear, vanish and lose their daemon. A session may be listed by several
daemons: pairing a machine again gives it a new `daemon_id` (`control_api.py:222`), and
two agents may read the same files. Its row is then of the one heard last, and
`replace_daemon_sessions` removes it only for that one (`Removed`). Turn 0 is what a session held before, turn r the prompt of run r. Where
the sessions live and what the calls are is a setting chosen at the start.

### TranscriptProjection

The three projections of a log: `Rebuilt` is `build_run_transcript_items`, `Synced` is
`build_synced_session_transcript_items`, and `live` follows `applyRunStreamEvent` one
event at a time. The loops of the first two are recursive functions on the places of
the log (`after` in `Build` and `Synced`), whose last value is what the code returns;
an entry that is not in the loop of the code is a silent one. The items of a turn are
those `Build` returns under the run id of the turn. The place of an event in the log
is also its time. Of an update they tell apart whether it is text, only
white space, empty, truncated, a step or without a trace. A stored update may miss the
page (`missed`, at most `MaxMissed` of them): the broker replaces one that waits for the
page by the next and gives them up when the queue is full, and which ones is
`EventBroker`'s matter. `of` says whether the log
is a run (its newest `MaxEvents` events are kept, its permission requests apart) or a
replay.

### ChatView

The conversation view of `App.tsx`: the session shown, its items, the run taken for
active, the event stream with the projection fed by it, and the requests under way.
Each request is handled by the backend at one moment (`HandleRead`, `HandleSend`,
`HandleList`) and answered at a later one, or fails (`RequestFails`); what the
answers do is `TranscriptLoaded`, `ReconcileAnswered`, `SessionsListed`,
`MessageSent` and their failures. `DeliverEvent`, `DeliverEnd` and `StreamBreaks` are
the callbacks of `bindRunStream`. A run is the number of its events; event 0 is the
user's message. The backend's side is reduced to what a snapshot contains and what a
stream delivers. A load or a reconciliation answered with 404 puts the page for what is
not found in place of the view (`routeNotFound`); it is left by another choice, or by a
snapshot that comes late.

## Runs

| run | instance | question |
|---|---|---|
| `run_dispatch` | 2 runs of 1 session, 1 daemon connecting twice, 1 ended run kept, sends return at once, fairness | the invariants of a run's life, the refinement of `RunLifecycle`, and that answered or disconnected runs end |
| `run_dispatch_two_daemons` | 2 sessions on 2 daemons, 2 runs | the shared list of queued runs |
| `run_stream` | 1 request, 1 run with 6 events of 5 types of which 3 are kept, queue 2, fairness | what may be dropped, what a client sees, and that its stream ends |
| `permissions` | 1 run, 2 approval ids each asked twice, 1 decision at a time, 2 connections, fairness | no agent is stranded, no decision goes astray |
| `remote_calls` | 2 handlers, a sync and a sync, create or search, 2 connections, fairness | no call is unreachable, cancelled with another, doubled, or outlives its connection; the status settles |
| `acp_client` | 2 runs, a sync, a create, 2 processes, 1 stray update, fairness | who uses the agent process, in which state, and that a failed setup replaces it |
| `session_index` | 7 settings of 2 sessions, 1 or 2 daemons or both, 2 or 3 calls, 2 runs | what late lists and replays do to the index |
| `transcript_projection` | all runs of 5 events of which 4 are kept and 1 may be missed, all replays of 6 updates | what the projections show, and that they agree |
| `chat_view` | 2 sessions, 1 run of 2 events, 2 requests, 1 failure, fairness | what the page shows after late and lost answers |
| `run_end_missed` | 1 request, 3 events | violated, see below |
| `run_reopened` | 1 run, suspending sends | violated, see below |
| `two_decisions` | 1 request for permission, 2 users, suspending sends | violated, see below |

Some properties are conjunctions of parts the modules state one by one, so that a
run asks one question of one piece of state: `EndedRunsAreShed`, `QueuesOK`,
`StreamInOrder`, `PermissionsOK`, `CallsOK`, `AgentOK`, `IndexOK`, `RunProjectionOK`,
`ReplayProjectionOK` and `ChatInv`; the type invariants are among the parts.
`TerminalIsFinal` follows from `ImplementsLifecycle`, and `ServedIsRegistered` is a step of
the proofs of `RunDispatch`; neither is run beside them.

Bounds. `QueueMaxsize = 2` with six events is enough for a queue to be full of low
priority entries, of critical ones and of a mixture, to overflow twice and be
drained in between, and for a request with a history of one to miss some first; keeping
three of them lets a history begin in the middle;
requests do not affect each other, so one is enough. Two runs of a session let one
work while the other waits, and one be pruned when the other ends; two connections let a reconnect meet what the first
left behind; a second daemon matters only where runs of both wait in the list. A key
asked twice with two ids lets a decision of the first ask be late for the second.
Two handlers are the least that share a sync. Four tasks at
the agent let a reset wait behind others, and two processes let one that was cut
off be replaced and its successor be reset; a start beyond them is refused by the bound.
In `session_index` two messages let a replay be
cached between two runs, the second daemon lets a search pass one by or list the same
session, and one daemon (`d1`) loses its connection. Five events are two segments with a step and a card
between them, one event being pruned; six updates of a replay are two turns. Two
events, besides the message, in `chat_view` let one be in a snapshot and the other on
the stream; with one the page cannot lag behind its own reload.
`MaxEvents`, `MaxRuns`, `MaxConns`, `MaxAsks`, `MaxUpdates`, `MaxProcs`, `MaxMissed` and
`MaxFailures` bound how often somebody acts; nothing in the code depends on them
(`MaxKept`, `QueueMaxsize` and `TranscriptProjection`'s `MaxEvents` are bounds of the
code). `request_cancel` may send
any number of cancels; `RunDispatch` allows one at a time on a connection, as the
connector ignores a repeated one. All of these systems may really stop (bounds used
up, users gone), hence no deadlock check.

Fairness.

- `StreamSpec`: the event loop resumes a generator, that is, the client reads.
- `RunDispatch!FairSpec`: the event loop runs each coroutine that can proceed, a
  database call returns or raises, messages under way are read, and a broken connection
  is noticed (uvicorn pings).
  Nothing is assumed of users, agents or reconnects. `AnsweringSpec` adds that the
  agent answers.
- `Permissions!FairSpec`: the connector reads and notices a closed websocket.
  Nothing is assumed of the user, the agent or the network.
- `RemoteCalls!FairSpec`: handlers and requests go on when they can, database calls
  return or raise, a closed connection is noticed. The heartbeat is strongly fair: it is
  sent every few seconds while the connection is up and the connection may flap. Timeouts
  (`asyncio.wait_for` around each request) are left out of it, so that what is said of a
  lost connection is not the timeout's doing, except for the calls that nothing else can
  end (`LeftToTimeout`): those whose answer the database refused, and those of a
  connection whose `register` or `unregister` it refused.
- `AcpClient!FairSpec`: only what a run does after its failed setup goes on. The send of
  `run.failed` ends or raises, since the websocket's keepalive closes a connection on
  which nobody answers, and `stop` kills a process that does not end in three seconds.
  Of requests to the agent nothing is assumed: `session/new`, `session/list`,
  `session/load`, `session/set_mode` and the prompt have no timeout
  (`acp_client.py:399`, `407`, `440`, `458`, `479`), so a silent agent may hold the run
  lock for ever. `SetupFailureReplacesAgent` therefore has a premise, `LockIsPassedOn`:
  whoever holds the lock lets it go.
- `ChatView!LiveSpec`: the backend handles and answers requests (or they fail), the
  reconciling timer fires, and an open stream delivers. Users owe nothing.

## What does not hold

Three formulas that the documentation or the code's own messages suggest are checked as
runs that must be violated:

- `run_reopened` (`TerminalIsFinal`): `mark_run_assigned` is applied after the send
  has returned. If the connector's answer was handled first, which takes a send that
  waits for a full write buffer, a run that has ended is assigned again, and its
  session stays busy with it. `BusyWithActiveRun` and `EndedRunsAreShed` go wrong at
  the same place, which is why `run_dispatch` assumes sends that return at once.
- `run_end_missed` (`EndIsPushed`): the stream subscribes after it has sent its
  snapshot of the history. A run that ends while the snapshot is being sent, which
  takes a client that reads slowly, leaves a stream that only sends keep-alives.
- `two_decisions` (`AgentActsOnRecord`): `decide_permission` checks, sends and then marks.
  With a send that suspends two decisions pass the check; the agent acts on one, the
  backend records the other, and neither user gets "permission request already decided"
  (`main.py:504`, `509`, `520`). In the run `permissions` one user decides and sends
  return at once; there the property is only that repeated requests do not undo the check.

The modules state others that one would expect of the code and that it does not
keep. No run lists them; each is violated when it is checked in place of the
properties of the configuration named here.

| formula | module, configuration | what happens |
|---|---|---|
| `IdleSessionHasNoActiveRun` | `RunDispatch`, `RunDispatch.cfg` | each terminal mark sets the session idle: cancel a queued run and the session is shown idle while another works (`runtime_state.py:630`; README.md:80 calls it the "current high-level status") |
| `RegisteredIsServed` | `RunDispatch`, `RunDispatch.cfg` | `register` enters the session before its database call; if it raises, `daemon_ws` has nothing to unregister and the daemon is refused from then on (`main.py:700`) |
| `SameEventsArePushed` | `RunStream`, `RunStream.cfg` | a `run.session_update` that waits for a client is replaced by the next one, although each carries its own piece of text, and the page lacks it until it loads the transcript at the end of the run (`events.py:63`; README.md:99 says the backend "pushes the same events to frontend over SSE") |
| `AssignedRunStarts` | `RunDispatch`, `RunDispatch.cfg` with `AnsweringSpec` | a message posted in the same window makes `run.assign` the first message, which the connector takes for the welcome (`executor_manager.py:158`) |
| `DisconnectedRunEnds`, `AnsweredRunEnds` without `Abandoned` | `RunDispatch`, `RunDispatch.cfg` | the database call of `unregister` raises, and nothing ends the run the session was busy with (`executor_manager.py:185`) |
| `WaitersMatchRequests` without `unstored`, `LostConnectionFailsCall` without its timeouts | `RemoteCalls`, `RemoteCalls.cfg` | the database call for a result raises after its waiter was taken: neither the result nor the end of the connection finds the future (`executor_manager.py:789`, `main.py:672`) |
| `LostConnectionFailsCall` without the timeouts of `abandoned` connections, `StatusFollowsConnection` without `abandoned` | `RemoteCalls`, `RemoteCalls.cfg` | the database call of `unregister` raises: no waiter is failed, the agent stays online (`executor_manager.py:185`) |
| `FailedOnlyWithItsConnection` | `RemoteCalls`, `RemoteCalls.cfg` with `Spec` | the end of an old connection, delayed by the database, fails a call of the new one (`executor_manager.py:185`) |
| `OnlyOneProcess` | `AcpClient`, `AcpClient.cfg` | the caller's timeout cuts `stop` off after it has cleared the connection; the next start spawns beside a process that is still ending (`acp_client.py:371`) |
| `SetupFailureReplacesAgent` without `LockIsPassedOn` | `AcpClient`, `AcpClient.cfg` | an agent that never answers a load holds the lock, and the reset behind it never comes (`acp_client.py:479`) |
| `SyncIsCurrent` | `AcpClient`, `AcpClient.cfg` with `Spec` | a sync after a run answers with the replay of before (`acp_client.py:430`) |
| `StreamShowsOwnSession` | `AcpClient`, `AcpClient.cfg` with `Spec` | an update of a session without callbacks is sent as one of the run that prompts (`acp_client.py:523`) |
| `IndexedHasRow` | `SessionIndex`, `SessionIndex.cfg` | a session two daemons list is a row of the later one, whose next list removes the row and not the entry in the other's index (`runtime_state.py:404-408`) |
| `EachTurnShownOnce` without `Alone` | `SessionIndex`, `SessionIndex.cfg` with a load and two messages of a session both daemons list | with two daemons prompting in one session its runs end in another order than they were created in |
| `TranscriptIsComplete` | `SessionIndex`, `SessionIndex.cfg` | a replay is not cached while a run of its session is held, so what the session held before is hidden until the run expires (`runtime_state.py:739`; README.md:82 says "remote session history ... plus any in-flight local run messages") |
| `ListedAreShown` | `SessionIndex`, `SessionIndex.cfg` | a session that vanished while a run of it was held is in no index any more and never removed (`runtime_state.py:408`) |
| `CreatedIsShown` | `SessionIndex`, `SessionIndex.cfg` | a list older than a session removes it when it is applied (`runtime_state.py:400`); the next list brings it back |
| `ReplayHasNoRun` | `TranscriptProjection`, `TranscriptProjection.cfg` | replayed items have a run id `remote-sync:...` (`transcript_projection.py:372`; README.md:83 says `run_id = null`) |
| `LiveShowsAll` | `TranscriptProjection`, `TranscriptProjection.cfg` | an update the broker dropped is not on the page of a run that is over until it is loaded again (`events.py:63`) |
| `LivePhasesSplit` | `TranscriptProjection`, `TranscriptProjection.cfg` | the page joins text from before and after a step until it reloads (`liveTranscript.ts:372`) |
| `TruncatedIsShown` | `TranscriptProjection`, `TranscriptProjection.cfg` | a chunk too large to store leaves no trace on the page (`liveTranscript.ts:207`) |
| `PendingIsShown` | `TranscriptProjection`, `TranscriptProjection.cfg` with `AskAgain = TRUE` | a second request with an id already on a card is not shown (`liveTranscript.ts:526`) |
| `LiveIsOfSession` | `ChatView`, `ChatView.cfg` with `Spec` | the answer to a message binds its stream to whatever session is shown by then (`App.tsx:1704`) |
| `NothingTwiceNothingMissing` | `ChatView`, `ChatView.cfg` with `Spec` | a snapshot is applied while the stream stays where it was (`App.tsx:1111`) |
| `ActiveRunKept` | `ChatView`, `ChatView.cfg` with `Spec` and two runs | the end of one run sets the session idle and a reconciliation gives another up (`App.tsx:130`) |

## Proofs

The first part of `RunStreamProofs` proves all the invariants of `EventBroker` for every set of
runs and subscribers, every capacity and every bound. The assumptions are those
of `BrokerAssumption`. The inductive invariant `IInv` says of each subscribed queue
(`QueueOK`) that it is in order, that it holds events of its run newer than what was
delivered, that a waiting update is the newest, that a missing critical event means
a queue full of newer ones, and, which no property states, that no subscriber is
ahead of the stored events. The parts need each other: that coalescing leaves no
update behind (`CoalescedResult`) follows from order and `OnlyNewestUpdateWaits`
(`OneUpdate`), and that a critical event is lost only to newer ones needs the order
of the queue. `MakeRoomResult` and `CoalescedResult` describe the two halves of
`_publish_to_queue`; `DropFirstMatchingResult` reduces the refilled queue to
"the queue without its k-th entry" (`Without`), about which `WithoutKeeps` says what
the invariant needs.

`RunDispatchProofs` proves `TypeOK`, `QueuedRunsWait`, `OwnDaemonOnly` and
`ServedIsRegistered` of `RunDispatch` for all constants, so for both values of
`SendMaySuspend`, from `RegistryAssumption` and `DispatchAssumption`. What every
operation of the registry has in common is `Evolves(before, after)`: types are kept,
runs are created in order, a run never changes its session, and one that is gone or
was taken off the list does not come back. One lemma per operation of `RunRegistry`
shows it, and it is transitive, so it holds of what a handler composes. `On(reg, r, c)`
says that run `r` is off the list and `c` is a connection of its session's daemon;
it persists through any evolution (`OnPersists`). The inductive invariant `IInv` is
the types, `WellListed` (every queued run is on the list) and `On` of every run that
is being sent, that is in a `run.assign` on its way, or that a connector works on. The
messages on their way are what `OwnDaemonOnly` leaves out and induction needs, and
`r \notin queued_runs` is what keeps a run from being handed out twice. `DispatchKeeps`
is the heart of it; each action then has a lemma. `ServedIsRegistered` is inductive
with the types alone.

`RegistryInv` is what the registry keeps by itself, again for both values of
`SendMaySuspend`. Runs that ended did so at different times (`EndedInv`), so exactly
one is the oldest and pruning as many as there are too many leaves `MaxLocalRuns`
(`EndedRunsAreFew`, a part of `EndedRunsAreShed`); a session is shown as active only
while it has an active run (`ShownInv`, hence `ActiveSessionHasActiveRun`).

The other properties of `RunDispatch` are proved under `~SendMaySuspend`, since
`run_reopened` shows that they fail without it. `SessInv` says that the backend and
the connectors agree about a run; each part is needed by the next:

- `ToldInv`: which events are stored of a run that is not accepted yet;
- `BusyInv`: a run is under way exactly while one session is busy with it or it is
  being sent, and at most one run is being sent;
- `ConnInv`, for each connection: what the connector may still say of the run its
  session is busy with (`Answers`), that a `run.assign` on its way is the only one
  and finds nothing at the connector (`AssignInv`), and how far a task is ahead of
  the registry by the messages not yet heard (`TaskInv`);
- `IdleInv`: whoever could take a run is still in the snapshot of the
  `dispatch_pending` under way, or no run waits for its daemon (`Covered`). A pass
  that made progress is repeated, which is why only one that made none has to be
  covered;
- `BytesInv`: bytes are counted only of runs a session is busy with.

`SessInv` is inductive given `IInv`, `RegistryInv` and `ServedIsRegistered`.
`DispatchKeepsSessions` carries it through `dispatch_pending`, and one lemma per
action shows that what the handler did before calling it leaves it a state it may
start from. From it follow `BusyWithActiveRun`,
`NoIdleDaemonWithWaitingRun` and `EndedRunsAreShed`. The same lemmas say of each run
how a step may move it (`Moved`); with `Init => Lifecycle!Init` this gives the refinement: every step of `RunDispatch` is one of
`RunLifecycle` or leaves its variables alone.

`PermissionsProofs` has two invariants. `ConnectorInv` holds however sends are
scheduled and gives `PermissionsOK`: a run's assignment, its prompt, the connection it
came on and its futures fit together, for which induction needs that no run is
assigned twice. `AnswerInv` assumes `~SendMaySuspend`, since `two_decisions` shows that it
fails otherwise. It numbers the asks of a key (`NumbersInv`): a request on the way is for a
newer ask than the row and than every decision on the way, requests arrive in order
and no ask is decided twice. `RecordedInv` and `AnsweredInv` tie what was sent and
what the agent was allowed to the row, or to the handler about to write it;
`AttendedInv` says that as long as nobody cancels, what is on the way is for the ask
the agent waits with; `ComingInv` that its answer can still come. They give
`DecisionIsForThisAsk` and `WaiterCanBeAnswered`. That a run ends once and that the agent
acts on what is recorded is not stated as a theorem: the one way either fails is a
suspended send, which these proofs assume away.

`AcpClientProofs` proves `AgentOK`, `PromptedIsOpen`, `ResetSparesOthers` and
`ResetLeavesOnlyTerminated` for any tasks and processes. The invariant is who is in the
queue of `_run_lock` and that only its head works (`LockInv`), that a worker has a
process and a ready one (`ReadyInv`), that the processes the client has let go of were told
to terminate, also when its stop was cut off (`ForgottenWereTerminated`), and that live
sessions are open in the client's process (`OpenInv`). That a load is skipped safely depends on the lock: between the load and
the prompt nobody else can replace the process.

`SessionIndexProofs` proves `IndexOK`, `EachTurnShownOnce`, `RefreshKeepsStatus` and
`OnlyItsDaemonRemovesRow`, for any daemons, of which several may list a session.
That no turn is shown twice rests on two facts: a session of which a run is held has
no cached replay (`RuntimeOK`), and what a session holds at its daemon came before
every run under way there (`TurnsInv`), so what a late call brings home is in order
(`ReplaysInOrder`). That the runs held of a session can be put in order at all
(`OrderExists`) is shown by taking the smallest counterexample.

The second part of `RunStreamProofs` proves `StreamInOrder` and `CriticalShown`. Every
step of a stream is one of `EventBroker` or leaves it alone (`StreamsUseTheBroker`), so
the theorems about the broker hold of the streams, too. `RequestOK` says of each request that its
snapshot is the history up to a point, that what it has shown is in order, and that a
critical event it was not shown is outnumbered by newer ones (`PassedOK`).

`ChatViewProofs` proves `ChatInv`, of which `ChatTypeOK`, `ComposerNotStuck` and
`ShownMessageIsSent` are parts, of `ChatView` for any number of sessions, runs, requests, events and failures, from
`ChatViewAssumption`. A message the view shows by itself stays justified only because
the view never forgets its session while it shows one, and because a message that is
being sent is one the view knows of: the inductive invariant `ChatInv` adds both
(`optimistic # {}` implies a session, and `SendKnown`) to the three. Every answer is a
case of its own; what they share is that `Disposed` touches reconciling requests only
(`DisposedType`) and that a snapshot is well typed (`SnapshotsType`, `DerivedType`).

`RemoteCallsProofs` proves `CallsOK`, `SharersKeepTheirRequest` and `OneSyncInFlight`
of `RemoteCalls` for any number of handlers, of any kinds, and of connections, from
`RemoteCallsAssumption`. The inductive invariant has a half about the handlers
(`CallPart`) and one about the connections (`ConnPart`), and most steps disturb one of
them only. What induction needs beside the properties is `RequestInv` (whoever is not
a sync waits for a request of its own, so a cancelled handler takes away no other, and
the request of a sync is never cancelled), `InflightInv` (what the next sync would join
is a sync that has begun) and `StoringInv` (the answer in the database's hands is that
of a request that was sent).

`TranscriptProjectionProofs` proves `RunProjectionOK`, `CardsDivide`, `LiveShowsSame` and
`ReplayProjectionOK` of `TranscriptProjection` for any approval ids, any number of
events and of those kept, and replays of any length, from `ProjectionAssumption`. Its
first lemmas are about loops: `Build` is the last value of a function that adds one
entry after another (`BuildFolds`; `Synced` likewise), what holds of the first value and
is kept by every step holds of the last, and if it did not, the least place where it
fails (`LeastElement`) would contradict the step.

- `Chain` says that everything in an item comes before everything in the next one, and
  that each holds its text and steps in ascending order. It is stronger than `Ordered`
  and `Divides`, which speak of text and steps apart.
- `Building` is what all projections keep while they are under way: a chain, then the
  open segment or the steps that wait, never both, then nothing that was not seen.
- `WellBuilt` adds what the builder holds so far (`Holds`) and that the ids used are
  below the next (`Numbered`). `BuildShows` concludes that `Build` of any list shows
  the list: every text and step once, the cards of its requests, in a chain.
- `RebuiltIsStored` applies it to the entries of a run, `SyncedIsStored` to the turns of
  a replay, whose loop keeps `WellTurned`: the turns before, then the user's chunks,
  then the updates, with ids of different turns apart.
- `WellFollowed` is the same for the live projection, which is a variable. Text that is
  blank may be lost there, hence two inclusions instead of an equation. With `Recorded`
  (the log and the rows) it is the inductive invariant `ProjectionInv`.

`LiveShowsSame` compares the two projections on the updates that reached the page, whichever
and however many did not, and is proved under `~AskAgain`, as its
run assumes: when an agent repeats an approval id, the page keeps the first card and the
backend the last request (`PendingIsShown`, under *What does not hold*). `RequestsApart`,
the part of the invariant that needs it, says that every request has a row and a card
of its own. The other three theorems hold for both values of `AskAgain`.

Every inductive invariant was checked by TLC on the configuration of its module
before it was proved. All proofs are for any value of the constants that the named
assumption of the module admits.

Only model-checked are the liveness properties (`AnsweredRunEnds`, `DisconnectedRunEnds`,
`StreamOfLiveRunEnds`, `CancelAnswersWaiter`, `LostConnectionFailsCall`,
`StatusFollowsConnection`, `SetupFailureReplacesAgent`, `ViewCatchesUp`,
`EndedRunIsReleased`): temporal proofs under fairness are out of the prover's reach.

The modules have no recursive operator.

## Not modelled

Pairing, machine tokens, sign-in, refresh and passwords: they decide who may use
which account and machine, which every module takes as given. Context search (a walk
over the file system and a scoring function), the pointers of remote sessions in the
database (written at each page of a list, read by one route), the choice of an
agent's mode and the conversion of prompt items, the draft of a new session, mentions
and everything that only renders in the frontend, configuration and command line
parsing, the database schema and migrations, e-mail, deployment scripts: no behaviour
that interleaves with anything above.
