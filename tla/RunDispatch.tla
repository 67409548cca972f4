----------------------------- MODULE RunDispatch -----------------------------
(***************************************************************************)
(* How the backend assigns runs to connectors and follows them to their    *)
(* end: ExecutorManager (backend/app/executor_manager.py), the websocket   *)
(* endpoint daemon_ws and the message, cancel and cleanup handlers of      *)
(* backend/app/main.py, over the registry of module RunRegistry.           *)
(*                                                                         *)
(* The backend is one asyncio event loop.  A step of this module is what   *)
(* runs between two awaits that can suspend.  Those are: reading the       *)
(* websocket, the database calls of register and unregister and, when the  *)
(* connection's write buffer is above its high-water mark, the send of     *)
(* run.assign inside dispatch_pending.  SendMaySuspend selects whether     *)
(* that last case is part of the instance; when it is FALSE a send returns *)
(* before anything else happens.                                           *)
(*                                                                         *)
(* A connection is <<d, n>>, the n-th one of daemon d.  The connector at   *)
(* its other end (connector/pocage/executor.py) is modelled as far as its  *)
(* messages about runs go.                                                 *)
(***************************************************************************)
EXTENDS RunRegistry

CONSTANTS MaxConns,         \* bound on the connections of one daemon
          SendMaySuspend    \* whether send_json(run.assign) can suspend

ASSUME DispatchAssumption == MaxConns \in Nat /\ SendMaySuspend \in BOOLEAN

Conns == Daemons \X (1 .. MaxConns)
NoRun == 0                             \* busy_run_id = None
NoConn == <<NoDaemon, 0>>              \* the caller is an HTTP handler

Messages == [type : {"daemon.welcome", "run.assign", "run.cancel",
                     "run.accepted", "run.completed", "run.failed"},
             run : Runs \union {NoRun}, cancelled : BOOLEAN]
Message(type, r) == [type |-> type, run |-> r, cancelled |-> FALSE]

\* A dispatch_pending call suspended in the send of a run.
Sends == [to       : Conns,            \* the ExecutorSession it is sent to
          rest     : SUBSET Conns,     \* sessions of the snapshot still to try
          progress : BOOLEAN,          \* made_progress
          by       : Conns \union {NoConn},  \* whose receive loop is waiting
          doomed   : BOOLEAN]          \* the socket was closed when it began
NotSending == [to |-> NoConn]

VARIABLES
    rt,            \* the RuntimeState value
    registered,    \* _daemons: the connection number under a daemon_id, or 0
    pc,            \* where the daemon_ws coroutine of a connection stands
    busy,          \* busy_run_id of a connection's ExecutorSession
    stream_bytes,  \* the keys of _run_stream_bytes
    sending,       \* the suspended sends, by the run they carry
    link,          \* the websocket of a connection, seen from the backend
    down,          \* messages on their way to the connector
    inbox,         \* messages on their way to the backend
    greeted,       \* the connector has received its first message
    work,          \* the connector's task for a run
    work_conn,     \* the connection that task was given on
    gave_up        \* run_forever of a daemon's connector has returned

managerVars == <<rt, registered, pc, busy, stream_bytes, sending>>
connectorVars == <<greeted, work, work_conn, gave_up>>
channelVars == <<link, down, inbox>>
vars == <<managerVars, connectorVars, channelVars>>

DaemonOf(c) == c[1]
-----------------------------------------------------------------------------
(* dispatch_pending *)

Suspended(r) == sending[r] # NotSending
\* The coroutine of connection c is inside a suspended dispatch_pending.
Blocked(c) == \E r \in Runs : Suspended(r) /\ sending[r].by = c
\* With sends that never suspend, a started send is finished first.
LoopFree == SendMaySuspend \/ \A r \in Runs : ~Suspended(r)

\* _list_available_daemons
Available(busy0) ==
    {c \in Conns : registered[DaemonOf(c)] = c[2] /\ busy0[c] = NoRun}

Deliver(channel, c, m) ==
    IF link[c] = "up" THEN [channel EXCEPT ![c] = Append(@, m)] ELSE channel

\* From registry rt0, with `open' the sends already suspended, `rest' the
\* sessions of the snapshot still to try and `progress' the flag made_progress:
\* claim the next run and begin to send it, or return.  A snapshot whose
\* sessions are used up is refreshed if it made progress; the order of a
\* snapshot is left open.
Dispatch(rt0, busy0, down0, open, rest, progress, by) ==
    LET CanClaim(S) == {c \in S : Waiting(rt0, DaemonOf(c)) # {}}
        again == progress /\ CanClaim(rest) = {}
        pool == IF again THEN Available(busy0) ELSE rest
        \* a claim that found nothing has looked through the whole list
        Scanned(tried) == IF tried = {} THEN rt0 ELSE ClaimNothing(rt0)
    IN  \/ /\ CanClaim(pool) = {}
           /\ rt' = Scanned(rest \union pool)
           /\ sending' = open
           /\ down' = down0
        \/ \E c \in CanClaim(pool), r \in Runs, tried \in SUBSET (pool \ CanClaim(pool)) :
              /\ IsNextFor(rt0, DaemonOf(c), r)
              /\ rt' = ClaimRun(Scanned(IF again THEN tried \union rest ELSE tried), r)
              /\ sending' = [open EXCEPT ![r] =
                    [to |-> c, rest |-> pool \ (tried \union {c}),
                     progress |-> progress /\ ~again, by |-> by,
                     doomed |-> link[c] = "closed"]]
              /\ down' = Deliver(down0, c, Message("run.assign", r))

\* Mutant: the caller does not dispatch.
DispatchNothing(rt0, busy0, down0, by) ==
    rt' = rt0 /\ sending' = sending /\ down' = down0

\* A call of dispatch_pending begins like a used-up snapshot that made progress.
DispatchPending(rt0, busy0, down0, by) ==
    Dispatch(rt0, busy0, down0, sending, {}, TRUE, by)

\* The send of run r returns.  On a connection that closed meanwhile it may
\* return normally or raise.
SendReturns(r) ==
    /\ Suspended(r)
    /\ LET s == sending[r]
           rt1 == StoreRunEvent(MarkRunAssigned(rt, r, DaemonOf(s.to)), r, "run.started")
           busy1 == [busy EXCEPT ![s.to] = r]
       IN  /\ ~s.doomed
           /\ link[s.to] = "closed" => SendMaySuspend
           /\ busy' = busy1
           /\ stream_bytes' = stream_bytes \union {r}
           /\ Dispatch(rt1, busy1, down, [sending EXCEPT ![r] = NotSending],
                       s.rest, TRUE, s.by)
    /\ UNCHANGED <<registered, pc, link, inbox, connectorVars>>

SendRaises(r) ==
    /\ Suspended(r)
    /\ LET s == sending[r]
           rt1 == StoreRunEvent(MarkRunTerminal(rt, r, "failed"), r, "run.error")
       IN  /\ link[s.to] = "closed"
           /\ Dispatch(rt1, busy, down, [sending EXCEPT ![r] = NotSending],
                       s.rest, s.progress, s.by)
    /\ UNCHANGED <<registered, pc, busy, stream_bytes, link, inbox, connectorVars>>
-----------------------------------------------------------------------------
(* The HTTP handlers and the cleanup loop. *)

\* POST /v1/sessions/{s}/messages
SendMessage(s) ==
    /\ LoopFree
    /\ rt.created < MaxRuns
    /\ DispatchPending(StoreRunEvent(CreateRun(rt, s), NextRun(rt), "run.queued"),
                       busy, down, NoConn)
    /\ UNCHANGED <<registered, pc, busy, stream_bytes, link, inbox, connectorVars>>

\* POST /v1/runs/{r}/cancel of a queued run
CancelQueued(r) ==
    /\ LoopFree
    /\ rt.status[r] = "queued"
    /\ rt' = StoreRunEvent(MarkRunTerminal(rt, r, "cancelled"), r, "run.completed")
    /\ stream_bytes' = stream_bytes \ {r}
    /\ UNCHANGED <<registered, pc, busy, sending, connectorVars, channelVars>>

\* ... of a run that has an executor: the daemon is asked to cancel it.
CancelForwarded(r) ==
    /\ LoopFree
    /\ rt.status[r] \in {"assigned", "running"}
    /\ \E c \in Conns :
          /\ rt.executor[r] = DaemonOf(c)
          /\ registered[DaemonOf(c)] = c[2]
          /\ link[c] = "up"
          /\ Message("run.cancel", r) \notin {down[c][i] : i \in DOMAIN down[c]}
          /\ down' = Deliver(down, c, Message("run.cancel", r))
    /\ UNCHANGED <<managerVars, connectorVars, link, inbox>>

CleanupRuns(cutoff) ==
    /\ LoopFree
    /\ rt' = Cleanup(rt, cutoff)
    /\ UNCHANGED <<registered, pc, busy, stream_bytes, sending, connectorVars, channelVars>>
-----------------------------------------------------------------------------
(* daemon_ws: register, the receive loop, unregister. *)

CanConnect(d, n) ==
    /\ ~gave_up[d]
    /\ pc[<<d, n>>] = "none"
    /\ \A k \in 1 .. MaxConns : k < n => pc[<<d, k>>] # "none"
    /\ \A k \in 1 .. MaxConns : link[<<d, k>>] # "up"

\* The connector opens its next connection and sends daemon.hello.  register
\* enters it in _daemons and waits for the database, or rejects it: the
\* connector takes the policy violation as final.
Connect(d, n) ==
    /\ LoopFree
    /\ CanConnect(d, n)
    /\ IF registered[d] = 0
       THEN /\ registered' = [registered EXCEPT ![d] = n]
            /\ pc' = [pc EXCEPT ![<<d, n>>] = "registering"]
            /\ link' = [link EXCEPT ![<<d, n>>] = "up"]
            /\ UNCHANGED gave_up
       ELSE /\ gave_up' = [gave_up EXCEPT ![d] = TRUE]
            /\ pc' = [pc EXCEPT ![<<d, n>>] = "rejected"]
            /\ UNCHANGED <<registered, link>>
    /\ UNCHANGED <<rt, busy, stream_bytes, sending, greeted, work, work_conn, down, inbox>>

\* The database call of register returned: daemon.welcome, then dispatch_pending.
Welcome(c) ==
    /\ LoopFree
    /\ pc[c] = "registering"
    /\ link[c] # "closed"
    /\ pc' = [pc EXCEPT ![c] = "serving"]
    /\ DispatchPending(rt, busy, Deliver(down, c, Message("daemon.welcome", NoRun)), c)
    /\ UNCHANGED <<registered, busy, stream_bytes, link, inbox, connectorVars>>

\* ... or the database call raises, or the socket is closed and the send does:
\* register does not return, daemon_ws closes the socket with 1011 and its finally
\* clause has no session to unregister.
RegisterRaises(c) ==
    /\ LoopFree
    /\ pc[c] = "registering"
    /\ pc' = [pc EXCEPT ![c] = "gone"]
    /\ link' = [link EXCEPT ![c] = "closed"]
    /\ UNCHANGED <<rt, registered, busy, stream_bytes, sending, connectorVars, down, inbox>>

\* The receive loop takes the next message about run r.
Receives(c, type, r) ==
    /\ LoopFree
    /\ pc[c] = "serving" /\ ~Blocked(c)
    /\ inbox[c] # <<>>
    /\ Head(inbox[c]).type = type /\ Head(inbox[c]).run = r
    /\ inbox' = [inbox EXCEPT ![c] = Tail(@)]

\* Mutant: the session stays busy.
ReleasedNot(c, r) == busy

Released(c, r) == IF busy[c] = r THEN [busy EXCEPT ![c] = NoRun] ELSE busy

HandleAccepted(c, r) ==
    /\ Receives(c, "run.accepted", r)
    /\ rt' = StoreRunEvent(MarkRunStarted(rt, r, DaemonOf(c)), r, "run.accepted")
    /\ stream_bytes' = stream_bytes \union {r}
    /\ UNCHANGED <<registered, pc, busy, sending, link, down, connectorVars>>

HandleCompleted(c, r) ==
    /\ Receives(c, "run.completed", r)
    /\ LET status == IF Head(inbox[c]).cancelled THEN "cancelled" ELSE "completed"
           rt1 == StoreRunEvent(MarkRunTerminal(rt, r, status), r, "run.completed")
       IN  DispatchPending(rt1, Released(c, r), down, c)
    /\ busy' = Released(c, r)
    /\ stream_bytes' = stream_bytes \ {r}
    /\ UNCHANGED <<registered, pc, link, connectorVars>>

\* Mutant: the event is passed on, the run is not ended.
HandleFailedUnmarked(c, r) ==
    /\ Receives(c, "run.failed", r)
    /\ DispatchPending(StoreRunEvent(rt, r, "run.error"), Released(c, r), down, c)
    /\ busy' = Released(c, r)
    /\ stream_bytes' = stream_bytes \ {r}
    /\ UNCHANGED <<registered, pc, link, connectorVars>>

HandleFailed(c, r) ==
    /\ Receives(c, "run.failed", r)
    /\ LET rt1 == StoreRunEvent(MarkRunTerminal(rt, r, "failed"), r, "run.error")
       IN  DispatchPending(rt1, Released(c, r), down, c)
    /\ busy' = Released(c, r)
    /\ stream_bytes' = stream_bytes \ {r}
    /\ UNCHANGED <<registered, pc, link, connectorVars>>

\* A message about run r takes the run over max_run_stream_bytes (or is an
\* update over max_session_update_bytes): the run fails, the connection is
\* closed with 1008, and a connector that is still there stops for good.
HandleViolation(c, r) ==
    /\ \E type \in {"run.accepted", "run.completed", "run.failed"} : Receives(c, type, r)
    /\ rt' = StoreRunEvent(MarkRunTerminal(rt, r, "failed"), r, "run.error")
    /\ busy' = Released(c, r)
    /\ stream_bytes' = stream_bytes \ {r}
    /\ pc' = [pc EXCEPT ![c] = "closing"]
    /\ link' = [link EXCEPT ![c] = "closed"]
    /\ gave_up' = [gave_up EXCEPT ![DaemonOf(c)] = @ \/ link[c] = "up"]
    /\ UNCHANGED <<registered, sending, down, greeted, work, work_conn>>

\* All that had arrived is handled and the socket is closed: unregister takes
\* the session out of _daemons and waits for the database.
Unregister(c) ==
    /\ LoopFree
    /\ \/ pc[c] = "closing"
       \/ pc[c] = "serving" /\ ~Blocked(c) /\ inbox[c] = <<>> /\ link[c] = "closed"
    /\ registered' = [registered EXCEPT ![DaemonOf(c)] = 0]
    /\ pc' = [pc EXCEPT ![c] = "unregistering"]
    /\ UNCHANGED <<rt, busy, stream_bytes, sending, connectorVars, channelVars>>

\* Mutant: the run the session was busy with is forgotten.
UnregisterForgets(c) ==
    /\ LoopFree
    /\ pc[c] = "unregistering"
    /\ pc' = [pc EXCEPT ![c] = "gone"]
    /\ busy' = [busy EXCEPT ![c] = NoRun]
    /\ UNCHANGED <<rt, registered, stream_bytes, sending, connectorVars, channelVars>>

\* ... and ends the run the session is busy with.  The session object goes with
\* it, so its busy_run_id is of no further use.
UnregisterReturns(c) ==
    /\ LoopFree
    /\ pc[c] = "unregistering"
    /\ pc' = [pc EXCEPT ![c] = "gone"]
    /\ IF busy[c] # NoRun
       THEN /\ rt' = StoreRunEvent(MarkRunTerminal(rt, busy[c], "executor_disconnected"),
                                  busy[c], "run.error")
            /\ stream_bytes' = stream_bytes \ {busy[c]}
       ELSE UNCHANGED <<rt, stream_bytes>>
    /\ busy' = [busy EXCEPT ![c] = NoRun]
    /\ UNCHANGED <<registered, sending, connectorVars, channelVars>>

\* ... or the database call raises: nobody ends the run, whose bytes stay counted.
UnregisterRaises(c) ==
    /\ LoopFree
    /\ pc[c] = "unregistering"
    /\ pc' = [pc EXCEPT ![c] = "gone"]
    /\ UNCHANGED <<rt, registered, busy, stream_bytes, sending, connectorVars, channelVars>>
-----------------------------------------------------------------------------
(* The network and the connector. *)

\* The connector's end of a connection is gone; the backend has not noticed.
Drop(c) ==
    /\ LoopFree
    /\ link[c] = "up"
    /\ link' = [link EXCEPT ![c] = "half"]
    /\ down' = [down EXCEPT ![c] = <<>>]
    /\ UNCHANGED <<managerVars, connectorVars, inbox>>

\* The backend notices; what was still under way to it may be lost.
NoticeDrop(c) ==
    /\ LoopFree
    /\ link[c] = "half"
    /\ link' = [link EXCEPT ![c] = "closed"]
    /\ \E k \in 0 .. Len(inbox[c]) : inbox' = [inbox EXCEPT ![c] = SubSeq(@, 1, k)]
    /\ UNCHANGED <<managerVars, connectorVars, down>>

\* _run_once: the first message is taken for daemon.welcome, whatever it is.
\* A run.cancel is heeded only while the prompt of its run is active.
ConnectorReceives(c) ==
    /\ LoopFree
    /\ link[c] = "up" /\ down[c] # <<>>
    /\ down' = [down EXCEPT ![c] = Tail(@)]
    /\ greeted' = [greeted EXCEPT ![c] = TRUE]
    /\ LET m == Head(down[c])
       IN  \/ /\ greeted[c] /\ m.type = "run.assign"
              /\ work' = [work EXCEPT ![m.run] = "waiting"]
              /\ work_conn' = [work_conn EXCEPT ![m.run] = c]
           \/ /\ greeted[c] /\ m.type = "run.cancel"
              /\ work' = IF work[m.run] = "active" /\ work_conn[m.run] = c
                         THEN [work EXCEPT ![m.run] = "cancelling"] ELSE work
              /\ UNCHANGED work_conn
           \/ /\ ~greeted[c] \/ m.type = "daemon.welcome"
              /\ UNCHANGED <<work, work_conn>>
    /\ UNCHANGED <<managerVars, gave_up, link, inbox>>

\* The task of run r holds _run_lock.
Prompting(r) == work[r] \in {"active", "cancelling"}
LockFree(d) == \A q \in Runs : Prompting(q) => DaemonOf(work_conn[q]) # d

\* ws.send of a task uses the connection the task was given on.
Reply(r, m) ==
    inbox' = IF link[work_conn[r]] = "up"
             THEN [inbox EXCEPT ![work_conn[r]] = Append(@, m)] ELSE inbox

\* _handle_run_assign has the lock, the ACP session is loaded: run.accepted.
ConnectorAccepts(r) ==
    /\ LoopFree
    /\ work[r] = "waiting" /\ LockFree(DaemonOf(work_conn[r]))
    /\ Reply(r, Message("run.accepted", r))
    /\ work' = [work EXCEPT ![r] = IF link[work_conn[r]] = "up" THEN "active" ELSE "done"]
    /\ UNCHANGED <<managerVars, greeted, work_conn, gave_up, link, down>>

\* The agent cannot be started or the session not loaded: run.failed.
ConnectorSetupFails(r) ==
    /\ LoopFree
    /\ work[r] = "waiting" /\ LockFree(DaemonOf(work_conn[r]))
    /\ Reply(r, Message("run.failed", r))
    /\ work' = [work EXCEPT ![r] = "done"]
    /\ UNCHANGED <<managerVars, greeted, work_conn, gave_up, link, down>>

\* session/prompt returns or raises: run.completed or run.failed.
ConnectorFinishes(r) ==
    /\ LoopFree
    /\ Prompting(r)
    /\ \/ Reply(r, [Message("run.completed", r) EXCEPT !.cancelled = (work[r] = "cancelling")])
       \/ Reply(r, Message("run.failed", r))
    /\ work' = [work EXCEPT ![r] = "done"]
    /\ UNCHANGED <<managerVars, greeted, work_conn, gave_up, link, down>>
-----------------------------------------------------------------------------
Init ==
    /\ rt = EmptyRegistry
    /\ registered = [d \in Daemons |-> 0]
    /\ pc = [c \in Conns |-> "none"]
    /\ busy = [c \in Conns |-> NoRun]
    /\ stream_bytes = {}
    /\ sending = [r \in Runs |-> NotSending]
    /\ link = [c \in Conns |-> "none"]
    /\ down = [c \in Conns |-> <<>>]
    /\ inbox = [c \in Conns |-> <<>>]
    /\ greeted = [c \in Conns |-> FALSE]
    /\ work = [r \in Runs |-> "none"]
    /\ work_conn = [r \in Runs |-> NoConn]
    /\ gave_up = [d \in Daemons |-> FALSE]

Next ==
    \/ \E r \in Runs : SendReturns(r) \/ SendRaises(r)
    \/ \E s \in Sessions : SendMessage(s)
    \/ \E r \in Runs : CancelQueued(r) \/ CancelForwarded(r)
    \/ \E cutoff \in 1 .. rt.clock : CleanupRuns(cutoff)
    \/ \E d \in Daemons, n \in 1 .. MaxConns : Connect(d, n)
    \/ \E c \in Conns : Welcome(c) \/ RegisterRaises(c)
    \/ \E c \in Conns, r \in Runs :
          \/ HandleAccepted(c, r) \/ HandleCompleted(c, r)
          \/ HandleFailed(c, r) \/ HandleViolation(c, r)
    \/ \E c \in Conns : Unregister(c) \/ UnregisterReturns(c) \/ UnregisterRaises(c)
    \/ \E c \in Conns : Drop(c) \/ NoticeDrop(c) \/ ConnectorReceives(c)
    \/ \E r \in Runs : ConnectorAccepts(r) \/ ConnectorSetupFails(r) \/ ConnectorFinishes(r)

Spec == Init /\ [][Next]_vars

\* The event loop runs every coroutine that can proceed, and a connection whose
\* peer is gone is noticed (websocket pings).  Nothing is assumed of users, of
\* the agent or of how often a connector reconnects.
FairSpec ==
    /\ Spec
    /\ \A r \in Runs : WF_vars(SendReturns(r) \/ SendRaises(r))
    /\ \A c \in Conns :
          /\ WF_vars(Welcome(c) \/ RegisterRaises(c))
          /\ WF_vars(\E r \in Runs : \/ HandleAccepted(c, r) \/ HandleCompleted(c, r)
                                    \/ HandleFailed(c, r) \/ HandleViolation(c, r))
          /\ WF_vars(Unregister(c))
          /\ WF_vars(UnregisterReturns(c) \/ UnregisterRaises(c))
          /\ WF_vars(NoticeDrop(c))
          /\ WF_vars(ConnectorReceives(c))

\* ... and the connector's tasks proceed: the agent answers every prompt.
AnsweringSpec ==
    /\ FairSpec
    /\ \A r \in Runs : /\ WF_vars(ConnectorAccepts(r) \/ ConnectorSetupFails(r))
                       /\ WF_vars(ConnectorFinishes(r))
-----------------------------------------------------------------------------
(* Properties. *)

\* Every variable has its type.
TypeOK ==
    /\ rt \in Registry
    /\ registered \in [Daemons -> 0 .. MaxConns]
    /\ pc \in [Conns -> {"none", "registering", "serving", "closing",
                         "unregistering", "gone", "rejected"}]
    /\ busy \in [Conns -> Runs \union {NoRun}]
    /\ stream_bytes \subseteq Runs
    /\ sending \in [Runs -> Sends \union {NotSending}]
    /\ link \in [Conns -> {"none", "up", "half", "closed"}]
    /\ down \in [Conns -> Seq(Messages)]
    /\ inbox \in [Conns -> Seq(Messages)]
    /\ greeted \in [Conns -> BOOLEAN]
    /\ work \in [Runs -> {"none", "waiting", "active", "cancelling", "done"}]
    /\ work_conn \in [Runs -> Conns \union {NoConn}]
    /\ gave_up \in [Daemons -> BOOLEAN]

\* No queued run is lost or kept twice: a run waits in _queued_runs as long as
\* it is queued, and once it has been claimed it is never back on the list.
QueuedRunsWait ==
    \A r \in Runs :
        /\ rt.status[r] = "queued" => r \in rt.queued_runs
        /\ Suspended(r) \/ work[r] # "none" => r \notin rt.queued_runs

\* A run only ever reaches the daemon its session lives on: the connector that
\* works on it, and the session it is being sent to, are that daemon's.
OwnDaemonOnly ==
    \A r \in Runs : Present(rt, r) =>
        /\ Suspended(r) => DaemonOf(sending[r].to) = Host[rt.session[r]]
        /\ work[r] # "none" => DaemonOf(work_conn[r]) = Host[rt.session[r]]

\* What a run's status says and what the sessions say is the same thing: a run
\* is assigned or running exactly while one ExecutorSession is busy with it (or
\* is being sent it).  Otherwise a run has no session that would end it when
\* its daemon disconnects, or a session waits for a run that is over.  A session
\* whose register or unregister raised counts: what it was busy with stays so.
BusyWithActiveRun ==
    /\ \A r \in Runs :
          rt.status[r] \in {"assigned", "running"} =>
              Suspended(r) \/ \E c \in Conns : busy[c] = r
    /\ \A c \in Conns :
          busy[c] # NoRun =>
              /\ rt.status[busy[c]] \in {"assigned", "running"}
              /\ rt.executor[busy[c]] = DaemonOf(c)
    /\ \A c, k \in Conns : busy[c] # NoRun /\ busy[c] = busy[k] => c = k

\* A daemon that could work is not left idle: when no handler is under way, no
\* run waits for a connection that is served, open and not busy.
NoIdleDaemonWithWaitingRun ==
    \A c \in Conns :
        (/\ \A r \in Runs : ~Suspended(r)
         /\ pc[c] = "serving" /\ link[c] # "closed" /\ busy[c] = NoRun)
        => Waiting(rt, DaemonOf(c)) = {}

\* Nothing is kept for a run that is gone from the registry, and bytes are
\* counted only for runs that can still send.
NothingKeptForEndedRuns ==
    /\ \A r \in Runs : ~Present(rt, r) => rt.run_events[r] = <<>>
    /\ \A r \in stream_bytes : rt.status[r] \in {"assigned", "running"}

\* A session shown as active has an active run.
ActiveSessionHasActiveRun ==
    \A s \in Sessions : rt.session_status[s] # "idle" =>
        \E r \in Runs : rt.session[r] = s /\ Active(rt, r)

\* A session keeps at most MaxLocalRuns of its ended runs.
LocalRunsBounded ==
    \A s \in Sessions : Cardinality(TerminalRunsOf(rt, s)) <= MaxLocalRuns

\* What the backend holds of ended runs is bounded: nothing of those that are
\* gone, and few of the others.
EndedRunsAreShed == NothingKeptForEndedRuns /\ LocalRunsBounded

\* Registered connections and receive loops go together: a connection that is
\* served is the registered one, so unregister takes its own session out.
ServedIsRegistered ==
    \A c \in Conns : pc[c] \in {"registering", "serving", "closing"} =>
        registered[DaemonOf(c)] = c[2]

\* What _daemons says of a daemon is true: its connection is being served.
\* The code does not keep it: register raises after it entered the session.
RegisteredIsServed ==
    \A d \in Daemons : registered[d] # 0 =>
        pc[<<d, registered[d]>>] \in {"registering", "serving", "closing"}

\* A session that is shown as idle has no run under way or waiting.
\* The code does not keep it: every end of a run sets its session idle.
IdleSessionHasNoActiveRun ==
    \A s \in Sessions : rt.session_status[s] = "idle" =>
        \A r \in Runs : rt.session[r] = s => ~Active(rt, r)

\* The database failed while the connection of run r came up or went down: its
\* session is out of reach, and nothing is left that would end the run.
Abandoned(r) == \E c \in Conns : busy[c] = r /\ pc[c] = "gone"

\* A run whose daemon has disconnected ends, unless the database call of that
\* connection's unregister raises.
DisconnectedRunEnds ==
    \A r \in Runs :
        (rt.status[r] = "running" /\ link[work_conn[r]] # "up")
            ~> (~Active(rt, r) \/ Abandoned(r))

\* A run that the connector has answered ends by that answer or, when the answer
\* is lost with the connection, as the run of a daemon that disconnected.
AnsweredRunEnds ==
    \A r \in Runs :
        (rt.status[r] = "running" /\ work[r] = "done")
            ~> (~Active(rt, r) \/ Abandoned(r))

\* A run that was handed to a connector is started by it, or ends, as long as
\* the connection it was sent on stays up.
\* The code does not keep it: a run may be sent before daemon.welcome.
AssignedRunStarts ==
    \A r \in Runs :
        rt.status[r] = "assigned" ~>
            \/ rt.status[r] # "assigned"
            \/ \E c \in Conns : busy[c] = r /\ link[c] # "up"

\* A run that has ended stays ended, until it is removed.
\* The code keeps it only while no send suspends.
TerminalIsFinal ==
    [][\A r \in Runs : Terminal(rt, r) =>
          rt'.status[r] \in {rt.status[r], "absent"}]_vars

\* The backend implements the life of a run that RunLifecycle promises.
Stage(r) == IF Present(rt, r) THEN rt.status[r]
            ELSE IF r > rt.created THEN "new" ELSE "forgotten"

Lifecycle == INSTANCE RunLifecycle WITH
    stage <- [r \in Runs |-> Stage(r)],
    told <- rt.run_events

\* Refinement: every step moves every run as RunLifecycle allows, or not at all.
ImplementsLifecycle == Lifecycle!Spec
=============================================================================
