----------------------------- MODULE Permissions -----------------------------
(***************************************************************************)
(* A permission request from the agent to the user and back: the callbacks *)
(* of connector/pocage/executor.py, the handlers of the backend's          *)
(* executor_manager.py and main.py, and the rows of runtime_state.py.      *)
(*                                                                         *)
(* One daemon with its connections one after the other.  A request is      *)
(* known by its key <<run, approval_id>>; the approval_id is the agent's   *)
(* toolCallId, so the agent may use a key again.  The number of the ask is *)
(* not in the code: messages, rows and handlers carry it here so that the  *)
(* properties can tell one ask of a key from the next.  The agent waits    *)
(* for the answer before it asks with the same key again.                  *)
(***************************************************************************)
EXTENDS Naturals, Sequences, FiniteSets

CONSTANTS Runs, Approvals,
          Options,          \* option_ids the user can select
          Cancelled,        \* the decision "cancelled"
          Users,            \* HTTP requests that can be open at once
          MaxAsks,          \* bound on the asks of one key
          MaxConns,         \* bound on the connections of the daemon
          SendMaySuspend    \* whether send_json(run.permission.decision) can suspend

Pending == "pending"

ASSUME PermissionsAssumption ==
    /\ Cancelled \notin Options
    /\ Pending \notin Options \union {Cancelled}   \* fields of their own in the code
    /\ MaxAsks \in Nat /\ MaxConns \in Nat \ {0} /\ SendMaySuspend \in BOOLEAN

Keys == Runs \X Approvals
RunOf(k) == k[1]
Decisions == Options \union {Cancelled}
Asks == 0 .. MaxAsks
\* A permission row; the row's status and option_id are one value.
Row == [status : {Pending} \union Decisions, ask : Asks]
NoRow == [status |-> "none", ask |-> 0]
Idle == [key |-> <<>>]
Handler == [key : Keys, decision : Decisions, ask : Asks, conn : 1 .. MaxConns,
            doomed : BOOLEAN]    \* the socket was closed when the send began

VARIABLES
    run_status,          \* a run, seen from the backend
    permission_requests, \* the rows of _permission_requests, by key
    shown,               \* the last permission event in the history of a key
    handler,             \* decide_permission calls waiting for their send
    registered,          \* the connection under the daemon's id, or 0
    unregistering,       \* connections whose unregister waits for the database
    conn, link,          \* the current connection, and its websocket
    listening,           \* the connector reads that connection
    down, up,            \* messages to the connector, to the backend
    prompt,              \* the connector's task for a run
    run_conn,            \* the connection a run was assigned on
    active_runs,         \* _active_runs
    futures,             \* the keys of _pending_permission_decisions
    asked, answered,     \* the agent's asks of a key, and the answers it got
    cancelled            \* runs somebody requested to cancel

backendVars == <<run_status, run_conn, permission_requests, shown, handler, registered,
                 unregistering, cancelled>>
connectorVars == <<listening, prompt, active_runs, futures>>
agentVars == <<asked, answered>>
vars == <<backendVars, connectorVars, agentVars, conn, link, down, up>>

WaitingFor(asked0, answered0, k) == asked0[k] > Len(answered0[k])
Waiting(k) == WaitingFor(asked, answered, k)
LoopFree == SendMaySuspend \/ \A u \in Users : handler[u] = Idle
IsUp(c) == c = conn /\ link = "up"
Message(type, k, d, n) == [type |-> type, key |-> k, decision |-> d, ask |-> n]
RunMessage(type, r) == [type |-> type, run |-> r]

Init ==
    /\ run_status = [r \in Runs |-> "queued"]
    /\ permission_requests = [k \in Keys |-> NoRow]
    /\ shown = [k \in Keys |-> "none"]
    /\ handler = [u \in Users |-> Idle]
    /\ registered = 1 /\ conn = 1 /\ link = "up" /\ listening = TRUE
    /\ unregistering = {}
    /\ down = <<>> /\ up = <<>>
    /\ prompt = [r \in Runs |-> "none"]
    /\ run_conn = [r \in Runs |-> 0]
    /\ active_runs = {} /\ futures = {} /\ cancelled = {}
    /\ asked = [k \in Keys |-> 0]
    /\ answered = [k \in Keys |-> <<>>]
-----------------------------------------------------------------------------
(* The backend. *)

\* dispatch_pending: the next run goes to the daemon, which has no other.
AssignRun(r) ==
    /\ LoopFree /\ registered # 0 /\ link = "up"
    /\ run_status[r] = "queued"
    /\ \A r2 \in Runs : run_status[r2] = "running" => run_conn[r2] # registered
    /\ run_conn' = [run_conn EXCEPT ![r] = registered]
    /\ run_status' = [run_status EXCEPT ![r] = "running"]
    /\ down' = Append(down, RunMessage("run.assign", r))
    /\ UNCHANGED <<permission_requests, shown, handler, registered, unregistering,
                   cancelled, connectorVars, agentVars, conn, link, up>>

\* Mutant: a request that was decided is not opened again.
CreatePermissionRequestOnce(rows, k, n) ==
    IF rows[k] = NoRow THEN [rows EXCEPT ![k] = [status |-> Pending, ask |-> n]] ELSE rows

\* create_permission_request overwrites the row of the key.
CreatePermissionRequest(rows, k, n) ==
    [rows EXCEPT ![k] = [status |-> Pending, ask |-> n]]

\* run.permission.requested
HandleRequested(m) ==
    /\ permission_requests' = CreatePermissionRequest(permission_requests, m.key, m.ask)
    /\ shown' = [shown EXCEPT ![m.key] = Pending]
    /\ UNCHANGED run_status

\* run.completed and run.failed
HandleEnded(m) ==
    /\ run_status' = [run_status EXCEPT ![m.run] = IF @ = "removed" THEN @ ELSE "ended"]
    /\ UNCHANGED <<permission_requests, shown>>

\* The receive loop of daemon_ws.
BackendReads ==
    /\ LoopFree /\ registered = conn /\ up # <<>>
    /\ up' = Tail(up)
    /\ \/ Head(up).type = "run.permission.requested" /\ HandleRequested(Head(up))
       \/ Head(up).type = "run.ended" /\ HandleEnded(Head(up))
    /\ UNCHANGED <<run_conn, handler, registered, unregistering, cancelled,
                   connectorVars, agentVars, conn, link, down>>

\* Mutant: a request that was already decided can be decided again.
CanDecideAlways(k) ==
    /\ run_status[RunOf(k)] # "removed"
    /\ permission_requests[k] # NoRow

\* The checks of decide_permission; in every other case the handler answers
\* 404, 409 or the decision it finds, and changes nothing.
CanDecide(k) ==
    /\ run_status[RunOf(k)] # "removed"
    /\ permission_requests[k].status = Pending

\* decide_permission up to the send inside submit_permission_decision.  The
\* check does not ask whether the run still runs.
DecidePermission(u, k, d) ==
    /\ LoopFree /\ handler[u] = Idle
    /\ CanDecide(k)
    /\ registered # 0
    /\ handler' = [handler EXCEPT ![u] = [key |-> k, decision |-> d,
                      ask |-> permission_requests[k].ask, conn |-> registered,
                      doomed |-> ~IsUp(registered)]]
    /\ down' = IF IsUp(registered)
               THEN Append(down, Message("run.permission.decision", k, d,
                                         permission_requests[k].ask))
               ELSE down
    /\ UNCHANGED <<run_conn, run_status, permission_requests, shown, registered, unregistering,
                   cancelled, connectorVars, agentVars, conn, link, up>>

\* mark_permission_decided, without looking at the row's status.
MarkPermissionDecided(rows, k, d) == [rows EXCEPT ![k].status = d]

\* The send returned: mark the row, store and publish the event; a row that
\* is gone is a 404.
DecisionSent(u) ==
    /\ handler[u] # Idle /\ ~handler[u].doomed
    /\ LET k == handler[u].key
           d == handler[u].decision
       IN  IF permission_requests[k] = NoRow
           THEN UNCHANGED <<permission_requests, shown>>
           ELSE /\ permission_requests' = MarkPermissionDecided(permission_requests, k, d)
                /\ shown' = [shown EXCEPT ![k] = d]
    /\ handler' = [handler EXCEPT ![u] = Idle]
    /\ UNCHANGED <<run_conn, run_status, registered, unregistering, cancelled,
                   connectorVars, agentVars, conn, link, down, up>>

\* The send raised: 409, "executor unavailable".
DecisionNotSent(u) ==
    /\ handler[u] # Idle
    /\ handler[u].doomed \/ (SendMaySuspend /\ ~IsUp(handler[u].conn))
    /\ handler' = [handler EXCEPT ![u] = Idle]
    /\ UNCHANGED <<run_conn, run_status, permission_requests, shown, registered, unregistering,
                   cancelled, connectorVars, agentVars, conn, link, down, up>>

\* request_cancel of a run that was assigned; once per run.
RequestCancel(r) ==
    /\ LoopFree /\ run_status[r] = "running" /\ registered # 0
    /\ r \notin cancelled
    /\ cancelled' = cancelled \union {r}
    /\ down' = IF IsUp(registered) THEN Append(down, RunMessage("run.cancel", r)) ELSE down
    /\ UNCHANGED <<run_conn, run_status, permission_requests, shown, handler, registered,
                   unregistering, connectorVars, agentVars, conn, link, up>>

\* WebSocketDisconnect, and unregister up to its database call.
Unregister ==
    /\ LoopFree /\ registered = conn /\ link = "closed"
    /\ registered' = 0
    /\ unregistering' = unregistering \union {registered}
    /\ up' = <<>>
    /\ UNCHANGED <<run_conn, run_status, permission_requests, shown, handler, cancelled,
                   connectorVars, agentVars, conn, link, down>>

\* The database call of unregister returns, and the session's busy run fails; or it
\* raises, and nothing ends the run.
UnregisterReturns(c) ==
    /\ LoopFree /\ c \in unregistering
    /\ unregistering' = unregistering \ {c}
    /\ \/ run_status' = [r \in Runs |-> IF run_status[r] = "running" /\ run_conn[r] = c
                                        THEN "ended" ELSE run_status[r]]
       \/ UNCHANGED run_status
    /\ UNCHANGED <<run_conn, permission_requests, shown, handler, registered, cancelled,
                   connectorVars, agentVars, conn, link, down, up>>

\* _remove_run_locked for an ended run, by pruning or the cleanup loop.
RemoveRun(r) ==
    /\ LoopFree /\ run_status[r] = "ended"
    /\ run_status' = [run_status EXCEPT ![r] = "removed"]
    /\ permission_requests' = [k \in Keys |-> IF RunOf(k) = r THEN NoRow
                                              ELSE permission_requests[k]]
    /\ shown' = [k \in Keys |-> IF RunOf(k) = r THEN "none" ELSE shown[k]]
    /\ UNCHANGED <<run_conn, handler, registered, unregistering, cancelled,
                   connectorVars, agentVars, conn, link, down, up>>
-----------------------------------------------------------------------------
(* The connector and the agent behind it. *)

Answer(answered0, ks, d) == [k \in Keys |-> IF k \in ks THEN Append(answered0[k], d)
                                            ELSE answered0[k]]

\* The unresolved futures of some runs that an agent waits for.
WaitersOf(rs) == {k \in futures : RunOf(k) \in rs /\ Waiting(k)}

\* Mutant: the futures are forgotten, not resolved.
ForgetPermissionWaiters(rs) ==
    /\ answered' = answered
    /\ futures' = {k \in futures : RunOf(k) \notin rs}

\* _cancel_permission_waiters: a future of a run that nobody has resolved yet
\* is resolved, and every one is dropped.
CancelPermissionWaiters(rs) ==
    /\ answered' = Answer(answered, WaitersOf(rs), Cancelled)
    /\ futures' = {k \in futures : RunOf(k) \notin rs}

\* _handle_run_assign has the run lock and the agent: the run is accepted and
\* prompted.  On a closed connection the message run.accepted raises after the
\* run was put into _active_runs.
StartPrompt(r) ==
    /\ prompt[r] = "assigned"
    /\ \A r2 \in Runs : prompt[r2] # "prompting"
    /\ active_runs' = active_runs \union {r}
    /\ prompt' = [prompt EXCEPT ![r] = IF IsUp(run_conn[r]) THEN "prompting" ELSE "done"]
    /\ UNCHANGED <<backendVars, listening, futures, agentVars,
                   conn, link, down, up>>

\* The agent cannot be started or its session not loaded.
SetupFails(r) ==
    /\ prompt[r] = "assigned"
    /\ \A r2 \in Runs : prompt[r2] # "prompting"
    /\ prompt' = [prompt EXCEPT ![r] = "done"]
    /\ up' = IF IsUp(run_conn[r]) THEN Append(up, RunMessage("run.ended", r)) ELSE up
    /\ UNCHANGED <<backendVars, listening, active_runs, futures,
                   agentVars, conn, link, down>>

\* session/request_permission, on_permission_request: a request that cannot be
\* sent is answered "cancelled" and leaves its future behind.
Ask(k) ==
    /\ prompt[RunOf(k)] = "prompting"
    /\ ~Waiting(k) /\ asked[k] < MaxAsks
    /\ asked' = [asked EXCEPT ![k] = @ + 1]
    /\ futures' = futures \union {k}
    /\ IF IsUp(run_conn[RunOf(k)])
       THEN /\ up' = Append(up, Message("run.permission.requested", k, Cancelled, asked[k] + 1))
            /\ UNCHANGED answered
       ELSE answered' = Answer(answered, {k}, Cancelled) /\ UNCHANGED up
    /\ UNCHANGED <<backendVars, listening, prompt, active_runs,
                   conn, link, down>>

HandleRunAssign(r) ==
    /\ prompt' = [prompt EXCEPT ![r] = "assigned"]
    /\ UNCHANGED <<active_runs, futures, answered>>

\* The future and the waiter that resumes with it, before the next message.
HandlePermissionDecision(m) ==
    /\ IF m.key \in WaitersOf(Runs)
       THEN /\ answered' = Answer(answered, {m.key}, m.decision)
            /\ futures' = futures \ {m.key}
       ELSE UNCHANGED <<answered, futures>>
    /\ UNCHANGED <<prompt, active_runs>>

\* Mutant: only the agent hears of the cancellation.
HandleRunCancelQuietly(r) ==
    UNCHANGED <<answered, futures, prompt, active_runs>>

HandleRunCancel(r) ==
    /\ IF r \in active_runs THEN CancelPermissionWaiters({r})
       ELSE UNCHANGED <<answered, futures>>
    /\ UNCHANGED <<prompt, active_runs>>

\* _on_backend_message
ConnectorReads ==
    /\ listening /\ down # <<>>
    /\ down' = Tail(down)
    /\ LET m == Head(down)
       IN  \/ m.type = "run.assign" /\ HandleRunAssign(m.run)
           \/ m.type = "run.permission.decision" /\ HandlePermissionDecision(m)
           \/ m.type = "run.cancel" /\ HandleRunCancel(m.run)
    /\ UNCHANGED <<backendVars, listening, asked, conn, link, up>>

\* The prompt returns, or raises: the agent may stop while it waits.  Then
\* run.completed or run.failed is sent and the finally clause runs.
PromptEnds(r) ==
    /\ prompt[r] = "prompting"
    /\ prompt' = [prompt EXCEPT ![r] = "done"]
    /\ up' = IF IsUp(run_conn[r]) THEN Append(up, RunMessage("run.ended", r)) ELSE up
    /\ CancelPermissionWaiters({r})
    /\ active_runs' = active_runs \ {r}
    /\ UNCHANGED <<backendVars, listening, asked, conn, link, down>>

\* The finally clause of _run_once; what was not read is lost.
ConnectionEnds ==
    /\ listening /\ link = "closed"
    /\ listening' = FALSE
    /\ CancelPermissionWaiters(active_runs)
    /\ active_runs' = {}
    /\ down' = <<>>
    /\ UNCHANGED <<backendVars, prompt, run_conn, asked, conn, link, up>>

Close ==
    /\ link = "up" /\ link' = "closed"
    /\ UNCHANGED <<backendVars, connectorVars, agentVars, conn, down, up>>

\* run_forever connects again and the backend registers the connection.
Reconnect ==
    /\ LoopFree /\ link = "closed" /\ ~listening /\ registered = 0 /\ conn < MaxConns
    /\ conn' = conn + 1 /\ registered' = conn + 1
    /\ link' = "up" /\ listening' = TRUE
    /\ UNCHANGED <<run_conn, run_status, permission_requests, shown, handler, unregistering,
                   cancelled, prompt, active_runs, futures, agentVars,
                   down, up>>
-----------------------------------------------------------------------------
Next ==
    \/ \E r \in Runs : \/ AssignRun(r) \/ RequestCancel(r) \/ RemoveRun(r)
                       \/ StartPrompt(r) \/ SetupFails(r) \/ PromptEnds(r)
    \/ \E k \in Keys : Ask(k)
    \/ \E u \in Users, k \in Keys, d \in Decisions : DecidePermission(u, k, d)
    \/ \E u \in Users : DecisionSent(u) \/ DecisionNotSent(u)
    \/ BackendReads \/ Unregister \/ (\E c \in unregistering : UnregisterReturns(c))
    \/ ConnectorReads \/ ConnectionEnds \/ Close \/ Reconnect

Spec == Init /\ [][Next]_vars

\* The connector's event loop keeps reading and notices a closed websocket.
\* Neither the user, the agent nor the network owes anything.
FairSpec == Spec /\ WF_vars(ConnectorReads) /\ WF_vars(ConnectionEnds)
-----------------------------------------------------------------------------
(* Properties. *)

PermissionsTypeOK ==
    /\ run_status \in [Runs -> {"queued", "running", "ended", "removed"}]
    /\ permission_requests \in [Keys -> Row \union {NoRow}]
    /\ shown \in [Keys -> {"none", Pending} \union Decisions]
    /\ handler \in [Users -> Handler \union {Idle}]
    /\ registered \in {0, conn} /\ conn \in 1 .. MaxConns
    /\ link \in {"up", "closed"} /\ listening \in BOOLEAN
    /\ unregistering \subseteq 1 .. MaxConns
    /\ prompt \in [Runs -> {"none", "assigned", "prompting", "done"}]
    /\ run_conn \in [Runs -> 0 .. MaxConns]
    /\ active_runs \subseteq Runs /\ cancelled \subseteq Runs /\ futures \subseteq Keys
    /\ asked \in [Keys -> Asks]
    /\ \A k \in Keys : /\ answered[k] \in Seq(Decisions)
                       /\ Len(answered[k]) \in {asked[k], asked[k] - 1}

OnItsWay(channel, m) == \E i \in DOMAIN channel : channel[i] = m

\* An agent that waits has a future the connector can resolve, and its answer
\* can still come: its request is on the way to the backend, or the user finds
\* it pending, or a decision is on the way; or the connection is gone.
\* (a decision recorded for the wrong ask, or before it was sent, strands it)
WaiterCanBeAnswered ==
    \A k \in Keys : Waiting(k) =>
        /\ k \in futures
        /\ \/ ~IsUp(run_conn[RunOf(k)])
           \/ OnItsWay(up, Message("run.permission.requested", k, Cancelled, asked[k]))
           \/ permission_requests[k] = [status |-> Pending, ask |-> asked[k]]
           \/ \E d \in Decisions, n \in Asks :
                 OnItsWay(down, Message("run.permission.decision", k, d, n))

\* No agent waits for a permission of a run whose prompt is over, and none on a
\* connection the connector has given up.
NoWaitOutlivesItsPrompt ==
    \A k \in Keys : Waiting(k) => /\ prompt[RunOf(k)] = "prompting"
                                  /\ listening /\ run_conn[RunOf(k)] = conn

\* In a run nobody cancels, what the agent was allowed to do is what the backend
\* recorded: a selection the agent received for an ask whose row is decided is
\* the selection in that row, once no handler is at work on it.
\* The code keeps it only while no send suspends.
AgentActsOnRecord ==
    \A k \in Keys :
        LET row == permission_requests[k]
        IN  /\ RunOf(k) \notin cancelled /\ row.status \in Decisions
            /\ \A u \in Users : handler[u].key # k
            /\ row.ask \in DOMAIN answered[k] /\ answered[k][row.ask] # Cancelled
            => answered[k][row.ask] = row.status

\* The history of a run, from which its transcript is streamed, and the list
\* of its permission requests tell the same about each of them.
ShownIsStored ==
    \A k \in Keys : shown[k] = permission_requests[k].status

\* Rows, history, agents and futures agree with each other and with the run.
PermissionsOK == PermissionsTypeOK /\ NoWaitOutlivesItsPrompt /\ ShownIsStored

\* In a run nobody cancels, a decision the agent receives was made for the ask
\* it answers, and not for an earlier ask of the same tool call.
DecisionIsForThisAsk ==
    [][\A k \in Keys :
          LET m == Head(down)
          IN  ConnectorReads /\ m.type = "run.permission.decision" /\ m.key = k
                /\ answered'[k] # answered[k] /\ RunOf(k) \notin cancelled
              => m.ask = asked[k]]_vars

\* Cancelling a run answers the agent that waits in it; so does the end of its
\* connection.
CancelAnswersWaiter ==
    \A k \in Keys, n \in 1 .. MaxAsks :
        (/\ asked[k] = n /\ Waiting(k)
         /\ OnItsWay(down, RunMessage("run.cancel", RunOf(k))) \/ link = "closed")
            ~> Len(answered[k]) >= n
=============================================================================
