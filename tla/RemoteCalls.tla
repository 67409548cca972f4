----------------------------- MODULE RemoteCalls -----------------------------
(***************************************************************************)
(* Requests of the backend to a connector and their answers:               *)
(* create_remote_session, _list_remote_session_page, sync_remote_session   *)
(* and search_context of backend/app/executor_manager.py, the results in   *)
(* handle_executor_event, and the handlers of connector/pocage/executor.py *)
(* that produce them.  The four kinds keep their waiters in dictionaries   *)
(* of their own and differ in two points: a search result is not stored in *)
(* the database, and the syncs of one session share one request.           *)
(*                                                                         *)
(* One daemon, connections one after the other, as in Permissions.  A call *)
(* is an HTTP handler that needs one answer; a request carries the name of *)
(* the call that created it.  The send of a request returns at once; every *)
(* database call may raise.  The syncs are all of one session.             *)
(***************************************************************************)
EXTENDS Naturals, Sequences, FiniteSets

CONSTANTS Calls,
          KindsOf,         \* the kinds a call may be of
          NoCall,
          MaxConns         \* bound on the connections of the daemon

Kinds == {"create", "list", "sync", "search"}

ASSUME RemoteCallsAssumption ==
    /\ KindsOf \in [Calls -> SUBSET Kinds]
    /\ NoCall \notin Calls
    /\ MaxConns \in Nat \ {0}

ConnNumbers == 0 .. MaxConns
Ended == {"returned", "failed", "timed out", "cancelled"}

VARIABLES
    call,          \* a handler: before, during, or how it ended
    kind,          \* what it asks for
    follows,       \* the request a handler waits for
    request,       \* the coroutine that sends a request and waits
    future,        \* its future
    request_conn,  \* the connection the request was sent on
    waiters,       \* the keys of the _..._waiters dictionaries
    inflight,      \* _session_sync_inflight of the session, or NoCall
    storing,       \* the receive loop stores the answer to this request
    unstored,      \* requests whose answer the database refused
    registered,    \* the connection under the daemon's id, or 0
    registering,   \* a connection whose register waits for the database, or 0
    unregistering, \* connections whose unregister waits for the database
    abandoned,     \* connections whose register or unregister raised
    agent_status,  \* agent_instances.status in the database
    conn, link,    \* the current connection, and its websocket
    up,            \* messages to the backend
    working        \* requests the connector has not answered

callVars == <<call, kind, follows, request, future, request_conn, waiters, inflight>>
connVars == <<registered, registering, unregistering, abandoned, agent_status>>
storeVars == <<storing, unstored>>
vars == <<callVars, connVars, storeVars, conn, link, up, working>>

IsUp(c) == c = conn /\ link = "up"
IsSync(c) == kind[c] = "sync"

Init ==
    /\ call = [c \in Calls |-> "idle"]
    /\ kind = [c \in Calls |-> "none"]
    /\ follows = [c \in Calls |-> NoCall]
    /\ request = [c \in Calls |-> "none"]
    /\ future = [c \in Calls |-> "none"]
    /\ request_conn = [c \in Calls |-> 0]
    /\ waiters = {} /\ inflight = NoCall /\ storing = NoCall /\ unstored = {}
    /\ registered = 0 /\ registering = 0 /\ unregistering = {} /\ abandoned = {}
    /\ agent_status = "offline"
    /\ conn = 0 /\ link = "closed" /\ up = <<>> /\ working = {}
-----------------------------------------------------------------------------
(* The calls. *)

\* sync_remote_session joins the request under way; every other call, and the
\* first sync, creates its own.
Begin(c, k) ==
    /\ call[c] = "idle"
    /\ call' = [call EXCEPT ![c] = "waiting"]
    /\ kind' = [kind EXCEPT ![c] = k]
    /\ IF k = "sync" /\ inflight # NoCall
       THEN /\ follows' = [follows EXCEPT ![c] = inflight]
            /\ UNCHANGED <<request, inflight>>
       ELSE /\ follows' = [follows EXCEPT ![c] = c]
            /\ request' = [request EXCEPT ![c] = "created"]
            /\ inflight' = IF k = "sync" THEN c ELSE inflight
    /\ UNCHANGED <<future, request_conn, waiters, storeVars, connVars, conn, link,
                   up, working>>

\* _get_daemon_session, the waiter and the send.  Without a daemon it is a
\* LookupError; on a closed socket the send raises and the waiter is dropped.
Send(c) ==
    /\ request[c] = "created"
    /\ IF registered # 0 /\ IsUp(registered)
       THEN /\ request' = [request EXCEPT ![c] = "sent"]
            /\ future' = [future EXCEPT ![c] = "pending"]
            /\ waiters' = waiters \union {c}
            /\ working' = working \union {c}
       ELSE /\ request' = [request EXCEPT ![c] = "failed"]
            /\ UNCHANGED <<future, waiters, working>>
    /\ request_conn' = [request_conn EXCEPT ![c] = registered]
    /\ UNCHANGED <<call, kind, follows, inflight, storeVars, connVars, conn, link, up>>

\* Mutant: the waiter stays behind.
DroppedNot(c) == waiters

\* The finally clause of a request.
Dropped(c) == waiters \ {c}

\* The future has its result or exception and the coroutine resumes.
RequestEnds(c) ==
    /\ request[c] = "sent" /\ future[c] \in {"result", "exception"}
    /\ request' = [request EXCEPT ![c] = IF future[c] = "result" THEN "returned" ELSE "failed"]
    /\ waiters' = Dropped(c)
    /\ UNCHANGED <<call, kind, follows, future, request_conn, inflight, storeVars, connVars,
                   conn, link, up, working>>

\* wait_for runs out; a future that has its result just now is too late.
TimesOut(c) ==
    /\ request[c] = "sent"
    /\ request' = [request EXCEPT ![c] = "timed out"]
    /\ future' = [future EXCEPT ![c] = IF @ = "pending" THEN "cancelled" ELSE @]
    /\ waiters' = Dropped(c)
    /\ UNCHANGED <<call, kind, follows, request_conn, inflight, storeVars, connVars, conn,
                   link, up, working>>

\* Mutant: whoever leaves takes the entry away.
ForgetByAnyone(c) == IF IsSync(c) THEN NoCall ELSE inflight

\* The finally clause of sync_remote_session, run by whoever created the task.
Forget(c) == IF follows[c] = c /\ inflight = c THEN NoCall ELSE inflight

CallEnds(c) ==
    /\ call[c] = "waiting" /\ request[follows[c]] \in Ended
    /\ call' = [call EXCEPT ![c] = request[follows[c]]]
    /\ inflight' = Forget(c)
    /\ UNCHANGED <<kind, follows, request, future, request_conn, waiters, storeVars,
                   connVars, conn, link, up, working>>

\* Mutant: the shared request is awaited without the shield.
TakesRequestUnshielded(c) == TRUE

\* Whether a cancelled handler cancels the request it waits for: a sync is
\* shielded, every other request is part of its handler.
TakesRequest(c) == ~IsSync(c)

CancelCall(c) ==
    /\ call[c] = "waiting"
    /\ call' = [call EXCEPT ![c] = "cancelled"]
    /\ inflight' = Forget(c)
    /\ LET r == follows[c]
       IN  IF TakesRequest(c) /\ request[r] \notin Ended
           THEN /\ request' = [request EXCEPT ![r] = "cancelled"]
                /\ future' = [future EXCEPT ![r] = IF @ = "pending" THEN "cancelled" ELSE @]
                /\ waiters' = Dropped(r)
           ELSE UNCHANGED <<request, future, waiters>>
    /\ UNCHANGED <<kind, follows, request_conn, storeVars, connVars, conn, link, up, working>>
-----------------------------------------------------------------------------
(* The connector and the receive loop. *)

\* A session is created in a directory made before the try: when that fails, no
\* one answers.
MayStaySilent(c) == kind[c] = "create"

\* A handler task of the connector answers on the websocket the request came
\* from, in its own time: it may wait for the run lock as long as a prompt
\* takes.  On a closed websocket the answer is lost.
Reply(c) ==
    /\ c \in working
    /\ working' = working \ {c}
    /\ \/ \E ok \in BOOLEAN :
             up' = IF IsUp(request_conn[c]) THEN Append(up, [to |-> c, ok |-> ok]) ELSE up
       \/ MayStaySilent(c) /\ up' = up
    /\ UNCHANGED <<callVars, connVars, storeVars, conn, link>>

\* The receive loop of the current connection can go on.
Served ==
    /\ registered = conn /\ registering = 0 /\ conn # 0 /\ conn \notin abandoned
    /\ storing = NoCall

\* future is not None and not future.done()
CanResolve(c) == c \in waiters /\ future[c] = "pending"

\* _..._waiters.pop
Taken(c) == waiters \ {c}

\* A result: an answer that comes too late is dropped; an error, or an update
\* list that is too long, is the call's exception; the rest is stored first.
HandleResult ==
    /\ Served /\ up # <<>>
    /\ LET c == Head(up).to
       IN  /\ waiters' = Taken(c)
           /\ IF CanResolve(c)
              THEN IF Head(up).ok /\ kind[c] # "search"
                   THEN storing' = c /\ UNCHANGED future
                   ELSE /\ future' = [future EXCEPT ![c] =
                                        IF Head(up).ok THEN "result" ELSE "exception"]
                        /\ UNCHANGED storing
              ELSE UNCHANGED <<storing, future>>
    /\ up' = Tail(up)
    /\ UNCHANGED <<call, kind, follows, request, request_conn, inflight, connVars, unstored,
                   conn, link, working>>

\* The database is done.  If the call has timed out meanwhile, set_result raises
\* InvalidStateError, which daemon_ws logs.
Stored ==
    /\ storing # NoCall
    /\ future' = [future EXCEPT ![storing] = IF @ = "pending" THEN "result" ELSE @]
    /\ storing' = NoCall
    /\ UNCHANGED <<call, kind, follows, request, request_conn, waiters, inflight, connVars,
                   unstored, conn, link, up, working>>

\* The database call raises, which daemon_ws logs: the waiter is gone and the
\* future stays as it is.
StoreFails ==
    /\ storing # NoCall
    /\ unstored' = unstored \union {storing}
    /\ storing' = NoCall
    /\ UNCHANGED <<callVars, connVars, conn, link, up, working>>

\* Mutant: the heartbeat only notes the time.
SeenOnly == agent_status

\* _mark_agent_seen
Seen == "online"

\* A heartbeat of the connector.
Heartbeat ==
    /\ Served /\ link = "up"
    /\ agent_status' = Seen
    /\ UNCHANGED <<callVars, registered, registering, unregistering, abandoned, storeVars,
                   conn, link, up, working>>
-----------------------------------------------------------------------------
(* Connections. *)

\* The daemon connects and register enters it; a connection that is lost before
\* register returned is the subject of RunDispatch.
Connect ==
    /\ link = "closed" /\ registered = 0 /\ conn < MaxConns
    /\ conn' = conn + 1 /\ registered' = conn + 1 /\ registering' = conn + 1
    /\ link' = "up" /\ up' = <<>>
    /\ UNCHANGED <<callVars, unregistering, abandoned, agent_status, storeVars, working>>

\* _mark_agent_connected returns.
Registered ==
    /\ registering # 0
    /\ registering' = 0
    /\ agent_status' = "online"
    /\ UNCHANGED <<callVars, registered, unregistering, abandoned, storeVars, conn, link,
                   up, working>>

\* ... or raises: the socket is closed, and nobody takes the session out again.
RegisterRaises ==
    /\ registering # 0
    /\ registering' = 0
    /\ abandoned' = abandoned \union {registering}
    /\ link' = "closed"
    /\ UNCHANGED <<callVars, registered, unregistering, agent_status, storeVars, conn,
                   up, working>>

Close ==
    /\ link = "up" /\ registering = 0
    /\ link' = "closed"
    /\ UNCHANGED <<callVars, connVars, storeVars, conn, up, working>>

\* The receive loop ends; answers it has not read are lost.
Unregister ==
    /\ Served /\ link = "closed"
    /\ registered' = 0
    /\ unregistering' = unregistering \union {conn}
    /\ up' = <<>>
    /\ UNCHANGED <<callVars, registering, abandoned, agent_status, storeVars, conn, link,
                   working>>

\* Mutant: the calls that wait are left to their timeouts.
FailWaitersNot == waiters' = waiters /\ future' = future

\* _fail_..._waiters: every waiter of the daemon, whatever its connection.
FailWaiters ==
    /\ waiters' = {}
    /\ future' = [c \in Calls |-> IF c \in waiters /\ future[c] = "pending"
                                  THEN "exception" ELSE future[c]]

\* _mark_agent_disconnected returns, and the rest of unregister.
Unregistered(n) ==
    /\ n \in unregistering
    /\ unregistering' = unregistering \ {n}
    /\ agent_status' = "offline"
    /\ FailWaiters
    /\ UNCHANGED <<call, kind, follows, request, request_conn, inflight, registered,
                   registering, abandoned, storeVars, conn, link, up, working>>

\* ... or it raises: no waiter is told and the status stays as it is.
UnregisterRaises(n) ==
    /\ n \in unregistering
    /\ unregistering' = unregistering \ {n}
    /\ abandoned' = abandoned \union {n}
    /\ UNCHANGED <<callVars, registered, registering, agent_status, storeVars, conn, link,
                   up, working>>
-----------------------------------------------------------------------------
Next ==
    \/ \E c \in Calls : \/ (\E k \in KindsOf[c] : Begin(c, k)) \/ Send(c) \/ RequestEnds(c) \/ TimesOut(c)
                        \/ CallEnds(c) \/ CancelCall(c) \/ Reply(c)
    \/ HandleResult \/ Stored \/ StoreFails \/ Heartbeat
    \/ Connect \/ Registered \/ RegisterRaises \/ Close \/ Unregister
    \/ \E n \in unregistering : Unregistered(n) \/ UnregisterRaises(n)

Spec == Init /\ [][Next]_vars

LeftToTimeout(c) == c \in unstored \/ request_conn[c] \in abandoned

\* The backend's event loop goes on, a database call returns or raises, and the
\* connector's heartbeats get through while the connection lasts.  Timeouts
\* are left out, save those of calls that nothing else can end any more because the
\* database refused their answer or the start or end of their connection: all other
\* calls are promised an end that does not wait for a timeout.
FairSpec ==
    /\ Spec
    /\ \A c \in Calls : WF_vars(Send(c)) /\ WF_vars(RequestEnds(c)) /\ WF_vars(CallEnds(c))
    /\ WF_vars(Stored \/ StoreFails) /\ WF_vars(Registered \/ RegisterRaises)
    /\ WF_vars(Unregister)
    /\ WF_vars(\E n \in unregistering : Unregistered(n) \/ UnregisterRaises(n))
    /\ SF_vars(Heartbeat)
    /\ \A c \in Calls : WF_vars(LeftToTimeout(c) /\ TimesOut(c))
-----------------------------------------------------------------------------
(* Properties. *)

CallsTypeOK ==
    /\ call \in [Calls -> {"idle", "waiting"} \union Ended]
    /\ kind \in [Calls -> Kinds \union {"none"}]
    /\ follows \in [Calls -> Calls \union {NoCall}]
    /\ request \in [Calls -> {"none", "created", "sent"} \union Ended]
    /\ future \in [Calls -> {"none", "pending", "result", "exception", "cancelled"}]
    /\ request_conn \in [Calls -> ConnNumbers]
    /\ waiters \subseteq Calls /\ working \subseteq Calls
    /\ inflight \in Calls \union {NoCall}
    /\ storing \in (Calls \ waiters) \union {NoCall} /\ unstored \subseteq Calls
    /\ registered \in {0, conn} /\ registering \in {0, conn}
    /\ unregistering \subseteq ConnNumbers /\ abandoned \subseteq ConnNumbers
    /\ conn \in ConnNumbers
    /\ agent_status \in {"online", "offline"} /\ link \in {"up", "closed"}
    /\ \A i \in DOMAIN up : up[i] \in [to : Calls, ok : BOOLEAN]

\* A call that waits can be reached: its waiter is where the result handler and
\* unregister look, or the receive loop holds its answer.  Only a call whose answer
\* the database refused is in neither place.  And no waiter is left behind by a
\* call that is over, however it ended.
WaitersMatchRequests ==
    \A c \in Calls :
        /\ request[c] = "sent" /\ future[c] = "pending" =>
              c \in waiters \/ storing = c \/ c \in unstored
        /\ c \in waiters => request[c] = "sent" /\ future[c] = "pending" /\ c \notin unstored

\* Calls, requests, futures and waiters agree with each other.
CallsOK == CallsTypeOK /\ WaitersMatchRequests

\* Cancelling one of several handlers that share a sync leaves the request to
\* the others.
SharersKeepTheirRequest ==
    \A c \in Calls :
        IsSync(c) /\ call[c] = "waiting" => request[follows[c]] # "cancelled"

\* At most one sync of the session is under way whose handler has not given it
\* up, and it is the one the next caller would join.
OneSyncInFlight ==
    \A c \in Calls :
        /\ IsSync(c) /\ follows[c] = c /\ call[c] = "waiting"
        /\ request[c] \in {"created", "sent"}
        => inflight = c

\* A call is told that the daemon disconnected only if its connection is gone.
\* The code does not keep it: unregister waits before it fails the waiters.
FailedOnlyWithItsConnection ==
    [][\A c \in Calls :
          /\ future[c] = "pending" /\ future'[c] = "exception"
          /\ storing' = storing /\ up' = up
          => ~IsUp(request_conn[c])]_vars

\* A call whose connection is lost ends, and does not sit out its timeout unless the
\* database refused its answer, or the register or unregister of that connection.
LostConnectionFailsCall ==
    \A c \in Calls :
        request[c] = "sent" /\ ~IsUp(request_conn[c]) ~> call[c] \in Ended

\* The status the user sees follows the connection, whatever the order in which
\* an old connection's end and a new one's start reach the database; a connection
\* whose end the database refused stays online.
StatusFollowsConnection ==
    /\ <>[](registered # 0 /\ link = "up") => <>[](agent_status = "online")
    /\ <>[](registered = 0 /\ conn \notin abandoned) => <>[](agent_status = "offline")
=============================================================================
