------------------------------ MODULE AcpClient ------------------------------
(***************************************************************************)
(* The connector's agent process and the requests that share it:           *)
(* AcpProcessClient of connector/pocage/acp_client.py and the handlers of  *)
(* connector/pocage/executor.py that use it under _run_lock.               *)
(*                                                                         *)
(* Every handler is a task: it waits for the lock, starts the agent if     *)
(* there is none, and does its work; a run whose setup fails takes the     *)
(* lock a second time to throw the client away.  The agent is external: it *)
(* keeps the turns of a session on disk, replays them when the session is  *)
(* loaded, may fail any request and may exit at any time.  A history is    *)
(* the number of its turns; what a replay contains is the number of turns  *)
(* it was made of.  A process that terminate finds gone already counts as  *)
(* cleared from the client.                                                *)
(***************************************************************************)
EXTENDS Naturals, Sequences, FiniteSets

CONSTANTS Tasks,
          Kind,            \* what a task does
          SessionOf,       \* the session it does it to
          Sessions,
          NoReplay,
          MaxProcs,        \* bound on the agent processes
          MaxUpdates       \* bound on the updates an agent sends unasked

ASSUME AcpAssumption ==
    /\ Kind \in [Tasks -> {"create", "list", "sync", "run"}]
    /\ SessionOf \in [Tasks -> Sessions]
    /\ NoReplay \notin Nat /\ MaxProcs \in Nat \ {0} /\ MaxUpdates \in Nat

VARIABLES
    at,           \* where a task is
    queue,        \* _run_lock: its holder and those that wait for it
    proc,         \* the client's agent process, or 0
    connected,    \* the client has a connection (_conn)
    spawned,      \* how many there have been
    alive, initialized,   \* processes that run, and that know the protocol version
    cut_short,    \* those whose initialize, or whose stop, was cancelled
    signalled,    \* those that stop told to terminate and did not see end
    open,         \* the sessions a process has open
    live,         \* _live_session_ids
    replays,      \* _session_replays
    history,      \* the turns of a session, on the agent's disk
    started_with, \* history of the session when the task took its place in the queue
    answer,       \* the turns a sync has answered
    used,         \* the process a task worked with
    shown,        \* the sessions whose updates a run's stream has received
    updates       \* how many updates were sent

agentVars == <<spawned, alive, initialized, cut_short, signalled, open, history>>
clientVars == <<proc, connected, live, replays>>
vars == <<at, queue, agentVars, clientVars, started_with, answer, used, shown, updates>>

\* Sessions that no task creates exist from the start.
Init ==
    /\ at = [t \in Tasks |-> "new"]
    /\ queue = <<>>
    /\ proc = 0 /\ connected = FALSE /\ spawned = 0
    /\ alive = {} /\ initialized = {} /\ cut_short = {} /\ signalled = {}
    /\ open = [p \in 1 .. MaxProcs |-> {}]
    /\ live = {} /\ replays = [s \in Sessions |-> NoReplay]
    /\ history = [s \in Sessions |-> 0]
    /\ started_with = [t \in Tasks |-> 0]
    /\ answer = [t \in Tasks |-> NoReplay]
    /\ used = [t \in Tasks |-> 0]
    /\ shown = [t \in Tasks |-> {}]
    /\ updates = 0

Holds(t) == queue # <<>> /\ Head(queue) = t
Running(p) == p \in alive /\ p \in initialized

\* The task leaves the lock to the next one and goes on at place p.
LeaveLock(t, p) ==
    /\ queue' = Tail(queue)
    /\ at' = [at EXCEPT ![t] = p]

\* A request of the task fails: the connector answers with the error.  Only a
\* run goes on, to replace the client.
Fails(t) == LeaveLock(t, IF Kind[t] = "run" THEN "setup_failed" ELSE "done")

\* Mutant: the new client inherits what the old one knew.
KeepSessions == UNCHANGED <<live, replays>>

\* stop clears the client's maps; _reset_acp_client makes a new client, whose
\* maps are empty too.
ForgetSessions ==
    /\ live' = {}
    /\ replays' = [s \in Sessions |-> NoReplay]

\* Mutant: the process is forgotten and goes on.
LeftRunning == alive

\* terminate and, after three seconds, kill
Terminated == alive \ {proc}

Stop ==
    /\ proc' = 0 /\ connected' = FALSE
    /\ alive' = Terminated
    /\ ForgetSessions
-----------------------------------------------------------------------------
(* Tasks. *)

Arrive(t) ==
    /\ at[t] = "new"
    /\ at' = [at EXCEPT ![t] = "queued"]
    /\ queue' = Append(queue, t)
    /\ started_with' = [started_with EXCEPT ![t] = history[SessionOf[t]]]
    /\ UNCHANGED <<agentVars, clientVars, answer, used, shown, updates>>

\* Mutant: a client without sessions starts over.
HasSessions == proc # 0 /\ live # {}

\* self._proc is not None and self._conn is not None
HasAgent == proc # 0 /\ connected

\* start: a client that has a process and a connection is left as it is, also
\* when the process has exited.  Without a connection the next process takes the
\* place of the one the client had.
Start(t) ==
    /\ Holds(t) /\ at[t] = "queued"
    /\ \/ /\ HasAgent
          /\ at' = [at EXCEPT ![t] = "started"]
          /\ used' = [used EXCEPT ![t] = proc]
          /\ UNCHANGED <<proc, connected, spawned, alive>>
       \/ /\ ~HasAgent /\ spawned < MaxProcs
          /\ at' = [at EXCEPT ![t] = "initializing"]
          /\ spawned' = spawned + 1 /\ proc' = spawned' /\ connected' = TRUE
          /\ alive' = alive \union {spawned'}
          /\ used' = [used EXCEPT ![t] = spawned']
    /\ UNCHANGED <<queue, initialized, cut_short, signalled, open, history, live, replays,
                   started_with, answer, shown, updates>>

\* The process cannot be created.
StartFails(t) ==
    /\ Holds(t) /\ at[t] = "queued" /\ ~HasAgent
    /\ Fails(t)
    /\ UNCHANGED <<agentVars, clientVars, started_with, answer, used, shown, updates>>

Initialized(t) ==
    /\ Holds(t) /\ at[t] = "initializing" /\ proc \in alive
    /\ initialized' = initialized \union {proc}
    /\ at' = [at EXCEPT ![t] = "started"]
    /\ UNCHANGED <<queue, spawned, alive, cut_short, signalled, open, history, clientVars,
                   started_with, answer, used, shown, updates>>

\* initialize raises, or its 20 seconds run out: start calls stop, which first
\* waits for the connection to close, ...
InitializeFails(t) ==
    /\ Holds(t) /\ at[t] = "initializing"
    /\ at' = [at EXCEPT ![t] = "closing"]
    /\ UNCHANGED <<queue, agentVars, clientVars, started_with, answer, used, shown, updates>>

\* ... then clears it and waits for the process it tells to terminate, ...
ConnectionClosed(t) ==
    /\ Holds(t) /\ at[t] = "closing"
    /\ at' = [at EXCEPT ![t] = "terminating"]
    /\ connected' = FALSE
    /\ signalled' = signalled \union {proc}
    /\ UNCHANGED <<queue, spawned, alive, initialized, cut_short, open, history, proc, live,
                   replays, started_with, answer, used, shown, updates>>

\* ... and start raises.
StartAbandoned(t) ==
    /\ Holds(t) /\ at[t] = "terminating"
    /\ Stop
    /\ Fails(t)
    /\ UNCHANGED <<spawned, initialized, cut_short, signalled, open, history, started_with,
                   answer, used, shown, updates>>

\* The caller's 25 seconds run out in the middle of initialize, or of the stop
\* after it: CancelledError is no Exception, and the client keeps its process,
\* with the connection unless stop has cleared it.
StartCancelled(t) ==
    /\ Holds(t) /\ at[t] \in {"initializing", "closing", "terminating"}
    /\ cut_short' = cut_short \union {proc}
    /\ Fails(t)
    /\ UNCHANGED <<spawned, alive, initialized, signalled, open, history, clientVars,
                   started_with, answer, used, shown, updates>>

\* new_session and list_sessions
CreateOrList(t) ==
    /\ Holds(t) /\ at[t] = "started" /\ Kind[t] \in {"create", "list"}
    /\ Running(proc)
    /\ IF Kind[t] = "create"
       THEN /\ open' = [open EXCEPT ![proc] = @ \union {SessionOf[t]}]
            /\ live' = live \union {SessionOf[t]}
       ELSE UNCHANGED <<open, live>>
    /\ LeaveLock(t, "done")
    /\ UNCHANGED <<spawned, alive, initialized, cut_short, signalled, history, proc, connected,
                   replays, started_with, answer, used, shown, updates>>

\* sync_session answers with the replay of an earlier load.
SyncFromCache(t) ==
    /\ Holds(t) /\ at[t] = "started" /\ Kind[t] = "sync"
    /\ replays[SessionOf[t]] # NoReplay
    /\ answer' = [answer EXCEPT ![t] = replays[SessionOf[t]]]
    /\ LeaveLock(t, "done")
    /\ UNCHANGED <<agentVars, clientVars, started_with, used, shown, updates>>

NeedsLoad(t) ==
    LET s == SessionOf[t]
    IN  \/ Kind[t] = "sync" /\ replays[s] = NoReplay
        \/ Kind[t] = "run" /\ s \notin live

\* _load_session_replay: the collector has seen the whole history when the
\* response arrives.
Load(t) ==
    LET s == SessionOf[t]
    IN  /\ Holds(t) /\ at[t] = "started" /\ NeedsLoad(t)
        /\ Running(proc)
        /\ open' = [open EXCEPT ![proc] = @ \union {s}]
        /\ live' = live \union {s}
        /\ replays' = [replays EXCEPT ![s] = history[s]]
        /\ IF Kind[t] = "sync"
           THEN /\ answer' = [answer EXCEPT ![t] = history[s]]
                /\ LeaveLock(t, "done")
           ELSE /\ at' = [at EXCEPT ![t] = "accepting"]
                /\ UNCHANGED <<queue, answer>>
        /\ UNCHANGED <<spawned, alive, initialized, cut_short, signalled, history, proc,
                       connected, started_with, used, shown, updates>>

SkipLoad(t) ==
    /\ Holds(t) /\ at[t] = "started" /\ Kind[t] = "run" /\ SessionOf[t] \in live
    /\ at' = [at EXCEPT ![t] = "accepting"]
    /\ UNCHANGED <<queue, agentVars, clientVars, started_with, answer, used, shown,
                   updates>>

\* The agent answers with an error, or is not there.
WorkFails(t) ==
    /\ Holds(t) /\ at[t] = "started"
    /\ Kind[t] \in {"create", "list"} \/ NeedsLoad(t)
    /\ Fails(t)
    /\ UNCHANGED <<agentVars, clientVars, started_with, answer, used, shown, updates>>

\* run.accepted is sent and the prompt goes to the agent; if the backend's
\* websocket is closed, the setup has failed.
Accept(t) ==
    /\ Holds(t) /\ at[t] = "accepting"
    /\ \/ at' = [at EXCEPT ![t] = "prompting"] /\ UNCHANGED queue
       \/ Fails(t)
    /\ UNCHANGED <<agentVars, clientVars, started_with, answer, used, shown, updates>>

\* The agent answers the prompt; run.completed is sent, or cannot be sent.
PromptReturns(t) ==
    /\ Holds(t) /\ at[t] = "prompting" /\ Running(proc)
    /\ history' = [history EXCEPT ![SessionOf[t]] = @ + 1]
    /\ LeaveLock(t, "done") \/ Fails(t)
    /\ UNCHANGED <<spawned, alive, initialized, cut_short, signalled, open, clientVars,
                   started_with, answer, used, shown, updates>>

\* The prompt raises: run.failed is sent and the client stays; only if that
\* cannot be sent either, the handler goes the way of a failed setup.
PromptFails(t) ==
    /\ Holds(t) /\ at[t] = "prompting"
    /\ LeaveLock(t, "done") \/ Fails(t)
    /\ UNCHANGED <<agentVars, clientVars, started_with, answer, used, shown, updates>>

\* Mutant: the client is replaced without waiting for the lock.
ResetAtOnce(t) ==
    /\ at[t] = "setup_failed"
    /\ Stop
    /\ at' = [at EXCEPT ![t] = "done"]
    /\ UNCHANGED <<queue, spawned, initialized, cut_short, signalled, open, history,
                   started_with, answer, used, shown, updates>>

\* run.failed, and the second async with self._run_lock
WaitToReset(t) ==
    /\ at[t] = "setup_failed"
    /\ at' = [at EXCEPT ![t] = "resetting"]
    /\ queue' = Append(queue, t)
    /\ UNCHANGED <<agentVars, clientVars, started_with, answer, used, shown, updates>>

Reset(t) ==
    /\ Holds(t) /\ at[t] = "resetting"
    /\ Stop
    /\ LeaveLock(t, "done")
    /\ UNCHANGED <<spawned, initialized, cut_short, signalled, open, history, started_with,
                   answer, used, shown, updates>>
-----------------------------------------------------------------------------
(* The agent. *)

Crash(p) ==
    /\ p \in alive
    /\ alive' = alive \ {p}
    /\ UNCHANGED <<at, queue, spawned, initialized, cut_short, signalled, open, history,
                   clientVars, started_with, answer, used, shown, updates>>

\* It finishes the initialize that nobody waits for any more.
InitializedLate ==
    /\ HasAgent /\ proc \in alive \intersect cut_short
    /\ initialized' = initialized \union {proc}
    /\ UNCHANGED <<at, queue, spawned, alive, cut_short, signalled, open, history, clientVars,
                   started_with, answer, used, shown, updates>>

Prompting(s) == {t \in Tasks : at[t] = "prompting" /\ SessionOf[t] = s}

\* _resolve_callbacks: the prompt of the session, or else the only one there is.
Callbacks(s) ==
    LET all == UNION {Prompting(r) : r \in Sessions}
    IN  IF Prompting(s) # {} THEN Prompting(s)
        ELSE IF Cardinality(all) = 1 THEN all ELSE {}

\* A session/update: during a prompt of its session, or on the agent's own
\* account, such as the list of commands after a session was created.
Update(s) ==
    /\ Running(proc) /\ s \in open[proc] /\ updates < MaxUpdates
    /\ shown' = [t \in Tasks |-> IF t \in Callbacks(s) THEN shown[t] \union {s} ELSE shown[t]]
    /\ updates' = updates + 1
    /\ UNCHANGED <<at, queue, agentVars, clientVars, started_with, answer, used>>
-----------------------------------------------------------------------------
Next ==
    \/ \E t \in Tasks :
          \/ Arrive(t) \/ Start(t) \/ StartFails(t) \/ Initialized(t)
          \/ InitializeFails(t) \/ ConnectionClosed(t) \/ StartAbandoned(t) \/ StartCancelled(t)
          \/ CreateOrList(t) \/ SyncFromCache(t) \/ Load(t) \/ SkipLoad(t) \/ WorkFails(t)
          \/ Accept(t) \/ PromptReturns(t) \/ PromptFails(t) \/ WaitToReset(t) \/ Reset(t)
    \/ \E p \in alive : Crash(p)
    \/ InitializedLate
    \/ \E s \in Sessions : Update(s)

Spec == Init /\ [][Next]_vars

\* What a run does after its failed setup goes on: the send of run.failed ends or
\* raises, since the websocket's keepalive closes a connection nobody answers on,
\* and stop kills a process that does not end in three seconds.  Nothing is said
\* of requests to the agent, most of which have no timeout.
FairSpec == Spec /\ \A t \in Tasks : WF_vars(WaitToReset(t)) /\ WF_vars(Reset(t))
-----------------------------------------------------------------------------
(* Properties. *)

AcpTypeOK ==
    /\ at \in [Tasks -> {"new", "queued", "initializing", "closing", "terminating", "started",
                         "accepting", "prompting", "setup_failed", "resetting", "done"}]
    /\ queue \in Seq(Tasks)
    /\ proc \in 0 .. spawned /\ spawned \in 0 .. MaxProcs /\ connected \in BOOLEAN
    /\ alive \subseteq 1 .. spawned
    /\ initialized \subseteq 1 .. spawned /\ cut_short \subseteq 1 .. spawned
    /\ signalled \subseteq 1 .. spawned
    /\ open \in [1 .. MaxProcs -> SUBSET Sessions]
    /\ live \subseteq Sessions /\ replays \in [Sessions -> Nat \union {NoReplay}]
    /\ history \in [Sessions -> Nat] /\ started_with \in [Tasks -> Nat]
    /\ answer \in [Tasks -> Nat \union {NoReplay}]
    /\ used \in [Tasks -> 0 .. spawned]
    /\ shown \in [Tasks -> SUBSET Sessions] /\ updates \in 0 .. MaxUpdates
    /\ \A t \in Tasks : at[t] \in {"queued", "initializing", "closing", "terminating", "started",
                                   "accepting", "prompting", "resetting"}
                        <=> \E i \in DOMAIN queue : queue[i] = t

\* Every request but initialize goes to a process that was initialized, unless
\* start was cut off by the caller's timeout: only then the client keeps a process
\* that is not ready.
UsedOnlyInitialized ==
    \A t \in Tasks :
        at[t] \in {"started", "accepting", "prompting"} => proc \in initialized \union cut_short

\* A run that skips the load prompts a session its agent process has open.
PromptedIsOpen ==
    \A t \in Tasks :
        at[t] \in {"accepting", "prompting"} /\ proc \in alive => SessionOf[t] \in open[proc]

\* Nobody stops an agent in the middle of another task's work.
ResetSparesOthers ==
    [][\A t \in Tasks :
          at[t] \in {"initializing", "closing", "terminating", "started", "accepting", "prompting"}
          /\ at'[t] = at[t] => proc' = proc]_vars

\* Whoever holds the lock lets it go.  The code cannot promise it: session/new,
\* list, load, set_mode and the prompt wait for the agent without a timeout.
LockIsPassedOn == \A t \in Tasks : []<>~Holds(t)

\* After a failed setup the process that failed is gone, or has been told to
\* terminate, also when other requests were served in between: provided the agent
\* answers those that hold the lock.
SetupFailureReplacesAgent ==
    LockIsPassedOn =>
        \A t \in Tasks :
            at[t] = "setup_failed" ~> (at[t] = "done" /\ used[t] \notin alive \ signalled)

\* No agent process is left behind when the client forgets it, except one that a
\* stop told to terminate and, cut off by a timeout, did not wait for.
ForgottenWereTerminated == alive \ {proc} \subseteq signalled

\* No agent process is left behind.
\* The code does not keep it: the caller's timeout may cut off the stop in start.
OnlyOneProcess == alive \subseteq {proc}

\* The client, the lock and the processes agree: the process that runs is the one
\* the client knows or was told to terminate, and whoever uses it found it
\* initialized.
AgentOK == AcpTypeOK /\ UsedOnlyInitialized /\ ForgottenWereTerminated

\* A sync answers with the turns the session had when it was asked for.
\* The code does not keep it: the replay is that of the last load.
SyncIsCurrent ==
    \A t \in Tasks : answer[t] # NoReplay => answer[t] >= started_with[t]

\* A run's stream shows what its own session does.
\* The code does not keep it: an update without a callback goes to the only prompt.
StreamShowsOwnSession ==
    \A t \in Tasks : shown[t] \subseteq {SessionOf[t]}
=============================================================================
