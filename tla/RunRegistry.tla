----------------------------- MODULE RunRegistry -----------------------------
(***************************************************************************)
(* The registry of runs kept in memory by the backend: the part of class   *)
(* RuntimeState (backend/app/runtime_state.py) that ExecutorManager calls. *)
(*                                                                         *)
(* Every method of RuntimeState runs under its own lock and contains no    *)
(* await, so a method is a function from registry values to registry       *)
(* values.  A handler of ExecutorManager composes several of them between  *)
(* two awaits; module RunDispatch composes the operators the same way.     *)
(*                                                                         *)
(* Run identifiers are fresh, and every list of runs the code keeps is in  *)
(* creation order; here they are numbered in that order, which makes the   *)
(* list _queued_runs the set of its elements.                              *)
(***************************************************************************)
EXTENDS Naturals, Sequences, FiniteSets

CONSTANTS MaxRuns,        \* bound on the runs ever created
          Sessions,       \* identifiers of sessions
          Daemons,        \* identifiers of daemons (connectors)
          NoSession,      \* the session of a run that does not exist
          NoDaemon,       \* executor_id = None
          Host,           \* the daemon each session lives on
          MaxLocalRuns    \* max_local_runs_per_session

Runs == 1 .. MaxRuns

ASSUME RegistryAssumption ==
    /\ MaxRuns \in Nat
    /\ NoSession \notin Sessions
    /\ NoDaemon \notin Daemons
    /\ Host \in [Sessions -> Daemons]
    /\ MaxLocalRuns \in Nat \ {0}       \* max(1, int(max_local_runs_per_session))

ACTIVE_RUN_STATUSES == {"queued", "assigned", "running"}
TERMINAL_RUN_STATUSES ==
    {"completed", "cancelled", "failed", "executor_disconnected"}
\* "absent": the run is not a key of _runs (not yet created, or removed).
Statuses == ACTIVE_RUN_STATUSES \union TERMINAL_RUN_STATUSES \union {"absent"}

LifecycleEvents ==
    {"run.queued", "run.started", "run.accepted", "run.completed", "run.error"}
TerminalEvents == {"run.completed", "run.error"}

Registry ==
    [status         : [Runs -> Statuses],
     session        : [Runs -> Sessions \union {NoSession}],
     executor       : [Runs -> Daemons \union {NoDaemon}],
     ended          : [Runs -> Nat],     \* terminal_at; 0 is None
     clock          : Nat,               \* utc_now, ticking at terminal marks
     created        : 0 .. MaxRuns,      \* runs created so far
     queued_runs    : SUBSET Runs,
     run_events     : [Runs -> Seq(LifecycleEvents)],
     session_status : [Sessions -> ACTIVE_RUN_STATUSES \union {"idle"}]]

EmptyRegistry ==
    [status         |-> [r \in Runs |-> "absent"],
     session        |-> [r \in Runs |-> NoSession],
     executor       |-> [r \in Runs |-> NoDaemon],
     ended          |-> [r \in Runs |-> 0],
     clock          |-> 0,
     created        |-> 0,
     queued_runs    |-> {},
     run_events     |-> [r \in Runs |-> <<>>],
     session_status |-> [s \in Sessions |-> "idle"]]

Present(rt, r) == rt.status[r] # "absent"
Active(rt, r) == rt.status[r] \in ACTIVE_RUN_STATUSES
Terminal(rt, r) == rt.status[r] \in TERMINAL_RUN_STATUSES
-----------------------------------------------------------------------------
(* Removal. *)

\* _remove_run_locked, for every run of S.
RemoveRuns(rt, S) ==
    [rt EXCEPT
        !.status      = [r \in Runs |-> IF r \in S THEN "absent" ELSE @[r]],
        !.session     = [r \in Runs |-> IF r \in S THEN NoSession ELSE @[r]],
        !.executor    = [r \in Runs |-> IF r \in S THEN NoDaemon ELSE @[r]],
        !.ended       = [r \in Runs |-> IF r \in S THEN 0 ELSE @[r]],
        !.run_events  = [r \in Runs |-> IF r \in S THEN <<>> ELSE @[r]],
        !.queued_runs = @ \ S]

TerminalRunsOf(rt, s) == {r \in Runs : Terminal(rt, r) /\ rt.session[r] = s}

\* Mutant: the slice keeps one run too many.
ExcessOffByOne(rt, s) ==
    LET terminal == TerminalRunsOf(rt, s)
    IN  {r \in terminal :
            Cardinality({q \in terminal : rt.ended[q] > rt.ended[r]}) > MaxLocalRuns}

\* The terminal runs of a session beyond the newest MaxLocalRuns.
Excess(rt, s) ==
    LET terminal == TerminalRunsOf(rt, s)
    IN  {r \in terminal :
            Cardinality({q \in terminal : rt.ended[q] > rt.ended[r]}) >= MaxLocalRuns}

PruneSession(rt, s) == RemoveRuns(rt, Excess(rt, s))

\* cleanup: runs whose terminal_at is not after the cut-off go, then the excess
\* of every session, then the events left behind for runs that are gone.
Cleanup(rt, cutoff) ==
    LET expired == {r \in Runs : Terminal(rt, r) /\ rt.ended[r] <= cutoff}
        unexpired == RemoveRuns(rt, expired)
        pruned == RemoveRuns(unexpired, UNION {Excess(unexpired, s) : s \in Sessions})
    IN  [pruned EXCEPT !.run_events =
            [r \in Runs |-> IF Present(pruned, r) THEN @[r] ELSE <<>>]]
-----------------------------------------------------------------------------
(* The life of a run. *)

NextRun(rt) == rt.created + 1

\* create_run; the caller has room: rt.created < MaxRuns.
CreateRun(rt, s) ==
    LET r == NextRun(rt)
    IN  [rt EXCEPT !.created = r,
                   !.status[r] = "queued",
                   !.session[r] = s,
                   !.queued_runs = @ \union {r},
                   !.session_status[s] = "queued"]

\* Mutant: the connector's own message type is stored.
StoreRunEventRaw(rt, r, type) ==
    [rt EXCEPT !.run_events[r] =
        Append(@, IF type = "run.error" THEN "run.failed" ELSE type)]

\* store_run_event; it asks nothing of the run, not even that it exists.
StoreRunEvent(rt, r, type) == [rt EXCEPT !.run_events[r] = Append(@, type)]

Waiting(rt, d) ==
    {r \in rt.queued_runs : rt.status[r] = "queued" /\ Host[rt.session[r]] = d}

\* Mutant: the daemon of the run is not looked at.
IsNextForAny(rt, d, r) ==
    /\ r \in rt.queued_runs /\ rt.status[r] = "queued"
    /\ \A q \in rt.queued_runs : rt.status[q] = "queued" => r <= q

IsNextFor(rt, d, r) == r \in Waiting(rt, d) /\ \A q \in Waiting(rt, d) : r <= q

\* Mutant: everything the scan skips is taken off the list.
StaleAndSkipped(rt) == rt.queued_runs

Stale(rt) == {r \in rt.queued_runs : rt.status[r] # "queued"}

\* Mutant: the run stays queued until it has been delivered.
ClaimRunUnmarked(rt, r) ==
    [rt EXCEPT !.queued_runs = @ \ ({r} \union {q \in Stale(rt) : q < r}),
               !.session_status[rt.session[r]] = "assigned"]

\* claim_next_queued_run when it returns run r: the scan drops the entries
\* before r that are no longer queued.
ClaimRun(rt, r) ==
    [rt EXCEPT !.queued_runs = @ \ ({r} \union {q \in Stale(rt) : q < r}),
               !.status[r] = "assigned",
               !.session_status[rt.session[r]] = "assigned"]

\* claim_next_queued_run when it returns None: the scan saw the whole list.
ClaimNothing(rt) == [rt EXCEPT !.queued_runs = @ \ Stale(rt)]

\* mark_run_assigned: whatever the status is, unless the run is gone.
MarkRunAssigned(rt, r, d) ==
    IF Present(rt, r)
    THEN [rt EXCEPT !.status[r] = "assigned",
                    !.executor[r] = d,
                    !.ended[r] = 0,
                    !.session_status[rt.session[r]] = "assigned"]
    ELSE rt

\* mark_run_started; run.accepted carries the session the run was created for.
MarkRunStarted(rt, r, d) ==
    IF Present(rt, r)
    THEN [rt EXCEPT !.status[r] = "running",
                    !.executor[r] = d,
                    !.ended[r] = 0,
                    !.session_status[rt.session[r]] = "running"]
    ELSE rt

\* Mutant: the session keeps its status.
MarkRunTerminalSessionKept(rt, r, status) ==
    IF Present(rt, r)
    THEN PruneSession([rt EXCEPT !.status[r] = status,
                                 !.ended[r] = rt.clock + 1,
                                 !.clock = @ + 1],
                      rt.session[r])
    ELSE rt

\* mark_run_completed, _failed, _cancelled and _executor_disconnected: the
\* session goes idle whatever its other runs do, and its oldest runs go.
MarkRunTerminal(rt, r, status) ==
    IF Present(rt, r)
    THEN PruneSession([rt EXCEPT !.status[r] = status,
                                 !.ended[r] = rt.clock + 1,
                                 !.clock = @ + 1,
                                 !.session_status[rt.session[r]] = "idle"],
                      rt.session[r])
    ELSE rt
=============================================================================
