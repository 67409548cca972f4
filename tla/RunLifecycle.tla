---------------------------- MODULE RunLifecycle ----------------------------
(***************************************************************************)
(* What a client of the backend may rely on for every run, whatever the    *)
(* connectors do: one pass from queued through assigned and running to one *)
(* terminal status, told by events in that order, the terminal one last.   *)
(* Runs are independent; one step of the backend may move several of them. *)
(* RunDispatch implements this specification.                              *)
(***************************************************************************)
EXTENDS Sequences

CONSTANT Runs

VARIABLES
    stage,     \* the status of a run; "new" before it is created
    told       \* the events stored for it, oldest first

vars == <<stage, told>>

TerminalStages == {"completed", "cancelled", "failed", "executor_disconnected"}

Init ==
    /\ stage = [r \in Runs |-> "new"]
    /\ told = [r \in Runs |-> <<>>]

Tells(r, event) == told'[r] = Append(told[r], event)
TellsNothing(r) == told'[r] = told[r]

\* A message is posted; an idle daemon takes the run at once.
Create(r) ==
    stage[r] = "new" /\ stage'[r] \in {"queued", "assigned"} /\ Tells(r, "run.queued")

Take(r) == stage[r] = "queued" /\ stage'[r] = "assigned" /\ TellsNothing(r)

\* The run has been delivered to its daemon.
Deliver(r) ==
    /\ stage[r] = "assigned" /\ told[r] = <<"run.queued">>
    /\ stage'[r] = "assigned" /\ Tells(r, "run.started")

\* The daemon has begun to work on it.
Accept(r) ==
    /\ stage[r] = "assigned" /\ told[r] = <<"run.queued", "run.started">>
    /\ stage'[r] = "running" /\ Tells(r, "run.accepted")

CancelWaiting(r) ==
    stage[r] = "queued" /\ stage'[r] = "cancelled" /\ Tells(r, "run.completed")

\* The daemon reports the end of a run it has accepted.
Complete(r) ==
    /\ stage[r] = "running"
    /\ stage'[r] \in {"completed", "cancelled"} /\ Tells(r, "run.completed")

Fail(r) ==
    /\ stage[r] \in {"assigned", "running"}
    /\ stage'[r] \in {"failed", "executor_disconnected"} /\ Tells(r, "run.error")

\* An ended run is forgotten together with its events.
Forget(r) ==
    stage[r] \in TerminalStages /\ stage'[r] = "forgotten" /\ told'[r] = <<>>

Stutter(r) == stage'[r] = stage[r] /\ TellsNothing(r)

Next ==
    /\ stage' \in [Runs -> {"new", "queued", "assigned", "running", "forgotten"}
                           \union TerminalStages]
    /\ DOMAIN told' = Runs
    /\ \A r \in Runs :
          \/ Create(r) \/ Take(r) \/ Deliver(r) \/ Accept(r) \/ CancelWaiting(r)
          \/ Complete(r) \/ Fail(r) \/ Forget(r) \/ Stutter(r)

Spec == Init /\ [][Next]_vars
=============================================================================
