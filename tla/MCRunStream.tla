----------------------------- MODULE MCRunStream -----------------------------
(* Values for model checking RunStream: the first and the last event of a    *)
(* run, an update that is coalesced, and permissions decided late.  *)
EXTENDS RunStream

MCEmittedTypes ==
    {"run.queued", "run.session_update", "run.permission.requested",
     "run.permission.decision", "run.completed"}
=============================================================================
