---------------------------- MODULE MCAcpClient ------------------------------
(* AcpClient for TLC: two runs and a sync of one session, and a create.       *)
EXTENDS AcpClient

CONSTANTS run1, run2, sync1, create1, s1, s2

TaskKind ==
    [t \in Tasks |-> CASE t \in {run1, run2} -> "run"
                       [] t = sync1 -> "sync"
                       [] OTHER -> "create"]

TaskSession == [t \in Tasks |-> IF t = create1 THEN s2 ELSE s1]
=============================================================================
