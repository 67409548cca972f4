\* Two sessions and a run, reads that are slow or fail once.
SPECIFICATION LiveSpec
CONSTANTS
    Sessions = {s1, s2}
    Runs = {r1}
    None = None
    MaxEvents = 2
    Requests = {q1, q2}
    MaxFailures = 1
INVARIANTS
    ChatInv
PROPERTIES
    ViewCatchesUp
    EndedRunIsReleased
CHECK_DEADLOCK FALSE
