\* One request, and two users who decide it differently; a send may suspend.
SPECIFICATION Spec
CONSTANTS
    Runs = {r1}
    Approvals = {a}
    Options = {allow, reject}
    Cancelled = Cancelled
    Users = {u1, u2}
    MaxAsks = 1
    MaxConns = 1
    SendMaySuspend = TRUE
INVARIANTS
    AgentActsOnRecord
CHECK_DEADLOCK FALSE
