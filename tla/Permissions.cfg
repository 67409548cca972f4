\* A run whose agent asks twice, with ids that may be reused, one user and a connector
\* that reconnects once.
SPECIFICATION FairSpec
CONSTANTS
    Runs = {r1}
    Approvals = {a, b}
    Options = {allow}
    Cancelled = Cancelled
    Users = {u1}
    MaxAsks = 2
    MaxConns = 2
    SendMaySuspend = FALSE
INVARIANTS
    PermissionsOK
    WaiterCanBeAnswered
    AgentActsOnRecord
PROPERTIES
    DecisionIsForThisAsk
    CancelAnswersWaiter
CHECK_DEADLOCK FALSE
