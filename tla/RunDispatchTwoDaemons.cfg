\* A session on each of two daemons.
CONSTANTS
    s1 = s1
    s2 = s2
    d1 = d1
    d2 = d2
    MaxRuns = 2
    Sessions = {s1, s2}
    Daemons = {d1, d2}
    NoSession = NoSession
    NoDaemon = NoDaemon
    Host <- TwoHosts
    MaxLocalRuns = 1
    MaxConns = 1
    SendMaySuspend = FALSE
SPECIFICATION Spec
INVARIANTS
    QueuedRunsWait
    OwnDaemonOnly
    NoIdleDaemonWithWaitingRun
CHECK_DEADLOCK FALSE
