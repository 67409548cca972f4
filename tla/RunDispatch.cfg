\* Two runs of one session on a daemon that connects twice, sends that return at once.
CONSTANTS
    s1 = s1
    s2 = s2
    d1 = d1
    d2 = d2
    MaxRuns = 2
    Sessions = {s1}
    Daemons = {d1}
    NoSession = NoSession
    NoDaemon = NoDaemon
    Host <- OneHost1
    MaxLocalRuns = 1
    MaxConns = 2
    SendMaySuspend = FALSE
SPECIFICATION FairSpec
INVARIANTS
    TypeOK
    BusyWithActiveRun
    ActiveSessionHasActiveRun
    EndedRunsAreShed
PROPERTIES
    ImplementsLifecycle
    DisconnectedRunEnds
    AnsweredRunEnds
CHECK_DEADLOCK FALSE
