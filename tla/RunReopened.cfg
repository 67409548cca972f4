CONSTANTS
    s1 = s1
    s2 = s2
    d1 = d1
    d2 = d2
    MaxRuns = 1
    Sessions = {s1}
    Daemons = {d1}
    NoSession = NoSession
    NoDaemon = NoDaemon
    Host <- OneHost1
    MaxLocalRuns = 1
    MaxConns = 1
    SendMaySuspend = TRUE
SPECIFICATION Spec
PROPERTIES
    TerminalIsFinal
CHECK_DEADLOCK FALSE
