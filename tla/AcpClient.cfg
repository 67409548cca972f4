\* Two runs and a sync of a session, and a create, share an agent that may fail and exit.
SPECIFICATION FairSpec
CONSTANTS
    run1 = run1
    run2 = run2
    sync1 = sync1
    create1 = create1
    s1 = s1
    s2 = s2
    Tasks = {run1, run2, sync1, create1}
    Kind <- TaskKind
    SessionOf <- TaskSession
    Sessions = {s1, s2}
    NoReplay = NoReplay
    MaxProcs = 2
    MaxUpdates = 1
INVARIANTS
    AgentOK
    PromptedIsOpen
PROPERTIES
    ResetSparesOthers
    SetupFailureReplacesAgent
CHECK_DEADLOCK FALSE
