\* Seven settings of an old session and a created one.
SPECIFICATION Spec
CONSTANTS
    old = old
    new = new
    d1 = d1
    d2 = d2
    c1 = c1
    c2 = c2
    c3 = c3
    Sessions = {old, new}
    Preexisting = {old}
    Daemons = {d1, d2}
    Flaky = {d1}
    Calls = {c1, c2, c3}
    Settings <- SevenSettings
    NoRow = NoRow
    NoCache = NoCache
    MaxRuns = 2
INVARIANTS
    IndexOK
    EachTurnShownOnce
PROPERTIES
    RefreshKeepsStatus
    OnlyItsDaemonRemovesRow
CHECK_DEADLOCK FALSE
