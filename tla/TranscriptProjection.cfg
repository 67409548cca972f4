\* Runs of five events of all kinds, of which four are kept and one is missed, and replays of six updates.
SPECIFICATION Spec
CONSTANTS
    Approvals <- TwoApprovals
    MaxEvents = 4
    MaxLog = 5
    MaxReplay = 6
    MaxMissed = 1
    AskAgain = FALSE
INVARIANTS
    RunProjectionOK
    CardsDivide
    LiveShowsSame
    ReplayProjectionOK
CHECK_DEADLOCK FALSE
