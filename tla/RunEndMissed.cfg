CONSTANTS
    Runs = {r1}
    NoRun = NoRun
    Subscribers = {s1}
    QueueMaxsize = 2
    MaxKept = 3
    MaxEvents = 3
    EmittedTypes <- MCEmittedTypes
SPECIFICATION StreamSpec
INVARIANTS
    EndIsPushed
CHECK_DEADLOCK FALSE
