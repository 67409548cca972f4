\* One subscriber reads the stream of a run of six events from a queue of two.
CONSTANTS
    Runs = {r1}
    NoRun = NoRun
    Subscribers = {s1}
    QueueMaxsize = 2
    MaxKept = 3
    MaxEvents = 6
    EmittedTypes <- MCEmittedTypes
SPECIFICATION StreamSpec
INVARIANTS
    QueuesOK
    CriticalLostOnlyToNewerCritical
    StreamInOrder
    CriticalShown
PROPERTIES
    StreamOfLiveRunEnds
CHECK_DEADLOCK FALSE
