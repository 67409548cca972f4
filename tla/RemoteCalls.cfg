\* Two handlers that share a sync, create or search, on a daemon that connects twice:
\* they are cancelled, time out, are answered late or lose their connection.
SPECIFICATION FairSpec
CONSTANTS
    h1 = h1
    h2 = h2
    Calls = {h1, h2}
    KindsOf <- SyncOrAnother
    NoCall = NoCall
    MaxConns = 2
INVARIANTS
    CallsOK
    SharersKeepTheirRequest
    OneSyncInFlight
PROPERTIES
    LostConnectionFailsCall
    StatusFollowsConnection
CHECK_DEADLOCK FALSE
