---------------------------- MODULE MCRemoteCalls ----------------------------
(* RemoteCalls for TLC: a handler that syncs and one that may sync, too. *)
EXTENDS RemoteCalls, TLC

CONSTANTS h1, h2

SyncOrAnother == (h1 :> {"sync"}) @@ (h2 :> {"sync", "create", "search"})
=============================================================================
