---------------------------- MODULE MCRunDispatch ----------------------------
(* Values for model checking RunDispatch. *)
EXTENDS RunDispatch, TLC

CONSTANTS s1, s2, d1, d2

\* One session, or two, on one daemon.
OneHost1 == s1 :> d1
OneHost == (s1 :> d1) @@ (s2 :> d1)
\* A session on each of two daemons.
TwoHosts == (s1 :> d1) @@ (s2 :> d2)
=============================================================================
