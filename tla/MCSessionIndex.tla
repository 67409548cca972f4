--------------------------- MODULE MCSessionIndex ----------------------------
(* SessionIndex for TLC: an old session and one that the user creates, on one *)
(* daemon or two, and two or three calls.                                     *)
EXTENDS SessionIndex

CONSTANTS old, new, d1, d2, c1, c2, c3

OneHost == [s \in Sessions |-> {d1}]
TwoHosts == [s \in Sessions |-> IF s = old THEN {d1} ELSE {d2}]
SharedByTwo == [s \in Sessions |-> IF s = old THEN {d1, d2} ELSE {d2}]
Made(k1, k2, k3) ==
    [c \in Calls |-> CASE c = c1 -> k1 [] c = c2 -> k2 [] c = c3 -> k3]
Setting(hosts, kinds, sessions) == [hosts |-> hosts, kind |-> kinds, session |-> sessions]

\* A transcript of the old session beside a list and a message, or two messages; on
\* two daemons, a list or a transcript beside a message; and the old session listed
\* by both daemons.
SevenSettings ==
    {Setting(OneHost, Made("list", "load", "send"), Made(old, old, old)),
     Setting(OneHost, Made("load", "send", "send"), Made(old, old, old)),
     Setting(TwoHosts, Made("list", "send", "none"), Made(old, old, old)),
     Setting(TwoHosts, Made("load", "send", "none"), Made(old, new, old)),
     Setting(SharedByTwo, Made("list", "send", "none"), Made(old, old, old)),
     Setting(SharedByTwo, Made("load", "send", "none"), Made(old, old, old)),
     Setting(SharedByTwo, Made("send", "send", "none"), Made(old, old, old))}
=============================================================================
