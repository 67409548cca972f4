-------------------------- MODULE PermissionsProofs --------------------------
(* The safety properties of Permissions, proved for every set of runs, tool  *)
(* calls, options and users, and every bound on asks and connections.        *)
EXTENDS Permissions, SequenceTheorems, TLAPS

(***************************************************************************)
(* The invariant that holds however sends are scheduled: types, and what   *)
(* the connector keeps about the runs it prompts.                          *)
(***************************************************************************)

DownMessage ==
    [type : {"run.assign", "run.cancel"}, run : Runs]
      \union [type : {"run.permission.decision"}, key : Keys, decision : Decisions, ask : Asks]
UpMessage ==
    [type : {"run.ended"}, run : Runs]
      \union [type : {"run.permission.requested"}, key : Keys, decision : {Cancelled},
              ask : Asks]

In(channel) == {channel[i] : i \in DOMAIN channel}

\* Every two messages of a channel, the earlier first, are in a relation.
Pairwise(channel, R) ==
    \A i, j \in DOMAIN channel : i < j => <<channel[i], channel[j]>> \in R

\* No run is assigned twice.
AssignedApart ==
    {p \in DownMessage \X DownMessage :
        (p[1].type = "run.assign" /\ p[2].type = "run.assign") => p[1].run # p[2].run}

RunInv(r) ==
    /\ run_conn[r] <= conn
    /\ run_status[r] = "queued" =>
          prompt[r] = "none" /\ RunMessage("run.assign", r) \notin In(down)
    /\ RunMessage("run.assign", r) \in In(down) => prompt[r] = "none"
    /\ (prompt[r] = "prompting" /\ run_conn[r] = conn /\ listening) => r \in active_runs

WaiterInv(k) ==
    Waiting(k) => /\ k \in futures /\ RunOf(k) \in active_runs
                  /\ prompt[RunOf(k)] = "prompting"
                  /\ listening /\ run_conn[RunOf(k)] = conn

ConnectorInv ==
    /\ PermissionsTypeOK /\ ShownIsStored
    /\ down \in Seq(DownMessage) /\ up \in Seq(UpMessage)
    /\ link = "up" => listening
    /\ Pairwise(down, AssignedApart)
    /\ \A r \in Runs : RunInv(r)
    /\ \A k \in Keys : WaiterInv(k)

(***************************************************************************)
(* The invariant while no send suspends.                                   *)
(***************************************************************************)

\* The decisions for a key on the way to the connector, and the requests for it
\* on the way to the backend.
DecisionsFor(k) == {m \in In(down) : m.type = "run.permission.decision" /\ m.key = k}
RequestsFor(k) == {m \in In(up) : m.type = "run.permission.requested" /\ m.key = k}

\* A handler that has sent a decision for the key and not recorded it.
Recording(k) == {u \in Users : handler[u] # Idle /\ handler[u].key = k /\ ~handler[u].doomed}

\* Two decisions for a key are for different asks, and of two requests the
\* later one is for the later ask.
DecidedApart ==
    {p \in DownMessage \X DownMessage :
        (/\ p[1].type = "run.permission.decision" /\ p[2].type = "run.permission.decision"
         /\ p[1].key = p[2].key) => p[1].ask # p[2].ask}
RequestedInOrder ==
    {p \in UpMessage \X UpMessage :
        (/\ p[1].type = "run.permission.requested" /\ p[2].type = "run.permission.requested"
         /\ p[1].key = p[2].key) => p[1].ask < p[2].ask}

\* What is over, and what was asked of a run.
EndInv(r) ==
    /\ run_status[r] \in {"ended", "removed"} => ~IsUp(run_conn[r]) \/ prompt[r] = "done"
    /\ RunMessage("run.ended", r) \in In(up) => prompt[r] = "done"
    /\ RunMessage("run.cancel", r) \in In(down) => r \in cancelled

HandlerInv(u) ==
    handler[u] # Idle =>
        /\ permission_requests[handler[u].key] = [status |-> Pending, ask |-> handler[u].ask]
        /\ handler[u].doomed => link = "closed"
        /\ \A v \in Users : handler[v] # Idle => v = u

\* The numbers of the asks: a request is newer than the row it will overwrite
\* and than every decision on the way.
NumbersInv(k) ==
    /\ permission_requests[k].ask <= asked[k]
    /\ permission_requests[k] = NoRow \/ permission_requests[k].ask >= 1
    /\ \A m \in RequestsFor(k) : /\ permission_requests[k].ask < m.ask
                                 /\ m.ask <= asked[k]
    /\ \A m \in DecisionsFor(k) : /\ 1 <= m.ask /\ m.ask <= asked[k]
                                  /\ \A m2 \in RequestsFor(k) : m.ask < m2.ask

\* Nothing is known of a key of a run that is not prompted yet.
FreshInv(k) ==
    prompt[RunOf(k)] \in {"none", "assigned"} =>
        /\ asked[k] = 0 /\ permission_requests[k] = NoRow
        /\ DecisionsFor(k) = {} /\ RequestsFor(k) = {}

\* A decision that was sent is the one in the row, or will be.
RecordedInv(k) ==
    \A m \in DecisionsFor(k) : m.ask = permission_requests[k].ask =>
        \/ permission_requests[k].status = m.decision
        \/ \E u \in Recording(k) : handler[u].decision = m.decision

\* The agent of a run that nobody cancels is still there.
Attended(k) ==
    /\ RunOf(k) \notin cancelled /\ prompt[RunOf(k)] = "prompting"
    /\ listening /\ run_conn[RunOf(k)] = conn

\* What is on the way for an ask is for the one the agent waits for.
AttendedInv(k) ==
    Attended(k) =>
        /\ \A m \in DecisionsFor(k) : Waiting(k) /\ m.ask = asked[k]
        /\ link = "up" =>
              /\ permission_requests[k].status = Pending =>
                    \/ Recording(k) # {}
                    \/ /\ Waiting(k) /\ permission_requests[k].ask = asked[k]
                       /\ DecisionsFor(k) = {}
              /\ \A m \in RequestsFor(k) :
                    Waiting(k) /\ m.ask = asked[k] /\ DecisionsFor(k) = {}

\* What the agent was allowed is in the row, or will be; a request on the way is
\* for an ask that was not allowed.
AnsweredInv(k) ==
    RunOf(k) \notin cancelled =>
        \A n \in DOMAIN answered[k] : answered[k][n] # Cancelled =>
            /\ n = permission_requests[k].ask =>
                  \/ permission_requests[k].status = answered[k][n]
                  \/ \E u \in Recording(k) : handler[u].decision = answered[k][n]
            /\ \A m \in RequestsFor(k) : m.ask # n

\* The answer to an agent that waits can still come.
ComingInv(k) ==
    (Waiting(k) /\ IsUp(run_conn[RunOf(k)])) =>
        \/ \E m \in RequestsFor(k) : m.ask = asked[k]
        \/ /\ permission_requests[k] = [status |-> Pending, ask |-> asked[k]]
           /\ Recording(k) = {}
        \/ DecisionsFor(k) # {}

KeyInv(k) ==
    /\ NumbersInv(k) /\ FreshInv(k) /\ RecordedInv(k)
    /\ AttendedInv(k) /\ AnsweredInv(k) /\ ComingInv(k)

AnswerInv ==
    /\ ConnectorInv
    /\ Pairwise(down, DecidedApart) /\ Pairwise(up, RequestedInOrder)
    /\ \A c \in unregistering : c <= conn /\ ~IsUp(c)
    /\ \A r \in Runs : EndInv(r)
    /\ \A u \in Users : HandlerInv(u)
    /\ \A k \in Keys : KeyInv(k)
-----------------------------------------------------------------------------
(* Channels. *)

LEMMA NoMessages ==
    ASSUME NEW S, NEW R
    PROVE  <<>> \in Seq(S) /\ In(<<>>) = {} /\ Pairwise(<<>>, R)
    BY DEF In, Pairwise

\* What is sent is the last of the channel.
LEMMA Sent ==
    ASSUME NEW S, NEW c \in Seq(S), NEW m \in S
    PROVE  /\ Append(c, m) \in Seq(S)
           /\ In(Append(c, m)) = In(c) \union {m}
           /\ \A R : (Pairwise(c, R) /\ \A x \in In(c) : <<x, m>> \in R)
                        => Pairwise(Append(c, m), R)
<1>1. /\ Len(c) \in Nat /\ DOMAIN c = 1 .. Len(c)
      /\ Append(c, m) \in Seq(S)
      /\ DOMAIN Append(c, m) = 1 .. Len(c) + 1
      /\ \A i \in 1 .. Len(c) : Append(c, m)[i] = c[i]
      /\ Append(c, m)[Len(c) + 1] = m
    BY AppendProperties, LenProperties
<1> DEFINE a == Append(c, m)
<1> HIDE DEF a
<1>2. In(a) = In(c) \union {m}
    <2>1. DOMAIN a = DOMAIN c \union {Len(c) + 1}
        BY <1>1 DEF a
    <2>2. (\A i \in DOMAIN c : a[i] = c[i]) /\ a[Len(c) + 1] = m
        BY <1>1 DEF a
    <2> QED
        BY <2>1, <2>2 DEF In
<1>3. ASSUME NEW R, Pairwise(c, R), \A x \in In(c) : <<x, m>> \in R
      PROVE  Pairwise(a, R)
    <2>1. ASSUME NEW i \in DOMAIN a, NEW j \in DOMAIN a, i < j
          PROVE  <<a[i], a[j]>> \in R
        <3>1. i \in DOMAIN c /\ a[i] = c[i] /\ c[i] \in In(c)
            BY <1>1, <2>1 DEF a, In
        <3>2. CASE j = Len(c) + 1
            BY <1>1, <1>3, <3>1, <3>2 DEF a
        <3>3. CASE j # Len(c) + 1
            <4>1. j \in DOMAIN c /\ a[j] = c[j]
                BY <1>1, <2>1, <3>3 DEF a
            <4> QED
                BY <1>3, <2>1, <3>1, <4>1 DEF Pairwise
        <3> QED
            BY <3>2, <3>3
    <2> QED
        BY <2>1 DEF Pairwise
<1> QED
    BY <1>1, <1>2, <1>3 DEF a

\* What is read is the first of it.
LEMMA Taken ==
    ASSUME NEW S, NEW c \in Seq(S), c # <<>>
    PROVE  /\ Tail(c) \in Seq(S) /\ Head(c) \in S /\ Head(c) \in In(c)
           /\ In(Tail(c)) \subseteq In(c)
           /\ In(c) \subseteq In(Tail(c)) \union {Head(c)}
           /\ \A R : Pairwise(c, R) =>
                 Pairwise(Tail(c), R) /\ \A x \in In(Tail(c)) : <<Head(c), x>> \in R
<1>1. /\ Len(c) \in Nat \ {0} /\ DOMAIN c = 1 .. Len(c)
      /\ Head(c) = c[1] /\ Head(c) \in S
      /\ Tail(c) \in Seq(S) /\ Len(Tail(c)) = Len(c) - 1
      /\ DOMAIN Tail(c) = 1 .. Len(c) - 1
      /\ \A i \in 1 .. Len(c) - 1 : Tail(c)[i] = c[i + 1]
    <2>1. Tail(c) \in Seq(S) /\ Len(Tail(c)) = Len(c) - 1
        BY HeadTailProperties
    <2> QED
        BY <2>1, LenProperties, HeadTailProperties, EmptySeq
<1> DEFINE t == Tail(c)
           h == Head(c)
<1> HIDE DEF t, h
<1>2. \A i \in DOMAIN t : i + 1 \in DOMAIN c /\ t[i] = c[i + 1] /\ 1 < i + 1
    BY <1>1 DEF t
<1>3. 1 \in DOMAIN c /\ h = c[1]
    BY <1>1 DEF h
<1>4. \A i \in DOMAIN c : i = 1 \/ (i - 1 \in DOMAIN t /\ t[i - 1] = c[i])
    BY <1>1 DEF t
<1>5. In(t) \subseteq In(c) /\ h \in In(c)
    BY <1>2, <1>3 DEF In
<1>6. In(c) \subseteq In(t) \union {h}
    BY <1>3, <1>4 DEF In
<1>7. ASSUME NEW R, Pairwise(c, R)
      PROVE  Pairwise(t, R) /\ \A x \in In(t) : <<h, x>> \in R
    <2>1. ASSUME NEW i \in DOMAIN t, NEW j \in DOMAIN t, i < j
          PROVE  <<t[i], t[j]>> \in R
        <3>1. i + 1 < j + 1
            BY <1>1, <2>1 DEF t
        <3>2. /\ i + 1 \in DOMAIN c /\ t[i] = c[i + 1]
              /\ j + 1 \in DOMAIN c /\ t[j] = c[j + 1]
            BY <1>2
        <3> QED
            BY <1>7, <3>1, <3>2 DEF Pairwise
    <2>2. \A i \in DOMAIN t : <<h, t[i]>> \in R
        BY <1>2, <1>3, <1>7 DEF Pairwise
    <2> QED
        BY <2>1, <2>2 DEF Pairwise, In
<1> QED
    BY <1>1, <1>5, <1>6, <1>7 DEF t, h
-----------------------------------------------------------------------------
(* Types. *)

\* A key, its run, and what its row, its handler and its messages are.
LEMMA KeyFacts ==
    ASSUME NEW k \in Keys
    PROVE  RunOf(k) \in Runs /\ k # <<>>
    BY DEF Keys, RunOf

LEMMA Settings ==
    /\ MaxAsks \in Nat /\ MaxConns \in Nat \ {0} /\ SendMaySuspend \in BOOLEAN
    /\ Cancelled \notin Options /\ Cancelled \in Decisions /\ Pending \notin Decisions
    /\ Asks \subseteq Nat /\ Asks = 0 .. MaxAsks
    BY PermissionsAssumption DEF Decisions, Asks

LEMMA Messages ==
    /\ \A r \in Runs : RunMessage("run.assign", r) \in DownMessage
    /\ \A r \in Runs : RunMessage("run.cancel", r) \in DownMessage
    /\ \A r \in Runs : RunMessage("run.ended", r) \in UpMessage
    /\ \A k \in Keys, d \in Decisions, n \in Asks :
          Message("run.permission.decision", k, d, n) \in DownMessage
    /\ \A k \in Keys, n \in Asks :
          Message("run.permission.requested", k, Cancelled, n) \in UpMessage
    BY DEF RunMessage, Message, DownMessage, UpMessage

\* What is asked and answered of a key.
AskTypes(k) ==
    /\ asked[k] \in Asks /\ answered[k] \in Seq(Decisions)
    /\ Len(answered[k]) \in {asked[k], asked[k] - 1}

LEMMA AskFacts ==
    ASSUME NEW k \in Keys, AskTypes(k)
    PROVE  /\ asked[k] \in Nat /\ Len(answered[k]) \in Nat
           /\ DOMAIN answered[k] = 1 .. Len(answered[k])
           /\ Waiting(k) => Len(answered[k]) = asked[k] - 1
           /\ ~Waiting(k) => Len(answered[k]) = asked[k]
<1>1. asked[k] \in Nat /\ Len(answered[k]) \in Nat
      /\ DOMAIN answered[k] = 1 .. Len(answered[k])
    BY LenProperties, Settings DEF AskTypes
<1> QED
    BY <1>1 DEF AskTypes, Waiting, WaitingFor

\* An answer to an agent that waits: it waits no longer.
LEMMA AnswerFacts ==
    ASSUME NEW ks, NEW d \in Decisions,
           NEW k \in Keys, AskTypes(k), k \in ks => Waiting(k),
           answered' = Answer(answered, ks, d), asked' = asked
    PROVE  /\ AskTypes(k)'
           /\ k \in ks => /\ ~Waiting(k)' /\ answered'[k] = Append(answered[k], d)
                          /\ asked[k] = Len(answered[k]) + 1
                          /\ DOMAIN answered'[k] = DOMAIN answered[k] \union {asked[k]}
                          /\ answered'[k][asked[k]] = d
                          /\ \A n \in DOMAIN answered[k] : answered'[k][n] = answered[k][n]
           /\ k \notin ks => answered'[k] = answered[k]
<1>1. answered'[k] = IF k \in ks THEN Append(answered[k], d) ELSE answered[k]
    BY DEF Answer
<1>2. CASE k \notin ks
    BY <1>1, <1>2 DEF AskTypes
<1>3. CASE k \in ks
    <2> DEFINE a == Append(answered[k], d)
    <2>1. /\ asked[k] \in Nat /\ Len(answered[k]) \in Nat
          /\ asked[k] = Len(answered[k]) + 1
          /\ DOMAIN answered[k] = 1 .. Len(answered[k])
        BY <1>3, AskFacts
    <2>2. /\ a \in Seq(Decisions) /\ Len(a) = Len(answered[k]) + 1
          /\ DOMAIN a = 1 .. Len(answered[k]) + 1
          /\ \A n \in 1 .. Len(answered[k]) : a[n] = answered[k][n]
          /\ a[Len(answered[k]) + 1] = d
        BY AppendProperties, LenProperties DEF AskTypes
    <2>3. a = answered'[k]
        BY <1>1, <1>3
    <2> HIDE DEF a
    <2>4. AskTypes(k)'
        BY <2>1, <2>2, <2>3 DEF AskTypes
    <2>5. ~Waiting(k)'
        BY <2>1, <2>2, <2>3 DEF Waiting, WaitingFor
    <2>6. DOMAIN a = DOMAIN answered[k] \union {asked[k]} /\ a[asked[k]] = d
        BY <2>1, <2>2
    <2>7. \A n \in DOMAIN answered[k] : a[n] = answered[k][n]
        BY <2>1, <2>2
    <2> QED
        BY <1>3, <2>1, <2>3, <2>4, <2>5, <2>6, <2>7 DEF a
<1> QED
    BY <1>2, <1>3

\* PermissionsTypeOK in parts.
BackendTypes ==
    /\ run_status \in [Runs -> {"queued", "running", "ended", "removed"}]
    /\ permission_requests \in [Keys -> Row \union {NoRow}]
    /\ shown \in [Keys -> {"none", Pending} \union Decisions]
    /\ handler \in [Users -> Handler \union {Idle}]
    /\ registered \in {0, conn} /\ conn \in 1 .. MaxConns
    /\ link \in {"up", "closed"}
    /\ unregistering \subseteq 1 .. MaxConns
    /\ run_conn \in [Runs -> 0 .. MaxConns] /\ cancelled \subseteq Runs
ConnectorTypes ==
    /\ listening \in BOOLEAN
    /\ prompt \in [Runs -> {"none", "assigned", "prompting", "done"}]
    /\ active_runs \subseteq Runs /\ futures \subseteq Keys
    /\ asked \in [Keys -> Asks]
    /\ \A k \in Keys : AskTypes(k)

LEMMA TypeParts == PermissionsTypeOK <=> BackendTypes /\ ConnectorTypes
<1>1. PermissionsTypeOK => BackendTypes
    BY DEF PermissionsTypeOK, BackendTypes
<1>2. PermissionsTypeOK => ConnectorTypes
    BY DEF PermissionsTypeOK, ConnectorTypes, AskTypes
<1>3. BackendTypes /\ ConnectorTypes => PermissionsTypeOK
    BY DEF PermissionsTypeOK, BackendTypes, ConnectorTypes, AskTypes
<1> QED
    BY <1>1, <1>2, <1>3
-----------------------------------------------------------------------------
(* The connector's invariant. *)

LEMMA ConnectorFacts ==
    ASSUME ConnectorInv
    PROVE  /\ BackendTypes /\ ConnectorTypes /\ ShownIsStored
           /\ down \in Seq(DownMessage) /\ up \in Seq(UpMessage)
           /\ link = "up" => listening
           /\ Pairwise(down, AssignedApart)
           /\ \A r \in Runs : RunInv(r)
           /\ \A k \in Keys : WaiterInv(k)
    BY TypeParts DEF ConnectorInv

LEMMA ConnectorParts ==
    ASSUME BackendTypes', ConnectorTypes', ShownIsStored',
           down' \in Seq(DownMessage), up' \in Seq(UpMessage),
           link' = "up" => listening', Pairwise(down', AssignedApart),
           \A r \in Runs : RunInv(r)', \A k \in Keys : WaiterInv(k)'
    PROVE  ConnectorInv'
<1>1. (BackendTypes /\ ConnectorTypes => PermissionsTypeOK)'
    BY TypeParts, PTL
<1> QED
    BY <1>1 DEF ConnectorInv

\* A step that assigns no run and leaves the connector and the agent alone.
LEMMA BackendStepKeeps ==
    ASSUME ConnectorInv, BackendTypes', ShownIsStored',
           down' \in Seq(DownMessage), up' \in Seq(UpMessage),
           Pairwise(down', AssignedApart),
           UNCHANGED <<run_conn, connectorVars, agentVars, conn, link>>,
           \A r \in Runs : RunMessage("run.assign", r) \in In(down') =>
                               RunMessage("run.assign", r) \in In(down),
           \A r \in Runs : run_status'[r] = "queued" => run_status[r] = "queued"
    PROVE  ConnectorInv'
<1>1. /\ listening' = listening /\ prompt' = prompt /\ active_runs' = active_runs
      /\ futures' = futures /\ asked' = asked /\ answered' = answered
      /\ run_conn' = run_conn /\ conn' = conn /\ link' = link
    BY DEF connectorVars, agentVars
<1>2. ConnectorTypes'
    BY <1>1, ConnectorFacts DEF ConnectorTypes, AskTypes
<1>3. \A r \in Runs : RunInv(r)'
    BY <1>1, ConnectorFacts DEF RunInv
<1>4. \A k \in Keys : WaiterInv(k)'
    BY <1>1, ConnectorFacts DEF WaiterInv, Waiting
<1>5. link' = "up" => listening'
    BY <1>1, ConnectorFacts
<1> QED
    BY <1>2, <1>3, <1>4, <1>5, ConnectorParts

\* dispatch_pending
LEMMA AssignKeeps ==
    ASSUME ConnectorInv, NEW r \in Runs, AssignRun(r)
    PROVE  ConnectorInv'
<1> DEFINE m == RunMessage("run.assign", r)
<1>1. /\ registered # 0 /\ link = "up" /\ run_status[r] = "queued"
      /\ run_conn' = [run_conn EXCEPT ![r] = registered]
      /\ run_status' = [run_status EXCEPT ![r] = "running"]
      /\ down' = Append(down, m)
      /\ UNCHANGED <<permission_requests, shown, handler, registered, unregistering,
                     cancelled, connectorVars, agentVars, conn, link, up>>
    BY DEF AssignRun
<1>2. /\ listening' = listening /\ prompt' = prompt /\ active_runs' = active_runs
      /\ futures' = futures /\ asked' = asked /\ answered' = answered
    BY <1>1 DEF connectorVars, agentVars
<1>3. m \in DownMessage /\ m.type = "run.assign" /\ m.run = r
    BY Messages DEF RunMessage
<1>4. /\ BackendTypes /\ ConnectorTypes /\ down \in Seq(DownMessage) /\ RunInv(r)
      /\ Pairwise(down, AssignedApart)
    BY ConnectorFacts
<1>5. m \notin In(down) /\ prompt[r] = "none" /\ registered = conn
    BY <1>1, <1>4 DEF RunInv, BackendTypes
<1> HIDE DEF m
<1>6. down' \in Seq(DownMessage) /\ In(down') = In(down) \union {m}
    BY <1>1, <1>3, <1>4, Sent
<1>7. \A x \in In(down) : <<x, m>> \in AssignedApart
    <2>1. \A x \in In(down) : x \in DownMessage
        BY <1>4, ElementOfSeq, LenProperties DEF In
    <2>2. ASSUME NEW x \in In(down), x.type = "run.assign"
          PROVE  x.run # r
        <3>1. x \in DownMessage
            BY <2>1
        <3>2. x = RunMessage("run.assign", x.run)
            BY <2>2, <3>1 DEF DownMessage, RunMessage
        <3> QED
            BY <1>5, <3>2 DEF m
    <2> QED
        BY <1>3, <2>1, <2>2 DEF AssignedApart
<1>8. Pairwise(down', AssignedApart)
    BY <1>1, <1>3, <1>4, <1>7, Sent
<1>9. BackendTypes'
    BY <1>1, <1>4, <1>5, Settings DEF BackendTypes
<1>10. ConnectorTypes'
    BY <1>2, <1>4 DEF ConnectorTypes, AskTypes
<1>11. ASSUME NEW q \in Runs
       PROVE  RunInv(q)'
    <2>1. RunInv(q)
        BY ConnectorFacts
    <2>2. CASE q = r
        BY <1>1, <1>2, <1>4, <1>5, <2>2, Settings DEF RunInv, BackendTypes
    <2>3. CASE q # r
        <3>1. run_conn'[q] = run_conn[q] /\ run_status'[q] = run_status[q] /\ conn' = conn
            BY <1>1, <1>4, <2>3 DEF BackendTypes
        <3>2. RunMessage("run.assign", q) # m
            BY <2>3 DEF RunMessage, m
        <3> QED
            BY <1>2, <1>6, <2>1, <3>1, <3>2 DEF RunInv
    <2> QED
        BY <2>2, <2>3
<1>12. ASSUME NEW k \in Keys
       PROVE  WaiterInv(k)'
    <2>1. WaiterInv(k) /\ RunOf(k) \in Runs
        BY ConnectorFacts, KeyFacts
    <2>2. Waiting(k)' = Waiting(k)
        BY <1>2 DEF Waiting
    <2>3. Waiting(k) => RunOf(k) # r
        BY <1>5, <2>1 DEF WaiterInv
    <2>4. RunOf(k) # r => run_conn'[RunOf(k)] = run_conn[RunOf(k)]
        BY <1>1, <1>4, <2>1 DEF BackendTypes
    <2> QED
        BY <1>1, <1>2, <2>1, <2>2, <2>3, <2>4 DEF WaiterInv
<1>13. up' \in Seq(UpMessage) /\ ShownIsStored' /\ (link' = "up" => listening')
    BY <1>1, <1>2, ConnectorFacts DEF ShownIsStored
<1> QED
    BY <1>6, <1>8, <1>9, <1>10, <1>11, <1>12, <1>13, ConnectorParts

\* The receive loop of daemon_ws.
LEMMA BackendReadsKeeps ==
    ASSUME ConnectorInv, BackendReads
    PROVE  ConnectorInv'
<1> DEFINE m == Head(up)
<1>1. /\ up # <<>> /\ up' = Tail(up) /\ down' = down
      /\ \/ m.type = "run.permission.requested" /\ HandleRequested(m)
         \/ m.type = "run.ended" /\ HandleEnded(m)
      /\ UNCHANGED <<run_conn, handler, registered, unregistering, cancelled,
                     connectorVars, agentVars, conn, link, down>>
    BY DEF BackendReads
<1>2. BackendTypes /\ up \in Seq(UpMessage) /\ ShownIsStored
    BY ConnectorFacts
<1>3. up' \in Seq(UpMessage) /\ m \in UpMessage
    BY <1>1, <1>2, Taken
<1> HIDE DEF m
<1>4. BackendTypes' /\ ShownIsStored' /\ \A r \in Runs : run_status'[r] = "queued" => run_status[r] = "queued"
    <2>1. CASE m.type = "run.permission.requested" /\ HandleRequested(m)
        <3>1. m.key \in Keys /\ m.ask \in Asks
            BY <1>3, <2>1 DEF UpMessage
        <3> DEFINE row == [status |-> Pending, ask |-> m.ask]
        <3>2. row \in Row /\ row.status = Pending
            BY <3>1 DEF Row
        <3>3. /\ permission_requests' = [permission_requests EXCEPT ![m.key] = row]
              /\ shown' = [shown EXCEPT ![m.key] = Pending] /\ run_status' = run_status
            BY <2>1 DEF HandleRequested, CreatePermissionRequest
        <3> HIDE DEF row
        <3>4. BackendTypes'
            BY <1>1, <1>2, <3>1, <3>2, <3>3 DEF BackendTypes
        <3>5. ShownIsStored'
            BY <1>2, <3>1, <3>2, <3>3 DEF ShownIsStored, BackendTypes
        <3> QED
            BY <3>3, <3>4, <3>5
    <2>2. CASE m.type = "run.ended" /\ HandleEnded(m)
        <3>1. m.run \in Runs
            BY <1>3, <2>2 DEF UpMessage
        <3>2. /\ run_status' = [run_status EXCEPT ![m.run] = IF run_status[m.run] = "removed"
                                                            THEN run_status[m.run] ELSE "ended"]
              /\ permission_requests' = permission_requests /\ shown' = shown
            BY <2>2 DEF HandleEnded
        <3>3. BackendTypes'
            BY <1>1, <1>2, <3>1, <3>2 DEF BackendTypes
        <3> QED
            BY <1>2, <3>1, <3>2, <3>3 DEF ShownIsStored, BackendTypes
    <2> QED
        BY <1>1, <2>1, <2>2
<1>5. down' \in Seq(DownMessage) /\ Pairwise(down', AssignedApart)
    BY <1>1, ConnectorFacts
<1> QED
    BY <1>1, <1>3, <1>4, <1>5, BackendStepKeeps

\* A message other than run.assign goes down, or none.
LEMMA OtherSent ==
    ASSUME ConnectorInv, NEW m \in DownMessage, m.type # "run.assign",
           down' = Append(down, m) \/ down' = down
    PROVE  /\ down' \in Seq(DownMessage) /\ Pairwise(down', AssignedApart)
           /\ In(down) \subseteq In(down') /\ In(down') \subseteq In(down) \union {m}
           /\ \A r \in Runs : RunMessage("run.assign", r) \in In(down') =>
                                 RunMessage("run.assign", r) \in In(down)
<1>1. down \in Seq(DownMessage) /\ Pairwise(down, AssignedApart)
    BY ConnectorFacts
<1>2. \A x \in In(down) : x \in DownMessage
    BY <1>1, ElementOfSeq, LenProperties DEF In
<1>3. \A x \in In(down) : <<x, m>> \in AssignedApart
    BY <1>2 DEF AssignedApart
<1>4. \A r \in Runs : RunMessage("run.assign", r) # m
    BY DEF RunMessage
<1>5. CASE down' = Append(down, m)
    <2>1. down' \in Seq(DownMessage) /\ In(down') = In(down) \union {m}
        BY <1>1, <1>5, Sent
    <2>2. Pairwise(down', AssignedApart)
        BY <1>1, <1>3, <1>5, Sent
    <2> QED
        BY <1>4, <2>1, <2>2
<1>6. CASE down' = down
    BY <1>1, <1>6
<1> QED
    BY <1>5, <1>6

\* decide_permission up to its send.
LEMMA DecideKeeps ==
    ASSUME ConnectorInv, NEW u \in Users, NEW k \in Keys, NEW d \in Decisions,
           DecidePermission(u, k, d)
    PROVE  ConnectorInv'
<1> DEFINE n == permission_requests[k].ask
           m == Message("run.permission.decision", k, d, n)
           h == [key |-> k, decision |-> d, ask |-> n, conn |-> registered,
                 doomed |-> ~IsUp(registered)]
<1>1. /\ CanDecide(k) /\ registered # 0
      /\ handler' = [handler EXCEPT ![u] = h]
      /\ down' = Append(down, m) \/ down' = down
      /\ UNCHANGED <<run_conn, run_status, permission_requests, shown, registered, unregistering,
                     cancelled, connectorVars, agentVars, conn, link, up>>
    BY DEF DecidePermission
<1>2. BackendTypes /\ ShownIsStored /\ up \in Seq(UpMessage)
    BY ConnectorFacts
<1>3. n \in Asks
    <2>1. permission_requests[k] \in Row \union {NoRow}
        BY <1>2 DEF BackendTypes
    <2>2. NoRow.ask = 0 /\ 0 \in Asks
        BY Settings DEF NoRow
    <2> QED
        BY <2>1, <2>2 DEF Row
<1>4. m \in DownMessage /\ m.type # "run.assign"
    BY <1>3, Messages DEF Message
<1>5. h \in Handler
    <2>1. registered \in 1 .. MaxConns
        BY <1>1, <1>2 DEF BackendTypes
    <2>2. (~IsUp(registered)) \in BOOLEAN
        BY DEF IsUp
    <2> QED
        BY <1>3, <2>1, <2>2 DEF Handler
<1> HIDE DEF n, m, h
<1>6. BackendTypes'
    BY <1>1, <1>2, <1>5 DEF BackendTypes
<1>7. ShownIsStored'
    BY <1>1, <1>2 DEF ShownIsStored
<1>8. /\ down' \in Seq(DownMessage) /\ Pairwise(down', AssignedApart)
      /\ \A r \in Runs : RunMessage("run.assign", r) \in In(down') =>
                            RunMessage("run.assign", r) \in In(down)
    BY <1>1, <1>4, OtherSent
<1> QED
    BY <1>1, <1>2, <1>6, <1>7, <1>8, BackendStepKeeps

\* What mark_permission_decided does to a row that is there.
LEMMA MarkFacts ==
    ASSUME BackendTypes, NEW k \in Keys, NEW d \in Decisions,
           permission_requests[k] # NoRow
    PROVE  /\ MarkPermissionDecided(permission_requests, k, d)
                 = [permission_requests EXCEPT ![k] = [status |-> d, ask |-> permission_requests[k].ask]]
           /\ [status |-> d, ask |-> permission_requests[k].ask] \in Row
<1>1. permission_requests[k] \in Row /\ permission_requests \in [Keys -> Row \union {NoRow}]
    BY DEF BackendTypes
<1>2. [permission_requests[k] EXCEPT !.status = d] = [status |-> d, ask |-> permission_requests[k].ask]
    BY <1>1 DEF Row
<1>3. [status |-> d, ask |-> permission_requests[k].ask] \in Row
    BY <1>1 DEF Row
<1> QED
    BY <1>1, <1>2, <1>3 DEF MarkPermissionDecided

\* The send returned or raised.
LEMMA SentKeeps ==
    ASSUME ConnectorInv, NEW u \in Users, DecisionSent(u) \/ DecisionNotSent(u)
    PROVE  ConnectorInv'
<1> DEFINE k == handler[u].key
           d == handler[u].decision
<1>1. /\ handler[u] # Idle
      /\ handler' = [handler EXCEPT ![u] = Idle]
      /\ UNCHANGED <<run_conn, run_status, registered, unregistering, cancelled,
                     connectorVars, agentVars, conn, link, down, up>>
    BY DEF DecisionSent, DecisionNotSent
<1>2. BackendTypes /\ ShownIsStored
    BY ConnectorFacts
<1>3. k \in Keys /\ d \in Decisions
    BY <1>1, <1>2 DEF BackendTypes, Handler
<1>4. BackendTypes' /\ ShownIsStored'
    <2>1. CASE permission_requests' = permission_requests /\ shown' = shown
        BY <1>1, <1>2, <2>1 DEF BackendTypes, ShownIsStored
    <2>2. CASE ~ (permission_requests' = permission_requests /\ shown' = shown)
        <3> DEFINE row == [status |-> d, ask |-> permission_requests[k].ask]
        <3>1. /\ permission_requests[k] # NoRow
              /\ permission_requests' = MarkPermissionDecided(permission_requests, k, d)
              /\ shown' = [shown EXCEPT ![k] = d]
            BY <2>2 DEF DecisionSent, DecisionNotSent
        <3>2. permission_requests' = [permission_requests EXCEPT ![k] = row] /\ row \in Row
            BY <1>2, <1>3, <3>1, MarkFacts
        <3>3. row.status = d
            OBVIOUS
        <3> HIDE DEF row, k, d
        <3>4. BackendTypes'
            BY <1>1, <1>2, <1>3, <3>1, <3>2 DEF BackendTypes
        <3> QED
            BY <1>2, <1>3, <3>1, <3>2, <3>3, <3>4 DEF ShownIsStored, BackendTypes
    <2> QED
        BY <2>1, <2>2
<1>5. /\ down' \in Seq(DownMessage) /\ Pairwise(down', AssignedApart)
      /\ up' \in Seq(UpMessage) /\ In(down') = In(down)
    BY <1>1, ConnectorFacts
<1> QED
    BY <1>1, <1>4, <1>5, BackendStepKeeps

\* request_cancel
LEMMA RequestCancelKeeps ==
    ASSUME ConnectorInv, NEW r \in Runs, RequestCancel(r)
    PROVE  ConnectorInv'
<1> DEFINE m == RunMessage("run.cancel", r)
<1>1. /\ cancelled' = cancelled \union {r}
      /\ down' = Append(down, m) \/ down' = down
      /\ UNCHANGED <<run_conn, run_status, permission_requests, shown, handler, registered,
                     unregistering, connectorVars, agentVars, conn, link, up>>
    BY DEF RequestCancel
<1>2. BackendTypes /\ ShownIsStored /\ up \in Seq(UpMessage)
    BY ConnectorFacts
<1>3. m \in DownMessage /\ m.type # "run.assign"
    BY Messages DEF RunMessage
<1> HIDE DEF m
<1>4. BackendTypes' /\ ShownIsStored'
    BY <1>1, <1>2 DEF BackendTypes, ShownIsStored
<1>5. /\ down' \in Seq(DownMessage) /\ Pairwise(down', AssignedApart)
      /\ \A q \in Runs : RunMessage("run.assign", q) \in In(down') =>
                            RunMessage("run.assign", q) \in In(down)
    BY <1>1, <1>3, OtherSent
<1> QED
    BY <1>1, <1>2, <1>4, <1>5, BackendStepKeeps

\* unregister, and the removal of a run.
LEMMA UnregisterKeeps ==
    ASSUME ConnectorInv,
           \/ Unregister
           \/ \E c \in unregistering : UnregisterReturns(c)
           \/ \E r \in Runs : RemoveRun(r)
    PROVE  ConnectorInv'
<1>1. BackendTypes /\ ShownIsStored /\ up \in Seq(UpMessage)
      /\ down \in Seq(DownMessage) /\ Pairwise(down, AssignedApart)
    BY ConnectorFacts
<1>2. CASE Unregister
    <2>1. /\ registered = conn /\ registered' = 0
          /\ unregistering' = unregistering \union {registered} /\ up' = <<>>
          /\ UNCHANGED <<run_conn, run_status, permission_requests, shown, handler, cancelled,
                         connectorVars, agentVars, conn, link, down>>
        BY <1>2 DEF Unregister
    <2>2. BackendTypes' /\ ShownIsStored' /\ up' \in Seq(UpMessage)
        BY <1>1, <2>1, NoMessages DEF BackendTypes, ShownIsStored
    <2> QED
        BY <1>1, <2>1, <2>2, BackendStepKeeps
<1>3. ASSUME NEW c \in unregistering, UnregisterReturns(c)
      PROVE  ConnectorInv'
    <2>1. /\ unregistering' = unregistering \ {c}
          /\ \/ run_status' = [r \in Runs |-> IF run_status[r] = "running" /\ run_conn[r] = c
                                              THEN "ended" ELSE run_status[r]]
             \/ UNCHANGED run_status
          /\ UNCHANGED <<run_conn, permission_requests, shown, handler, registered, cancelled,
                         connectorVars, agentVars, conn, link, down, up>>
        BY <1>3 DEF UnregisterReturns
    <2>2. BackendTypes' /\ ShownIsStored'
        BY <1>1, <2>1 DEF BackendTypes, ShownIsStored
    <2> QED
        BY <1>1, <2>1, <2>2, BackendStepKeeps
<1>4. ASSUME NEW r \in Runs, RemoveRun(r)
      PROVE  ConnectorInv'
    <2>1. /\ run_status' = [run_status EXCEPT ![r] = "removed"]
          /\ permission_requests' = [k \in Keys |-> IF RunOf(k) = r THEN NoRow
                                                    ELSE permission_requests[k]]
          /\ shown' = [k \in Keys |-> IF RunOf(k) = r THEN "none" ELSE shown[k]]
          /\ UNCHANGED <<run_conn, handler, registered, unregistering, cancelled,
                         connectorVars, agentVars, conn, link, down, up>>
        BY <1>4 DEF RemoveRun
    <2>2. BackendTypes'
        BY <1>1, <2>1 DEF BackendTypes
    <2>3. ShownIsStored'
        BY <1>1, <2>1 DEF ShownIsStored, NoRow
    <2>4. \A q \in Runs : run_status'[q] = "queued" => run_status[q] = "queued"
        BY <1>1, <2>1 DEF BackendTypes
    <2> QED
        BY <1>1, <2>1, <2>2, <2>3, <2>4, BackendStepKeeps
<1> QED
    BY <1>2, <1>3, <1>4

\* What ends a run's waiters: each is answered.
LEMMA CancelWaitersFacts ==
    ASSUME ConnectorInv, NEW rs, CancelPermissionWaiters(rs), asked' = asked
    PROVE  /\ futures' \subseteq futures
           /\ \A k \in Keys :
                 /\ AskTypes(k)'
                 /\ RunOf(k) \in rs => ~Waiting(k)'
                 /\ ~ (RunOf(k) \in rs /\ Waiting(k)) => answered'[k] = answered[k]
                 /\ \A n \in DOMAIN answered'[k] : answered'[k][n] # Cancelled =>
                       n \in DOMAIN answered[k] /\ answered[k][n] = answered'[k][n]
                 /\ RunOf(k) \notin rs => (Waiting(k)' = Waiting(k))
                                           /\ (k \in futures => k \in futures')
<1> DEFINE ks == WaitersOf(rs)
<1>1. /\ answered' = Answer(answered, ks, Cancelled)
      /\ futures' = {k \in futures : RunOf(k) \notin rs}
    BY DEF CancelPermissionWaiters
<1>2. ASSUME NEW k \in Keys
      PROVE  /\ AskTypes(k)'
             /\ RunOf(k) \in rs => ~Waiting(k)'
             /\ ~ (RunOf(k) \in rs /\ Waiting(k)) => answered'[k] = answered[k]
             /\ \A n \in DOMAIN answered'[k] : answered'[k][n] # Cancelled =>
                   n \in DOMAIN answered[k] /\ answered[k][n] = answered'[k][n]
             /\ RunOf(k) \notin rs => (Waiting(k)' = Waiting(k))
                                       /\ (k \in futures => k \in futures')
    <2>1. AskTypes(k) /\ WaiterInv(k)
        BY ConnectorFacts DEF ConnectorTypes
    <2>2. k \in ks <=> RunOf(k) \in rs /\ Waiting(k)
        BY <2>1 DEF WaitersOf, WaiterInv
    <2> HIDE DEF ks
    <2>3. /\ AskTypes(k)'
          /\ k \in ks => /\ ~Waiting(k)'
                         /\ DOMAIN answered'[k] = DOMAIN answered[k] \union {asked[k]}
                         /\ answered'[k][asked[k]] = Cancelled
                         /\ \A n \in DOMAIN answered[k] : answered'[k][n] = answered[k][n]
          /\ k \notin ks => answered'[k] = answered[k]
        BY <1>1, <2>1, <2>2, Settings, AnswerFacts
    <2>9. \A n \in DOMAIN answered'[k] : answered'[k][n] # Cancelled =>
             n \in DOMAIN answered[k] /\ answered[k][n] = answered'[k][n]
        <3>1. CASE k \in ks
            BY <2>3, <3>1
        <3>2. CASE k \notin ks
            BY <2>3, <3>2
        <3> QED
            BY <3>1, <3>2
    <2>4. k \notin ks => Waiting(k)' = Waiting(k)
        BY <2>3 DEF Waiting, WaitingFor
    <2>5. RunOf(k) \notin rs => (k \in futures => k \in futures')
        BY <1>1
    <2>6. CASE RunOf(k) \in rs /\ Waiting(k)
        BY <2>2, <2>3, <2>6, <2>9
    <2>7. CASE RunOf(k) \in rs /\ ~Waiting(k)
        BY <2>2, <2>3, <2>4, <2>7, <2>9
    <2>8. CASE RunOf(k) \notin rs
        BY <2>2, <2>3, <2>4, <2>5, <2>8, <2>9
    <2> QED
        BY <2>6, <2>7, <2>8
<1> QED
    BY <1>1, <1>2

\* A step of the connector that leaves the backend alone.
LEMMA ConnectorStepKeeps ==
    ASSUME ConnectorInv, ConnectorTypes',
           down' \in Seq(DownMessage), up' \in Seq(UpMessage),
           Pairwise(down', AssignedApart), In(down') \subseteq In(down),
           UNCHANGED <<backendVars, conn, link>>, link = "up" => listening',
           \A r \in Runs :
              /\ RunMessage("run.assign", r) \in In(down') => prompt'[r] = "none"
              /\ run_status[r] = "queued" => prompt'[r] = "none"
              /\ (prompt'[r] = "prompting" /\ run_conn[r] = conn /\ listening') =>
                    r \in active_runs',
           \A k \in Keys : WaiterInv(k)'
    PROVE  ConnectorInv'
<1>1. /\ run_status' = run_status /\ run_conn' = run_conn
      /\ permission_requests' = permission_requests /\ shown' = shown /\ handler' = handler
      /\ registered' = registered /\ unregistering' = unregistering
      /\ cancelled' = cancelled /\ conn' = conn /\ link' = link
    BY DEF backendVars
<1>2. BackendTypes' /\ ShownIsStored'
    BY <1>1, ConnectorFacts DEF BackendTypes, ShownIsStored
<1>3. \A r \in Runs : RunInv(r)'
    BY <1>1, ConnectorFacts DEF RunInv
<1> QED
    BY <1>1, <1>2, <1>3, ConnectorParts

\* A message goes up, or none.
LEMMA UpSent ==
    ASSUME ConnectorInv, NEW m \in UpMessage, up' = Append(up, m) \/ up' = up
    PROVE  /\ up' \in Seq(UpMessage)
           /\ In(up) \subseteq In(up') /\ In(up') \subseteq In(up) \union {m}
<1>1. up \in Seq(UpMessage)
    BY ConnectorFacts
<1>2. CASE up' = Append(up, m)
    BY <1>1, <1>2, Sent
<1>3. CASE up' = up
    BY <1>1, <1>3
<1> QED
    BY <1>2, <1>3

\* _handle_run_assign goes on to prompt the agent, or cannot.
LEMMA StartKeeps ==
    ASSUME ConnectorInv, NEW r \in Runs, StartPrompt(r) \/ SetupFails(r)
    PROVE  ConnectorInv'
<1> DEFINE m == RunMessage("run.ended", r)
<1>1. /\ prompt[r] = "assigned"
      /\ prompt' = [prompt EXCEPT ![r] = "prompting"] \/ prompt' = [prompt EXCEPT ![r] = "done"]
      /\ prompt' = [prompt EXCEPT ![r] = "prompting"] => r \in active_runs'
      /\ active_runs' = active_runs \union {r} \/ active_runs' = active_runs
      /\ up' = Append(up, m) \/ up' = up
      /\ UNCHANGED <<backendVars, listening, futures, agentVars, conn, link, down>>
    <2>1. CASE StartPrompt(r)
        BY <2>1 DEF StartPrompt
    <2>2. CASE SetupFails(r)
        <3>1. "prompting" # "done"
            OBVIOUS
        <3>2. /\ prompt[r] = "assigned" /\ prompt' = [prompt EXCEPT ![r] = "done"]
              /\ up' = Append(up, m) \/ up' = up
              /\ UNCHANGED <<backendVars, listening, active_runs, futures, agentVars,
                             conn, link, down>>
            BY <2>2 DEF SetupFails
        <3>3. prompt' # [prompt EXCEPT ![r] = "prompting"]
            <4>1. prompt'[r] = "done" /\ [prompt EXCEPT ![r] = "prompting"][r] = "prompting"
                BY <3>2, ConnectorFacts DEF ConnectorTypes
            <4> QED
                BY <3>1, <4>1
        <3> QED
            BY <3>2, <3>3
    <2> QED
        BY <2>1, <2>2
<1>2. /\ ConnectorTypes /\ down \in Seq(DownMessage) /\ RunInv(r)
      /\ Pairwise(down, AssignedApart) /\ (link = "up" => listening)
    BY ConnectorFacts
<1>3. asked' = asked /\ answered' = answered /\ down' = down /\ listening' = listening
      /\ futures' = futures /\ conn' = conn /\ run_conn' = run_conn
    BY <1>1 DEF agentVars, backendVars
<1>4. up' \in Seq(UpMessage)
    BY <1>1, Messages, UpSent
<1>5. ConnectorTypes'
    BY <1>1, <1>2, <1>3 DEF ConnectorTypes, AskTypes
<1>6. \A q \in Runs \ {r} : prompt'[q] = prompt[q]
    BY <1>1, <1>2 DEF ConnectorTypes
<1>7. active_runs \subseteq active_runs'
    BY <1>1
<1>8. RunMessage("run.assign", r) \notin In(down) /\ run_status[r] # "queued"
    BY <1>1, <1>2 DEF RunInv
<1>9. ASSUME NEW q \in Runs
      PROVE  /\ RunMessage("run.assign", q) \in In(down') => prompt'[q] = "none"
             /\ run_status[q] = "queued" => prompt'[q] = "none"
             /\ (prompt'[q] = "prompting" /\ run_conn[q] = conn /\ listening') =>
                   q \in active_runs'
    <2>1. CASE q = r
        <3>1. prompt'[r] = "prompting" => r \in active_runs'
            BY <1>1, <1>2 DEF ConnectorTypes
        <3> QED
            BY <1>3, <1>8, <2>1, <3>1
    <2>2. CASE q # r
        <3>1. RunInv(q)
            BY ConnectorFacts
        <3> QED
            BY <1>3, <1>6, <1>7, <2>2, <3>1 DEF RunInv
    <2> QED
        BY <2>1, <2>2
<1>10. ASSUME NEW k \in Keys
       PROVE  WaiterInv(k)'
    <2>1. WaiterInv(k) /\ RunOf(k) \in Runs
        BY ConnectorFacts, KeyFacts
    <2>2. Waiting(k)' = Waiting(k)
        BY <1>3 DEF Waiting
    <2>3. Waiting(k) => RunOf(k) # r
        BY <1>1, <2>1 DEF WaiterInv
    <2> QED
        BY <1>3, <1>6, <1>7, <2>1, <2>2, <2>3 DEF WaiterInv
<1> HIDE DEF m
<1> QED
    BY <1>1, <1>2, <1>3, <1>4, <1>5, <1>9, <1>10, ConnectorStepKeeps

\* session/request_permission
LEMMA AskKeeps ==
    ASSUME ConnectorInv, NEW k \in Keys, Ask(k)
    PROVE  ConnectorInv'
<1> DEFINE r == RunOf(k)
           m == Message("run.permission.requested", k, Cancelled, asked[k] + 1)
<1>1. /\ prompt[r] = "prompting" /\ ~Waiting(k) /\ asked[k] < MaxAsks
      /\ asked' = [asked EXCEPT ![k] = asked[k] + 1]
      /\ futures' = futures \union {k}
      /\ \/ IsUp(run_conn[r]) /\ up' = Append(up, m) /\ answered' = answered
         \/ ~IsUp(run_conn[r]) /\ answered' = Answer(answered, {k}, Cancelled) /\ up' = up
      /\ UNCHANGED <<backendVars, listening, prompt, active_runs, conn, link, down>>
    BY DEF Ask
<1>2. /\ ConnectorTypes /\ down \in Seq(DownMessage)
      /\ Pairwise(down, AssignedApart) /\ (link = "up" => listening) /\ r \in Runs
      /\ AskTypes(k) /\ RunInv(r)
    BY ConnectorFacts, KeyFacts DEF ConnectorTypes
<1>3. asked[k] \in Nat /\ asked[k] + 1 \in Asks /\ Len(answered[k]) = asked[k]
    BY <1>1, <1>2, AskFacts, Settings DEF AskTypes
<1>4. m \in UpMessage
    BY <1>3, Messages
<1> HIDE DEF m
<1>5. up' \in Seq(UpMessage)
    BY <1>1, <1>4, UpSent
<1>6. run_conn' = run_conn
    BY <1>1 DEF backendVars
<1>7. ASSUME NEW j \in Keys, j # k
      PROVE  AskTypes(j)' /\ Waiting(j)' = Waiting(j)
    <2>1. asked'[j] = asked[j] /\ answered'[j] = answered[j]
        BY <1>1, <1>2, <1>7 DEF ConnectorTypes, Answer
    <2>2. AskTypes(j)
        BY <1>2 DEF ConnectorTypes
    <2> QED
        BY <2>1, <2>2 DEF AskTypes, Waiting, WaitingFor
<1>8. AskTypes(k)' /\ (Waiting(k)' => IsUp(run_conn[r]))
    <2>1. asked'[k] = asked[k] + 1
        BY <1>1, <1>2 DEF ConnectorTypes
    <2>2. CASE answered' = answered /\ IsUp(run_conn[r])
        BY <1>2, <1>3, <2>1, <2>2 DEF AskTypes
    <2>3. CASE answered' = Answer(answered, {k}, Cancelled)
        <3>1. answered'[k] = Append(answered[k], Cancelled)
            BY <2>3 DEF Answer
        <3>2. answered'[k] \in Seq(Decisions) /\ Len(answered'[k]) = asked[k] + 1
            BY <1>2, <1>3, <3>1, AppendProperties, Settings DEF AskTypes
        <3>3. ~Waiting(k)'
            BY <1>3, <2>1, <3>2 DEF Waiting, WaitingFor
        <3> QED
            BY <1>3, <2>1, <3>2, <3>3 DEF AskTypes
    <2> QED
        BY <1>1, <2>2, <2>3
<1>9. ConnectorTypes'
    <2>1. asked' \in [Keys -> Asks]
        BY <1>1, <1>2, <1>3 DEF ConnectorTypes
    <2> QED
        BY <1>1, <1>2, <1>7, <1>8, <2>1 DEF ConnectorTypes
<1>10. \A q \in Runs :
          /\ RunMessage("run.assign", q) \in In(down') => prompt'[q] = "none"
          /\ run_status[q] = "queued" => prompt'[q] = "none"
          /\ (prompt'[q] = "prompting" /\ run_conn[q] = conn /\ listening') =>
                q \in active_runs'
    BY <1>1, ConnectorFacts DEF RunInv
<1>11. ASSUME NEW j \in Keys
       PROVE  WaiterInv(j)'
    <2>1. CASE j = k
        <3>1. IsUp(run_conn[r]) => run_conn[r] = conn /\ listening
            BY <1>2 DEF IsUp
        <3>2. IsUp(run_conn[r]) => r \in active_runs
            BY <1>1, <1>2, <3>1 DEF RunInv
        <3> QED
            BY <1>1, <1>6, <1>8, <2>1, <3>1, <3>2 DEF WaiterInv
    <2>2. CASE j # k
        <3>1. WaiterInv(j)
            BY ConnectorFacts
        <3> QED
            BY <1>1, <1>6, <1>7, <2>2, <3>1 DEF WaiterInv
    <2> QED
        BY <2>1, <2>2
<1> QED
    BY <1>1, <1>2, <1>5, <1>9, <1>10, <1>11, ConnectorStepKeeps

\* A message is read, given what becomes of the runs and of the waiters.
LEMMA ReadFacts ==
    ASSUME ConnectorInv, ConnectorReads
    PROVE  /\ down # <<>> /\ down' = Tail(down) /\ Head(down) \in DownMessage
           /\ Head(down) \in In(down)
           /\ down' \in Seq(DownMessage) /\ In(down') \subseteq In(down)
           /\ Pairwise(down', AssignedApart)
           /\ \A x \in In(down') : <<Head(down), x>> \in AssignedApart
           /\ UNCHANGED <<backendVars, listening, asked, conn, link, up>>
<1>1. /\ down # <<>> /\ down' = Tail(down)
      /\ UNCHANGED <<backendVars, listening, asked, conn, link, up>>
    BY DEF ConnectorReads
<1>2. down \in Seq(DownMessage) /\ Pairwise(down, AssignedApart)
    BY ConnectorFacts
<1> QED
    BY <1>1, <1>2, Taken

\* run.assign
LEMMA ReadAssignKeeps ==
    ASSUME ConnectorInv, ConnectorReads, Head(down).type = "run.assign",
           HandleRunAssign(Head(down).run)
    PROVE  ConnectorInv'
<1> DEFINE m == Head(down)
           r == m.run
<1>1. /\ m \in DownMessage /\ m \in In(down)
      /\ down' \in Seq(DownMessage) /\ In(down') \subseteq In(down)
      /\ Pairwise(down', AssignedApart) /\ \A x \in In(down') : <<m, x>> \in AssignedApart
      /\ UNCHANGED <<backendVars, listening, asked, conn, link, up>>
      /\ prompt' = [prompt EXCEPT ![r] = "assigned"]
      /\ active_runs' = active_runs /\ futures' = futures /\ answered' = answered
    BY ReadFacts DEF HandleRunAssign
<1>2. r \in Runs /\ m = RunMessage("run.assign", r)
    BY <1>1 DEF DownMessage, RunMessage
<1>3. ConnectorTypes /\ up \in Seq(UpMessage) /\ RunInv(r) /\ (link = "up" => listening)
    BY <1>2, ConnectorFacts
<1>4. prompt[r] = "none" /\ run_status[r] # "queued"
    BY <1>1, <1>2, <1>3 DEF RunInv
<1>5. RunMessage("run.assign", r) \notin In(down')
    BY <1>1, <1>2 DEF AssignedApart, RunMessage
<1> HIDE DEF m, r
<1>6. ConnectorTypes'
    BY <1>1, <1>2, <1>3 DEF ConnectorTypes, AskTypes
<1>7. ASSUME NEW q \in Runs
      PROVE  /\ RunMessage("run.assign", q) \in In(down') => prompt'[q] = "none"
             /\ run_status[q] = "queued" => prompt'[q] = "none"
             /\ (prompt'[q] = "prompting" /\ run_conn[q] = conn /\ listening') =>
                   q \in active_runs'
    <2>1. CASE q = r
        BY <1>1, <1>3, <1>4, <1>5, <2>1 DEF ConnectorTypes
    <2>2. CASE q # r
        <3>1. RunInv(q) /\ prompt'[q] = prompt[q]
            BY <1>1, <1>3, <2>2, ConnectorFacts DEF ConnectorTypes
        <3> QED
            BY <1>1, <3>1 DEF RunInv
    <2> QED
        BY <2>1, <2>2
<1>8. ASSUME NEW k \in Keys
      PROVE  WaiterInv(k)'
    <2>1. WaiterInv(k) /\ RunOf(k) \in Runs
        BY ConnectorFacts, KeyFacts
    <2>2. Waiting(k)' = Waiting(k) /\ run_conn' = run_conn
        BY <1>1 DEF Waiting, backendVars
    <2>3. Waiting(k) => RunOf(k) # r
        BY <1>4, <2>1 DEF WaiterInv
    <2>4. RunOf(k) # r => prompt'[RunOf(k)] = prompt[RunOf(k)]
        BY <1>1, <1>3, <2>1 DEF ConnectorTypes
    <2> QED
        BY <1>1, <2>1, <2>2, <2>3, <2>4 DEF WaiterInv
<1> QED
    BY <1>1, <1>3, <1>6, <1>7, <1>8, ConnectorStepKeeps

\* A decision: its agent is answered, if it waits.
LEMMA DecisionFacts ==
    ASSUME ConnectorInv, ConnectorReads, Head(down).type = "run.permission.decision",
           HandlePermissionDecision(Head(down))
    PROVE  /\ prompt' = prompt /\ active_runs' = active_runs
           /\ Head(down).key \in Keys /\ Head(down).decision \in Decisions
           /\ \A k \in Keys :
                 /\ AskTypes(k)'
                 /\ k # Head(down).key => (k \in futures => k \in futures')
                 /\ (k # Head(down).key \/ ~Waiting(k)) => answered'[k] = answered[k]
                 /\ k = Head(down).key => ~Waiting(k)'
                 /\ (k = Head(down).key /\ Waiting(k)) =>
                       /\ asked[k] = Len(answered[k]) + 1
                       /\ DOMAIN answered'[k] = DOMAIN answered[k] \union {asked[k]}
                       /\ answered'[k][asked[k]] = Head(down).decision
                       /\ \A n \in DOMAIN answered[k] : answered'[k][n] = answered[k][n]
           /\ futures' \subseteq futures
<1> DEFINE m == Head(down)
           w == m.key \in WaitersOf(Runs)
<1>1. m \in DownMessage /\ asked' = asked
    BY ReadFacts
<1>2. m.key \in Keys /\ m.decision \in Decisions
    BY <1>1 DEF DownMessage
<1>3. /\ prompt' = prompt /\ active_runs' = active_runs
      /\ w => answered' = Answer(answered, {m.key}, m.decision) /\ futures' = futures \ {m.key}
      /\ ~w => answered' = answered /\ futures' = futures
    BY DEF HandlePermissionDecision
<1>4. w <=> Waiting(m.key)
    BY <1>2, ConnectorFacts, KeyFacts DEF WaitersOf, WaiterInv
<1> HIDE DEF m, w
<1>5. ASSUME NEW k \in Keys
      PROVE  /\ AskTypes(k)'
             /\ k # m.key => (k \in futures => k \in futures')
             /\ (k # m.key \/ ~Waiting(k)) => answered'[k] = answered[k]
             /\ k = m.key => ~Waiting(k)'
             /\ (k = m.key /\ Waiting(k)) =>
                   /\ asked[k] = Len(answered[k]) + 1
                   /\ DOMAIN answered'[k] = DOMAIN answered[k] \union {asked[k]}
                   /\ answered'[k][asked[k]] = m.decision
                   /\ \A n \in DOMAIN answered[k] : answered'[k][n] = answered[k][n]
    <2>1. AskTypes(k)
        BY ConnectorFacts DEF ConnectorTypes
    <2>2. CASE w
        <3> DEFINE ks == {m.key}
        <3>0. k \in ks <=> k = m.key
            OBVIOUS
        <3>2. answered' = Answer(answered, ks, m.decision)
            BY <1>3, <2>2
        <3> HIDE DEF ks
        <3>1. k \in ks => Waiting(k)
            BY <1>4, <2>2, <3>0
        <3>3. /\ AskTypes(k)'
              /\ k \in ks =>
                    /\ ~Waiting(k)' /\ asked[k] = Len(answered[k]) + 1
                    /\ DOMAIN answered'[k] = DOMAIN answered[k] \union {asked[k]}
                    /\ answered'[k][asked[k]] = m.decision
                    /\ \A n \in DOMAIN answered[k] : answered'[k][n] = answered[k][n]
              /\ k \notin ks => answered'[k] = answered[k]
            BY <1>1, <1>2, <2>1, <3>1, <3>2, AnswerFacts
        <3>4. futures' = futures \ {m.key}
            BY <1>3, <2>2
        <3> QED
            BY <1>4, <2>2, <3>0, <3>3, <3>4
    <2>3. CASE ~w
        <3>1. answered' = answered /\ futures' = futures
            BY <1>3, <2>3
        <3>2. AskTypes(k)' /\ (Waiting(k)' = Waiting(k))
            BY <1>1, <2>1, <3>1 DEF AskTypes, Waiting, WaitingFor
        <3> QED
            BY <1>4, <2>3, <3>1, <3>2
    <2> QED
        BY <2>2, <2>3
<1>6. futures' \subseteq futures
    BY <1>3
<1> QED
    BY <1>2, <1>3, <1>5, <1>6 DEF m

\* Answers to waiters of runs that stay as they are.
LEMMA AnsweringKeeps ==
    ASSUME ConnectorInv, ConnectorReads, prompt' = prompt, active_runs' = active_runs,
           futures' \subseteq futures,
           \A k \in Keys : /\ AskTypes(k)'
                           /\ Waiting(k)' => Waiting(k) /\ k \in futures'
    PROVE  ConnectorInv'
<1>1. /\ down' \in Seq(DownMessage) /\ In(down') \subseteq In(down)
      /\ Pairwise(down', AssignedApart)
      /\ UNCHANGED <<backendVars, listening, asked, conn, link, up>>
    BY ReadFacts
<1>2. ConnectorTypes /\ up \in Seq(UpMessage) /\ (link = "up" => listening)
    BY ConnectorFacts
<1>3. ConnectorTypes'
    BY <1>1, <1>2 DEF ConnectorTypes
<1>4. \A q \in Runs :
          /\ RunMessage("run.assign", q) \in In(down') => prompt'[q] = "none"
          /\ run_status[q] = "queued" => prompt'[q] = "none"
          /\ (prompt'[q] = "prompting" /\ run_conn[q] = conn /\ listening') =>
                q \in active_runs'
    BY <1>1, ConnectorFacts DEF RunInv
<1>5. run_conn' = run_conn
    BY <1>1 DEF backendVars
<1>6. \A k \in Keys : WaiterInv(k)'
    BY <1>1, <1>5, ConnectorFacts DEF WaiterInv
<1> QED
    BY <1>1, <1>2, <1>3, <1>4, <1>6, ConnectorStepKeeps

\* _on_backend_message
LEMMA ConnectorReadsKeeps ==
    ASSUME ConnectorInv, ConnectorReads
    PROVE  ConnectorInv'
<1> DEFINE m == Head(down)
<1>1. \/ m.type = "run.assign" /\ HandleRunAssign(m.run)
      \/ m.type = "run.permission.decision" /\ HandlePermissionDecision(m)
      \/ m.type = "run.cancel" /\ HandleRunCancel(m.run)
    BY DEF ConnectorReads
<1>2. CASE m.type = "run.assign" /\ HandleRunAssign(m.run)
    BY <1>2, ReadAssignKeeps
<1>3. CASE m.type = "run.permission.decision" /\ HandlePermissionDecision(m)
    <2>1. /\ prompt' = prompt /\ active_runs' = active_runs /\ futures' \subseteq futures
          /\ \A k \in Keys :
                /\ AskTypes(k)'
                /\ k # m.key => (k \in futures => k \in futures')
                /\ k # m.key => answered'[k] = answered[k]
                /\ k = m.key => ~Waiting(k)'
        BY <1>3, DecisionFacts
    <2>2. asked' = asked
        BY ReadFacts
    <2> HIDE DEF m
    <2>3. ASSUME NEW k \in Keys, Waiting(k)'
          PROVE  Waiting(k) /\ k \in futures'
        <3>1. k # m.key
            BY <2>1, <2>3
        <3>2. Waiting(k)
            BY <2>1, <2>2, <2>3, <3>1 DEF Waiting, WaitingFor
        <3> QED
            BY <2>1, <3>1, <3>2, ConnectorFacts DEF WaiterInv
    <2> QED
        BY <2>1, <2>3, AnsweringKeeps
<1>4. CASE m.type = "run.cancel" /\ HandleRunCancel(m.run)
    <2>1. /\ prompt' = prompt /\ active_runs' = active_runs
          /\ \/ m.run \in active_runs /\ CancelPermissionWaiters({m.run})
             \/ answered' = answered /\ futures' = futures
        BY <1>4 DEF HandleRunCancel
    <2>2. asked' = asked
        BY ReadFacts
    <2>3. CASE CancelPermissionWaiters({m.run})
        <3>1. /\ futures' \subseteq futures
              /\ \A k \in Keys :
                    /\ AskTypes(k)'
                    /\ RunOf(k) \in {m.run} => ~Waiting(k)'
                    /\ RunOf(k) \notin {m.run} => (Waiting(k)' = Waiting(k))
                                           /\ (k \in futures => k \in futures')
            BY <2>2, <2>3, CancelWaitersFacts
        <3>2. ASSUME NEW k \in Keys, Waiting(k)'
              PROVE  Waiting(k) /\ k \in futures'
            BY <3>1, <3>2, ConnectorFacts DEF WaiterInv
        <3> QED
            BY <2>1, <3>1, <3>2, AnsweringKeeps
    <2>4. CASE answered' = answered /\ futures' = futures
        <3>1. \A k \in Keys : AskTypes(k)' /\ (Waiting(k)' = Waiting(k))
            BY <2>2, <2>4, ConnectorFacts DEF AskTypes, Waiting, ConnectorTypes
        <3>2. \A k \in Keys : Waiting(k)' => Waiting(k) /\ k \in futures'
            BY <2>4, <3>1, ConnectorFacts DEF WaiterInv
        <3> QED
            BY <2>1, <2>4, <3>1, <3>2, AnsweringKeeps
    <2> QED
        BY <2>1, <2>3, <2>4
<1> QED
    BY <1>1, <1>2, <1>3, <1>4

\* The end of a prompt answers its waiters.
LEMMA PromptEndsKeeps ==
    ASSUME ConnectorInv, NEW r \in Runs, PromptEnds(r)
    PROVE  ConnectorInv'
<1> DEFINE m == RunMessage("run.ended", r)
<1>1. /\ prompt[r] = "prompting" /\ prompt' = [prompt EXCEPT ![r] = "done"]
      /\ up' = Append(up, m) \/ up' = up
      /\ CancelPermissionWaiters({r}) /\ active_runs' = active_runs \ {r}
      /\ UNCHANGED <<backendVars, listening, asked, conn, link, down>>
    BY DEF PromptEnds
<1>2. /\ ConnectorTypes /\ down \in Seq(DownMessage) /\ RunInv(r)
      /\ Pairwise(down, AssignedApart) /\ (link = "up" => listening)
    BY ConnectorFacts
<1>3. /\ asked' = asked /\ down' = down /\ listening' = listening
      /\ conn' = conn /\ run_conn' = run_conn
    BY <1>1 DEF backendVars
<1>4. up' \in Seq(UpMessage)
    BY <1>1, Messages, UpSent
<1>5. /\ futures' \subseteq futures
      /\ \A k \in Keys :
            /\ AskTypes(k)'
            /\ RunOf(k) = r => ~Waiting(k)'
            /\ RunOf(k) # r => (Waiting(k)' = Waiting(k)) /\ (k \in futures => k \in futures')
    BY <1>1, <1>3, CancelWaitersFacts
<1>6. prompt'[r] = "done" /\ \A q \in Runs \ {r} : prompt'[q] = prompt[q]
    BY <1>1, <1>2 DEF ConnectorTypes
<1>7. ConnectorTypes'
    BY <1>1, <1>2, <1>3, <1>5 DEF ConnectorTypes
<1>8. ASSUME NEW q \in Runs
      PROVE  /\ RunMessage("run.assign", q) \in In(down') => prompt'[q] = "none"
             /\ run_status[q] = "queued" => prompt'[q] = "none"
             /\ (prompt'[q] = "prompting" /\ run_conn[q] = conn /\ listening') =>
                   q \in active_runs'
    <2>1. RunInv(q)
        BY ConnectorFacts
    <2> QED
        BY <1>1, <1>2, <1>3, <1>6, <2>1 DEF RunInv
<1>9. ASSUME NEW k \in Keys
      PROVE  WaiterInv(k)'
    <2>1. WaiterInv(k) /\ RunOf(k) \in Runs
        BY ConnectorFacts, KeyFacts
    <2> QED
        BY <1>1, <1>3, <1>5, <1>6, <2>1 DEF WaiterInv
<1> HIDE DEF m
<1> QED
    BY <1>1, <1>2, <1>3, <1>4, <1>7, <1>8, <1>9, ConnectorStepKeeps

\* The connector gives up a connection.
LEMMA ConnectionEndsKeeps ==
    ASSUME ConnectorInv, ConnectionEnds
    PROVE  /\ ConnectorInv' /\ \A k \in Keys : ~Waiting(k)'
<1>1. /\ link = "closed" /\ listening' = FALSE /\ active_runs' = {} /\ down' = <<>>
      /\ CancelPermissionWaiters(active_runs)
      /\ UNCHANGED <<backendVars, prompt, run_conn, asked, conn, link, up>>
    BY DEF ConnectionEnds
<1>2. /\ ConnectorTypes /\ up \in Seq(UpMessage)
    BY ConnectorFacts
<1>3. down' \in Seq(DownMessage) /\ In(down') = {} /\ Pairwise(down', AssignedApart)
    BY <1>1, NoMessages
<1>4. /\ futures' \subseteq futures
      /\ \A k \in Keys :
            /\ AskTypes(k)'
            /\ RunOf(k) \in active_runs => ~Waiting(k)'
            /\ RunOf(k) \notin active_runs => (Waiting(k)' = Waiting(k))
    BY <1>1, CancelWaitersFacts
<1>5. \A k \in Keys : ~Waiting(k)'
    BY <1>4, ConnectorFacts DEF WaiterInv
<1>6. ConnectorTypes'
    BY <1>1, <1>2, <1>4 DEF ConnectorTypes
<1>7. \A k \in Keys : WaiterInv(k)'
    BY <1>5 DEF WaiterInv
<1>8. \A q \in Runs :
          /\ RunMessage("run.assign", q) \in In(down') => prompt'[q] = "none"
          /\ run_status[q] = "queued" => prompt'[q] = "none"
          /\ (prompt'[q] = "prompting" /\ run_conn[q] = conn /\ listening') =>
                q \in active_runs'
    BY <1>1, <1>3, ConnectorFacts DEF RunInv
<1>9. ConnectorInv'
    <2>1. up' \in Seq(UpMessage) /\ In(down') \subseteq In(down)
          /\ (link = "up" => listening') /\ UNCHANGED <<backendVars, conn, link>>
        BY <1>1, <1>2, <1>3
    <2> QED
        BY <1>3, <1>6, <1>7, <1>8, <2>1, ConnectorStepKeeps
<1> QED
    BY <1>5, <1>9

\* A websocket closes, and the next one opens.
LEMMA LinkKeeps ==
    ASSUME ConnectorInv, Close \/ Reconnect
    PROVE  ConnectorInv'
<1>1. /\ BackendTypes /\ ConnectorTypes /\ ShownIsStored
      /\ up \in Seq(UpMessage) /\ down \in Seq(DownMessage) /\ Pairwise(down, AssignedApart)
    BY ConnectorFacts
<1>2. /\ UNCHANGED <<run_conn, run_status, permission_requests, shown, handler, unregistering,
                     cancelled, prompt, active_runs, futures, agentVars, down, up>>
      /\ \/ /\ conn' = conn /\ registered' = registered /\ link' = "closed"
            /\ listening' = listening
         \/ /\ conn < MaxConns /\ ~listening /\ link' = "up" /\ listening' = TRUE
            /\ conn' = conn + 1 /\ registered' = conn + 1
    BY DEF Close, Reconnect, backendVars, connectorVars
<1>3. BackendTypes'
    <2>1. conn \in Nat /\ conn' \in 1 .. MaxConns
        BY <1>1, <1>2, Settings DEF BackendTypes
    <2> QED
        BY <1>1, <1>2, <2>1 DEF BackendTypes
<1>4. ConnectorTypes' /\ ShownIsStored'
    BY <1>1, <1>2 DEF ConnectorTypes, AskTypes, ShownIsStored, agentVars
<1>5. ASSUME NEW r \in Runs
      PROVE  RunInv(r)'
    <2>1. RunInv(r) /\ run_conn[r] \in Nat /\ conn \in Nat
        BY <1>1, ConnectorFacts, Settings DEF BackendTypes
    <2> QED
        BY <1>2, <2>1 DEF RunInv
<1>6. ASSUME NEW k \in Keys
      PROVE  WaiterInv(k)'
    <2>1. WaiterInv(k) /\ (Waiting(k)' = Waiting(k))
        BY <1>2, ConnectorFacts DEF Waiting, agentVars
    <2> QED
        BY <1>2, <2>1 DEF WaiterInv
<1>7. /\ up' \in Seq(UpMessage) /\ down' \in Seq(DownMessage)
      /\ Pairwise(down', AssignedApart) /\ (link' = "up" => listening')
    BY <1>1, <1>2
<1> QED
    BY <1>3, <1>4, <1>5, <1>6, <1>7, ConnectorParts

LEMMA InitConnectorInv == Init => ConnectorInv
<1> SUFFICES ASSUME Init PROVE ConnectorInv
    OBVIOUS
<1>1. \A k \in Keys : asked[k] = 0 /\ answered[k] = <<>>
    BY DEF Init
<1>2. \A k \in Keys : ~Waiting(k) /\ AskTypes(k)
    <2>1. 0 \in Asks /\ <<>> \in Seq(Decisions) /\ Len(<<>>) = 0
        BY Settings
    <2>2. \A k \in Keys : asked[k] \in Asks /\ answered[k] \in Seq(Decisions)
                             /\ asked[k] = 0 /\ Len(answered[k]) = 0
        BY <1>1, <2>1
    <2>3. ~ (0 > 0)
        OBVIOUS
    <2> QED
        BY <2>2, <2>3 DEF Waiting, WaitingFor, AskTypes
<1>3. In(down) = {} /\ In(up) = {} /\ Pairwise(down, AssignedApart)
      /\ down \in Seq(DownMessage) /\ up \in Seq(UpMessage)
    BY NoMessages DEF Init
<1>4. BackendTypes
    BY Settings DEF Init, BackendTypes
<1>5. ConnectorTypes
    BY <1>2, Settings DEF Init, ConnectorTypes
<1>6. PermissionsTypeOK
    BY <1>4, <1>5, TypeParts
<1>7. ShownIsStored
    BY DEF Init, ShownIsStored, NoRow
<1>8. \A k \in Keys : WaiterInv(k)
    BY <1>2 DEF WaiterInv
<1>9. \A r \in Runs : RunInv(r)
    BY <1>3 DEF Init, RunInv
<1>10. link = "up" => listening
    BY DEF Init
<1> QED
    BY <1>3, <1>6, <1>7, <1>8, <1>9, <1>10 DEF ConnectorInv

LEMMA StutterKeeps == ASSUME ConnectorInv, UNCHANGED vars PROVE ConnectorInv'
<1>1. UNCHANGED <<run_conn, connectorVars, agentVars, conn, link>> /\ down' = down /\ up' = up
      /\ UNCHANGED backendVars
    BY DEF vars, backendVars
<1>2. BackendTypes' /\ ShownIsStored'
    BY <1>1, ConnectorFacts DEF BackendTypes, ShownIsStored, backendVars
<1>3. run_status' = run_status
    BY <1>1 DEF backendVars
<1>4. down' \in Seq(DownMessage) /\ up' \in Seq(UpMessage) /\ Pairwise(down', AssignedApart)
    BY <1>1, ConnectorFacts
<1> QED
    BY <1>1, <1>2, <1>3, <1>4, BackendStepKeeps

LEMMA StepKeepsConnectorInv == ConnectorInv /\ [Next]_vars => ConnectorInv'
<1> SUFFICES ASSUME ConnectorInv, [Next]_vars PROVE ConnectorInv'
    OBVIOUS
<1>1. ASSUME NEW r \in Runs,
             \/ AssignRun(r) \/ RequestCancel(r) \/ RemoveRun(r)
             \/ StartPrompt(r) \/ SetupFails(r) \/ PromptEnds(r)
      PROVE  ConnectorInv'
    BY <1>1, AssignKeeps, RequestCancelKeeps, UnregisterKeeps, StartKeeps, PromptEndsKeeps
<1>2. ASSUME NEW k \in Keys, Ask(k)
      PROVE  ConnectorInv'
    BY <1>2, AskKeeps
<1>3. ASSUME NEW u \in Users, NEW k \in Keys, NEW d \in Decisions, DecidePermission(u, k, d)
      PROVE  ConnectorInv'
    BY <1>3, DecideKeeps
<1>4. ASSUME NEW u \in Users, DecisionSent(u) \/ DecisionNotSent(u)
      PROVE  ConnectorInv'
    BY <1>4, SentKeeps
<1>5. CASE BackendReads \/ Unregister \/ (\E c \in unregistering : UnregisterReturns(c))
    BY <1>5, BackendReadsKeeps, UnregisterKeeps
<1>6. CASE ConnectorReads \/ ConnectionEnds \/ Close \/ Reconnect
    BY <1>6, ConnectorReadsKeeps, ConnectionEndsKeeps, LinkKeeps
<1>7. CASE UNCHANGED vars
    BY <1>7, StutterKeeps
<1> QED
    BY <1>1, <1>2, <1>3, <1>4, <1>5, <1>6, <1>7 DEF Next

\* The first invariant holds in every state, however the sends are scheduled.
THEOREM ConnectorInvariant == Spec => []ConnectorInv
    BY InitConnectorInv, StepKeepsConnectorInv, PTL DEF Spec

\* Rows, history, agents and futures agree: no agent waits for a permission of a
\* run whose prompt is over or whose connection the connector has given up, and
\* what the history shows of a request is what its row holds, whether or not the
\* send of a decision suspends.
THEOREM RowsAndWaitersAgree == Spec => []PermissionsOK
<1>1. ConnectorInv => PermissionsOK
    BY DEF ConnectorInv, PermissionsOK, WaiterInv, NoWaitOutlivesItsPrompt
<1> QED
    BY <1>1, ConnectorInvariant, PTL
-----------------------------------------------------------------------------
(* While no send suspends: what holds of one key.                            *)

LEMMA AnswerParts ==
    ASSUME AnswerInv
    PROVE  /\ ConnectorInv
           /\ Pairwise(down, DecidedApart) /\ Pairwise(up, RequestedInOrder)
           /\ \A c \in unregistering : c <= conn /\ ~IsUp(c)
           /\ \A r \in Runs : EndInv(r)
           /\ \A u \in Users : HandlerInv(u)
           /\ \A k \in Keys : KeyInv(k)
    BY DEF AnswerInv

\* The messages of a channel, and those for a key.
LEMMA ChannelFacts ==
    ASSUME ConnectorInv
    PROVE  /\ \A x \in In(down) : x \in DownMessage
           /\ \A x \in In(up) : x \in UpMessage
           /\ \A k \in Keys : \A x \in DecisionsFor(k) :
                 /\ x \in In(down) /\ x \in DownMessage /\ x.type = "run.permission.decision"
                 /\ x.key = k /\ x.decision \in Decisions /\ x.ask \in Nat
           /\ \A k \in Keys : \A x \in RequestsFor(k) :
                 /\ x \in In(up) /\ x \in UpMessage /\ x.type = "run.permission.requested"
                 /\ x.key = k /\ x.ask \in Nat
<1>1. \A x \in In(down) : x \in DownMessage
    BY ConnectorFacts, ElementOfSeq, LenProperties DEF In
<1>2. \A x \in In(up) : x \in UpMessage
    BY ConnectorFacts, ElementOfSeq, LenProperties DEF In
<1> QED
    BY <1>1, <1>2, Settings DEF DecisionsFor, RequestsFor, DownMessage, UpMessage

\* The row of a key, the asks of it, and its handler.
LEMMA RowFacts ==
    ASSUME ConnectorInv, NEW k \in Keys
    PROVE  /\ permission_requests[k] \in Row \/ permission_requests[k] = NoRow
           /\ permission_requests[k].ask \in Asks /\ permission_requests[k].ask \in Nat
           /\ NoRow.ask = 0 /\ NoRow.status = "none"
           /\ permission_requests[k].status = Pending =>
                 /\ permission_requests[k] # NoRow
                 /\ permission_requests[k]
                       = [status |-> Pending, ask |-> permission_requests[k].ask]
           /\ AskTypes(k) /\ RunOf(k) \in Runs
<1>1. permission_requests[k] \in Row \union {NoRow} /\ AskTypes(k)
    BY ConnectorFacts DEF BackendTypes, ConnectorTypes
<1>2. NoRow.ask = 0 /\ NoRow.status = "none" /\ 0 \in Asks
    BY Settings DEF NoRow
<1>3. permission_requests[k].ask \in Asks
    BY <1>1, <1>2 DEF Row
<1>4. Pending # "none"
    BY DEF Pending
<1>5. permission_requests[k] \in Row =>
         permission_requests[k] = [status |-> permission_requests[k].status,
                                   ask |-> permission_requests[k].ask]
    BY DEF Row
<1> QED
    BY <1>1, <1>2, <1>3, <1>4, <1>5, Settings, KeyFacts

\* A step that does not concern a key, except that messages for it may be lost
\* with the connection.
Quiet(k) ==
    /\ permission_requests'[k] = permission_requests[k]
    /\ asked'[k] = asked[k] /\ answered'[k] = answered[k]
    /\ Recording(k)' = Recording(k)
    /\ \A u \in Recording(k) : handler'[u].decision = handler[u].decision
    /\ cancelled \subseteq cancelled'
    /\ DecisionsFor(k)' \subseteq DecisionsFor(k)
    /\ RequestsFor(k)' \subseteq RequestsFor(k)
    /\ prompt'[RunOf(k)] \in {"none", "assigned"} => prompt[RunOf(k)] \in {"none", "assigned"}
    /\ Attended(k)' => Attended(k) /\ (link' = "up" => link = "up")
    /\ (Waiting(k)' /\ IsUp(run_conn[RunOf(k)])') =>
          /\ IsUp(run_conn[RunOf(k)])
          /\ DecisionsFor(k)' = DecisionsFor(k) /\ RequestsFor(k)' = RequestsFor(k)

LEMMA QuietKeeps ==
    ASSUME NEW k \in Keys, KeyInv(k), Quiet(k)
    PROVE  KeyInv(k)'
<1>1. Waiting(k)' = Waiting(k)
    BY DEF Quiet, Waiting, WaitingFor
<1>2. NumbersInv(k)'
    BY DEF Quiet, KeyInv, NumbersInv
<1>3. FreshInv(k)'
    BY DEF Quiet, KeyInv, FreshInv
<1>4. RecordedInv(k)'
    BY DEF Quiet, KeyInv, RecordedInv
<1>5. AttendedInv(k)'
    BY <1>1 DEF Quiet, KeyInv, AttendedInv
<1>6. AnsweredInv(k)'
    BY DEF Quiet, KeyInv, AnsweredInv
<1>7. ComingInv(k)'
    BY <1>1 DEF Quiet, KeyInv, ComingInv
<1> QED
    BY <1>2, <1>3, <1>4, <1>5, <1>6, <1>7 DEF KeyInv

\* An agent that is given up: whatever it waited for is answered "cancelled".
GivenUp(k) ==
    /\ permission_requests'[k] = permission_requests[k] /\ asked'[k] = asked[k]
    /\ \A n \in DOMAIN answered'[k] : answered'[k][n] # Cancelled =>
          n \in DOMAIN answered[k] /\ answered[k][n] = answered'[k][n]
    /\ Recording(k)' = Recording(k)
    /\ \A u \in Recording(k) : handler'[u].decision = handler[u].decision
    /\ cancelled \subseteq cancelled'
    /\ DecisionsFor(k)' \subseteq DecisionsFor(k)
    /\ RequestsFor(k)' \subseteq RequestsFor(k)
    /\ prompt'[RunOf(k)] \in {"none", "assigned"} => prompt[RunOf(k)] \in {"none", "assigned"}
    /\ ~Attended(k)' /\ ~Waiting(k)'

LEMMA GivenUpKeeps ==
    ASSUME NEW k \in Keys, KeyInv(k), GivenUp(k)
    PROVE  KeyInv(k)'
<1>1. NumbersInv(k)'
    BY DEF GivenUp, KeyInv, NumbersInv
<1>2. FreshInv(k)'
    BY DEF GivenUp, KeyInv, FreshInv
<1>3. RecordedInv(k)'
    BY DEF GivenUp, KeyInv, RecordedInv
<1>4. AttendedInv(k)' /\ ComingInv(k)'
    BY DEF GivenUp, AttendedInv, ComingInv
<1>5. AnsweredInv(k)'
    <2>1. AnsweredInv(k) /\ permission_requests'[k] = permission_requests[k]
          /\ Recording(k)' = Recording(k) /\ RequestsFor(k)' \subseteq RequestsFor(k)
          /\ \A u \in Recording(k) : handler'[u].decision = handler[u].decision
        BY DEF GivenUp, KeyInv
    <2>3. cancelled \subseteq cancelled'
        BY DEF GivenUp
    <2>4. \A n \in DOMAIN answered'[k] : answered'[k][n] # Cancelled =>
             n \in DOMAIN answered[k] /\ answered[k][n] = answered'[k][n]
        BY DEF GivenUp
    <2>2. ASSUME RunOf(k) \notin cancelled', NEW n \in DOMAIN answered'[k],
                 answered'[k][n] # Cancelled
          PROVE  /\ n = permission_requests'[k].ask =>
                       \/ permission_requests'[k].status = answered'[k][n]
                       \/ \E u \in Recording(k)' : handler'[u].decision = answered'[k][n]
                 /\ \A m \in RequestsFor(k)' : m.ask # n
        <3>1. /\ RunOf(k) \notin cancelled /\ n \in DOMAIN answered[k]
              /\ answered[k][n] = answered'[k][n] /\ answered[k][n] # Cancelled
            <4>1. RunOf(k) \notin cancelled
                BY <2>2, <2>3
            <4>2. n \in DOMAIN answered[k] /\ answered[k][n] = answered'[k][n]
                BY <2>2, <2>4
            <4> QED
                BY <2>2, <4>1, <4>2
        <3>2. /\ n = permission_requests[k].ask =>
                    \/ permission_requests[k].status = answered[k][n]
                    \/ \E u \in Recording(k) : handler[u].decision = answered[k][n]
              /\ \A m \in RequestsFor(k) : m.ask # n
            BY <2>1, <3>1 DEF AnsweredInv
        <3> QED
            BY <2>1, <3>1, <3>2
    <2> QED
        BY <2>2 DEF AnsweredInv
<1> QED
    BY <1>1, <1>2, <1>3, <1>4, <1>5 DEF KeyInv

\* A key nobody has asked with stays so when its run is prompted.
LEMMA FreshKeeps ==
    ASSUME ConnectorInv, NEW k \in Keys, KeyInv(k), prompt[RunOf(k)] \in {"none", "assigned"},
           permission_requests'[k] = permission_requests[k],
           asked'[k] = asked[k], answered'[k] = answered[k],
           DecisionsFor(k)' = DecisionsFor(k), RequestsFor(k)' = RequestsFor(k)
    PROVE  KeyInv(k)'
<1>1. /\ asked'[k] = 0 /\ permission_requests'[k] = NoRow
      /\ DecisionsFor(k)' = {} /\ RequestsFor(k)' = {}
    BY DEF KeyInv, FreshInv
<1>2. DOMAIN answered'[k] = {} /\ ~Waiting(k)'
    <2>1. /\ AskTypes(k) /\ asked[k] = 0
        BY <1>1, RowFacts
    <2>2. Len(answered[k]) \in Nat /\ Len(answered[k]) \in {0, 0 - 1}
          /\ DOMAIN answered[k] = 1 .. Len(answered[k])
        BY <2>1, AskFacts DEF AskTypes
    <2>3. Len(answered[k]) = 0
        BY <2>2
    <2> QED
        BY <1>1, <2>2, <2>3 DEF Waiting, WaitingFor
<1>3. NoRow.ask = 0 /\ NoRow.status = "none" /\ Pending # "none"
    BY DEF NoRow, Pending
<1>4. NumbersInv(k)'
    BY <1>1, <1>3 DEF NumbersInv
<1>5. FreshInv(k)' /\ RecordedInv(k)'
    BY <1>1 DEF FreshInv, RecordedInv
<1>6. AttendedInv(k)'
    BY <1>1, <1>3 DEF AttendedInv
<1>7. AnsweredInv(k)' /\ ComingInv(k)'
    BY <1>2 DEF AnsweredInv, ComingInv
<1> QED
    BY <1>4, <1>5, <1>6, <1>7 DEF KeyInv

\* Without a call waiting for its send, none records for a key.
LEMMA NoneRecording ==
    ASSUME LoopFree, ~SendMaySuspend
    PROVE  /\ \A u \in Users : handler[u] = Idle
           /\ \A k \in Keys : Recording(k) = {}
    BY DEF LoopFree, Recording

\* The backend opens a request: the row becomes pending for the newest ask.
LEMMA RequestedKeepsKey ==
    ASSUME ConnectorInv, NEW k \in Keys, KeyInv(k),
           Recording(k) = {}, Recording(k)' = {},
           NEW m \in RequestsFor(k),
           permission_requests'[k] = [status |-> Pending, ask |-> m.ask],
           asked'[k] = asked[k], answered'[k] = answered[k],
           UNCHANGED <<cancelled, listening, link, conn, run_conn, prompt>>,
           DecisionsFor(k)' = DecisionsFor(k),
           RequestsFor(k)' \subseteq RequestsFor(k),
           RequestsFor(k) \subseteq RequestsFor(k)' \union {m},
           \A x \in RequestsFor(k)' : m.ask < x.ask
    PROVE  KeyInv(k)'
<1>1. /\ asked[k] \in Nat /\ permission_requests[k].ask \in Nat /\ m.ask \in Nat
      /\ \A x \in DecisionsFor(k) : x.ask \in Nat
      /\ \A x \in RequestsFor(k) : x.ask \in Nat
    BY ChannelFacts, RowFacts, AskFacts
<1>2. Waiting(k)' = Waiting(k) /\ Attended(k)' = Attended(k)
    BY DEF Waiting, WaitingFor, Attended
<1>3. /\ m.ask <= asked[k] /\ permission_requests[k].ask < m.ask
      /\ \A x \in DecisionsFor(k) : /\ 1 <= x.ask /\ x.ask <= asked[k]
                                    /\ \A y \in RequestsFor(k) : x.ask < y.ask
      /\ \A x \in RequestsFor(k) : x.ask <= asked[k]
    BY DEF KeyInv, NumbersInv
<1>4. permission_requests'[k].ask = m.ask /\ permission_requests'[k].status = Pending
    OBVIOUS
<1>5. NumbersInv(k)'
    <2>1. m.ask >= 1
        BY <1>1, <1>3
    <2> QED
        BY <1>3, <1>4, <2>1 DEF NumbersInv
<1>6. FreshInv(k)'
    BY DEF KeyInv, FreshInv
<1>7. RecordedInv(k)'
    <2>1. \A x \in DecisionsFor(k) : x.ask # m.ask
        BY <1>1, <1>3
    <2> QED
        BY <1>4, <2>1 DEF RecordedInv
<1>8. AttendedInv(k)'
    BY <1>2, <1>4 DEF KeyInv, AttendedInv
<1>9. AnsweredInv(k)'
    BY <1>4 DEF KeyInv, AnsweredInv
<1>10. ComingInv(k)'
    <2>1. ASSUME Waiting(k), IsUp(run_conn[RunOf(k)])
          PROVE  \/ \E x \in RequestsFor(k)' : x.ask = asked[k]
                 \/ /\ permission_requests'[k] = [status |-> Pending, ask |-> asked[k]]
                    /\ Recording(k)' = {}
                 \/ DecisionsFor(k)' # {}
        <3>1. permission_requests[k] # [status |-> Pending, ask |-> asked[k]]
            BY <1>1, <1>3
        <3>2. \/ \E x \in RequestsFor(k) : x.ask = asked[k]
              \/ DecisionsFor(k) # {}
            BY <2>1, <3>1 DEF KeyInv, ComingInv
        <3> QED
            BY <3>2
    <2>2. IsUp(run_conn[RunOf(k)])' = IsUp(run_conn[RunOf(k)])
        BY DEF IsUp
    <2> QED
        BY <1>2, <2>1, <2>2 DEF ComingInv
<1> QED
    BY <1>5, <1>6, <1>7, <1>8, <1>9, <1>10 DEF KeyInv

\* A decision is sent for the ask in the row.
LEMMA DecidedKeepsKey ==
    ASSUME ConnectorInv, NEW k \in Keys, KeyInv(k),
           Recording(k) = {}, permission_requests[k].status = Pending, link = "up",
           NEW m \in DownMessage, m.type = "run.permission.decision", m.key = k,
           m.ask = permission_requests[k].ask,
           NEW u \in Users, Recording(k)' = {u}, handler'[u].decision = m.decision,
           permission_requests'[k] = permission_requests[k],
           asked'[k] = asked[k], answered'[k] = answered[k],
           UNCHANGED <<cancelled, listening, link, conn, run_conn, prompt>>,
           DecisionsFor(k)' = DecisionsFor(k) \union {m},
           RequestsFor(k)' = RequestsFor(k)
    PROVE  /\ KeyInv(k)' /\ \A x \in DecisionsFor(k) : x.ask # m.ask
<1>1. /\ asked[k] \in Nat /\ permission_requests[k].ask \in Nat
      /\ \A x \in DecisionsFor(k) : x.ask \in Nat /\ x.decision \in Decisions
      /\ \A x \in RequestsFor(k) : x.ask \in Nat
      /\ permission_requests[k] # NoRow /\ AskTypes(k)
    BY ChannelFacts, RowFacts, AskFacts
<1>2. Waiting(k)' = Waiting(k) /\ Attended(k)' = Attended(k)
    BY DEF Waiting, WaitingFor, Attended
<1>3. NumbersInv(k) /\ FreshInv(k) /\ RecordedInv(k) /\ AttendedInv(k) /\ AnsweredInv(k)
    BY DEF KeyInv
<1>4. \A x \in DecisionsFor(k) : x.ask # m.ask
    BY <1>1, <1>3, Settings DEF RecordedInv
<1>5. NumbersInv(k)'
    BY <1>1, <1>3 DEF NumbersInv
<1>6. FreshInv(k)'
    BY <1>1, <1>3 DEF FreshInv
<1>7. RecordedInv(k)'
    <2>1. \A x \in DecisionsFor(k) : x.ask # permission_requests'[k].ask
        BY <1>4
    <2>2. \E v \in Recording(k)' : handler'[v].decision = m.decision
        OBVIOUS
    <2> QED
        BY <2>1, <2>2 DEF RecordedInv
<1>8. AttendedInv(k)'
    <2>1. ASSUME Attended(k)
          PROVE  Waiting(k) /\ m.ask = asked[k] /\ DecisionsFor(k) = {}
        BY <1>3, <2>1 DEF AttendedInv
    <2>2. ASSUME Attended(k)
          PROVE  RequestsFor(k) = {}
        <3>1. \A x \in RequestsFor(k) : asked[k] < x.ask /\ x.ask <= asked[k]
            BY <1>3, <2>1, <2>2 DEF NumbersInv
        <3> QED
            BY <1>1, <3>1
    <2> QED
        BY <1>2, <2>1, <2>2 DEF AttendedInv
<1>9. AnsweredInv(k)'
    <2>1. \A n \in DOMAIN answered[k] : answered[k][n] \in Decisions
        BY <1>1, ElementOfSeq, LenProperties DEF AskTypes
    <2>2. ASSUME RunOf(k) \notin cancelled, NEW n \in DOMAIN answered[k],
                 answered[k][n] # Cancelled
          PROVE  n # permission_requests[k].ask /\ \A x \in RequestsFor(k) : x.ask # n
        <3>1. permission_requests[k].status # answered[k][n]
            BY <2>1, Settings
        <3> QED
            BY <1>3, <2>2, <3>1 DEF AnsweredInv
    <2> QED
        BY <2>2 DEF AnsweredInv
<1>10. ComingInv(k)'
    BY DEF ComingInv
<1> QED
    BY <1>4, <1>5, <1>6, <1>7, <1>8, <1>9, <1>10 DEF KeyInv

\* The handler records the decision it sent.
LEMMA RecordedKeepsKey ==
    ASSUME ConnectorInv, NEW k \in Keys, KeyInv(k),
           NEW u \in Users, Recording(k) = {u}, handler[u].decision \in Decisions,
           Recording(k)' = {}, permission_requests[k].status = Pending,
           permission_requests'[k] = [status |-> handler[u].decision,
                                      ask |-> permission_requests[k].ask],
           asked'[k] = asked[k], answered'[k] = answered[k],
           UNCHANGED <<cancelled, listening, link, conn, run_conn, prompt>>,
           DecisionsFor(k)' = DecisionsFor(k), RequestsFor(k)' = RequestsFor(k)
    PROVE  KeyInv(k)'
<1> DEFINE d == handler[u].decision
<1>1. /\ \A x \in DecisionsFor(k) : x.decision \in Decisions
      /\ permission_requests[k] # NoRow /\ AskTypes(k)
    BY ChannelFacts, RowFacts
<1>2. Waiting(k)' = Waiting(k) /\ Attended(k)' = Attended(k)
    BY DEF Waiting, WaitingFor, Attended
<1>3. /\ NumbersInv(k) /\ FreshInv(k) /\ RecordedInv(k) /\ AttendedInv(k)
      /\ AnsweredInv(k) /\ ComingInv(k)
    BY DEF KeyInv
<1>4. /\ permission_requests'[k].ask = permission_requests[k].ask
      /\ permission_requests'[k].status = d /\ d # Pending
    BY Settings
<1> HIDE DEF d
<1>5. NumbersInv(k)'
    BY <1>1, <1>3, <1>4 DEF NumbersInv
<1>6. FreshInv(k)'
    BY <1>1, <1>3 DEF FreshInv
<1>7. RecordedInv(k)'
    <2>1. ASSUME NEW x \in DecisionsFor(k), x.ask = permission_requests[k].ask
          PROVE  x.decision = d
        BY <1>1, <1>3, <2>1, Settings DEF RecordedInv, d
    <2> QED
        BY <1>4, <2>1 DEF RecordedInv
<1>8. AttendedInv(k)'
    BY <1>2, <1>3, <1>4 DEF AttendedInv
<1>9. AnsweredInv(k)'
    <2>1. \A n \in DOMAIN answered[k] : answered[k][n] \in Decisions
        BY <1>1, ElementOfSeq, LenProperties DEF AskTypes
    <2>2. ASSUME RunOf(k) \notin cancelled, NEW n \in DOMAIN answered[k],
                 answered[k][n] # Cancelled
          PROVE  /\ n = permission_requests[k].ask => answered[k][n] = d
                 /\ \A x \in RequestsFor(k) : x.ask # n
        <3>1. permission_requests[k].status # answered[k][n]
            BY <2>1, Settings
        <3> QED
            BY <1>3, <2>2, <3>1 DEF AnsweredInv, d
    <2> QED
        BY <1>4, <2>2 DEF AnsweredInv
<1>10. ComingInv(k)'
    <2>1. IsUp(run_conn[RunOf(k)])' = IsUp(run_conn[RunOf(k)])
        BY DEF IsUp
    <2> QED
        BY <1>2, <1>3, <2>1 DEF ComingInv
<1> QED
    BY <1>5, <1>6, <1>7, <1>8, <1>9, <1>10 DEF KeyInv

\* The rows of a run that is over are removed.
LEMMA RemovedKeepsKey ==
    ASSUME ConnectorInv, NEW k \in Keys, KeyInv(k), WaiterInv(k), EndInv(RunOf(k)),
           run_status[RunOf(k)] = "ended",
           permission_requests'[k] = NoRow,
           asked'[k] = asked[k], answered'[k] = answered[k],
           UNCHANGED <<cancelled, listening, link, conn, run_conn, prompt>>,
           DecisionsFor(k)' = DecisionsFor(k), RequestsFor(k)' = RequestsFor(k)
    PROVE  KeyInv(k)'
<1>1. /\ asked[k] \in Nat /\ permission_requests[k].ask \in Nat /\ AskTypes(k)
      /\ NoRow.ask = 0 /\ NoRow.status = "none" /\ Pending # "none"
      /\ \A x \in DecisionsFor(k) : x.ask \in Nat
      /\ \A x \in RequestsFor(k) : x.ask \in Nat
      /\ DOMAIN answered[k] = 1 .. Len(answered[k]) /\ Len(answered[k]) \in Nat
    BY ChannelFacts, RowFacts, AskFacts DEF Pending
<1>2. Waiting(k)' = Waiting(k) /\ Attended(k)' = Attended(k)
    BY DEF Waiting, WaitingFor, Attended
<1>3. /\ NumbersInv(k) /\ AttendedInv(k) /\ AnsweredInv(k) /\ FreshInv(k)
    BY DEF KeyInv
<1>4. ~IsUp(run_conn[RunOf(k)]) \/ prompt[RunOf(k)] = "done"
    BY DEF EndInv
<1>5. NumbersInv(k)'
    BY <1>1, <1>3 DEF NumbersInv
<1>6. FreshInv(k)'
    BY <1>3 DEF FreshInv
<1>7. RecordedInv(k)'
    <2>1. \A x \in DecisionsFor(k) : x.ask # 0
        BY <1>1, <1>3 DEF NumbersInv
    <2> QED
        BY <1>1, <2>1 DEF RecordedInv
<1>8. AttendedInv(k)'
    BY <1>2, <1>3, <1>4 DEF AttendedInv, Attended, IsUp
<1>9. AnsweredInv(k)'
    <2>1. 0 \notin DOMAIN answered[k]
        BY <1>1
    <2> QED
        BY <1>1, <1>3, <2>1 DEF AnsweredInv
<1>10. ComingInv(k)'
    BY <1>2, <1>4 DEF ComingInv, WaiterInv, IsUp
<1> QED
    BY <1>5, <1>6, <1>7, <1>8, <1>9, <1>10 DEF KeyInv

\* The agent asks: ask n of a key follows the answer to ask n - 1.
LEMMA AskKeepsKey ==
    ASSUME ConnectorInv, NEW k \in Keys, KeyInv(k), prompt[RunOf(k)] = "prompting",
           ~Waiting(k), asked'[k] = asked[k] + 1,
           permission_requests'[k] = permission_requests[k],
           Recording(k)' = Recording(k),
           \A u \in Recording(k) : handler'[u].decision = handler[u].decision,
           UNCHANGED <<cancelled, listening, link, conn, run_conn, prompt>>,
           DecisionsFor(k)' = DecisionsFor(k),
           \/ /\ IsUp(run_conn[RunOf(k)]) /\ answered'[k] = answered[k]
              /\ \E m \in UpMessage : /\ m.ask = asked[k] + 1
                                      /\ RequestsFor(k)' = RequestsFor(k) \union {m}
           \/ /\ ~IsUp(run_conn[RunOf(k)]) /\ RequestsFor(k)' = RequestsFor(k)
              /\ answered'[k] = Append(answered[k], Cancelled)
    PROVE  KeyInv(k)'
<1> DEFINE n == asked[k] + 1
<1>1. /\ asked[k] \in Nat /\ permission_requests[k].ask \in Nat /\ AskTypes(k)
      /\ Len(answered[k]) = asked[k]
      /\ DOMAIN answered[k] = 1 .. asked[k] /\ RunOf(k) \in Runs
      /\ \A x \in DecisionsFor(k) : x.ask \in Nat
      /\ \A x \in RequestsFor(k) : x.ask \in Nat
    BY ChannelFacts, RowFacts, AskFacts
<1>2. /\ Attended(k)' = Attended(k) /\ listening \in BOOLEAN
      /\ IsUp(run_conn[RunOf(k)])' = IsUp(run_conn[RunOf(k)])
      /\ Attended(k) /\ link = "up" => IsUp(run_conn[RunOf(k)])
    BY DEF Attended, IsUp, ConnectorInv, PermissionsTypeOK
<1>3. /\ NumbersInv(k) /\ FreshInv(k) /\ RecordedInv(k) /\ AttendedInv(k)
      /\ AnsweredInv(k)
    BY DEF KeyInv
<1>4. /\ n \in Nat /\ n > asked[k] /\ n \notin DOMAIN answered[k]
      /\ \A x \in DecisionsFor(k) : x.ask < n /\ x.ask <= n
      /\ \A x \in RequestsFor(k) : x.ask <= n
      /\ permission_requests[k].ask < n /\ permission_requests[k].ask <= n
    BY <1>1, <1>3 DEF NumbersInv
<1>11. /\ permission_requests[k] = NoRow \/ permission_requests[k].ask >= 1
       /\ \A x \in RequestsFor(k) : permission_requests[k].ask < x.ask
       /\ \A x \in DecisionsFor(k) : /\ 1 <= x.ask
                                     /\ \A y \in RequestsFor(k) : x.ask < y.ask
    BY <1>3 DEF NumbersInv
<1>5. Attended(k) => DecisionsFor(k) = {}
    BY <1>3 DEF AttendedInv
<1>6. Attended(k) /\ link = "up" =>
         /\ RequestsFor(k) = {}
         /\ permission_requests[k].status = Pending => Recording(k) # {}
    BY <1>3 DEF AttendedInv
<1> HIDE DEF n
<1>7. FreshInv(k)'
    BY DEF FreshInv
<1>8. RecordedInv(k)'
    BY <1>3 DEF RecordedInv
<1>9. CASE /\ IsUp(run_conn[RunOf(k)]) /\ answered'[k] = answered[k]
           /\ \E m \in UpMessage : /\ m.ask = asked[k] + 1
                                   /\ RequestsFor(k)' = RequestsFor(k) \union {m}
    <2>1. PICK m \in UpMessage : m.ask = n /\ RequestsFor(k)' = RequestsFor(k) \union {m}
        BY <1>9 DEF n
    <2>2. asked'[k] = n /\ answered'[k] = answered[k]
        BY <1>9 DEF n
    <2>3. NumbersInv(k)'
        <3>1. ASSUME NEW x \in RequestsFor(k)'
              PROVE  x.ask <= n /\ permission_requests[k].ask < x.ask
            <4>1. CASE x \in RequestsFor(k)
                BY <1>4, <1>11, <4>1
            <4>2. CASE x = m
                <5>1. x.ask = n
                    BY <2>1, <4>2
                <5>2. n <= n /\ permission_requests[k].ask < n
                    BY <1>4
                <5> QED
                    BY <5>1, <5>2
            <4> QED
                BY <2>1, <4>1, <4>2
        <3>2. \A x \in DecisionsFor(k) : \A y \in RequestsFor(k)' : x.ask < y.ask
            BY <1>4, <1>11, <2>1
        <3>3. \A x \in DecisionsFor(k) : 1 <= x.ask /\ x.ask <= n
            BY <1>4, <1>11
        <3>4. permission_requests[k].ask <= n
            BY <1>4
        <3>5. permission_requests[k] = NoRow \/ permission_requests[k].ask >= 1
            BY <1>11
        <3> QED
            BY <2>2, <3>1, <3>2, <3>3, <3>4, <3>5 DEF NumbersInv
    <2>4. Waiting(k)'
        BY <1>1, <1>4, <2>2 DEF Waiting, WaitingFor
    <2>5. AttendedInv(k)'
        BY <1>2, <1>5, <1>6, <2>1, <2>2, <2>4 DEF AttendedInv
    <2>6. AnsweredInv(k)'
        BY <1>3, <1>4, <2>1, <2>2 DEF AnsweredInv
    <2>7. ComingInv(k)'
        BY <2>1, <2>2 DEF ComingInv
    <2> QED
        BY <1>7, <1>8, <2>3, <2>5, <2>6, <2>7 DEF KeyInv
<1>10. CASE /\ ~IsUp(run_conn[RunOf(k)]) /\ RequestsFor(k)' = RequestsFor(k)
            /\ answered'[k] = Append(answered[k], Cancelled)
    <2>1. asked'[k] = n /\ n = Len(answered[k]) + 1
        BY <1>1 DEF n
    <2>2. /\ Len(answered'[k]) = n
          /\ DOMAIN answered'[k] = 1 .. n
          /\ \A j \in 1 .. asked[k] : answered'[k][j] = answered[k][j]
          /\ answered'[k][n] = Cancelled
        BY <1>1, <1>10, <2>1, AppendProperties, LenProperties, Settings DEF AskTypes
    <2>3. NumbersInv(k)'
        <3>1. asked'[k] = n
            BY <2>1
        <3>2. RequestsFor(k)' = RequestsFor(k)
            BY <1>10
        <3> QED
            BY <1>4, <1>11, <3>1, <3>2
               DEF NumbersInv
    <2>4. ~Waiting(k)'
        BY <1>4, <2>1, <2>2 DEF Waiting, WaitingFor
    <2>5. AttendedInv(k)'
        BY <1>2, <1>5, <1>10 DEF AttendedInv
    <2>6. \A j \in DOMAIN answered'[k] : answered'[k][j] # Cancelled =>
             j \in DOMAIN answered[k] /\ answered[k][j] = answered'[k][j]
        <3>1. \A j \in 1 .. n : j = n \/ j \in 1 .. asked[k]
            BY <1>1, <1>4 DEF n
        <3> QED
            BY <1>1, <2>2, <3>1
    <2>7. ASSUME RunOf(k) \notin cancelled, NEW j \in DOMAIN answered'[k],
                 answered'[k][j] # Cancelled
          PROVE  /\ j = permission_requests[k].ask =>
                       \/ permission_requests[k].status = answered'[k][j]
                       \/ \E u \in Recording(k) : handler[u].decision = answered'[k][j]
                 /\ \A x \in RequestsFor(k) : x.ask # j
        <3>1. j \in DOMAIN answered[k] /\ answered[k][j] = answered'[k][j]
            BY <2>6, <2>7
        <3> QED
            BY <1>3, <2>7, <3>1 DEF AnsweredInv
    <2>8. AnsweredInv(k)'
        BY <1>10, <2>7 DEF AnsweredInv
    <2>9. ComingInv(k)'
        BY <2>4 DEF ComingInv
    <2> QED
        BY <1>7, <1>8, <2>3, <2>5, <2>8, <2>9 DEF KeyInv
<1> QED
    BY <1>9, <1>10

\* A decision reaches the agent: it is for the ask the agent waits for, and the
\* one the row holds or will hold.
LEMMA DeliveredKeepsKey ==
    ASSUME ConnectorInv, NEW k \in Keys, KeyInv(k), WaiterInv(k),
           NEW m \in DecisionsFor(k),
           permission_requests'[k] = permission_requests[k], asked'[k] = asked[k],
           ~Waiting(k)',
           ~Waiting(k) => answered'[k] = answered[k],
           Waiting(k) => /\ DOMAIN answered'[k] = DOMAIN answered[k] \union {asked[k]}
                         /\ answered'[k][asked[k]] = m.decision
                         /\ \A n \in DOMAIN answered[k] : answered'[k][n] = answered[k][n],
           Recording(k)' = Recording(k),
           \A u \in Recording(k) : handler'[u].decision = handler[u].decision,
           UNCHANGED <<cancelled, listening, link, conn, run_conn, prompt>>,
           DecisionsFor(k)' \subseteq DecisionsFor(k),
           \A x \in DecisionsFor(k)' : x.ask # m.ask,
           RequestsFor(k)' = RequestsFor(k)
    PROVE  KeyInv(k)'
<1>1. /\ m.ask \in Nat /\ \A x \in RequestsFor(k) : x.ask \in Nat
    BY ChannelFacts
<1>2. Attended(k)' = Attended(k)
    BY DEF Attended
<1>3. /\ NumbersInv(k) /\ FreshInv(k) /\ RecordedInv(k) /\ AttendedInv(k)
      /\ AnsweredInv(k)
    BY DEF KeyInv
<1>4. NumbersInv(k)'
    BY <1>3 DEF NumbersInv
<1>5. FreshInv(k)'
    BY <1>3 DEF FreshInv
<1>6. RecordedInv(k)'
    BY <1>3 DEF RecordedInv
<1>7. AttendedInv(k)'
    <2>1. ASSUME Attended(k)
          PROVE  DecisionsFor(k)' = {}
        <3>1. m.ask = asked[k] /\ \A x \in DecisionsFor(k) : x.ask = asked[k]
            BY <1>3, <2>1 DEF AttendedInv
        <3> QED
            BY <3>1
    <2>2. ASSUME Attended(k), link = "up"
          PROVE  /\ permission_requests[k].status = Pending => Recording(k) # {}
                 /\ RequestsFor(k) = {}
        BY <1>3, <2>2 DEF AttendedInv
    <2> QED
        BY <1>2, <2>1, <2>2 DEF AttendedInv
<1>8. ComingInv(k)'
    BY DEF ComingInv
<1>9. AnsweredInv(k)'
    <2>1. CASE ~Waiting(k)
        BY <1>3, <2>1 DEF AnsweredInv
    <2>2. ASSUME Waiting(k), RunOf(k) \notin cancelled, NEW n \in DOMAIN answered'[k],
                 answered'[k][n] # Cancelled
          PROVE  /\ n = permission_requests[k].ask =>
                       \/ permission_requests[k].status = answered'[k][n]
                       \/ \E u \in Recording(k) : handler[u].decision = answered'[k][n]
                 /\ \A x \in RequestsFor(k) : x.ask # n
        <3>1. CASE n \in DOMAIN answered[k]
            <4>1. answered'[k][n] = answered[k][n]
                BY <2>2, <3>1
            <4> QED
                BY <1>3, <2>2, <3>1, <4>1 DEF AnsweredInv
        <3>2. CASE n = asked[k]
            <4>1. Attended(k)
                BY <2>2 DEF WaiterInv, Attended
            <4>2. m.ask = n
                BY <1>3, <3>2, <4>1 DEF AttendedInv
            <4>3. answered'[k][n] = m.decision
                BY <2>2, <3>2
            <4>4. \A x \in RequestsFor(k) : x.ask # n
                BY <1>1, <1>3, <4>2 DEF NumbersInv
            <4> QED
                BY <1>3, <4>2, <4>3, <4>4 DEF RecordedInv
        <3> QED
            BY <2>2, <3>1, <3>2
    <2>3. CASE Waiting(k)
        BY <2>2, <2>3 DEF AnsweredInv
    <2> QED
        BY <2>1, <2>3
<1> QED
    BY <1>4, <1>5, <1>6, <1>7, <1>8, <1>9 DEF KeyInv
-----------------------------------------------------------------------------
(* While no send suspends: the steps.                                        *)

LEMMA AnswerWhole ==
    ASSUME ConnectorInv', Pairwise(down', DecidedApart), Pairwise(up', RequestedInOrder),
           \A c \in unregistering' : c <= conn' /\ ~IsUp(c)',
           \A r \in Runs : EndInv(r)', \A u \in Users : HandlerInv(u)',
           \A k \in Keys : KeyInv(k)'
    PROVE  AnswerInv'
    BY DEF AnswerInv

\* What a message that is no decision, or no request, does to the channels.
LEMMA DownOther ==
    ASSUME AnswerInv, NEW m \in DownMessage, m.type # "run.permission.decision",
           down' = Append(down, m) \/ down' = down
    PROVE  /\ \A k \in Keys : DecisionsFor(k)' = DecisionsFor(k)
           /\ Pairwise(down', DecidedApart) /\ In(down') \subseteq In(down) \union {m}
<1>1. down \in Seq(DownMessage) /\ Pairwise(down, DecidedApart)
    BY AnswerParts, ConnectorFacts
<1>2. \A x \in In(down) : x \in DownMessage
    BY AnswerParts, ChannelFacts
<1>3. \A x \in In(down) : <<x, m>> \in DecidedApart
    BY <1>2 DEF DecidedApart
<1>4. CASE down' = Append(down, m)
    <2>1. In(down') = In(down) \union {m} /\ Pairwise(down', DecidedApart)
        BY <1>1, <1>3, <1>4, Sent
    <2> QED
        BY <2>1 DEF DecisionsFor
<1>5. CASE down' = down
    BY <1>1, <1>5 DEF DecisionsFor
<1> QED
    BY <1>4, <1>5

LEMMA UpOther ==
    ASSUME AnswerInv, NEW m \in UpMessage, m.type # "run.permission.requested",
           up' = Append(up, m) \/ up' = up
    PROVE  /\ \A k \in Keys : RequestsFor(k)' = RequestsFor(k)
           /\ Pairwise(up', RequestedInOrder) /\ In(up') \subseteq In(up) \union {m}
<1>1. up \in Seq(UpMessage) /\ Pairwise(up, RequestedInOrder)
    BY AnswerParts, ConnectorFacts
<1>2. \A x \in In(up) : x \in UpMessage
    BY AnswerParts, ChannelFacts
<1>3. \A x \in In(up) : <<x, m>> \in RequestedInOrder
    BY <1>2 DEF RequestedInOrder
<1>4. CASE up' = Append(up, m)
    <2>1. In(up') = In(up) \union {m} /\ Pairwise(up', RequestedInOrder)
        BY <1>1, <1>3, <1>4, Sent
    <2> QED
        BY <2>1 DEF RequestsFor
<1>5. CASE up' = up
    BY <1>1, <1>5 DEF RequestsFor
<1> QED
    BY <1>4, <1>5

LEMMA SameDown ==
    ASSUME AnswerInv, down' = down
    PROVE  /\ \A k \in Keys : DecisionsFor(k)' = DecisionsFor(k)
           /\ Pairwise(down', DecidedApart) /\ In(down') = In(down)
    BY DEF AnswerInv, DecisionsFor

LEMMA SameUp ==
    ASSUME AnswerInv, up' = up
    PROVE  /\ \A k \in Keys : RequestsFor(k)' = RequestsFor(k)
           /\ Pairwise(up', RequestedInOrder) /\ In(up') = In(up)
    BY DEF AnswerInv, RequestsFor

\* Handlers and rows that a step leaves alone.
LEMMA SameHandlers ==
    ASSUME handler' = handler
    PROVE  \A k \in Keys : /\ Recording(k)' = Recording(k)
                           /\ \A u \in Recording(k) : handler'[u].decision = handler[u].decision
    BY DEF Recording

LEMMA HandlersStay ==
    ASSUME AnswerInv, handler' = handler, permission_requests' = permission_requests,
           link = "closed" => link' = "closed"
    PROVE  \A u \in Users : HandlerInv(u)'
    BY AnswerParts DEF HandlerInv

LEMMA HandlersIdle ==
    ASSUME LoopFree, ~SendMaySuspend, handler' = handler
    PROVE  \A u \in Users : HandlerInv(u)'
    BY DEF LoopFree, HandlerInv

\* Runs that a step leaves alone, or that it brings forward.
LEMMA RunsStay ==
    ASSUME AnswerInv, prompt' = prompt, run_conn' = run_conn, conn' = conn, link' = link,
           cancelled \subseteq cancelled',
           unregistering' \subseteq unregistering,
           \A r \in Runs : run_status'[r] \in {"ended", "removed"} =>
                \/ run_status[r] \in {"ended", "removed"}
                \/ ~IsUp(run_conn[r]) \/ prompt[r] = "done",
           In(up') \subseteq In(up),
           \A r \in Runs : RunMessage("run.cancel", r) \in In(down') =>
                RunMessage("run.cancel", r) \in In(down) \/ r \in cancelled'
    PROVE  (\A c \in unregistering' : c <= conn' /\ ~IsUp(c)') /\ \A r \in Runs : EndInv(r)'
    BY AnswerParts DEF EndInv, IsUp
\* A backend step of which a key learns nothing.
LEMMA QuietBackendStep ==
    ASSUME NEW k \in Keys, permission_requests'[k] = permission_requests[k],
           UNCHANGED <<asked, answered, prompt, listening, link, conn, run_conn>>,
           Recording(k)' = Recording(k),
           \A u \in Recording(k) : handler'[u].decision = handler[u].decision,
           cancelled \subseteq cancelled',
           DecisionsFor(k)' = DecisionsFor(k), RequestsFor(k)' = RequestsFor(k)
    PROVE  Quiet(k)
<1>1. IsUp(run_conn[RunOf(k)])' = IsUp(run_conn[RunOf(k)])
    BY DEF IsUp
<1>2. Attended(k)' => Attended(k)
    BY DEF Attended
<1> QED
    BY <1>1, <1>2 DEF Quiet

LEMMA AssignKeepsAnswers ==
    ASSUME AnswerInv, ~SendMaySuspend, NEW r \in Runs, AssignRun(r)
    PROVE  AnswerInv'
<1> DEFINE m == RunMessage("run.assign", r)
<1>1. /\ LoopFree /\ run_status[r] = "queued"
      /\ run_conn' = [run_conn EXCEPT ![r] = registered]
      /\ run_status' = [run_status EXCEPT ![r] = "running"]
      /\ down' = Append(down, m)
      /\ UNCHANGED <<permission_requests, handler, unregistering, cancelled, connectorVars,
                     agentVars, conn, link, up>>
    BY DEF AssignRun
<1>2. ConnectorInv /\ ConnectorInv'
    BY AnswerParts, AssignKeeps
<1>3. /\ BackendTypes /\ ConnectorTypes /\ \A r2 \in Runs : RunInv(r2)
      /\ \A k \in Keys : WaiterInv(k)
    BY <1>2, ConnectorFacts
<1>4. run_conn \in [Runs -> 0 .. MaxConns] /\ run_status \in [Runs -> {"queued", "running", "ended", "removed"}]
    BY <1>3 DEF BackendTypes, ConnectorTypes
<1>5. /\ m \in DownMessage /\ m.type # "run.permission.decision"
      /\ \A r2 \in Runs : RunMessage("run.cancel", r2) # m
    BY Messages DEF RunMessage
<1> HIDE DEF m
<1>6. /\ \A k \in Keys : DecisionsFor(k)' = DecisionsFor(k)
      /\ Pairwise(down', DecidedApart) /\ In(down') \subseteq In(down) \union {m}
    BY <1>1, <1>5, DownOther
<1>7. /\ \A k \in Keys : RequestsFor(k)' = RequestsFor(k)
      /\ Pairwise(up', RequestedInOrder) /\ In(up') = In(up)
    BY <1>1, SameUp
<1>8. \A u \in Users : HandlerInv(u)'
    BY <1>1, HandlersIdle
<1>9. prompt' = prompt /\ prompt[r] = "none"
    BY <1>1, <1>3 DEF RunInv, connectorVars
<1>10. \A r2 \in Runs : EndInv(r2)'
    <2>1. ASSUME NEW r2 \in Runs
          PROVE  EndInv(r2)'
        <3>1. EndInv(r2) /\ RunMessage("run.cancel", r2) # m
            BY <1>5, AnswerParts
        <3>2. RunMessage("run.cancel", r2) \in In(down') => RunMessage("run.cancel", r2) \in In(down)
            BY <1>6, <3>1
        <3>3. CASE r2 = r
            <4>1. run_status'[r2] = "running"
                BY <1>1, <1>4, <3>3
            <4> QED
                BY <1>1, <1>7, <1>9, <3>1, <3>2, <4>1 DEF EndInv
        <3>4. CASE r2 # r
            <4>1. run_status'[r2] = run_status[r2] /\ run_conn'[r2] = run_conn[r2]
                BY <1>1, <1>4, <3>4
            <4> QED
                BY <1>1, <1>7, <1>9, <3>1, <3>2, <4>1 DEF EndInv, IsUp
        <3> QED
            BY <3>3, <3>4
    <2> QED
        BY <2>1
<1>11. \A c \in unregistering' : c <= conn' /\ ~IsUp(c)'
    BY <1>1, AnswerParts DEF IsUp
<1>12. ASSUME NEW k \in Keys
       PROVE  KeyInv(k)'
    <2>1. KeyInv(k) /\ WaiterInv(k) /\ RunOf(k) \in Runs
        BY <1>3, AnswerParts, KeyFacts
    <2>2. /\ permission_requests' = permission_requests /\ asked' = asked /\ answered' = answered
          /\ cancelled' = cancelled /\ listening' = listening /\ link' = link /\ conn' = conn
        BY <1>1 DEF agentVars, connectorVars
    <2>3. Recording(k)' = Recording(k)
          /\ \A u \in Recording(k) : handler'[u].decision = handler[u].decision
        BY <1>1, SameHandlers
    <2>4. CASE RunOf(k) = r
        <3>1. ~Attended(k)' /\ ~Waiting(k)'
            BY <1>9, <2>1, <2>2, <2>4 DEF Attended, WaiterInv, Waiting, WaitingFor
        <3> QED
            BY <1>6, <1>7, <1>9, <2>1, <2>2, <2>3, <3>1, QuietKeeps DEF Quiet
    <2>5. CASE RunOf(k) # r
        <3>1. run_conn'[RunOf(k)] = run_conn[RunOf(k)]
            BY <1>1, <1>4, <2>1, <2>5
        <3>2. Attended(k)' = Attended(k) /\ IsUp(run_conn[RunOf(k)])' = IsUp(run_conn[RunOf(k)])
            BY <1>9, <2>2, <3>1 DEF Attended, IsUp
        <3> QED
            BY <1>6, <1>7, <1>9, <2>1, <2>2, <2>3, <3>2, QuietKeeps DEF Quiet
    <2> QED
        BY <2>4, <2>5
<1> QED
    BY <1>2, <1>6, <1>7, <1>8, <1>10, <1>11, <1>12, AnswerWhole

\* What the backend takes from the channel.
LEMMA BackendReadFacts ==
    ASSUME AnswerInv, BackendReads
    PROVE  /\ LoopFree /\ Head(up) \in In(up) /\ Head(up) \in UpMessage
           /\ In(up') \subseteq In(up) /\ In(up) \subseteq In(up') \union {Head(up)}
           /\ Pairwise(up', RequestedInOrder)
           /\ \A x \in In(up') : <<Head(up), x>> \in RequestedInOrder
           /\ UNCHANGED <<run_conn, handler, registered, unregistering, cancelled,
                          connectorVars, agentVars, conn, link, down>>
<1>1. up \in Seq(UpMessage) /\ Pairwise(up, RequestedInOrder) /\ up # <<>> /\ up' = Tail(up)
    BY AnswerParts, ConnectorFacts DEF BackendReads
<1>2. /\ Head(up) \in In(up) /\ Head(up) \in UpMessage
      /\ In(Tail(up)) \subseteq In(up) /\ In(up) \subseteq In(Tail(up)) \union {Head(up)}
      /\ Pairwise(Tail(up), RequestedInOrder)
      /\ \A x \in In(Tail(up)) : <<Head(up), x>> \in RequestedInOrder
    BY <1>1, Taken
<1> QED
    BY <1>1, <1>2 DEF BackendReads

LEMMA BackendReadsKeepsAnswers ==
    ASSUME AnswerInv, ~SendMaySuspend, BackendReads
    PROVE  AnswerInv'
<1> DEFINE m == Head(up)
<1>1. /\ LoopFree /\ m \in In(up) /\ m \in UpMessage
      /\ In(up') \subseteq In(up) /\ In(up) \subseteq In(up') \union {m}
      /\ Pairwise(up', RequestedInOrder)
      /\ \A x \in In(up') : <<m, x>> \in RequestedInOrder
      /\ UNCHANGED <<run_conn, handler, registered, unregistering, cancelled,
                     connectorVars, agentVars, conn, link, down>>
    BY BackendReadFacts
<1>2. ConnectorInv /\ ConnectorInv'
    BY AnswerParts, BackendReadsKeeps
<1>3. \/ m.type = "run.permission.requested" /\ HandleRequested(m)
      \/ m.type = "run.ended" /\ HandleEnded(m)
    BY DEF BackendReads
<1> HIDE DEF m
<1>4. BackendTypes
    BY <1>2, ConnectorFacts
<1>5. /\ \A k \in Keys : DecisionsFor(k)' = DecisionsFor(k)
      /\ Pairwise(down', DecidedApart) /\ In(down') = In(down)
    BY <1>1, SameDown
<1>6. \A u \in Users : HandlerInv(u)'
    BY <1>1, HandlersIdle
<1>7. \A k \in Keys : Recording(k) = {} /\ Recording(k)' = {}
    BY <1>1, NoneRecording, SameHandlers
<1>8. CASE m.type = "run.permission.requested" /\ HandleRequested(m)
    <2>1. /\ run_status' = run_status
          /\ permission_requests' = [permission_requests EXCEPT ![m.key] =
                                        [status |-> Pending, ask |-> m.ask]]
        BY <1>8 DEF HandleRequested, CreatePermissionRequest
    <2>2. m.key \in Keys /\ m \in RequestsFor(m.key)
        BY <1>1, <1>8 DEF UpMessage, RequestsFor
    <2>3. ASSUME NEW k \in Keys
          PROVE  KeyInv(k)'
        <3>1. KeyInv(k)
            BY AnswerParts
        <3>2. CASE k = m.key
            <4>1. permission_requests'[k] = [status |-> Pending, ask |-> m.ask]
                BY <1>4, <2>1, <2>2, <3>2 DEF BackendTypes
            <4>2. /\ RequestsFor(k)' \subseteq RequestsFor(k)
                  /\ RequestsFor(k) \subseteq RequestsFor(k)' \union {m}
                BY <1>1 DEF RequestsFor
            <4>3. \A x \in RequestsFor(k)' : m.ask < x.ask
                BY <1>1, <1>8, <3>2 DEF RequestsFor, RequestedInOrder
            <4>4. /\ asked'[k] = asked[k] /\ answered'[k] = answered[k]
                  /\ UNCHANGED <<cancelled, listening, link, conn, run_conn, prompt>>
                BY <1>1 DEF agentVars, connectorVars
            <4>5. m \in RequestsFor(k)
                BY <2>2, <3>2
            <4> QED
                BY <1>2, <1>5, <1>7, <3>1, <4>1, <4>2, <4>3, <4>4, <4>5, RequestedKeepsKey
        <3>3. CASE k # m.key
            <4>1. permission_requests'[k] = permission_requests[k]
                BY <1>4, <2>1, <3>3 DEF BackendTypes
            <4>2. RequestsFor(k)' = RequestsFor(k)
                BY <1>1, <3>3 DEF RequestsFor
            <4>3. UNCHANGED <<asked, answered, prompt, listening, link, conn, run_conn, cancelled>>
                BY <1>1 DEF agentVars, connectorVars
            <4>4. Quiet(k)
                BY <1>5, <1>7, <4>1, <4>2, <4>3, QuietBackendStep
            <4> QED
                BY <3>1, <4>4, QuietKeeps
        <3> QED
            BY <3>2, <3>3
    <2>4. (\A c \in unregistering' : c <= conn' /\ ~IsUp(c)') /\ \A r \in Runs : EndInv(r)'
        BY <1>1, <1>5, <2>1, RunsStay DEF connectorVars
    <2> QED
        BY <1>1, <1>2, <1>5, <1>6, <2>3, <2>4, AnswerWhole
<1>9. CASE m.type = "run.ended" /\ HandleEnded(m)
    <2>1. /\ permission_requests' = permission_requests
          /\ run_status' = [run_status EXCEPT ![m.run] = IF @ = "removed" THEN @ ELSE "ended"]
        BY <1>9 DEF HandleEnded
    <2>2. m.run \in Runs /\ m = RunMessage("run.ended", m.run)
        BY <1>1, <1>9 DEF UpMessage, RunMessage
    <2>3. prompt[m.run] = "done"
        <3>1. EndInv(m.run)
            BY <2>2, AnswerParts
        <3> QED
            BY <1>1, <2>2, <3>1 DEF EndInv
    <2>4. \A r \in Runs : run_status'[r] = run_status[r] \/ prompt[r] = "done"
        BY <1>4, <2>1, <2>3 DEF BackendTypes
    <2>5. \A k \in Keys : RequestsFor(k)' = RequestsFor(k)
        BY <1>1, <1>9 DEF RequestsFor
    <2>6. (\A c \in unregistering' : c <= conn' /\ ~IsUp(c)') /\ \A r \in Runs : EndInv(r)'
        BY <1>1, <1>5, <2>4, RunsStay DEF connectorVars
    <2>7. ASSUME NEW k \in Keys
          PROVE  KeyInv(k)'
        <3>1. UNCHANGED <<asked, answered, prompt, listening, link, conn, run_conn, cancelled>>
            BY <1>1 DEF agentVars, connectorVars
        <3>2. Quiet(k)
            BY <1>5, <1>7, <2>1, <2>5, <3>1, QuietBackendStep
        <3> QED
            BY <3>2, AnswerParts, QuietKeeps
    <2> QED
        BY <1>1, <1>2, <1>5, <1>6, <2>6, <2>7, AnswerWhole
<1> QED
    BY <1>3, <1>8, <1>9
\* What a decision does to the channel of the connector.
LEMMA DownDecision ==
    ASSUME AnswerInv, NEW m \in DownMessage, m.type = "run.permission.decision",
           m.key \in Keys, down' = Append(down, m)
    PROVE  /\ DecisionsFor(m.key)' = DecisionsFor(m.key) \union {m}
           /\ \A k \in Keys : k # m.key => DecisionsFor(k)' = DecisionsFor(k)
           /\ In(down') = In(down) \union {m}
           /\ (\A x \in DecisionsFor(m.key) : x.ask # m.ask) => Pairwise(down', DecidedApart)
<1>1. down \in Seq(DownMessage) /\ Pairwise(down, DecidedApart)
    BY AnswerParts, ConnectorFacts
<1>2. \A x \in In(down) : x \in DownMessage
    BY AnswerParts, ChannelFacts
<1>3. In(down') = In(down) \union {m}
    BY <1>1, Sent
<1>4. ASSUME \A x \in DecisionsFor(m.key) : x.ask # m.ask
      PROVE  Pairwise(down', DecidedApart)
    <2>1. \A x \in In(down) : <<x, m>> \in DecidedApart
        BY <1>2, <1>4 DEF DecidedApart, DecisionsFor
    <2> QED
        BY <1>1, <2>1, Sent
<1> QED
    BY <1>3, <1>4 DEF DecisionsFor

LEMMA DecideKeepsAnswers ==
    ASSUME AnswerInv, ~SendMaySuspend,
           NEW u \in Users, NEW k \in Keys, NEW d \in Decisions, DecidePermission(u, k, d)
    PROVE  AnswerInv'
<1> DEFINE n == permission_requests[k].ask
<1> DEFINE h == [key |-> k, decision |-> d, ask |-> n, conn |-> registered,
                 doomed |-> ~IsUp(registered)]
<1> DEFINE m == Message("run.permission.decision", k, d, n)
<1>1. /\ LoopFree /\ permission_requests[k].status = Pending /\ registered # 0
      /\ handler' = [handler EXCEPT ![u] = h]
      /\ down' = IF IsUp(registered) THEN Append(down, m) ELSE down
      /\ UNCHANGED <<run_conn, run_status, permission_requests, unregistering,
                     cancelled, connectorVars, agentVars, conn, link, up>>
    BY DEF DecidePermission, CanDecide
<1>2. ConnectorInv /\ ConnectorInv'
    BY AnswerParts, DecideKeeps
<1>3. /\ handler \in [Users -> Handler \union {Idle}] /\ registered = conn
      /\ link \in {"up", "closed"}
    BY <1>1, <1>2, ConnectorFacts DEF BackendTypes, ConnectorTypes
<1>4. /\ permission_requests[k] = [status |-> Pending, ask |-> n] /\ n \in Asks
    BY <1>1, <1>2, RowFacts
<1>5. /\ m \in DownMessage /\ m.type = "run.permission.decision" /\ m.key = k
      /\ m.ask = n /\ m.decision = d
      /\ \A r \in Runs : RunMessage("run.cancel", r) # m
    BY <1>4, Messages DEF Message, RunMessage
<1>6. /\ h # Idle /\ h.key = k /\ h.decision = d /\ h.ask = n /\ h.doomed = ~IsUp(registered)
    BY KeyFacts DEF Idle
<1> HIDE DEF n, m, h
<1>7. /\ \A v \in Users : handler[v] = Idle
      /\ \A k2 \in Keys : Recording(k2) = {}
    BY <1>1, NoneRecording
<1>8. /\ handler'[u] = h /\ \A v \in Users : v # u => handler'[v] = Idle
    BY <1>1, <1>3, <1>7
<1>9. \A v \in Users : HandlerInv(v)'
    <2>1. ASSUME NEW v \in Users, handler'[v] # Idle
          PROVE  /\ permission_requests'[handler'[v].key]
                        = [status |-> Pending, ask |-> handler'[v].ask]
                 /\ handler'[v].doomed => link' = "closed"
                 /\ \A w \in Users : handler'[w] # Idle => w = v
        <3>1. v = u /\ handler'[v] = h
            BY <1>8, <2>1
        <3>2. h.doomed => link = "closed"
            BY <1>3, <1>6 DEF IsUp
        <3> QED
            BY <1>1, <1>4, <1>6, <1>8, <3>1, <3>2
    <2> QED
        BY <2>1 DEF HandlerInv
<1>10. /\ \A k2 \in Keys : RequestsFor(k2)' = RequestsFor(k2)
       /\ Pairwise(up', RequestedInOrder) /\ In(up') = In(up)
    BY <1>1, SameUp
<1>11. UNCHANGED <<asked, answered, prompt, listening, link, conn, run_conn, cancelled>>
    BY <1>1 DEF agentVars, connectorVars
<1>12. CASE IsUp(registered)
    <2>1. down' = Append(down, m) /\ link = "up"
        BY <1>1, <1>12 DEF IsUp
    <2>2. /\ DecisionsFor(k)' = DecisionsFor(k) \union {m}
          /\ \A k2 \in Keys : k2 # k => DecisionsFor(k2)' = DecisionsFor(k2)
          /\ In(down') = In(down) \union {m}
          /\ (\A x \in DecisionsFor(k) : x.ask # n) => Pairwise(down', DecidedApart)
        BY <1>5, <2>1, DownDecision
    <2>3. Recording(k)' = {u} /\ \A k2 \in Keys : k2 # k => Recording(k2)' = {}
        BY <1>6, <1>8, <1>12 DEF Recording
    <2>4. handler'[u].decision = m.decision
        BY <1>5, <1>6, <1>8
    <2>5. KeyInv(k) /\ permission_requests'[k] = permission_requests[k]
          /\ asked'[k] = asked[k] /\ answered'[k] = answered[k]
          /\ UNCHANGED <<cancelled, listening, link, conn, run_conn, prompt>>
        BY <1>1, <1>11, AnswerParts
    <2>6. KeyInv(k)' /\ \A x \in DecisionsFor(k) : x.ask # m.ask
        <3>1. /\ Recording(k) = {} /\ permission_requests[k].status = Pending /\ link = "up"
              /\ m.ask = permission_requests[k].ask /\ m.type = "run.permission.decision"
              /\ m.key = k /\ m \in DownMessage
            BY <1>1, <1>5, <1>7, <2>1 DEF n
        <3>2. /\ DecisionsFor(k)' = DecisionsFor(k) \union {m}
              /\ RequestsFor(k)' = RequestsFor(k) /\ Recording(k)' = {u}
            BY <1>10, <2>2, <2>3
        <3> QED
            BY <1>2, <2>4, <2>5, <3>1, <3>2, DecidedKeepsKey
    <2>7. ASSUME NEW k2 \in Keys, k2 # k
          PROVE  KeyInv(k2)'
        <3>1. Recording(k2) = {} /\ Recording(k2)' = {}
            BY <1>7, <2>3, <2>7
        <3>2. DecisionsFor(k2)' = DecisionsFor(k2)
            BY <2>2, <2>7
        <3>3. Quiet(k2)
            BY <1>1, <1>10, <1>11, <3>1, <3>2, QuietBackendStep
        <3> QED
            BY <3>3, AnswerParts, QuietKeeps
    <2>8. (\A c \in unregistering' : c <= conn' /\ ~IsUp(c)') /\ \A r \in Runs : EndInv(r)'
        BY <1>1, <1>5, <1>10, <1>11, <2>2, RunsStay
    <2>9. Pairwise(down', DecidedApart)
        BY <1>5, <2>2, <2>6
    <2> QED
        BY <1>2, <1>9, <1>10, <2>6, <2>7, <2>8, <2>9, AnswerWhole
<1>13. CASE ~IsUp(registered)
    <2>1. down' = down
        BY <1>1, <1>13
    <2>2. /\ \A k2 \in Keys : DecisionsFor(k2)' = DecisionsFor(k2)
          /\ Pairwise(down', DecidedApart) /\ In(down') = In(down)
        BY <2>1, SameDown
    <2>3. \A k2 \in Keys : Recording(k2)' = {}
        BY <1>6, <1>8, <1>13 DEF Recording
    <2>4. ASSUME NEW k2 \in Keys
          PROVE  KeyInv(k2)'
        <3>1. Quiet(k2)
            BY <1>1, <1>7, <1>10, <1>11, <2>2, <2>3, QuietBackendStep
        <3> QED
            BY <3>1, AnswerParts, QuietKeeps
    <2>5. (\A c \in unregistering' : c <= conn' /\ ~IsUp(c)') /\ \A r \in Runs : EndInv(r)'
        BY <1>1, <1>10, <1>11, <2>2, RunsStay
    <2> QED
        BY <1>2, <1>9, <1>10, <2>2, <2>4, <2>5, AnswerWhole
<1> QED
    BY <1>12, <1>13

\* The one handler that waits for its send.
LEMMA TheHandler ==
    ASSUME AnswerInv, NEW u \in Users, handler[u] # Idle,
           handler' = [handler EXCEPT ![u] = Idle]
    PROVE  /\ handler[u].key \in Keys /\ handler[u].decision \in Decisions
           /\ permission_requests[handler[u].key]
                 = [status |-> Pending, ask |-> handler[u].ask]
           /\ permission_requests[handler[u].key] # NoRow
           /\ \A k \in Keys : Recording(k) \subseteq {u} /\ Recording(k)' = {}
           /\ \A k \in Keys : u \in Recording(k) <=> handler[u].key = k /\ ~handler[u].doomed
           /\ \A v \in Users : HandlerInv(v)'
<1>1. ConnectorInv /\ HandlerInv(u)
    BY AnswerParts
<1>2. handler \in [Users -> Handler \union {Idle}]
    BY <1>1, ConnectorFacts DEF BackendTypes
<1>3. handler[u].key \in Keys /\ handler[u].decision \in Decisions
    BY <1>2 DEF Handler
<1>4. /\ permission_requests[handler[u].key] = [status |-> Pending, ask |-> handler[u].ask]
      /\ \A v \in Users : handler[v] # Idle => v = u
    BY <1>1 DEF HandlerInv
<1>5. permission_requests[handler[u].key] # NoRow
    BY <1>1, <1>3, <1>4, RowFacts
<1>6. \A v \in Users : handler'[v] = Idle
    BY <1>2, <1>4
<1>7. \A k \in Keys : Recording(k) \subseteq {u} /\ Recording(k)' = {}
    BY <1>4, <1>6 DEF Recording
<1>8. \A v \in Users : HandlerInv(v)'
    BY <1>6 DEF HandlerInv
<1> QED
    BY <1>3, <1>4, <1>5, <1>7, <1>8 DEF Recording

LEMMA SentKeepsAnswers ==
    ASSUME AnswerInv, ~SendMaySuspend, NEW u \in Users, DecisionSent(u) \/ DecisionNotSent(u)
    PROVE  AnswerInv'
<1>1. /\ handler[u] # Idle /\ handler' = [handler EXCEPT ![u] = Idle]
      /\ UNCHANGED <<run_conn, run_status, unregistering, cancelled, connectorVars, agentVars,
                     conn, link, down, up>>
    BY DEF DecisionSent, DecisionNotSent
<1>2. ConnectorInv /\ ConnectorInv'
    BY AnswerParts, SentKeeps
<1>11. PICK k \in Keys, d \in Decisions : k = handler[u].key /\ d = handler[u].decision
    BY <1>1, TheHandler
<1>3. /\ permission_requests[k] = [status |-> Pending, ask |-> handler[u].ask]
      /\ permission_requests[k] # NoRow
      /\ \A k2 \in Keys : Recording(k2) \subseteq {u} /\ Recording(k2)' = {}
      /\ \A k2 \in Keys : u \in Recording(k2) <=> k = k2 /\ ~handler[u].doomed
      /\ \A v \in Users : HandlerInv(v)'
    BY <1>1, <1>11, TheHandler
<1>4. UNCHANGED <<asked, answered, prompt, listening, link, conn, run_conn, cancelled>>
    BY <1>1 DEF agentVars, connectorVars
<1>5. /\ \A k2 \in Keys : DecisionsFor(k2)' = DecisionsFor(k2)
      /\ Pairwise(down', DecidedApart) /\ In(down') = In(down)
    BY <1>1, SameDown
<1>6. /\ \A k2 \in Keys : RequestsFor(k2)' = RequestsFor(k2)
      /\ Pairwise(up', RequestedInOrder) /\ In(up') = In(up)
    BY <1>1, SameUp
<1>7. (\A c \in unregistering' : c <= conn' /\ ~IsUp(c)') /\ \A r \in Runs : EndInv(r)'
    BY <1>1, <1>4, <1>5, <1>6, RunsStay
<1>8. ASSUME NEW k2 \in Keys, permission_requests'[k2] = permission_requests[k2],
             Recording(k2) = {}
      PROVE  KeyInv(k2)'
    <2>1. Recording(k2)' = {}
        BY <1>3
    <2>2. Quiet(k2)
        BY <1>4, <1>5, <1>6, <1>8, <2>1, QuietBackendStep
    <2> QED
        BY <2>2, AnswerParts, QuietKeeps
<1>9. CASE DecisionSent(u)
    <2>1. /\ ~handler[u].doomed
          /\ permission_requests' = MarkPermissionDecided(permission_requests, k, d)
        BY <1>3, <1>9, <1>11 DEF DecisionSent
    <2>2. permission_requests' = [permission_requests EXCEPT ![k] =
                                     [status |-> d, ask |-> permission_requests[k].ask]]
        BY <1>2, <1>3, <2>1, ConnectorFacts, MarkFacts
    <2>3. permission_requests \in [Keys -> Row \union {NoRow}]
        BY <1>2, ConnectorFacts DEF BackendTypes
    <2>4. /\ permission_requests'[k] = [status |-> d, ask |-> permission_requests[k].ask]
          /\ \A k2 \in Keys : k2 # k => permission_requests'[k2] = permission_requests[k2]
        BY <1>3, <2>2, <2>3
    <2>5. Recording(k) = {u} /\ \A k2 \in Keys : k2 # k => Recording(k2) = {}
        BY <1>3, <2>1
    <2>6. KeyInv(k)'
        <3>1. KeyInv(k) /\ permission_requests[k].status = Pending /\ Recording(k)' = {}
            BY <1>3, AnswerParts
        <3>2. /\ asked'[k] = asked[k] /\ answered'[k] = answered[k]
              /\ UNCHANGED <<cancelled, listening, link, conn, run_conn, prompt>>
              /\ DecisionsFor(k)' = DecisionsFor(k) /\ RequestsFor(k)' = RequestsFor(k)
            BY <1>3, <1>4, <1>5, <1>6
        <3> QED
            BY <1>2, <1>3, <1>11, <2>4, <2>5, <3>1, <3>2, RecordedKeepsKey
    <2>7. \A k2 \in Keys : KeyInv(k2)'
        BY <1>8, <2>4, <2>5, <2>6
    <2> QED
        BY <1>2, <1>3, <1>5, <1>6, <1>7, <2>7, AnswerWhole
<1>10. CASE DecisionNotSent(u)
    <2>1. /\ handler[u].doomed /\ permission_requests' = permission_requests
        BY <1>10 DEF DecisionNotSent
    <2>2. \A k2 \in Keys : Recording(k2) = {}
        BY <1>3, <2>1
    <2>3. \A k2 \in Keys : KeyInv(k2)'
        BY <1>8, <2>1, <2>2
    <2> QED
        BY <1>2, <1>3, <1>5, <1>6, <1>7, <2>3, AnswerWhole
<1> QED
    BY <1>9, <1>10
LEMMA RequestCancelKeepsAnswers ==
    ASSUME AnswerInv, ~SendMaySuspend, NEW r \in Runs, RequestCancel(r)
    PROVE  AnswerInv'
<1> DEFINE m == RunMessage("run.cancel", r)
<1>1. /\ LoopFree /\ cancelled' = cancelled \union {r}
      /\ down' = Append(down, m) \/ down' = down
      /\ UNCHANGED <<run_conn, run_status, permission_requests, handler, unregistering,
                     connectorVars, agentVars, conn, link, up>>
    BY DEF RequestCancel
<1>2. ConnectorInv /\ ConnectorInv'
    BY AnswerParts, RequestCancelKeeps
<1>3. /\ m \in DownMessage /\ m.type # "run.permission.decision"
      /\ \A r2 \in Runs : RunMessage("run.cancel", r2) = m => r2 = r
    BY Messages DEF RunMessage
<1> HIDE DEF m
<1>4. /\ \A k \in Keys : DecisionsFor(k)' = DecisionsFor(k)
      /\ Pairwise(down', DecidedApart) /\ In(down') \subseteq In(down) \union {m}
    BY <1>1, <1>3, DownOther
<1>5. /\ \A k \in Keys : RequestsFor(k)' = RequestsFor(k)
      /\ Pairwise(up', RequestedInOrder) /\ In(up') = In(up)
    BY <1>1, SameUp
<1>6. \A u \in Users : HandlerInv(u)'
    BY <1>1, HandlersIdle
<1>7. UNCHANGED <<asked, answered, prompt, listening, link, conn, run_conn>>
    BY <1>1 DEF agentVars, connectorVars
<1>8. (\A c \in unregistering' : c <= conn' /\ ~IsUp(c)') /\ \A r2 \in Runs : EndInv(r2)'
    BY <1>1, <1>3, <1>4, <1>5, <1>7, RunsStay
<1>9. ASSUME NEW k \in Keys
      PROVE  KeyInv(k)'
    <2>1. Recording(k)' = Recording(k)
          /\ \A u \in Recording(k) : handler'[u].decision = handler[u].decision
        BY <1>1, SameHandlers
    <2>2. Quiet(k)
        BY <1>1, <1>4, <1>5, <1>7, <2>1, QuietBackendStep
    <2> QED
        BY <2>2, AnswerParts, QuietKeeps
<1> QED
    BY <1>2, <1>4, <1>5, <1>6, <1>8, <1>9, AnswerWhole

LEMMA UnregisterKeepsAnswers ==
    ASSUME AnswerInv, ~SendMaySuspend, Unregister
    PROVE  AnswerInv'
<1>1. /\ LoopFree /\ registered = conn /\ link = "closed" /\ up' = <<>>
      /\ unregistering' = unregistering \union {registered}
      /\ UNCHANGED <<run_conn, run_status, permission_requests, handler, cancelled,
                     connectorVars, agentVars, conn, link, down>>
    BY DEF Unregister
<1>2. ConnectorInv /\ ConnectorInv'
    BY AnswerParts, UnregisterKeeps
<1>3. conn \in Nat
    BY <1>2, ConnectorFacts, Settings DEF BackendTypes, ConnectorTypes
<1>4. /\ \A k \in Keys : DecisionsFor(k)' = DecisionsFor(k)
      /\ Pairwise(down', DecidedApart) /\ In(down') = In(down)
    BY <1>1, SameDown
<1>5. /\ \A k \in Keys : RequestsFor(k)' = {}
      /\ Pairwise(up', RequestedInOrder) /\ In(up') = {}
    BY <1>1, NoMessages DEF RequestsFor
<1>6. \A u \in Users : HandlerInv(u)'
    BY <1>1, HandlersIdle
<1>7. UNCHANGED <<asked, answered, prompt, listening, link, conn, run_conn, cancelled>>
    BY <1>1 DEF agentVars, connectorVars
<1>8. \A c \in unregistering' : c <= conn' /\ ~IsUp(c)'
    BY <1>1, <1>3, AnswerParts DEF IsUp
<1>9. \A r \in Runs : EndInv(r)'
    BY <1>1, <1>4, <1>5, <1>7, AnswerParts DEF EndInv, IsUp
<1>10. ASSUME NEW k \in Keys
       PROVE  KeyInv(k)'
    <2>1. Recording(k)' = Recording(k)
          /\ \A u \in Recording(k) : handler'[u].decision = handler[u].decision
        BY <1>1, SameHandlers
    <2>2. Attended(k)' = Attended(k) /\ ~IsUp(run_conn[RunOf(k)])'
        BY <1>1, <1>7 DEF Attended, IsUp
    <2>3. Quiet(k)
        BY <1>1, <1>4, <1>5, <1>7, <2>1, <2>2 DEF Quiet
    <2> QED
        BY <2>3, AnswerParts, QuietKeeps
<1> QED
    BY <1>2, <1>4, <1>5, <1>6, <1>8, <1>9, <1>10, AnswerWhole

LEMMA UnregisterReturnsKeepsAnswers ==
    ASSUME AnswerInv, ~SendMaySuspend, NEW c \in unregistering, UnregisterReturns(c)
    PROVE  AnswerInv'
<1>1. /\ LoopFree /\ unregistering' \subseteq unregistering
      /\ \/ run_status' = [r \in Runs |-> IF run_status[r] = "running" /\ run_conn[r] = c
                                          THEN "ended" ELSE run_status[r]]
         \/ UNCHANGED run_status
      /\ UNCHANGED <<run_conn, permission_requests, handler, cancelled,
                     connectorVars, agentVars, conn, link, down, up>>
    BY DEF UnregisterReturns
<1>2. ConnectorInv /\ ConnectorInv'
    BY AnswerParts, UnregisterKeeps
<1>3. /\ \A k \in Keys : DecisionsFor(k)' = DecisionsFor(k)
      /\ Pairwise(down', DecidedApart) /\ In(down') = In(down)
    BY <1>1, SameDown
<1>4. /\ \A k \in Keys : RequestsFor(k)' = RequestsFor(k)
      /\ Pairwise(up', RequestedInOrder) /\ In(up') = In(up)
    BY <1>1, SameUp
<1>5. \A u \in Users : HandlerInv(u)'
    BY <1>1, HandlersIdle
<1>6. UNCHANGED <<asked, answered, prompt, listening, link, conn, run_conn, cancelled>>
    BY <1>1 DEF agentVars, connectorVars
<1>7. \A r \in Runs : run_status'[r] = run_status[r] \/ ~IsUp(run_conn[r])
    BY <1>1, AnswerParts
<1>8. (\A c2 \in unregistering' : c2 <= conn' /\ ~IsUp(c2)') /\ \A r \in Runs : EndInv(r)'
    BY <1>1, <1>3, <1>4, <1>6, <1>7, RunsStay
<1>9. ASSUME NEW k \in Keys
      PROVE  KeyInv(k)'
    <2>1. Recording(k)' = Recording(k)
          /\ \A u \in Recording(k) : handler'[u].decision = handler[u].decision
        BY <1>1, SameHandlers
    <2>2. Quiet(k)
        BY <1>1, <1>3, <1>4, <1>6, <2>1, QuietBackendStep
    <2> QED
        BY <2>2, AnswerParts, QuietKeeps
<1> QED
    BY <1>2, <1>3, <1>4, <1>5, <1>8, <1>9, AnswerWhole

LEMMA RemoveRunKeepsAnswers ==
    ASSUME AnswerInv, ~SendMaySuspend, NEW r \in Runs, RemoveRun(r)
    PROVE  AnswerInv'
<1>1. /\ LoopFree /\ run_status[r] = "ended"
      /\ run_status' = [run_status EXCEPT ![r] = "removed"]
      /\ permission_requests' = [k \in Keys |-> IF RunOf(k) = r THEN NoRow
                                                ELSE permission_requests[k]]
      /\ UNCHANGED <<run_conn, handler, unregistering, cancelled,
                     connectorVars, agentVars, conn, link, down, up>>
    BY DEF RemoveRun
<1>2. ConnectorInv /\ ConnectorInv'
    BY AnswerParts, UnregisterKeeps
<1>3. /\ BackendTypes /\ \A k \in Keys : WaiterInv(k)
    BY <1>2, ConnectorFacts
<1>4. /\ \A k \in Keys : DecisionsFor(k)' = DecisionsFor(k)
      /\ Pairwise(down', DecidedApart) /\ In(down') = In(down)
    BY <1>1, SameDown
<1>5. /\ \A k \in Keys : RequestsFor(k)' = RequestsFor(k)
      /\ Pairwise(up', RequestedInOrder) /\ In(up') = In(up)
    BY <1>1, SameUp
<1>6. \A u \in Users : HandlerInv(u)'
    BY <1>1, HandlersIdle
<1>7. UNCHANGED <<asked, answered, prompt, listening, link, conn, run_conn, cancelled>>
    BY <1>1 DEF agentVars, connectorVars
<1>8. \A r2 \in Runs : run_status'[r2] = run_status[r2] \/ run_status[r2] = "ended"
    BY <1>1, <1>3 DEF BackendTypes
<1>9. (\A c \in unregistering' : c <= conn' /\ ~IsUp(c)') /\ \A r2 \in Runs : EndInv(r2)'
    BY <1>1, <1>4, <1>5, <1>7, <1>8, RunsStay
<1>10. ASSUME NEW k \in Keys
       PROVE  KeyInv(k)'
    <2>1. KeyInv(k) /\ WaiterInv(k) /\ EndInv(RunOf(k))
        BY <1>3, KeyFacts, AnswerParts
    <2>2. CASE RunOf(k) = r
        <3>1. permission_requests'[k] = NoRow /\ run_status[RunOf(k)] = "ended"
            BY <1>1, <2>2
        <3>2. /\ asked'[k] = asked[k] /\ answered'[k] = answered[k]
              /\ UNCHANGED <<cancelled, listening, link, conn, run_conn, prompt>>
              /\ DecisionsFor(k)' = DecisionsFor(k) /\ RequestsFor(k)' = RequestsFor(k)
            BY <1>4, <1>5, <1>7
        <3> QED
            BY <1>2, <2>1, <3>1, <3>2, RemovedKeepsKey
    <2>3. CASE RunOf(k) # r
        <3>1. permission_requests'[k] = permission_requests[k]
            BY <1>1, <2>3
        <3>2. Recording(k)' = Recording(k)
              /\ \A u \in Recording(k) : handler'[u].decision = handler[u].decision
            BY <1>1, SameHandlers
        <3>3. Quiet(k)
            BY <1>4, <1>5, <1>7, <3>1, <3>2, QuietBackendStep
        <3> QED
            BY <2>1, <3>3, QuietKeeps
    <2> QED
        BY <2>2, <2>3
<1> QED
    BY <1>2, <1>4, <1>5, <1>6, <1>9, <1>10, AnswerWhole

\* A run is prompted, or its agent cannot be set up.
LEMMA StartKeepsAnswers ==
    ASSUME AnswerInv, NEW r \in Runs, StartPrompt(r) \/ SetupFails(r)
    PROVE  AnswerInv'
<1> DEFINE m == RunMessage("run.ended", r)
<1>1. /\ prompt[r] = "assigned"
      /\ \E p \in {"prompting", "done"} : prompt' = [prompt EXCEPT ![r] = p]
      /\ UNCHANGED <<backendVars, listening, agentVars, conn, link, down>>
      /\ \/ up' = Append(up, m) /\ prompt' = [prompt EXCEPT ![r] = "done"]
         \/ up' = up
    BY DEF StartPrompt, SetupFails
<1>2. ConnectorInv /\ ConnectorInv'
    BY AnswerParts, StartKeeps
<1>3. prompt \in [Runs -> {"none", "assigned", "prompting", "done"}]
    BY <1>2, ConnectorFacts DEF BackendTypes, ConnectorTypes
<1>4. /\ m \in UpMessage /\ m.type # "run.permission.requested"
      /\ \A r2 \in Runs : RunMessage("run.ended", r2) = m => r2 = r
    BY Messages DEF RunMessage
<1> HIDE DEF m
<1>5. /\ \A k \in Keys : RequestsFor(k)' = RequestsFor(k)
      /\ Pairwise(up', RequestedInOrder) /\ In(up') \subseteq In(up) \union {m}
    BY <1>1, <1>4, UpOther
<1>6. /\ \A k \in Keys : DecisionsFor(k)' = DecisionsFor(k)
      /\ Pairwise(down', DecidedApart) /\ In(down') = In(down)
    BY <1>1, SameDown
<1>7. UNCHANGED <<permission_requests, handler, run_status, run_conn, unregistering, cancelled,
                  asked, answered, listening, link, conn>>
    BY <1>1 DEF backendVars, agentVars
<1>8. \A u \in Users : HandlerInv(u)'
    BY <1>7, HandlersStay
<1>9. \A c \in unregistering' : c <= conn' /\ ~IsUp(c)'
    BY <1>7, AnswerParts DEF IsUp
<1>10. ASSUME NEW r2 \in Runs
       PROVE  EndInv(r2)'
    <2>1. EndInv(r2)
        BY AnswerParts
    <2>2. m \in In(up') => m \in In(up) \/ prompt' = [prompt EXCEPT ![r] = "done"]
        BY <1>1
    <2>3. CASE r2 = r
        <3>1. ~ (RunMessage("run.ended", r) \in In(up))
            BY <1>1, <2>1, <2>3 DEF EndInv
        <3>2. RunMessage("run.ended", r) \in In(up') => prompt'[r] = "done"
            BY <1>3, <1>5, <2>2, <3>1
        <3>3. run_status[r] \in {"ended", "removed"} => ~IsUp(run_conn[r])
            BY <1>1, <2>1, <2>3 DEF EndInv
        <3> QED
            BY <1>6, <1>7, <2>1, <2>3, <3>2, <3>3 DEF EndInv, IsUp
    <2>4. CASE r2 # r
        <3>1. prompt'[r2] = prompt[r2] /\ RunMessage("run.ended", r2) # m
            BY <1>1, <1>3, <1>4, <2>4
        <3>2. RunMessage("run.ended", r2) \in In(up') => RunMessage("run.ended", r2) \in In(up)
            BY <1>5, <3>1
        <3> QED
            BY <1>6, <1>7, <2>1, <3>1, <3>2 DEF EndInv, IsUp
    <2> QED
        BY <2>3, <2>4
<1>11. ASSUME NEW k \in Keys
       PROVE  KeyInv(k)'
    <2>1. KeyInv(k) /\ RunOf(k) \in Runs
        BY KeyFacts, AnswerParts
    <2>2. CASE RunOf(k) = r
        <3>1. prompt[RunOf(k)] \in {"none", "assigned"}
            BY <1>1, <2>2
        <3>2. /\ permission_requests'[k] = permission_requests[k]
              /\ asked'[k] = asked[k] /\ answered'[k] = answered[k]
            BY <1>7
        <3> QED
            BY <1>2, <1>5, <1>6, <2>1, <3>1, <3>2, FreshKeeps
    <2>3. CASE RunOf(k) # r
        <3>1. prompt'[RunOf(k)] = prompt[RunOf(k)]
            BY <1>1, <1>3, <2>1, <2>3
        <3>2. Recording(k)' = Recording(k)
              /\ \A u \in Recording(k) : handler'[u].decision = handler[u].decision
            BY <1>7, SameHandlers
        <3>3. Attended(k)' = Attended(k) /\ IsUp(run_conn[RunOf(k)])' = IsUp(run_conn[RunOf(k)])
            BY <1>7, <3>1 DEF Attended, IsUp
        <3>4. Quiet(k)
            BY <1>5, <1>6, <1>7, <3>1, <3>2, <3>3 DEF Quiet
        <3> QED
            BY <2>1, <3>4, QuietKeeps
    <2> QED
        BY <2>2, <2>3
<1> QED
    BY <1>2, <1>5, <1>6, <1>8, <1>9, <1>10, <1>11, AnswerWhole
\* What a request does to the channel of the backend.
LEMMA UpRequest ==
    ASSUME AnswerInv, NEW m \in UpMessage, m.type = "run.permission.requested",
           m.key \in Keys, \A x \in RequestsFor(m.key) : x.ask < m.ask, up' = Append(up, m)
    PROVE  /\ RequestsFor(m.key)' = RequestsFor(m.key) \union {m}
           /\ \A k \in Keys : k # m.key => RequestsFor(k)' = RequestsFor(k)
           /\ In(up') = In(up) \union {m} /\ Pairwise(up', RequestedInOrder)
<1>1. up \in Seq(UpMessage) /\ Pairwise(up, RequestedInOrder)
    BY AnswerParts, ConnectorFacts
<1>2. \A x \in In(up) : x \in UpMessage
    BY AnswerParts, ChannelFacts
<1>3. \A x \in In(up) : <<x, m>> \in RequestedInOrder
    BY <1>2 DEF RequestedInOrder, RequestsFor
<1>4. In(up') = In(up) \union {m} /\ Pairwise(up', RequestedInOrder)
    BY <1>1, <1>3, Sent
<1> QED
    BY <1>4 DEF RequestsFor

LEMMA AskKeepsAnswers ==
    ASSUME AnswerInv, NEW k \in Keys, Ask(k)
    PROVE  AnswerInv'
<1> DEFINE m == Message("run.permission.requested", k, Cancelled, asked[k] + 1)
<1>1. /\ prompt[RunOf(k)] = "prompting" /\ ~Waiting(k) /\ asked[k] < MaxAsks
      /\ asked' = [asked EXCEPT ![k] = @ + 1]
      /\ \/ IsUp(run_conn[RunOf(k)]) /\ up' = Append(up, m) /\ answered' = answered
         \/ ~IsUp(run_conn[RunOf(k)]) /\ answered' = Answer(answered, {k}, Cancelled) /\ up' = up
      /\ UNCHANGED <<backendVars, listening, prompt, active_runs, conn, link, down>>
    BY DEF Ask
<1>2. ConnectorInv /\ ConnectorInv'
    BY AnswerParts, AskKeeps
<1>3. BackendTypes /\ ConnectorTypes
    BY <1>2, ConnectorFacts
<1>4. asked \in [Keys -> Asks] /\ asked[k] \in Nat
    BY <1>3, Settings DEF ConnectorTypes
<1>5. asked'[k] = asked[k] + 1 /\ \A k2 \in Keys : k2 # k => asked'[k2] = asked[k2]
    BY <1>1, <1>4
<1>6. /\ \A k2 \in Keys : DecisionsFor(k2)' = DecisionsFor(k2)
      /\ Pairwise(down', DecidedApart) /\ In(down') = In(down)
    BY <1>1, SameDown
<1>7. UNCHANGED <<permission_requests, handler, run_status, run_conn, unregistering, cancelled,
                  prompt, listening, link, conn>>
    BY <1>1 DEF backendVars
<1>8. \A u \in Users : HandlerInv(u)'
    BY <1>7, HandlersStay
<1>9. \A c \in unregistering' : c <= conn' /\ ~IsUp(c)'
    BY <1>7, AnswerParts DEF IsUp
<1>10. \A k2 \in Keys : /\ Recording(k2)' = Recording(k2)
                        /\ \A u \in Recording(k2) : handler'[u].decision = handler[u].decision
    BY <1>7, SameHandlers
<1>11. ASSUME \A r \in Runs : RunMessage("run.ended", r) \in In(up') =>
                                 RunMessage("run.ended", r) \in In(up)
       PROVE  \A r \in Runs : EndInv(r)'
    BY <1>6, <1>7, <1>11, AnswerParts DEF EndInv, IsUp
<1>12. ASSUME NEW k2 \in Keys, k2 # k, answered'[k2] = answered[k2],
              RequestsFor(k2)' = RequestsFor(k2)
       PROVE  KeyInv(k2)'
    <2>1. /\ Attended(k2)' = Attended(k2)
          /\ IsUp(run_conn[RunOf(k2)])' = IsUp(run_conn[RunOf(k2)])
        BY <1>7 DEF Attended, IsUp
    <2>2. Quiet(k2)
        BY <1>5, <1>6, <1>7, <1>10, <1>12, <2>1 DEF Quiet
    <2> QED
        BY <2>2, AnswerParts, QuietKeeps
<1>13. KeyInv(k) /\ permission_requests'[k] = permission_requests[k]
       /\ UNCHANGED <<cancelled, listening, link, conn, run_conn, prompt>>
    BY <1>7, AnswerParts
<1>14. CASE IsUp(run_conn[RunOf(k)]) /\ up' = Append(up, m) /\ answered' = answered
    <2>1. asked[k] + 1 \in Asks
        BY <1>1, <1>4, Settings
    <2>2. /\ m \in UpMessage /\ m.type = "run.permission.requested" /\ m.key = k
          /\ m.ask = asked[k] + 1
          /\ \A r \in Runs : RunMessage("run.ended", r) # m
        BY <2>1, Messages DEF Message, RunMessage
    <2> HIDE DEF m
    <2>3. \A x \in RequestsFor(k) : x.ask \in Nat /\ x.ask <= asked[k]
        BY <1>2, <1>13, ChannelFacts DEF KeyInv, NumbersInv
    <2>4. /\ RequestsFor(k)' = RequestsFor(k) \union {m}
          /\ \A k2 \in Keys : k2 # k => RequestsFor(k2)' = RequestsFor(k2)
          /\ In(up') = In(up) \union {m} /\ Pairwise(up', RequestedInOrder)
        BY <1>4, <1>14, <2>2, <2>3, UpRequest
    <2>5. \A r \in Runs : EndInv(r)'
        BY <1>11, <2>2, <2>4
    <2>6. KeyInv(k)'
        <3>1. /\ IsUp(run_conn[RunOf(k)]) /\ answered'[k] = answered[k]
              /\ \E x \in UpMessage : /\ x.ask = asked[k] + 1
                                      /\ RequestsFor(k)' = RequestsFor(k) \union {x}
            BY <1>14, <2>2, <2>4
        <3> QED
            BY <1>1, <1>2, <1>5, <1>6, <1>10, <1>13, <3>1, AskKeepsKey
    <2>7. \A k2 \in Keys : KeyInv(k2)'
        BY <1>12, <1>14, <2>4, <2>6
    <2> QED
        BY <1>2, <1>6, <1>8, <1>9, <2>4, <2>5, <2>7, AnswerWhole
<1>15. CASE /\ ~IsUp(run_conn[RunOf(k)]) /\ answered' = Answer(answered, {k}, Cancelled)
            /\ up' = up
    <2>1. /\ \A k2 \in Keys : RequestsFor(k2)' = RequestsFor(k2)
          /\ Pairwise(up', RequestedInOrder) /\ In(up') = In(up)
        BY <1>15, SameUp
    <2>2. \A r \in Runs : EndInv(r)'
        BY <1>11, <2>1
    <2>3. /\ answered'[k] = Append(answered[k], Cancelled)
          /\ \A k2 \in Keys : k2 # k => answered'[k2] = answered[k2]
        BY <1>15 DEF Answer
    <2>4. KeyInv(k)'
        <3>1. /\ ~IsUp(run_conn[RunOf(k)]) /\ RequestsFor(k)' = RequestsFor(k)
              /\ answered'[k] = Append(answered[k], Cancelled)
            BY <1>15, <2>1, <2>3
        <3> QED
            BY <1>1, <1>2, <1>5, <1>6, <1>10, <1>13, <3>1, AskKeepsKey
    <2>5. \A k2 \in Keys : KeyInv(k2)'
        BY <1>12, <2>1, <2>3, <2>4
    <2> QED
        BY <1>2, <1>6, <1>8, <1>9, <2>1, <2>2, <2>5, AnswerWhole
<1> QED
    BY <1>1, <1>14, <1>15

\* What the connector takes from its channel.
LEMMA ConnectorReadFacts ==
    ASSUME AnswerInv, ConnectorReads
    PROVE  /\ Head(down) \in In(down) /\ Head(down) \in DownMessage
           /\ In(down') \subseteq In(down) /\ In(down) \subseteq In(down') \union {Head(down)}
           /\ Pairwise(down', DecidedApart)
           /\ \A x \in In(down') : <<Head(down), x>> \in DecidedApart
           /\ \A k \in Keys : DecisionsFor(k)' \subseteq DecisionsFor(k)
           /\ \A k \in Keys :
                 ~ (Head(down).type = "run.permission.decision" /\ Head(down).key = k)
                    => DecisionsFor(k)' = DecisionsFor(k)
           /\ \A k \in Keys : RequestsFor(k)' = RequestsFor(k)
           /\ Pairwise(up', RequestedInOrder) /\ In(up') = In(up)
           /\ \A u \in Users : HandlerInv(u)'
           /\ \A c \in unregistering' : c <= conn' /\ ~IsUp(c)'
           /\ UNCHANGED <<permission_requests, handler, run_status, run_conn, unregistering,
                          cancelled, listening, asked, link, conn>>
           /\ \A k \in Keys : /\ Recording(k)' = Recording(k)
                              /\ \A u \in Recording(k) : handler'[u].decision = handler[u].decision
<1>1. /\ down \in Seq(DownMessage) /\ Pairwise(down, DecidedApart) /\ down # <<>>
      /\ down' = Tail(down)
    BY AnswerParts, ConnectorFacts DEF ConnectorReads
<1>2. /\ Head(down) \in In(down) /\ Head(down) \in DownMessage
      /\ In(Tail(down)) \subseteq In(down) /\ In(down) \subseteq In(Tail(down)) \union {Head(down)}
      /\ Pairwise(Tail(down), DecidedApart)
      /\ \A x \in In(Tail(down)) : <<Head(down), x>> \in DecidedApart
    BY <1>1, Taken
<1>3. UNCHANGED <<permission_requests, handler, run_status, run_conn, unregistering,
                  cancelled, listening, asked, link, conn, up>>
    BY DEF ConnectorReads, backendVars
<1>4. /\ \A k \in Keys : RequestsFor(k)' = RequestsFor(k)
      /\ Pairwise(up', RequestedInOrder) /\ In(up') = In(up)
    BY <1>3, SameUp
<1>5. \A u \in Users : HandlerInv(u)'
    BY <1>3, HandlersStay
<1>6. \A c \in unregistering' : c <= conn' /\ ~IsUp(c)'
    BY <1>3, AnswerParts DEF IsUp
<1>7. \A k \in Keys : /\ Recording(k)' = Recording(k)
                      /\ \A u \in Recording(k) : handler'[u].decision = handler[u].decision
    BY <1>3, SameHandlers
<1>8. /\ \A k \in Keys : DecisionsFor(k)' \subseteq DecisionsFor(k)
      /\ \A k \in Keys : ~ (Head(down).type = "run.permission.decision" /\ Head(down).key = k)
                            => DecisionsFor(k)' = DecisionsFor(k)
    BY <1>1, <1>2 DEF DecisionsFor
<1> QED
    BY <1>1, <1>2, <1>3, <1>4, <1>5, <1>6, <1>7, <1>8

\* The connector's other steps leave the asks, the decided keys and the
\* cancelled runs of everybody as they are.
LEMMA QuietConnectorStep ==
    ASSUME NEW k \in Keys,
           UNCHANGED <<permission_requests, cancelled, listening, link, conn, run_conn, asked>>,
           answered'[k] = answered[k],
           prompt'[RunOf(k)] = prompt[RunOf(k)],
           Recording(k)' = Recording(k),
           \A u \in Recording(k) : handler'[u].decision = handler[u].decision,
           DecisionsFor(k)' = DecisionsFor(k), RequestsFor(k)' = RequestsFor(k)
    PROVE  Quiet(k)
<1>1. IsUp(run_conn[RunOf(k)])' = IsUp(run_conn[RunOf(k)]) /\ Attended(k)' = Attended(k)
    BY DEF IsUp, Attended
<1> QED
    BY <1>1 DEF Quiet
LEMMA ReadAssignKeepsAnswers ==
    ASSUME AnswerInv, ConnectorReads, Head(down).type = "run.assign",
           HandleRunAssign(Head(down).run)
    PROVE  AnswerInv'
<1>1. PICK r \in Runs : Head(down) = RunMessage("run.assign", r)
    BY ConnectorReadFacts DEF DownMessage, RunMessage
<1>2. Head(down).run = r /\ RunMessage("run.assign", r) \in In(down)
    BY <1>1, ConnectorReadFacts DEF RunMessage
<1>3. prompt' = [prompt EXCEPT ![r] = "assigned"] /\ answered' = answered
    BY <1>2 DEF HandleRunAssign
<1>4. ConnectorInv /\ ConnectorInv'
    BY AnswerParts, ConnectorReadsKeeps
<1>5. /\ prompt \in [Runs -> {"none", "assigned", "prompting", "done"}]
      /\ RunInv(r) /\ \A k \in Keys : WaiterInv(k)
    BY <1>4, ConnectorFacts DEF BackendTypes, ConnectorTypes
<1>6. prompt[r] = "none"
    BY <1>2, <1>5 DEF RunInv
<1>7. \A k \in Keys : DecisionsFor(k)' = DecisionsFor(k) /\ RequestsFor(k)' = RequestsFor(k)
    BY ConnectorReadFacts
<1>8. /\ In(down') \subseteq In(down) /\ In(up') = In(up)
      /\ UNCHANGED <<permission_requests, handler, run_status, run_conn, unregistering,
                     cancelled, listening, asked, link, conn>>
    BY ConnectorReadFacts
<1>9. ASSUME NEW r2 \in Runs
      PROVE  EndInv(r2)'
    <2>1. EndInv(r2)
        BY AnswerParts
    <2>2. CASE r2 = r
        BY <1>3, <1>6, <1>8, <2>1, <2>2 DEF EndInv, IsUp
    <2>3. CASE r2 # r
        <3>1. prompt'[r2] = prompt[r2]
            BY <1>3, <1>5, <2>3
        <3> QED
            BY <1>8, <2>1, <3>1 DEF EndInv, IsUp
    <2> QED
        BY <2>2, <2>3
<1>10. ASSUME NEW k \in Keys
       PROVE  KeyInv(k)'
    <2>1. KeyInv(k) /\ WaiterInv(k) /\ RunOf(k) \in Runs
        BY <1>5, KeyFacts, AnswerParts
    <2>2. /\ Recording(k)' = Recording(k)
          /\ \A u \in Recording(k) : handler'[u].decision = handler[u].decision
        BY ConnectorReadFacts
    <2>3. CASE RunOf(k) = r
        <3>1. ~Attended(k)' /\ ~Waiting(k)'
            BY <1>3, <1>5, <1>6, <1>8, <2>1, <2>3 DEF Attended, WaiterInv, Waiting, WaitingFor
        <3>2. Quiet(k)
            BY <1>3, <1>6, <1>7, <1>8, <2>2, <2>3, <3>1 DEF Quiet
        <3> QED
            BY <2>1, <3>2, QuietKeeps
    <2>4. CASE RunOf(k) # r
        <3>1. prompt'[RunOf(k)] = prompt[RunOf(k)]
            BY <1>3, <1>5, <2>1, <2>4
        <3>2. Quiet(k)
            BY <1>3, <1>7, <1>8, <2>2, <3>1, QuietConnectorStep
        <3> QED
            BY <2>1, <3>2, QuietKeeps
    <2> QED
        BY <2>3, <2>4
<1> QED
    BY <1>4, <1>9, <1>10, ConnectorReadFacts, AnswerWhole

LEMMA ReadDecisionKeepsAnswers ==
    ASSUME AnswerInv, ConnectorReads, Head(down).type = "run.permission.decision",
           HandlePermissionDecision(Head(down))
    PROVE  AnswerInv'
<1>1. ConnectorInv /\ ConnectorInv'
    BY AnswerParts, ConnectorReadsKeeps
<1>2. PICK m \in DownMessage : m = Head(down)
    BY ConnectorReadFacts
<1>3. m \in In(down) /\ m.type = "run.permission.decision" /\ m.key \in Keys
    BY <1>1, <1>2, ConnectorReadFacts, DecisionFacts
<1>4. /\ In(down') \subseteq In(down) /\ In(up') = In(up)
      /\ UNCHANGED <<permission_requests, handler, run_status, run_conn, unregistering,
                     cancelled, listening, asked, link, conn>>
    BY ConnectorReadFacts
<1>5. prompt' = prompt
    BY <1>1, DecisionFacts
<1>6. (\A c \in unregistering' : c <= conn' /\ ~IsUp(c)') /\ \A r \in Runs : EndInv(r)'
    BY <1>4, <1>5, RunsStay
<1>7. ASSUME NEW k \in Keys
      PROVE  KeyInv(k)'
    <2>1. KeyInv(k) /\ WaiterInv(k)
        BY <1>1, ConnectorFacts, AnswerParts
    <2>2. /\ Recording(k)' = Recording(k)
          /\ \A u \in Recording(k) : handler'[u].decision = handler[u].decision
          /\ RequestsFor(k)' = RequestsFor(k) /\ DecisionsFor(k)' \subseteq DecisionsFor(k)
        BY ConnectorReadFacts
    <2>3. CASE k = m.key
        <3>1. /\ ~Waiting(k)'
              /\ ~Waiting(k) => answered'[k] = answered[k]
              /\ Waiting(k) => /\ DOMAIN answered'[k] = DOMAIN answered[k] \union {asked[k]}
                               /\ answered'[k][asked[k]] = m.decision
                               /\ \A n \in DOMAIN answered[k] : answered'[k][n] = answered[k][n]
            BY <1>1, <1>2, <2>3, DecisionFacts
        <3>2. m \in DecisionsFor(k)
            BY <1>3, <2>3 DEF DecisionsFor
        <3>3. \A x \in DecisionsFor(k)' : x.ask # m.ask
            <4>1. \A x \in In(down') : <<m, x>> \in DecidedApart
                BY <1>2, ConnectorReadFacts
            <4> QED
                BY <1>3, <2>3, <4>1 DEF DecisionsFor, DecidedApart
        <3>4. /\ permission_requests'[k] = permission_requests[k] /\ asked'[k] = asked[k]
              /\ UNCHANGED <<cancelled, listening, link, conn, run_conn, prompt>>
            BY <1>4, <1>5
        <3> QED
            BY <1>1, <2>1, <2>2, <3>1, <3>2, <3>3, <3>4, DeliveredKeepsKey
    <2>4. CASE k # m.key
        <3>1. answered'[k] = answered[k]
            BY <1>1, <1>2, <2>4, DecisionFacts
        <3>2. DecisionsFor(k)' = DecisionsFor(k)
            BY <1>2, <2>4, ConnectorReadFacts
        <3>3. Quiet(k)
            BY <1>4, <1>5, <2>2, <3>1, <3>2, QuietConnectorStep
        <3> QED
            BY <2>1, <3>3, QuietKeeps
    <2> QED
        BY <2>3, <2>4
<1> QED
    BY <1>1, <1>6, <1>7, ConnectorReadFacts, AnswerWhole

LEMMA ReadCancelKeepsAnswers ==
    ASSUME AnswerInv, ConnectorReads, Head(down).type = "run.cancel",
           HandleRunCancel(Head(down).run)
    PROVE  AnswerInv'
<1>1. ConnectorInv /\ ConnectorInv'
    BY AnswerParts, ConnectorReadsKeeps
<1>2. PICK r \in Runs : Head(down) = RunMessage("run.cancel", r)
    BY ConnectorReadFacts DEF DownMessage, RunMessage
<1>3. Head(down).run = r /\ RunMessage("run.cancel", r) \in In(down)
    BY <1>2, ConnectorReadFacts DEF RunMessage
<1>4. /\ In(down') \subseteq In(down) /\ In(up') = In(up)
      /\ UNCHANGED <<permission_requests, handler, run_status, run_conn, unregistering,
                     cancelled, listening, asked, link, conn>>
      /\ \A k \in Keys : DecisionsFor(k)' = DecisionsFor(k) /\ RequestsFor(k)' = RequestsFor(k)
      /\ \A k \in Keys : /\ Recording(k)' = Recording(k)
                         /\ \A u \in Recording(k) : handler'[u].decision = handler[u].decision
    BY ConnectorReadFacts
<1>5. prompt' = prompt
    BY DEF HandleRunCancel
<1>6. r \in cancelled
    BY <1>3, AnswerParts DEF EndInv
<1>7. (\A c \in unregistering' : c <= conn' /\ ~IsUp(c)') /\ \A r2 \in Runs : EndInv(r2)'
    BY <1>4, <1>5, RunsStay
<1>8. ASSUME NEW k \in Keys, answered'[k] = answered[k]
      PROVE  KeyInv(k)'
    <2>1. Quiet(k)
        BY <1>4, <1>5, <1>8, QuietConnectorStep
    <2> QED
        BY <2>1, AnswerParts, QuietKeeps
<1>9. CASE r \in active_runs
    <2> DEFINE rs == {r}
    <2>1. CancelPermissionWaiters(rs) /\ asked' = asked
        BY <1>3, <1>4, <1>9 DEF HandleRunCancel
    <2>2. r \in rs /\ \A x \in rs : x = r
        OBVIOUS
    <2> HIDE DEF rs
    <2>3. \A k \in Keys :
              /\ RunOf(k) \in rs => ~Waiting(k)'
              /\ ~ (RunOf(k) \in rs /\ Waiting(k)) => answered'[k] = answered[k]
              /\ \A n \in DOMAIN answered'[k] : answered'[k][n] # Cancelled =>
                    n \in DOMAIN answered[k] /\ answered[k][n] = answered'[k][n]
        BY <1>1, <2>1, CancelWaitersFacts
    <2>4. ASSUME NEW k \in Keys, RunOf(k) = r
          PROVE  KeyInv(k)'
        <3>1. ~Attended(k)' /\ ~Waiting(k)'
            BY <1>4, <1>6, <2>2, <2>3, <2>4 DEF Attended
        <3>2. GivenUp(k)
            BY <1>4, <1>5, <2>3, <3>1 DEF GivenUp
        <3> QED
            BY <3>2, AnswerParts, GivenUpKeeps
    <2>5. ASSUME NEW k \in Keys, RunOf(k) # r
          PROVE  KeyInv(k)'
        <3>1. answered'[k] = answered[k]
            BY <2>2, <2>3, <2>5
        <3> QED
            BY <1>8, <3>1
    <2> QED
        BY <1>1, <1>7, <2>4, <2>5, ConnectorReadFacts, AnswerWhole
<1>10. CASE r \notin active_runs
    <2>1. answered' = answered
        BY <1>3, <1>10 DEF HandleRunCancel
    <2> QED
        BY <1>1, <1>7, <1>8, <2>1, ConnectorReadFacts, AnswerWhole
<1> QED
    BY <1>9, <1>10

LEMMA ConnectorReadsKeepsAnswers ==
    ASSUME AnswerInv, ConnectorReads
    PROVE  AnswerInv'
BY ReadAssignKeepsAnswers, ReadDecisionKeepsAnswers, ReadCancelKeepsAnswers DEF ConnectorReads

LEMMA PromptEndsKeepsAnswers ==
    ASSUME AnswerInv, NEW r \in Runs, PromptEnds(r)
    PROVE  AnswerInv'
<1> DEFINE m == RunMessage("run.ended", r)
<1> DEFINE rs == {r}
<1>1. /\ prompt[r] = "prompting" /\ prompt' = [prompt EXCEPT ![r] = "done"]
      /\ up' = Append(up, m) \/ up' = up
      /\ CancelPermissionWaiters(rs)
      /\ UNCHANGED <<backendVars, listening, asked, conn, link, down>>
    BY DEF PromptEnds
<1>2. ConnectorInv /\ ConnectorInv'
    BY AnswerParts, PromptEndsKeeps
<1>3. prompt \in [Runs -> {"none", "assigned", "prompting", "done"}]
    BY <1>2, ConnectorFacts DEF BackendTypes, ConnectorTypes
<1>4. /\ m \in UpMessage /\ m.type # "run.permission.requested"
      /\ \A r2 \in Runs : RunMessage("run.ended", r2) = m => r2 = r
    BY Messages DEF RunMessage
<1>5. r \in rs /\ \A x \in rs : x = r
    OBVIOUS
<1> HIDE DEF m, rs
<1>6. /\ \A k \in Keys : RequestsFor(k)' = RequestsFor(k)
      /\ Pairwise(up', RequestedInOrder) /\ In(up') \subseteq In(up) \union {m}
    BY <1>1, <1>4, UpOther
<1>7. /\ \A k \in Keys : DecisionsFor(k)' = DecisionsFor(k)
      /\ Pairwise(down', DecidedApart) /\ In(down') = In(down)
    BY <1>1, SameDown
<1>8. UNCHANGED <<permission_requests, handler, run_status, run_conn, unregistering, cancelled,
                  asked, listening, link, conn>>
    BY <1>1 DEF backendVars
<1>9. \A u \in Users : HandlerInv(u)'
    BY <1>8, HandlersStay
<1>10. \A c \in unregistering' : c <= conn' /\ ~IsUp(c)'
    BY <1>8, AnswerParts DEF IsUp
<1>11. prompt'[r] = "done" /\ \A r2 \in Runs : r2 # r => prompt'[r2] = prompt[r2]
    BY <1>1, <1>3
<1>12. \A k \in Keys : /\ Recording(k)' = Recording(k)
                       /\ \A u \in Recording(k) : handler'[u].decision = handler[u].decision
    BY <1>8, SameHandlers
<1>13. ASSUME NEW r2 \in Runs
       PROVE  EndInv(r2)'
    <2>1. EndInv(r2)
        BY AnswerParts
    <2>2. CASE r2 = r
        BY <1>7, <1>8, <1>11, <2>1, <2>2 DEF EndInv
    <2>3. CASE r2 # r
        <3>1. RunMessage("run.ended", r2) \in In(up') => RunMessage("run.ended", r2) \in In(up)
            BY <1>4, <1>6, <2>3
        <3> QED
            BY <1>7, <1>8, <1>11, <2>1, <2>3, <3>1 DEF EndInv, IsUp
    <2> QED
        BY <2>2, <2>3
<1>14. \A k \in Keys :
           /\ RunOf(k) \in rs => ~Waiting(k)'
           /\ ~ (RunOf(k) \in rs /\ Waiting(k)) => answered'[k] = answered[k]
           /\ \A n \in DOMAIN answered'[k] : answered'[k][n] # Cancelled =>
                 n \in DOMAIN answered[k] /\ answered[k][n] = answered'[k][n]
    BY <1>1, <1>2, <1>8, CancelWaitersFacts
<1>15. ASSUME NEW k \in Keys
       PROVE  KeyInv(k)'
    <2>1. KeyInv(k) /\ RunOf(k) \in Runs
        BY KeyFacts, AnswerParts
    <2>2. CASE RunOf(k) = r
        <3>1. ~Attended(k)' /\ ~Waiting(k)' /\ prompt'[RunOf(k)] = "done"
            BY <1>5, <1>11, <1>14, <2>2 DEF Attended
        <3>2. GivenUp(k)
            BY <1>6, <1>7, <1>8, <1>12, <1>14, <3>1 DEF GivenUp
        <3> QED
            BY <2>1, <3>2, GivenUpKeeps
    <2>3. CASE RunOf(k) # r
        <3>1. answered'[k] = answered[k] /\ prompt'[RunOf(k)] = prompt[RunOf(k)]
            BY <1>5, <1>11, <1>14, <2>1, <2>3
        <3>2. Quiet(k)
            BY <1>6, <1>7, <1>8, <1>12, <3>1, QuietConnectorStep
        <3> QED
            BY <2>1, <3>2, QuietKeeps
    <2> QED
        BY <2>2, <2>3
<1> QED
    BY <1>2, <1>6, <1>7, <1>9, <1>10, <1>13, <1>15, AnswerWhole
LEMMA ConnectionEndsKeepsAnswers ==
    ASSUME AnswerInv, ConnectionEnds
    PROVE  AnswerInv'
<1>1. /\ listening' = FALSE /\ down' = <<>>
      /\ CancelPermissionWaiters(active_runs)
      /\ UNCHANGED <<backendVars, prompt, run_conn, asked, conn, link, up>>
    BY DEF ConnectionEnds
<1>2. ConnectorInv /\ ConnectorInv' /\ \A k \in Keys : ~Waiting(k)'
    BY AnswerParts, ConnectionEndsKeeps
<1>3. UNCHANGED <<permission_requests, handler, run_status, unregistering, cancelled>>
    BY <1>1 DEF backendVars
<1>4. /\ \A k \in Keys : DecisionsFor(k)' = {}
      /\ Pairwise(down', DecidedApart) /\ In(down') = {}
    BY <1>1, NoMessages DEF DecisionsFor
<1>5. /\ \A k \in Keys : RequestsFor(k)' = RequestsFor(k)
      /\ Pairwise(up', RequestedInOrder) /\ In(up') = In(up)
    BY <1>1, SameUp
<1>6. \A u \in Users : HandlerInv(u)'
    BY <1>1, <1>3, HandlersStay
<1>7. (\A c \in unregistering' : c <= conn' /\ ~IsUp(c)') /\ \A r \in Runs : EndInv(r)'
    BY <1>1, <1>3, <1>4, <1>5, RunsStay
<1>8. \A k \in Keys : /\ Recording(k)' = Recording(k)
                      /\ \A u \in Recording(k) : handler'[u].decision = handler[u].decision
    BY <1>3, SameHandlers
<1>9. \A k \in Keys : \A n \in DOMAIN answered'[k] : answered'[k][n] # Cancelled =>
         n \in DOMAIN answered[k] /\ answered[k][n] = answered'[k][n]
    <2>1. PICK rs : rs = active_runs
        OBVIOUS
    <2>2. CancelPermissionWaiters(rs) /\ asked' = asked
        BY <1>1, <2>1
    <2> QED
        BY <1>2, <2>2, CancelWaitersFacts
<1>10. ASSUME NEW k \in Keys
       PROVE  KeyInv(k)'
    <2>1. ~Attended(k)' /\ ~Waiting(k)'
        BY <1>1, <1>2 DEF Attended
    <2>2. GivenUp(k)
        BY <1>1, <1>3, <1>4, <1>5, <1>8, <1>9, <2>1 DEF GivenUp
    <2> QED
        BY <2>2, AnswerParts, GivenUpKeeps
<1> QED
    BY <1>2, <1>4, <1>5, <1>6, <1>7, <1>10, AnswerWhole

\* The connection breaks, or there is a new one: a run stays with its own.
LEMMA LinkKeepsAnswers ==
    ASSUME AnswerInv, ~SendMaySuspend, Close \/ Reconnect
    PROVE  AnswerInv'
<1>1. UNCHANGED <<permission_requests, handler, run_status, run_conn, unregistering, cancelled,
                  prompt, asked, answered, down, up>>
    BY DEF Close, Reconnect, backendVars, connectorVars, agentVars
<1>2. ConnectorInv /\ ConnectorInv'
    BY AnswerParts, LinkKeeps
<1>3. /\ conn \in Nat /\ \A r \in Runs : RunInv(r) /\ run_conn[r] \in Nat
      /\ unregistering \subseteq Nat
    BY <1>2, ConnectorFacts, Settings DEF BackendTypes, ConnectorTypes
<1>4. /\ \A k \in Keys : DecisionsFor(k)' = DecisionsFor(k)
      /\ Pairwise(down', DecidedApart) /\ In(down') = In(down)
    BY <1>1, SameDown
<1>5. /\ \A k \in Keys : RequestsFor(k)' = RequestsFor(k)
      /\ Pairwise(up', RequestedInOrder) /\ In(up') = In(up)
    BY <1>1, SameUp
<1>6. \/ conn' = conn /\ link' = "closed" /\ listening' = listening
      \/ conn' = conn + 1
    BY DEF Close, Reconnect, connectorVars
<1>7. \A u \in Users : HandlerInv(u)'
    <2>1. CASE Close
        BY <1>1, <2>1, HandlersStay DEF Close
    <2>2. CASE Reconnect
        BY <1>1, <2>2, HandlersIdle DEF Reconnect
    <2> QED
        BY <2>1, <2>2
<1>8. \A c \in Nat : c <= conn => c <= conn' /\ ~IsUp(c)'
    BY <1>3, <1>6 DEF IsUp
<1>9. \A c \in unregistering' : c <= conn' /\ ~IsUp(c)'
    BY <1>1, <1>3, <1>8, AnswerParts
<1>10. \A r \in Runs : ~IsUp(run_conn[r])' /\ run_conn[r] <= conn /\ run_conn[r] \in Nat
    <2>1. ASSUME NEW r \in Runs
          PROVE  ~IsUp(run_conn[r])' /\ run_conn[r] <= conn /\ run_conn[r] \in Nat
        <3>1. run_conn[r] <= conn /\ run_conn[r] \in Nat /\ run_conn'[r] = run_conn[r]
            BY <1>1, <1>3 DEF RunInv
        <3> QED
            BY <1>3, <1>6, <3>1 DEF IsUp
    <2> QED
        BY <2>1
<1>11. \A r \in Runs : EndInv(r)'
    BY <1>1, <1>4, <1>5, <1>10, AnswerParts DEF EndInv
<1>12. \A k \in Keys : /\ Recording(k)' = Recording(k)
                       /\ \A u \in Recording(k) : handler'[u].decision = handler[u].decision
    BY <1>1, SameHandlers
<1>13. ASSUME NEW k \in Keys
       PROVE  KeyInv(k)'
    <2>1. RunOf(k) \in Runs
        BY KeyFacts
    <2>2. ~IsUp(run_conn[RunOf(k)])'
        BY <1>10, <2>1
    <2>3. Attended(k)' => Attended(k) /\ link' = "closed"
        <3>1. run_conn[RunOf(k)] <= conn /\ run_conn[RunOf(k)] \in Nat
            BY <1>10, <2>1
        <3>2. CASE conn' = conn /\ link' = "closed" /\ listening' = listening
            BY <1>1, <3>2 DEF Attended
        <3>3. CASE conn' = conn + 1
            BY <1>1, <1>3, <3>1, <3>3 DEF Attended
        <3> QED
            BY <1>6, <3>2, <3>3
    <2>4. Quiet(k)
        BY <1>1, <1>4, <1>5, <1>12, <2>2, <2>3 DEF Quiet
    <2> QED
        BY <2>4, AnswerParts, QuietKeeps
<1> QED
    BY <1>2, <1>4, <1>5, <1>7, <1>9, <1>11, <1>13, AnswerWhole

LEMMA InitAnswerInv == Init => AnswerInv
<1> SUFFICES ASSUME Init PROVE AnswerInv
    OBVIOUS
<1>1. ConnectorInv
    BY InitConnectorInv
<1>2. /\ Pairwise(down, DecidedApart) /\ Pairwise(up, RequestedInOrder)
      /\ In(down) = {} /\ In(up) = {}
    BY NoMessages DEF Init
<1>3. \A r \in Runs : EndInv(r)
    BY <1>2 DEF Init, EndInv
<1>4. \A u \in Users : HandlerInv(u)
    BY DEF Init, HandlerInv
<1>5. ASSUME NEW k \in Keys
      PROVE  KeyInv(k)
    <2>1. /\ asked[k] = 0 /\ answered[k] = <<>> /\ permission_requests[k] = NoRow
          /\ DecisionsFor(k) = {} /\ RequestsFor(k) = {}
        BY <1>2 DEF Init, DecisionsFor, RequestsFor
    <2>2. NoRow.ask = 0 /\ NoRow.status = "none" /\ Pending # "none"
        BY DEF NoRow, Pending
    <2>3. ~Waiting(k) /\ DOMAIN answered[k] = {}
        BY <2>1 DEF Waiting, WaitingFor
    <2>4. NumbersInv(k)
        BY <2>1, <2>2 DEF NumbersInv
    <2>5. FreshInv(k) /\ RecordedInv(k)
        BY <2>1 DEF FreshInv, RecordedInv
    <2>6. AttendedInv(k)
        BY <2>1, <2>2 DEF AttendedInv
    <2>7. AnsweredInv(k) /\ ComingInv(k)
        BY <2>3 DEF AnsweredInv, ComingInv
    <2> QED
        BY <2>4, <2>5, <2>6, <2>7 DEF KeyInv
<1>6. \A c \in unregistering : c <= conn /\ ~IsUp(c)
    BY DEF Init
<1> QED
    BY <1>1, <1>2, <1>3, <1>4, <1>5, <1>6 DEF AnswerInv

LEMMA StutterKeepsAnswers == ASSUME AnswerInv, UNCHANGED vars PROVE AnswerInv'
<1>1. ConnectorInv /\ ConnectorInv'
    BY AnswerParts, StutterKeeps
<1>2. UNCHANGED <<permission_requests, handler, run_status, run_conn, unregistering, cancelled,
                  prompt, asked, answered, listening, conn, link, down, up>>
    BY DEF vars, backendVars, connectorVars, agentVars
<1>3. /\ \A k \in Keys : DecisionsFor(k)' = DecisionsFor(k)
      /\ Pairwise(down', DecidedApart) /\ In(down') = In(down)
    BY <1>2, SameDown
<1>4. /\ \A k \in Keys : RequestsFor(k)' = RequestsFor(k)
      /\ Pairwise(up', RequestedInOrder) /\ In(up') = In(up)
    BY <1>2, SameUp
<1>5. \A u \in Users : HandlerInv(u)'
    BY <1>2, HandlersStay
<1>6. (\A c \in unregistering' : c <= conn' /\ ~IsUp(c)') /\ \A r \in Runs : EndInv(r)'
    BY <1>2, <1>3, <1>4, RunsStay
<1>7. ASSUME NEW k \in Keys
      PROVE  KeyInv(k)'
    <2>1. Recording(k)' = Recording(k)
          /\ \A u \in Recording(k) : handler'[u].decision = handler[u].decision
        BY <1>2, SameHandlers
    <2>2. Quiet(k)
        BY <1>2, <1>3, <1>4, <2>1, QuietConnectorStep
    <2> QED
        BY <2>2, AnswerParts, QuietKeeps
<1> QED
    BY <1>1, <1>3, <1>4, <1>5, <1>6, <1>7, AnswerWhole

LEMMA StepKeepsAnswerInv ==
    ASSUME ~SendMaySuspend
    PROVE  AnswerInv /\ [Next]_vars => AnswerInv'
<1> SUFFICES ASSUME AnswerInv, [Next]_vars PROVE AnswerInv'
    OBVIOUS
<1>1. CASE \E r \in Runs : AssignRun(r)
    BY <1>1, AssignKeepsAnswers
<1>2. CASE \E r \in Runs : RequestCancel(r)
    BY <1>2, RequestCancelKeepsAnswers
<1>3. CASE \E r \in Runs : RemoveRun(r)
    BY <1>3, RemoveRunKeepsAnswers
<1>4. CASE \E r \in Runs : StartPrompt(r) \/ SetupFails(r)
    BY <1>4, StartKeepsAnswers
<1>5. CASE \E r \in Runs : PromptEnds(r)
    BY <1>5, PromptEndsKeepsAnswers
<1>6. CASE \E k \in Keys : Ask(k)
    BY <1>6, AskKeepsAnswers
<1>7. CASE \E u \in Users, k \in Keys, d \in Decisions : DecidePermission(u, k, d)
    BY <1>7, DecideKeepsAnswers
<1>8. CASE \E u \in Users : DecisionSent(u) \/ DecisionNotSent(u)
    BY <1>8, SentKeepsAnswers
<1>9. CASE BackendReads
    BY <1>9, BackendReadsKeepsAnswers
<1>10. CASE Unregister
    BY <1>10, UnregisterKeepsAnswers
<1>11. CASE \E c \in unregistering : UnregisterReturns(c)
    <2>1. PICK c : c \in unregistering /\ UnregisterReturns(c)
        BY <1>11
    <2> QED
        BY <2>1, UnregisterReturnsKeepsAnswers
<1>12. CASE ConnectorReads
    BY <1>12, ConnectorReadsKeepsAnswers
<1>13. CASE ConnectionEnds
    BY <1>13, ConnectionEndsKeepsAnswers
<1>14. CASE Close \/ Reconnect
    BY <1>14, LinkKeepsAnswers
<1>15. CASE UNCHANGED vars
    BY <1>15, StutterKeepsAnswers
<1> QED
    BY <1>1, <1>2, <1>3, <1>4, <1>5, <1>6, <1>7, <1>8, <1>9, <1>10, <1>11, <1>12, <1>13,
       <1>14, <1>15 DEF Next
-----------------------------------------------------------------------------
(* The invariant of the asks, and the properties that follow from it.        *)

\* While no send suspends, what is on the way, the rows, the calls that decide
\* and the agents' asks fit together in every reachable state.
THEOREM AnswerInvariant ==
    ASSUME ~SendMaySuspend
    PROVE  Spec => []AnswerInv
BY InitAnswerInv, StepKeepsAnswerInv, PTL DEF Spec

\* While no send suspends, an agent that waits for a permission has a future
\* the connector can resolve, and its request, the pending row or a decision
\* stands between it and its answer, unless its connection is gone: create_
\* permission_request, decide_permission and _handle_permission_decision lose
\* no ask of any tool call, however often it is used again.
THEOREM WaitersAreAnswerable ==
    ASSUME ~SendMaySuspend
    PROVE  Spec => []WaiterCanBeAnswered
<1>1. ASSUME AnswerInv
      PROVE  WaiterCanBeAnswered
    <2>1. ConnectorInv
        BY <1>1, AnswerParts
    <2>2. ASSUME NEW k \in Keys, Waiting(k)
          PROVE  /\ k \in futures
                 /\ \/ ~IsUp(run_conn[RunOf(k)])
                    \/ OnItsWay(up, Message("run.permission.requested", k, Cancelled, asked[k]))
                    \/ permission_requests[k] = [status |-> Pending, ask |-> asked[k]]
                    \/ \E d \in Decisions, n \in Asks :
                          OnItsWay(down, Message("run.permission.decision", k, d, n))
        <3>1. k \in futures
            BY <2>1, <2>2, ConnectorFacts DEF WaiterInv
        <3>2. CASE \E m \in RequestsFor(k) : m.ask = asked[k]
            <4>1. PICK m \in RequestsFor(k) : m.ask = asked[k]
                BY <3>2
            <4>2. /\ m \in In(up) /\ m \in UpMessage /\ m.type = "run.permission.requested"
                  /\ m.key = k
                BY <2>1, <4>1, ChannelFacts
            <4>3. m = Message("run.permission.requested", k, Cancelled, asked[k])
                BY <4>1, <4>2 DEF UpMessage, Message
            <4> QED
                BY <3>1, <4>2, <4>3 DEF In, OnItsWay
        <3>3. CASE DecisionsFor(k) # {}
            <4>1. PICK m \in DecisionsFor(k) : TRUE
                BY <3>3
            <4>2. /\ m \in In(down) /\ m \in DownMessage
                  /\ m.type = "run.permission.decision" /\ m.key = k
                BY <2>1, <4>1, ChannelFacts
            <4>3. /\ m.decision \in Decisions /\ m.ask \in Asks
                  /\ m = Message("run.permission.decision", k, m.decision, m.ask)
                BY <4>2 DEF DownMessage, Message
            <4> QED
                BY <3>1, <4>2, <4>3 DEF In, OnItsWay
        <3>4. ComingInv(k)
            BY <1>1, AnswerParts DEF KeyInv
        <3> QED
            BY <2>2, <3>1, <3>2, <3>3, <3>4 DEF ComingInv
    <2> QED
        BY <2>2 DEF WaiterCanBeAnswered
<1> QED
    BY <1>1, AnswerInvariant, PTL

\* While no send suspends, a decision that reaches the agent of a run that
\* nobody cancels was made for the ask the agent waits with.
THEOREM DecisionsAreForTheAsk ==
    ASSUME ~SendMaySuspend
    PROVE  Spec => DecisionIsForThisAsk
<1>1. ASSUME AnswerInv, [Next]_vars
      PROVE  [\A k \in Keys :
                LET m == Head(down)
                IN  ConnectorReads /\ m.type = "run.permission.decision" /\ m.key = k
                      /\ answered'[k] # answered[k] /\ RunOf(k) \notin cancelled
                    => m.ask = asked[k]]_vars
    <2>1. ASSUME NEW k \in Keys, ConnectorReads,
                 Head(down).type = "run.permission.decision", Head(down).key = k,
                 answered'[k] # answered[k], RunOf(k) \notin cancelled
          PROVE  Head(down).ask = asked[k]
        <3>1. ConnectorInv /\ KeyInv(k)
            BY <1>1, AnswerParts
        <3>2. HandlePermissionDecision(Head(down))
            BY <2>1 DEF ConnectorReads
        <3>3. Waiting(k)
            BY <2>1, <3>1, <3>2, DecisionFacts
        <3>4. Attended(k)
            BY <2>1, <3>1, <3>3, ConnectorFacts DEF WaiterInv, Attended
        <3>5. Head(down) \in DecisionsFor(k)
            BY <1>1, <2>1, ConnectorReadFacts DEF DecisionsFor
        <3> QED
            BY <3>1, <3>4, <3>5 DEF KeyInv, AttendedInv
    <2> QED
        BY <2>1
<1>2. AnswerInv /\ [Next]_vars =>
        [\A k \in Keys :
            LET m == Head(down)
            IN  ConnectorReads /\ m.type = "run.permission.decision" /\ m.key = k
                  /\ answered'[k] # answered[k] /\ RunOf(k) \notin cancelled
                => m.ask = asked[k]]_vars
    BY <1>1
<1> QED
    BY <1>2, AnswerInvariant, PTL DEF Spec, DecisionIsForThisAsk
=============================================================================
