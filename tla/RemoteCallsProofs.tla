------------------------- MODULE RemoteCallsProofs ---------------------------
(***************************************************************************)
(* Proofs about RemoteCalls, for any calls, kinds and connections.  The    *)
(* inductive invariant has two halves: CallPart, of the handlers, their    *)
(* requests and waiters, and ConnPart, of the connections and the messages *)
(* on them; a step disturbs one of them, or both in one place.             *)
(* RequestInv relates a call to the request it waits for: whoever is not a *)
(* sync has a request of its own, so a cancelled handler takes only that   *)
(* one away.  StoringInv keeps a request that was not sent from being the  *)
(* one whose answer is stored, or was refused by the database.             *)
(***************************************************************************)
EXTENDS RemoteCalls, TLAPS

Answers == [to : Calls, ok : BOOLEAN]

CallTypes ==
    /\ call \in [Calls -> {"idle", "waiting"} \union Ended]
    /\ kind \in [Calls -> Kinds \union {"none"}]
    /\ follows \in [Calls -> Calls \union {NoCall}]
    /\ request \in [Calls -> {"none", "created", "sent"} \union Ended]
    /\ future \in [Calls -> {"none", "pending", "result", "exception", "cancelled"}]
    /\ request_conn \in [Calls -> ConnNumbers]
    /\ waiters \subseteq Calls
    /\ inflight \in Calls \union {NoCall}
    /\ storing \in (Calls \ waiters) \union {NoCall}
    /\ unstored \subseteq Calls

ConnPart ==
    /\ working \subseteq Calls
    /\ registered \in {0, conn} /\ registering \in {0, conn}
    /\ unregistering \subseteq ConnNumbers /\ abandoned \subseteq ConnNumbers
    /\ conn \in ConnNumbers
    /\ agent_status \in {"online", "offline"} /\ link \in {"up", "closed"}
    /\ up \in Seq(Answers)

\* A call that has begun waits for the request of one that has, its own unless it
\* is a sync; the request of a sync is never cancelled.
RequestInv ==
    \A c \in Calls :
        /\ call[c] = "idle" => request[c] = "none"
        /\ call[c] # "idle" =>
              /\ follows[c] \in Calls /\ call[follows[c]] # "idle"
              /\ IF IsSync(c) THEN IsSync(follows[c]) ELSE follows[c] = c
        /\ request[c] = "cancelled" => ~IsSync(c)

\* What the next sync would join is a sync.
InflightInv == inflight # NoCall => call[inflight] # "idle" /\ IsSync(inflight)

\* An answer is stored for a request that was sent.
StoringInv ==
    /\ storing # NoCall => request[storing] \notin {"none", "created"}
    /\ \A c \in unstored : request[c] \notin {"none", "created"}

CallPart ==
    /\ CallTypes
    /\ RequestInv
    /\ InflightInv
    /\ StoringInv
    /\ WaitersMatchRequests
    /\ OneSyncInFlight

CallsInv == CallPart /\ ConnPart

LEMMA TypesHold == CallTypes /\ ConnPart => CallsTypeOK
<1> SUFFICES ASSUME CallTypes, ConnPart PROVE CallsTypeOK
  OBVIOUS
<1>1. \A i \in DOMAIN up : up[i] \in [to : Calls, ok : BOOLEAN]
  <2>1. up \in Seq(Answers)
    BY DEF ConnPart
  <2>2. \A i \in DOMAIN up : up[i] \in Answers
    BY <2>1
  <2> QED BY <2>2 DEF Answers
<1> QED BY <1>1 DEF CallTypes, ConnPart, CallsTypeOK

LEMMA InitInv == Init => CallsInv
<1> SUFFICES ASSUME Init PROVE CallsInv
  OBVIOUS
<1>1. CallTypes
  BY RemoteCallsAssumption DEF Init, CallTypes, ConnNumbers
<1>2. ConnPart
  BY RemoteCallsAssumption DEF Init, ConnPart, ConnNumbers
<1>3. RequestInv /\ InflightInv /\ StoringInv /\ WaitersMatchRequests /\ OneSyncInFlight
  BY
    DEF Init, RequestInv, InflightInv, StoringInv, WaitersMatchRequests, OneSyncInFlight, IsSync
<1> QED BY <1>1, <1>2, <1>3 DEF CallsInv, CallPart

(***************************************************************************)
(* Steps that leave one half alone.                                        *)
(***************************************************************************)

LEMMA CallsUntouched ==
    ASSUME CallPart, UNCHANGED <<callVars, storeVars>>
    PROVE  CallPart'
BY DEF CallPart, CallTypes, RequestInv, InflightInv, StoringInv, WaitersMatchRequests,
       OneSyncInFlight, IsSync, callVars, storeVars

LEMMA ConnUntouched ==
    ASSUME ConnPart, UNCHANGED <<connVars, conn, link, up, working>>
    PROVE  ConnPart'
BY DEF ConnPart, connVars

LEMMA ConnectionKeeps ==
    ASSUME CallsInv,
           \/ Heartbeat \/ Connect \/ Registered \/ RegisterRaises \/ Close \/ Unregister
           \/ \E n \in unregistering : UnregisterRaises(n)
    PROVE  CallsInv'
<1>1. UNCHANGED <<callVars, storeVars>>
  BY DEF Heartbeat, Connect, Registered, RegisterRaises, Close, Unregister, UnregisterRaises
<1>2. ConnPart'
  <2>1. CASE Heartbeat
    BY <2>1 DEF Heartbeat, Seen, CallsInv, ConnPart
  <2>2. CASE Connect
    BY <2>2, RemoteCallsAssumption DEF Connect, CallsInv, ConnPart, ConnNumbers
  <2>3. CASE Registered \/ RegisterRaises
    BY <2>3 DEF Registered, RegisterRaises, CallsInv, ConnPart
  <2>4. CASE Close
    BY <2>4 DEF Close, CallsInv, ConnPart, connVars
  <2>5. CASE Unregister
    BY <2>5 DEF Unregister, CallsInv, ConnPart
  <2>6. CASE \E n \in unregistering : UnregisterRaises(n)
    BY <2>6 DEF UnregisterRaises, CallsInv, ConnPart
  <2> QED BY <2>1, <2>2, <2>3, <2>4, <2>5, <2>6
<1> QED BY <1>1, <1>2, CallsUntouched DEF CallsInv

LEMMA ReplyKeeps ==
    ASSUME CallsInv, NEW c \in Calls, Reply(c)
    PROVE  CallsInv'
<1>1. UNCHANGED <<callVars, storeVars>>
  BY DEF Reply
<1>2. up' \in Seq(Answers)
  <2>1. \A ok \in BOOLEAN : Append(up, [to |-> c, ok |-> ok]) \in Seq(Answers)
    BY DEF CallsInv, ConnPart, Answers
  <2> QED BY <2>1 DEF Reply, CallsInv, ConnPart
<1>3. ConnPart'
  BY <1>2 DEF Reply, CallsInv, ConnPart, connVars
<1> QED BY <1>1, <1>3, CallsUntouched DEF CallsInv

(***************************************************************************)
(* The handlers.  <1>1 states what a step does to each call.               *)
(***************************************************************************)

LEMMA BeginKeeps ==
    ASSUME CallsInv, NEW c \in Calls, NEW k \in KindsOf[c], Begin(c, k)
    PROVE  CallsInv'
<1>0. k \in Kinds
  BY RemoteCallsAssumption
<1>1. /\ call[c] = "idle" /\ call'[c] = "waiting"
      /\ kind'[c] = k /\ kind' \in [Calls -> Kinds \union {"none"}]
      /\ \A d \in Calls \ {c} : /\ call'[d] = call[d] /\ kind'[d] = kind[d]
                                /\ follows'[d] = follows[d] /\ request'[d] = request[d]
      /\ \/ /\ k = "sync" /\ inflight # NoCall /\ inflight' = inflight
            /\ follows'[c] = inflight /\ request'[c] = request[c]
         \/ /\ k # "sync" \/ inflight = NoCall
            /\ follows'[c] = c /\ request'[c] = "created"
            /\ inflight' = IF k = "sync" THEN c ELSE inflight
      /\ UNCHANGED <<future, waiters, storing, unstored>>
  BY <1>0 DEF Begin, CallsInv, storeVars, CallPart, CallTypes
<1>2. ConnPart'
  BY ConnUntouched DEF Begin, CallsInv
<1>3. CallTypes'
  <2>1. call' \in [Calls -> {"idle", "waiting"} \union Ended]
    BY DEF Begin, CallsInv, storeVars, CallPart, CallTypes
  <2>2. /\ follows' \in [Calls -> Calls \union {NoCall}]
        /\ inflight' \in Calls \union {NoCall}
    BY DEF Begin, CallsInv, storeVars, CallPart, CallTypes
  <2>3. request' \in [Calls -> {"none", "created", "sent"} \union Ended]
    BY DEF Begin, CallsInv, storeVars, CallPart, CallTypes
  <2> QED BY <1>1, <2>1, <2>2, <2>3 DEF Begin, CallsInv, storeVars, CallPart, CallTypes
<1>4. RequestInv'
  BY <1>1, RemoteCallsAssumption
    DEF CallsInv, CallPart, CallTypes, RequestInv, InflightInv, IsSync
<1>5. InflightInv'
  BY <1>1, RemoteCallsAssumption DEF CallsInv, CallPart, CallTypes, InflightInv, IsSync
<1>6. StoringInv'
  BY <1>1, RemoteCallsAssumption DEF CallsInv, CallPart, CallTypes, StoringInv, RequestInv
<1>7. WaitersMatchRequests'
  BY <1>1, RemoteCallsAssumption
    DEF CallsInv, CallPart, CallTypes, WaitersMatchRequests, RequestInv, StoringInv
<1>8. OneSyncInFlight'
  BY <1>1, RemoteCallsAssumption
    DEF CallsInv, CallPart, CallTypes, OneSyncInFlight, InflightInv, RequestInv, IsSync
<1> QED
  BY <1>2, <1>3, <1>4, <1>5, <1>6, <1>7, <1>8 DEF CallsInv, CallPart

LEMMA SendKeeps ==
    ASSUME CallsInv, NEW c \in Calls, Send(c)
    PROVE  CallsInv'
<1>1. /\ request[c] = "created"
      /\ \A d \in Calls \ {c} : request'[d] = request[d] /\ future'[d] = future[d]
      /\ \/ /\ request'[c] = "sent" /\ future'[c] = "pending"
            /\ waiters' = waiters \union {c}
         \/ request'[c] = "failed" /\ future'[c] = future[c] /\ waiters' = waiters
      /\ UNCHANGED <<call, kind, follows, inflight, storing, unstored>>
  BY DEF Send, CallsInv, storeVars, CallPart, CallTypes
<1>2. ConnPart'
  BY DEF Send, CallsInv, ConnPart, connVars
<1>3. CallTypes'
  <2>1. request' \in [Calls -> {"none", "created", "sent"} \union Ended]
    BY DEF Send, CallsInv, storeVars, CallPart, CallTypes, Ended
  <2>2. future' \in [Calls -> {"none", "pending", "result", "exception", "cancelled"}]
    BY DEF Send, CallsInv, storeVars, CallPart, CallTypes
  <2>3. request_conn' \in [Calls -> ConnNumbers]
    <3>1. registered \in ConnNumbers
      BY RemoteCallsAssumption DEF CallsInv, ConnPart, ConnNumbers
    <3> QED BY <3>1 DEF Send, CallsInv, storeVars, CallPart, CallTypes
  <2>4. storing' \in (Calls \ waiters') \union {NoCall}
    BY <1>1 DEF CallsInv, CallPart, CallTypes, StoringInv
  <2> QED BY <1>1, <2>1, <2>2, <2>3, <2>4 DEF Send, CallsInv, storeVars, CallPart, CallTypes
<1>4. RequestInv'
  BY <1>1, RemoteCallsAssumption
    DEF CallsInv, CallPart, CallTypes, RequestInv, InflightInv, IsSync
<1>5. InflightInv'
  BY <1>1, RemoteCallsAssumption DEF CallsInv, CallPart, CallTypes, InflightInv, IsSync
<1>6. StoringInv'
  BY <1>1, RemoteCallsAssumption DEF CallsInv, CallPart, CallTypes, StoringInv
<1>7. WaitersMatchRequests'
  BY <1>1, RemoteCallsAssumption
    DEF CallsInv, CallPart, CallTypes, WaitersMatchRequests, RequestInv, StoringInv
<1>8. OneSyncInFlight'
  BY <1>1, RemoteCallsAssumption
    DEF CallsInv, CallPart, CallTypes, OneSyncInFlight, InflightInv, RequestInv, IsSync
<1> QED
  BY <1>2, <1>3, <1>4, <1>5, <1>6, <1>7, <1>8 DEF CallsInv, CallPart

LEMMA RequestEndsKeeps ==
    ASSUME CallsInv, NEW c \in Calls, RequestEnds(c)
    PROVE  CallsInv'
<1>1. /\ request[c] = "sent" /\ future[c] # "pending"
      /\ request'[c] \in {"returned", "failed"}
      /\ \A d \in Calls \ {c} : request'[d] = request[d]
      /\ waiters' = waiters \ {c}
      /\ UNCHANGED <<call, kind, follows, future, inflight, storing, unstored>>
  BY DEF RequestEnds, Dropped, CallsInv, storeVars, CallPart, CallTypes
<1>2. ConnPart'
  BY ConnUntouched DEF RequestEnds, Dropped, CallsInv
<1>3. CallTypes'
  BY RemoteCallsAssumption
    DEF RequestEnds, Dropped, CallsInv, storeVars, CallPart, CallTypes, ConnPart, Ended
<1>4. RequestInv'
  BY <1>1, RemoteCallsAssumption
    DEF CallsInv, CallPart, CallTypes, RequestInv, InflightInv, IsSync
<1>5. InflightInv'
  BY <1>1, RemoteCallsAssumption DEF CallsInv, CallPart, CallTypes, InflightInv, IsSync
<1>6. StoringInv'
  BY <1>1, RemoteCallsAssumption DEF CallsInv, CallPart, CallTypes, StoringInv
<1>7. WaitersMatchRequests'
  BY <1>1, RemoteCallsAssumption
    DEF CallsInv, CallPart, CallTypes, WaitersMatchRequests, RequestInv, StoringInv
<1>8. OneSyncInFlight'
  BY <1>1, RemoteCallsAssumption
    DEF CallsInv, CallPart, CallTypes, OneSyncInFlight, InflightInv, RequestInv, IsSync
<1> QED
  BY <1>2, <1>3, <1>4, <1>5, <1>6, <1>7, <1>8 DEF CallsInv, CallPart

LEMMA TimesOutKeeps ==
    ASSUME CallsInv, NEW c \in Calls, TimesOut(c)
    PROVE  CallsInv'
<1>1. /\ request[c] = "sent" /\ request'[c] = "timed out"
      /\ future'[c] # "pending"
      /\ \A d \in Calls \ {c} : request'[d] = request[d] /\ future'[d] = future[d]
      /\ waiters' = waiters \ {c}
      /\ UNCHANGED <<call, kind, follows, inflight, storing, unstored>>
  BY DEF TimesOut, Dropped, CallsInv, storeVars, CallPart, CallTypes
<1>2. ConnPart'
  BY ConnUntouched DEF TimesOut, Dropped, CallsInv
<1>3. CallTypes'
  BY RemoteCallsAssumption DEF TimesOut, Dropped, CallsInv, storeVars, CallPart, CallTypes, ConnPart, Ended
<1>4. RequestInv'
  <2>1. \A d \in Calls : request'[d] \in {"none", "cancelled"} => request'[d] = request[d]
    BY <1>1
  <2>2. \A d \in Calls : request[d] = "none" => request'[d] = "none"
    BY <1>1
  <2> QED BY <1>1, <2>1, <2>2 DEF CallsInv, CallPart, RequestInv, IsSync
<1>5. InflightInv'
  BY <1>1, RemoteCallsAssumption DEF CallsInv, CallPart, CallTypes, InflightInv, IsSync
<1>6. StoringInv'
  BY <1>1, RemoteCallsAssumption DEF CallsInv, CallPart, CallTypes, StoringInv
<1>7. WaitersMatchRequests'
  BY <1>1, RemoteCallsAssumption
    DEF CallsInv, CallPart, CallTypes, WaitersMatchRequests, RequestInv, StoringInv
<1>8. OneSyncInFlight'
  BY <1>1, RemoteCallsAssumption
    DEF CallsInv, CallPart, CallTypes, OneSyncInFlight, InflightInv, RequestInv, IsSync
<1> QED
  BY <1>2, <1>3, <1>4, <1>5, <1>6, <1>7, <1>8 DEF CallsInv, CallPart

LEMMA CallEndsKeeps ==
    ASSUME CallsInv, NEW c \in Calls, CallEnds(c)
    PROVE  CallsInv'
<1>1. /\ call[c] = "waiting" /\ call'[c] \in Ended
      /\ \A d \in Calls \ {c} : call'[d] = call[d]
      /\ inflight' = IF follows[c] = c /\ inflight = c THEN NoCall ELSE inflight
      /\ UNCHANGED <<kind, follows, request, future, waiters, storing, unstored>>
  BY DEF CallEnds, Forget, Ended, CallsInv, storeVars, CallPart, CallTypes
<1>2. ConnPart'
  BY ConnUntouched DEF CallEnds, Forget, CallsInv
<1>3. CallTypes'
  BY RemoteCallsAssumption DEF CallEnds, Forget, CallsInv, storeVars, CallPart, CallTypes, ConnPart, Ended
<1>4. RequestInv'
  <2>1. \A d \in Calls : call'[d] = "idle" <=> call[d] = "idle"
    BY <1>1 DEF Ended
  <2> QED BY <1>1, <2>1 DEF CallsInv, CallPart, RequestInv, IsSync
<1>5. InflightInv'
  BY <1>1, RemoteCallsAssumption DEF CallsInv, CallPart, CallTypes, InflightInv, IsSync, Ended
<1>6. StoringInv'
  BY <1>1, RemoteCallsAssumption DEF CallsInv, CallPart, CallTypes, StoringInv
<1>7. WaitersMatchRequests'
  BY <1>1, RemoteCallsAssumption
    DEF CallsInv, CallPart, CallTypes, WaitersMatchRequests, RequestInv, StoringInv
<1>8. OneSyncInFlight'
  <2> SUFFICES ASSUME NEW d \in Calls, kind[d] = "sync", follows[d] = d,
                      call'[d] = "waiting", request[d] \in {"created", "sent"}
               PROVE  inflight' = d
    BY <1>1 DEF OneSyncInFlight, IsSync
  <2>1. d # c /\ call[d] = "waiting"
    BY <1>1 DEF Ended
  <2>2. inflight = d
    BY <2>1 DEF CallsInv, CallPart, OneSyncInFlight, IsSync
  <2> QED BY <1>1, <2>1, <2>2
<1> QED
  BY <1>2, <1>3, <1>4, <1>5, <1>6, <1>7, <1>8 DEF CallsInv, CallPart

\* A cancelled handler takes away a request only if it is its own.
LEMMA CancelCallKeeps ==
    ASSUME CallsInv, NEW c \in Calls, CancelCall(c)
    PROVE  CallsInv'
<1>1. /\ call[c] = "waiting" /\ call'[c] = "cancelled"
      /\ \A d \in Calls \ {c} : call'[d] = call[d]
      /\ inflight' = IF follows[c] = c /\ inflight = c THEN NoCall ELSE inflight
      /\ \/ UNCHANGED <<request, future, waiters>>
         \/ /\ kind[c] # "sync" /\ request[c] \notin Ended
            /\ request'[c] = "cancelled" /\ future'[c] # "pending"
            /\ \A d \in Calls \ {c} : request'[d] = request[d] /\ future'[d] = future[d]
            /\ waiters' = waiters \ {c}
      /\ UNCHANGED <<kind, follows, storing, unstored>>
  <2>1. call[c] # "idle" /\ (kind[c] # "sync" => follows[c] = c)
    BY DEF CancelCall, CallsInv, storeVars, CallPart, RequestInv, IsSync
  <2> QED BY <2>1
      DEF CancelCall, TakesRequest, Dropped, Forget, IsSync, CallsInv, storeVars, CallPart, CallTypes
<1>2. ConnPart'
  BY ConnUntouched DEF CancelCall, TakesRequest, Dropped, Forget, IsSync, CallsInv
<1>3. CallTypes'
  <2>1. follows[c] \in Calls
    BY <1>1 DEF CallsInv, CallPart, RequestInv
  <2>2. call' \in [Calls -> {"idle", "waiting"} \union Ended]
    BY DEF CancelCall, CallsInv, storeVars, CallPart, CallTypes, Ended
  <2>3. request' \in [Calls -> {"none", "created", "sent"} \union Ended]
    BY <2>1 DEF CancelCall, CallsInv, storeVars, CallPart, CallTypes, Ended
  <2>4. future' \in [Calls -> {"none", "pending", "result", "exception", "cancelled"}]
    BY <2>1 DEF CancelCall, CallsInv, storeVars, CallPart, CallTypes
  <2>5. waiters' \subseteq waiters /\ inflight' \in Calls \union {NoCall}
    BY <1>1 DEF CallsInv, CallPart, CallTypes
  <2> QED
    BY <1>1, <2>2, <2>3, <2>4, <2>5 DEF CancelCall, CallsInv, storeVars, CallPart, CallTypes
<1>4. RequestInv'
  BY <1>1, RemoteCallsAssumption
    DEF CallsInv, CallPart, CallTypes, RequestInv, InflightInv, IsSync
<1>5. InflightInv'
  BY <1>1, RemoteCallsAssumption DEF CallsInv, CallPart, CallTypes, InflightInv, IsSync
<1>6. StoringInv'
  BY <1>1, RemoteCallsAssumption DEF CallsInv, CallPart, CallTypes, StoringInv
<1>7. WaitersMatchRequests'
  BY <1>1, RemoteCallsAssumption
    DEF CallsInv, CallPart, CallTypes, WaitersMatchRequests, RequestInv, StoringInv
<1>8. OneSyncInFlight'
  BY <1>1, RemoteCallsAssumption
    DEF CallsInv, CallPart, CallTypes, OneSyncInFlight, InflightInv, RequestInv, IsSync
<1> QED
  BY <1>2, <1>3, <1>4, <1>5, <1>6, <1>7, <1>8 DEF CallsInv, CallPart

(***************************************************************************)
(* Results and the end of a connection.                                    *)
(***************************************************************************)

LEMMA StoredKeeps ==
    ASSUME CallsInv, Stored
    PROVE  CallsInv'
<1>1. /\ storing # NoCall /\ storing' = NoCall /\ storing \in Calls
      /\ future'[storing] # "pending"
      /\ \A d \in Calls \ {storing} : future'[d] = future[d]
      /\ UNCHANGED <<call, kind, follows, request, waiters, inflight, unstored>>
  BY DEF Stored, CallsInv, storeVars, CallPart, CallTypes
<1>2. ConnPart'
  BY ConnUntouched DEF Stored, CallsInv
<1>3. CallTypes'
  BY RemoteCallsAssumption DEF Stored, CallsInv, storeVars, CallPart, CallTypes, ConnPart, Ended
<1>4. RequestInv'
  BY <1>1, RemoteCallsAssumption
    DEF CallsInv, CallPart, CallTypes, RequestInv, InflightInv, IsSync
<1>5. InflightInv'
  BY <1>1, RemoteCallsAssumption DEF CallsInv, CallPart, CallTypes, InflightInv, IsSync
<1>6. StoringInv'
  BY <1>1, RemoteCallsAssumption DEF CallsInv, CallPart, CallTypes, StoringInv
<1>7. WaitersMatchRequests'
  BY <1>1, RemoteCallsAssumption
    DEF CallsInv, CallPart, CallTypes, WaitersMatchRequests, RequestInv, StoringInv
<1>8. OneSyncInFlight'
  BY <1>1, RemoteCallsAssumption
    DEF CallsInv, CallPart, CallTypes, OneSyncInFlight, InflightInv, RequestInv, IsSync
<1> QED
  BY <1>2, <1>3, <1>4, <1>5, <1>6, <1>7, <1>8 DEF CallsInv, CallPart

LEMMA StoreFailsKeeps ==
    ASSUME CallsInv, StoreFails
    PROVE  CallsInv'
<1>1. /\ storing # NoCall /\ storing' = NoCall /\ storing \in Calls \ waiters
      /\ unstored' = unstored \union {storing}
      /\ UNCHANGED callVars
  BY DEF StoreFails, CallsInv, CallPart, CallTypes
<1>2. ConnPart'
  BY ConnUntouched DEF StoreFails, CallsInv
<1>3. CallTypes'
  BY <1>1, RemoteCallsAssumption DEF CallsInv, CallPart, CallTypes, callVars
<1>4. RequestInv' /\ InflightInv' /\ OneSyncInFlight'
  BY <1>1 DEF CallsInv, CallPart, RequestInv, InflightInv, OneSyncInFlight, IsSync, callVars
<1>5. StoringInv'
  BY <1>1 DEF CallsInv, CallPart, StoringInv, callVars
<1>6. WaitersMatchRequests'
  BY <1>1 DEF CallsInv, CallPart, WaitersMatchRequests, callVars
<1> QED
  BY <1>2, <1>3, <1>4, <1>5, <1>6 DEF CallsInv, CallPart

LEMMA HandleResultKeeps ==
    ASSUME CallsInv, HandleResult
    PROVE  CallsInv'
<1> DEFINE c == Head(up).to
<1>0. Head(up) \in Answers /\ Tail(up) \in Seq(Answers) /\ c \in Calls
  <2>1. up \in Seq(Answers) /\ up # <<>>
    BY DEF HandleResult, CallsInv, ConnPart
  <2>2. Head(up) \in Answers /\ Tail(up) \in Seq(Answers)
    BY <2>1
  <2> QED BY <2>2 DEF Answers
<1>1. /\ storing = NoCall /\ waiters' = waiters \ {c}
      /\ \A d \in Calls \ {c} : future'[d] = future[d]
      /\ \/ /\ c \in waiters /\ future[c] = "pending"
            /\ \/ storing' = c /\ future' = future
               \/ storing' = NoCall /\ future'[c] # "pending"
         \/ ~(c \in waiters /\ future[c] = "pending") /\ storing' = NoCall /\ future' = future
      /\ UNCHANGED <<call, kind, follows, request, inflight, unstored>>
  BY <1>0 DEF HandleResult, Served, CanResolve, Taken, CallsInv, storeVars, CallPart, CallTypes
<1>2. ConnPart'
  BY <1>0 DEF HandleResult, CallsInv, ConnPart, connVars
<1>3. CallTypes'
  <2>1. future' \in [Calls -> {"none", "pending", "result", "exception", "cancelled"}]
    BY <1>0 DEF HandleResult, CallsInv, storeVars, CallPart, CallTypes
  <2> QED BY <1>0, <1>1, <2>1 DEF HandleResult, CallsInv, storeVars, CallPart, CallTypes
<1>4. RequestInv'
  BY <1>0, <1>1, RemoteCallsAssumption
    DEF CallsInv, CallPart, CallTypes, RequestInv, InflightInv, IsSync
<1>5. InflightInv'
  BY <1>0, <1>1, RemoteCallsAssumption DEF CallsInv, CallPart, CallTypes, InflightInv, IsSync
<1>6. StoringInv'
  BY <1>0, <1>1, RemoteCallsAssumption DEF CallsInv, CallPart, CallTypes, StoringInv,
      WaitersMatchRequests
<1>7. WaitersMatchRequests'
  BY <1>0, <1>1, RemoteCallsAssumption
    DEF CallsInv, CallPart, CallTypes, WaitersMatchRequests, RequestInv, StoringInv
<1>8. OneSyncInFlight'
  BY <1>0, <1>1, RemoteCallsAssumption
    DEF CallsInv, CallPart, CallTypes, OneSyncInFlight, InflightInv, RequestInv, IsSync
<1> QED
  BY <1>2, <1>3, <1>4, <1>5, <1>6, <1>7, <1>8 DEF CallsInv, CallPart

LEMMA UnregisteredKeeps ==
    ASSUME CallsInv, NEW n \in unregistering, Unregistered(n)
    PROVE  CallsInv'
<1>1. /\ waiters' = {}
      /\ \A d \in Calls : future'[d] = IF d \in waiters /\ future[d] = "pending"
                                       THEN "exception" ELSE future[d]
      /\ UNCHANGED <<call, kind, follows, request, storing, unstored, inflight>>
  BY DEF Unregistered, FailWaiters, CallsInv, storeVars, CallPart, CallTypes
<1>2. ConnPart'
  BY DEF Unregistered, CallsInv, ConnPart
<1>3. CallTypes'
  BY RemoteCallsAssumption
    DEF Unregistered, FailWaiters, CallsInv, storeVars, CallPart, CallTypes, ConnPart, Ended
<1>4. RequestInv'
  BY <1>1, RemoteCallsAssumption
    DEF CallsInv, CallPart, CallTypes, RequestInv, InflightInv, IsSync
<1>5. InflightInv'
  BY <1>1, RemoteCallsAssumption DEF CallsInv, CallPart, CallTypes, InflightInv, IsSync
<1>6. StoringInv'
  BY <1>1, RemoteCallsAssumption DEF CallsInv, CallPart, CallTypes, StoringInv
<1>7. WaitersMatchRequests'
  BY <1>1, RemoteCallsAssumption
    DEF CallsInv, CallPart, CallTypes, WaitersMatchRequests, RequestInv, StoringInv
<1>8. OneSyncInFlight'
  BY <1>1, RemoteCallsAssumption
    DEF CallsInv, CallPart, CallTypes, OneSyncInFlight, InflightInv, RequestInv, IsSync
<1> QED
  BY <1>2, <1>3, <1>4, <1>5, <1>6, <1>7, <1>8 DEF CallsInv, CallPart

LEMMA StepKeeps == CallsInv /\ [Next]_vars => CallsInv'
<1> SUFFICES ASSUME CallsInv, [Next]_vars
             PROVE  CallsInv'
  OBVIOUS
<1>1. CASE Next
  BY <1>1, BeginKeeps, SendKeeps, RequestEndsKeeps, TimesOutKeeps, CallEndsKeeps,
     CancelCallKeeps, ReplyKeeps, HandleResultKeeps, StoredKeeps, StoreFailsKeeps, ConnectionKeeps,
     UnregisteredKeeps DEF Next
<1>2. CASE UNCHANGED vars
  BY <1>2, CallsUntouched, ConnUntouched DEF vars, CallsInv
<1> QED BY <1>1, <1>2

\* The inductive invariant holds in every reachable state.
THEOREM InductiveInvariant == Spec => []CallsInv
BY InitInv, StepKeeps, PTL DEF Spec

\* A call that waits is found by a result or by the end of the connection, unless
\* the database refused its answer, and no waiter stays behind, however calls end,
\* time out or are cancelled.
THEOREM WaitersAreExact == Spec => []CallsOK
<1>1. CallsInv => CallsOK
  BY TypesHold DEF CallsInv, CallPart, CallsOK
<1> QED BY <1>1, InductiveInvariant, PTL

\* However many handlers share a sync, cancelling some leaves the request to
\* the others: sync_remote_session shields the task.
THEOREM SharersAreSafe == Spec => []SharersKeepTheirRequest
<1>1. CallsInv => SharersKeepTheirRequest
  BY DEF CallsInv, CallPart, CallTypes, RequestInv, SharersKeepTheirRequest
<1> QED BY <1>1, InductiveInvariant, PTL

\* However many handlers sync the session, at most one request is under way
\* whose handler has not given it up, and the next handler joins it.
THEOREM OneSyncAtATime == Spec => []OneSyncInFlight
<1>1. CallsInv => OneSyncInFlight
  BY DEF CallsInv, CallPart
<1> QED BY <1>1, InductiveInvariant, PTL
=============================================================================
