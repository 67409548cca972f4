--------------------------- MODULE AcpClientProofs ---------------------------
(***************************************************************************)
(* Proofs about AcpClient, for any tasks, sessions and numbers of agent    *)
(* processes and updates.  The inductive invariant has three parts.        *)
(* LockInv says what _run_lock does: the queue holds the tasks that wait   *)
(* or work, each once, and who works is at its head.  ReadyInv says what   *)
(* the client knows of its process while somebody works with it.  OpenInv  *)
(* ties _live_session_ids to what the process has open, which is what a    *)
(* run relies on that does not load its session.                           *)
(***************************************************************************)
EXTENDS AcpClient, TLAPS

Starting == {"initializing", "closing", "terminating"}
Working == Starting \union {"started", "accepting", "prompting"}
HasPlace == Working \union {"queued", "resetting"}
Places == HasPlace \union {"new", "setup_failed", "done"}

\* A task is in the queue once, as long as it waits for the lock or works.
LockInv ==
    /\ at \in [Tasks -> Places]
    /\ queue \in Seq(Tasks)
    /\ \A i, j \in DOMAIN queue : queue[i] = queue[j] => i = j
    /\ \A t \in Tasks : at[t] \in HasPlace <=> \E i \in DOMAIN queue : queue[i] = t
    /\ \A t \in Tasks : at[t] \in Working => Holds(t)

AgentTypes ==
    /\ spawned \in 0 .. MaxProcs /\ proc \in 0 .. spawned
    /\ alive \subseteq 1 .. spawned
    /\ initialized \subseteq 1 .. spawned /\ cut_short \subseteq 1 .. spawned
    /\ signalled \subseteq 1 .. spawned /\ connected \in BOOLEAN
    /\ open \in [1 .. MaxProcs -> SUBSET Sessions]
    /\ live \subseteq Sessions
    /\ replays \in [Sessions -> Nat \union {NoReplay}]
    /\ history \in [Sessions -> Nat]

TaskTypes ==
    /\ started_with \in [Tasks -> Nat]
    /\ answer \in [Tasks -> Nat \union {NoReplay}]
    /\ used \in [Tasks -> 0 .. spawned]
    /\ shown \in [Tasks -> SUBSET Sessions]
    /\ updates \in 0 .. MaxUpdates

\* Who works has a process, and a connection to it unless it is being stopped.  A
\* process that the client is connected to is ready unless its start was cut short
\* or is under way; one that it is not connected to was told to terminate.
ReadyInv ==
    /\ ForgottenWereTerminated
    /\ UsedOnlyInitialized
    /\ \A t \in Tasks : at[t] \in Working => proc # 0 /\ (connected \/ at[t] = "terminating")
    /\ HasAgent => proc \in initialized \union cut_short
                   \/ \E t \in Tasks : at[t] \in {"initializing", "closing"}
    /\ connected \/ proc = 0 \/ proc \in signalled

\* The client's live sessions are open in its process, there are none while it is
\* started, and the session of a run that has been set up is one of them.
OpenInv ==
    /\ IF HasAgent THEN live \subseteq open[proc] ELSE live = {}
    /\ \A t \in Tasks : at[t] \in Starting => live = {}
    /\ \A t \in Tasks : at[t] \in {"accepting", "prompting"} => SessionOf[t] \in live

AcpInv == LockInv /\ AgentTypes /\ TaskTypes /\ ReadyInv /\ OpenInv

LEMMA InitInv == Init => AcpInv
<1> SUFFICES ASSUME Init PROVE AcpInv
  OBVIOUS
<1>1. LockInv
  BY DEF Init, LockInv, Places, HasPlace, Working, Starting
<1>5. connected \in BOOLEAN
  BY DEF Init
<1>2. AgentTypes /\ TaskTypes
  BY <1>5, AcpAssumption DEF Init, AgentTypes, TaskTypes
<1>4. ~HasAgent /\ \A t \in Tasks : at[t] \notin Working
  BY DEF Init, HasAgent, Working, Starting
<1>3. ReadyInv /\ OpenInv
  <2>1. ForgottenWereTerminated /\ UsedOnlyInitialized
    BY DEF Init, ForgottenWereTerminated, UsedOnlyInitialized
  <2>2. ReadyInv
    BY <1>4, <2>1 DEF Init, ReadyInv
  <2>3. OpenInv
    BY <1>4 DEF Init, OpenInv, Working, Starting
  <2> QED BY <2>2, <2>3
<1> QED BY <1>1, <1>2, <1>3 DEF AcpInv

(***************************************************************************)
(* The lock: what a step may do to the queue and to the place of its task. *)
(***************************************************************************)

LEMMA QueueFacts ==
    ASSUME NEW S, NEW q \in Seq(S)
    PROVE  /\ DOMAIN q = 1 .. Len(q) /\ Len(q) \in Nat
           /\ \A i \in DOMAIN q : q[i] \in S
           /\ q # <<>> => /\ Len(q) > 0 /\ Head(q) = q[1]
                          /\ Tail(q) \in Seq(S) /\ DOMAIN Tail(q) = 1 .. Len(q) - 1
                          /\ \A i \in DOMAIN Tail(q) : Tail(q)[i] = q[i + 1]
OBVIOUS

\* The holder leaves the lock.
LEMMA LeaveKeepsLock ==
    ASSUME LockInv, NEW t \in Tasks, Holds(t), NEW p \in {"setup_failed", "done"},
           LeaveLock(t, p)
    PROVE  LockInv'
<1>1. /\ at' \in [Tasks -> Places] /\ at'[t] = p
      /\ \A u \in Tasks \ {t} : at'[u] = at[u]
  BY DEF LeaveLock, LockInv, Places
<1>2. /\ queue \in Seq(Tasks) /\ queue # <<>> /\ Head(queue) = t /\ queue' = Tail(queue)
  BY DEF LeaveLock, LockInv, Holds
<1>3. /\ Len(queue) \in Nat /\ Len(queue) > 0 /\ queue[1] = t
      /\ DOMAIN queue = 1 .. Len(queue)
      /\ queue' \in Seq(Tasks) /\ DOMAIN queue' = 1 .. Len(queue) - 1
      /\ \A i \in DOMAIN queue' : queue'[i] = queue[i + 1]
  BY <1>2, QueueFacts
<1>4. \A i, j \in DOMAIN queue : queue[i] = queue[j] => i = j
  BY DEF LockInv
<1>10. Len(queue) \in Nat /\ Len(queue) > 0
  BY <1>3
<1>11. \A i \in 1 .. Len(queue) - 1 : i \in Nat /\ i + 1 \in 1 .. Len(queue) /\ i + 1 # 1
  BY <1>10
<1>12. \A i \in 1 .. Len(queue) : i = 1 \/ (i - 1 \in 1 .. Len(queue) - 1 /\ (i - 1) + 1 = i)
  BY <1>10
<1>13. 1 \in DOMAIN queue
  <2>1. 1 \in 1 .. Len(queue)
    BY <1>10
  <2> QED BY <1>3, <2>1
<1>5. \A i, j \in DOMAIN queue' : queue'[i] = queue'[j] => i = j
  <2> SUFFICES ASSUME NEW i \in DOMAIN queue', NEW j \in DOMAIN queue', queue'[i] = queue'[j]
               PROVE  i = j
    OBVIOUS
  <2>1. i + 1 = j + 1
    BY <1>3, <1>4, <1>11
  <2>2. i \in Nat /\ j \in Nat
    BY <1>3, <1>11
  <2> QED BY <2>1, <2>2
<1>6. \A i \in DOMAIN queue' : queue'[i] # t
  BY <1>3, <1>4, <1>11, <1>13
<1>7. \A u \in Tasks \ {t} :
        (\E i \in DOMAIN queue' : queue'[i] = u) <=> \E i \in DOMAIN queue : queue[i] = u
  <2> SUFFICES ASSUME NEW u \in Tasks \ {t}
               PROVE  (\E i \in DOMAIN queue' : queue'[i] = u)
                        <=> \E i \in DOMAIN queue : queue[i] = u
    OBVIOUS
  <2>1. ASSUME NEW i \in DOMAIN queue, queue[i] = u PROVE \E j \in DOMAIN queue' : queue'[j] = u
    <3>1. i - 1 \in DOMAIN queue' /\ (i - 1) + 1 = i
      BY <1>3, <1>12, <2>1
    <3> QED BY <1>3, <2>1, <3>1
  <2>2. ASSUME NEW i \in DOMAIN queue', queue'[i] = u PROVE \E j \in DOMAIN queue : queue[j] = u
    <3>1. i + 1 \in DOMAIN queue
      BY <1>3, <1>11, <2>2
    <3> QED BY <1>3, <2>2, <3>1
  <2> QED BY <2>1, <2>2
<1>8. \A u \in Tasks : at'[u] \in HasPlace <=> \E i \in DOMAIN queue' : queue'[i] = u
  BY <1>1, <1>6, <1>7 DEF LockInv, HasPlace, Working, Starting
<1>9. \A u \in Tasks : at'[u] \in Working => Holds(u)'
  BY <1>1, <1>2 DEF LockInv, Working, Starting, Holds
<1> QED BY <1>1, <1>3, <1>5, <1>8, <1>9 DEF LockInv

\* A task takes its place in the queue.
LEMMA JoinKeepsLock ==
    ASSUME LockInv, NEW t \in Tasks, at[t] \notin HasPlace, NEW p \in {"queued", "resetting"},
           at' = [at EXCEPT ![t] = p], queue' = Append(queue, t)
    PROVE  LockInv'
<1>1. /\ at' \in [Tasks -> Places] /\ at'[t] = p
      /\ \A u \in Tasks \ {t} : at'[u] = at[u]
  BY DEF LockInv, Places, HasPlace
<1>2. /\ queue \in Seq(Tasks)
      /\ \A i, j \in DOMAIN queue : queue[i] = queue[j] => i = j
      /\ \A i \in DOMAIN queue : queue[i] # t
  BY DEF LockInv
<1>3. /\ queue' \in Seq(Tasks) /\ DOMAIN queue = 1 .. Len(queue) /\ Len(queue) \in Nat
      /\ DOMAIN queue' = 1 .. Len(queue) + 1 /\ queue'[Len(queue) + 1] = t
      /\ \A i \in DOMAIN queue : queue'[i] = queue[i]
  BY <1>2
<1>4. \A i, j \in DOMAIN queue' : queue'[i] = queue'[j] => i = j
  <2>1. \A i \in DOMAIN queue' : i \in DOMAIN queue \/ i = Len(queue) + 1
    BY <1>3
  <2> QED BY <1>2, <1>3, <2>1
<1>5. \A u \in Tasks \ {t} :
        (\E i \in DOMAIN queue' : queue'[i] = u) <=> \E i \in DOMAIN queue : queue[i] = u
  <2>1. \A i \in DOMAIN queue' : i \in DOMAIN queue \/ i = Len(queue) + 1
    BY <1>3
  <2>2. \A i \in DOMAIN queue : i \in DOMAIN queue'
    BY <1>3
  <2> QED BY <1>3, <2>1, <2>2
<1>6. \E i \in DOMAIN queue' : queue'[i] = t
  BY <1>3
<1>7. \A u \in Tasks : at'[u] \in HasPlace <=> \E i \in DOMAIN queue' : queue'[i] = u
  BY <1>1, <1>5, <1>6 DEF LockInv, HasPlace
<1>8. \A u \in Tasks : at'[u] \in Working => Holds(u)'
  <2> SUFFICES ASSUME NEW u \in Tasks, at'[u] \in Working PROVE Holds(u)'
    OBVIOUS
  <2>1. at[u] \in Working
    BY <1>1 DEF Working, Starting
  <2>2. queue # <<>> /\ Head(queue) = u
    BY <2>1 DEF LockInv, Holds
  <2>3. Len(queue) > 0 /\ queue[1] = u /\ 1 \in DOMAIN queue
    BY <1>2, <1>3, <2>2, QueueFacts
  <2>4. queue' # <<>> /\ Head(queue') = queue'[1]
    BY <1>3, QueueFacts
  <2> QED BY <1>3, <2>3, <2>4 DEF Holds
<1> QED BY <1>1, <1>3, <1>4, <1>7, <1>8 DEF LockInv

\* The holder goes on with its work.
LEMMA WorkKeepsLock ==
    ASSUME LockInv, NEW t \in Tasks, Holds(t), NEW p \in Working, at[t] \in HasPlace,
           at' = [at EXCEPT ![t] = p], UNCHANGED queue
    PROVE  LockInv'
<1>1. /\ at' \in [Tasks -> Places] /\ at'[t] = p
      /\ \A u \in Tasks \ {t} : at'[u] = at[u]
  BY DEF LockInv, Places, HasPlace
<1>2. \A u \in Tasks : at'[u] \in Working => Holds(u)'
  BY <1>1 DEF LockInv, Holds
<1>3. \A u \in Tasks : at'[u] \in HasPlace <=> at[u] \in HasPlace
  BY <1>1 DEF HasPlace
<1> QED BY <1>1, <1>2, <1>3 DEF LockInv

\* Nobody else works while a task holds the lock.
LEMMA OthersWait ==
    ASSUME LockInv, NEW t \in Tasks, Holds(t), NEW u \in Tasks, at[u] \in Working
    PROVE  u = t
BY DEF LockInv, Holds

(***************************************************************************)
(* Steps that only pass the lock or the work on.                           *)
(***************************************************************************)

\* The task leaves the lock after work that the client does not remember.
LEMMA LeavingKeeps ==
    ASSUME AcpInv, NEW t \in Tasks, Holds(t), at[t] \notin Starting,
           NEW p \in {"setup_failed", "done"}, LeaveLock(t, p),
           UNCHANGED <<proc, connected, spawned, alive, initialized, cut_short, signalled>>
    PROVE  ReadyInv'
<1>1. /\ at'[t] = p /\ \A u \in Tasks \ {t} : at'[u] = at[u]
  BY DEF LeaveLock, AcpInv, LockInv, Places
<1>2. \A u \in Tasks : at'[u] \in Working => at[u] \in Working /\ at'[u] = at[u]
  BY <1>1 DEF Working, Starting
<1>3. UsedOnlyInitialized'
  BY <1>2 DEF AcpInv, ReadyInv, UsedOnlyInitialized, Working, Starting
<1>4. \A u \in Tasks : at[u] \in {"initializing", "closing"} => at'[u] = at[u]
  BY <1>1 DEF Starting
<1> QED BY <1>2, <1>3, <1>4 DEF AcpInv, ReadyInv, ForgottenWereTerminated, HasAgent

LEMMA ArriveKeeps ==
    ASSUME AcpInv, NEW t \in Tasks, Arrive(t)
    PROVE  AcpInv'
<1>1. /\ at[t] = "new" /\ at'[t] = "queued" /\ \A u \in Tasks \ {t} : at'[u] = at[u]
  BY DEF Arrive, AcpInv, LockInv, Places
<1>2. LockInv'
  BY <1>1, JoinKeepsLock DEF Arrive, AcpInv, HasPlace, Working, Starting
<1>3. started_with' \in [Tasks -> Nat]
  BY AcpAssumption DEF Arrive, AcpInv, TaskTypes, AgentTypes
<1>4. AgentTypes' /\ TaskTypes'
  BY <1>3 DEF Arrive, AcpInv, AgentTypes, TaskTypes, agentVars, clientVars
<1>5. ReadyInv' /\ OpenInv'
  BY <1>1 DEF Arrive, AcpInv, ReadyInv, OpenInv, ForgottenWereTerminated,
              UsedOnlyInitialized, HasAgent, Working, Starting, agentVars, clientVars
<1> QED BY <1>2, <1>4, <1>5 DEF AcpInv

LEMMA WaitToResetKeeps ==
    ASSUME AcpInv, NEW t \in Tasks, WaitToReset(t)
    PROVE  AcpInv'
<1>1. /\ at[t] = "setup_failed" /\ at'[t] = "resetting"
      /\ \A u \in Tasks \ {t} : at'[u] = at[u]
  BY DEF WaitToReset, AcpInv, LockInv, Places
<1>2. LockInv'
  BY <1>1, JoinKeepsLock DEF WaitToReset, AcpInv, HasPlace, Working, Starting
<1>3. AgentTypes' /\ TaskTypes'
  BY DEF WaitToReset, AcpInv, AgentTypes, TaskTypes, agentVars, clientVars
<1>4. ReadyInv' /\ OpenInv'
  BY <1>1 DEF WaitToReset, AcpInv, ReadyInv, OpenInv, ForgottenWereTerminated,
              UsedOnlyInitialized, HasAgent, Working, Starting, agentVars, clientVars
<1> QED BY <1>2, <1>3, <1>4 DEF AcpInv

\* The task fails or ends, and neither the client nor the agent has changed.
LEMMA GivingUpKeeps ==
    ASSUME AcpInv, NEW t \in Tasks, Holds(t), at[t] \notin Starting,
           NEW p \in {"setup_failed", "done"}, LeaveLock(t, p),
           UNCHANGED <<agentVars, clientVars, started_with, used, shown, updates>>,
           answer' \in [Tasks -> Nat \union {NoReplay}]
    PROVE  AcpInv'
<1>1. /\ at'[t] = p /\ \A u \in Tasks \ {t} : at'[u] = at[u]
  BY DEF LeaveLock, AcpInv, LockInv, Places
<1>2. LockInv'
  BY LeaveKeepsLock DEF AcpInv
<1>3. AgentTypes' /\ TaskTypes'
  BY DEF AcpInv, AgentTypes, TaskTypes, agentVars, clientVars
<1>4. ReadyInv'
  BY LeavingKeeps DEF agentVars, clientVars
<1>5. OpenInv'
  BY <1>1 DEF AcpInv, OpenInv, HasAgent, Starting, agentVars, clientVars
<1> QED BY <1>2, <1>3, <1>4, <1>5 DEF AcpInv

LEMMA FailsLeaves ==
    ASSUME NEW t \in Tasks, Fails(t)
    PROVE  \E p \in {"setup_failed", "done"} : LeaveLock(t, p)
BY DEF Fails

LEMMA SyncFromCacheKeeps ==
    ASSUME AcpInv, NEW t \in Tasks, SyncFromCache(t)
    PROVE  AcpInv'
<1>1. answer' \in [Tasks -> Nat \union {NoReplay}]
  BY AcpAssumption DEF SyncFromCache, AcpInv, TaskTypes, AgentTypes
<1> QED BY <1>1, GivingUpKeeps DEF SyncFromCache, Starting

LEMMA WorkFailsKeeps ==
    ASSUME AcpInv, NEW t \in Tasks, WorkFails(t)
    PROVE  AcpInv'
<1>1. answer' \in [Tasks -> Nat \union {NoReplay}]
  BY DEF WorkFails, AcpInv, TaskTypes
<1> QED BY <1>1, GivingUpKeeps, FailsLeaves DEF WorkFails, Starting

LEMMA StartFailsKeeps ==
    ASSUME AcpInv, NEW t \in Tasks, StartFails(t)
    PROVE  AcpInv'
<1>1. answer' \in [Tasks -> Nat \union {NoReplay}]
  BY DEF StartFails, AcpInv, TaskTypes
<1> QED BY <1>1, GivingUpKeeps, FailsLeaves DEF StartFails, Starting

LEMMA PromptFailsKeeps ==
    ASSUME AcpInv, NEW t \in Tasks, PromptFails(t)
    PROVE  AcpInv'
<1>1. answer' \in [Tasks -> Nat \union {NoReplay}]
  BY DEF PromptFails, AcpInv, TaskTypes
<1>2. \E p \in {"setup_failed", "done"} : LeaveLock(t, p)
  BY FailsLeaves DEF PromptFails
<1> QED BY <1>1, <1>2, GivingUpKeeps DEF PromptFails, Starting

\* A run goes on with a session that is live.
LEMMA GoingOnKeeps ==
    ASSUME AcpInv, NEW t \in Tasks, Holds(t), at[t] \in {"started", "accepting"},
           NEW p \in {"accepting", "prompting"}, at' = [at EXCEPT ![t] = p],
           SessionOf[t] \in live,
           UNCHANGED <<queue, agentVars, clientVars, started_with, answer, used, shown, updates>>
    PROVE  AcpInv'
<1>1. /\ at'[t] = p /\ \A u \in Tasks \ {t} : at'[u] = at[u]
  BY DEF AcpInv, LockInv, Places
<1>2. LockInv'
  BY WorkKeepsLock DEF AcpInv, HasPlace, Working, Starting
<1>3. AgentTypes' /\ TaskTypes'
  BY DEF AcpInv, AgentTypes, TaskTypes, agentVars, clientVars
<1>4. ReadyInv'
  <2>1. \A u \in Tasks : at[u] \in {"initializing", "closing"} => at'[u] = at[u]
    BY <1>1
  <2>2. UsedOnlyInitialized'
    BY <1>1 DEF AcpInv, ReadyInv, UsedOnlyInitialized, agentVars, clientVars
  <2>3. \A u \in Tasks : at'[u] \in Working => at[u] \in Working
    BY <1>1 DEF Working, Starting
  <2> QED BY <2>1, <2>2, <2>3
      DEF AcpInv, ReadyInv, ForgottenWereTerminated, HasAgent, agentVars, clientVars
<1>5. OpenInv'
  BY <1>1 DEF AcpInv, OpenInv, HasAgent, Starting, agentVars, clientVars
<1> QED BY <1>2, <1>3, <1>4, <1>5 DEF AcpInv

LEMMA SkipLoadKeeps ==
    ASSUME AcpInv, NEW t \in Tasks, SkipLoad(t)
    PROVE  AcpInv'
BY GoingOnKeeps DEF SkipLoad

LEMMA AcceptKeeps ==
    ASSUME AcpInv, NEW t \in Tasks, Accept(t)
    PROVE  AcpInv'
<1>1. CASE at' = [at EXCEPT ![t] = "prompting"] /\ UNCHANGED queue
  <2>1. SessionOf[t] \in live
    BY DEF Accept, AcpInv, OpenInv
  <2> QED BY <1>1, <2>1, GoingOnKeeps DEF Accept
<1>2. CASE Fails(t)
  <2>1. answer' \in [Tasks -> Nat \union {NoReplay}]
    BY DEF Accept, AcpInv, TaskTypes
  <2> QED BY <1>2, <2>1, FailsLeaves, GivingUpKeeps DEF Accept, Starting
<1> QED BY <1>1, <1>2 DEF Accept

(***************************************************************************)
(* Steps that change the client or the agent.                              *)
(***************************************************************************)

LEMMA StartKeeps ==
    ASSUME AcpInv, NEW t \in Tasks, Start(t)
    PROVE  AcpInv'
<1>1. Holds(t) /\ at[t] = "queued"
  BY DEF Start
<1>2. \A u \in Tasks : at[u] \notin Working
  BY <1>1, OthersWait DEF AcpInv, Working, Starting
<1>3. CASE HasAgent
  <2>1. /\ at' = [at EXCEPT ![t] = "started"] /\ used' = [used EXCEPT ![t] = proc]
        /\ UNCHANGED <<proc, connected, spawned, alive>> /\ proc # 0
    BY <1>3 DEF Start, HasAgent
  <2>2. /\ at'[t] = "started" /\ \A u \in Tasks \ {t} : at'[u] = at[u]
    BY <2>1 DEF AcpInv, LockInv, Places
  <2>3. LockInv'
    BY <1>1, <2>1, WorkKeepsLock DEF Start, AcpInv, HasPlace, Working, Starting
  <2>4. AgentTypes' /\ TaskTypes'
    BY <2>1 DEF Start, AcpInv, AgentTypes, TaskTypes
  <2>5. proc \in initialized \union cut_short
    BY <1>2, <1>3, <2>1 DEF AcpInv, ReadyInv, Working, Starting
  <2>6. ReadyInv'
    BY <1>2, <2>1, <2>2, <2>5
    DEF Start, AcpInv, ReadyInv, ForgottenWereTerminated, UsedOnlyInitialized, HasAgent,
        Working, Starting
  <2>7. OpenInv'
    BY <2>1, <2>2 DEF Start, AcpInv, OpenInv, HasAgent, Starting
  <2> QED BY <2>3, <2>4, <2>6, <2>7 DEF AcpInv
<1>4. CASE ~HasAgent
  <2>1. /\ at' = [at EXCEPT ![t] = "initializing"] /\ spawned < MaxProcs
        /\ spawned' = spawned + 1 /\ proc' = spawned' /\ alive' = alive \union {spawned'}
        /\ used' = [used EXCEPT ![t] = spawned'] /\ connected'
    BY <1>4 DEF Start
  <2>2. /\ at'[t] = "initializing" /\ \A u \in Tasks \ {t} : at'[u] = at[u]
    BY <2>1 DEF AcpInv, LockInv, Places
  <2>3. LockInv'
    BY <1>1, <2>1, WorkKeepsLock DEF Start, AcpInv, HasPlace, Working, Starting
  <2>4. spawned \in Nat /\ MaxProcs \in Nat /\ spawned' \in 1 .. MaxProcs
    BY <2>1, AcpAssumption DEF AcpInv, AgentTypes
  <2>5. 0 .. spawned \subseteq 0 .. spawned' /\ 1 .. spawned \subseteq 1 .. spawned'
        /\ spawned' \in 0 .. spawned' /\ spawned' \in 1 .. spawned' /\ spawned' # 0
    BY <2>1, <2>4
  <2>6. AgentTypes'
    BY <2>1, <2>4, <2>5 DEF Start, AcpInv, AgentTypes
  <2>7. used' \in [Tasks -> 0 .. spawned']
    BY <2>1, <2>5 DEF AcpInv, TaskTypes
  <2>8. TaskTypes'
    BY <2>7 DEF Start, AcpInv, TaskTypes
  <2>9. alive \subseteq signalled /\ live = {}
    BY <1>4 DEF AcpInv, ReadyInv, OpenInv, AgentTypes, ForgottenWereTerminated, HasAgent
  <2>10. ReadyInv'
    BY <1>2, <2>1, <2>2, <2>5, <2>9
    DEF Start, AcpInv, ReadyInv, ForgottenWereTerminated, UsedOnlyInitialized, Working, Starting
  <2>11. OpenInv'
    BY <1>2, <2>1, <2>2, <2>5, <2>9 DEF Start, AcpInv, OpenInv, Working, Starting
  <2> QED BY <2>3, <2>6, <2>8, <2>10, <2>11 DEF AcpInv
<1> QED BY <1>3, <1>4

LEMMA InitializedKeeps ==
    ASSUME AcpInv, NEW t \in Tasks, Initialized(t)
    PROVE  AcpInv'
<1>1. /\ at'[t] = "started" /\ \A u \in Tasks \ {t} : at'[u] = at[u]
  BY DEF Initialized, AcpInv, LockInv, Places
<1>2. LockInv'
  BY WorkKeepsLock DEF Initialized, AcpInv, HasPlace, Working, Starting
<1>3. AgentTypes' /\ TaskTypes'
  BY DEF Initialized, AcpInv, AgentTypes, TaskTypes, clientVars
<1>4. proc # 0
  BY DEF Initialized, AcpInv, ReadyInv, Working, Starting
<1>5. ReadyInv'
  BY <1>1, <1>4 DEF Initialized, AcpInv, ReadyInv, ForgottenWereTerminated,
                    UsedOnlyInitialized, HasAgent, Working, Starting, clientVars
<1>6. OpenInv'
  BY <1>1 DEF Initialized, AcpInv, OpenInv, HasAgent, Starting, clientVars
<1> QED BY <1>2, <1>3, <1>5, <1>6 DEF AcpInv

\* The holder throws the client away, with the agent process.
LEMMA StopKeeps ==
    ASSUME AcpInv, NEW t \in Tasks, Holds(t), Stop,
           NEW p \in {"setup_failed", "done"}, LeaveLock(t, p),
           UNCHANGED <<spawned, initialized, cut_short, signalled, open, history,
                       started_with, answer, used, shown, updates>>
    PROVE  AcpInv'
<1>1. /\ at'[t] = p /\ \A u \in Tasks \ {t} : at'[u] = at[u]
  BY DEF LeaveLock, AcpInv, LockInv, Places
<1>2. LockInv'
  BY LeaveKeepsLock DEF AcpInv
<1>3. \A u \in Tasks : at'[u] \notin Working
  <2>1. \A u \in Tasks : at[u] \in Working => u = t
    BY OthersWait DEF AcpInv
  <2> QED BY <1>1, <2>1 DEF Working, Starting
<1>4. /\ proc' = 0 /\ connected' = FALSE /\ alive' = alive \ {proc} /\ live' = {}
      /\ replays' = [s \in Sessions |-> NoReplay]
  BY DEF Stop, Terminated, ForgetSessions
<1>8. connected' \in BOOLEAN
  BY <1>4
<1>5. AgentTypes' /\ TaskTypes'
  BY <1>4, <1>8 DEF AcpInv, AgentTypes, TaskTypes
<1>7. ~HasAgent'
  BY <1>4 DEF HasAgent
<1>6. ReadyInv' /\ OpenInv'
  <2>1. ForgottenWereTerminated' /\ UsedOnlyInitialized'
    BY <1>3, <1>4 DEF AcpInv, ReadyInv, ForgottenWereTerminated, UsedOnlyInitialized, Working
  <2>2. ReadyInv'
    BY <1>3, <1>4, <1>7, <2>1 DEF ReadyInv
  <2>3. OpenInv'
    BY <1>3, <1>4, <1>7 DEF OpenInv, Working, Starting
  <2> QED BY <2>2, <2>3
<1> QED BY <1>2, <1>5, <1>6 DEF AcpInv

LEMMA StartAbandonedKeeps ==
    ASSUME AcpInv, NEW t \in Tasks, StartAbandoned(t)
    PROVE  AcpInv'
BY StopKeeps, FailsLeaves DEF StartAbandoned

\* Before that, the stop in start takes its steps.
LEMMA InitializeFailsKeeps ==
    ASSUME AcpInv, NEW t \in Tasks, InitializeFails(t)
    PROVE  AcpInv'
<1>1. /\ at[t] = "initializing" /\ at'[t] = "closing"
      /\ \A u \in Tasks \ {t} : at'[u] = at[u]
  BY DEF InitializeFails, AcpInv, LockInv, Places
<1>2. LockInv'
  BY WorkKeepsLock DEF InitializeFails, AcpInv, HasPlace, Working, Starting
<1>3. AgentTypes' /\ TaskTypes'
  BY DEF InitializeFails, AcpInv, AgentTypes, TaskTypes, agentVars, clientVars
<1>4. ReadyInv' /\ OpenInv'
  BY <1>1 DEF InitializeFails, AcpInv, ReadyInv, OpenInv, ForgottenWereTerminated,
              UsedOnlyInitialized, HasAgent, Working, Starting, agentVars, clientVars
<1> QED BY <1>2, <1>3, <1>4 DEF AcpInv

LEMMA ConnectionClosedKeeps ==
    ASSUME AcpInv, NEW t \in Tasks, ConnectionClosed(t)
    PROVE  AcpInv'
<1>1. /\ at[t] = "closing" /\ at'[t] = "terminating"
      /\ \A u \in Tasks \ {t} : at'[u] = at[u]
  BY DEF ConnectionClosed, AcpInv, LockInv, Places
<1>2. LockInv'
  BY WorkKeepsLock DEF ConnectionClosed, AcpInv, HasPlace, Working, Starting
<1>3. proc # 0 /\ live = {}
  BY <1>1 DEF AcpInv, ReadyInv, OpenInv, Working, Starting
<1>9. connected' \in BOOLEAN
  BY DEF ConnectionClosed
<1>4. AgentTypes' /\ TaskTypes'
  BY <1>3, <1>9 DEF ConnectionClosed, AcpInv, AgentTypes, TaskTypes
<1>5. \A u \in Tasks \ {t} : at'[u] \notin Working
  BY <1>1, OthersWait DEF ConnectionClosed, AcpInv
<1>6. ~HasAgent'
  BY DEF ConnectionClosed, HasAgent
<1>7. ReadyInv'
  <2>1. ForgottenWereTerminated' /\ UsedOnlyInitialized'
    BY <1>1, <1>5 DEF ConnectionClosed, AcpInv, ReadyInv, ForgottenWereTerminated,
                      UsedOnlyInitialized, Working
  <2>2. /\ proc' = proc /\ proc' \in signalled'
        /\ \A u \in Tasks : at'[u] \in Working => at'[u] = "terminating"
    BY <1>1, <1>5 DEF ConnectionClosed
  <2> QED BY <1>3, <1>6, <2>1, <2>2 DEF ReadyInv
<1>8. OpenInv'
  BY <1>1, <1>3, <1>5, <1>6 DEF ConnectionClosed, OpenInv, Working, Starting
<1> QED BY <1>2, <1>4, <1>7, <1>8 DEF AcpInv

LEMMA ResetKeeps ==
    ASSUME AcpInv, NEW t \in Tasks, Reset(t)
    PROVE  AcpInv'
BY StopKeeps DEF Reset

LEMMA StartCancelledKeeps ==
    ASSUME AcpInv, NEW t \in Tasks, StartCancelled(t)
    PROVE  AcpInv'
<1>1. PICK p \in {"setup_failed", "done"} : LeaveLock(t, p)
  BY FailsLeaves DEF StartCancelled
<1>2. /\ at'[t] = p /\ \A u \in Tasks \ {t} : at'[u] = at[u]
  BY <1>1 DEF LeaveLock, AcpInv, LockInv, Places
<1>3. LockInv'
  BY <1>1, LeaveKeepsLock DEF StartCancelled, AcpInv
<1>4. proc # 0
  BY DEF StartCancelled, AcpInv, ReadyInv, Working, Starting
<1>5. AgentTypes' /\ TaskTypes'
  BY <1>4 DEF StartCancelled, AcpInv, AgentTypes, TaskTypes, clientVars
<1>6. \A u \in Tasks : at'[u] \in Working => at'[u] = at[u]
  BY <1>2 DEF Working, Starting
<1>7. ReadyInv'
  BY <1>4, <1>6 DEF StartCancelled, AcpInv, ReadyInv, ForgottenWereTerminated,
                    UsedOnlyInitialized, HasAgent, Working, Starting, clientVars
<1>8. OpenInv'
  BY <1>6 DEF StartCancelled, AcpInv, OpenInv, HasAgent, Working, Starting, clientVars
<1> QED BY <1>3, <1>5, <1>7, <1>8 DEF AcpInv

LEMMA CreateOrListKeeps ==
    ASSUME AcpInv, NEW t \in Tasks, CreateOrList(t)
    PROVE  AcpInv'
<1>1. /\ Holds(t) /\ at[t] = "started" /\ LeaveLock(t, "done") /\ Running(proc)
      /\ SessionOf[t] \in Sessions
  BY AcpAssumption DEF CreateOrList
<1>2. /\ at'[t] = "done" /\ \A u \in Tasks \ {t} : at'[u] = at[u]
  BY <1>1 DEF LeaveLock, AcpInv, LockInv, Places
<1>3. LockInv'
  BY <1>1, LeaveKeepsLock DEF AcpInv
<1>4. ReadyInv'
  BY <1>1, LeavingKeeps DEF CreateOrList, Starting
<1>5. proc \in 1 .. MaxProcs
  BY <1>1, AcpAssumption DEF Running, AcpInv, AgentTypes
<1>6. /\ open' \in [1 .. MaxProcs -> SUBSET Sessions] /\ live' \subseteq Sessions
      /\ live \subseteq live' /\ live' \subseteq live \union (open'[proc])
      /\ open[proc] \subseteq open'[proc]
  BY <1>1, <1>5 DEF CreateOrList, AcpInv, AgentTypes
<1>7. AgentTypes' /\ TaskTypes'
  BY <1>6 DEF CreateOrList, AcpInv, AgentTypes, TaskTypes
<1>8. proc # 0
  BY <1>5
<1>9. OpenInv'
  <2>1. HasAgent
    BY <1>1 DEF AcpInv, ReadyInv, HasAgent, Working
  <2>2. \A u \in Tasks : at'[u] \notin Starting
    BY <1>1, <1>2, OthersWait DEF AcpInv, Working, Starting
  <2> QED BY <1>2, <1>6, <1>8, <2>1, <2>2 DEF CreateOrList, AcpInv, OpenInv, HasAgent
<1> QED BY <1>3, <1>4, <1>7, <1>9 DEF AcpInv

LEMMA LoadKeeps ==
    ASSUME AcpInv, NEW t \in Tasks, Load(t)
    PROVE  AcpInv'
<1> DEFINE s == SessionOf[t]
<1>1. /\ Holds(t) /\ at[t] = "started" /\ Running(proc) /\ s \in Sessions
      /\ history[s] \in Nat
  BY AcpAssumption DEF Load, AcpInv, AgentTypes
<1>2. proc \in 1 .. MaxProcs /\ proc # 0
  BY <1>1, AcpAssumption DEF Running, AcpInv, AgentTypes
<1>3. /\ open' = [open EXCEPT ![proc] = @ \union {s}] /\ live' = live \union {s}
      /\ replays' = [replays EXCEPT ![s] = history[s]]
      /\ UNCHANGED <<spawned, alive, initialized, cut_short, signalled, history, proc,
                     connected, started_with, used, shown, updates>>
  BY DEF Load
<1>4. AgentTypes'
  BY <1>1, <1>2, <1>3 DEF AcpInv, AgentTypes
<1>5. answer' \in [Tasks -> Nat \union {NoReplay}]
  BY <1>1 DEF Load, AcpInv, TaskTypes
<1>6. TaskTypes'
  BY <1>3, <1>5 DEF AcpInv, TaskTypes
<1>7. HasAgent' /\ live' \subseteq open'[proc']
  <2>1. HasAgent
    BY <1>1 DEF AcpInv, ReadyInv, HasAgent, Working
  <2> QED BY <1>2, <1>3, <2>1 DEF AcpInv, OpenInv, AgentTypes, HasAgent
<1>10. \A u \in Tasks : at[u] \notin Starting
  BY <1>1, OthersWait DEF AcpInv, Working, Starting
<1>8. CASE Kind[t] = "sync"
  <2>1. LeaveLock(t, "done")
    BY <1>8 DEF Load
  <2>2. /\ at'[t] = "done" /\ \A u \in Tasks \ {t} : at'[u] = at[u]
    BY <2>1 DEF LeaveLock, AcpInv, LockInv, Places
  <2>3. LockInv'
    BY <1>1, <2>1, LeaveKeepsLock DEF AcpInv
  <2>4. ReadyInv'
    BY <1>1, <1>3, <1>10, <2>1, LeavingKeeps
  <2>5. OpenInv'
    BY <1>2, <1>3, <1>7, <1>10, <2>2 DEF AcpInv, OpenInv, Starting
  <2> QED BY <1>4, <1>6, <2>3, <2>4, <2>5 DEF AcpInv
<1>9. CASE Kind[t] # "sync"
  <2>1. at' = [at EXCEPT ![t] = "accepting"] /\ UNCHANGED queue
    BY <1>9 DEF Load
  <2>2. /\ at'[t] = "accepting" /\ \A u \in Tasks \ {t} : at'[u] = at[u]
    BY <2>1 DEF AcpInv, LockInv, Places
  <2>3. LockInv'
    BY <1>1, <2>1, WorkKeepsLock DEF AcpInv, HasPlace, Working, Starting
  <2>4. \A u \in Tasks : at'[u] \in Working => at[u] \in Working
    BY <1>1, <2>2 DEF Working, Starting
  <2>5. UsedOnlyInitialized'
    BY <1>1, <1>3, <2>2 DEF AcpInv, ReadyInv, UsedOnlyInitialized
  <2>6. \A u \in Tasks : at[u] \in {"initializing", "closing"} => at'[u] = at[u]
    BY <1>1, <2>2
  <2>7. ReadyInv'
    BY <1>1, <1>2, <1>3, <2>2, <2>4, <2>5, <2>6
    DEF AcpInv, ReadyInv, ForgottenWereTerminated, HasAgent
  <2>8. OpenInv'
    BY <1>2, <1>3, <1>7, <1>10, <2>2 DEF AcpInv, OpenInv, Starting
  <2> QED BY <1>4, <1>6, <2>3, <2>7, <2>8 DEF AcpInv
<1> QED BY <1>8, <1>9

LEMMA PromptReturnsKeeps ==
    ASSUME AcpInv, NEW t \in Tasks, PromptReturns(t)
    PROVE  AcpInv'
<1>1. PICK p \in {"setup_failed", "done"} : LeaveLock(t, p)
  BY FailsLeaves DEF PromptReturns
<1>2. /\ at'[t] = p /\ \A u \in Tasks \ {t} : at'[u] = at[u]
  BY <1>1 DEF LeaveLock, AcpInv, LockInv, Places
<1>3. LockInv'
  BY <1>1, LeaveKeepsLock DEF PromptReturns, AcpInv
<1>4. ReadyInv'
  BY <1>1, LeavingKeeps DEF PromptReturns, Starting, clientVars
<1>5. history' \in [Sessions -> Nat]
  BY AcpAssumption DEF PromptReturns, AcpInv, AgentTypes
<1>6. AgentTypes' /\ TaskTypes'
  BY <1>5 DEF PromptReturns, AcpInv, AgentTypes, TaskTypes, clientVars
<1>7. OpenInv'
  BY <1>2 DEF PromptReturns, AcpInv, OpenInv, HasAgent, Starting, clientVars
<1> QED BY <1>3, <1>4, <1>6, <1>7 DEF AcpInv

LEMMA CrashKeeps == ASSUME AcpInv, NEW p \in alive, Crash(p) PROVE AcpInv'
<1>1. LockInv'
  BY DEF Crash, AcpInv, LockInv, Holds
<1>2. AgentTypes' /\ TaskTypes'
  BY DEF Crash, AcpInv, AgentTypes, TaskTypes, clientVars
<1>3. ReadyInv' /\ OpenInv'
  BY DEF Crash, AcpInv, ReadyInv, OpenInv, ForgottenWereTerminated, UsedOnlyInitialized,
         HasAgent, clientVars
<1> QED BY <1>1, <1>2, <1>3 DEF AcpInv

LEMMA InitializedLateKeeps == ASSUME AcpInv, InitializedLate PROVE AcpInv'
<1>1. LockInv'
  BY DEF InitializedLate, AcpInv, LockInv, Holds
<1>2. AgentTypes' /\ TaskTypes'
  BY DEF InitializedLate, AcpInv, AgentTypes, TaskTypes, clientVars
<1>3. ReadyInv' /\ OpenInv'
  BY DEF InitializedLate, AcpInv, ReadyInv, OpenInv, ForgottenWereTerminated,
         UsedOnlyInitialized, HasAgent, clientVars
<1> QED BY <1>1, <1>2, <1>3 DEF AcpInv

LEMMA UpdateKeeps == ASSUME AcpInv, NEW s \in Sessions, Update(s) PROVE AcpInv'
<1>1. LockInv'
  BY DEF Update, AcpInv, LockInv, Holds
<1>2. shown' \in [Tasks -> SUBSET Sessions]
  BY DEF Update, AcpInv, TaskTypes
<1>3. updates' \in 0 .. MaxUpdates
  BY AcpAssumption DEF Update, AcpInv, TaskTypes
<1>4. AgentTypes' /\ TaskTypes'
  BY <1>2, <1>3 DEF Update, AcpInv, AgentTypes, TaskTypes, agentVars, clientVars
<1>5. ReadyInv' /\ OpenInv'
  BY DEF Update, AcpInv, ReadyInv, OpenInv, ForgottenWereTerminated, UsedOnlyInitialized,
         HasAgent, agentVars, clientVars
<1> QED BY <1>1, <1>4, <1>5 DEF AcpInv

LEMMA StutterKeeps == ASSUME AcpInv, UNCHANGED vars PROVE AcpInv'
BY DEF AcpInv, LockInv, Holds, AgentTypes, TaskTypes, ReadyInv, OpenInv,
       ForgottenWereTerminated, UsedOnlyInitialized, HasAgent, vars, agentVars, clientVars

LEMMA StepKeeps == AcpInv /\ [Next]_vars => AcpInv'
<1> SUFFICES ASSUME AcpInv, [Next]_vars PROVE AcpInv'
  OBVIOUS
<1>1. ASSUME NEW t \in Tasks,
             \/ Arrive(t) \/ Start(t) \/ StartFails(t) \/ Initialized(t)
             \/ InitializeFails(t) \/ ConnectionClosed(t) \/ StartAbandoned(t)
             \/ StartCancelled(t)
      PROVE  AcpInv'
  BY <1>1, ArriveKeeps, StartKeeps, StartFailsKeeps, InitializedKeeps, InitializeFailsKeeps,
     ConnectionClosedKeeps, StartAbandonedKeeps, StartCancelledKeeps
<1>2. ASSUME NEW t \in Tasks,
             \/ CreateOrList(t) \/ SyncFromCache(t) \/ Load(t) \/ SkipLoad(t)
             \/ WorkFails(t) \/ Accept(t) \/ PromptReturns(t) \/ PromptFails(t)
             \/ WaitToReset(t) \/ Reset(t)
      PROVE  AcpInv'
  BY <1>2, CreateOrListKeeps, SyncFromCacheKeeps, LoadKeeps, SkipLoadKeeps,
     WorkFailsKeeps, AcceptKeeps, PromptReturnsKeeps, PromptFailsKeeps,
     WaitToResetKeeps, ResetKeeps
<1> QED BY <1>1, <1>2, CrashKeeps, InitializedLateKeeps, UpdateKeeps, StutterKeeps DEF Next

\* The client, the lock, the queue and the agent processes stay together as
\* AcpInv says, for any tasks, sessions and numbers of processes.
THEOREM InductiveInvariant == Spec => []AcpInv
BY InitInv, StepKeeps, PTL DEF Spec

\* An agent process that runs is the one the client knows, or a stop has told it to
\* terminate and was cut off before it saw it end; and whoever works with the agent
\* works with an initialized one, or one whose initialize was cut short: start, stop
\* and _reset_acp_client under _run_lock.
THEOREM ClientAndLockAgree == Spec => []AgentOK
<1>1. AcpInv => AgentOK
  <2> SUFFICES ASSUME AcpInv PROVE AgentOK
    OBVIOUS
  <2>1. AcpTypeOK
    BY DEF AcpTypeOK, AcpInv, LockInv, AgentTypes, TaskTypes, Places, HasPlace, Working, Starting
  <2> QED BY <2>1 DEF AgentOK, AcpInv, ReadyInv
<1> QED BY <1>1, InductiveInvariant, PTL

\* A run that skips load_session because has_live_session says so prompts a
\* session the running agent has open, however often the agent was replaced.
THEOREM SkippedLoadIsSafe == Spec => []PromptedIsOpen
<1>1. AcpInv => PromptedIsOpen
  <2> SUFFICES ASSUME AcpInv, NEW t \in Tasks, at[t] \in {"accepting", "prompting"},
                      proc \in alive
               PROVE  SessionOf[t] \in open[proc]
    BY DEF PromptedIsOpen
  <2>1. SessionOf[t] \in live /\ proc # 0
    BY DEF AcpInv, OpenInv, ReadyInv, Working, Starting
  <2>2. HasAgent
    BY DEF AcpInv, ReadyInv, HasAgent, Working
  <2> QED BY <2>1, <2>2 DEF AcpInv, OpenInv
<1> QED BY <1>1, InductiveInvariant, PTL

\* The client is only replaced or given a process by the task that has _run_lock,
\* so never under the hands of another task that works with it.
THEOREM OnlyTheHolderReplaces == Spec => ResetSparesOthers
<1>1. AcpInv /\ [Next]_vars =>
        [\A t \in Tasks :
           at[t] \in {"initializing", "closing", "terminating", "started", "accepting",
                     "prompting"}
           /\ at'[t] = at[t] => proc' = proc]_vars
  <2> SUFFICES ASSUME AcpInv, Next, NEW t \in Tasks, at[t] \in Working, at'[t] = at[t],
                      proc' # proc
               PROVE  FALSE
    BY DEF Working, Starting
  <2>1. PICK u \in Tasks : Start(u) \/ StartAbandoned(u) \/ Reset(u)
    BY DEF Next, Arrive, StartFails, Initialized, InitializeFails, ConnectionClosed,
           StartCancelled, CreateOrList, SyncFromCache, Load, SkipLoad, WorkFails, Accept,
           PromptReturns, PromptFails, WaitToReset, Crash, InitializedLate, Update, clientVars
  <2>2. Holds(u)
    BY <2>1 DEF Start, StartAbandoned, Reset
  <2>3. t = u
    BY <2>2, OthersWait DEF AcpInv
  <2>4. (Start(u) => at[u] = "queued") /\ (Reset(u) => at[u] = "resetting")
    BY DEF Start, Reset
  <2>5. StartAbandoned(t) /\ at[t] = "terminating"
    BY <2>1, <2>3, <2>4 DEF StartAbandoned, Working, Starting
  <2>6. at'[t] \in {"setup_failed", "done"}
    BY <2>5 DEF StartAbandoned, Fails, LeaveLock, AcpInv, LockInv
  <2> QED BY <2>5, <2>6
<1> QED BY <1>1, InductiveInvariant, PTL DEF Spec, ResetSparesOthers

\* When a run has replaced the client after a failed setup, the client knows no
\* process and each agent process that still runs was told to terminate, whichever
\* tasks had the lock in between: _reset_acp_client.
ResetLeavesOnlyTerminated ==
    [][\A t \in Tasks :
          at[t] = "resetting" /\ at'[t] # "resetting"
          => proc' = 0 /\ alive' \subseteq signalled']_vars

THEOREM ReplacedAgentIsGone == Spec => ResetLeavesOnlyTerminated
<1>1. AcpInv /\ [Next]_vars =>
        [\A t \in Tasks :
           at[t] = "resetting" /\ at'[t] # "resetting"
           => proc' = 0 /\ alive' \subseteq signalled']_vars
  <2> SUFFICES ASSUME AcpInv, Next, NEW t \in Tasks, at[t] = "resetting", at'[t] # "resetting"
               PROVE  proc' = 0 /\ alive' \subseteq signalled'
    OBVIOUS
  <2>1. PICK u \in Tasks : /\ at[u] = "resetting" => Reset(u)
                           /\ \E p : at' = [at EXCEPT ![u] = p]
    <3>1. ASSUME NEW u \in Tasks,
                 \/ Arrive(u) \/ Start(u) \/ StartFails(u) \/ Initialized(u)
                 \/ InitializeFails(u) \/ ConnectionClosed(u) \/ StartAbandoned(u)
                 \/ StartCancelled(u) \/ CreateOrList(u) \/ SyncFromCache(u) \/ Load(u)
                 \/ SkipLoad(u) \/ WorkFails(u) \/ Accept(u) \/ PromptReturns(u)
                 \/ PromptFails(u) \/ WaitToReset(u)
          PROVE  /\ at[u] # "resetting"
                 /\ \E p : at' = [at EXCEPT ![u] = p]
      BY <3>1 DEF Arrive, Start, StartFails, Initialized, InitializeFails, ConnectionClosed,
           StartAbandoned, StartCancelled, CreateOrList, SyncFromCache, Load, SkipLoad,
           WorkFails, Accept, PromptReturns, PromptFails, WaitToReset, Fails, LeaveLock
    <3>2. \A u \in Tasks : Reset(u) => \E p : at' = [at EXCEPT ![u] = p]
      BY DEF Reset, LeaveLock
    <3> QED BY <3>1, <3>2 DEF Next, Crash, InitializedLate, Update
  <2>2. u = t
    BY <2>1 DEF AcpInv, LockInv
  <2>3. Reset(t)
    BY <2>1, <2>2
  <2> QED BY <2>3 DEF Reset, Stop, Terminated, AcpInv, ReadyInv, ForgottenWereTerminated
<1> QED BY <1>1, InductiveInvariant, PTL DEF Spec, ResetLeavesOnlyTerminated
=============================================================================
