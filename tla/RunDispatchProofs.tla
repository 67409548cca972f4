-------------------------- MODULE RunDispatchProofs --------------------------
(* Theorems about RunDispatch, for every number of runs, sessions, daemons   *)
(* and connections.  Those about the queue, the daemon of a run and the      *)
(* registry hold for sends that do or do not suspend; those about the runs   *)
(* and the sessions together need sends that do not (~SendMaySuspend).       *)
EXTENDS RunDispatch, SequenceTheorems, FiniteSetTheorems, WellFoundedInduction, TLAPS

(* What any operation of the registry may do to it.                          *)

\* Every queued run is on the list, and only runs that were created are.
WellListed(reg) ==
    /\ reg.queued_runs \subseteq 1 .. reg.created
    /\ \A r \in Runs : reg.status[r] = "queued" => r \in reg.queued_runs

\* after follows from before: runs are created and removed, the session of a run
\* never changes, a run that is gone or was taken off the list does not come back.
Evolves(before, after) ==
    /\ after \in Registry
    /\ before.created <= after.created
    /\ \A r \in after.queued_runs : r \in before.queued_runs \/ r > before.created
    /\ \A r \in Runs : r <= before.created /\ Present(after, r) =>
            Present(before, r) /\ after.session[r] = before.session[r]
    /\ WellListed(before) => WellListed(after)

\* The fields of a registry have their types.
LEMMA RegistryFields ==
    ASSUME NEW reg \in Registry
    PROVE  /\ reg.status \in [Runs -> Statuses]
           /\ reg.session \in [Runs -> Sessions \union {NoSession}]
           /\ reg.executor \in [Runs -> Daemons \union {NoDaemon}]
           /\ reg.ended \in [Runs -> Nat]
           /\ reg.clock \in Nat
           /\ reg.created \in 0 .. MaxRuns
           /\ reg.queued_runs \in SUBSET Runs
           /\ reg.run_events \in [Runs -> Seq(LifecycleEvents)]
           /\ reg.session_status \in [Sessions -> ACTIVE_RUN_STATUSES \union {"idle"}]
BY DEF Registry

\* A registry that nothing happened to has evolved.
LEMMA EvolvesReflexive ==
    ASSUME NEW reg \in Registry
    PROVE  Evolves(reg, reg)
BY RegistryFields, RegistryAssumption DEF Evolves, Runs

\* Two operations one after the other are an evolution.
LEMMA EvolvesTransitive ==
    ASSUME NEW a \in Registry, NEW b, NEW c, Evolves(a, b), Evolves(b, c)
    PROVE  Evolves(a, c)
<1>1. /\ a.created \in Nat /\ b.created \in Nat /\ c.created \in Nat
      /\ b.queued_runs \subseteq Runs /\ c.queued_runs \subseteq Runs /\ Runs \subseteq Nat
    BY RegistryFields, RegistryAssumption DEF Evolves, Runs
<1>2. a.created <= b.created /\ b.created <= c.created
    BY DEF Evolves
<1>3. \A r \in Runs : r \in Nat
    BY <1>1
<1>4. ASSUME NEW r \in Runs, r <= a.created PROVE r <= b.created
    BY <1>1, <1>2, <1>3, <1>4
<1>5. ASSUME NEW r \in c.queued_runs PROVE r \in a.queued_runs \/ r > a.created
    <2>1. r \in Runs /\ r \in Nat
        BY <1>1
    <2>2. r \in b.queued_runs \/ r > b.created
        BY DEF Evolves
    <2>3. r \in b.queued_runs => r \in a.queued_runs \/ r > a.created
        BY DEF Evolves
    <2>4. r > b.created => r > a.created
        BY <1>1, <1>2, <2>1
    <2> QED
        BY <2>2, <2>3, <2>4
<1>6. ASSUME NEW r \in Runs, r <= a.created, Present(c, r)
      PROVE  Present(a, r) /\ c.session[r] = a.session[r]
    <2>1. Present(b, r) /\ c.session[r] = b.session[r]
        BY <1>4, <1>6 DEF Evolves
    <2> QED
        BY <1>6, <2>1 DEF Evolves
<1>7. a.created <= c.created
    BY <1>1, <1>2
<1>8. c \in Registry /\ (WellListed(a) => WellListed(c))
    BY DEF Evolves
<1> QED
    BY <1>5, <1>6, <1>7, <1>8 DEF Evolves

\* _remove_run_locked
LEMMA RemoveRunsEvolves ==
    ASSUME NEW reg \in Registry, NEW S
    PROVE  Evolves(reg, RemoveRuns(reg, S))
<1> DEFINE after == RemoveRuns(reg, S)
<1>1. after \in Registry
    BY RegistryFields, EmptySeq DEF RemoveRuns, Registry, Statuses
<1>2. /\ after.created = reg.created
      /\ after.queued_runs = reg.queued_runs \ S
      /\ after.status = [r \in Runs |-> IF r \in S THEN "absent" ELSE reg.status[r]]
      /\ after.session = [r \in Runs |-> IF r \in S THEN NoSession ELSE reg.session[r]]
    BY DEF RemoveRuns, Registry
<1> HIDE DEF after
<1>3. reg.created <= after.created
    BY <1>2, RegistryFields, RegistryAssumption
<1>4. \A r \in after.queued_runs : r \in reg.queued_runs
    BY <1>2
<1>5. \A r \in Runs : Present(after, r) =>
            Present(reg, r) /\ after.session[r] = reg.session[r]
    BY <1>2 DEF Present
<1>6. WellListed(reg) => WellListed(after)
    <2>1. ASSUME NEW r \in Runs, after.status[r] = "queued"
          PROVE  reg.status[r] = "queued" /\ r \notin S
        BY <1>2, <2>1
    <2> QED
        BY <1>2, <2>1 DEF WellListed
<1> QED
    BY <1>1, <1>3, <1>4, <1>5, <1>6 DEF Evolves, after

\* A registry that changed only the status, executor, end and session status of
\* runs, none of them to or from "queued" or "absent", has evolved.
LEMMA MarkedEvolves ==
    ASSUME NEW reg \in Registry, NEW after \in Registry,
           after.created = reg.created,
           after.queued_runs = reg.queued_runs,
           after.session = reg.session,
           \A r \in Runs : /\ Present(after, r) => Present(reg, r)
                           /\ after.status[r] = "queued" => reg.status[r] = "queued"
    PROVE  Evolves(reg, after)
<1>1. reg.created <= after.created
    BY RegistryFields, RegistryAssumption
<1>2. WellListed(reg) => WellListed(after)
    BY DEF WellListed
<1> QED
    BY <1>1, <1>2 DEF Evolves

\* mark_run_assigned
LEMMA MarkRunAssignedEvolves ==
    ASSUME NEW reg \in Registry, NEW r \in Runs, NEW d \in Daemons
    PROVE  Evolves(reg, MarkRunAssigned(reg, r, d))
<1>1. CASE ~Present(reg, r)
    BY <1>1, EvolvesReflexive DEF MarkRunAssigned
<1>2. CASE Present(reg, r)
    <2> DEFINE after == MarkRunAssigned(reg, r, d)
    <2>1. after = [reg EXCEPT !.status[r] = "assigned", !.executor[r] = d, !.ended[r] = 0,
                              !.session_status[reg.session[r]] = "assigned"]
        BY <1>2 DEF MarkRunAssigned
    <2>2. after \in Registry
        <3>1. [reg.status EXCEPT ![r] = "assigned"] \in [Runs -> Statuses]
            BY RegistryFields DEF Statuses, ACTIVE_RUN_STATUSES
        <3>2. [reg.executor EXCEPT ![r] = d] \in [Runs -> Daemons \union {NoDaemon}]
            BY RegistryFields
        <3>3. [reg.ended EXCEPT ![r] = 0] \in [Runs -> Nat]
            BY RegistryFields
        <3>4. [reg.session_status EXCEPT ![reg.session[r]] = "assigned"]
                \in [Sessions -> ACTIVE_RUN_STATUSES \union {"idle"}]
            BY RegistryFields DEF ACTIVE_RUN_STATUSES
        <3> QED
            BY <2>1, <3>1, <3>2, <3>3, <3>4 DEF Registry
    <2>3. /\ after.created = reg.created
          /\ after.queued_runs = reg.queued_runs
          /\ after.session = reg.session
          /\ after.status = [reg.status EXCEPT ![r] = "assigned"]
        BY <2>1 DEF Registry
    <2> HIDE DEF after
    <2>4. \A q \in Runs : /\ Present(after, q) => Present(reg, q)
                          /\ after.status[q] = "queued" => reg.status[q] = "queued"
        BY <1>2, <2>3, RegistryFields DEF Present
    <2>5. Evolves(reg, after)
        BY <2>2, <2>3, <2>4, MarkedEvolves
    <2> QED
        BY <2>5 DEF after
<1> QED
    BY <1>1, <1>2

\* mark_run_started
LEMMA MarkRunStartedEvolves ==
    ASSUME NEW reg \in Registry, NEW r \in Runs, NEW d \in Daemons
    PROVE  Evolves(reg, MarkRunStarted(reg, r, d))
<1>1. CASE ~Present(reg, r)
    BY <1>1, EvolvesReflexive DEF MarkRunStarted
<1>2. CASE Present(reg, r)
    <2> DEFINE after == MarkRunStarted(reg, r, d)
    <2>1. after = [reg EXCEPT !.status[r] = "running", !.executor[r] = d, !.ended[r] = 0,
                              !.session_status[reg.session[r]] = "running"]
        BY <1>2 DEF MarkRunStarted
    <2>2. after \in Registry
        <3>1. [reg.status EXCEPT ![r] = "running"] \in [Runs -> Statuses]
            BY RegistryFields DEF Statuses, ACTIVE_RUN_STATUSES
        <3>2. [reg.executor EXCEPT ![r] = d] \in [Runs -> Daemons \union {NoDaemon}]
            BY RegistryFields
        <3>3. [reg.ended EXCEPT ![r] = 0] \in [Runs -> Nat]
            BY RegistryFields
        <3>4. [reg.session_status EXCEPT ![reg.session[r]] = "running"]
                \in [Sessions -> ACTIVE_RUN_STATUSES \union {"idle"}]
            BY RegistryFields DEF ACTIVE_RUN_STATUSES
        <3> QED
            BY <2>1, <3>1, <3>2, <3>3, <3>4 DEF Registry
    <2>3. /\ after.created = reg.created
          /\ after.queued_runs = reg.queued_runs
          /\ after.session = reg.session
          /\ after.status = [reg.status EXCEPT ![r] = "running"]
        BY <2>1 DEF Registry
    <2> HIDE DEF after
    <2>4. \A q \in Runs : /\ Present(after, q) => Present(reg, q)
                          /\ after.status[q] = "queued" => reg.status[q] = "queued"
        BY <1>2, <2>3, RegistryFields DEF Present
    <2>5. Evolves(reg, after)
        BY <2>2, <2>3, <2>4, MarkedEvolves
    <2> QED
        BY <2>5 DEF after
<1> QED
    BY <1>1, <1>2

\* mark_run_completed, _failed, _cancelled and _executor_disconnected
LEMMA MarkRunTerminalEvolves ==
    ASSUME NEW reg \in Registry, NEW r \in Runs, NEW status \in TERMINAL_RUN_STATUSES
    PROVE  Evolves(reg, MarkRunTerminal(reg, r, status))
<1>1. CASE ~Present(reg, r)
    BY <1>1, EvolvesReflexive DEF MarkRunTerminal
<1>2. CASE Present(reg, r)
    <2> DEFINE marked == [reg EXCEPT !.status[r] = status,
                                     !.ended[r] = reg.clock + 1,
                                     !.clock = @ + 1,
                                     !.session_status[reg.session[r]] = "idle"]
    <2>1. MarkRunTerminal(reg, r, status) = PruneSession(marked, reg.session[r])
        BY <1>2 DEF MarkRunTerminal
    <2>2. marked \in Registry
        <3>1. [reg.status EXCEPT ![r] = status] \in [Runs -> Statuses]
            BY RegistryFields DEF Statuses
        <3>2. reg.clock + 1 \in Nat /\ [reg.ended EXCEPT ![r] = reg.clock + 1] \in [Runs -> Nat]
            BY RegistryFields
        <3>3. [reg.session_status EXCEPT ![reg.session[r]] = "idle"]
                \in [Sessions -> ACTIVE_RUN_STATUSES \union {"idle"}]
            BY RegistryFields
        <3> QED
            BY <3>1, <3>2, <3>3 DEF Registry
    <2>3. /\ marked.created = reg.created
          /\ marked.queued_runs = reg.queued_runs
          /\ marked.session = reg.session
          /\ marked.status = [reg.status EXCEPT ![r] = status]
        BY DEF Registry
    <2> HIDE DEF marked
    <2>4. \A q \in Runs : /\ Present(marked, q) => Present(reg, q)
                          /\ marked.status[q] = "queued" => reg.status[q] = "queued"
        BY <1>2, <2>3, RegistryFields DEF Present, TERMINAL_RUN_STATUSES
    <2>5. Evolves(reg, marked)
        BY <2>2, <2>3, <2>4, MarkedEvolves
    <2>6. Evolves(marked, PruneSession(marked, reg.session[r]))
        BY <2>2, RemoveRunsEvolves DEF PruneSession
    <2> QED
        BY <2>1, <2>5, <2>6, EvolvesTransitive
<1> QED
    BY <1>1, <1>2

\* store_run_event
LEMMA StoreRunEventEvolves ==
    ASSUME NEW reg \in Registry, NEW r \in Runs, NEW type \in LifecycleEvents
    PROVE  Evolves(reg, StoreRunEvent(reg, r, type))
<1> DEFINE after == StoreRunEvent(reg, r, type)
<1>1. Append(reg.run_events[r], type) \in Seq(LifecycleEvents)
    BY RegistryFields, AppendProperties
<1>2. after \in Registry
    BY <1>1, RegistryFields DEF StoreRunEvent, Registry
<1>3. /\ after.created = reg.created
      /\ after.queued_runs = reg.queued_runs
      /\ after.session = reg.session
      /\ after.status = reg.status
    BY DEF StoreRunEvent, Registry
<1> HIDE DEF after
<1>4. Evolves(reg, after)
    BY <1>2, <1>3, MarkedEvolves DEF Present
<1> QED
    BY <1>4 DEF after

\* cleanup
LEMMA CleanupEvolves ==
    ASSUME NEW reg \in Registry, NEW cutoff
    PROVE  Evolves(reg, Cleanup(reg, cutoff))
<1> DEFINE expired == {r \in Runs : Terminal(reg, r) /\ reg.ended[r] <= cutoff}
           unexpired == RemoveRuns(reg, expired)
           excess == UNION {Excess(unexpired, s) : s \in Sessions}
           pruned == RemoveRuns(unexpired, excess)
           after == [pruned EXCEPT !.run_events =
                        [r \in Runs |-> IF Present(pruned, r) THEN @[r] ELSE <<>>]]
<1>1. Cleanup(reg, cutoff) = after
    BY DEF Cleanup
<1>2. Evolves(reg, unexpired)
    BY RemoveRunsEvolves
<1>3. unexpired \in Registry
    BY <1>2 DEF Evolves
<1> HIDE DEF unexpired, excess
<1>4. Evolves(unexpired, pruned)
    BY <1>3, RemoveRunsEvolves
<1>5. pruned \in Registry
    BY <1>4 DEF Evolves
<1> HIDE DEF pruned
<1>6. after \in Registry
    <2>1. [r \in Runs |-> IF Present(pruned, r) THEN pruned.run_events[r] ELSE <<>>]
            \in [Runs -> Seq(LifecycleEvents)]
        BY <1>5, RegistryFields, EmptySeq
    <2> QED
        BY <1>5, <2>1 DEF Registry
<1>7. /\ after.created = pruned.created
      /\ after.queued_runs = pruned.queued_runs
      /\ after.session = pruned.session
      /\ after.status = pruned.status
    BY <1>5 DEF Registry
<1> HIDE DEF after
<1>8. Evolves(pruned, after)
    BY <1>5, <1>6, <1>7, MarkedEvolves DEF Present
<1>9. Evolves(unexpired, after)
    BY <1>3, <1>4, <1>8, EvolvesTransitive
<1> QED
    BY <1>1, <1>2, <1>9, EvolvesTransitive

\* create_run
LEMMA CreateRunEvolves ==
    ASSUME NEW reg \in Registry, NEW s \in Sessions, reg.created < MaxRuns
    PROVE  NextRun(reg) \in Runs /\ Evolves(reg, CreateRun(reg, s))
<1> DEFINE r == NextRun(reg)
           after == CreateRun(reg, s)
<1>1. reg.created \in Nat /\ MaxRuns \in Nat
    BY RegistryFields, RegistryAssumption
<1>2. r \in Runs /\ r \in Nat /\ r = reg.created + 1 /\ r \in 0 .. MaxRuns
    BY <1>1 DEF NextRun, Runs
<1>3. after = [reg EXCEPT !.created = r, !.status[r] = "queued", !.session[r] = s,
                          !.queued_runs = @ \union {r}, !.session_status[s] = "queued"]
    BY DEF CreateRun
<1> HIDE DEF r
<1>4. after \in Registry
    <2>1. [reg.status EXCEPT ![r] = "queued"] \in [Runs -> Statuses]
        BY <1>2, RegistryFields DEF Statuses, ACTIVE_RUN_STATUSES
    <2>2. [reg.session EXCEPT ![r] = s] \in [Runs -> Sessions \union {NoSession}]
        BY <1>2, RegistryFields
    <2>3. reg.queued_runs \union {r} \in SUBSET Runs
        BY <1>2, RegistryFields
    <2>4. [reg.session_status EXCEPT ![s] = "queued"]
            \in [Sessions -> ACTIVE_RUN_STATUSES \union {"idle"}]
        BY RegistryFields DEF ACTIVE_RUN_STATUSES
    <2> QED
        BY <1>2, <1>3, <2>1, <2>2, <2>3, <2>4 DEF Registry
<1>5. /\ after.created = r
      /\ after.queued_runs = reg.queued_runs \union {r}
      /\ after.session = [reg.session EXCEPT ![r] = s]
      /\ after.status = [reg.status EXCEPT ![r] = "queued"]
    BY <1>3 DEF Registry
<1> HIDE DEF after
<1>6. reg.created <= after.created /\ r > reg.created
    BY <1>1, <1>2, <1>5
<1>7. \A q \in after.queued_runs : q \in reg.queued_runs \/ q > reg.created
    BY <1>5, <1>6
<1>8. ASSUME NEW q \in Runs, q <= reg.created, Present(after, q)
      PROVE  Present(reg, q) /\ after.session[q] = reg.session[q]
    <2>1. q # r
        BY <1>1, <1>2, <1>8 DEF Runs
    <2> QED
        BY <1>5, <1>8, <2>1, RegistryFields DEF Present
<1>9. WellListed(reg) => WellListed(after)
    <2>1. 1 .. reg.created \subseteq 1 .. r /\ r \in 1 .. r
        BY <1>1, <1>2
    <2>2. \A q \in Runs : q # r => after.status[q] = reg.status[q]
        BY <1>5, RegistryFields
    <2> QED
        BY <1>5, <2>1, <2>2 DEF WellListed
<1>10. Evolves(reg, after)
    BY <1>4, <1>6, <1>7, <1>8, <1>9 DEF Evolves
<1> QED
    BY <1>2, <1>10 DEF r, after

\* claim_next_queued_run, when it returns None
LEMMA ClaimNothingEvolves ==
    ASSUME NEW reg \in Registry
    PROVE  /\ Evolves(reg, ClaimNothing(reg))
           /\ ClaimNothing(reg).created = reg.created
           /\ ClaimNothing(reg).status = reg.status
           /\ ClaimNothing(reg).session = reg.session
           /\ \A r \in reg.queued_runs :
                 reg.status[r] = "queued" => r \in ClaimNothing(reg).queued_runs
<1> DEFINE after == ClaimNothing(reg)
<1>1. after \in Registry
    BY RegistryFields DEF ClaimNothing, Registry
<1>2. /\ after.created = reg.created
      /\ after.queued_runs = reg.queued_runs \ Stale(reg)
      /\ after.session = reg.session
      /\ after.status = reg.status
    BY DEF ClaimNothing, Registry
<1> HIDE DEF after
<1>3. \A r \in Stale(reg) : reg.status[r] # "queued"
    BY DEF Stale
<1>4. reg.created <= after.created
    BY <1>2, RegistryFields, RegistryAssumption
<1>5. WellListed(reg) => WellListed(after)
    BY <1>2, <1>3 DEF WellListed
<1>6. Evolves(reg, after)
    BY <1>1, <1>2, <1>4, <1>5 DEF Evolves, Present
<1> QED
    BY <1>2, <1>3, <1>6 DEF after

\* claim_next_queued_run, when it returns a run: it is off the list, and only
\* runs that are not queued went with it.
LEMMA ClaimRunEvolves ==
    ASSUME NEW reg \in Registry, NEW r \in Runs,
           r \in reg.queued_runs, reg.status[r] = "queued"
    PROVE  /\ Evolves(reg, ClaimRun(reg, r))
           /\ ClaimRun(reg, r).created = reg.created
           /\ ClaimRun(reg, r).session = reg.session
           /\ r \notin ClaimRun(reg, r).queued_runs
<1> DEFINE after == ClaimRun(reg, r)
           gone == {r} \union {q \in Stale(reg) : q < r}
<1>1. after = [reg EXCEPT !.queued_runs = @ \ gone, !.status[r] = "assigned",
                          !.session_status[reg.session[r]] = "assigned"]
    BY DEF ClaimRun
<1>2. \A q \in gone : q # r => reg.status[q] # "queued"
    BY DEF Stale
<1>3. r \in gone
    OBVIOUS
<1> HIDE DEF gone
<1>4. after \in Registry
    <2>1. [reg.status EXCEPT ![r] = "assigned"] \in [Runs -> Statuses]
        BY RegistryFields DEF Statuses, ACTIVE_RUN_STATUSES
    <2>2. [reg.session_status EXCEPT ![reg.session[r]] = "assigned"]
            \in [Sessions -> ACTIVE_RUN_STATUSES \union {"idle"}]
        BY RegistryFields DEF ACTIVE_RUN_STATUSES
    <2>3. reg.queued_runs \ gone \in SUBSET Runs
        BY RegistryFields
    <2> QED
        BY <1>1, <2>1, <2>2, <2>3 DEF Registry
<1>5. /\ after.created = reg.created
      /\ after.queued_runs = reg.queued_runs \ gone
      /\ after.session = reg.session
      /\ after.status = [reg.status EXCEPT ![r] = "assigned"]
    BY <1>1 DEF Registry
<1> HIDE DEF after
<1>6. reg.created <= after.created
    BY <1>5, RegistryFields, RegistryAssumption
<1>7. \A q \in Runs : /\ after.status[q] = IF q = r THEN "assigned" ELSE reg.status[q]
                      /\ Present(after, q) => Present(reg, q)
    BY <1>5, RegistryFields DEF Present
<1>8. WellListed(reg) => WellListed(after)
    BY <1>2, <1>5, <1>7 DEF WellListed
<1>9. Evolves(reg, after)
    BY <1>4, <1>5, <1>6, <1>7, <1>8 DEF Evolves
<1> QED
    BY <1>3, <1>5, <1>9 DEF after
-----------------------------------------------------------------------------
(* Where runs are: the part of the invariant that makes it inductive.        *)

\* Run r was taken off the list, and connection c is one of its session's daemon.
On(reg, r, c) ==
    /\ r <= reg.created
    /\ r \notin reg.queued_runs
    /\ Present(reg, r) => DaemonOf(c) = Host[reg.session[r]]

SendsOn(reg, sends) ==
    \A r \in Runs : sends[r] # NotSending => On(reg, r, sends[r].to)

AssignsOn(reg, channel) ==
    \A c \in Conns : \A i \in 1 .. Len(channel[c]) :
        channel[c][i].type = "run.assign" =>
            channel[c][i].run \in Runs /\ On(reg, channel[c][i].run, c)

WorkOn(reg, tasks, conns) ==
    \A r \in Runs : tasks[r] # "none" => On(reg, r, conns[r])

\* The inductive invariant: OwnDaemonOnly says nothing of the messages that are
\* under way, nor that a run that was handed out cannot be claimed again.
IInv ==
    /\ TypeOK
    /\ WellListed(rt)
    /\ SendsOn(rt, sending)
    /\ AssignsOn(rt, down)
    /\ WorkOn(rt, work, work_conn)

\* A run that is where it belongs stays there, whatever happens to the registry.
LEMMA OnPersists ==
    ASSUME NEW a \in Registry, NEW b, Evolves(a, b), NEW r \in Runs, NEW c, On(a, r, c)
    PROVE  On(b, r, c)
<1>1. b \in Registry /\ a.created \in Nat /\ b.created \in Nat /\ r \in Nat
    BY RegistryFields, RegistryAssumption DEF Evolves, Runs
<1>2. r <= a.created /\ a.created <= b.created /\ r \notin a.queued_runs
    BY DEF On, Evolves
<1>3. r <= b.created /\ ~(r > a.created)
    BY <1>1, <1>2
<1>4. r \notin b.queued_runs
    BY <1>2, <1>3 DEF Evolves
<1>5. Present(b, r) => DaemonOf(c) = Host[b.session[r]]
    BY <1>2 DEF Evolves, On
<1> QED
    BY <1>3, <1>4, <1>5 DEF On

\* ... and so does everything the invariant says of the runs handed out.
LEMMA PlacesPersist ==
    ASSUME NEW a \in Registry, NEW b, Evolves(a, b), WellListed(a),
           NEW s, SendsOn(a, s), NEW m, AssignsOn(a, m),
           NEW t, NEW k, WorkOn(a, t, k)
    PROVE  /\ b \in Registry /\ WellListed(b)
           /\ SendsOn(b, s) /\ AssignsOn(b, m) /\ WorkOn(b, t, k)
<1>1. b \in Registry /\ WellListed(b)
    BY DEF Evolves
<1>2. SendsOn(b, s)
    BY OnPersists DEF SendsOn
<1>3. AssignsOn(b, m)
    BY OnPersists DEF AssignsOn
<1>4. WorkOn(b, t, k)
    BY OnPersists DEF WorkOn
<1> QED
    BY <1>1, <1>2, <1>3, <1>4

\* Appending a message that is no run.assign of a stray run keeps AssignsOn.
LEMMA DeliverKeepsAssigns ==
    ASSUME NEW reg, NEW channel \in [Conns -> Seq(Messages)], AssignsOn(reg, channel),
           NEW c \in Conns, NEW m \in Messages,
           m.type = "run.assign" => m.run \in Runs /\ On(reg, m.run, c)
    PROVE  /\ Deliver(channel, c, m) \in [Conns -> Seq(Messages)]
           /\ AssignsOn(reg, Deliver(channel, c, m))
<1>1. CASE link[c] # "up"
    BY <1>1 DEF Deliver
<1>2. CASE link[c] = "up"
    <2> DEFINE more == Append(channel[c], m)
               after == [channel EXCEPT ![c] = more]
    <2>1. Deliver(channel, c, m) = after
        BY <1>2 DEF Deliver
    <2>2. channel[c] \in Seq(Messages)
        OBVIOUS
    <2>3. /\ more \in Seq(Messages)
          /\ Len(more) = Len(channel[c]) + 1
          /\ \A i \in 1 .. Len(channel[c]) : more[i] = channel[c][i]
          /\ more[Len(channel[c]) + 1] = m
        BY <2>2, AppendProperties
    <2> HIDE DEF more
    <2>4. after \in [Conns -> Seq(Messages)]
        BY <2>3
    <2>5. ASSUME NEW k \in Conns, NEW i \in 1 .. Len(after[k]), after[k][i].type = "run.assign"
          PROVE  after[k][i].run \in Runs /\ On(reg, after[k][i].run, k)
        <3>1. CASE k # c
            <4>1. after[k] = channel[k]
                BY <3>1
            <4> QED
                BY <2>5, <4>1 DEF AssignsOn
        <3>2. CASE k = c
            <4>1. after[k] = more
                BY <3>2
            <4> HIDE DEF after
            <4>2. Len(channel[c]) \in Nat
                BY <2>2, LenProperties
            <4>3. i \in 1 .. Len(channel[c]) \/ i = Len(channel[c]) + 1
                BY <2>3, <4>1, <4>2
            <4>4. CASE i = Len(channel[c]) + 1
                BY <2>3, <2>5, <3>2, <4>1, <4>4
            <4>5. CASE i \in 1 .. Len(channel[c])
                BY <2>3, <2>5, <3>2, <4>1, <4>5 DEF AssignsOn
            <4> QED
                BY <4>3, <4>4, <4>5
        <3> QED
            BY <3>1, <3>2
    <2> QED
        BY <2>1, <2>4, <2>5 DEF AssignsOn
<1> QED
    BY <1>1, <1>2

\* What is claimed is a run whose session lives on the daemon it is claimed for.
LEMMA ClaimedIsOn ==
    ASSUME NEW reg \in Registry, WellListed(reg), NEW c \in Conns, NEW r \in Runs,
           IsNextFor(reg, DaemonOf(c), r),
           NEW scanned \in {reg, ClaimNothing(reg)}
    PROVE  /\ Evolves(reg, ClaimRun(scanned, r))
           /\ On(ClaimRun(scanned, r), r, c)
<1>1. r \in reg.queued_runs /\ reg.status[r] = "queued" /\ Host[reg.session[r]] = DaemonOf(c)
    BY DEF IsNextFor, Waiting
<1>2. /\ Evolves(reg, scanned)
      /\ scanned.created = reg.created
      /\ scanned.status = reg.status
      /\ scanned.session = reg.session
      /\ r \in scanned.queued_runs
    BY <1>1, ClaimNothingEvolves, EvolvesReflexive
<1>3. scanned \in Registry
    BY <1>2 DEF Evolves
<1>4. /\ Evolves(scanned, ClaimRun(scanned, r))
      /\ ClaimRun(scanned, r).created = reg.created
      /\ ClaimRun(scanned, r).session = reg.session
      /\ r \notin ClaimRun(scanned, r).queued_runs
    BY <1>1, <1>2, <1>3, ClaimRunEvolves
<1>5. r <= reg.created
    BY <1>1, RegistryFields DEF WellListed
<1> QED
    BY <1>1, <1>2, <1>4, <1>5, EvolvesTransitive DEF On

\* dispatch_pending, however far it gets.
LEMMA DispatchKeeps ==
    ASSUME NEW reg \in Registry, WellListed(reg), NEW busy0,
           NEW channel \in [Conns -> Seq(Messages)], AssignsOn(reg, channel),
           NEW open \in [Runs -> Sends \union {NotSending}], SendsOn(reg, open),
           WorkOn(reg, work, work_conn),
           NEW rest \in SUBSET Conns, NEW progress \in BOOLEAN,
           NEW by \in Conns \union {NoConn},
           Dispatch(reg, busy0, channel, open, rest, progress, by)
    PROVE  /\ rt' \in Registry /\ WellListed(rt')
           /\ sending' \in [Runs -> Sends \union {NotSending}] /\ SendsOn(rt', sending')
           /\ down' \in [Conns -> Seq(Messages)] /\ AssignsOn(rt', down')
           /\ WorkOn(rt', work, work_conn)
<1> DEFINE CanClaim(S) == {c \in S : Waiting(reg, DaemonOf(c)) # {}}
           again == progress /\ CanClaim(rest) = {}
           pool == IF again THEN Available(busy0) ELSE rest
           Scanned(tried) == IF tried = {} THEN reg ELSE ClaimNothing(reg)
<1>1. pool \subseteq Conns
    BY DEF Available
<1>2. \A tried : Scanned(tried) \in {reg, ClaimNothing(reg)}
    OBVIOUS
<1>3. CASE /\ rt' = Scanned(rest \union pool)
           /\ sending' = open
           /\ down' = channel
    <2>1. Evolves(reg, rt')
        BY <1>3, ClaimNothingEvolves, EvolvesReflexive
    <2> QED
        BY <1>3, <2>1, PlacesPersist
<1>4. CASE \E c \in CanClaim(pool), r \in Runs, tried \in SUBSET (pool \ CanClaim(pool)) :
              /\ IsNextFor(reg, DaemonOf(c), r)
              /\ rt' = ClaimRun(Scanned(IF again THEN tried \union rest ELSE tried), r)
              /\ sending' = [open EXCEPT ![r] =
                    [to |-> c, rest |-> pool \ (tried \union {c}),
                     progress |-> progress /\ ~again, by |-> by,
                     doomed |-> link[c] = "closed"]]
              /\ down' = Deliver(channel, c, Message("run.assign", r))
    <2>1. PICK c \in CanClaim(pool), r \in Runs, tried \in SUBSET (pool \ CanClaim(pool)) :
              /\ IsNextFor(reg, DaemonOf(c), r)
              /\ rt' = ClaimRun(Scanned(IF again THEN tried \union rest ELSE tried), r)
              /\ sending' = [open EXCEPT ![r] =
                    [to |-> c, rest |-> pool \ (tried \union {c}),
                     progress |-> progress /\ ~again, by |-> by,
                     doomed |-> link[c] = "closed"]]
              /\ down' = Deliver(channel, c, Message("run.assign", r))
        BY <1>4
    <2> DEFINE send == [to |-> c, rest |-> pool \ (tried \union {c}),
                        progress |-> progress /\ ~again, by |-> by,
                        doomed |-> link[c] = "closed"]
               scanned == Scanned(IF again THEN tried \union rest ELSE tried)
    <2>2. c \in Conns
        BY <1>1
    <2>3. scanned \in {reg, ClaimNothing(reg)}
        BY <1>2
    <2>4. rt' = ClaimRun(scanned, r)
        BY <2>1
    <2> HIDE DEF scanned
    <2>5. Evolves(reg, rt') /\ On(rt', r, c)
        BY <2>1, <2>2, <2>3, <2>4, ClaimedIsOn
    <2>6. send \in Sends /\ send.to = c
        <3>1. (progress /\ ~again) \in BOOLEAN /\ (link[c] = "closed") \in BOOLEAN
            OBVIOUS
        <3>2. pool \ (tried \union {c}) \in SUBSET Conns
            BY <1>1
        <3> HIDE DEF again, pool
        <3> QED
            BY <2>2, <3>1, <3>2 DEF Sends
    <2>7. sending' = [open EXCEPT ![r] = send]
        BY <2>1
    <2> HIDE DEF send
    <2>8. /\ rt' \in Registry /\ WellListed(rt')
          /\ SendsOn(rt', open) /\ AssignsOn(rt', channel)
          /\ WorkOn(rt', work, work_conn)
        BY <2>5, PlacesPersist
    <2>9. sending' \in [Runs -> Sends \union {NotSending}]
        BY <2>6, <2>7
    <2>10. SendsOn(rt', sending')
        BY <2>5, <2>6, <2>7, <2>8 DEF SendsOn
    <2>11. /\ Message("run.assign", r) \in Messages
           /\ Message("run.assign", r).run = r
        BY DEF Message, Messages
    <2>12. down' \in [Conns -> Seq(Messages)] /\ AssignsOn(rt', down')
        BY <2>1, <2>2, <2>5, <2>8, <2>11, DeliverKeepsAssigns
    <2> QED
        BY <2>8, <2>9, <2>10, <2>12
<1> QED
    BY <1>3, <1>4 DEF Dispatch
-----------------------------------------------------------------------------
(* Each action keeps the invariant.                                          *)

\* How a handler ends a run: it is marked, then its terminal event is stored.
LEMMA EndedEvolves ==
    ASSUME NEW reg \in Registry, NEW r \in Runs, NEW status \in TERMINAL_RUN_STATUSES,
           NEW type \in TerminalEvents
    PROVE  Evolves(reg, StoreRunEvent(MarkRunTerminal(reg, r, status), r, type))
<1>1. Evolves(reg, MarkRunTerminal(reg, r, status))
    BY MarkRunTerminalEvolves
<1>2. MarkRunTerminal(reg, r, status) \in Registry
    BY <1>1 DEF Evolves
<1>3. type \in LifecycleEvents
    BY DEF TerminalEvents, LifecycleEvents
<1> QED
    BY <1>1, <1>2, <1>3, StoreRunEventEvolves, EvolvesTransitive

\* The receive loop takes a message off the inbox and leaves it well typed.
LEMMA ReceivesTypes ==
    ASSUME TypeOK, NEW c \in Conns, NEW type, NEW r, Receives(c, type, r)
    PROVE  inbox' \in [Conns -> Seq(Messages)]
<1>1. inbox[c] \in Seq(Messages)
    BY DEF TypeOK
<1>2. Tail(inbox[c]) \in Seq(Messages)
    BY <1>1, HeadTailProperties DEF Receives
<1> QED
    BY <1>2 DEF Receives, TypeOK

\* The connector's answer to a run goes to the connection the run came on.
LEMMA ReplyTypes ==
    ASSUME TypeOK, NEW r \in Runs, NEW m \in Messages, Reply(r, m)
    PROVE  inbox' \in [Conns -> Seq(Messages)]
<1>1. CASE link[work_conn[r]] # "up"
    BY <1>1 DEF Reply, TypeOK
<1>2. CASE link[work_conn[r]] = "up"
    <2>1. inbox' = [inbox EXCEPT ![work_conn[r]] = Append(inbox[work_conn[r]], m)]
        BY <1>2 DEF Reply
    <2>2. CASE work_conn[r] \in Conns
        <3>1. inbox[work_conn[r]] \in Seq(Messages)
            BY <2>2 DEF TypeOK
        <3>2. Append(inbox[work_conn[r]], m) \in Seq(Messages)
            BY <3>1, AppendProperties
        <3> QED
            BY <2>1, <3>2 DEF TypeOK
    <2>3. CASE work_conn[r] \notin Conns
        BY <2>1, <2>3 DEF TypeOK
    <2> QED
        BY <2>2, <2>3
<1> QED
    BY <1>1, <1>2

\* dispatch_pending called by a handler.
LEMMA DispatchPendingKeeps ==
    ASSUME TypeOK, NEW reg \in Registry, WellListed(reg), NEW busy0,
           NEW channel \in [Conns -> Seq(Messages)], AssignsOn(reg, channel),
           SendsOn(reg, sending), WorkOn(reg, work, work_conn),
           NEW by \in Conns \union {NoConn},
           DispatchPending(reg, busy0, channel, by)
    PROVE  /\ rt' \in Registry /\ WellListed(rt')
           /\ sending' \in [Runs -> Sends \union {NotSending}] /\ SendsOn(rt', sending')
           /\ down' \in [Conns -> Seq(Messages)] /\ AssignsOn(rt', down')
           /\ WorkOn(rt', work, work_conn)
<1>1. sending \in [Runs -> Sends \union {NotSending}]
    BY DEF TypeOK
<1>2. Dispatch(reg, busy0, channel, sending, {}, TRUE, by)
    BY DEF DispatchPending
<1> QED
    BY <1>1, <1>2, DispatchKeeps

\* A suspended send ends: it returns, and the run is assigned ...
LEMMA SendReturnsKeeps ==
    ASSUME IInv, NEW r \in Runs, SendReturns(r)
    PROVE  IInv'
<1> DEFINE s == sending[r]
           marked == MarkRunAssigned(rt, r, DaemonOf(s.to))
           rt1 == StoreRunEvent(marked, r, "run.started")
           open == [sending EXCEPT ![r] = NotSending]
           busy1 == [busy EXCEPT ![s.to] = r]
<1>1. TypeOK
    BY DEF IInv
<1>2. s \in Sends
    BY <1>1 DEF SendReturns, Suspended, TypeOK
<1>3. s.to \in Conns /\ s.rest \in SUBSET Conns /\ s.by \in Conns \union {NoConn}
    BY <1>2 DEF Sends
<1>4. rt \in Registry /\ DaemonOf(s.to) \in Daemons
    BY <1>1, <1>3 DEF TypeOK, Conns, DaemonOf
<1>5. Evolves(rt, marked)
    BY <1>4, MarkRunAssignedEvolves
<1>6. Evolves(marked, rt1)
    BY <1>5, StoreRunEventEvolves DEF Evolves, LifecycleEvents
<1>7. Evolves(rt, rt1)
    BY <1>4, <1>5, <1>6, EvolvesTransitive
<1>8. Dispatch(rt1, busy1, down, open, s.rest, TRUE, s.by)
    BY DEF SendReturns
<1>9. /\ busy' = busy1 /\ stream_bytes' = stream_bytes \union {r}
      /\ UNCHANGED <<registered, pc, link, inbox, connectorVars>>
    BY DEF SendReturns
<1> HIDE DEF rt1, marked
<1>10. /\ rt1 \in Registry /\ WellListed(rt1)
       /\ SendsOn(rt1, sending) /\ AssignsOn(rt1, down) /\ WorkOn(rt1, work, work_conn)
    BY <1>4, <1>7, PlacesPersist DEF IInv
<1>11. open \in [Runs -> Sends \union {NotSending}] /\ SendsOn(rt1, open)
    BY <1>1, <1>10 DEF TypeOK, SendsOn
<1>12. down \in [Conns -> Seq(Messages)]
    BY <1>1 DEF TypeOK
<1> HIDE DEF open, s
<1>13. /\ rt' \in Registry /\ WellListed(rt')
       /\ sending' \in [Runs -> Sends \union {NotSending}] /\ SendsOn(rt', sending')
       /\ down' \in [Conns -> Seq(Messages)] /\ AssignsOn(rt', down')
       /\ WorkOn(rt', work, work_conn)
    BY <1>3, <1>8, <1>10, <1>11, <1>12, DispatchKeeps
<1>14. TypeOK'
    BY <1>1, <1>9, <1>13 DEF TypeOK, connectorVars
<1> QED
    BY <1>9, <1>13, <1>14 DEF IInv, connectorVars

\* ... or it raises, and the run fails.
LEMMA SendRaisesKeeps ==
    ASSUME IInv, NEW r \in Runs, SendRaises(r)
    PROVE  IInv'
<1> DEFINE s == sending[r]
           rt1 == StoreRunEvent(MarkRunTerminal(rt, r, "failed"), r, "run.error")
           open == [sending EXCEPT ![r] = NotSending]
<1>1. TypeOK
    BY DEF IInv
<1>2. s \in Sends
    BY <1>1 DEF SendRaises, Suspended, TypeOK
<1>3. /\ s.rest \in SUBSET Conns /\ s.progress \in BOOLEAN
      /\ s.by \in Conns \union {NoConn}
    BY <1>2 DEF Sends
<1>4. rt \in Registry
    BY <1>1 DEF TypeOK
<1>5. Evolves(rt, rt1)
    BY <1>4, EndedEvolves DEF TERMINAL_RUN_STATUSES, TerminalEvents
<1>6. Dispatch(rt1, busy, down, open, s.rest, s.progress, s.by)
    BY DEF SendRaises
<1>7. UNCHANGED <<registered, pc, busy, stream_bytes, link, inbox, connectorVars>>
    BY DEF SendRaises
<1> HIDE DEF rt1
<1>8. /\ rt1 \in Registry /\ WellListed(rt1)
      /\ SendsOn(rt1, sending) /\ AssignsOn(rt1, down) /\ WorkOn(rt1, work, work_conn)
    BY <1>4, <1>5, PlacesPersist DEF IInv
<1>9. open \in [Runs -> Sends \union {NotSending}] /\ SendsOn(rt1, open)
    BY <1>1, <1>8 DEF TypeOK, SendsOn
<1>10. down \in [Conns -> Seq(Messages)]
    BY <1>1 DEF TypeOK
<1> HIDE DEF open, s
<1>11. /\ rt' \in Registry /\ WellListed(rt')
       /\ sending' \in [Runs -> Sends \union {NotSending}] /\ SendsOn(rt', sending')
       /\ down' \in [Conns -> Seq(Messages)] /\ AssignsOn(rt', down')
       /\ WorkOn(rt', work, work_conn)
    BY <1>3, <1>6, <1>8, <1>9, <1>10, DispatchKeeps
<1>12. TypeOK'
    BY <1>1, <1>7, <1>11 DEF TypeOK, connectorVars
<1> QED
    BY <1>7, <1>11, <1>12 DEF IInv, connectorVars

\* POST /v1/sessions/{s}/messages
LEMMA SendMessageKeeps ==
    ASSUME IInv, NEW s \in Sessions, SendMessage(s)
    PROVE  IInv'
<1> DEFINE made == CreateRun(rt, s)
           rt1 == StoreRunEvent(made, NextRun(rt), "run.queued")
<1>1. TypeOK /\ rt \in Registry
    BY DEF IInv, TypeOK
<1>2. NextRun(rt) \in Runs /\ Evolves(rt, made)
    BY <1>1, CreateRunEvolves DEF SendMessage
<1>3. Evolves(made, rt1)
    BY <1>2, StoreRunEventEvolves DEF Evolves, LifecycleEvents
<1>4. Evolves(rt, rt1)
    BY <1>1, <1>2, <1>3, EvolvesTransitive
<1>5. DispatchPending(rt1, busy, down, NoConn)
    BY DEF SendMessage
<1>6. UNCHANGED <<registered, pc, busy, stream_bytes, link, inbox, connectorVars>>
    BY DEF SendMessage
<1> HIDE DEF made, rt1
<1>7. /\ rt1 \in Registry /\ WellListed(rt1)
      /\ SendsOn(rt1, sending) /\ AssignsOn(rt1, down) /\ WorkOn(rt1, work, work_conn)
    BY <1>1, <1>4, PlacesPersist DEF IInv
<1>8. down \in [Conns -> Seq(Messages)]
    BY <1>1 DEF TypeOK
<1>9. /\ rt' \in Registry /\ WellListed(rt')
      /\ sending' \in [Runs -> Sends \union {NotSending}] /\ SendsOn(rt', sending')
      /\ down' \in [Conns -> Seq(Messages)] /\ AssignsOn(rt', down')
      /\ WorkOn(rt', work, work_conn)
    BY <1>1, <1>5, <1>7, <1>8, DispatchPendingKeeps
<1>10. TypeOK'
    BY <1>1, <1>6, <1>9 DEF TypeOK, connectorVars
<1> QED
    BY <1>6, <1>9, <1>10 DEF IInv, connectorVars

\* The handlers and loops that only move the registry on: the run that is
\* cancelled while it waits, the cleanup, the end of unregister.
LEMMA RegistryStepKeeps ==
    ASSUME IInv, Evolves(rt, rt'),
           busy' \in [Conns -> Runs \union {NoRun}],
           stream_bytes' \subseteq Runs,
           pc' \in [Conns -> {"none", "registering", "serving", "closing",
                              "unregistering", "gone", "rejected"}],
           UNCHANGED <<registered, sending, connectorVars, channelVars>>
    PROVE  IInv'
<1>1. TypeOK /\ rt \in Registry
    BY DEF IInv, TypeOK
<1>2. /\ rt' \in Registry /\ WellListed(rt')
      /\ SendsOn(rt', sending) /\ AssignsOn(rt', down) /\ WorkOn(rt', work, work_conn)
    BY <1>1, PlacesPersist DEF IInv
<1>3. TypeOK'
    BY <1>1, <1>2 DEF TypeOK, connectorVars, channelVars
<1> QED
    BY <1>2, <1>3 DEF IInv, connectorVars, channelVars

\* POST /v1/runs/{r}/cancel of a queued run
LEMMA CancelQueuedKeeps ==
    ASSUME IInv, NEW r \in Runs, CancelQueued(r)
    PROVE  IInv'
<1>1. TypeOK /\ rt \in Registry
    BY DEF IInv, TypeOK
<1>2. Evolves(rt, rt')
    BY <1>1, EndedEvolves DEF CancelQueued, TERMINAL_RUN_STATUSES, TerminalEvents
<1>3. busy' \in [Conns -> Runs \union {NoRun}] /\ stream_bytes' \subseteq Runs
    BY <1>1 DEF CancelQueued, TypeOK
<1>4. pc' \in [Conns -> {"none", "registering", "serving", "closing",
                         "unregistering", "gone", "rejected"}]
    BY <1>1 DEF CancelQueued, TypeOK
<1>5. UNCHANGED <<registered, sending, connectorVars, channelVars>>
    BY DEF CancelQueued
<1> QED
    BY <1>2, <1>3, <1>4, <1>5, RegistryStepKeeps

\* The cleanup loop.
LEMMA CleanupRunsKeeps ==
    ASSUME IInv, NEW cutoff, CleanupRuns(cutoff)
    PROVE  IInv'
<1>1. TypeOK /\ rt \in Registry
    BY DEF IInv, TypeOK
<1>2. Evolves(rt, rt')
    BY <1>1, CleanupEvolves DEF CleanupRuns
<1>3. busy' \in [Conns -> Runs \union {NoRun}] /\ stream_bytes' \subseteq Runs
    BY <1>1 DEF CleanupRuns, TypeOK
<1>4. pc' \in [Conns -> {"none", "registering", "serving", "closing",
                         "unregistering", "gone", "rejected"}]
    BY <1>1 DEF CleanupRuns, TypeOK
<1>5. UNCHANGED <<registered, sending, connectorVars, channelVars>>
    BY DEF CleanupRuns
<1> QED
    BY <1>2, <1>3, <1>4, <1>5, RegistryStepKeeps

\* unregister returns: the run of the session ends as executor_disconnected.
LEMMA UnregisterReturnsKeeps ==
    ASSUME IInv, NEW c \in Conns, UnregisterReturns(c)
    PROVE  IInv'
<1>1. TypeOK /\ rt \in Registry
    BY DEF IInv, TypeOK
<1>2. Evolves(rt, rt')
    <2>1. CASE busy[c] = NoRun
        BY <1>1, <2>1, EvolvesReflexive DEF UnregisterReturns
    <2>2. CASE busy[c] # NoRun
        <3>1. busy[c] \in Runs
            BY <1>1, <2>2 DEF TypeOK
        <3>2. rt' = StoreRunEvent(MarkRunTerminal(rt, busy[c], "executor_disconnected"),
                                  busy[c], "run.error")
            BY <2>2 DEF UnregisterReturns
        <3> QED
            BY <1>1, <3>1, <3>2, EndedEvolves DEF TERMINAL_RUN_STATUSES, TerminalEvents
    <2> QED
        BY <2>1, <2>2
<1>3. busy' \in [Conns -> Runs \union {NoRun}] /\ stream_bytes' \subseteq Runs
    BY <1>1 DEF UnregisterReturns, TypeOK
<1>4. pc' \in [Conns -> {"none", "registering", "serving", "closing",
                         "unregistering", "gone", "rejected"}]
    BY <1>1 DEF UnregisterReturns, TypeOK
<1>5. UNCHANGED <<registered, sending, connectorVars, channelVars>>
    BY DEF UnregisterReturns
<1> QED
    BY <1>2, <1>3, <1>4, <1>5, RegistryStepKeeps

\* POST /v1/runs/{r}/cancel of a run that an executor has
LEMMA CancelForwardedKeeps ==
    ASSUME IInv, NEW r \in Runs, CancelForwarded(r)
    PROVE  IInv'
<1>1. TypeOK
    BY DEF IInv
<1>2. PICK c \in Conns : down' = Deliver(down, c, Message("run.cancel", r))
    BY DEF CancelForwarded
<1>3. /\ Message("run.cancel", r) \in Messages
      /\ Message("run.cancel", r).type # "run.assign"
    BY DEF Message, Messages
<1>4. down' \in [Conns -> Seq(Messages)] /\ AssignsOn(rt, down')
    BY <1>1, <1>2, <1>3, DeliverKeepsAssigns DEF IInv, TypeOK
<1>5. UNCHANGED <<managerVars, connectorVars, link, inbox>>
    BY DEF CancelForwarded
<1>6. TypeOK'
    BY <1>1, <1>4, <1>5 DEF TypeOK, managerVars, connectorVars
<1> QED
    BY <1>4, <1>5, <1>6 DEF IInv, managerVars, connectorVars

\* The steps of register and unregister that leave the runs alone.
LEMMA ConnectionStepKeeps ==
    ASSUME IInv,
           \/ \E d \in Daemons, n \in 1 .. MaxConns : Connect(d, n)
           \/ \E c \in Conns : RegisterRaises(c) \/ Unregister(c) \/ UnregisterRaises(c)
    PROVE  IInv'
<1>1. TypeOK
    BY DEF IInv
<1>2. CASE \E d \in Daemons, n \in 1 .. MaxConns : Connect(d, n)
    <2>1. PICK d \in Daemons, n \in 1 .. MaxConns : Connect(d, n)
        BY <1>2
    <2>2. n \in 0 .. MaxConns
        BY RegistryAssumption, DispatchAssumption
    <2>3. TypeOK'
        BY <1>1, <2>1, <2>2 DEF Connect, TypeOK
    <2> QED
        BY <2>1, <2>3 DEF Connect, IInv
<1>3. CASE \E c \in Conns : RegisterRaises(c) \/ UnregisterRaises(c)
    <2>1. PICK c \in Conns : RegisterRaises(c) \/ UnregisterRaises(c)
        BY <1>3
    <2>2. UNCHANGED <<rt, registered, busy, stream_bytes, sending, connectorVars, down, inbox>>
        BY <2>1 DEF RegisterRaises, UnregisterRaises, channelVars
    <2>3. pc' \in [Conns -> {"none", "registering", "serving", "closing",
                             "unregistering", "gone", "rejected"}]
        BY <1>1, <2>1 DEF RegisterRaises, UnregisterRaises, TypeOK
    <2>4. link' \in [Conns -> {"none", "up", "half", "closed"}]
        BY <1>1, <2>1 DEF RegisterRaises, UnregisterRaises, TypeOK, channelVars
    <2>5. TypeOK'
        BY <1>1, <2>2, <2>3, <2>4 DEF TypeOK, connectorVars
    <2> QED
        BY <2>2, <2>5 DEF IInv, connectorVars
<1>4. CASE \E c \in Conns : Unregister(c)
    <2>1. PICK c \in Conns : Unregister(c)
        BY <1>4
    <2>2. 0 \in 0 .. MaxConns
        BY DispatchAssumption
    <2>3. registered' \in [Daemons -> 0 .. MaxConns]
        BY <1>1, <2>1, <2>2 DEF Unregister, TypeOK
    <2>4. pc' \in [Conns -> {"none", "registering", "serving", "closing",
                             "unregistering", "gone", "rejected"}]
        BY <1>1, <2>1 DEF Unregister, TypeOK
    <2>5. UNCHANGED <<rt, busy, stream_bytes, sending, connectorVars, channelVars>>
        BY <2>1 DEF Unregister
    <2>6. TypeOK'
        BY <1>1, <2>3, <2>4, <2>5 DEF TypeOK, connectorVars, channelVars
    <2> QED
        BY <2>5, <2>6 DEF IInv, connectorVars, channelVars
<1> QED
    BY <1>2, <1>3, <1>4

\* register returns: daemon.welcome, then dispatch_pending.
LEMMA WelcomeKeeps ==
    ASSUME IInv, NEW c \in Conns, Welcome(c)
    PROVE  IInv'
<1> DEFINE channel == Deliver(down, c, Message("daemon.welcome", NoRun))
<1>1. TypeOK /\ rt \in Registry /\ down \in [Conns -> Seq(Messages)]
    BY DEF IInv, TypeOK
<1>2. /\ Message("daemon.welcome", NoRun) \in Messages
      /\ Message("daemon.welcome", NoRun).type # "run.assign"
    BY DEF Message, Messages
<1>3. channel \in [Conns -> Seq(Messages)] /\ AssignsOn(rt, channel)
    BY <1>1, <1>2, DeliverKeepsAssigns DEF IInv
<1>4. DispatchPending(rt, busy, channel, c)
    BY DEF Welcome
<1> HIDE DEF channel
<1>5. /\ rt' \in Registry /\ WellListed(rt')
      /\ sending' \in [Runs -> Sends \union {NotSending}] /\ SendsOn(rt', sending')
      /\ down' \in [Conns -> Seq(Messages)] /\ AssignsOn(rt', down')
      /\ WorkOn(rt', work, work_conn)
    BY <1>1, <1>3, <1>4, DispatchPendingKeeps DEF IInv
<1>6. /\ pc' = [pc EXCEPT ![c] = "serving"]
      /\ UNCHANGED <<registered, busy, stream_bytes, link, inbox, connectorVars>>
    BY DEF Welcome
<1>7. TypeOK'
    BY <1>1, <1>5, <1>6 DEF TypeOK, connectorVars
<1> QED
    BY <1>5, <1>6, <1>7 DEF IInv, connectorVars

\* The session that was busy with a run is no longer.
LEMMA ReleasedTypes ==
    ASSUME TypeOK, NEW c \in Conns, NEW r
    PROVE  Released(c, r) \in [Conns -> Runs \union {NoRun}]
BY DEF TypeOK, Released

\* run.accepted
LEMMA HandleAcceptedKeeps ==
    ASSUME IInv, NEW c \in Conns, NEW r \in Runs, HandleAccepted(c, r)
    PROVE  IInv'
<1> DEFINE marked == MarkRunStarted(rt, r, DaemonOf(c))
           rt1 == StoreRunEvent(marked, r, "run.accepted")
<1>1. TypeOK /\ rt \in Registry /\ DaemonOf(c) \in Daemons
    BY DEF IInv, TypeOK, Conns, DaemonOf
<1>2. Evolves(rt, marked)
    BY <1>1, MarkRunStartedEvolves
<1>3. Evolves(marked, rt1)
    BY <1>2, StoreRunEventEvolves DEF Evolves, LifecycleEvents
<1>4. Evolves(rt, rt1)
    BY <1>1, <1>2, <1>3, EvolvesTransitive
<1>5. /\ rt' = rt1 /\ stream_bytes' = stream_bytes \union {r}
      /\ UNCHANGED <<registered, pc, busy, sending, link, down, connectorVars>>
    BY DEF HandleAccepted
<1> HIDE DEF marked, rt1
<1>6. /\ rt' \in Registry /\ WellListed(rt')
      /\ SendsOn(rt', sending) /\ AssignsOn(rt', down) /\ WorkOn(rt', work, work_conn)
    BY <1>1, <1>4, <1>5, PlacesPersist DEF IInv
<1>7. inbox' \in [Conns -> Seq(Messages)]
    BY <1>1, ReceivesTypes DEF HandleAccepted
<1>8. TypeOK'
    BY <1>1, <1>5, <1>6, <1>7 DEF TypeOK, connectorVars
<1> QED
    BY <1>5, <1>6, <1>8 DEF IInv, connectorVars

\* run.completed and run.failed: the run ends, the next one is dispatched.
LEMMA AnswerKeeps ==
    ASSUME IInv, NEW c \in Conns, NEW r \in Runs, NEW type,
           NEW status \in TERMINAL_RUN_STATUSES, NEW event \in TerminalEvents,
           Receives(c, type, r),
           DispatchPending(StoreRunEvent(MarkRunTerminal(rt, r, status), r, event),
                           Released(c, r), down, c),
           busy' = Released(c, r),
           stream_bytes' = stream_bytes \ {r},
           UNCHANGED <<registered, pc, link, connectorVars>>
    PROVE  IInv'
<1> DEFINE rt1 == StoreRunEvent(MarkRunTerminal(rt, r, status), r, event)
<1>1. TypeOK /\ rt \in Registry /\ down \in [Conns -> Seq(Messages)]
    BY DEF IInv, TypeOK
<1>2. Evolves(rt, rt1)
    BY <1>1, EndedEvolves
<1>3. DispatchPending(rt1, Released(c, r), down, c)
    OBVIOUS
<1> HIDE DEF rt1
<1>4. /\ rt1 \in Registry /\ WellListed(rt1)
      /\ SendsOn(rt1, sending) /\ AssignsOn(rt1, down) /\ WorkOn(rt1, work, work_conn)
    BY <1>1, <1>2, PlacesPersist DEF IInv
<1>5. /\ rt' \in Registry /\ WellListed(rt')
      /\ sending' \in [Runs -> Sends \union {NotSending}] /\ SendsOn(rt', sending')
      /\ down' \in [Conns -> Seq(Messages)] /\ AssignsOn(rt', down')
      /\ WorkOn(rt', work, work_conn)
    BY <1>1, <1>3, <1>4, DispatchPendingKeeps
<1>6. inbox' \in [Conns -> Seq(Messages)]
    BY <1>1, ReceivesTypes
<1>7. busy' \in [Conns -> Runs \union {NoRun}]
    BY <1>1, ReleasedTypes
<1>8. TypeOK'
    BY <1>1, <1>5, <1>6, <1>7 DEF TypeOK, connectorVars
<1> QED
    BY <1>5, <1>8 DEF IInv, connectorVars

\* run.completed
LEMMA HandleCompletedKeeps ==
    ASSUME IInv, NEW c \in Conns, NEW r \in Runs, HandleCompleted(c, r)
    PROVE  IInv'
<1> DEFINE status == IF Head(inbox[c]).cancelled THEN "cancelled" ELSE "completed"
<1>1. status \in TERMINAL_RUN_STATUSES /\ "run.completed" \in TerminalEvents
    BY DEF TERMINAL_RUN_STATUSES, TerminalEvents
<1>2. DispatchPending(StoreRunEvent(MarkRunTerminal(rt, r, status), r, "run.completed"),
                      Released(c, r), down, c)
    BY DEF HandleCompleted
<1> HIDE DEF status
<1> QED
    BY <1>1, <1>2, AnswerKeeps DEF HandleCompleted

\* run.failed
LEMMA HandleFailedKeeps ==
    ASSUME IInv, NEW c \in Conns, NEW r \in Runs, HandleFailed(c, r)
    PROVE  IInv'
<1>1. "failed" \in TERMINAL_RUN_STATUSES /\ "run.error" \in TerminalEvents
    BY DEF TERMINAL_RUN_STATUSES, TerminalEvents
<1> QED
    BY <1>1, AnswerKeeps DEF HandleFailed

\* A message over a byte limit: the run fails and the connection is closed.
LEMMA HandleViolationKeeps ==
    ASSUME IInv, NEW c \in Conns, NEW r \in Runs, HandleViolation(c, r)
    PROVE  IInv'
<1>1. TypeOK /\ rt \in Registry
    BY DEF IInv, TypeOK
<1>2. Evolves(rt, rt')
    BY <1>1, EndedEvolves DEF HandleViolation, TERMINAL_RUN_STATUSES, TerminalEvents
<1>3. UNCHANGED <<registered, sending, down, greeted, work, work_conn>>
    BY DEF HandleViolation
<1>4. /\ rt' \in Registry /\ WellListed(rt')
      /\ SendsOn(rt', sending) /\ AssignsOn(rt', down) /\ WorkOn(rt', work, work_conn)
    BY <1>1, <1>2, PlacesPersist DEF IInv
<1>5. inbox' \in [Conns -> Seq(Messages)]
    BY <1>1, ReceivesTypes DEF HandleViolation
<1>6. busy' \in [Conns -> Runs \union {NoRun}] /\ stream_bytes' \subseteq Runs
    BY <1>1, ReleasedTypes DEF HandleViolation, TypeOK
<1>7. /\ pc' \in [Conns -> {"none", "registering", "serving", "closing",
                            "unregistering", "gone", "rejected"}]
      /\ link' \in [Conns -> {"none", "up", "half", "closed"}]
    BY <1>1 DEF HandleViolation, TypeOK
<1>8. gave_up' \in [Daemons -> BOOLEAN]
    <2>1. (gave_up[DaemonOf(c)] \/ link[c] = "up") \in BOOLEAN
        OBVIOUS
    <2> QED
        BY <1>1, <2>1, Zenon DEF HandleViolation, TypeOK
<1>9. TypeOK'
    BY <1>1, <1>3, <1>4, <1>5, <1>6, <1>7, <1>8 DEF TypeOK
<1> QED
    BY <1>3, <1>4, <1>9 DEF IInv

\* The connection is lost, and the backend notices.
LEMMA DropKeeps ==
    ASSUME IInv, NEW c \in Conns, Drop(c) \/ NoticeDrop(c)
    PROVE  IInv'
<1>1. TypeOK
    BY DEF IInv
<1>2. CASE Drop(c)
    <2>1. /\ link' = [link EXCEPT ![c] = "half"] /\ down' = [down EXCEPT ![c] = <<>>]
          /\ UNCHANGED <<managerVars, connectorVars, inbox>>
        BY <1>2 DEF Drop
    <2>2. down' \in [Conns -> Seq(Messages)]
        BY <1>1, <2>1, EmptySeq DEF TypeOK
    <2>3. AssignsOn(rt, down')
        <3>1. ASSUME NEW k \in Conns, NEW i \in 1 .. Len(down'[k])
              PROVE  k # c /\ down'[k] = down[k]
            BY <1>1, <2>1, <3>1, EmptySeq DEF TypeOK
        <3> QED
            BY <3>1 DEF AssignsOn, IInv
    <2>4. TypeOK'
        BY <1>1, <2>1, <2>2 DEF TypeOK, managerVars, connectorVars
    <2> QED
        BY <2>1, <2>3, <2>4 DEF IInv, managerVars, connectorVars
<1>3. CASE NoticeDrop(c)
    <2>1. /\ link' = [link EXCEPT ![c] = "closed"]
          /\ UNCHANGED <<managerVars, connectorVars, down>>
        BY <1>3 DEF NoticeDrop
    <2>2. PICK k \in 0 .. Len(inbox[c]) : inbox' = [inbox EXCEPT ![c] = SubSeq(inbox[c], 1, k)]
        BY <1>3 DEF NoticeDrop
    <2>3. inbox[c] \in Seq(Messages) /\ Len(inbox[c]) \in Nat
        BY <1>1, LenProperties DEF TypeOK
    <2>4. SubSeq(inbox[c], 1, k) \in Seq(Messages)
        BY <2>2, <2>3, SubSeqProperties
    <2>5. TypeOK'
        BY <1>1, <2>1, <2>2, <2>4 DEF TypeOK, managerVars, connectorVars
    <2> QED
        BY <2>1, <2>5 DEF IInv, managerVars, connectorVars
<1> QED
    BY <1>2, <1>3

\* The connector receives a message: a run.assign was for one of its runs.
LEMMA ConnectorReceivesKeeps ==
    ASSUME IInv, NEW c \in Conns, ConnectorReceives(c)
    PROVE  IInv'
<1> DEFINE m == Head(down[c])
<1>1. TypeOK
    BY DEF IInv
<1>2. /\ down' = [down EXCEPT ![c] = Tail(down[c])]
      /\ greeted' = [greeted EXCEPT ![c] = TRUE]
      /\ UNCHANGED <<managerVars, gave_up, link, inbox>>
    BY DEF ConnectorReceives
<1>3. down[c] \in Seq(Messages) /\ down[c] # <<>>
    BY <1>1 DEF ConnectorReceives, TypeOK
<1>4. /\ Tail(down[c]) \in Seq(Messages)
      /\ Len(Tail(down[c])) = Len(down[c]) - 1
      /\ \A i \in 1 .. Len(Tail(down[c])) : Tail(down[c])[i] = down[c][i + 1]
      /\ m = down[c][1] /\ Len(down[c]) \in Nat /\ Len(down[c]) >= 1
    BY <1>3, HeadTailProperties, EmptySeq, LenProperties
<1>5. down' \in [Conns -> Seq(Messages)]
    BY <1>1, <1>2, <1>4 DEF TypeOK
<1>6. AssignsOn(rt, down')
    <2>1. ASSUME NEW k \in Conns, NEW i \in 1 .. Len(down'[k]),
                 down'[k][i].type = "run.assign"
          PROVE  down'[k][i].run \in Runs /\ On(rt, down'[k][i].run, k)
        <3>1. CASE k # c
            <4>1. down'[k] = down[k]
                BY <1>1, <1>2, <3>1 DEF TypeOK
            <4> QED
                BY <2>1, <4>1 DEF AssignsOn, IInv
        <3>2. CASE k = c
            <4>1. down'[k] = Tail(down[c])
                BY <1>1, <1>2, <3>2 DEF TypeOK
            <4>2. i + 1 \in 1 .. Len(down[c])
                BY <1>4, <2>1, <4>1
            <4>3. down'[k][i] = down[c][i + 1]
                BY <1>4, <2>1, <4>1
            <4> QED
                BY <2>1, <3>2, <4>2, <4>3 DEF AssignsOn, IInv
        <3> QED
            BY <3>1, <3>2
    <2> QED
        BY <2>1 DEF AssignsOn
<1>7. /\ work' \in [Runs -> {"none", "waiting", "active", "cancelling", "done"}]
      /\ work_conn' \in [Runs -> Conns \union {NoConn}]
      /\ WorkOn(rt, work', work_conn')
    <2>1. CASE /\ m.type = "run.assign"
               /\ work' = [work EXCEPT ![m.run] = "waiting"]
               /\ work_conn' = [work_conn EXCEPT ![m.run] = c]
        <3>1. 1 \in 1 .. Len(down[c])
            BY <1>4
        <3>2. m.run \in Runs /\ On(rt, m.run, c)
            BY <1>4, <2>1, <3>1 DEF AssignsOn, IInv
        <3>3. /\ work' \in [Runs -> {"none", "waiting", "active", "cancelling", "done"}]
              /\ work_conn' \in [Runs -> Conns \union {NoConn}]
            BY <1>1, <2>1, <3>2 DEF TypeOK
        <3>4. \A q \in Runs : q # m.run => work'[q] = work[q] /\ work_conn'[q] = work_conn[q]
            BY <1>1, <2>1 DEF TypeOK
        <3>5. work_conn'[m.run] = c
            BY <1>1, <2>1, <3>2 DEF TypeOK
        <3> QED
            BY <3>2, <3>3, <3>4, <3>5 DEF WorkOn, IInv
    <2>2. CASE /\ work' = IF work[m.run] = "active" /\ work_conn[m.run] = c
                          THEN [work EXCEPT ![m.run] = "cancelling"] ELSE work
               /\ UNCHANGED work_conn
        <3>1. work' \in [Runs -> {"none", "waiting", "active", "cancelling", "done"}]
            BY <1>1, <2>2 DEF TypeOK
        <3>2. \A q \in Runs : work'[q] # "none" => work[q] # "none"
            BY <1>1, <2>2 DEF TypeOK
        <3> QED
            BY <1>1, <2>2, <3>1, <3>2 DEF WorkOn, IInv, TypeOK
    <2>3. CASE UNCHANGED <<work, work_conn>>
        BY <1>1, <2>3 DEF WorkOn, IInv, TypeOK
    <2> QED
        BY <2>1, <2>2, <2>3 DEF ConnectorReceives
<1>8. TypeOK'
    BY <1>1, <1>2, <1>5, <1>7 DEF TypeOK, managerVars
<1> QED
    BY <1>2, <1>6, <1>7, <1>8 DEF IInv, managerVars

\* The connector starts, refuses and finishes a run.
LEMMA ConnectorStepKeeps ==
    ASSUME IInv, NEW r \in Runs,
           ConnectorAccepts(r) \/ ConnectorSetupFails(r) \/ ConnectorFinishes(r)
    PROVE  IInv'
<1>1. TypeOK
    BY DEF IInv
<1>2. /\ Message("run.accepted", r) \in Messages
      /\ Message("run.failed", r) \in Messages
      /\ [Message("run.completed", r) EXCEPT !.cancelled = (work[r] = "cancelling")] \in Messages
    <2>1. (work[r] = "cancelling") \in BOOLEAN
        OBVIOUS
    <2> QED
        BY <2>1 DEF Message, Messages
<1>3. inbox' \in [Conns -> Seq(Messages)]
    BY <1>1, <1>2, ReplyTypes DEF ConnectorAccepts, ConnectorSetupFails, ConnectorFinishes
<1>4. UNCHANGED <<managerVars, greeted, work_conn, gave_up, link, down>>
    BY DEF ConnectorAccepts, ConnectorSetupFails, ConnectorFinishes
<1>5. \E step \in {"active", "done"} : work' = [work EXCEPT ![r] = step]
    BY DEF ConnectorAccepts, ConnectorSetupFails, ConnectorFinishes
<1>6. work[r] # "none"
    BY DEF ConnectorAccepts, ConnectorSetupFails, ConnectorFinishes, Prompting
<1>7. work' \in [Runs -> {"none", "waiting", "active", "cancelling", "done"}]
    BY <1>1, <1>5 DEF TypeOK
<1>8. WorkOn(rt, work', work_conn)
    BY <1>1, <1>5, <1>6 DEF WorkOn, IInv, TypeOK
<1>9. TypeOK'
    BY <1>1, <1>3, <1>4, <1>7 DEF TypeOK, managerVars
<1> QED
    BY <1>4, <1>8, <1>9 DEF IInv, managerVars
-----------------------------------------------------------------------------
(* The theorems.                                                             *)

\* The initial state satisfies the invariant.
LEMMA InitIInv ==
    ASSUME Init
    PROVE  IInv
<1>1. rt = EmptyRegistry
    BY DEF Init
<1>2. EmptyRegistry \in Registry
    <2>1. 0 \in 0 .. MaxRuns /\ 0 \in Nat
        BY RegistryAssumption
    <2> QED
        BY <2>1, EmptySeq DEF EmptyRegistry, Registry, Statuses
<1>3. TypeOK
    <2>1. 0 \in 0 .. MaxConns
        BY DispatchAssumption
    <2>2. /\ registered \in [Daemons -> 0 .. MaxConns]
          /\ pc \in [Conns -> {"none", "registering", "serving", "closing",
                               "unregistering", "gone", "rejected"}]
          /\ busy \in [Conns -> Runs \union {NoRun}]
          /\ stream_bytes \subseteq Runs
          /\ sending \in [Runs -> Sends \union {NotSending}]
          /\ link \in [Conns -> {"none", "up", "half", "closed"}]
        BY <2>1 DEF Init
    <2>3. down \in [Conns -> Seq(Messages)] /\ inbox \in [Conns -> Seq(Messages)]
        BY EmptySeq DEF Init
    <2>4. /\ greeted \in [Conns -> BOOLEAN]
          /\ work \in [Runs -> {"none", "waiting", "active", "cancelling", "done"}]
          /\ work_conn \in [Runs -> Conns \union {NoConn}]
          /\ gave_up \in [Daemons -> BOOLEAN]
        BY DEF Init
    <2> QED
        BY <1>1, <1>2, <2>2, <2>3, <2>4 DEF TypeOK
<1>4. WellListed(rt)
    BY <1>1 DEF WellListed, EmptyRegistry
<1>5. SendsOn(rt, sending) /\ WorkOn(rt, work, work_conn)
    BY DEF Init, SendsOn, WorkOn
<1>6. AssignsOn(rt, down)
    <2>1. \A c \in Conns : Len(down[c]) = 0
        BY EmptySeq DEF Init
    <2> QED
        BY <2>1 DEF AssignsOn
<1> QED
    BY <1>3, <1>4, <1>5, <1>6 DEF IInv

\* Every step keeps it.
LEMMA NextKeepsIInv ==
    ASSUME IInv, [Next]_vars
    PROVE  IInv'
<1>1. CASE UNCHANGED vars
    <2>1. TypeOK'
        BY <1>1 DEF IInv, TypeOK, vars, managerVars, connectorVars, channelVars
    <2> QED
        BY <1>1, <2>1 DEF IInv, vars, managerVars, connectorVars, channelVars
<1>2. CASE \E r \in Runs : SendReturns(r) \/ SendRaises(r)
    BY <1>2, SendReturnsKeeps, SendRaisesKeeps
<1>3. CASE \E s \in Sessions : SendMessage(s)
    BY <1>3, SendMessageKeeps
<1>4. CASE \E r \in Runs : CancelQueued(r) \/ CancelForwarded(r)
    BY <1>4, CancelQueuedKeeps, CancelForwardedKeeps
<1>5. CASE \E cutoff \in 1 .. rt.clock : CleanupRuns(cutoff)
    BY <1>5, CleanupRunsKeeps
<1>6. CASE \/ \E d \in Daemons, n \in 1 .. MaxConns : Connect(d, n)
           \/ \E c \in Conns : RegisterRaises(c) \/ Unregister(c) \/ UnregisterRaises(c)
    BY <1>6, ConnectionStepKeeps
<1>7. CASE \E c \in Conns : Welcome(c) \/ UnregisterReturns(c)
    BY <1>7, WelcomeKeeps, UnregisterReturnsKeeps
<1>8. CASE \E c \in Conns, r \in Runs :
              \/ HandleAccepted(c, r) \/ HandleCompleted(c, r)
              \/ HandleFailed(c, r) \/ HandleViolation(c, r)
    BY <1>8, HandleAcceptedKeeps, HandleCompletedKeeps, HandleFailedKeeps, HandleViolationKeeps
<1>9. CASE \E c \in Conns : Drop(c) \/ NoticeDrop(c) \/ ConnectorReceives(c)
    BY <1>9, DropKeeps, ConnectorReceivesKeeps
<1>10. CASE \E r \in Runs : ConnectorAccepts(r) \/ ConnectorSetupFails(r) \/ ConnectorFinishes(r)
    BY <1>10, ConnectorStepKeeps
<1> QED
    BY <1>1, <1>2, <1>3, <1>4, <1>5, <1>6, <1>7, <1>8, <1>9, <1>10 DEF Next

\* The invariant holds in every reachable state.
THEOREM InductiveInvariant == Spec => []IInv
<1>1. Init => IInv
    BY InitIInv
<1>2. IInv /\ [Next]_vars => IInv'
    BY NextKeepsIInv
<1> QED
    BY <1>1, <1>2, PTL DEF Spec

\* Every variable of the backend, the network and the connectors has its type.
THEOREM TypeCorrect == Spec => []TypeOK
<1>1. IInv => TypeOK
    BY DEF IInv
<1> QED
    BY <1>1, InductiveInvariant, PTL

\* No queued run is lost from _queued_runs, and none that was handed out is
\* still on it: claim_next_queued_run gives every run out at most once.
THEOREM QueueIsExact == Spec => []QueuedRunsWait
<1>1. IInv => QueuedRunsWait
    BY DEF IInv, QueuedRunsWait, WellListed, SendsOn, WorkOn, On, Suspended
<1> QED
    BY <1>1, InductiveInvariant, PTL

\* A run reaches no daemon but the one its session lives on, even when the send
\* suspends and the run is removed, or its message is still under way.
THEOREM RunsStayOnTheirDaemon == Spec => []OwnDaemonOnly
<1>1. IInv => OwnDaemonOnly
    BY DEF IInv, OwnDaemonOnly, SendsOn, WorkOn, On, Suspended
<1> QED
    BY <1>1, InductiveInvariant, PTL

\* The connection of a daemon that is being served is the registered one, so what
\* unregister takes out of _daemons is never the session of another connection.
THEOREM ServedConnectionIsRegistered == Spec => []ServedIsRegistered
<1>1. Init => ServedIsRegistered
    BY DEF Init, ServedIsRegistered
<1>2. ASSUME IInv, ServedIsRegistered, [Next]_vars
      PROVE  ServedIsRegistered'
    <2>1. /\ pc \in [Conns -> {"none", "registering", "serving", "closing",
                               "unregistering", "gone", "rejected"}]
          /\ registered \in [Daemons -> 0 .. MaxConns]
          /\ \A c \in Conns : DaemonOf(c) \in Daemons /\ c[2] \in 1 .. MaxConns
                              /\ c = <<DaemonOf(c), c[2]>>
        BY <1>2 DEF IInv, TypeOK, Conns, DaemonOf
    <2>2. CASE UNCHANGED <<registered, pc>>
        BY <1>2, <2>2 DEF ServedIsRegistered
    <2>3. CASE \E d \in Daemons, n \in 1 .. MaxConns : Connect(d, n)
        <3>1. PICK d \in Daemons, n \in 1 .. MaxConns : Connect(d, n)
            BY <2>3
        <3>2. <<d, n>> \in Conns /\ DaemonOf(<<d, n>>) = d /\ <<d, n>>[2] = n /\ n # 0
            BY DispatchAssumption DEF Conns, DaemonOf
        <3>3. CASE registered[d] # 0
            BY <1>2, <2>1, <3>1, <3>3 DEF Connect, ServedIsRegistered
        <3>4. CASE registered[d] = 0
            <4>1. /\ registered' = [registered EXCEPT ![d] = n]
                  /\ pc' = [pc EXCEPT ![<<d, n>>] = "registering"]
                BY <3>1, <3>4 DEF Connect
            <4>2. ASSUME NEW c \in Conns, pc'[c] \in {"registering", "serving", "closing"}
                  PROVE  registered'[DaemonOf(c)] = c[2]
                <5>1. CASE c = <<d, n>>
                    BY <2>1, <3>2, <4>1, <5>1
                <5>2. CASE c # <<d, n>>
                    <6>1. registered[DaemonOf(c)] = c[2]
                        BY <1>2, <2>1, <4>1, <4>2, <5>2 DEF ServedIsRegistered
                    <6>2. c[2] # 0
                        BY <2>1, DispatchAssumption
                    <6>3. DaemonOf(c) # d
                        BY <3>4, <6>1, <6>2
                    <6> QED
                        BY <2>1, <4>1, <6>1, <6>3
                <5> QED
                    BY <5>1, <5>2
            <4> QED
                BY <4>2 DEF ServedIsRegistered
        <3> QED
            BY <3>3, <3>4
    <2>4. CASE \E c \in Conns : Unregister(c)
        <3>1. PICK c \in Conns : Unregister(c)
            BY <2>4
        <3>2. /\ pc[c] \in {"serving", "closing"}
              /\ registered' = [registered EXCEPT ![DaemonOf(c)] = 0]
              /\ pc' = [pc EXCEPT ![c] = "unregistering"]
            BY <3>1 DEF Unregister
        <3>3. ASSUME NEW k \in Conns, pc'[k] \in {"registering", "serving", "closing"}
              PROVE  registered'[DaemonOf(k)] = k[2]
            <4>1. k # c
                BY <2>1, <3>2, <3>3
            <4>2. pc[k] \in {"registering", "serving", "closing"}
                BY <2>1, <3>2, <3>3, <4>1
            <4>3. registered[DaemonOf(k)] = k[2] /\ registered[DaemonOf(c)] = c[2]
                BY <1>2, <3>2, <4>2 DEF ServedIsRegistered
            <4>4. DaemonOf(k) # DaemonOf(c)
                BY <2>1, <4>1, <4>3
            <4> QED
                BY <2>1, <3>2, <4>3, <4>4
        <3> QED
            BY <3>3 DEF ServedIsRegistered
    <2>5. CASE \E c \in Conns :
                  /\ UNCHANGED registered
                  /\ \/ /\ pc[c] \in {"registering", "serving"}
                        /\ \E next \in {"serving", "closing"} : pc' = [pc EXCEPT ![c] = next]
                     \/ pc' = [pc EXCEPT ![c] = "gone"]
        <3>1. \A c \in Conns : pc'[c] \in {"registering", "serving", "closing"} =>
                  pc[c] \in {"registering", "serving", "closing"}
            BY <2>1, <2>5
        <3> QED
            BY <1>2, <2>5, <3>1 DEF ServedIsRegistered
    <2>6. CASE \E r \in Runs : SendReturns(r) \/ SendRaises(r)
        BY <2>2, <2>6 DEF SendReturns, SendRaises
    <2>7. CASE \/ \E s \in Sessions : SendMessage(s)
               \/ \E r \in Runs : CancelQueued(r) \/ CancelForwarded(r)
               \/ \E cutoff \in 1 .. rt.clock : CleanupRuns(cutoff)
        BY <2>2, <2>7 DEF SendMessage, CancelQueued, CancelForwarded, CleanupRuns, managerVars
    <2>8. CASE \E c \in Conns : \/ Welcome(c) \/ RegisterRaises(c)
                               \/ UnregisterReturns(c) \/ UnregisterRaises(c)
        BY <2>5, <2>8 DEF Welcome, RegisterRaises, UnregisterReturns, UnregisterRaises
    <2>9. CASE \E c \in Conns, r \in Runs :
                  HandleAccepted(c, r) \/ HandleCompleted(c, r) \/ HandleFailed(c, r)
        BY <2>2, <2>9 DEF HandleAccepted, HandleCompleted, HandleFailed
    <2>10. CASE \E c \in Conns, r \in Runs : HandleViolation(c, r)
        BY <2>5, <2>10 DEF HandleViolation, Receives
    <2>11. CASE \/ \E c \in Conns : Drop(c) \/ NoticeDrop(c) \/ ConnectorReceives(c)
                \/ \E r \in Runs : ConnectorAccepts(r) \/ ConnectorSetupFails(r)
                                   \/ ConnectorFinishes(r)
        BY <2>2, <2>11 DEF Drop, NoticeDrop, ConnectorReceives, ConnectorAccepts,
           ConnectorSetupFails, ConnectorFinishes, managerVars
    <2>12. CASE UNCHANGED vars
        BY <2>2, <2>12 DEF vars, managerVars
    <2> QED
        BY <1>2, <2>3, <2>4, <2>6, <2>7, <2>8, <2>9, <2>10, <2>11, <2>12 DEF Next
<1>3. IInv /\ ServedIsRegistered /\ [Next]_vars => ServedIsRegistered'
    BY <1>2
<1> QED
    BY <1>1, <1>3, InductiveInvariant, PTL DEF Spec
-----------------------------------------------------------------------------
(* The registry by itself: what its operations keep, whoever calls them.     *)

\* No two ended runs ended at the same time, and a session keeps few of them.
EndedInv(reg) ==
    /\ \A r \in Runs : Terminal(reg, r) => reg.ended[r] <= reg.clock
    /\ \A q, r \in Runs :
          Terminal(reg, q) /\ Terminal(reg, r) /\ reg.ended[q] = reg.ended[r] => q = r
    /\ \A s \in Sessions : Cardinality(TerminalRunsOf(reg, s)) <= MaxLocalRuns

\* A session shown as active has an active run.
ShownInv(reg) ==
    \A s \in Sessions : reg.session_status[s] # "idle" =>
        \E r \in Runs : reg.session[r] = s /\ Active(reg, r)

\* Only runs that were created are there.
RegistryInv(reg) ==
    /\ \A r \in Runs : Present(reg, r) => r <= reg.created
    /\ EndedInv(reg)
    /\ ShownInv(reg)

\* A set of numbers that is not empty has a least element.
LEMMA LeastElement ==
    ASSUME NEW T, T \subseteq Nat, T # {}
    PROVE  \E m \in T : \A n \in T : m <= n
<1> DEFINE R == {ss \in Nat \X Nat : ss[1] < ss[2]}
<1>1. IsWellFoundedOn(R, Nat)
    BY NatLessThanWellFounded DEF OpToRel
<1> HIDE DEF R
<1>2. PICK m \in T : \A n \in T : ~ (<<n, m>> \in R)
    BY <1>1, WFMin
<1>3. \A k, n \in Nat : n < k => <<n, k>> \in R
    BY DEF R
<1>4. \A n \in T : ~ (n < m)
    BY <1>2, <1>3
<1> QED
    BY <1>4

\* There are finitely many runs, so sets of them can be counted.
LEMMA RunsAreFinite ==
    ASSUME NEW S \in SUBSET Runs
    PROVE  IsFiniteSet(S) /\ Cardinality(S) \in Nat
<1>1. 1 \in Int /\ MaxRuns \in Int
    BY RegistryAssumption
<1>2. IsFiniteSet(Runs)
    BY <1>1, FS_Interval DEF Runs
<1>3. IsFiniteSet(S)
    BY <1>2, FS_Subset
<1> QED
    BY <1>3, FS_CardinalityType

\* A part of a small set of runs is small.
LEMMA FewerRuns ==
    ASSUME NEW S \in SUBSET Runs, NEW T \in SUBSET S, NEW n \in Nat, Cardinality(S) <= n
    PROVE  Cardinality(T) <= n
<1>1. T \in SUBSET Runs
    OBVIOUS
<1>2. IsFiniteSet(S) /\ Cardinality(S) \in Nat /\ Cardinality(T) \in Nat
    BY <1>1, RunsAreFinite
<1>3. Cardinality(T) <= Cardinality(S)
    BY <1>2, FS_Subset
<1> QED
    BY <1>2, <1>3

\* What pruning leaves of the ended runs of a session.
LEMMA KeptAreFew ==
    ASSUME NEW reg \in Registry, NEW s,
           \A q, r \in TerminalRunsOf(reg, s) : reg.ended[q] = reg.ended[r] => q = r
    PROVE  Cardinality(TerminalRunsOf(reg, s) \ Excess(reg, s)) <= MaxLocalRuns
<1> DEFINE T == TerminalRunsOf(reg, s)
           K == T \ Excess(reg, s)
           Above(r) == {q \in T : reg.ended[q] > reg.ended[r]}
<1>1. T \subseteq Runs /\ K \subseteq T /\ \A r \in T : reg.ended[r] \in Nat
    BY RegistryFields DEF TerminalRunsOf
<1>2. MaxLocalRuns \in Nat /\ MaxLocalRuns # 0
    BY RegistryAssumption
<1>3. \A r \in K : ~(Cardinality(Above(r)) >= MaxLocalRuns)
    BY DEF Excess
<1> HIDE DEF T, K
<1>4. CASE K = {}
    BY <1>2, <1>4, FS_EmptySet DEF K, T
<1>5. CASE K # {}
    <2> DEFINE times == {reg.ended[r] : r \in K}
    <2>1. times \subseteq Nat /\ times # {}
        BY <1>1, <1>5
    <2>2. PICK m \in times : \A n \in times : m <= n
        BY <2>1, LeastElement
    <2>3. PICK r \in K : reg.ended[r] = m
        BY <2>2
    <2>4. \A q \in K : reg.ended[q] \in times /\ reg.ended[q] \in Nat /\ m \in Nat
        BY <1>1, <2>1, <2>2
    <2> HIDE DEF times
    <2>5. ASSUME NEW q \in K \ {r} PROVE q \in Above(r)
        <3>1. m <= reg.ended[q]
            BY <2>2, <2>4
        <3>2. reg.ended[q] # reg.ended[r]
            BY <1>1 DEF T
        <3>3. reg.ended[q] > reg.ended[r]
            BY <2>3, <2>4, <3>1, <3>2
        <3> QED
            BY <1>1, <3>3
    <2>6. K \in SUBSET Runs /\ Above(r) \in SUBSET Runs /\ K \ {r} \in SUBSET Above(r)
        BY <1>1, <2>5
    <2>7. /\ Cardinality(Above(r)) \in Nat /\ IsFiniteSet(Above(r))
          /\ Cardinality(K) \in Nat /\ IsFiniteSet(K)
        BY <2>6, RunsAreFinite
    <2>8. Cardinality(K \ {r}) <= Cardinality(Above(r))
        BY <2>6, <2>7, FS_Subset
    <2>9. Cardinality(K \ {r}) = Cardinality(K) - 1
        BY <2>3, <2>7, FS_RemoveElement
    <2>10. ~(Cardinality(Above(r)) >= MaxLocalRuns)
        BY <1>3, <2>3
    <2> HIDE DEF Above
    <2>11. Cardinality(K) <= MaxLocalRuns
        BY <1>2, <2>7, <2>8, <2>9, <2>10
    <2> QED
        BY <2>11 DEF K, T
<1> QED
    BY <1>4, <1>5

\* Runs that have ended stay so or are removed, and no time is taken back.
LEMMA EndedInvFrame ==
    ASSUME NEW a \in Registry, NEW b \in Registry, EndedInv(a), a.clock <= b.clock,
           \A r \in Runs : Terminal(b, r) =>
              Terminal(a, r) /\ b.ended[r] = a.ended[r] /\ b.session[r] = a.session[r]
    PROVE  EndedInv(b)
<1>1. \A r \in Runs : Terminal(b, r) => b.ended[r] <= b.clock
    BY RegistryFields DEF EndedInv
<1>2. \A q, r \in Runs : Terminal(b, q) /\ Terminal(b, r) /\ b.ended[q] = b.ended[r] => q = r
    BY DEF EndedInv
<1>3. ASSUME NEW s \in Sessions PROVE Cardinality(TerminalRunsOf(b, s)) <= MaxLocalRuns
    <2>1. TerminalRunsOf(b, s) \subseteq TerminalRunsOf(a, s) /\ TerminalRunsOf(a, s) \subseteq Runs
        BY DEF TerminalRunsOf
    <2>2. Cardinality(TerminalRunsOf(a, s)) <= MaxLocalRuns /\ MaxLocalRuns \in Nat
        BY RegistryAssumption DEF EndedInv
    <2> QED
        BY <2>1, <2>2, FewerRuns
<1> QED
    BY <1>1, <1>2, <1>3 DEF EndedInv

\* What _remove_run_locked leaves, when the runs it removes have ended.
LEMMA RemovedRuns ==
    ASSUME NEW reg \in Registry, NEW S, \A r \in Runs \cap S : Terminal(reg, r)
    PROVE  LET after == RemoveRuns(reg, S) IN
           /\ after.created = reg.created /\ after.clock = reg.clock
           /\ after.session_status = reg.session_status
           /\ after.queued_runs = reg.queued_runs \ S
           /\ \A r \in Runs \ S :
                 /\ after.status[r] = reg.status[r] /\ after.session[r] = reg.session[r]
                 /\ after.executor[r] = reg.executor[r] /\ after.ended[r] = reg.ended[r]
                 /\ after.run_events[r] = reg.run_events[r]
           /\ \A r \in Runs \cap S : after.status[r] = "absent" /\ after.run_events[r] = <<>>
           /\ RegistryInv(reg) => RegistryInv(after)
<1> DEFINE after == RemoveRuns(reg, S)
<1>1. /\ after.created = reg.created /\ after.clock = reg.clock
      /\ after.session_status = reg.session_status
      /\ after.queued_runs = reg.queued_runs \ S
      /\ \A r \in Runs \ S :
            /\ after.status[r] = reg.status[r] /\ after.session[r] = reg.session[r]
            /\ after.executor[r] = reg.executor[r] /\ after.ended[r] = reg.ended[r]
            /\ after.run_events[r] = reg.run_events[r]
      /\ \A r \in Runs \cap S : after.status[r] = "absent" /\ after.run_events[r] = <<>>
    BY DEF RemoveRuns, Registry
<1>2. after \in Registry
    BY RemoveRunsEvolves DEF Evolves
<1> HIDE DEF after
<1>3. ASSUME RegistryInv(reg) PROVE RegistryInv(after)
    <2>1. "absent" \notin TERMINAL_RUN_STATUSES /\ "absent" \notin ACTIVE_RUN_STATUSES
          /\ TERMINAL_RUN_STATUSES \cap ACTIVE_RUN_STATUSES = {}
        BY DEF TERMINAL_RUN_STATUSES, ACTIVE_RUN_STATUSES
    <2>2. EndedInv(after)
        <3>1. after.clock \in Nat /\ reg.clock <= after.clock
            BY <1>1, RegistryFields
        <3>2. \A r \in Runs : Terminal(after, r) =>
                  Terminal(reg, r) /\ after.ended[r] = reg.ended[r] /\ after.session[r] = reg.session[r]
            BY <1>1, <2>1 DEF Terminal
        <3> QED
            BY <1>2, <1>3, <3>1, <3>2, EndedInvFrame DEF RegistryInv
    <2>3. ASSUME NEW s \in Sessions, after.session_status[s] # "idle"
          PROVE  \E r \in Runs : after.session[r] = s /\ Active(after, r)
        <3>1. PICK r \in Runs : reg.session[r] = s /\ Active(reg, r)
            BY <1>1, <1>3, <2>3 DEF RegistryInv, ShownInv
        <3>2. r \notin S
            BY <2>1, <3>1 DEF Active, Terminal
        <3> QED
            BY <1>1, <3>1, <3>2 DEF Active
    <2>4. \A r \in Runs : Present(after, r) => r <= after.created
        BY <1>1, <1>3 DEF RegistryInv, Present
    <2> QED
        BY <2>2, <2>3, <2>4 DEF RegistryInv, ShownInv
<1> QED
    BY <1>1, <1>3 DEF after

\* Nothing that RegistryInv is about changes when an event is stored.
LEMMA StoredEvent ==
    ASSUME NEW reg \in Registry, NEW r \in Runs, NEW type
    PROVE  LET after == StoreRunEvent(reg, r, type) IN
           /\ after.created = reg.created /\ after.clock = reg.clock
           /\ after.session_status = reg.session_status /\ after.queued_runs = reg.queued_runs
           /\ after.status = reg.status /\ after.session = reg.session
           /\ after.executor = reg.executor /\ after.ended = reg.ended
           /\ after.run_events[r] = Append(reg.run_events[r], type)
           /\ \A q \in Runs \ {r} : after.run_events[q] = reg.run_events[q]
           /\ RegistryInv(reg) => RegistryInv(after)
<1> DEFINE after == StoreRunEvent(reg, r, type)
<1>1. /\ after.created = reg.created /\ after.clock = reg.clock
      /\ after.session_status = reg.session_status /\ after.queued_runs = reg.queued_runs
      /\ after.status = reg.status /\ after.session = reg.session
      /\ after.executor = reg.executor /\ after.ended = reg.ended
    BY DEF StoreRunEvent, Registry
<1>2. after.run_events = [reg.run_events EXCEPT ![r] = Append(reg.run_events[r], type)]
    BY DEF StoreRunEvent, Registry
<1>3. reg.run_events \in [Runs -> Seq(LifecycleEvents)]
    BY RegistryFields
<1> HIDE DEF after
<1>4. RegistryInv(reg) => RegistryInv(after)
    <2>1. \A s : TerminalRunsOf(after, s) = TerminalRunsOf(reg, s)
        BY <1>1 DEF TerminalRunsOf, Terminal
    <2>2. EndedInv(reg) => EndedInv(after)
        BY <1>1, <2>1 DEF EndedInv, Terminal
    <2>3. ShownInv(reg) => ShownInv(after)
        BY <1>1 DEF ShownInv, Active
    <2> QED
        BY <1>1, <2>2, <2>3 DEF RegistryInv, Present
<1>5. /\ after.run_events[r] = Append(reg.run_events[r], type)
      /\ \A q \in Runs \ {r} : after.run_events[q] = reg.run_events[q]
    BY <1>2, <1>3
<1> QED
    BY <1>1, <1>4, <1>5 DEF after

\* mark_run_assigned and mark_run_started of a run that is there.
LEMMA MarkedRun ==
    ASSUME NEW reg \in Registry, NEW r \in Runs, Present(reg, r), NEW d \in Daemons,
           NEW status \in {"assigned", "running"},
           NEW after \in Registry,
           after.created = reg.created, after.session = reg.session, after.clock = reg.clock,
           after.queued_runs = reg.queued_runs, after.run_events = reg.run_events,
           after.status = [reg.status EXCEPT ![r] = status],
           after.executor = [reg.executor EXCEPT ![r] = d],
           after.ended = [reg.ended EXCEPT ![r] = 0],
           after.session_status = [reg.session_status EXCEPT ![reg.session[r]] = status]
    PROVE  RegistryInv(reg) => RegistryInv(after)
<1>1. /\ after.created = reg.created /\ after.session = reg.session /\ after.clock = reg.clock
      /\ after.queued_runs = reg.queued_runs /\ after.run_events = reg.run_events
      /\ after.status = [reg.status EXCEPT ![r] = status]
      /\ after.executor = [reg.executor EXCEPT ![r] = d]
      /\ after.ended = [reg.ended EXCEPT ![r] = 0]
      /\ after.session_status = [reg.session_status EXCEPT ![reg.session[r]] = status]
    OBVIOUS
<1>2. status \notin TERMINAL_RUN_STATUSES /\ status \in ACTIVE_RUN_STATUSES
    BY DEF TERMINAL_RUN_STATUSES, ACTIVE_RUN_STATUSES
<1>3. \A q \in Runs : after.status[q] = IF q = r THEN status ELSE reg.status[q]
    BY <1>1, RegistryFields
<1>4. ASSUME RegistryInv(reg) PROVE RegistryInv(after)
    <2>1. EndedInv(after)
        <3>1. reg.clock <= after.clock
            BY <1>1, RegistryFields
        <3>2. \A q \in Runs : Terminal(after, q) => Terminal(reg, q) /\ q # r
            BY <1>2, <1>3 DEF Terminal
        <3>3. \A q \in Runs : q # r => after.ended[q] = reg.ended[q]
            BY <1>1, RegistryFields
        <3>4. \A q \in Runs : Terminal(after, q) =>
                  /\ Terminal(reg, q) /\ after.ended[q] = reg.ended[q]
                  /\ after.session[q] = reg.session[q]
            BY <1>1, <3>2, <3>3
        <3>5. EndedInv(reg)
            BY <1>4 DEF RegistryInv
        <3> QED
            BY <3>1, <3>4, <3>5, EndedInvFrame
    <2>2. ASSUME NEW s \in Sessions, after.session_status[s] # "idle"
          PROVE  \E q \in Runs : after.session[q] = s /\ Active(after, q)
        <3>1. CASE s = reg.session[r]
            BY <1>1, <1>2, <1>3, <3>1 DEF Active
        <3>2. CASE s # reg.session[r]
            <4>1. reg.session_status[s] # "idle"
                BY <1>1, <2>2, <3>2, RegistryFields
            <4>2. PICK q \in Runs : reg.session[q] = s /\ Active(reg, q)
                BY <1>4, <4>1 DEF RegistryInv, ShownInv
            <4> QED
                BY <1>1, <1>3, <3>2, <4>2 DEF Active
        <3> QED
            BY <3>1, <3>2
    <2>3. \A q \in Runs : Present(after, q) => q <= after.created
        BY <1>1, <1>3, <1>4 DEF RegistryInv, Present
    <2> QED
        BY <2>1, <2>2, <2>3 DEF RegistryInv, ShownInv
<1> QED
    BY <1>1, <1>4

\* mark_run_completed, _failed, _cancelled and _executor_disconnected of a run that
\* is there: it stays, with the new status, and ended runs of its session may go.
LEMMA EndedRun ==
    ASSUME NEW reg \in Registry, NEW r \in Runs, Present(reg, r), RegistryInv(reg),
           NEW status \in TERMINAL_RUN_STATUSES
    PROVE  LET after == MarkRunTerminal(reg, r, status) IN
           /\ after.created = reg.created /\ after.queued_runs \subseteq reg.queued_runs
           /\ after.status[r] = status /\ after.run_events[r] = reg.run_events[r]
           /\ \A q \in Runs \ {r} :
                 \/ /\ after.status[q] = reg.status[q] /\ after.session[q] = reg.session[q]
                    /\ after.executor[q] = reg.executor[q]
                    /\ after.run_events[q] = reg.run_events[q]
                 \/ /\ Terminal(reg, q)
                    /\ after.status[q] = "absent" /\ after.run_events[q] = <<>>
           /\ RegistryInv(after)
<1> DEFINE marked == [reg EXCEPT !.status[r] = status,
                                 !.ended[r] = reg.clock + 1,
                                 !.clock = @ + 1,
                                 !.session_status[reg.session[r]] = "idle"]
           z == reg.session[r]
           gone == Excess(marked, z)
           after == RemoveRuns(marked, gone)
<1>1. MarkRunTerminal(reg, r, status) = after
    BY DEF MarkRunTerminal, PruneSession
<1>2. /\ marked.created = reg.created /\ marked.session = reg.session
      /\ marked.queued_runs = reg.queued_runs /\ marked.run_events = reg.run_events
      /\ marked.executor = reg.executor /\ marked.clock = reg.clock + 1
      /\ marked.status = [reg.status EXCEPT ![r] = status]
      /\ marked.ended = [reg.ended EXCEPT ![r] = reg.clock + 1]
      /\ marked.session_status = [reg.session_status EXCEPT ![z] = "idle"]
    BY DEF Registry
<1>3. marked \in Registry
    <2>1. [reg.status EXCEPT ![r] = status] \in [Runs -> Statuses]
        BY RegistryFields DEF Statuses
    <2>2. reg.clock + 1 \in Nat /\ [reg.ended EXCEPT ![r] = reg.clock + 1] \in [Runs -> Nat]
        BY RegistryFields
    <2>3. [reg.session_status EXCEPT ![z] = "idle"]
            \in [Sessions -> ACTIVE_RUN_STATUSES \union {"idle"}]
        BY RegistryFields
    <2> QED
        BY <2>1, <2>2, <2>3 DEF Registry
<1>4. /\ \A q \in Runs : marked.status[q] = IF q = r THEN status ELSE reg.status[q]
      /\ \A q \in Runs : marked.ended[q] = IF q = r THEN reg.clock + 1 ELSE reg.ended[q]
    BY <1>2, RegistryFields
<1>5. /\ "absent" \notin TERMINAL_RUN_STATUSES
      /\ TERMINAL_RUN_STATUSES \cap ACTIVE_RUN_STATUSES = {}
    BY DEF TERMINAL_RUN_STATUSES, ACTIVE_RUN_STATUSES
<1> HIDE DEF marked, z
<1>6. Terminal(marked, r)
    BY <1>4 DEF Terminal
<1>7. /\ \A q \in Runs : Terminal(marked, q) => marked.ended[q] <= marked.clock
      /\ \A q \in Runs : Terminal(marked, q) /\ q # r => marked.ended[q] < marked.ended[r]
      /\ \A p, q \in Runs :
            Terminal(marked, p) /\ Terminal(marked, q) /\ marked.ended[p] = marked.ended[q]
            => p = q
    <2>1. \A q \in Runs : Terminal(marked, q) /\ q # r =>
              Terminal(reg, q) /\ marked.ended[q] = reg.ended[q] /\ reg.ended[q] <= reg.clock
        BY <1>4 DEF Terminal, RegistryInv, EndedInv
    <2>2. reg.clock \in Nat /\ marked.clock = reg.clock + 1 /\ marked.ended[r] = reg.clock + 1
          /\ \A q \in Runs : reg.ended[q] \in Nat
        BY <1>2, <1>4, RegistryFields
    <2>3. \A q \in Runs : Terminal(marked, q) /\ q # r => marked.ended[q] < marked.ended[r]
        BY <2>1, <2>2
    <2>4. \A q \in Runs : Terminal(marked, q) => marked.ended[q] <= marked.clock
        BY <2>1, <2>2
    <2>5. ASSUME NEW p \in Runs, NEW q \in Runs, Terminal(marked, p), Terminal(marked, q),
                 marked.ended[p] = marked.ended[q]
          PROVE  p = q
        <3>1. CASE p # r /\ q # r
            BY <2>1, <2>5, <3>1 DEF RegistryInv, EndedInv
        <3>2. CASE (p = r) # (q = r)
            BY <2>1, <2>2, <2>5, <3>2
        <3> QED
            BY <3>1, <3>2
    <2> QED
        BY <2>3, <2>4, <2>5
<1>8. /\ gone \subseteq Runs /\ \A q \in gone : Terminal(marked, q) /\ marked.session[q] = z
      /\ r \notin gone
    <2>1. gone \subseteq Runs /\ \A q \in gone : Terminal(marked, q) /\ marked.session[q] = z
        BY DEF Excess, TerminalRunsOf
    <2>2. {q \in TerminalRunsOf(marked, z) : marked.ended[q] > marked.ended[r]} = {}
        <3>1. \A q \in Runs : marked.ended[q] \in Nat
            BY <1>3, RegistryFields
        <3>2. \A q \in Runs : Terminal(marked, q) => ~(marked.ended[q] > marked.ended[r])
            BY <1>7, <3>1
        <3> QED
            BY <3>2 DEF TerminalRunsOf
    <2>3. Cardinality({}) = 0 /\ ~(0 >= MaxLocalRuns)
        BY FS_EmptySet, RegistryAssumption
    <2>4. r \notin gone
        BY <2>2, <2>3 DEF Excess
    <2> QED
        BY <2>1, <2>4
<1>9. /\ after.created = marked.created /\ after.clock = marked.clock
      /\ after.session_status = marked.session_status
      /\ after.queued_runs = marked.queued_runs \ gone
      /\ \A q \in Runs \ gone :
            /\ after.status[q] = marked.status[q] /\ after.session[q] = marked.session[q]
            /\ after.executor[q] = marked.executor[q] /\ after.ended[q] = marked.ended[q]
            /\ after.run_events[q] = marked.run_events[q]
      /\ \A q \in Runs \cap gone : after.status[q] = "absent" /\ after.run_events[q] = <<>>
    BY <1>3, <1>8, RemovedRuns
<1>10. after \in Registry
    BY <1>3, RemoveRunsEvolves DEF Evolves
<1>11. Cardinality(TerminalRunsOf(marked, z) \ gone) <= MaxLocalRuns
    BY <1>3, <1>7, KeptAreFew DEF TerminalRunsOf
<1> HIDE DEF gone, after
<1>12. EndedInv(after)
    <2>1. \A q \in Runs : Terminal(after, q) =>
              /\ Terminal(marked, q) /\ q \notin gone
              /\ after.ended[q] = marked.ended[q] /\ after.session[q] = marked.session[q]
        BY <1>5, <1>9 DEF Terminal
    <2>2. ASSUME NEW s \in Sessions PROVE Cardinality(TerminalRunsOf(after, s)) <= MaxLocalRuns
        <3>1. MaxLocalRuns \in Nat
            BY RegistryAssumption
        <3>2. CASE s = z
            <4>1. TerminalRunsOf(after, s) \subseteq TerminalRunsOf(marked, z) \ gone
                BY <2>1, <3>2 DEF TerminalRunsOf
            <4>2. TerminalRunsOf(marked, z) \ gone \subseteq Runs
                BY DEF TerminalRunsOf
            <4> QED
                BY <1>11, <3>1, <4>1, <4>2, FewerRuns
        <3>3. CASE s # z
            <4>1. TerminalRunsOf(after, s) \subseteq TerminalRunsOf(reg, s)
                BY <1>2, <1>4, <2>1, <3>3 DEF TerminalRunsOf, Terminal, z
            <4>2. TerminalRunsOf(reg, s) \subseteq Runs
                BY DEF TerminalRunsOf
            <4>3. Cardinality(TerminalRunsOf(reg, s)) <= MaxLocalRuns
                BY DEF RegistryInv, EndedInv
            <4> QED
                BY <3>1, <4>1, <4>2, <4>3, FewerRuns
        <3> QED
            BY <3>2, <3>3
    <2> QED
        BY <1>7, <1>9, <2>1, <2>2 DEF EndedInv
<1>13. ASSUME NEW s \in Sessions, after.session_status[s] # "idle"
       PROVE  \E q \in Runs : after.session[q] = s /\ Active(after, q)
    <2>1. s # z /\ reg.session_status[s] # "idle"
        BY <1>2, <1>9, <1>13, RegistryFields
    <2>2. PICK q \in Runs : reg.session[q] = s /\ Active(reg, q)
        BY <2>1 DEF RegistryInv, ShownInv
    <2>3. q # r /\ q \notin gone
        BY <1>2, <1>8, <2>1, <2>2 DEF z
    <2> QED
        BY <1>2, <1>4, <1>9, <2>2, <2>3 DEF Active
<1>14. \A q \in Runs : Present(after, q) => q <= after.created
    <2>1. \A q \in Runs : Present(after, q) => q \notin gone
        BY <1>9 DEF Present
    <2> QED
        BY <1>2, <1>4, <1>9, <2>1 DEF RegistryInv, Present
<1>15. \A q \in Runs \ {r} :
          \/ /\ after.status[q] = reg.status[q] /\ after.session[q] = reg.session[q]
             /\ after.executor[q] = reg.executor[q]
             /\ after.run_events[q] = reg.run_events[q]
          \/ Terminal(reg, q) /\ after.status[q] = "absent" /\ after.run_events[q] = <<>>
    BY <1>2, <1>4, <1>8, <1>9 DEF Terminal
<1>16. RegistryInv(after)
    BY <1>12, <1>13, <1>14 DEF RegistryInv, ShownInv
<1>17. /\ after.created = reg.created /\ after.queued_runs \subseteq reg.queued_runs
       /\ after.status[r] = status /\ after.run_events[r] = reg.run_events[r]
    BY <1>2, <1>4, <1>8, <1>9
<1> QED
    BY <1>1, <1>15, <1>16, <1>17

\* create_run
LEMMA CreatedRun ==
    ASSUME NEW reg \in Registry, NEW s \in Sessions, reg.created < MaxRuns, RegistryInv(reg)
    PROVE  LET r == NextRun(reg)
               after == CreateRun(reg, s) IN
           /\ r \in Runs /\ reg.status[r] = "absent"
           /\ after.created = r /\ r = reg.created + 1
           /\ after.status = [reg.status EXCEPT ![r] = "queued"]
           /\ after.session = [reg.session EXCEPT ![r] = s]
           /\ after.queued_runs = reg.queued_runs \union {r}
           /\ after.executor = reg.executor /\ after.run_events = reg.run_events
           /\ RegistryInv(after)
<1> DEFINE r == NextRun(reg)
           after == CreateRun(reg, s)
<1>1. r \in Runs /\ after \in Registry
    BY CreateRunEvolves DEF Evolves
<1>2. reg.created \in Nat /\ r = reg.created + 1 /\ r \in Nat
    BY RegistryFields, RegistryAssumption DEF NextRun
<1>3. /\ after.created = r /\ after.clock = reg.clock
      /\ after.status = [reg.status EXCEPT ![r] = "queued"]
      /\ after.session = [reg.session EXCEPT ![r] = s]
      /\ after.queued_runs = reg.queued_runs \union {r}
      /\ after.executor = reg.executor /\ after.run_events = reg.run_events
      /\ after.ended = reg.ended
      /\ after.session_status = [reg.session_status EXCEPT ![s] = "queued"]
    BY DEF CreateRun, Registry
<1> HIDE DEF r, after
<1>4. reg.status[r] = "absent"
    <2>1. ~(r <= reg.created)
        BY <1>2
    <2> QED
        BY <1>1, <2>1 DEF RegistryInv, Present
<1>5. \A q \in Runs : /\ after.status[q] = IF q = r THEN "queued" ELSE reg.status[q]
                      /\ after.session[q] = IF q = r THEN s ELSE reg.session[q]
    BY <1>1, <1>3, RegistryFields
<1>6. /\ "queued" \notin TERMINAL_RUN_STATUSES /\ "queued" \in ACTIVE_RUN_STATUSES
      /\ "absent" \notin TERMINAL_RUN_STATUSES /\ "absent" \notin ACTIVE_RUN_STATUSES
    BY DEF TERMINAL_RUN_STATUSES, ACTIVE_RUN_STATUSES
<1>7. EndedInv(after)
    <2>1. reg.clock <= after.clock
        BY <1>3, RegistryFields
    <2>2. \A q \in Runs : Terminal(after, q) =>
              /\ Terminal(reg, q) /\ after.ended[q] = reg.ended[q]
              /\ after.session[q] = reg.session[q]
        BY <1>3, <1>5, <1>6 DEF Terminal
    <2>3. EndedInv(reg)
        BY DEF RegistryInv
    <2> QED
        BY <1>1, <2>1, <2>2, <2>3, EndedInvFrame
<1>8. ASSUME NEW z \in Sessions, after.session_status[z] # "idle"
      PROVE  \E q \in Runs : after.session[q] = z /\ Active(after, q)
    <2>1. CASE z = s
        BY <1>1, <1>5, <1>6, <2>1 DEF Active
    <2>2. CASE z # s
        <3>1. reg.session_status[z] # "idle"
            BY <1>3, <1>8, <2>2, RegistryFields
        <3>2. PICK q \in Runs : reg.session[q] = z /\ Active(reg, q)
            BY <3>1 DEF RegistryInv, ShownInv
        <3>3. q # r
            BY <1>4, <1>6, <3>2 DEF Active
        <3> QED
            BY <1>5, <3>2, <3>3 DEF Active
    <2> QED
        BY <2>1, <2>2
<1>9. ASSUME NEW q \in Runs, Present(after, q) PROVE q <= after.created
    <2>1. CASE q = r
        BY <1>2, <1>3, <2>1
    <2>2. CASE q # r
        <3>1. q <= reg.created /\ q \in Nat
            BY <1>5, <1>9, <2>2 DEF RegistryInv, Present, Runs
        <3> QED
            BY <1>2, <1>3, <3>1
    <2> QED
        BY <2>1, <2>2
<1>10. RegistryInv(after)
    BY <1>7, <1>8, <1>9 DEF RegistryInv, ShownInv
<1> QED
    BY <1>1, <1>2, <1>3, <1>4, <1>10 DEF r, after

\* claim_next_queued_run, when it returns None
LEMMA ScannedList ==
    ASSUME NEW reg \in Registry
    PROVE  LET after == ClaimNothing(reg) IN
           /\ after.created = reg.created /\ after.status = reg.status
           /\ after.session = reg.session /\ after.executor = reg.executor
           /\ after.run_events = reg.run_events
           /\ \A d : Waiting(after, d) = Waiting(reg, d)
           /\ RegistryInv(reg) => RegistryInv(after)
<1> DEFINE after == ClaimNothing(reg)
<1>1. /\ after.created = reg.created /\ after.status = reg.status
      /\ after.session = reg.session /\ after.executor = reg.executor
      /\ after.run_events = reg.run_events
      /\ after.queued_runs = reg.queued_runs \ Stale(reg)
      /\ after.clock = reg.clock /\ after.ended = reg.ended
      /\ after.session_status = reg.session_status
    BY DEF ClaimNothing, Registry
<1> HIDE DEF after
<1>2. \A d : Waiting(after, d) = Waiting(reg, d)
    BY <1>1 DEF Waiting, Stale
<1>3. RegistryInv(reg) => RegistryInv(after)
    <2>1. \A s : TerminalRunsOf(after, s) = TerminalRunsOf(reg, s)
        BY <1>1 DEF TerminalRunsOf, Terminal
    <2>2. EndedInv(reg) => EndedInv(after)
        BY <1>1, <2>1 DEF EndedInv, Terminal
    <2>3. ShownInv(reg) => ShownInv(after)
        BY <1>1 DEF ShownInv, Active
    <2> QED
        BY <1>1, <2>2, <2>3 DEF RegistryInv, Present
<1> QED
    BY <1>1, <1>2, <1>3 DEF after

\* claim_next_queued_run, when it returns a run
LEMMA ClaimedRun ==
    ASSUME NEW reg \in Registry, NEW r \in Runs, r \in reg.queued_runs,
           reg.status[r] = "queued"
    PROVE  LET after == ClaimRun(reg, r) IN
           /\ after.created = reg.created
           /\ after.status = [reg.status EXCEPT ![r] = "assigned"]
           /\ after.session = reg.session /\ after.executor = reg.executor
           /\ after.run_events = reg.run_events
           /\ after.queued_runs \subseteq reg.queued_runs
           /\ RegistryInv(reg) => RegistryInv(after)
<1> DEFINE after == ClaimRun(reg, r)
<1>1. /\ after.created = reg.created
      /\ after.status = [reg.status EXCEPT ![r] = "assigned"]
      /\ after.session = reg.session /\ after.executor = reg.executor
      /\ after.run_events = reg.run_events
      /\ after.queued_runs \subseteq reg.queued_runs
      /\ after.clock = reg.clock /\ after.ended = reg.ended
      /\ after.session_status = [reg.session_status EXCEPT ![reg.session[r]] = "assigned"]
    BY DEF ClaimRun, Registry
<1>2. after \in Registry
    BY ClaimRunEvolves DEF Evolves
<1> HIDE DEF after
<1>3. \A q \in Runs : after.status[q] = IF q = r THEN "assigned" ELSE reg.status[q]
    BY <1>1, RegistryFields
<1>4. "assigned" \notin TERMINAL_RUN_STATUSES /\ "assigned" \in ACTIVE_RUN_STATUSES
    BY DEF TERMINAL_RUN_STATUSES, ACTIVE_RUN_STATUSES
<1>5. ASSUME RegistryInv(reg) PROVE RegistryInv(after)
    <2>1. EndedInv(after)
        <3>1. reg.clock <= after.clock
            BY <1>1, RegistryFields
        <3>2. \A q \in Runs : Terminal(after, q) =>
                  /\ Terminal(reg, q) /\ after.ended[q] = reg.ended[q]
                  /\ after.session[q] = reg.session[q]
            BY <1>1, <1>3, <1>4 DEF Terminal
        <3>3. EndedInv(reg)
            BY <1>5 DEF RegistryInv
        <3> QED
            BY <1>2, <3>1, <3>2, <3>3, EndedInvFrame
    <2>2. ASSUME NEW s \in Sessions, after.session_status[s] # "idle"
          PROVE  \E q \in Runs : after.session[q] = s /\ Active(after, q)
        <3>1. CASE s = reg.session[r]
            BY <1>1, <1>3, <1>4, <3>1 DEF Active
        <3>2. CASE s # reg.session[r]
            <4>1. reg.session_status[s] # "idle"
                BY <1>1, <2>2, <3>2, RegistryFields
            <4>2. PICK q \in Runs : reg.session[q] = s /\ Active(reg, q)
                BY <1>5, <4>1 DEF RegistryInv, ShownInv
            <4> QED
                BY <1>1, <1>3, <3>2, <4>2 DEF Active
        <3> QED
            BY <3>1, <3>2
    <2>3. \A q \in Runs : Present(after, q) => q <= after.created
        BY <1>1, <1>3, <1>5 DEF RegistryInv, Present
    <2> QED
        BY <2>1, <2>2, <2>3 DEF RegistryInv, ShownInv
<1> QED
    BY <1>1, <1>5 DEF after

\* cleanup: ended runs go, the others stay as they are.
LEMMA CleanedRuns ==
    ASSUME NEW reg \in Registry, NEW cutoff
    PROVE  LET after == Cleanup(reg, cutoff) IN
           /\ after.created = reg.created /\ after.queued_runs \subseteq reg.queued_runs
           /\ \A q \in Runs :
                 \/ /\ after.status[q] = reg.status[q] /\ after.session[q] = reg.session[q]
                    /\ after.executor[q] = reg.executor[q]
                    /\ \/ after.run_events[q] = reg.run_events[q]
                       \/ reg.status[q] = "absent" /\ after.run_events[q] = <<>>
                 \/ /\ Terminal(reg, q)
                    /\ after.status[q] = "absent" /\ after.run_events[q] = <<>>
           /\ RegistryInv(reg) => RegistryInv(after)
<1> DEFINE expired == {r \in Runs : Terminal(reg, r) /\ reg.ended[r] <= cutoff}
           unexpired == RemoveRuns(reg, expired)
           excess == UNION {Excess(unexpired, s) : s \in Sessions}
           pruned == RemoveRuns(unexpired, excess)
           after == [pruned EXCEPT !.run_events =
                        [r \in Runs |-> IF Present(pruned, r) THEN @[r] ELSE <<>>]]
<1>1. Cleanup(reg, cutoff) = after
    BY DEF Cleanup
<1>2. unexpired \in Registry
    BY RemoveRunsEvolves DEF Evolves
<1>3. \A r \in Runs \cap expired : Terminal(reg, r)
    OBVIOUS
<1> HIDE DEF expired
<1>4. /\ unexpired.created = reg.created
      /\ unexpired.queued_runs = reg.queued_runs \ expired
      /\ \A r \in Runs \ expired :
            /\ unexpired.status[r] = reg.status[r] /\ unexpired.session[r] = reg.session[r]
            /\ unexpired.executor[r] = reg.executor[r]
            /\ unexpired.run_events[r] = reg.run_events[r]
      /\ \A r \in Runs \cap expired :
            unexpired.status[r] = "absent" /\ unexpired.run_events[r] = <<>>
      /\ RegistryInv(reg) => RegistryInv(unexpired)
    BY <1>3, RemovedRuns
<1> HIDE DEF unexpired
<1>5. \A r \in Runs \cap excess : Terminal(unexpired, r)
    BY DEF Excess, TerminalRunsOf
<1> HIDE DEF excess
<1>6. /\ pruned.created = unexpired.created
      /\ pruned.queued_runs = unexpired.queued_runs \ excess
      /\ \A r \in Runs \ excess :
            /\ pruned.status[r] = unexpired.status[r] /\ pruned.session[r] = unexpired.session[r]
            /\ pruned.executor[r] = unexpired.executor[r]
            /\ pruned.run_events[r] = unexpired.run_events[r]
      /\ \A r \in Runs \cap excess :
            pruned.status[r] = "absent" /\ pruned.run_events[r] = <<>>
      /\ RegistryInv(unexpired) => RegistryInv(pruned)
    BY <1>2, <1>5, RemovedRuns
<1>7. pruned \in Registry
    BY <1>2, RemoveRunsEvolves DEF Evolves
<1> HIDE DEF pruned
<1>8. /\ after.created = pruned.created /\ after.queued_runs = pruned.queued_runs
      /\ after.status = pruned.status /\ after.session = pruned.session
      /\ after.executor = pruned.executor /\ after.ended = pruned.ended
      /\ after.clock = pruned.clock /\ after.session_status = pruned.session_status
      /\ after.run_events =
            [r \in Runs |-> IF Present(pruned, r) THEN pruned.run_events[r] ELSE <<>>]
    BY <1>7 DEF Registry
<1> HIDE DEF after
<1>9. RegistryInv(pruned) => RegistryInv(after)
    <2>1. \A s : TerminalRunsOf(after, s) = TerminalRunsOf(pruned, s)
        BY <1>8 DEF TerminalRunsOf, Terminal
    <2>2. EndedInv(pruned) => EndedInv(after)
        BY <1>8, <2>1 DEF EndedInv, Terminal
    <2>3. ShownInv(pruned) => ShownInv(after)
        BY <1>8 DEF ShownInv, Active
    <2> QED
        BY <1>8, <2>2, <2>3 DEF RegistryInv, Present
<1>10. ASSUME NEW q \in Runs
       PROVE  \/ /\ after.status[q] = reg.status[q] /\ after.session[q] = reg.session[q]
                 /\ after.executor[q] = reg.executor[q]
                 /\ after.run_events[q] = reg.run_events[q] \/
                       (reg.status[q] = "absent" /\ after.run_events[q] = <<>>)
              \/ /\ Terminal(reg, q)
                 /\ after.status[q] = "absent" /\ after.run_events[q] = <<>>
    <2>1. CASE q \in expired
        <3>1. unexpired.status[q] = "absent" /\ Terminal(reg, q)
            BY <1>3, <1>4, <2>1
        <3>2. pruned.status[q] = "absent"
            BY <1>6, <3>1
        <3> QED
            BY <1>8, <3>1, <3>2 DEF Present
    <2>2. CASE q \notin expired /\ q \in excess
        <3>1. Terminal(reg, q) /\ pruned.status[q] = "absent"
            BY <1>4, <1>5, <1>6, <2>2 DEF Terminal
        <3> QED
            BY <1>8, <3>1 DEF Present
    <2>3. CASE q \notin expired /\ q \notin excess
        BY <1>4, <1>6, <1>8, <2>3 DEF Present
    <2> QED
        BY <2>1, <2>2, <2>3
<1>11. after.created = reg.created /\ after.queued_runs \subseteq reg.queued_runs
    BY <1>4, <1>6, <1>8
<1> QED
    BY <1>1, <1>4, <1>6, <1>9, <1>10, <1>11

\* The marks, whether the run is there or not.
LEMMA MarksKeepRegistryInv ==
    ASSUME NEW reg \in Registry, RegistryInv(reg), NEW r \in Runs
    PROVE  /\ \A d \in Daemons : /\ RegistryInv(MarkRunAssigned(reg, r, d))
                                 /\ RegistryInv(MarkRunStarted(reg, r, d))
           /\ \A status \in TERMINAL_RUN_STATUSES : RegistryInv(MarkRunTerminal(reg, r, status))
<1>1. CASE ~Present(reg, r)
    BY <1>1 DEF MarkRunAssigned, MarkRunStarted, MarkRunTerminal
<1>2. CASE Present(reg, r)
    <2>1. ASSUME NEW d \in Daemons PROVE RegistryInv(MarkRunAssigned(reg, r, d))
        <3> DEFINE after == MarkRunAssigned(reg, r, d)
        <3>1. after \in Registry
            BY MarkRunAssignedEvolves DEF Evolves
        <3>2. /\ after.created = reg.created /\ after.session = reg.session
              /\ after.clock = reg.clock /\ after.queued_runs = reg.queued_runs
              /\ after.run_events = reg.run_events
              /\ after.status = [reg.status EXCEPT ![r] = "assigned"]
              /\ after.executor = [reg.executor EXCEPT ![r] = d]
              /\ after.ended = [reg.ended EXCEPT ![r] = 0]
              /\ after.session_status = [reg.session_status EXCEPT ![reg.session[r]] = "assigned"]
            BY <1>2 DEF MarkRunAssigned, Registry
        <3> HIDE DEF after
        <3>3. RegistryInv(after)
            BY <1>2, <3>1, <3>2, MarkedRun
        <3> QED
            BY <3>3 DEF after
    <2>2. ASSUME NEW d \in Daemons PROVE RegistryInv(MarkRunStarted(reg, r, d))
        <3> DEFINE after == MarkRunStarted(reg, r, d)
        <3>1. after \in Registry
            BY MarkRunStartedEvolves DEF Evolves
        <3>2. /\ after.created = reg.created /\ after.session = reg.session
              /\ after.clock = reg.clock /\ after.queued_runs = reg.queued_runs
              /\ after.run_events = reg.run_events
              /\ after.status = [reg.status EXCEPT ![r] = "running"]
              /\ after.executor = [reg.executor EXCEPT ![r] = d]
              /\ after.ended = [reg.ended EXCEPT ![r] = 0]
              /\ after.session_status = [reg.session_status EXCEPT ![reg.session[r]] = "running"]
            BY <1>2 DEF MarkRunStarted, Registry
        <3> HIDE DEF after
        <3>3. RegistryInv(after)
            BY <1>2, <3>1, <3>2, MarkedRun
        <3> QED
            BY <3>3 DEF after
    <2>3. \A status \in TERMINAL_RUN_STATUSES : RegistryInv(MarkRunTerminal(reg, r, status))
        BY <1>2, EndedRun
    <2> QED
        BY <2>1, <2>2, <2>3
<1> QED
    BY <1>1, <1>2

\* How a handler ends a run.
LEMMA EndKeepsRegistryInv ==
    ASSUME NEW reg \in Registry, RegistryInv(reg), NEW r \in Runs,
           NEW status \in TERMINAL_RUN_STATUSES, NEW type
    PROVE  RegistryInv(StoreRunEvent(MarkRunTerminal(reg, r, status), r, type))
<1>1. MarkRunTerminal(reg, r, status) \in Registry
    BY MarkRunTerminalEvolves DEF Evolves
<1> QED
    BY <1>1, MarksKeepRegistryInv, StoredEvent

\* dispatch_pending returns: none of the connections it tried could take a run.
DispatchEnds(reg, busy0, channel, open, rest, progress) ==
    /\ rt' \in {reg, ClaimNothing(reg)}
    /\ sending' = open
    /\ down' = channel
    /\ \A c \in rest : Waiting(reg, DaemonOf(c)) = {}
    /\ progress => \A c \in Available(busy0) : Waiting(reg, DaemonOf(c)) = {}

\* dispatch_pending begins to send r to c, with `more' left to try of the snapshot it had
\* or, when it made progress, of a new one.
DispatchSends(reg, busy0, channel, open, rest, progress, by, c, r, more, again, scanned) ==
    /\ r \in Waiting(reg, DaemonOf(c))
    /\ rt' = ClaimRun(scanned, r)
    /\ sending' = [open EXCEPT ![r] =
          [to |-> c, rest |-> more, progress |-> progress /\ ~again,
           by |-> by, doomed |-> link[c] = "closed"]]
    /\ down' = Deliver(channel, c, Message("run.assign", r))
    /\ c \notin more
    /\ again => progress
    /\ {c} \union more \subseteq IF again THEN Available(busy0) ELSE rest
    /\ \A k \in IF again THEN Available(busy0) ELSE rest :
          k \in {c} \union more \/ Waiting(reg, DaemonOf(k)) = {}

\* One call of Dispatch returns or sends one run.
LEMMA DispatchOutcome ==
    ASSUME NEW reg \in Registry, NEW busy0, NEW channel, NEW open, NEW rest \in SUBSET Conns,
           NEW progress \in BOOLEAN, NEW by,
           Dispatch(reg, busy0, channel, open, rest, progress, by)
    PROVE  \/ DispatchEnds(reg, busy0, channel, open, rest, progress)
           \/ \E c \in Conns, r \in Runs, more \in SUBSET Conns, again \in BOOLEAN,
                 scanned \in {reg, ClaimNothing(reg)} :
                 DispatchSends(reg, busy0, channel, open, rest, progress, by,
                               c, r, more, again, scanned)
<1> DEFINE CanClaim(S) == {c \in S : Waiting(reg, DaemonOf(c)) # {}}
           again == progress /\ CanClaim(rest) = {}
           pool == IF again THEN Available(busy0) ELSE rest
           Scanned(tried) == IF tried = {} THEN reg ELSE ClaimNothing(reg)
<1>1. pool \subseteq Conns /\ again \in BOOLEAN
    BY DEF Available
<1>2. \A tried : Scanned(tried) \in {reg, ClaimNothing(reg)}
    OBVIOUS
<1>3. CASE /\ CanClaim(pool) = {}
           /\ rt' = Scanned(rest \union pool)
           /\ sending' = open
           /\ down' = channel
    <2>1. rt' \in {reg, ClaimNothing(reg)}
        BY <1>2, <1>3
    <2>2. CASE again
        <3>1. CanClaim(rest) = {} /\ CanClaim(Available(busy0)) = {}
            BY <1>3, <2>2
        <3> QED
            BY <1>3, <2>1, <3>1 DEF DispatchEnds
    <2>3. CASE ~again
        <3>1. CanClaim(rest) = {} /\ ~progress
            BY <1>3, <2>3
        <3> QED
            BY <1>3, <2>1, <3>1 DEF DispatchEnds
    <2> QED
        BY <2>2, <2>3
<1>4. CASE \E c \in CanClaim(pool), r \in Runs, tried \in SUBSET (pool \ CanClaim(pool)) :
              /\ IsNextFor(reg, DaemonOf(c), r)
              /\ rt' = ClaimRun(Scanned(IF again THEN tried \union rest ELSE tried), r)
              /\ sending' = [open EXCEPT ![r] =
                    [to |-> c, rest |-> pool \ (tried \union {c}),
                     progress |-> progress /\ ~again, by |-> by,
                     doomed |-> link[c] = "closed"]]
              /\ down' = Deliver(channel, c, Message("run.assign", r))
    <2>1. PICK c \in CanClaim(pool), r \in Runs, tried \in SUBSET (pool \ CanClaim(pool)) :
              /\ IsNextFor(reg, DaemonOf(c), r)
              /\ rt' = ClaimRun(Scanned(IF again THEN tried \union rest ELSE tried), r)
              /\ sending' = [open EXCEPT ![r] =
                    [to |-> c, rest |-> pool \ (tried \union {c}),
                     progress |-> progress /\ ~again, by |-> by,
                     doomed |-> link[c] = "closed"]]
              /\ down' = Deliver(channel, c, Message("run.assign", r))
        BY <1>4
    <2> DEFINE more == pool \ (tried \union {c})
               scanned == Scanned(IF again THEN tried \union rest ELSE tried)
    <2>2. c \in Conns /\ more \in SUBSET Conns /\ scanned \in {reg, ClaimNothing(reg)}
        BY <1>1, <1>2
    <2>3. r \in Waiting(reg, DaemonOf(c))
        BY <2>1 DEF IsNextFor
    <2>4. /\ rt' = ClaimRun(scanned, r)
          /\ sending' = [open EXCEPT ![r] =
                [to |-> c, rest |-> more, progress |-> progress /\ ~again,
                 by |-> by, doomed |-> link[c] = "closed"]]
          /\ down' = Deliver(channel, c, Message("run.assign", r))
        BY <2>1
    <2>5. c \notin more /\ {c} \union more \subseteq pool
        OBVIOUS
    <2>6. \A k \in pool : k \in {c} \union more \/ Waiting(reg, DaemonOf(k)) = {}
        OBVIOUS
    <2>7. pool = IF again THEN Available(busy0) ELSE rest
        OBVIOUS
    <2>8. again => progress
        OBVIOUS
    <2> HIDE DEF more, scanned, pool, again
    <2>9. /\ {c} \union more \subseteq IF again THEN Available(busy0) ELSE rest
          /\ \A k \in IF again THEN Available(busy0) ELSE rest :
                k \in {c} \union more \/ Waiting(reg, DaemonOf(k)) = {}
        BY <2>5, <2>6, <2>7
    <2>10. DispatchSends(reg, busy0, channel, open, rest, progress, by,
                         c, r, more, again, scanned)
        BY <2>3, <2>4, <2>5, <2>8, <2>9 DEF DispatchSends
    <2> QED
        BY <1>1, <2>2, <2>10
<1> QED
    BY <1>3, <1>4 DEF Dispatch

\* What claim_next_queued_run hands out, of the list as it was or without its stale
\* entries.
LEMMA HandedOut ==
    ASSUME NEW reg \in Registry, NEW c \in Conns, NEW r \in Waiting(reg, DaemonOf(c)),
           NEW scanned \in {reg, ClaimNothing(reg)}, NEW after, after = ClaimRun(scanned, r)
    PROVE  /\ after.created = reg.created
           /\ \A q \in Runs : after.status[q] = IF q = r THEN "assigned" ELSE reg.status[q]
           /\ after.session = reg.session /\ after.executor = reg.executor
           /\ after.run_events = reg.run_events
           /\ \A k : Waiting(after, k) \subseteq Waiting(reg, k)
           /\ RegistryInv(reg) => RegistryInv(after)
<1>1. /\ scanned \in Registry /\ scanned.created = reg.created /\ scanned.status = reg.status
      /\ scanned.session = reg.session /\ scanned.executor = reg.executor
      /\ scanned.run_events = reg.run_events
      /\ \A k : Waiting(scanned, k) = Waiting(reg, k)
      /\ RegistryInv(reg) => RegistryInv(scanned)
    BY ScannedList, ClaimNothingEvolves DEF Evolves
<1>2. r \in scanned.queued_runs /\ r \in Runs /\ reg.status[r] = "queued"
    <2>1. r \in Waiting(scanned, DaemonOf(c))
        BY <1>1
    <2> QED
        BY <1>1, <2>1, RegistryFields DEF Waiting
<1>3. /\ after.created = reg.created
      /\ after.status = [reg.status EXCEPT ![r] = "assigned"]
      /\ after.session = reg.session /\ after.executor = reg.executor
      /\ after.run_events = reg.run_events
      /\ after.queued_runs \subseteq scanned.queued_runs
      /\ RegistryInv(reg) => RegistryInv(after)
    BY <1>1, <1>2, ClaimedRun
<1>4. \A k : Waiting(after, k) \subseteq Waiting(reg, k)
    <2>1. \A q \in Runs : after.status[q] = "queued" => scanned.status[q] = "queued"
        BY <1>1, <1>3, RegistryFields
    <2>2. scanned.queued_runs \subseteq Runs
        BY <1>1, RegistryFields
    <2>3. \A k : Waiting(after, k) \subseteq Waiting(scanned, k)
        BY <1>1, <1>3, <2>1, <2>2 DEF Waiting
    <2> QED
        BY <1>1, <2>3
<1> QED
    BY <1>3, <1>4, RegistryFields

\* dispatch_pending keeps the registry in order.
LEMMA DispatchKeepsRegistryInv ==
    ASSUME NEW reg \in Registry, RegistryInv(reg), NEW busy0, NEW channel, NEW open,
           NEW rest \in SUBSET Conns, NEW progress \in BOOLEAN, NEW by,
           Dispatch(reg, busy0, channel, open, rest, progress, by)
    PROVE  RegistryInv(rt')
<1>1. CASE DispatchEnds(reg, busy0, channel, open, rest, progress)
    BY <1>1, ScannedList DEF DispatchEnds
<1>2. ASSUME NEW c \in Conns, NEW r \in Runs, NEW more \in SUBSET Conns, NEW again \in BOOLEAN,
             NEW scanned \in {reg, ClaimNothing(reg)},
             DispatchSends(reg, busy0, channel, open, rest, progress, by,
                           c, r, more, again, scanned)
      PROVE  RegistryInv(rt')
    <2>1. r \in Waiting(reg, DaemonOf(c)) /\ rt' = ClaimRun(scanned, r)
        BY <1>2 DEF DispatchSends
    <2> QED
        BY <2>1, HandedOut
<1> QED
    BY <1>1, <1>2, DispatchOutcome

\* The registry keeps RegistryInv in every step, however long sends take.
LEMMA NextKeepsRegistryInv ==
    ASSUME IInv, RegistryInv(rt), [Next]_vars
    PROVE  RegistryInv(rt')
<1>1. TypeOK /\ rt \in Registry
    BY DEF IInv, TypeOK
<1>2. \A r \in Runs, status \in TERMINAL_RUN_STATUSES, type \in TerminalEvents :
          LET rt1 == StoreRunEvent(MarkRunTerminal(rt, r, status), r, type)
          IN  rt1 \in Registry /\ RegistryInv(rt1)
    BY <1>1, EndedEvolves, EndKeepsRegistryInv DEF Evolves
<1>3. /\ {"completed", "cancelled", "failed", "executor_disconnected"} \subseteq TERMINAL_RUN_STATUSES
      /\ {"run.completed", "run.error"} \subseteq TerminalEvents
    BY DEF TERMINAL_RUN_STATUSES, TerminalEvents
<1>4. CASE UNCHANGED rt
    BY <1>4
<1>5. ASSUME NEW r \in Runs, SendReturns(r)
      PROVE  RegistryInv(rt')
    <2> DEFINE s == sending[r]
               marked == MarkRunAssigned(rt, r, DaemonOf(s.to))
               rt1 == StoreRunEvent(marked, r, "run.started")
    <2>1. s \in Sends
        BY <1>1, <1>5 DEF SendReturns, Suspended, TypeOK
    <2>2. s.to \in Conns /\ s.rest \in SUBSET Conns /\ DaemonOf(s.to) \in Daemons
        BY <2>1 DEF Sends, Conns, DaemonOf
    <2>3. marked \in Registry /\ RegistryInv(marked)
        BY <1>1, <2>2, MarksKeepRegistryInv, MarkRunAssignedEvolves DEF Evolves
    <2>4. rt1 \in Registry /\ RegistryInv(rt1)
        BY <2>3, StoredEvent, StoreRunEventEvolves DEF Evolves, LifecycleEvents
    <2>5. \E bz, open, by : Dispatch(rt1, bz, down, open, s.rest, TRUE, by)
        BY <1>5 DEF SendReturns
    <2> HIDE DEF s, rt1
    <2> QED
        BY <2>2, <2>4, <2>5, DispatchKeepsRegistryInv
<1>6. ASSUME NEW r \in Runs, SendRaises(r)
      PROVE  RegistryInv(rt')
    <2> DEFINE s == sending[r]
               rt1 == StoreRunEvent(MarkRunTerminal(rt, r, "failed"), r, "run.error")
    <2>1. s \in Sends
        BY <1>1, <1>6 DEF SendRaises, Suspended, TypeOK
    <2>2. s.rest \in SUBSET Conns /\ s.progress \in BOOLEAN
        BY <2>1 DEF Sends
    <2>3. rt1 \in Registry /\ RegistryInv(rt1)
        BY <1>2, <1>3
    <2>4. \E open, by : Dispatch(rt1, busy, down, open, s.rest, s.progress, by)
        BY <1>6 DEF SendRaises
    <2> HIDE DEF s, rt1
    <2> QED
        BY <2>2, <2>3, <2>4, DispatchKeepsRegistryInv
<1>7. ASSUME NEW s \in Sessions, SendMessage(s)
      PROVE  RegistryInv(rt')
    <2> DEFINE made == CreateRun(rt, s)
               rt1 == StoreRunEvent(made, NextRun(rt), "run.queued")
    <2>1. NextRun(rt) \in Runs /\ made \in Registry /\ RegistryInv(made)
        BY <1>1, <1>7, CreateRunEvolves, CreatedRun DEF SendMessage, Evolves
    <2>2. rt1 \in Registry /\ RegistryInv(rt1)
        BY <2>1, StoredEvent, StoreRunEventEvolves DEF Evolves, LifecycleEvents
    <2>3. Dispatch(rt1, busy, down, sending, {}, TRUE, NoConn)
        BY <1>7 DEF SendMessage, DispatchPending
    <2> HIDE DEF rt1
    <2> QED
        BY <2>2, <2>3, DispatchKeepsRegistryInv
<1>8. ASSUME NEW cutoff, CleanupRuns(cutoff)
      PROVE  RegistryInv(rt')
    BY <1>1, <1>8, CleanedRuns DEF CleanupRuns
<1>9. ASSUME NEW c \in Conns, Welcome(c)
      PROVE  RegistryInv(rt')
    <2>1. \E channel : Dispatch(rt, busy, channel, sending, {}, TRUE, c)
        BY <1>9 DEF Welcome, DispatchPending
    <2> QED
        BY <1>1, <2>1, DispatchKeepsRegistryInv
<1>10. ASSUME NEW c \in Conns, NEW r \in Runs, HandleAccepted(c, r)
       PROVE  RegistryInv(rt')
    <2> DEFINE marked == MarkRunStarted(rt, r, DaemonOf(c))
    <2>1. DaemonOf(c) \in Daemons
        BY DEF Conns, DaemonOf
    <2>2. marked \in Registry /\ RegistryInv(marked)
        BY <1>1, <2>1, MarksKeepRegistryInv, MarkRunStartedEvolves DEF Evolves
    <2> QED
        BY <1>10, <2>2, StoredEvent DEF HandleAccepted
<1>11. ASSUME NEW c \in Conns, NEW r \in Runs, HandleCompleted(c, r) \/ HandleFailed(c, r)
       PROVE  RegistryInv(rt')
    <2>1. PICK status \in TERMINAL_RUN_STATUSES, type \in TerminalEvents :
              DispatchPending(StoreRunEvent(MarkRunTerminal(rt, r, status), r, type),
                              Released(c, r), down, c)
        BY <1>3, <1>11 DEF HandleCompleted, HandleFailed
    <2> DEFINE rt1 == StoreRunEvent(MarkRunTerminal(rt, r, status), r, type)
    <2>2. rt1 \in Registry /\ RegistryInv(rt1)
        BY <1>2
    <2>3. Dispatch(rt1, Released(c, r), down, sending, {}, TRUE, c)
        BY <2>1 DEF DispatchPending
    <2> HIDE DEF rt1
    <2> QED
        BY <2>2, <2>3, DispatchKeepsRegistryInv
<1>12. ASSUME NEW c \in Conns, UnregisterReturns(c)
       PROVE  RegistryInv(rt')
    <2>1. CASE busy[c] = NoRun
        BY <1>12, <2>1 DEF UnregisterReturns
    <2>2. CASE busy[c] # NoRun
        <3>1. busy[c] \in Runs
            BY <1>1, <2>2 DEF TypeOK
        <3> QED
            BY <1>2, <1>3, <1>12, <2>2, <3>1 DEF UnregisterReturns
    <2> QED
        BY <2>1, <2>2
<1>13. ASSUME NEW r \in Runs, CancelQueued(r)
       PROVE  RegistryInv(rt')
    BY <1>2, <1>3, <1>13 DEF CancelQueued
<1>14. ASSUME NEW c \in Conns, NEW r \in Runs, HandleViolation(c, r)
       PROVE  RegistryInv(rt')
    BY <1>2, <1>3, <1>14 DEF HandleViolation
<1>15. CASE \/ \E r \in Runs : CancelForwarded(r)
            \/ \E d \in Daemons, n \in 1 .. MaxConns : Connect(d, n)
            \/ \E c \in Conns : RegisterRaises(c) \/ Unregister(c) \/ UnregisterRaises(c)
            \/ \E c \in Conns : Drop(c) \/ NoticeDrop(c) \/ ConnectorReceives(c)
            \/ \E r \in Runs : ConnectorAccepts(r) \/ ConnectorSetupFails(r) \/ ConnectorFinishes(r)
            \/ UNCHANGED vars
    <2>1. UNCHANGED rt
        BY <1>15 DEF CancelForwarded, Connect, RegisterRaises, Unregister, UnregisterRaises, Drop, NoticeDrop,
           ConnectorReceives, ConnectorAccepts, ConnectorSetupFails, ConnectorFinishes,
           managerVars, vars
    <2> QED
        BY <1>4, <2>1
<1> QED
    BY <1>5, <1>6, <1>7, <1>8, <1>9, <1>10, <1>11, <1>12, <1>13, <1>14, <1>15 DEF Next

\* No two ended runs ended at once, few of a session are kept, and a session shown as
\* active has an active run: an invariant of every behaviour.
THEOREM RegistryInvariant == Spec => []RegistryInv(rt)
<1>1. Init => RegistryInv(rt)
    <2> SUFFICES ASSUME Init PROVE RegistryInv(rt)
        OBVIOUS
    <2>1. /\ rt.status = [r \in Runs |-> "absent"]
          /\ rt.session_status = [s \in Sessions |-> "idle"]
        BY DEF Init, EmptyRegistry
    <2>2. \A r \in Runs : ~Present(rt, r) /\ ~Terminal(rt, r)
        BY <2>1 DEF Present, Terminal, TERMINAL_RUN_STATUSES
    <2>3. \A s : TerminalRunsOf(rt, s) = {}
        BY <2>2 DEF TerminalRunsOf
    <2>4. Cardinality({}) = 0 /\ 0 <= MaxLocalRuns
        BY FS_EmptySet, RegistryAssumption
    <2> QED
        BY <2>1, <2>2, <2>3, <2>4 DEF RegistryInv, EndedInv, ShownInv
<1>2. IInv /\ RegistryInv(rt) /\ [Next]_vars => RegistryInv(rt)'
    BY NextKeepsRegistryInv
<1> QED
    BY <1>1, <1>2, InductiveInvariant, PTL DEF Spec

\* A session that is shown as queued, assigned or running has such a run, even when a
\* send suspends: the status is set with that of a run, and the end of a run resets it.
THEOREM ActiveSessionsAreActive == Spec => []ActiveSessionHasActiveRun
<1>1. RegistryInv(rt) => ActiveSessionHasActiveRun
    BY DEF RegistryInv, ShownInv, ActiveSessionHasActiveRun
<1> QED
    BY <1>1, RegistryInvariant, PTL

\* Pruning at the end of a run is enough: no session ever has more than
\* max_local_runs_per_session ended runs.
THEOREM EndedRunsAreFew == Spec => []LocalRunsBounded
<1>1. RegistryInv(rt) => LocalRunsBounded
    BY DEF RegistryInv, EndedInv, LocalRunsBounded
<1> QED
    BY <1>1, RegistryInvariant, PTL
-----------------------------------------------------------------------------
(* The runs and the sessions of the connections, when sends do not suspend: a *)
(* send that has begun ends before anything else happens.  The registry, the  *)
(* busy_run_ids, the sends and the channels are arguments, as dispatch_pending *)
(* begins with values that its caller has changed already.                    *)

NothingSent(sends) == \A r \in Runs : sends[r] = NotSending
Underway(reg, r) == reg.status[r] \in {"assigned", "running"}

\* What was stored about a run that has not been accepted yet, and that nothing
\* is kept of one that is gone.
ToldInv(reg, sends) ==
    \A r \in Runs :
        /\ reg.status[r] = "absent" => reg.run_events[r] = <<>>
        /\ reg.status[r] = "queued" => reg.run_events[r] = <<"run.queued">>
        /\ reg.status[r] = "assigned" =>
              reg.run_events[r] = IF sends[r] = NotSending THEN <<"run.queued", "run.started">>
                                  ELSE <<"run.queued">>

\* A run is under way exactly while a session is busy with it or is being sent it.
\* There is one send at most, and the sessions it may go on with are not busy.
BusyInv(reg, bz, sends) ==
    /\ \A r \in Runs : Underway(reg, r) => sends[r] # NotSending \/ \E c \in Conns : bz[c] = r
    /\ \A c \in Conns : bz[c] # NoRun =>
          /\ Underway(reg, bz[c])
          /\ reg.executor[bz[c]] = DaemonOf(c)
          /\ sends[bz[c]] = NotSending
    /\ \A c, k \in Conns : bz[c] # NoRun /\ bz[c] = bz[k] => c = k
    /\ \A r \in Runs : sends[r] # NotSending =>
          /\ reg.status[r] = "assigned"
          /\ bz[sends[r].to] = NoRun
          /\ \A k \in sends[r].rest : bz[k] = NoRun /\ k # sends[r].to
    /\ \A q, r \in Runs : sends[q] # NotSending /\ sends[r] # NotSending => q = r

\* What a connector may still say of a run that is under way.
Ends(r) == {Message("run.failed", r)} \union
           {[Message("run.completed", r) EXCEPT !.cancelled = b] : b \in BOOLEAN}
Answers(reg, r) ==
    CASE reg.status[r] = "assigned" ->
            {<<>>, <<Message("run.accepted", r)>>, <<Message("run.failed", r)>>}
            \union {<<Message("run.accepted", r), m>> : m \in Ends(r)}
      [] reg.status[r] = "running" -> {<<>>} \union {<<m>> : m \in Ends(r)}
      [] OTHER -> {<<>>}

Listened(p, c) == p[c] \in {"registering", "serving"}
WorksOn(c, r) == work_conn[r] = c /\ work[r] \in {"waiting", "active", "cancelling"}
IsAssign(channel, c, i) == channel[c][i].type = "run.assign"

\* A run that is on its way to the connector is the only one, and nothing is known
\* of it there.
AssignInv(reg, bz, sends, channel, box, c, i) ==
    /\ \A j \in 1 .. Len(channel[c]) : IsAssign(channel, c, j) => i = j
    /\ \/ bz[c] = channel[c][i].run
       \/ sends[channel[c][i].run] # NotSending /\ sends[channel[c][i].run].to = c
    /\ reg.status[channel[c][i].run] = "assigned"
    /\ box[c] = <<>>
    /\ \A r \in Runs : ~WorksOn(c, r)

\* The connector works on the run its session is busy with, and what it has said of
\* the run and the backend not yet heard is what its task is ahead.
TaskInv(reg, bz, box, c, r) ==
    /\ bz[c] = r
    /\ \/ work[r] = "waiting" /\ reg.status[r] = "assigned" /\ box[c] = <<>>
       \/ /\ work[r] # "waiting" /\ reg.status[r] = "assigned"
          /\ box[c] = <<Message("run.accepted", r)>>
       \/ work[r] # "waiting" /\ reg.status[r] = "running" /\ box[c] = <<>>

\* The messages about runs on a connection, and the tasks they are for.
ConnInv(reg, bz, sends, channel, box, p, c) ==
    /\ p[c] = "none" => link[c] = "none"
    /\ link[c] = "none" =>
          channel[c] = <<>> /\ box[c] = <<>> /\ \A r \in Runs : ~WorksOn(c, r)
    /\ link[c] = "up" => Listened(p, c)
    /\ Listened(p, c) =>
          box[c] \in IF bz[c] = NoRun THEN {<<>>} ELSE Answers(reg, bz[c])
    /\ link[c] = "up" =>
          /\ \A i \in 1 .. Len(channel[c]) : IsAssign(channel, c, i) =>
                AssignInv(reg, bz, sends, channel, box, c, i)
          /\ \A r \in Runs : WorksOn(c, r) => TaskInv(reg, bz, box, c, r)

SessionsInv(reg, bz, sends, channel, box, p) ==
    /\ ToldInv(reg, sends)
    /\ BusyInv(reg, bz, sends)
    /\ \A c \in Conns : ConnInv(reg, bz, sends, channel, box, p, c)

\* A connection that could take a run is still to be tried, or none waits for it.
Covered(reg, bz, p, tried) ==
    \A c \in Conns : p[c] = "serving" /\ link[c] # "closed" /\ bz[c] = NoRun =>
        c \in tried \/ Waiting(reg, DaemonOf(c)) = {}
IdleInv(reg, bz, sends, p) ==
    /\ NothingSent(sends) => Covered(reg, bz, p, {})
    /\ \A r \in Runs : sends[r] # NotSending /\ ~sends[r].progress =>
          Covered(reg, bz, p, {sends[r].to} \union sends[r].rest)

BytesInv == \A r \in stream_bytes : \E c \in Conns : busy[c] = r

\* The invariant of the sessions, which is inductive given IInv, RegistryInv and
\* ServedIsRegistered.
SessInv ==
    /\ SessionsInv(rt, busy, sending, down, inbox, pc)
    /\ IdleInv(rt, busy, sending, pc)
    /\ BytesInv

\* Fewer runs wait: whoever had nothing to take still has not.
LEMMA CoveredFrame ==
    ASSUME NEW a, NEW b, NEW bz, NEW p, NEW S, NEW T, S \subseteq T, Covered(a, bz, p, S),
           \A d : Waiting(b, d) \subseteq Waiting(a, d)
    PROVE  Covered(b, bz, p, T)
<1> SUFFICES ASSUME NEW c \in Conns, p[c] = "serving", link[c] # "closed", bz[c] = NoRun,
                    c \notin T
             PROVE  Waiting(b, DaemonOf(c)) = {}
    BY DEF Covered
<1>1. Waiting(a, DaemonOf(c)) = {}
    BY DEF Covered
<1>2. Waiting(b, DaemonOf(c)) \subseteq Waiting(a, DaemonOf(c))
    OBVIOUS
<1> QED
    BY <1>1, <1>2

\* A second element after the first.
LEMMA AppendedPair ==
    ASSUME NEW a, NEW b
    PROVE  Append(<<a>>, b) = <<a, b>>
<1> DEFINE S == {a, b}
<1>1. /\ <<a>> \in Seq(S) /\ Len(<<a>>) = 1 /\ <<a>>[1] = a
      /\ <<a, b>> \in Seq(S) /\ Len(<<a, b>>) = 2 /\ <<a, b>>[1] = a /\ <<a, b>>[2] = b
    OBVIOUS
<1>2. PICK u : u = Append(<<a>>, b)
    OBVIOUS
<1>3. PICK v : v = <<a, b>>
    OBVIOUS
<1>4. u \in Seq(S) /\ Len(u) = 2 /\ u[1] = a /\ u[2] = b
    BY <1>1, <1>2, AppendProperties
<1>5. v \in Seq(S) /\ Len(v) = 2 /\ v[1] = a /\ v[2] = b
    BY <1>1, <1>3
<1>6. \A i \in 1 .. Len(u) : u[i] = v[i]
    <2>1. \A i \in 1 .. 2 : i = 1 \/ i = 2
        OBVIOUS
    <2> QED
        BY <1>4, <1>5, <2>1
<1>7. u = v
    BY <1>4, <1>5, <1>6, SeqEqual
<1> QED
    BY <1>2, <1>3, <1>7, Zenon

\* A send that is under way can be told from none.
LEMMA SendsAreNot == ASSUME NEW s \in Sends PROVE s # NotSending
<1>1. s.to \in Conns /\ NoConn \notin Conns
    BY RegistryAssumption DEF Sends, Conns, NoConn
<1>2. NotSending.to = NoConn
    BY DEF NotSending
<1> QED
    BY <1>1, <1>2

\* What matters of a connection when nothing happens on it: the status of the run it
\* is busy with, and of the run it is being sent.
LEMMA ConnFrame ==
    ASSUME NEW c \in Conns, NEW a, NEW bz, NEW sends, NEW channel, NEW box, NEW p,
           NEW b, NEW bz2, NEW sends2, NEW channel2, NEW box2, NEW p2,
           ConnInv(a, bz, sends, channel, box, p, c),
           bz2[c] = bz[c], channel2[c] = channel[c], box2[c] = box[c], p2[c] = p[c],
           bz[c] # NoRun => b.status[bz[c]] = a.status[bz[c]],
           \A r \in Runs : sends[r] # NotSending /\ sends[r].to = c =>
               b.status[r] = a.status[r] /\ sends2[r] = sends[r],
           \A i \in 1 .. Len(channel[c]) : IsAssign(channel, c, i) => channel[c][i].run \in Runs
    PROVE  ConnInv(b, bz2, sends2, channel2, box2, p2, c)
<1>1. Listened(p, c) = Listened(p2, c)
    BY DEF Listened
<1>2. \A i : IsAssign(channel, c, i) = IsAssign(channel2, c, i)
    BY DEF IsAssign
<1>3. bz[c] # NoRun => Answers(b, bz[c]) = Answers(a, bz[c])
    BY DEF Answers
<1>4. ASSUME link[c] = "up", NEW i \in 1 .. Len(channel2[c]), IsAssign(channel2, c, i)
      PROVE  AssignInv(b, bz2, sends2, channel2, box2, c, i)
    <2> DEFINE r == channel[c][i].run
    <2>1. AssignInv(a, bz, sends, channel, box, c, i) /\ r \in Runs /\ r # NoRun
        BY <1>2, <1>4 DEF ConnInv, Runs, NoRun
    <2>2. b.status[r] = "assigned"
        BY <2>1 DEF AssignInv
    <2>3. \/ bz2[c] = r
          \/ sends2[r] # NotSending /\ sends2[r].to = c
        BY <2>1 DEF AssignInv
    <2> QED
        BY <1>2, <2>1, <2>2, <2>3 DEF AssignInv
<1>5. ASSUME link[c] = "up", NEW r \in Runs, WorksOn(c, r)
      PROVE  TaskInv(b, bz2, box2, c, r)
    <2>1. TaskInv(a, bz, box, c, r) /\ r # NoRun
        BY <1>5 DEF ConnInv, Runs, NoRun
    <2> QED
        BY <2>1 DEF TaskInv
<1> QED
    BY <1>1, <1>3, <1>4, <1>5 DEF ConnInv

\* dispatch_pending keeps what is said of runs and sessions, and leaves no connection
\* out: it returns when none can take a run, or goes on with the ones it has not tried.
LEMMA DispatchKeepsSessions ==
    ASSUME NEW reg \in Registry, NEW bz \in [Conns -> Runs \union {NoRun}],
           NEW channel \in [Conns -> Seq(Messages)], AssignsOn(reg, channel),
           NEW open \in [Runs -> Sends \union {NotSending}], NothingSent(open),
           NEW box, NEW p, SessionsInv(reg, bz, open, channel, box, p),
           NEW rest \in SUBSET Conns, \A k \in rest : bz[k] = NoRun,
           NEW progress \in BOOLEAN, NEW by \in Conns \union {NoConn},
           \A c \in Conns : p[c] = "serving" => registered[DaemonOf(c)] = c[2],
           progress \/ Covered(reg, bz, p, rest),
           Dispatch(reg, bz, channel, open, rest, progress, by)
    PROVE  /\ SessionsInv(rt', bz, sending', down', box, p)
           /\ IdleInv(rt', bz, sending', p)
<1>1. ASSUME NEW k \in Conns, NEW i \in 1 .. Len(channel[k]), IsAssign(channel, k, i)
      PROVE  channel[k][i].run \in Runs
    BY <1>1 DEF AssignsOn, IsAssign
<1>2. CASE DispatchEnds(reg, bz, channel, open, rest, progress)
    <2>1. /\ sending' = open /\ down' = channel
          /\ rt'.status = reg.status /\ rt'.executor = reg.executor
          /\ rt'.run_events = reg.run_events
          /\ \A d : Waiting(rt', d) = Waiting(reg, d)
        BY <1>2, ScannedList DEF DispatchEnds
    <2>2. ToldInv(rt', open)
        BY <2>1 DEF SessionsInv, ToldInv
    <2>3. BusyInv(rt', bz, open)
        BY <2>1 DEF SessionsInv, BusyInv, Underway
    <2>4. ASSUME NEW c \in Conns PROVE ConnInv(rt', bz, open, channel, box, p, c)
        <3>1. ConnInv(reg, bz, open, channel, box, p, c)
            BY DEF SessionsInv
        <3>2. \A r \in Runs : rt'.status[r] = reg.status[r]
            BY <2>1
        <3>3. bz[c] # NoRun => rt'.status[bz[c]] = reg.status[bz[c]]
            BY <2>1
        <3> QED
            BY <1>1, <3>1, <3>2, <3>3, ConnFrame
    <2>5. Covered(reg, bz, p, {})
        <3>1. CASE progress
            BY <1>2, <3>1 DEF DispatchEnds, Available, Covered
        <3>2. CASE Covered(reg, bz, p, rest)
            BY <1>2, <3>2 DEF DispatchEnds, Covered
        <3> QED
            BY <3>1, <3>2
    <2>6. Covered(rt', bz, p, {})
        BY <2>1, <2>5, CoveredFrame
    <2>7. IdleInv(rt', bz, open, p)
        BY <2>6 DEF IdleInv, NothingSent
    <2> QED
        BY <2>1, <2>2, <2>3, <2>4, <2>7 DEF SessionsInv
<1>3. ASSUME NEW to \in Conns, NEW r \in Runs, NEW more \in SUBSET Conns, NEW again \in BOOLEAN,
             NEW scanned \in {reg, ClaimNothing(reg)},
             DispatchSends(reg, bz, channel, open, rest, progress, by,
                           to, r, more, again, scanned)
      PROVE  /\ SessionsInv(rt', bz, sending', down', box, p)
             /\ IdleInv(rt', bz, sending', p)
    <2> DEFINE s == [to |-> to, rest |-> more, progress |-> progress /\ ~again,
                     by |-> by, doomed |-> link[to] = "closed"]
    <2>1. /\ r \in Waiting(reg, DaemonOf(to))
          /\ rt' = ClaimRun(scanned, r)
          /\ sending' = [open EXCEPT ![r] = s]
          /\ down' = Deliver(channel, to, Message("run.assign", r))
          /\ to \notin more
          /\ again => progress
          /\ {to} \union more \subseteq IF again THEN Available(bz) ELSE rest
          /\ \A k \in IF again THEN Available(bz) ELSE rest :
                k \in {to} \union more \/ Waiting(reg, DaemonOf(k)) = {}
        BY <1>3 DEF DispatchSends
    <2>2. s # NotSending
        <3>1. s \in Sends
            BY DEF Sends
        <3> QED
            BY <3>1, SendsAreNot
    <2>3. s.to = to /\ s.rest = more /\ s.progress = (progress /\ ~again)
        OBVIOUS
    <2>4. \A q \in Runs : sending'[q] = IF q = r THEN s ELSE NotSending
        BY <2>1 DEF NothingSent
    <2> HIDE DEF s
    <2>5. /\ reg.status[r] = "queued"
          /\ rt'.executor = reg.executor /\ rt'.run_events = reg.run_events
          /\ \A q \in Runs : rt'.status[q] = IF q = r THEN "assigned" ELSE reg.status[q]
          /\ \A d : Waiting(rt', d) \subseteq Waiting(reg, d)
        <3>1. r \in Waiting(reg, DaemonOf(to)) /\ rt' = ClaimRun(scanned, r)
            BY <2>1
        <3>2. /\ rt'.executor = reg.executor /\ rt'.run_events = reg.run_events
              /\ \A q \in Runs : rt'.status[q] = IF q = r THEN "assigned" ELSE reg.status[q]
              /\ \A d : Waiting(rt', d) \subseteq Waiting(reg, d)
            BY <3>1, HandedOut
        <3> QED
            BY <3>1, <3>2 DEF Waiting
    <2>6. \A k \in {to} \union more : bz[k] = NoRun
        <3>1. \A k \in Available(bz) : bz[k] = NoRun
            BY DEF Available
        <3> QED
            BY <2>1, <3>1
    <2>7. \A c \in Conns : bz[c] # r
        <3>1. ~Underway(reg, r) /\ r # NoRun
            BY <2>5 DEF Underway, Runs, NoRun
        <3> QED
            BY <3>1 DEF SessionsInv, BusyInv
    <2>8. ToldInv(rt', sending')
        BY <2>2, <2>4, <2>5 DEF SessionsInv, ToldInv, NothingSent
    <2>9. BusyInv(rt', bz, sending')
        <3>1. \A q \in Runs : Underway(rt', q) => sending'[q] # NotSending \/ \E c \in Conns : bz[c] = q
            BY <2>2, <2>4, <2>5 DEF SessionsInv, BusyInv, Underway, NothingSent
        <3>2. \A c \in Conns : bz[c] # NoRun =>
                  /\ Underway(rt', bz[c])
                  /\ rt'.executor[bz[c]] = DaemonOf(c)
                  /\ sending'[bz[c]] = NotSending
            BY <2>4, <2>5, <2>7 DEF SessionsInv, BusyInv, Underway
        <3>3. \A c, k \in Conns : bz[c] # NoRun /\ bz[c] = bz[k] => c = k
            BY DEF SessionsInv, BusyInv
        <3>4. \A q \in Runs : sending'[q] # NotSending =>
                  /\ rt'.status[q] = "assigned"
                  /\ bz[sending'[q].to] = NoRun
                  /\ \A k \in sending'[q].rest : bz[k] = NoRun /\ k # sending'[q].to
            BY <2>1, <2>3, <2>4, <2>5, <2>6
        <3>5. \A q, z \in Runs : sending'[q] # NotSending /\ sending'[z] # NotSending => q = z
            BY <2>4
        <3> QED
            BY <3>1, <3>2, <3>3, <3>4, <3>5 DEF BusyInv
    <2>10. ASSUME NEW c \in Conns, c # to PROVE ConnInv(rt', bz, sending', down', box, p, c)
        <3>1. ConnInv(reg, bz, open, channel, box, p, c)
            BY DEF SessionsInv
        <3>2. down'[c] = channel[c]
            BY <2>1, <2>10 DEF Deliver
        <3>3. bz[c] # NoRun => rt'.status[bz[c]] = reg.status[bz[c]]
            BY <2>5, <2>7
        <3> QED
            BY <1>1, <3>1, <3>2, <3>3, ConnFrame DEF NothingSent
    <2>11. ConnInv(rt', bz, sending', down', box, p, to)
        <3>1. ConnInv(reg, bz, open, channel, box, p, to) /\ bz[to] = NoRun
            BY <2>6 DEF SessionsInv
        <3>2. \A q \in Runs : q # NoRun
            BY DEF Runs, NoRun
        <3>3. CASE link[to] = "up"
            <4>1. Listened(p, to) /\ box[to] = <<>>
                BY <3>1, <3>3 DEF ConnInv
            <4>2. \A q \in Runs : ~WorksOn(to, q)
                BY <3>1, <3>2, <3>3 DEF ConnInv, TaskInv
            <4>3. \A i \in 1 .. Len(channel[to]) : ~IsAssign(channel, to, i)
                BY <1>1, <3>1, <3>2, <3>3 DEF ConnInv, AssignInv, NothingSent
            <4>4. down'[to] = Append(channel[to], Message("run.assign", r))
                BY <2>1, <3>3 DEF Deliver
            <4>5. /\ Len(down'[to]) = Len(channel[to]) + 1 /\ Len(channel[to]) \in Nat
                  /\ \A i \in 1 .. Len(channel[to]) : down'[to][i] = channel[to][i]
                  /\ down'[to][Len(channel[to]) + 1] = Message("run.assign", r)
                BY <4>4
            <4>6. ASSUME NEW i \in 1 .. Len(down'[to]), IsAssign(down', to, i)
                  PROVE  i = Len(channel[to]) + 1 /\ down'[to][i].run = r
                <5>1. CASE i \in 1 .. Len(channel[to])
                    BY <4>3, <4>5, <4>6, <5>1 DEF IsAssign
                <5>2. CASE i = Len(channel[to]) + 1
                    BY <4>5, <5>2 DEF Message
                <5> QED
                    BY <4>5, <5>1, <5>2
            <4>7. ASSUME NEW i \in 1 .. Len(down'[to]), IsAssign(down', to, i)
                  PROVE  AssignInv(rt', bz, sending', down', box, to, i)
                <5>1. down'[to][i].run = r /\ sending'[r].to = to /\ sending'[r] # NotSending
                      /\ rt'.status[r] = "assigned"
                    BY <2>2, <2>3, <2>4, <2>5, <4>6, <4>7
                <5>2. \A j \in 1 .. Len(down'[to]) : IsAssign(down', to, j) => i = j
                    BY <4>6, <4>7
                <5> QED
                    BY <4>1, <4>2, <5>1, <5>2 DEF AssignInv
            <4> QED
                BY <3>1, <3>3, <4>1, <4>2, <4>7 DEF ConnInv, Listened
        <3>4. CASE link[to] # "up"
            <4>1. down'[to] = channel[to]
                BY <2>1, <3>4 DEF Deliver
            <4> QED
                BY <3>1, <3>4, <4>1 DEF ConnInv
        <3> QED
            BY <3>3, <3>4
    <2>12. IdleInv(rt', bz, sending', p)
        <3>1. ~NothingSent(sending')
            BY <2>2, <2>4 DEF NothingSent
        <3>2. ASSUME ~s.progress PROVE Covered(reg, bz, p, {to} \union more)
            <4>1. CASE again
                BY <2>1, <4>1 DEF Available, Covered
            <4>2. CASE ~again
                <5>1. Covered(reg, bz, p, rest)
                    BY <2>3, <3>2, <4>2
                <5> QED
                    BY <2>1, <4>2, <5>1 DEF Covered
            <4> QED
                BY <4>1, <4>2
        <3>3. ASSUME NEW q \in Runs, sending'[q] # NotSending, ~sending'[q].progress
              PROVE  Covered(rt', bz, p, {sending'[q].to} \union sending'[q].rest)
            <4>1. sending'[q] = s
                BY <2>4, <3>3
            <4>2. Covered(reg, bz, p, {to} \union more)
                BY <3>2, <3>3, <4>1
            <4>3. Covered(rt', bz, p, {to} \union more)
                BY <2>5, <4>2, CoveredFrame
            <4> QED
                BY <2>3, <4>1, <4>3
        <3> QED
            BY <3>1, <3>3 DEF IdleInv
    <2> QED
        BY <2>8, <2>9, <2>10, <2>11, <2>12 DEF SessionsInv
<1>4. \/ DispatchEnds(reg, bz, channel, open, rest, progress)
      \/ \E to \in Conns, r \in Runs, more \in SUBSET Conns, again \in BOOLEAN,
            scanned \in {reg, ClaimNothing(reg)} :
            DispatchSends(reg, bz, channel, open, rest, progress, by,
                          to, r, more, again, scanned)
    BY DispatchOutcome
<1>5. CASE \E to \in Conns, r \in Runs, more \in SUBSET Conns, again \in BOOLEAN,
            scanned \in {reg, ClaimNothing(reg)} :
            DispatchSends(reg, bz, channel, open, rest, progress, by,
                          to, r, more, again, scanned)
    BY <1>3, <1>5
<1> QED
    BY <1>2, <1>4, <1>5
-----------------------------------------------------------------------------
(* What the operations that handlers compose do to every run.                *)

Same(a, b, q) ==
    b.status[q] = a.status[q] /\ b.executor[q] = a.executor[q] /\ b.run_events[q] = a.run_events[q]
Shed(a, b, q) == Terminal(a, q) /\ b.status[q] = "absent" /\ b.run_events[q] = <<>>

\* No run starts to wait when none is queued that was not.
LEMMA WaitingShrinks ==
    ASSUME NEW a \in Registry, NEW b \in Registry, b.queued_runs \subseteq a.queued_runs,
           \A q \in Runs : b.status[q] = "queued" =>
               a.status[q] = "queued" /\ b.session[q] = a.session[q]
    PROVE  \A d : Waiting(b, d) \subseteq Waiting(a, d)
<1>1. b.queued_runs \subseteq Runs
    BY RegistryFields
<1> QED
    BY <1>1 DEF Waiting

\* How a handler ends a run: the others stay as they are, or are pruned.
LEMMA EndedAndTold ==
    ASSUME NEW reg \in Registry, RegistryInv(reg), NEW r \in Runs, Present(reg, r),
           NEW status \in TERMINAL_RUN_STATUSES, NEW type \in TerminalEvents,
           NEW after, after = StoreRunEvent(MarkRunTerminal(reg, r, status), r, type)
    PROVE  /\ after \in Registry /\ Evolves(reg, after) /\ RegistryInv(after)
           /\ after.created = reg.created
           /\ after.status[r] = status /\ after.run_events[r] = Append(reg.run_events[r], type)
           /\ \A q \in Runs : q # r => Same(reg, after, q) \/ Shed(reg, after, q)
           /\ \A d : Waiting(after, d) \subseteq Waiting(reg, d)
<1>1. PICK marked : marked = MarkRunTerminal(reg, r, status)
    OBVIOUS
<1>2. /\ marked.created = reg.created /\ marked.queued_runs \subseteq reg.queued_runs
      /\ marked.status[r] = status /\ marked.run_events[r] = reg.run_events[r]
      /\ \A q \in Runs \ {r} :
            \/ /\ marked.status[q] = reg.status[q] /\ marked.session[q] = reg.session[q]
               /\ marked.executor[q] = reg.executor[q]
               /\ marked.run_events[q] = reg.run_events[q]
            \/ /\ Terminal(reg, q)
               /\ marked.status[q] = "absent" /\ marked.run_events[q] = <<>>
      /\ RegistryInv(marked)
    BY <1>1, EndedRun
<1>3. marked \in Registry
    BY <1>1, MarkRunTerminalEvolves DEF Evolves
<1>4. /\ after.created = marked.created /\ after.queued_runs = marked.queued_runs
      /\ after.status = marked.status /\ after.session = marked.session
      /\ after.executor = marked.executor
      /\ after.run_events[r] = Append(marked.run_events[r], type)
      /\ \A q \in Runs \ {r} : after.run_events[q] = marked.run_events[q]
      /\ RegistryInv(after)
    <2>1. after = StoreRunEvent(marked, r, type) /\ RegistryInv(marked)
        BY <1>1, <1>2
    <2> QED
        BY <1>3, <2>1, StoredEvent
<1>5. after \in Registry /\ Evolves(reg, after)
    BY EndedEvolves DEF Evolves
<1>6. \A q \in Runs : q # r => Same(reg, after, q) \/ Shed(reg, after, q)
    BY <1>2, <1>4 DEF Same, Shed
<1>7. \A d : Waiting(after, d) \subseteq Waiting(reg, d)
    <2>1. \A q \in Runs : after.status[q] = "queued" =>
              reg.status[q] = "queued" /\ after.session[q] = reg.session[q]
        BY <1>2, <1>4 DEF TERMINAL_RUN_STATUSES
    <2> QED
        BY <1>2, <1>4, <1>5, <2>1, WaitingShrinks
<1> QED
    BY <1>2, <1>4, <1>5, <1>6, <1>7

\* How a handler marks a run assigned or running.
LEMMA MarkedAndTold ==
    ASSUME NEW reg \in Registry, RegistryInv(reg), NEW r \in Runs, Present(reg, r),
           NEW d \in Daemons, NEW status \in {"assigned", "running"},
           NEW marked,
           marked = IF status = "assigned" THEN MarkRunAssigned(reg, r, d)
                    ELSE MarkRunStarted(reg, r, d),
           NEW type \in LifecycleEvents, NEW after, after = StoreRunEvent(marked, r, type)
    PROVE  /\ after \in Registry /\ Evolves(reg, after) /\ RegistryInv(after)
           /\ after.created = reg.created
           /\ after.status[r] = status /\ after.executor[r] = d
           /\ after.run_events[r] = Append(reg.run_events[r], type)
           /\ \A q \in Runs : q # r => Same(reg, after, q)
           /\ \A k : Waiting(after, k) \subseteq Waiting(reg, k)
<1>1. Evolves(reg, marked) /\ RegistryInv(marked) /\ marked \in Registry
    <2>1. CASE status = "assigned"
        BY <2>1, MarkRunAssignedEvolves, MarksKeepRegistryInv DEF Evolves
    <2>2. CASE status = "running"
        BY <2>2, MarkRunStartedEvolves, MarksKeepRegistryInv DEF Evolves
    <2> QED
        BY <2>1, <2>2
<1>2. /\ marked.created = reg.created /\ marked.session = reg.session
      /\ marked.queued_runs = reg.queued_runs /\ marked.run_events = reg.run_events
      /\ marked.status = [reg.status EXCEPT ![r] = status]
      /\ marked.executor = [reg.executor EXCEPT ![r] = d]
    BY DEF MarkRunAssigned, MarkRunStarted, Registry
<1>3. /\ \A q \in Runs : marked.status[q] = IF q = r THEN status ELSE reg.status[q]
      /\ \A q \in Runs : marked.executor[q] = IF q = r THEN d ELSE reg.executor[q]
    BY <1>2, RegistryFields
<1>4. /\ after.created = marked.created /\ after.queued_runs = marked.queued_runs
      /\ after.status = marked.status /\ after.session = marked.session
      /\ after.executor = marked.executor
      /\ after.run_events[r] = Append(marked.run_events[r], type)
      /\ \A q \in Runs \ {r} : after.run_events[q] = marked.run_events[q]
      /\ RegistryInv(after)
    BY <1>1, StoredEvent
<1>5. Evolves(reg, after) /\ after \in Registry
    <2>1. Evolves(marked, after)
        BY <1>1, StoreRunEventEvolves
    <2> QED
        BY <1>1, <2>1, EvolvesTransitive DEF Evolves
<1>6. \A q \in Runs : q # r => Same(reg, after, q)
    BY <1>2, <1>3, <1>4 DEF Same
<1>7. \A k : Waiting(after, k) \subseteq Waiting(reg, k)
    <2>1. \A q \in Runs : after.status[q] = "queued" =>
              reg.status[q] = "queued" /\ after.session[q] = reg.session[q]
        BY <1>2, <1>3, <1>4
    <2> QED
        BY <1>2, <1>4, <1>5, <2>1, WaitingShrinks
<1> QED
    BY <1>2, <1>3, <1>4, <1>5, <1>6, <1>7

\* How a message makes a run.
LEMMA CreatedAndTold ==
    ASSUME NEW reg \in Registry, RegistryInv(reg), NEW s \in Sessions, reg.created < MaxRuns,
           NEW r, r = NextRun(reg),
           NEW after, after = StoreRunEvent(CreateRun(reg, s), r, "run.queued")
    PROVE  /\ after \in Registry /\ Evolves(reg, after) /\ RegistryInv(after)
           /\ r \in Runs /\ after.created = r /\ r = reg.created + 1
           /\ reg.status[r] = "absent" /\ after.status[r] = "queued"
           /\ after.run_events[r] = Append(reg.run_events[r], "run.queued")
           /\ \A q \in Runs : q # r => Same(reg, after, q)
<1>1. PICK made : made = CreateRun(reg, s)
    OBVIOUS
<1>2. /\ r \in Runs /\ reg.status[r] = "absent"
      /\ made.created = r /\ r = reg.created + 1
      /\ made.status = [reg.status EXCEPT ![r] = "queued"]
      /\ made.executor = reg.executor /\ made.run_events = reg.run_events
      /\ RegistryInv(made)
    BY <1>1, CreatedRun
<1>3. \A q \in Runs : made.status[q] = IF q = r THEN "queued" ELSE reg.status[q]
    BY <1>2, RegistryFields
<1>4. Evolves(reg, made) /\ made \in Registry
    BY <1>1, CreateRunEvolves DEF Evolves
<1>5. /\ after.created = made.created /\ after.status = made.status
      /\ after.executor = made.executor
      /\ after.run_events[r] = Append(made.run_events[r], "run.queued")
      /\ \A q \in Runs \ {r} : after.run_events[q] = made.run_events[q]
      /\ RegistryInv(after)
    <2>1. after = StoreRunEvent(made, r, "run.queued") /\ RegistryInv(made) /\ r \in Runs
        BY <1>1, <1>2
    <2> QED
        BY <1>4, <2>1, StoredEvent
<1>6. Evolves(reg, after) /\ after \in Registry
    <2>1. Evolves(made, after)
        BY <1>1, <1>2, <1>4, StoreRunEventEvolves DEF LifecycleEvents
    <2> QED
        BY <1>4, <2>1, EvolvesTransitive DEF Evolves
<1>7. \A q \in Runs : q # r => Same(reg, after, q)
    BY <1>2, <1>3, <1>5 DEF Same
<1> QED
    BY <1>2, <1>3, <1>5, <1>6, <1>7
-----------------------------------------------------------------------------
(* How a step moves one run, in the words of RunLifecycle.                   *)

Moved(a, b, q) ==
    \/ /\ a.status[q] = "absent" /\ q > a.created
       /\ b.status[q] \in {"queued", "assigned"}
       /\ b.run_events[q] = Append(a.run_events[q], "run.queued")
    \/ /\ a.status[q] = "queued" /\ b.status[q] = "assigned"
       /\ b.run_events[q] = a.run_events[q]
    \/ /\ a.status[q] = "assigned" /\ a.run_events[q] = <<"run.queued">>
       /\ b.status[q] = "assigned"
       /\ b.run_events[q] = Append(a.run_events[q], "run.started")
    \/ /\ a.status[q] = "assigned" /\ a.run_events[q] = <<"run.queued", "run.started">>
       /\ b.status[q] = "running"
       /\ b.run_events[q] = Append(a.run_events[q], "run.accepted")
    \/ /\ a.status[q] = "queued" /\ b.status[q] = "cancelled"
       /\ b.run_events[q] = Append(a.run_events[q], "run.completed")
    \/ /\ a.status[q] = "running" /\ b.status[q] \in {"completed", "cancelled"}
       /\ b.run_events[q] = Append(a.run_events[q], "run.completed")
    \/ /\ a.status[q] \in {"assigned", "running"}
       /\ b.status[q] \in {"failed", "executor_disconnected"}
       /\ b.run_events[q] = Append(a.run_events[q], "run.error")
    \/ /\ Terminal(a, q)
       /\ b.status[q] = "absent" /\ q <= b.created
       /\ b.run_events[q] = <<>>
    \/ /\ b.status[q] = a.status[q]
       /\ b.status[q] = "absent" => (q > a.created <=> q > b.created)
       /\ b.run_events[q] = a.run_events[q]

\* Runs that an operation leaves alone, or prunes, move as they may.
LEMMA OthersMove ==
    ASSUME NEW a \in Registry, NEW b \in Registry, RegistryInv(a), b.created = a.created,
           NEW q \in Runs, Same(a, b, q) \/ Shed(a, b, q)
    PROVE  Moved(a, b, q)
<1>1. CASE Same(a, b, q)
    BY <1>1 DEF Same, Moved
<1>2. CASE Shed(a, b, q)
    <2>1. Present(a, q)
        BY <1>2 DEF Shed, Terminal, Present, TERMINAL_RUN_STATUSES
    <2> QED
        BY <1>2, <2>1 DEF Shed, Moved, RegistryInv
<1> QED
    BY <1>1, <1>2

\* dispatch_pending moves one queued run at most, which may have been created just now.
LEMMA DispatchMoves ==
    ASSUME NEW a \in Registry, NEW reg \in Registry, \A q \in Runs : Moved(a, reg, q),
           NEW bz, NEW channel, NEW open, NEW rest \in SUBSET Conns, NEW progress \in BOOLEAN,
           NEW by, Dispatch(reg, bz, channel, open, rest, progress, by)
    PROVE  \A q \in Runs : Moved(a, rt', q)
<1>1. \/ /\ rt'.status = reg.status /\ rt'.run_events = reg.run_events
         /\ rt'.created = reg.created
      \/ \E r \in Runs : /\ reg.status[r] = "queued"
                         /\ \A q \in Runs : rt'.status[q] = IF q = r THEN "assigned" ELSE reg.status[q]
                         /\ rt'.run_events = reg.run_events /\ rt'.created = reg.created
    <2>1. CASE DispatchEnds(reg, bz, channel, open, rest, progress)
        BY <2>1, ScannedList DEF DispatchEnds
    <2>2. CASE \E c \in Conns, r \in Runs, more \in SUBSET Conns, again \in BOOLEAN,
                 scanned \in {reg, ClaimNothing(reg)} :
                 DispatchSends(reg, bz, channel, open, rest, progress, by,
                               c, r, more, again, scanned)
        <3>1. PICK c \in Conns, r \in Runs, more \in SUBSET Conns, again \in BOOLEAN,
                   scanned \in {reg, ClaimNothing(reg)} :
                   DispatchSends(reg, bz, channel, open, rest, progress, by,
                                 c, r, more, again, scanned)
            BY <2>2
        <3>2. r \in Waiting(reg, DaemonOf(c)) /\ rt' = ClaimRun(scanned, r)
            BY <3>1 DEF DispatchSends
        <3>3. /\ rt'.run_events = reg.run_events /\ rt'.created = reg.created
              /\ \A q \in Runs : rt'.status[q] = IF q = r THEN "assigned" ELSE reg.status[q]
            BY <3>2, HandedOut
        <3> QED
            BY <3>2, <3>3 DEF Waiting
    <2>3. \/ DispatchEnds(reg, bz, channel, open, rest, progress)
          \/ \E c \in Conns, r \in Runs, more \in SUBSET Conns, again \in BOOLEAN,
                 scanned \in {reg, ClaimNothing(reg)} :
                 DispatchSends(reg, bz, channel, open, rest, progress, by,
                               c, r, more, again, scanned)
        BY DispatchOutcome
    <2> QED
        BY <2>1, <2>2, <2>3
<1>2. CASE /\ rt'.status = reg.status /\ rt'.run_events = reg.run_events
           /\ rt'.created = reg.created
    BY <1>2 DEF Moved, Terminal
<1>3. ASSUME NEW r \in Runs, reg.status[r] = "queued",
             \A q \in Runs : rt'.status[q] = IF q = r THEN "assigned" ELSE reg.status[q],
             rt'.run_events = reg.run_events, rt'.created = reg.created,
             NEW q \in Runs
      PROVE  Moved(a, rt', q)
    <2>1. CASE q = r
        <3>1. \/ /\ a.status[q] = "absent" /\ q > a.created
                 /\ reg.run_events[q] = Append(a.run_events[q], "run.queued")
              \/ a.status[q] = "queued" /\ reg.run_events[q] = a.run_events[q]
            <4>1. reg.status[q] = "queued" /\ Moved(a, reg, q)
                BY <1>3, <2>1
            <4> QED
                BY <4>1 DEF Moved
        <3>2. rt'.status[q] = "assigned" /\ rt'.run_events[q] = reg.run_events[q]
            BY <1>3, <2>1
        <3> QED
            BY <3>1, <3>2 DEF Moved
    <2>2. CASE q # r
        <3>1. rt'.status[q] = reg.status[q] /\ rt'.run_events[q] = reg.run_events[q]
            BY <1>3, <2>2
        <3> QED
            BY <1>3, <3>1 DEF Moved
    <2> QED
        BY <2>1, <2>2
<1> QED
    BY <1>1, <1>2, <1>3

\* A step leaves a connection as it is, but for what happened to the tasks of others.
LEMMA ConnCarries ==
    ASSUME NEW c \in Conns, NEW reg, NEW bz, NEW sends, NEW channel, NEW box, NEW p,
           ConnInv(reg, bz, sends, channel, box, p, c),
           rt' = reg, sending' = sends, busy'[c] = bz[c], down'[c] = channel[c],
           inbox'[c] = box[c], pc'[c] = p[c], link'[c] = link[c],
           \A r \in Runs : WorksOn(c, r)' => WorksOn(c, r) /\ work'[r] = work[r]
    PROVE  ConnInv(rt, busy, sending, down, inbox, pc, c)'
<1>1. Listened(pc, c)' = Listened(p, c)
    BY DEF Listened
<1>2. \A i : IsAssign(down, c, i)' = IsAssign(channel, c, i)
    BY DEF IsAssign
<1>3. bz[c] # NoRun => Answers(rt, busy[c])' = Answers(reg, bz[c])
    BY DEF Answers
<1>4. ASSUME NEW i \in 1 .. Len(channel[c]), AssignInv(reg, bz, sends, channel, box, c, i)
      PROVE  AssignInv(rt, busy, sending, down, inbox, c, i)'
    BY <1>2, <1>4 DEF AssignInv
<1>5. ASSUME NEW r \in Runs, WorksOn(c, r)', TaskInv(reg, bz, box, c, r)
      PROVE  TaskInv(rt, busy, inbox, c, r)'
    BY <1>5 DEF TaskInv
<1> QED
    BY <1>1, <1>2, <1>3, <1>4, <1>5 DEF ConnInv
-----------------------------------------------------------------------------
(* Parts that the steps have in common.                                      *)

\* The end of a handler that calls dispatch_pending.
LEMMA AfterDispatch ==
    ASSUME ServedIsRegistered', UNCHANGED <<registered, link, work, work_conn>>,
           NEW a \in Registry, NEW reg \in Registry, \A q \in Runs : Moved(a, reg, q),
           NEW bz \in [Conns -> Runs \union {NoRun}], busy' = bz,
           NEW channel \in [Conns -> Seq(Messages)], AssignsOn(reg, channel),
           NEW open \in [Runs -> Sends \union {NotSending}], NothingSent(open),
           NEW box, inbox' = box, NEW p, pc' = p,
           SessionsInv(reg, bz, open, channel, box, p),
           NEW rest \in SUBSET Conns, \A k \in rest : bz[k] = NoRun,
           NEW progress \in BOOLEAN, NEW by \in Conns \union {NoConn},
           progress \/ Covered(reg, bz, p, rest),
           Dispatch(reg, bz, channel, open, rest, progress, by)
    PROVE  /\ SessionsInv(rt, busy, sending, down, inbox, pc)'
           /\ IdleInv(rt, busy, sending, pc)'
           /\ \A q \in Runs : Moved(a, rt', q)
<1>1. \A c \in Conns : p[c] = "serving" => registered[DaemonOf(c)] = c[2]
    BY DEF ServedIsRegistered
<1>2. SessionsInv(rt', bz, sending', down', box, p) /\ IdleInv(rt', bz, sending', p)
    BY <1>1, DispatchKeepsSessions
<1>3. \A c \in Conns : ConnInv(rt, busy, sending, down, inbox, pc, c)'
    <2> SUFFICES ASSUME NEW c \in Conns PROVE ConnInv(rt, busy, sending, down, inbox, pc, c)'
        OBVIOUS
    <2>1. ConnInv(rt', bz, sending', down', box, p, c)
        BY <1>2 DEF SessionsInv
    <2>2. \A r \in Runs : WorksOn(c, r)' => WorksOn(c, r) /\ work'[r] = work[r]
        BY DEF WorksOn
    <2> QED
        BY <2>1, <2>2, ConnCarries
<1>4. SessionsInv(rt, busy, sending, down, inbox, pc)'
    <2>1. ToldInv(rt', sending') /\ BusyInv(rt', bz, sending')
        BY <1>2 DEF SessionsInv
    <2> QED
        BY <1>3, <2>1 DEF SessionsInv
<1>5. IdleInv(rt, busy, sending, pc)'
    BY <1>2 DEF IdleInv, Covered
<1>6. \A q \in Runs : Moved(a, rt', q)
    BY DispatchMoves
<1> QED
    BY <1>4, <1>5, <1>6

\* What the end of run r does to the other runs and to the sessions.
OthersKept(a, b, r) == \A q \in Runs : q # r => Same(a, b, q) \/ Shed(a, b, q)
OnlySent(sends, r) == \A q \in Runs : q # r => sends[q] = NotSending
Freed(bz, bz2, r) == \A c \in Conns : bz2[c] = IF bz[c] = r THEN NoRun ELSE bz[c]

\* A run ends: what is said of the others and of the sessions still holds when the
\* session that was busy with it is not any more.
LEMMA EndKeepsRuns ==
    ASSUME NEW reg, NEW after, NEW r \in Runs, NEW bz, NEW bz2, NEW sends, NEW sends2,
           bz \in [Conns -> Runs \union {NoRun}], NothingSent(sends2),
           ToldInv(reg, sends), BusyInv(reg, bz, sends), OnlySent(sends, r),
           after.status[r] \in TERMINAL_RUN_STATUSES,
           OthersKept(reg, after, r), Freed(bz, bz2, r)
    PROVE  ToldInv(after, sends2) /\ BusyInv(after, bz2, sends2)
<1> USE DEF OthersKept, OnlySent, Freed
<1>1. /\ \A q \in Runs : Terminal(reg, q) => ~Underway(reg, q)
      /\ ~Underway(after, r) /\ after.status[r] \notin {"absent", "queued", "assigned"}
      /\ \A q \in Runs : q # NoRun
    BY DEF Terminal, Underway, TERMINAL_RUN_STATUSES, Runs, NoRun
<1>2. ASSUME NEW q \in Runs
      PROVE  /\ after.status[q] = "absent" => after.run_events[q] = <<>>
             /\ after.status[q] = "queued" => after.run_events[q] = <<"run.queued">>
             /\ after.status[q] = "assigned" => after.run_events[q] = <<"run.queued", "run.started">>
    BY <1>1 DEF ToldInv, Same, Shed
<1>3. ToldInv(after, sends2)
    BY <1>2 DEF ToldInv, NothingSent
<1>4. \A q \in Runs : Underway(after, q) => \E c \in Conns : bz2[c] = q
    <2> SUFFICES ASSUME NEW q \in Runs, Underway(after, q) PROVE \E c \in Conns : bz2[c] = q
        OBVIOUS
    <2>1. q # r /\ Underway(reg, q) /\ sends[q] = NotSending
        BY <1>1 DEF Underway, Same, Shed
    <2> QED
        BY <2>1 DEF BusyInv
<1>5. ASSUME NEW c \in Conns, bz2[c] # NoRun
      PROVE  /\ Underway(after, bz2[c])
             /\ after.executor[bz2[c]] = DaemonOf(c)
    <2>1. bz2[c] = bz[c] /\ bz[c] # r /\ bz[c] \in Runs
        BY <1>5
    <2>2. Underway(reg, bz[c]) /\ reg.executor[bz[c]] = DaemonOf(c)
        BY <1>5, <2>1 DEF BusyInv
    <2>3. Same(reg, after, bz[c])
        BY <1>1, <2>1, <2>2 DEF Shed
    <2> QED
        BY <2>1, <2>2, <2>3 DEF Same, Underway
<1>6. \A c, k \in Conns : bz2[c] # NoRun /\ bz2[c] = bz2[k] => c = k
    BY DEF BusyInv
<1>7. \A c \in Conns : bz2[c] # NoRun => bz2[c] \in Runs
    OBVIOUS
<1> QED
    BY <1>3, <1>4, <1>5, <1>6, <1>7 DEF BusyInv, NothingSent

\* ... and so does what is said of a connection that had nothing to do with it.
LEMMA EndKeepsConn ==
    ASSUME NEW c \in Conns, NEW reg, NEW after, NEW r \in Runs, NEW bz, NEW bz2,
           NEW sends, NEW sends2, NEW channel, NEW box, NEW box2, NEW p, NEW p2,
           bz \in [Conns -> Runs \union {NoRun}],
           ConnInv(reg, bz, sends, channel, box, p, c),
           BusyInv(reg, bz, sends), AssignsOn(reg, channel),
           OnlySent(sends, r), sends[r] # NotSending => sends[r].to # c,
           OthersKept(reg, after, r),
           bz[c] # r, bz2[c] = bz[c], box2[c] = box[c], p2[c] = p[c]
    PROVE  ConnInv(after, bz2, sends2, channel, box2, p2, c)
<1> USE DEF OthersKept, OnlySent
<1>1. bz[c] # NoRun => after.status[bz[c]] = reg.status[bz[c]]
    <2> SUFFICES ASSUME bz[c] # NoRun PROVE after.status[bz[c]] = reg.status[bz[c]]
        OBVIOUS
    <2>1. bz[c] \in Runs /\ Underway(reg, bz[c])
        BY DEF BusyInv
    <2>2. ~Terminal(reg, bz[c])
        BY <2>1 DEF Terminal, Underway, TERMINAL_RUN_STATUSES
    <2> QED
        BY <2>1, <2>2 DEF Same, Shed
<1>2. \A q \in Runs : ~(sends[q] # NotSending /\ sends[q].to = c)
    OBVIOUS
<1>3. \A i \in 1 .. Len(channel[c]) : IsAssign(channel, c, i) => channel[c][i].run \in Runs
    BY DEF AssignsOn, IsAssign
<1> QED
    BY <1>1, <1>2, <1>3, ConnFrame
-----------------------------------------------------------------------------
(* The steps.                                                                *)

\* Nothing else happens while a run is being sent.
LEMMA FreeLoop ==
    ASSUME ~SendMaySuspend, LoopFree
    PROVE  NothingSent(sending)
BY DEF LoopFree, NothingSent, Suspended

\* Bytes are counted for the run of a session as long as it is busy with it.
LEMMA SendReturnsSess ==
    ASSUME ~SendMaySuspend, IInv, IInv', ServedIsRegistered', RegistryInv(rt), SessInv,
           NEW r \in Runs, SendReturns(r)
    PROVE  SessInv' /\ \A q \in Runs : Moved(rt, rt', q)
<1>1. /\ TypeOK /\ rt \in Registry /\ sending[r] \in Sends /\ sending[r] # NotSending
      /\ busy \in [Conns -> Runs \union {NoRun}]
    BY DEF IInv, TypeOK, SendReturns, Suspended
<1>2. PICK to, rest, by : to = sending[r].to /\ rest = sending[r].rest /\ by = sending[r].by
    OBVIOUS
<1>3. /\ to \in Conns /\ rest \in SUBSET Conns /\ by \in Conns \union {NoConn}
      /\ DaemonOf(to) \in Daemons
    BY <1>1, <1>2 DEF Sends, Conns, DaemonOf
<1>4. PICK reg : reg = StoreRunEvent(MarkRunAssigned(rt, r, DaemonOf(to)), r, "run.started")
    OBVIOUS
<1>5. PICK bz : bz = [busy EXCEPT ![to] = r]
    OBVIOUS
<1>6. PICK open : open = [sending EXCEPT ![r] = NotSending]
    OBVIOUS
<1>7. /\ link[to] # "closed"
      /\ busy' = bz
      /\ stream_bytes' = stream_bytes \union {r}
      /\ Dispatch(reg, bz, down, open, rest, TRUE, by)
      /\ UNCHANGED <<registered, pc, link, inbox, work, work_conn>>
    BY <1>2, <1>4, <1>5, <1>6 DEF SendReturns, connectorVars
<1>8. /\ rt.status[r] = "assigned" /\ busy[to] = NoRun
      /\ \A k \in rest : busy[k] = NoRun /\ k # to
      /\ \A q \in Runs : q # r => sending[q] = NotSending
      /\ rt.run_events[r] = <<"run.queued">>
    BY <1>1, <1>2 DEF SessInv, SessionsInv, BusyInv, ToldInv
<1>9. /\ reg \in Registry /\ Evolves(rt, reg)
      /\ reg.created = rt.created
      /\ reg.status[r] = "assigned" /\ reg.executor[r] = DaemonOf(to)
      /\ reg.run_events[r] = Append(rt.run_events[r], "run.started")
      /\ \A q \in Runs : q # r => Same(rt, reg, q)
    <2>1. Present(rt, r) /\ "run.started" \in LifecycleEvents
        BY <1>8 DEF Present, LifecycleEvents
    <2>2. PICK marked : marked = MarkRunAssigned(rt, r, DaemonOf(to))
        OBVIOUS
    <2> QED
        BY <1>1, <1>3, <1>4, <2>1, <2>2, MarkedAndTold
<1>10. NothingSent(open) /\ open \in [Runs -> Sends \union {NotSending}]
    BY <1>1, <1>6, <1>8 DEF NothingSent, TypeOK
<1>11. /\ bz \in [Conns -> Runs \union {NoRun}]
       /\ \A c \in Conns : bz[c] = IF c = to THEN r ELSE busy[c]
       /\ r # NoRun
    BY <1>1, <1>3, <1>5 DEF Runs, NoRun
<1>12. /\ AssignsOn(reg, down) /\ down \in [Conns -> Seq(Messages)]
    BY <1>1, <1>9, PlacesPersist DEF IInv, TypeOK
<1>13. \A c \in Conns : busy[c] # r
    BY <1>1, <1>11 DEF SessInv, SessionsInv, BusyInv
<1>14. ToldInv(reg, open)
    <2>1. reg.run_events[r] = <<"run.queued", "run.started">>
        <3>1. /\ rt.run_events[r] = <<"run.queued">>
              /\ reg.run_events[r] = Append(rt.run_events[r], "run.started")
            BY <1>8, <1>9
        <3> QED
            BY <3>1, AppendedPair, Zenon
    <2> QED
        BY <1>8, <1>9, <1>10, <2>1 DEF SessInv, SessionsInv, ToldInv, Same, NothingSent
<1>15. BusyInv(reg, bz, open)
    <2>1. ASSUME NEW q \in Runs, Underway(reg, q) PROVE \E c \in Conns : bz[c] = q
        <3>1. CASE q = r
            BY <1>3, <1>11, <3>1
        <3>2. CASE q # r
            <4>1. Underway(rt, q) /\ sending[q] = NotSending /\ q # NoRun
                BY <1>8, <1>9, <2>1, <3>2 DEF Underway, Same, Runs, NoRun
            <4>2. PICK c \in Conns : busy[c] = q
                BY <4>1 DEF SessInv, SessionsInv, BusyInv
            <4> QED
                BY <1>8, <1>11, <4>1, <4>2
        <3> QED
            BY <3>1, <3>2
    <2>2. \A c \in Conns : bz[c] # NoRun =>
              Underway(reg, bz[c]) /\ reg.executor[bz[c]] = DaemonOf(c)
        BY <1>1, <1>9, <1>11, <1>13 DEF SessInv, SessionsInv, BusyInv, Underway, Same
    <2>3. \A c, k \in Conns : bz[c] # NoRun /\ bz[c] = bz[k] => c = k
        BY <1>11, <1>13 DEF SessInv, SessionsInv, BusyInv
    <2>4. \A c \in Conns : bz[c] # NoRun => bz[c] \in Runs
        BY <1>11
    <2> QED
        BY <1>10, <2>1, <2>2, <2>3, <2>4 DEF BusyInv, NothingSent
<1>16. ASSUME NEW k \in Conns, NEW i \in 1 .. Len(down[k]), IsAssign(down, k, i)
       PROVE  down[k][i].run \in Runs
    BY <1>16 DEF IInv, AssignsOn, IsAssign
<1>17. ASSUME NEW c \in Conns, c # to PROVE ConnInv(reg, bz, open, down, inbox, pc, c)
    <2>1. ConnInv(rt, busy, sending, down, inbox, pc, c)
        BY DEF SessInv, SessionsInv
    <2>2. bz[c] = busy[c] /\ (busy[c] # NoRun => reg.status[busy[c]] = rt.status[busy[c]])
        BY <1>1, <1>9, <1>11, <1>13, <1>17 DEF Same
    <2>3. \A q \in Runs : ~(sending[q] # NotSending /\ sending[q].to = c)
        BY <1>2, <1>8, <1>17
    <2> QED
        BY <1>16, <2>1, <2>2, <2>3, ConnFrame
<1>18. ConnInv(reg, bz, open, down, inbox, pc, to)
    <2>1. ConnInv(rt, busy, sending, down, inbox, pc, to) /\ busy[to] = NoRun /\ bz[to] = r
        BY <1>3, <1>8, <1>11 DEF SessInv, SessionsInv
    <2>2. Listened(pc, to) => inbox[to] \in Answers(reg, bz[to])
        BY <1>9, <2>1 DEF ConnInv, Answers
    <2>3. ASSUME link[to] = "up", NEW i \in 1 .. Len(down[to]), IsAssign(down, to, i)
          PROVE  AssignInv(reg, bz, open, down, inbox, to, i)
        <3>1. AssignInv(rt, busy, sending, down, inbox, to, i)
            BY <2>1, <2>3 DEF ConnInv
        <3>2. down[to][i].run \in Runs /\ down[to][i].run # NoRun
            BY <1>3, <1>16, <2>3 DEF Runs, NoRun
        <3>3. down[to][i].run = r
            BY <1>8, <2>1, <3>1, <3>2 DEF AssignInv
        <3> QED
            BY <1>9, <2>1, <3>1, <3>3 DEF AssignInv
    <2>4. ASSUME link[to] = "up", NEW q \in Runs PROVE ~WorksOn(to, q)
        BY <2>1, <2>4 DEF ConnInv, TaskInv, Runs, NoRun
    <2> QED
        BY <2>1, <2>2, <2>3, <2>4 DEF ConnInv
<1>19. SessionsInv(reg, bz, open, down, inbox, pc)
    BY <1>14, <1>15, <1>17, <1>18 DEF SessionsInv
<1>20. \A q \in Runs : Moved(rt, reg, q)
    BY <1>8, <1>9 DEF Moved, Same
<1>21. \A k \in rest : bz[k] = NoRun
    BY <1>3, <1>8, <1>11
<1>22. /\ SessionsInv(rt, busy, sending, down, inbox, pc)'
       /\ IdleInv(rt, busy, sending, pc)'
       /\ \A q \in Runs : Moved(rt, rt', q)
    BY <1>1, <1>3, <1>7, <1>9, <1>10, <1>11, <1>12, <1>19, <1>20, <1>21, AfterDispatch
<1>23. BytesInv'
    <2>1. \A q \in stream_bytes : \E c \in Conns : busy[c] = q
        BY DEF SessInv, BytesInv
    <2>2. \A q \in stream_bytes : q # NoRun
        BY <1>1 DEF TypeOK, Runs, NoRun
    <2>3. \A q \in stream_bytes : \E c \in Conns : bz[c] = q
        BY <1>8, <1>11, <2>1, <2>2
    <2> QED
        BY <1>3, <1>7, <1>11, <2>3 DEF BytesInv
<1> QED
    BY <1>22, <1>23 DEF SessInv

\* The send raises: its run fails, and the loop goes on with the sessions it has.
LEMMA SendRaisesSess ==
    ASSUME ~SendMaySuspend, IInv, IInv', ServedIsRegistered', RegistryInv(rt), SessInv,
           NEW r \in Runs, SendRaises(r)
    PROVE  SessInv' /\ \A q \in Runs : Moved(rt, rt', q)
<1>1. /\ TypeOK /\ rt \in Registry /\ sending[r] \in Sends /\ sending[r] # NotSending
      /\ busy \in [Conns -> Runs \union {NoRun}]
    BY DEF IInv, TypeOK, SendRaises, Suspended
<1>2. PICK to, rest, by, progress :
          /\ to = sending[r].to /\ rest = sending[r].rest
          /\ by = sending[r].by /\ progress = sending[r].progress
    OBVIOUS
<1>3. /\ to \in Conns /\ rest \in SUBSET Conns /\ by \in Conns \union {NoConn}
      /\ progress \in BOOLEAN
    BY <1>1, <1>2 DEF Sends
<1>4. PICK reg : reg = StoreRunEvent(MarkRunTerminal(rt, r, "failed"), r, "run.error")
    OBVIOUS
<1>5. PICK open : open = [sending EXCEPT ![r] = NotSending]
    OBVIOUS
<1>6. /\ link[to] = "closed"
      /\ Dispatch(reg, busy, down, open, rest, progress, by)
      /\ UNCHANGED <<registered, pc, busy, stream_bytes, link, inbox, work, work_conn>>
    BY <1>2, <1>4, <1>5 DEF SendRaises, connectorVars
<1>7. /\ rt.status[r] = "assigned"
      /\ \A k \in rest : busy[k] = NoRun
      /\ \A q \in Runs : q # r => sending[q] = NotSending
      /\ \A c \in Conns : busy[c] # r
      /\ ToldInv(rt, sending) /\ BusyInv(rt, busy, sending)
    BY <1>1, <1>2 DEF SessInv, SessionsInv, BusyInv, Runs, NoRun
<1>8. /\ reg \in Registry /\ Evolves(rt, reg)
      /\ reg.created = rt.created
      /\ reg.status[r] = "failed" /\ reg.run_events[r] = Append(rt.run_events[r], "run.error")
      /\ \A q \in Runs : q # r => Same(rt, reg, q) \/ Shed(rt, reg, q)
      /\ \A d : Waiting(reg, d) \subseteq Waiting(rt, d)
    <2>1. /\ Present(rt, r) /\ "failed" \in TERMINAL_RUN_STATUSES
          /\ "run.error" \in TerminalEvents
        BY <1>7 DEF Present, TERMINAL_RUN_STATUSES, TerminalEvents
    <2> QED
        BY <1>1, <1>4, <2>1, EndedAndTold
<1>9. NothingSent(open) /\ open \in [Runs -> Sends \union {NotSending}]
    BY <1>1, <1>5, <1>7 DEF NothingSent, TypeOK
<1>10. /\ AssignsOn(reg, down) /\ down \in [Conns -> Seq(Messages)] /\ AssignsOn(rt, down)
    BY <1>1, <1>8, PlacesPersist DEF IInv, TypeOK
<1>11. ToldInv(reg, open) /\ BusyInv(reg, busy, open)
    <2>1. reg.status[r] \in TERMINAL_RUN_STATUSES
        BY <1>8 DEF TERMINAL_RUN_STATUSES
    <2>2. PICK bz2 : bz2 = busy
        OBVIOUS
    <2>3. \A c \in Conns : bz2[c] = IF busy[c] = r THEN NoRun ELSE busy[c]
        BY <1>7, <2>2
    <2>4. /\ OnlySent(sending, r) /\ OthersKept(rt, reg, r) /\ Freed(busy, bz2, r)
          /\ ToldInv(rt, sending) /\ BusyInv(rt, busy, sending)
        BY <1>7, <1>8, <2>3 DEF OnlySent, OthersKept, Freed
    <2>5. ToldInv(reg, open) /\ BusyInv(reg, bz2, open)
        BY <1>1, <1>9, <2>1, <2>4, EndKeepsRuns
    <2> QED
        BY <2>2, <2>5
<1>12. ASSUME NEW c \in Conns PROVE ConnInv(reg, busy, open, down, inbox, pc, c)
    <2>1. ConnInv(rt, busy, sending, down, inbox, pc, c)
        BY DEF SessInv, SessionsInv
    <2>2. CASE c # to
        <3>1. /\ OnlySent(sending, r) /\ OthersKept(rt, reg, r)
              /\ sending[r].to # c /\ busy[c] # r
            BY <1>2, <1>7, <1>8, <2>2 DEF OnlySent, OthersKept
        <3> QED
            BY <1>1, <1>7, <1>10, <2>1, <3>1, EndKeepsConn
    <2>3. CASE c = to
        <3>1. busy[c] = NoRun /\ link[c] = "closed"
            BY <1>1, <1>2, <1>6, <1>7, <2>3 DEF BusyInv
        <3> QED
            BY <2>1, <3>1 DEF ConnInv
    <2> QED
        BY <2>2, <2>3
<1>13. SessionsInv(reg, busy, open, down, inbox, pc)
    BY <1>11, <1>12 DEF SessionsInv
<1>14. \A q \in Runs : Moved(rt, reg, q)
    <2>1. Moved(rt, reg, r)
        BY <1>7, <1>8 DEF Moved
    <2> QED
        BY <1>1, <1>8, <2>1, OthersMove
<1>15. progress \/ Covered(reg, busy, pc, rest)
    <2> SUFFICES ASSUME ~progress PROVE Covered(reg, busy, pc, rest)
        OBVIOUS
    <2>1. Covered(rt, busy, pc, {to} \union rest)
        BY <1>1, <1>2 DEF SessInv, IdleInv
    <2>2. Covered(rt, busy, pc, rest)
        BY <1>6, <2>1 DEF Covered
    <2> QED
        BY <1>8, <2>2, CoveredFrame
<1>16. /\ SessionsInv(rt, busy, sending, down, inbox, pc)'
       /\ IdleInv(rt, busy, sending, pc)'
       /\ \A q \in Runs : Moved(rt, rt', q)
    BY <1>1, <1>3, <1>6, <1>7, <1>8, <1>9, <1>10, <1>13, <1>14, <1>15, AfterDispatch
<1>17. BytesInv'
    BY <1>6 DEF SessInv, BytesInv
<1> QED
    BY <1>16, <1>17 DEF SessInv

\* POST /v1/sessions/{s}/messages
LEMMA SendMessageSess ==
    ASSUME ~SendMaySuspend, IInv, IInv', ServedIsRegistered', RegistryInv(rt), SessInv,
           NEW s \in Sessions, SendMessage(s)
    PROVE  SessInv' /\ \A q \in Runs : Moved(rt, rt', q)
<1>1. /\ TypeOK /\ rt \in Registry /\ NothingSent(sending)
      /\ busy \in [Conns -> Runs \union {NoRun}]
    BY FreeLoop DEF IInv, TypeOK, SendMessage
<1>2. PICK r : r = NextRun(rt)
    OBVIOUS
<1>3. PICK reg : reg = StoreRunEvent(CreateRun(rt, s), r, "run.queued")
    OBVIOUS
<1>4. /\ rt.created < MaxRuns
      /\ Dispatch(reg, busy, down, sending, {}, TRUE, NoConn)
      /\ UNCHANGED <<registered, pc, busy, stream_bytes, link, inbox, work, work_conn>>
    BY <1>2, <1>3 DEF SendMessage, DispatchPending, connectorVars
<1>5. /\ reg \in Registry /\ Evolves(rt, reg)
      /\ r \in Runs /\ reg.created = r /\ r = rt.created + 1
      /\ rt.status[r] = "absent" /\ reg.status[r] = "queued"
      /\ reg.run_events[r] = Append(rt.run_events[r], "run.queued")
      /\ \A q \in Runs : q # r => Same(rt, reg, q)
    BY <1>1, <1>2, <1>3, <1>4, CreatedAndTold
<1>6. ToldInv(rt, sending) /\ BusyInv(rt, busy, sending)
    BY DEF SessInv, SessionsInv
<1>7. ToldInv(reg, sending)
    <2>1. reg.run_events[r] = <<"run.queued">>
        <3>1. Append(<<>>, "run.queued") = <<"run.queued">> /\ rt.run_events[r] = <<>>
            BY <1>5, <1>6 DEF ToldInv
        <3> QED
            BY <1>5, <3>1
    <2> QED
        BY <1>5, <1>6, <2>1 DEF ToldInv, Same
<1>8. \A c \in Conns : busy[c] # r
    BY <1>5, <1>6 DEF BusyInv, Underway, Runs, NoRun
<1>9. \A q \in Runs : Underway(reg, q) => q # r /\ Underway(rt, q)
    BY <1>5 DEF Underway, Same
<1>10. ASSUME NEW c \in Conns, busy[c] # NoRun
       PROVE  Same(rt, reg, busy[c])
    BY <1>1, <1>5, <1>8, <1>10
<1>11. BusyInv(reg, busy, sending)
    BY <1>1, <1>6, <1>9, <1>10 DEF BusyInv, NothingSent, Same, Underway
<1>12. /\ AssignsOn(reg, down) /\ down \in [Conns -> Seq(Messages)] /\ AssignsOn(rt, down)
       /\ sending \in [Runs -> Sends \union {NotSending}]
    BY <1>1, <1>5, PlacesPersist DEF IInv, TypeOK
<1>13. ASSUME NEW c \in Conns PROVE ConnInv(reg, busy, sending, down, inbox, pc, c)
    <2>1. ConnInv(rt, busy, sending, down, inbox, pc, c)
        BY DEF SessInv, SessionsInv
    <2>2. \A i \in 1 .. Len(down[c]) : IsAssign(down, c, i) => down[c][i].run \in Runs
        BY <1>12 DEF AssignsOn, IsAssign
    <2>3. busy[c] # NoRun => reg.status[busy[c]] = rt.status[busy[c]]
        BY <1>10 DEF Same
    <2> QED
        BY <1>1, <2>1, <2>2, <2>3, ConnFrame DEF NothingSent
<1>14. SessionsInv(reg, busy, sending, down, inbox, pc)
    BY <1>7, <1>11, <1>13 DEF SessionsInv
<1>15. \A q \in Runs : Moved(rt, reg, q)
    <2>1. rt.created \in Nat
        BY <1>1, RegistryFields, RegistryAssumption
    <2>2. Moved(rt, reg, r)
        BY <1>5, <2>1 DEF Moved
    <2>3. ASSUME NEW q \in Runs, q # r PROVE Moved(rt, reg, q)
        <3>1. q > rt.created <=> q > reg.created
            BY <1>5, <2>1, <2>3 DEF Runs
        <3> QED
            BY <1>5, <2>3, <3>1 DEF Moved, Same
    <2> QED
        BY <2>2, <2>3
<1>16. /\ SessionsInv(rt, busy, sending, down, inbox, pc)'
       /\ IdleInv(rt, busy, sending, pc)'
       /\ \A q \in Runs : Moved(rt, rt', q)
    BY <1>1, <1>4, <1>5, <1>12, <1>14, <1>15, AfterDispatch
<1>17. BytesInv'
    BY <1>4 DEF SessInv, BytesInv
<1> QED
    BY <1>16, <1>17 DEF SessInv
-----------------------------------------------------------------------------
(* What a connector says.                                                    *)

\* What a connector may still say, case by case.
LEMMA AnswersAre ==
    ASSUME NEW reg, NEW r, NEW x \in Answers(reg, r)
    PROVE  \/ x = <<>>
           \/ \E m \in Ends(r) : x = <<m>> /\ (m.type = "run.completed" => reg.status[r] = "running")
                                 /\ Underway(reg, r)
           \/ x = <<Message("run.accepted", r)>> /\ reg.status[r] = "assigned"
           \/ \E m \in Ends(r) : x = <<Message("run.accepted", r), m>> /\ reg.status[r] = "assigned"
<1>1. CASE reg.status[r] = "assigned"
    <2>1. /\ Message("run.failed", r) \in Ends(r)
          /\ Message("run.failed", r).type = "run.failed" /\ Underway(reg, r)
        BY <1>1 DEF Ends, Message, Underway
    <2>2. x \in {<<>>, <<Message("run.accepted", r)>>, <<Message("run.failed", r)>>}
                \union {<<Message("run.accepted", r), m>> : m \in Ends(r)}
        BY <1>1 DEF Answers
    <2>3. CASE x = <<Message("run.failed", r)>>
        BY <2>1, <2>3
    <2> QED
        BY <1>1, <2>2, <2>3
<1>2. CASE reg.status[r] = "running"
    BY <1>2 DEF Answers, Underway
<1>3. CASE reg.status[r] \notin {"assigned", "running"}
    BY <1>3 DEF Answers
<1> QED
    BY <1>1, <1>2, <1>3

\* The last word on a run.
LEMMA EndsAre ==
    ASSUME NEW r, NEW m \in Ends(r)
    PROVE  m.run = r /\ m.type \in {"run.completed", "run.failed"}
BY DEF Ends, Message

\* The first message of one or two, and what is left.
LEMMA HeadsAndTails ==
    ASSUME NEW a, NEW b
    PROVE  /\ <<a>> # <<>> /\ Head(<<a>>) = a /\ Tail(<<a>>) = <<>>
           /\ <<a, b>> # <<>> /\ Head(<<a, b>>) = a /\ Tail(<<a, b>>) = <<b>>
OBVIOUS

\* The message that is received next is about the run the session is busy with, and
\* nothing follows the last word on a run.
LEMMA NextAnswer ==
    ASSUME NEW reg, NEW r, NEW x \in Answers(reg, r), x # <<>>
    PROVE  /\ Head(x).run = r /\ Underway(reg, r)
           /\ Head(x).type = "run.accepted" =>
                 /\ reg.status[r] = "assigned"
                 /\ Tail(x) \in {<<>>} \union {<<m>> : m \in Ends(r)}
           /\ Head(x).type # "run.accepted" => Tail(x) = <<>>
           /\ Head(x).type = "run.completed" => reg.status[r] = "running"
<1>1. CASE \E m \in Ends(r) : x = <<m>> /\ (m.type = "run.completed" => reg.status[r] = "running")
                              /\ Underway(reg, r)
    <2>1. PICK m \in Ends(r) : x = <<m>> /\ (m.type = "run.completed" => reg.status[r] = "running")
                               /\ Underway(reg, r)
        BY <1>1
    <2>2. m.run = r /\ m.type \in {"run.completed", "run.failed"}
        BY EndsAre
    <2>3. Head(x) = m /\ Tail(x) = <<>>
        BY <2>1, HeadsAndTails
    <2> QED
        BY <2>1, <2>2, <2>3
<1>2. CASE x = <<Message("run.accepted", r)>> /\ reg.status[r] = "assigned"
    <2>1. Head(x) = Message("run.accepted", r) /\ Tail(x) = <<>>
        BY <1>2, HeadsAndTails
    <2> QED
        BY <1>2, <2>1 DEF Message, Underway
<1>3. CASE \E m \in Ends(r) : x = <<Message("run.accepted", r), m>> /\ reg.status[r] = "assigned"
    <2>1. PICK m \in Ends(r) : x = <<Message("run.accepted", r), m>> /\ reg.status[r] = "assigned"
        BY <1>3
    <2>2. Head(x) = Message("run.accepted", r) /\ Tail(x) = <<m>>
        BY <2>1, HeadsAndTails
    <2> QED
        BY <2>1, <2>2 DEF Message, Underway
<1> QED
    BY <1>1, <1>2, <1>3, AnswersAre

\* The beginnings of sequences of up to two messages.
LEMMA Prefixes ==
    ASSUME NEW a, NEW b
    PROVE  /\ SubSeq(<<>>, 1, 0) = <<>>
           /\ SubSeq(<<a>>, 1, 0) = <<>> /\ SubSeq(<<a>>, 1, 1) = <<a>>
           /\ SubSeq(<<a, b>>, 1, 0) = <<>> /\ SubSeq(<<a, b>>, 1, 1) = <<a>>
           /\ SubSeq(<<a, b>>, 1, 2) = <<a, b>>
<1> DEFINE S == {a, b}
<1>1. /\ <<>> \in Seq(S) /\ <<a>> \in Seq(S) /\ Len(<<>>) = 0 /\ Len(<<a>>) = 1 /\ <<a>>[1] = a
      /\ <<a, b>> \in Seq(S) /\ Len(<<a, b>>) = 2 /\ <<a, b>>[1] = a /\ <<a, b>>[2] = b
    OBVIOUS
<1>2. SubSeq(<<>>, 1, 0) = <<>> /\ SubSeq(<<a>>, 1, 0) = <<>> /\ SubSeq(<<a, b>>, 1, 0) = <<>>
    BY <1>1, SubSeqEmpty
<1>3. SubSeq(<<a>>, 1, 1) = <<a>>
    BY <1>1, SubSeqFull
<1>4. SubSeq(<<a, b>>, 1, 2) = <<a, b>>
    BY <1>1, SubSeqFull
<1>5. PICK u : u = SubSeq(<<a, b>>, 1, 1)
    OBVIOUS
<1>6. u \in Seq(S) /\ Len(u) = 1 /\ u[1] = a
    BY <1>1, <1>5, SubSeqProperties
<1>7. PICK v : v = <<a>>
    OBVIOUS
<1>8. v \in Seq(S) /\ Len(v) = 1 /\ v[1] = a
    BY <1>1, <1>7
<1>9. \A i \in 1 .. Len(u) : u[i] = v[i]
    <2>1. \A i \in 1 .. 1 : i = 1
        OBVIOUS
    <2> QED
        BY <1>6, <1>8, <2>1
<1>10. u = v
    BY <1>6, <1>8, <1>9, SeqEqual
<1>11. SubSeq(<<a, b>>, 1, 1) = <<a>>
    BY <1>5, <1>7, <1>10, Zenon
<1> QED
    BY <1>2, <1>3, <1>4, <1>11, Zenon

\* A connection that breaks loses the end of what was under way on it.
LEMMA AnswersPrefix ==
    ASSUME NEW reg, NEW r, NEW x \in Answers(reg, r), NEW k \in 0 .. Len(x)
    PROVE  SubSeq(x, 1, k) \in Answers(reg, r)
<1>1. <<>> \in Answers(reg, r)
    BY DEF Answers
<1>2. CASE x = <<>>
    <2>1. k = 0
        BY <1>2
    <2>2. SubSeq(x, 1, k) = <<>>
        BY <1>2, <2>1, Prefixes, Zenon
    <2> QED
        BY <1>1, <2>2
<1>3. ASSUME NEW m, x = <<m>> PROVE SubSeq(x, 1, k) \in Answers(reg, r)
    <2>0. k = 0 \/ k = 1
        BY <1>3
    <2>1. SubSeq(x, 1, k) = <<>> \/ SubSeq(x, 1, k) = x
        BY <1>3, <2>0, Prefixes, Zenon
    <2> QED
        BY <1>1, <2>1
<1>4. ASSUME NEW m, x = <<Message("run.accepted", r), m>>, reg.status[r] = "assigned"
      PROVE  SubSeq(x, 1, k) \in Answers(reg, r)
    <2>1. \/ SubSeq(x, 1, k) = <<>> \/ SubSeq(x, 1, k) = <<Message("run.accepted", r)>>
          \/ SubSeq(x, 1, k) = x
        <3>1. k = 0 \/ k = 1 \/ k = 2
            BY <1>4
        <3> QED
            BY <1>4, <3>1, Prefixes, Zenon
    <2>2. <<Message("run.accepted", r)>> \in Answers(reg, r)
        BY <1>4 DEF Answers
    <2> QED
        BY <1>1, <2>1, <2>2
<1> QED
    BY <1>2, <1>3, <1>4, AnswersAre
-----------------------------------------------------------------------------
(* The receive loop.                                                         *)

\* When no connection becomes able to take a run, and no run starts to wait, none is
\* left idle.
LEMMA IdleCarries ==
    ASSUME IdleInv(rt, busy, sending, pc), NothingSent(sending), sending' = sending,
           \A c \in Conns : pc'[c] = "serving" /\ link'[c] # "closed" /\ busy'[c] = NoRun =>
               pc[c] = "serving" /\ link[c] # "closed" /\ busy[c] = NoRun,
           \A d : Waiting(rt', d) \subseteq Waiting(rt, d)
    PROVE  IdleInv(rt, busy, sending, pc)'
<1>1. Covered(rt, busy, pc, {})
    BY DEF IdleInv
<1>2. ASSUME NEW c \in Conns, pc'[c] = "serving", link'[c] # "closed", busy'[c] = NoRun
      PROVE  Waiting(rt', DaemonOf(c)) = {}
    <2>1. Waiting(rt, DaemonOf(c)) = {}
        BY <1>1, <1>2 DEF Covered
    <2> QED
        BY <2>1
<1>3. Covered(rt, busy, pc, {})'
    BY <1>2 DEF Covered
<1>4. NothingSent(sending)'
    BY DEF NothingSent
<1> QED
    BY <1>3, <1>4 DEF IdleInv, NothingSent

\* What is known of a message about a run when it is received: the session is busy
\* with the run, and the connector is as far with it as the message says.
LEMMA ReceivedAnswer ==
    ASSUME ~SendMaySuspend, IInv, SessInv, NEW c \in Conns, NEW r \in Runs, NEW type,
           Receives(c, type, r)
    PROVE  /\ NothingSent(sending)
           /\ pc[c] = "serving" /\ busy[c] = r /\ r # NoRun
           /\ inbox[c] \in Answers(rt, r) /\ inbox[c] # <<>>
           /\ Head(inbox[c]).type = type
           /\ \A k \in Conns : inbox'[k] = IF k = c THEN Tail(inbox[c]) ELSE inbox[k]
           /\ link[c] # "none"
           /\ link[c] = "up" =>
                 /\ \A i \in 1 .. Len(down[c]) : ~IsAssign(down, c, i)
                 /\ \A q \in Runs : WorksOn(c, q) =>
                       /\ q = r /\ work[r] # "waiting"
                       /\ inbox[c] = <<Message("run.accepted", r)>>
<1>1. /\ LoopFree /\ pc[c] = "serving" /\ inbox[c] # <<>>
      /\ Head(inbox[c]).type = type /\ Head(inbox[c]).run = r
      /\ inbox' = [inbox EXCEPT ![c] = Tail(@)]
    BY DEF Receives
<1>2. /\ ConnInv(rt, busy, sending, down, inbox, pc, c) /\ Listened(pc, c)
    BY <1>1 DEF SessInv, SessionsInv, Listened
<1>3. busy[c] # NoRun /\ inbox[c] \in Answers(rt, busy[c])
    BY <1>1, <1>2 DEF ConnInv
<1>4. Head(inbox[c]).run = busy[c]
    BY <1>1, <1>3, NextAnswer
<1>5. busy[c] = r
    BY <1>1, <1>4
<1>6. \A k \in Conns : inbox'[k] = IF k = c THEN Tail(inbox[c]) ELSE inbox[k]
    BY <1>1 DEF IInv, TypeOK
<1>7. NothingSent(sending)
    BY <1>1, FreeLoop
<1>8. link[c] # "none"
    BY <1>1, <1>2 DEF ConnInv
<1>9. ASSUME link[c] = "up", NEW i \in 1 .. Len(down[c]) PROVE ~IsAssign(down, c, i)
    BY <1>1, <1>2, <1>9 DEF ConnInv, AssignInv
<1>10. ASSUME link[c] = "up", NEW q \in Runs, WorksOn(c, q)
       PROVE  q = r /\ work[r] # "waiting" /\ inbox[c] = <<Message("run.accepted", r)>>
    <2>1. TaskInv(rt, busy, inbox, c, q)
        BY <1>2, <1>10 DEF ConnInv
    <2>2. q = r
        BY <1>5, <2>1 DEF TaskInv
    <2> QED
        BY <1>1, <2>1, <2>2 DEF TaskInv
<1> QED
    BY <1>1, <1>3, <1>5, <1>6, <1>7, <1>8, <1>9, <1>10

\* register returns: daemon.welcome, then dispatch_pending.
LEMMA WelcomeSess ==
    ASSUME ~SendMaySuspend, IInv, IInv', ServedIsRegistered', RegistryInv(rt), SessInv,
           NEW c \in Conns, Welcome(c)
    PROVE  SessInv' /\ \A q \in Runs : Moved(rt, rt', q)
<1>1. /\ TypeOK /\ rt \in Registry /\ NothingSent(sending)
      /\ busy \in [Conns -> Runs \union {NoRun}]
    BY FreeLoop DEF IInv, TypeOK, Welcome
<1>2. PICK channel : channel = Deliver(down, c, Message("daemon.welcome", NoRun))
    OBVIOUS
<1>3. /\ pc[c] = "registering" /\ link[c] # "closed"
      /\ pc' = [pc EXCEPT ![c] = "serving"]
      /\ Dispatch(rt, busy, channel, sending, {}, TRUE, c)
      /\ UNCHANGED <<registered, busy, stream_bytes, link, inbox, work, work_conn>>
    BY <1>2 DEF Welcome, DispatchPending, connectorVars
<1>4. /\ AssignsOn(rt, down) /\ down \in [Conns -> Seq(Messages)]
      /\ sending \in [Runs -> Sends \union {NotSending}]
    BY <1>1 DEF IInv, TypeOK
<1>5. AssignsOn(rt, channel) /\ channel \in [Conns -> Seq(Messages)]
    <2>1. PICK m : m = Message("daemon.welcome", NoRun)
        OBVIOUS
    <2>2. m \in Messages /\ m.type # "run.assign"
        BY <2>1 DEF Message, Messages
    <2> QED
        BY <1>2, <1>4, <2>1, <2>2, DeliverKeepsAssigns
<1>6. \A k \in Conns : pc'[k] = IF k = c THEN "serving" ELSE pc[k]
    BY <1>1, <1>3 DEF TypeOK
<1>7. \A k \in Conns : k # c => channel[k] = down[k]
    BY <1>2, <1>4 DEF Deliver
<1>8. ASSUME NEW k \in Conns, k # c PROVE ConnInv(rt, busy, sending, channel, inbox, pc', k)
    <2>1. ConnInv(rt, busy, sending, down, inbox, pc, k)
        BY DEF SessInv, SessionsInv
    <2>2. \A i \in 1 .. Len(down[k]) : IsAssign(down, k, i) => down[k][i].run \in Runs
        BY <1>4 DEF AssignsOn, IsAssign
    <2>3. pc'[k] = pc[k] /\ channel[k] = down[k]
        BY <1>6, <1>7, <1>8
    <2> QED
        BY <1>1, <2>1, <2>2, <2>3, ConnFrame DEF NothingSent
<1>9. ConnInv(rt, busy, sending, channel, inbox, pc', c)
    <2>1. ConnInv(rt, busy, sending, down, inbox, pc, c) /\ Listened(pc, c)
        BY <1>3 DEF SessInv, SessionsInv, Listened
    <2>2. Listened(pc', c) /\ pc'[c] # "none"
        BY <1>3, <1>6 DEF Listened
    <2>3. CASE link[c] = "up"
        <3>1. channel[c] = Append(down[c], Message("daemon.welcome", NoRun))
            BY <1>2, <1>4, <2>3 DEF Deliver
        <3>2. /\ Len(channel[c]) = Len(down[c]) + 1 /\ Len(down[c]) \in Nat
              /\ \A i \in 1 .. Len(down[c]) : channel[c][i] = down[c][i]
              /\ channel[c][Len(down[c]) + 1] = Message("daemon.welcome", NoRun)
            BY <1>4, <3>1
        <3>3. ASSUME NEW i \in 1 .. Len(channel[c]), IsAssign(channel, c, i)
              PROVE  i \in 1 .. Len(down[c]) /\ IsAssign(down, c, i) /\ channel[c][i] = down[c][i]
            BY <3>2, <3>3 DEF IsAssign, Message
        <3>4. ASSUME NEW i \in 1 .. Len(channel[c]), IsAssign(channel, c, i)
              PROVE  AssignInv(rt, busy, sending, channel, inbox, c, i)
            <4>1. AssignInv(rt, busy, sending, down, inbox, c, i)
                BY <2>1, <2>3, <3>3, <3>4 DEF ConnInv
            <4>2. channel[c][i] = down[c][i]
                BY <3>3, <3>4
            <4>3. \A j \in 1 .. Len(channel[c]) : IsAssign(channel, c, j) => i = j
                BY <3>3, <4>1 DEF AssignInv
            <4> QED
                BY <4>1, <4>2, <4>3 DEF AssignInv
        <3> QED
            BY <2>1, <2>2, <2>3, <3>4 DEF ConnInv
    <2>4. CASE link[c] # "up"
        <3>1. channel[c] = down[c]
            BY <1>2, <2>4 DEF Deliver
        <3> QED
            BY <2>1, <2>2, <2>4, <3>1 DEF ConnInv
    <2> QED
        BY <2>3, <2>4
<1>10. PICK p : p = pc'
    OBVIOUS
<1>11. PICK box : box = inbox
    OBVIOUS
<1>12. SessionsInv(rt, busy, sending, channel, box, p)
    BY <1>8, <1>9, <1>10, <1>11 DEF SessInv, SessionsInv
<1>13. \A q \in Runs : Moved(rt, rt, q)
    BY DEF Moved
<1>14. /\ SessionsInv(rt, busy, sending, down, inbox, pc)'
       /\ IdleInv(rt, busy, sending, pc)'
       /\ \A q \in Runs : Moved(rt, rt', q)
    BY <1>1, <1>3, <1>4, <1>5, <1>10, <1>11, <1>12, <1>13, AfterDispatch
<1>15. BytesInv'
    BY <1>3 DEF SessInv, BytesInv
<1> QED
    BY <1>14, <1>15 DEF SessInv

\* run.accepted
LEMMA HandleAcceptedSess ==
    ASSUME ~SendMaySuspend, IInv, IInv', ServedIsRegistered', RegistryInv(rt), SessInv,
           NEW c \in Conns, NEW r \in Runs, HandleAccepted(c, r)
    PROVE  SessInv' /\ \A q \in Runs : Moved(rt, rt', q)
<1>1. /\ TypeOK /\ rt \in Registry /\ rt' \in Registry
      /\ busy \in [Conns -> Runs \union {NoRun}]
    BY DEF IInv, TypeOK
<1>2. /\ Receives(c, "run.accepted", r)
      /\ rt' = StoreRunEvent(MarkRunStarted(rt, r, DaemonOf(c)), r, "run.accepted")
      /\ stream_bytes' = stream_bytes \union {r}
      /\ UNCHANGED <<registered, pc, busy, sending, link, down, work, work_conn>>
    BY DEF HandleAccepted, connectorVars
<1>3. /\ NothingSent(sending)
      /\ pc[c] = "serving" /\ busy[c] = r /\ r # NoRun
      /\ inbox[c] \in Answers(rt, r) /\ inbox[c] # <<>>
      /\ Head(inbox[c]).type = "run.accepted"
      /\ \A k \in Conns : inbox'[k] = IF k = c THEN Tail(inbox[c]) ELSE inbox[k]
      /\ link[c] # "none"
      /\ link[c] = "up" =>
            /\ \A i \in 1 .. Len(down[c]) : ~IsAssign(down, c, i)
            /\ \A q \in Runs : WorksOn(c, q) =>
                  /\ q = r /\ work[r] # "waiting"
                  /\ inbox[c] = <<Message("run.accepted", r)>>
    BY <1>2, ReceivedAnswer
<1>4. /\ rt.status[r] = "assigned"
      /\ Tail(inbox[c]) \in {<<>>} \union {<<m>> : m \in Ends(r)}
    BY <1>3, NextAnswer
<1>5. ToldInv(rt, sending) /\ BusyInv(rt, busy, sending)
    BY DEF SessInv, SessionsInv
<1>6. /\ rt'.created = rt.created
      /\ rt'.status[r] = "running" /\ rt'.executor[r] = DaemonOf(c)
      /\ rt'.run_events[r] = Append(rt.run_events[r], "run.accepted")
      /\ \A q \in Runs : q # r => Same(rt, rt', q)
      /\ \A k : Waiting(rt', k) \subseteq Waiting(rt, k)
    <2>1. /\ Present(rt, r) /\ "run.accepted" \in LifecycleEvents /\ DaemonOf(c) \in Daemons
        BY <1>4 DEF Present, LifecycleEvents, DaemonOf, Conns
    <2>2. PICK marked : marked = MarkRunStarted(rt, r, DaemonOf(c))
        OBVIOUS
    <2>3. PICK after : after = rt'
        OBVIOUS
    <2>4. after = StoreRunEvent(marked, r, "run.accepted")
        BY <1>2, <2>2, <2>3
    <2>5. /\ after.created = rt.created
          /\ after.status[r] = "running" /\ after.executor[r] = DaemonOf(c)
          /\ after.run_events[r] = Append(rt.run_events[r], "run.accepted")
          /\ \A q \in Runs : q # r => Same(rt, after, q)
          /\ \A k : Waiting(after, k) \subseteq Waiting(rt, k)
        BY <1>1, <2>1, <2>2, <2>4, MarkedAndTold
    <2> QED
        BY <2>3, <2>5
<1>7. rt.run_events[r] = <<"run.queued", "run.started">>
    BY <1>3, <1>4, <1>5 DEF ToldInv, NothingSent
<1>8. ToldInv(rt', sending)
    BY <1>5, <1>6 DEF ToldInv, Same
<1>9. BusyInv(rt', busy, sending)
    <2>1. \A q \in Runs : Underway(rt', q) => \E k \in Conns : busy[k] = q
        BY <1>3, <1>4, <1>5, <1>6 DEF BusyInv, Underway, Same, NothingSent
    <2>2. ASSUME NEW k \in Conns, busy[k] # NoRun
          PROVE  Underway(rt', busy[k]) /\ rt'.executor[busy[k]] = DaemonOf(k)
        <3>1. CASE k = c
            BY <1>3, <1>6, <3>1 DEF Underway
        <3>2. CASE k # c
            <4>1. busy[k] \in Runs /\ busy[k] # r
                BY <1>1, <1>3, <1>5, <2>2, <3>2 DEF BusyInv
            <4> QED
                BY <1>5, <1>6, <2>2, <4>1 DEF BusyInv, Underway, Same
        <3> QED
            BY <3>1, <3>2
    <2>3. \A k \in Conns : busy[k] # NoRun => busy[k] \in Runs
        BY <1>1
    <2> QED
        BY <1>3, <1>5, <2>1, <2>2, <2>3 DEF BusyInv, NothingSent
<1>10. \A k \in Conns, q \in Runs : WorksOn(k, q)' = WorksOn(k, q) /\ work'[q] = work[q]
    BY <1>2 DEF WorksOn
<1>11. ASSUME NEW k \in Conns, k # c PROVE ConnInv(rt, busy, sending, down, inbox, pc, k)'
    <2>1. ConnInv(rt, busy, sending, down, inbox, pc, k)
        BY DEF SessInv, SessionsInv
    <2>2. \A i \in 1 .. Len(down[k]) : IsAssign(down, k, i) => down[k][i].run \in Runs
        BY DEF IInv, AssignsOn, IsAssign
    <2>3. busy[k] # NoRun => rt'.status[busy[k]] = rt.status[busy[k]]
        BY <1>1, <1>3, <1>5, <1>6, <1>11 DEF BusyInv, Same
    <2>4. PICK reg : reg = rt'
        OBVIOUS
    <2>5. ConnInv(reg, busy, sending, down, inbox, pc, k)
        BY <1>3, <2>1, <2>2, <2>3, <2>4, ConnFrame DEF NothingSent
    <2> QED
        BY <1>2, <1>3, <1>10, <1>11, <2>4, <2>5, ConnCarries
<1>12. ConnInv(rt, busy, sending, down, inbox, pc, c)'
    <2>1. ConnInv(rt, busy, sending, down, inbox, pc, c)
        BY DEF SessInv, SessionsInv
    <2>2. inbox'[c] \in Answers(rt, busy[c])'
        <3>1. Answers(rt', r) = {<<>>} \union {<<m>> : m \in Ends(r)}
            BY <1>6 DEF Answers
        <3>2. inbox'[c] \in Answers(rt', r) /\ busy'[c] = r
            BY <1>2, <1>3, <1>4, <3>1
        <3> QED
            BY <3>2
    <2>3. ASSUME link[c] = "up", NEW i \in 1 .. Len(down[c]) PROVE ~IsAssign(down, c, i)'
        BY <1>2, <1>3, <2>3 DEF IsAssign
    <2>4. ASSUME link[c] = "up", NEW q \in Runs, WorksOn(c, q)'
          PROVE  TaskInv(rt, busy, inbox, c, q)'
        <3>1. q = r /\ work[r] # "waiting" /\ inbox[c] = <<Message("run.accepted", r)>>
            BY <1>3, <1>10, <2>4
        <3>2. inbox'[c] = <<>>
            <4>1. Tail(inbox[c]) = <<>>
                BY <3>1, HeadsAndTails
            <4> QED
                BY <1>3, <4>1
        <3> QED
            BY <1>2, <1>3, <1>6, <3>1, <3>2 DEF TaskInv
    <2> QED
        BY <1>2, <1>3, <2>1, <2>2, <2>3, <2>4 DEF ConnInv, Listened
<1>13. SessionsInv(rt, busy, sending, down, inbox, pc)'
    <2>1. ToldInv(rt, sending)' /\ BusyInv(rt, busy, sending)'
        BY <1>2, <1>8, <1>9
    <2> QED
        BY <1>11, <1>12, <2>1 DEF SessionsInv
<1>14. IdleInv(rt, busy, sending, pc)'
    BY <1>2, <1>3, <1>6, IdleCarries DEF SessInv
<1>15. BytesInv'
    BY <1>2, <1>3 DEF SessInv, BytesInv
<1>16. \A q \in Runs : Moved(rt, rt', q)
    <2>1. Moved(rt, rt', r)
        BY <1>4, <1>6, <1>7 DEF Moved
    <2> QED
        BY <1>1, <1>6, <2>1, OthersMove
<1> QED
    BY <1>13, <1>14, <1>15, <1>16 DEF SessInv

\* run.completed or run.failed: the last word of the connector on a run.
LEMMA AnswerSess ==
    ASSUME ~SendMaySuspend, IInv, IInv', ServedIsRegistered', RegistryInv(rt), SessInv,
           NEW c \in Conns, NEW r \in Runs, NEW type, type # "run.accepted",
           NEW status \in TERMINAL_RUN_STATUSES, NEW event \in TerminalEvents,
           \/ /\ type = "run.completed" /\ event = "run.completed"
              /\ status \in {"completed", "cancelled"}
           \/ status = "failed" /\ event = "run.error",
           Receives(c, type, r),
           DispatchPending(StoreRunEvent(MarkRunTerminal(rt, r, status), r, event),
                           Released(c, r), down, c),
           busy' = Released(c, r),
           stream_bytes' = stream_bytes \ {r},
           UNCHANGED <<registered, pc, link, connectorVars>>
    PROVE  SessInv' /\ \A q \in Runs : Moved(rt, rt', q)
<1>1. /\ TypeOK /\ rt \in Registry /\ busy \in [Conns -> Runs \union {NoRun}]
      /\ sending \in [Runs -> Sends \union {NotSending}]
    BY DEF IInv, TypeOK
<1>2. PICK reg : reg = StoreRunEvent(MarkRunTerminal(rt, r, status), r, event)
    OBVIOUS
<1>3. PICK bz : bz = Released(c, r)
    OBVIOUS
<1>4. PICK box : box = inbox'
    OBVIOUS
<1>5. PICK p : p = pc
    OBVIOUS
<1>6. /\ Dispatch(reg, bz, down, sending, {}, TRUE, c)
      /\ UNCHANGED <<registered, pc, link, work, work_conn>>
    BY <1>2, <1>3 DEF DispatchPending, connectorVars
<1>7. /\ NothingSent(sending)
      /\ pc[c] = "serving" /\ busy[c] = r /\ r # NoRun
      /\ inbox[c] \in Answers(rt, r) /\ inbox[c] # <<>>
      /\ Head(inbox[c]).type = type
      /\ \A k \in Conns : box[k] = IF k = c THEN Tail(inbox[c]) ELSE inbox[k]
      /\ link[c] # "none"
      /\ link[c] = "up" =>
            /\ \A i \in 1 .. Len(down[c]) : ~IsAssign(down, c, i)
            /\ \A q \in Runs : WorksOn(c, q) =>
                  /\ q = r /\ work[r] # "waiting"
                  /\ inbox[c] = <<Message("run.accepted", r)>>
    BY <1>4, ReceivedAnswer
<1>8. /\ Underway(rt, r) /\ Tail(inbox[c]) = <<>>
      /\ type = "run.completed" => rt.status[r] = "running"
    BY <1>7, NextAnswer
<1>9. ToldInv(rt, sending) /\ BusyInv(rt, busy, sending)
    BY DEF SessInv, SessionsInv
<1>10. /\ reg \in Registry /\ Evolves(rt, reg)
       /\ reg.created = rt.created
       /\ reg.status[r] = status /\ reg.run_events[r] = Append(rt.run_events[r], event)
       /\ \A q \in Runs : q # r => Same(rt, reg, q) \/ Shed(rt, reg, q)
    <2>1. Present(rt, r)
        BY <1>8 DEF Present, Underway
    <2> QED
        BY <1>1, <1>2, <2>1, EndedAndTold
<1>11. /\ bz \in [Conns -> Runs \union {NoRun}]
       /\ \A k \in Conns : bz[k] = IF busy[k] = r THEN NoRun ELSE busy[k]
       /\ \A k \in Conns : k # c => busy[k] # r
    <2>1. \A k \in Conns : k # c => busy[k] # r
        BY <1>7, <1>9 DEF BusyInv
    <2>2. bz = [busy EXCEPT ![c] = NoRun]
        BY <1>3, <1>7 DEF Released
    <2> QED
        BY <1>1, <1>7, <2>1, <2>2
<1>12. /\ AssignsOn(reg, down) /\ down \in [Conns -> Seq(Messages)] /\ AssignsOn(rt, down)
    BY <1>1, <1>10, PlacesPersist DEF IInv, TypeOK
<1>13. ToldInv(reg, sending) /\ BusyInv(reg, bz, sending)
    <2>1. OnlySent(sending, r) /\ OthersKept(rt, reg, r) /\ Freed(busy, bz, r)
        BY <1>7, <1>10, <1>11 DEF NothingSent, OnlySent, OthersKept, Freed
    <2> QED
        BY <1>1, <1>7, <1>9, <1>10, <2>1, EndKeepsRuns
<1>14. ASSUME NEW k \in Conns, k # c PROVE ConnInv(reg, bz, sending, down, box, p, k)
    <2>1. ConnInv(rt, busy, sending, down, inbox, pc, k)
        BY DEF SessInv, SessionsInv
    <2>2. /\ \A q \in Runs : q # r => sending[q] = NotSending
          /\ sending[r] = NotSending
        BY <1>7 DEF NothingSent
    <2>3. bz[k] = busy[k] /\ busy[k] # r /\ box[k] = inbox[k] /\ p[k] = pc[k]
        BY <1>5, <1>7, <1>11, <1>14
    <2>4. /\ BusyInv(rt, busy, sending) /\ AssignsOn(rt, down)
          /\ \A q \in Runs : q # r => Same(rt, reg, q) \/ Shed(rt, reg, q)
          /\ sending[r] # NotSending => sending[r].to # k
          /\ busy \in [Conns -> Runs \union {NoRun}]
        BY <1>1, <1>9, <1>10, <1>12, <2>2
    <2>5. OnlySent(sending, r) /\ OthersKept(rt, reg, r)
        BY <2>2, <2>4 DEF OnlySent, OthersKept
    <2> QED
        BY <2>1, <2>3, <2>4, <2>5, EndKeepsConn
<1>15. ConnInv(reg, bz, sending, down, box, p, c)
    <2>1. ConnInv(rt, busy, sending, down, inbox, pc, c)
        BY DEF SessInv, SessionsInv
    <2>2. bz[c] = NoRun /\ box[c] = <<>>
        BY <1>7, <1>8, <1>11
    <2>3. ASSUME link[c] = "up", NEW q \in Runs PROVE ~WorksOn(c, q)
        <3> SUFFICES ASSUME WorksOn(c, q) PROVE FALSE
            OBVIOUS
        <3>1. inbox[c] = <<Message("run.accepted", r)>>
            BY <1>7, <2>3
        <3>2. Head(inbox[c]) = Message("run.accepted", r)
            BY <3>1, HeadsAndTails
        <3> QED
            BY <1>7, <3>2 DEF Message
    <2> QED
        BY <1>5, <1>7, <2>1, <2>2, <2>3 DEF ConnInv, Listened
<1>16. SessionsInv(reg, bz, sending, down, box, p)
    BY <1>13, <1>14, <1>15 DEF SessionsInv
<1>17. \A q \in Runs : Moved(rt, reg, q)
    <2>1. Moved(rt, reg, r)
        <3>1. rt.status[r] \in {"assigned", "running"}
            BY <1>8 DEF Underway
        <3> QED
            BY <1>8, <1>10, <3>1 DEF Moved
    <2> QED
        BY <1>1, <1>10, <2>1, OthersMove
<1>18. /\ SessionsInv(rt, busy, sending, down, inbox, pc)'
       /\ IdleInv(rt, busy, sending, pc)'
       /\ \A q \in Runs : Moved(rt, rt', q)
    <2>1. busy' = bz /\ inbox' = box /\ pc' = p
        BY <1>3, <1>4, <1>5, <1>6
    <2> QED
        BY <1>1, <1>6, <1>7, <1>10, <1>11, <1>12, <1>16, <1>17, <2>1, AfterDispatch
<1>19. BytesInv'
    BY <1>3, <1>11 DEF SessInv, BytesInv
<1> QED
    BY <1>18, <1>19 DEF SessInv

\* run.completed and run.failed
LEMMA LastWordSess ==
    ASSUME ~SendMaySuspend, IInv, IInv', ServedIsRegistered', RegistryInv(rt), SessInv,
           NEW c \in Conns, NEW r \in Runs, HandleCompleted(c, r) \/ HandleFailed(c, r)
    PROVE  SessInv' /\ \A q \in Runs : Moved(rt, rt', q)
<1>1. /\ {"completed", "cancelled", "failed"} \subseteq TERMINAL_RUN_STATUSES
      /\ {"run.completed", "run.error"} \subseteq TerminalEvents
    BY DEF TERMINAL_RUN_STATUSES, TerminalEvents
<1>2. CASE HandleCompleted(c, r)
    <2>1. PICK status \in {"completed", "cancelled"} :
              status = IF Head(inbox[c]).cancelled THEN "cancelled" ELSE "completed"
        OBVIOUS
    <2>2. /\ Receives(c, "run.completed", r)
          /\ DispatchPending(StoreRunEvent(MarkRunTerminal(rt, r, status), r, "run.completed"),
                             Released(c, r), down, c)
          /\ busy' = Released(c, r)
          /\ stream_bytes' = stream_bytes \ {r}
          /\ UNCHANGED <<registered, pc, link, connectorVars>>
        BY <1>2, <2>1 DEF HandleCompleted
    <2> QED
        BY <1>1, <2>2, AnswerSess
<1>3. CASE HandleFailed(c, r)
    BY <1>1, <1>3, AnswerSess DEF HandleFailed
<1> QED
    BY <1>2, <1>3

\* A run ends and nothing is dispatched: it waited, or it was the run of a session that
\* is closed.
LEMMA EndSess ==
    ASSUME ~SendMaySuspend, IInv, IInv', RegistryInv(rt), SessInv, NothingSent(sending),
           NEW r \in Runs, NEW status \in TERMINAL_RUN_STATUSES, NEW event \in TerminalEvents,
           \/ rt.status[r] = "queued" /\ status = "cancelled" /\ event = "run.completed"
           \/ /\ Underway(rt, r)
              /\ status \in {"failed", "executor_disconnected"} /\ event = "run.error",
           rt' = StoreRunEvent(MarkRunTerminal(rt, r, status), r, event),
           NEW S, \A k \in Conns \ S : /\ busy[k] # r
                                       /\ busy'[k] = busy[k] /\ pc'[k] = pc[k]
                                       /\ inbox'[k] = inbox[k] /\ link'[k] = link[k],
           \A k \in Conns \cap S : /\ busy[k] # NoRun => busy[k] = r
                                   /\ busy'[k] = NoRun
                                   /\ pc'[k] \notin {"none", "registering", "serving"}
                                   /\ link'[k] # "up"
                                   /\ link'[k] = "none" => link[k] = "none" /\ inbox'[k] = inbox[k],
           stream_bytes' = stream_bytes \ {r},
           UNCHANGED <<sending, down, work, work_conn>>
    PROVE  SessInv' /\ \A q \in Runs : Moved(rt, rt', q)
<1>1. /\ TypeOK /\ rt \in Registry /\ rt' \in Registry /\ AssignsOn(rt, down)
      /\ busy \in [Conns -> Runs \union {NoRun}]
      /\ ToldInv(rt, sending) /\ BusyInv(rt, busy, sending)
    BY DEF IInv, TypeOK, SessInv, SessionsInv
<1>2. /\ rt'.created = rt.created
      /\ rt'.status[r] = status /\ rt'.run_events[r] = Append(rt.run_events[r], event)
      /\ \A q \in Runs : q # r => Same(rt, rt', q) \/ Shed(rt, rt', q)
      /\ \A d : Waiting(rt', d) \subseteq Waiting(rt, d)
    <2>1. Present(rt, r)
        BY DEF Present, Underway
    <2>2. PICK after : after = rt'
        OBVIOUS
    <2>3. /\ after.created = rt.created
          /\ after.status[r] = status /\ after.run_events[r] = Append(rt.run_events[r], event)
          /\ \A q \in Runs : q # r => Same(rt, after, q) \/ Shed(rt, after, q)
          /\ \A d : Waiting(after, d) \subseteq Waiting(rt, d)
        BY <1>1, <2>1, <2>2, EndedAndTold
    <2> QED
        BY <2>2, <2>3
<1>3. \A k \in Conns : busy'[k] = IF busy[k] = r THEN NoRun ELSE busy[k]
    <2> SUFFICES ASSUME NEW k \in Conns PROVE busy'[k] = IF busy[k] = r THEN NoRun ELSE busy[k]
        OBVIOUS
    <2>1. CASE k \in S
        BY <2>1
    <2>2. CASE k \notin S
        BY <2>2
    <2> QED
        BY <2>1, <2>2
<1>4. \A q \in Runs : q # r => sending[q] = NotSending
    BY DEF NothingSent
<1>5. PICK reg : reg = rt'
    OBVIOUS
<1>6. PICK bz : bz = busy'
    OBVIOUS
<1>7. ToldInv(reg, sending) /\ BusyInv(reg, bz, sending)
    <2>1. /\ reg.status[r] \in TERMINAL_RUN_STATUSES
          /\ OnlySent(sending, r) /\ OthersKept(rt, reg, r) /\ Freed(busy, bz, r)
        BY <1>2, <1>3, <1>4, <1>5, <1>6 DEF OnlySent, OthersKept, Freed
    <2> QED
        BY <1>1, <2>1, EndKeepsRuns
<1>8. ASSUME NEW k \in Conns PROVE ConnInv(rt, busy, sending, down, inbox, pc, k)'
    <2>1. ConnInv(rt, busy, sending, down, inbox, pc, k)
        BY DEF SessInv, SessionsInv
    <2>2. CASE k \in S
        <3>1. /\ pc'[k] \notin {"none", "registering", "serving"}
              /\ link'[k] # "up"
              /\ link'[k] = "none" => link[k] = "none" /\ inbox'[k] = inbox[k]
            BY <2>2
        <3>2. \A q \in Runs : WorksOn(k, q)' = WorksOn(k, q)
            BY DEF WorksOn
        <3> QED
            BY <2>1, <3>1, <3>2 DEF ConnInv, Listened
    <2>3. CASE k \notin S
        <3>1. /\ busy[k] # r
              /\ busy'[k] = busy[k] /\ pc'[k] = pc[k]
              /\ inbox'[k] = inbox[k] /\ link'[k] = link[k]
            BY <2>3
        <3>2. /\ \A q \in Runs : q # r => Same(rt, reg, q) \/ Shed(rt, reg, q)
              /\ sending[r] = NotSending
            BY <1>2, <1>5 DEF NothingSent
        <3>3. ConnInv(reg, busy, sending, down, inbox, pc, k)
            <4>1. OnlySent(sending, r) /\ OthersKept(rt, reg, r)
                BY <1>4, <3>2 DEF OnlySent, OthersKept
            <4>2. BusyInv(rt, busy, sending) /\ AssignsOn(rt, down)
                BY <1>1
            <4> QED
                BY <1>1, <2>1, <3>1, <3>2, <4>1, <4>2, EndKeepsConn
        <3>4. \A q \in Runs : WorksOn(k, q)' => WorksOn(k, q) /\ work'[q] = work[q]
            BY DEF WorksOn
        <3> QED
            BY <1>5, <3>1, <3>3, <3>4, ConnCarries
    <2> QED
        BY <2>2, <2>3
<1>9. SessionsInv(rt, busy, sending, down, inbox, pc)'
    <2>1. ToldInv(rt, sending)' /\ BusyInv(rt, busy, sending)'
        BY <1>5, <1>6, <1>7
    <2> QED
        BY <1>8, <2>1 DEF SessionsInv
<1>10. IdleInv(rt, busy, sending, pc)'
    <2>1. \A k \in Conns : pc'[k] = "serving" /\ link'[k] # "closed" /\ busy'[k] = NoRun =>
              pc[k] = "serving" /\ link[k] # "closed" /\ busy[k] = NoRun
        <3> SUFFICES ASSUME NEW k \in Conns,
                            pc'[k] = "serving", link'[k] # "closed", busy'[k] = NoRun
                     PROVE  pc[k] = "serving" /\ link[k] # "closed" /\ busy[k] = NoRun
            OBVIOUS
        <3>1. k \notin S
            OBVIOUS
        <3> QED
            BY <3>1
    <2> QED
        BY <1>2, <2>1, IdleCarries DEF SessInv
<1>11. BytesInv'
    BY <1>3 DEF SessInv, BytesInv
<1>12. \A q \in Runs : Moved(rt, rt', q)
    <2>1. Moved(rt, rt', r)
        BY <1>2 DEF Moved, Underway
    <2> QED
        BY <1>1, <1>2, <2>1, OthersMove
<1> QED
    BY <1>9, <1>10, <1>11, <1>12 DEF SessInv

\* A step that neither the runs nor the sessions of the backend see, on connection c.
LEMMA QuietSess ==
    ASSUME SessInv, NothingSent(sending), UNCHANGED <<rt, busy, stream_bytes, sending>>,
           NEW c,
           \A k \in Conns : k # c => /\ pc'[k] = pc[k] /\ link'[k] = link[k]
                                     /\ down'[k] = down[k] /\ inbox'[k] = inbox[k]
                                     /\ \A q \in Runs : WorksOn(k, q)' =>
                                            WorksOn(k, q) /\ work'[q] = work[q],
           c \in Conns => /\ pc'[c] = "serving" /\ link'[c] # "closed" =>
                                pc[c] = "serving" /\ link[c] # "closed"
                          /\ ConnInv(rt, busy, sending, down, inbox, pc, c)'
    PROVE  SessInv' /\ \A q \in Runs : Moved(rt, rt', q)
<1>1. ASSUME NEW k \in Conns PROVE ConnInv(rt, busy, sending, down, inbox, pc, k)'
    <2>1. CASE k = c
        BY <2>1
    <2>2. CASE k # c
        <3>1. ConnInv(rt, busy, sending, down, inbox, pc, k)
            BY DEF SessInv, SessionsInv
        <3>2. /\ pc'[k] = pc[k] /\ link'[k] = link[k]
              /\ down'[k] = down[k] /\ inbox'[k] = inbox[k]
              /\ \A q \in Runs : WorksOn(k, q)' => WorksOn(k, q) /\ work'[q] = work[q]
            BY <2>2
        <3>3. rt' = rt /\ sending' = sending /\ busy'[k] = busy[k]
            OBVIOUS
        <3> QED
            BY <3>1, <3>2, <3>3, ConnCarries
    <2> QED
        BY <2>1, <2>2
<1>2. SessionsInv(rt, busy, sending, down, inbox, pc)'
    <2>1. ToldInv(rt, sending)' /\ BusyInv(rt, busy, sending)'
        <3>1. ToldInv(rt, sending) /\ BusyInv(rt, busy, sending)
            BY DEF SessInv, SessionsInv
        <3> QED
            BY <3>1 DEF ToldInv, BusyInv, Underway
    <2> QED
        BY <1>1, <2>1 DEF SessionsInv
<1>3. IdleInv(rt, busy, sending, pc)'
    <2>1. ASSUME NEW k \in Conns, pc'[k] = "serving", link'[k] # "closed", busy'[k] = NoRun
          PROVE  pc[k] = "serving" /\ link[k] # "closed" /\ busy[k] = NoRun
        <3>1. CASE k = c
            BY <2>1, <3>1
        <3>2. CASE k # c
            BY <2>1, <3>2
        <3> QED
            BY <3>1, <3>2
    <2>2. \A d : Waiting(rt', d) \subseteq Waiting(rt, d)
        OBVIOUS
    <2> QED
        BY <2>1, <2>2, IdleCarries DEF SessInv
<1>4. BytesInv'
    BY DEF SessInv, BytesInv
<1>5. \A q \in Runs : Moved(rt, rt', q)
    BY DEF Moved
<1> QED
    BY <1>2, <1>3, <1>4, <1>5 DEF SessInv

\* A message that is no run.assign, sent to a connector or received by it.
LEMMA AppendKeepsAssigns ==
    ASSUME NEW c, NEW reg, NEW bz, NEW sends, NEW channel, NEW channel2, NEW box,
           channel[c] \in Seq(Messages), NEW m \in Messages, m.type # "run.assign",
           channel2[c] = Append(channel[c], m),
           \A i \in 1 .. Len(channel[c]) : IsAssign(channel, c, i) =>
               AssignInv(reg, bz, sends, channel, box, c, i)
    PROVE  \A i \in 1 .. Len(channel2[c]) : IsAssign(channel2, c, i) =>
               AssignInv(reg, bz, sends, channel2, box, c, i)
<1>1. /\ Len(channel2[c]) = Len(channel[c]) + 1 /\ Len(channel[c]) \in Nat
      /\ \A i \in 1 .. Len(channel[c]) : channel2[c][i] = channel[c][i]
      /\ channel2[c][Len(channel[c]) + 1] = m
    OBVIOUS
<1>2. ASSUME NEW i \in 1 .. Len(channel2[c]), IsAssign(channel2, c, i)
      PROVE  i \in 1 .. Len(channel[c]) /\ IsAssign(channel, c, i) /\ channel2[c][i] = channel[c][i]
    BY <1>1, <1>2 DEF IsAssign
<1>3. ASSUME NEW i \in 1 .. Len(channel2[c]), IsAssign(channel2, c, i)
      PROVE  AssignInv(reg, bz, sends, channel2, box, c, i)
    <2>1. AssignInv(reg, bz, sends, channel, box, c, i) /\ channel2[c][i] = channel[c][i]
        BY <1>2, <1>3
    <2>2. \A j \in 1 .. Len(channel2[c]) : IsAssign(channel2, c, j) => i = j
        BY <1>2, <2>1 DEF AssignInv
    <2> QED
        BY <2>1, <2>2 DEF AssignInv
<1> QED
    BY <1>3

\* ... of which the first is received: a run.assign was the only one.
LEMMA TailKeepsAssigns ==
    ASSUME NEW c, NEW reg, NEW bz, NEW sends, NEW channel, NEW channel2, NEW box,
           channel[c] \in Seq(Messages), channel[c] # <<>>,
           channel2[c] = Tail(channel[c]),
           \A i \in 1 .. Len(channel[c]) : IsAssign(channel, c, i) =>
               AssignInv(reg, bz, sends, channel, box, c, i)
    PROVE  /\ \A i \in 1 .. Len(channel2[c]) : IsAssign(channel2, c, i) =>
                  AssignInv(reg, bz, sends, channel2, box, c, i)
           /\ Head(channel[c]).type = "run.assign" =>
                  \A i \in 1 .. Len(channel2[c]) : ~IsAssign(channel2, c, i)
<1>1. /\ Len(channel2[c]) = Len(channel[c]) - 1 /\ Len(channel[c]) \in Nat
      /\ \A i \in 1 .. Len(channel2[c]) : channel2[c][i] = channel[c][i + 1]
      /\ Head(channel[c]) = channel[c][1] /\ 1 \in 1 .. Len(channel[c])
    OBVIOUS
<1>2. ASSUME NEW i \in 1 .. Len(channel2[c]), IsAssign(channel2, c, i)
      PROVE  i \in Nat /\ i + 1 \in 1 .. Len(channel[c]) /\ IsAssign(channel, c, i + 1)
             /\ i + 1 # 1 /\ channel2[c][i] = channel[c][i + 1]
    BY <1>1, <1>2 DEF IsAssign
<1>3. ASSUME NEW i \in 1 .. Len(channel2[c]), IsAssign(channel2, c, i)
      PROVE  AssignInv(reg, bz, sends, channel2, box, c, i)
    <2>1. AssignInv(reg, bz, sends, channel, box, c, i + 1) /\ channel2[c][i] = channel[c][i + 1]
        BY <1>2, <1>3
    <2>2. ASSUME NEW j \in 1 .. Len(channel2[c]), IsAssign(channel2, c, j) PROVE i = j
        <3>1. j + 1 \in 1 .. Len(channel[c]) /\ IsAssign(channel, c, j + 1) /\ j \in Nat /\ i \in Nat
            BY <1>2, <1>3, <2>2
        <3>2. i + 1 = j + 1
            BY <2>1, <3>1 DEF AssignInv
        <3> QED
            BY <3>1, <3>2
    <2> QED
        BY <2>1, <2>2 DEF AssignInv
<1>4. ASSUME Head(channel[c]).type = "run.assign",
             NEW i \in 1 .. Len(channel2[c]), IsAssign(channel2, c, i)
      PROVE  FALSE
    <2>1. IsAssign(channel, c, 1)
        BY <1>1, <1>4 DEF IsAssign
    <2>2. AssignInv(reg, bz, sends, channel, box, c, 1)
        BY <1>1, <2>1
    <2> QED
        BY <1>2, <1>4, <2>2 DEF AssignInv
<1> QED
    BY <1>3, <1>4

\* The steps that end a run and hand out none.
LEMMA HandleViolationSess ==
    ASSUME ~SendMaySuspend, IInv, IInv', ServedIsRegistered', RegistryInv(rt), SessInv,
           NEW c \in Conns, NEW r \in Runs, HandleViolation(c, r)
    PROVE  SessInv' /\ \A q \in Runs : Moved(rt, rt', q)
<1>1. PICK type : Receives(c, type, r)
    BY DEF HandleViolation
<1>2. /\ rt' = StoreRunEvent(MarkRunTerminal(rt, r, "failed"), r, "run.error")
      /\ busy' = Released(c, r) /\ stream_bytes' = stream_bytes \ {r}
      /\ pc' = [pc EXCEPT ![c] = "closing"] /\ link' = [link EXCEPT ![c] = "closed"]
      /\ UNCHANGED <<sending, down, work, work_conn>>
    BY DEF HandleViolation
<1>3. /\ NothingSent(sending) /\ busy[c] = r /\ r # NoRun
      /\ inbox[c] \in Answers(rt, r) /\ inbox[c] # <<>>
      /\ \A k \in Conns : inbox'[k] = IF k = c THEN Tail(inbox[c]) ELSE inbox[k]
    BY <1>1, ReceivedAnswer
<1>4. Underway(rt, r)
    BY <1>3, NextAnswer
<1>5. \A k \in Conns : k # c => busy[k] # r
    BY <1>3 DEF SessInv, SessionsInv, BusyInv
<1>6. /\ busy \in [Conns -> Runs \union {NoRun}] /\ pc \in [Conns -> {"none", "registering",
              "serving", "closing", "unregistering", "gone", "rejected"}]
      /\ link \in [Conns -> {"none", "up", "half", "closed"}]
    BY DEF IInv, TypeOK
<1>7. \A k \in Conns \ {c} : /\ busy[k] # r
                             /\ busy'[k] = busy[k] /\ pc'[k] = pc[k]
                             /\ inbox'[k] = inbox[k] /\ link'[k] = link[k]
    BY <1>2, <1>3, <1>5, <1>6 DEF Released
<1>8. \A k \in Conns \cap {c} : /\ busy[k] # NoRun => busy[k] = r
                                /\ busy'[k] = NoRun
                                /\ pc'[k] \notin {"none", "registering", "serving"}
                                /\ link'[k] # "up"
                                /\ link'[k] = "none" => link[k] = "none" /\ inbox'[k] = inbox[k]
    BY <1>2, <1>3, <1>6 DEF Released
<1>9. "failed" \in TERMINAL_RUN_STATUSES /\ "run.error" \in TerminalEvents
    BY DEF TERMINAL_RUN_STATUSES, TerminalEvents
<1> QED
    BY <1>2, <1>3, <1>4, <1>7, <1>8, <1>9, EndSess

\* unregister returns: the run of the session ends, if there is one.
LEMMA UnregisterReturnsSess ==
    ASSUME ~SendMaySuspend, IInv, IInv', ServedIsRegistered', RegistryInv(rt), SessInv,
           NEW c \in Conns, UnregisterReturns(c)
    PROVE  SessInv' /\ \A q \in Runs : Moved(rt, rt', q)
<1>1. /\ NothingSent(sending) /\ pc[c] = "unregistering" /\ pc' = [pc EXCEPT ![c] = "gone"]
      /\ busy' = [busy EXCEPT ![c] = NoRun]
      /\ UNCHANGED <<sending, down, inbox, link, work, work_conn>>
    BY FreeLoop DEF UnregisterReturns, connectorVars, channelVars
<1>2. ConnInv(rt, busy, sending, down, inbox, pc, c) /\ BusyInv(rt, busy, sending)
    BY DEF SessInv, SessionsInv
<1>3. link[c] # "up"
    BY <1>1, <1>2 DEF ConnInv, Listened
<1>4. /\ busy \in [Conns -> Runs \union {NoRun}] /\ pc \in [Conns -> {"none", "registering",
              "serving", "closing", "unregistering", "gone", "rejected"}]
    BY DEF IInv, TypeOK
<1>5. CASE busy[c] = NoRun
    <2>1. busy' = busy /\ UNCHANGED <<rt, stream_bytes>>
        BY <1>1, <1>4, <1>5 DEF UnregisterReturns
    <2>2. \A k \in Conns, q \in Runs : WorksOn(k, q)' = WorksOn(k, q) /\ work'[q] = work[q]
        BY <1>1 DEF WorksOn
    <2>3. ConnInv(rt, busy, sending, down, inbox, pc, c)'
        <3>1. pc'[c] = "gone"
            BY <1>1, <1>4
        <3> QED
            BY <1>1, <1>2, <1>3, <2>1, <2>2, <3>1 DEF ConnInv, Listened
    <2>4. \A k \in Conns : k # c => pc'[k] = pc[k]
        BY <1>1, <1>4
    <2>5. pc'[c] # "serving"
        BY <1>1, <1>4
    <2>6. \A k \in Conns : k # c => /\ pc'[k] = pc[k] /\ link'[k] = link[k]
                                    /\ down'[k] = down[k] /\ inbox'[k] = inbox[k]
                                    /\ \A q \in Runs : WorksOn(k, q)' =>
                                           WorksOn(k, q) /\ work'[q] = work[q]
        BY <1>1, <2>2, <2>4
    <2>7. UNCHANGED <<rt, busy, stream_bytes, sending>>
        BY <1>1, <2>1
    <2> QED
        BY <1>1, <2>3, <2>5, <2>6, <2>7, QuietSess
<1>6. CASE busy[c] # NoRun
    <2>1. PICK r \in Runs : r = busy[c]
        BY <1>4, <1>6
    <2>2. /\ rt' = StoreRunEvent(MarkRunTerminal(rt, r, "executor_disconnected"), r, "run.error")
          /\ stream_bytes' = stream_bytes \ {r}
        BY <1>6, <2>1 DEF UnregisterReturns
    <2>3. Underway(rt, r) /\ \A k \in Conns : k # c => busy[k] # r
        BY <1>2, <1>6, <2>1 DEF BusyInv
    <2>4. \A k \in Conns \ {c} : /\ busy[k] # r
                                 /\ busy'[k] = busy[k] /\ pc'[k] = pc[k]
                                 /\ inbox'[k] = inbox[k] /\ link'[k] = link[k]
        BY <1>1, <1>4, <2>3
    <2>5. \A k \in Conns \cap {c} : /\ busy[k] # NoRun => busy[k] = r
                                    /\ busy'[k] = NoRun
                                    /\ pc'[k] \notin {"none", "registering", "serving"}
                                    /\ link'[k] # "up"
                                    /\ link'[k] = "none" => link[k] = "none" /\ inbox'[k] = inbox[k]
        BY <1>1, <1>3, <1>4, <2>1
    <2>6. "executor_disconnected" \in TERMINAL_RUN_STATUSES /\ "run.error" \in TerminalEvents
        BY DEF TERMINAL_RUN_STATUSES, TerminalEvents
    <2> QED
        BY <1>1, <2>2, <2>3, <2>4, <2>5, <2>6, EndSess
<1> QED
    BY <1>5, <1>6

\* POST /v1/runs/{r}/cancel of a queued run
LEMMA CancelQueuedSess ==
    ASSUME ~SendMaySuspend, IInv, IInv', ServedIsRegistered', RegistryInv(rt), SessInv,
           NEW r \in Runs, CancelQueued(r)
    PROVE  SessInv' /\ \A q \in Runs : Moved(rt, rt', q)
<1>1. /\ NothingSent(sending) /\ rt.status[r] = "queued"
      /\ rt' = StoreRunEvent(MarkRunTerminal(rt, r, "cancelled"), r, "run.completed")
      /\ stream_bytes' = stream_bytes \ {r}
      /\ UNCHANGED <<pc, busy, sending, link, down, inbox, work, work_conn>>
    BY FreeLoop DEF CancelQueued, connectorVars, channelVars
<1>2. \A k \in Conns : busy[k] # r
    BY <1>1 DEF SessInv, SessionsInv, BusyInv, Underway, Runs, NoRun
<1>3. PICK S : S = {}
    OBVIOUS
<1>4. /\ \A k \in Conns \ S : /\ busy[k] # r
                              /\ busy'[k] = busy[k] /\ pc'[k] = pc[k]
                              /\ inbox'[k] = inbox[k] /\ link'[k] = link[k]
      /\ \A k \in Conns \cap S : /\ busy[k] # NoRun => busy[k] = r
                                 /\ busy'[k] = NoRun
                                 /\ pc'[k] \notin {"none", "registering", "serving"}
                                 /\ link'[k] # "up"
                                 /\ link'[k] = "none" => link[k] = "none" /\ inbox'[k] = inbox[k]
    BY <1>1, <1>2, <1>3
<1>5. "cancelled" \in TERMINAL_RUN_STATUSES /\ "run.completed" \in TerminalEvents
    BY DEF TERMINAL_RUN_STATUSES, TerminalEvents
<1> QED
    BY <1>1, <1>4, <1>5, EndSess

\* The steps on the websocket that leave the runs alone.
LEMMA CancelForwardedSess ==
    ASSUME ~SendMaySuspend, IInv, IInv', ServedIsRegistered', RegistryInv(rt), SessInv,
           NEW r \in Runs, CancelForwarded(r)
    PROVE  SessInv' /\ \A q \in Runs : Moved(rt, rt', q)
<1>1. PICK c \in Conns : link[c] = "up" /\ down' = Deliver(down, c, Message("run.cancel", r))
    BY DEF CancelForwarded
<1>2. /\ NothingSent(sending)
      /\ UNCHANGED <<rt, pc, busy, stream_bytes, sending, link, inbox, work, work_conn>>
    BY FreeLoop DEF CancelForwarded, managerVars, connectorVars
<1>3. PICK m : m = Message("run.cancel", r)
    OBVIOUS
<1>4. m \in Messages /\ m.type # "run.assign"
    BY <1>3 DEF Message, Messages
<1>5. down \in [Conns -> Seq(Messages)]
    BY DEF IInv, TypeOK
<1>6. down'[c] = Append(down[c], m) /\ \A k \in Conns : k # c => down'[k] = down[k]
    BY <1>1, <1>3, <1>5 DEF Deliver
<1>7. \A k \in Conns, q \in Runs : WorksOn(k, q)' = WorksOn(k, q) /\ work'[q] = work[q]
    BY <1>2 DEF WorksOn
<1>8. ConnInv(rt, busy, sending, down, inbox, pc, c)'
    <2>1. ConnInv(rt, busy, sending, down, inbox, pc, c)
        BY DEF SessInv, SessionsInv
    <2>2. PICK channel : channel = down'
        OBVIOUS
    <2>3. \A i \in 1 .. Len(down[c]) : IsAssign(down, c, i) =>
              AssignInv(rt, busy, sending, down, inbox, c, i)
        BY <1>1, <2>1 DEF ConnInv
    <2>4. \A i \in 1 .. Len(channel[c]) : IsAssign(channel, c, i) =>
              AssignInv(rt, busy, sending, channel, inbox, c, i)
        BY <1>4, <1>5, <1>6, <2>2, <2>3, AppendKeepsAssigns
    <2>5. ConnInv(rt, busy, sending, channel, inbox, pc, c)
        BY <1>1, <2>1, <2>4 DEF ConnInv
    <2> QED
        BY <1>2, <1>7, <2>2, <2>5, ConnCarries
<1> QED
    BY <1>2, <1>6, <1>7, <1>8, QuietSess

\* A connection opens: nothing is known of it and nothing was said on it.
LEMMA ConnectSess ==
    ASSUME ~SendMaySuspend, IInv, IInv', ServedIsRegistered', RegistryInv(rt), SessInv,
           NEW d \in Daemons, NEW n \in 1 .. MaxConns, Connect(d, n)
    PROVE  SessInv' /\ \A q \in Runs : Moved(rt, rt', q)
<1>1. PICK c \in Conns : c = <<d, n>>
    BY DEF Conns
<1>2. /\ NothingSent(sending) /\ pc[c] = "none"
      /\ \/ pc' = [pc EXCEPT ![c] = "registering"] /\ link' = [link EXCEPT ![c] = "up"]
         \/ pc' = [pc EXCEPT ![c] = "rejected"] /\ link' = link
      /\ UNCHANGED <<rt, busy, stream_bytes, sending, down, inbox, work, work_conn>>
    BY <1>1, FreeLoop DEF Connect, CanConnect
<1>3. /\ pc \in [Conns -> {"none", "registering",
              "serving", "closing", "unregistering", "gone", "rejected"}]
      /\ link \in [Conns -> {"none", "up", "half", "closed"}]
    BY DEF IInv, TypeOK
<1>4. \A k \in Conns : k # c => pc'[k] = pc[k] /\ link'[k] = link[k]
    BY <1>2, <1>3
<1>5. \A k \in Conns, q \in Runs : WorksOn(k, q)' = WorksOn(k, q) /\ work'[q] = work[q]
    BY <1>2 DEF WorksOn
<1>6. /\ link[c] = "none" /\ down[c] = <<>> /\ inbox[c] = <<>>
      /\ \A q \in Runs : ~WorksOn(c, q)
    BY <1>2 DEF SessInv, SessionsInv, ConnInv
<1>7. \/ pc'[c] = "registering" /\ link'[c] = "up"
      \/ pc'[c] = "rejected" /\ link'[c] = "none"
    BY <1>2, <1>3, <1>6
<1>8. ConnInv(rt, busy, sending, down, inbox, pc, c)'
    <2>1. <<>> \in IF busy[c] = NoRun THEN {<<>>} ELSE Answers(rt, busy[c])
        BY DEF Answers
    <2>2. Len(down'[c]) = 0 /\ inbox'[c] = <<>> /\ down'[c] = <<>>
        BY <1>2, <1>6
    <2>3. (IF busy[c] = NoRun THEN {<<>>} ELSE Answers(rt, busy[c]))' =
              IF busy[c] = NoRun THEN {<<>>} ELSE Answers(rt, busy[c])
        BY <1>2
    <2>4. \A q \in Runs : ~WorksOn(c, q)'
        BY <1>5, <1>6
    <2>5. inbox'[c] \in (IF busy[c] = NoRun THEN {<<>>} ELSE Answers(rt, busy[c]))'
        BY <2>1, <2>2, <2>3
    <2>6. pc'[c] = "none" => link'[c] = "none"
        BY <1>7
    <2>7. link'[c] = "up" => Listened(pc, c)'
        BY <1>7 DEF Listened
    <2>8. link'[c] = "none" => down'[c] = <<>> /\ inbox'[c] = <<>> /\ \A q \in Runs : ~WorksOn(c, q)'
        BY <2>2, <2>4
    <2>9. \A i \in 1 .. Len(down'[c]) : FALSE
        BY <2>2
    <2> QED
        BY <2>4, <2>5, <2>6, <2>7, <2>8, <2>9 DEF ConnInv
<1> QED
    BY <1>2, <1>4, <1>5, <1>7, <1>8, QuietSess

\* The steps of register and unregister after which nobody listens to the connection.
LEMMA CloseSess ==
    ASSUME ~SendMaySuspend, IInv, IInv', ServedIsRegistered', RegistryInv(rt), SessInv,
           NEW c \in Conns, RegisterRaises(c) \/ Unregister(c) \/ UnregisterRaises(c)
    PROVE  SessInv' /\ \A q \in Runs : Moved(rt, rt', q)
<1>1. /\ NothingSent(sending)
      /\ UNCHANGED <<rt, busy, stream_bytes, sending, down, inbox, work, work_conn>>
    BY FreeLoop DEF RegisterRaises, Unregister, UnregisterRaises, connectorVars, channelVars
<1>2. ConnInv(rt, busy, sending, down, inbox, pc, c)
    BY DEF SessInv, SessionsInv
<1>3. /\ pc \in [Conns -> {"none", "registering", "serving", "closing",
                           "unregistering", "gone", "rejected"}]
      /\ link \in [Conns -> {"none", "up", "half", "closed"}]
    BY DEF IInv, TypeOK
<1>4. /\ link'[c] # "up" /\ (link'[c] = "none" => link[c] = "none")
      /\ \A k \in Conns : k # c => link'[k] = link[k]
    <2>1. CASE RegisterRaises(c)
        BY <1>3, <2>1 DEF RegisterRaises
    <2>2. CASE Unregister(c) \/ UnregisterRaises(c)
        <3>1. link' = link
            BY <2>2 DEF Unregister, UnregisterRaises, channelVars
        <3>2. link[c] # "up"
            BY <1>2, <2>2 DEF ConnInv, Listened, Unregister, UnregisterRaises
        <3> QED
            BY <3>1, <3>2
    <2> QED
        BY <2>1, <2>2
<1>5. /\ pc'[c] \in {"gone", "unregistering"}
      /\ \A k \in Conns : k # c => pc'[k] = pc[k]
    BY <1>3 DEF RegisterRaises, Unregister, UnregisterRaises
<1>6. \A k \in Conns, q \in Runs : WorksOn(k, q)' = WorksOn(k, q) /\ work'[q] = work[q]
    BY <1>1 DEF WorksOn
<1>7. ConnInv(rt, busy, sending, down, inbox, pc, c)'
    BY <1>1, <1>2, <1>4, <1>5, <1>6 DEF ConnInv, Listened
<1> QED
    BY <1>1, <1>4, <1>5, <1>6, <1>7, QuietSess

\* The connection is lost, and the backend notices: the end of what was said is gone.
LEMMA DropSess ==
    ASSUME ~SendMaySuspend, IInv, IInv', ServedIsRegistered', RegistryInv(rt), SessInv,
           NEW c \in Conns, Drop(c) \/ NoticeDrop(c)
    PROVE  SessInv' /\ \A q \in Runs : Moved(rt, rt', q)
<1>1. /\ NothingSent(sending) /\ link[c] # "none"
      /\ link'[c] \in {"half", "closed"}
      /\ link'[c] # "closed" => link[c] # "closed"
      /\ UNCHANGED <<rt, pc, busy, stream_bytes, sending, work, work_conn>>
    BY FreeLoop DEF Drop, NoticeDrop, managerVars, connectorVars, IInv, TypeOK
<1>2. ConnInv(rt, busy, sending, down, inbox, pc, c)
    BY DEF SessInv, SessionsInv
<1>3. inbox \in [Conns -> Seq(Messages)]
    BY DEF IInv, TypeOK
<1>4. PICK k : /\ k \in 0 .. Len(inbox[c])
               /\ inbox'[c] = inbox[c] \/ inbox'[c] = SubSeq(inbox[c], 1, k)
    <2>1. CASE Drop(c)
        <3>1. 0 \in 0 .. Len(inbox[c]) /\ inbox'[c] = inbox[c]
            BY <1>3, <2>1 DEF Drop
        <3> QED
            BY <3>1
    <2>2. CASE NoticeDrop(c)
        BY <1>3, <2>2 DEF NoticeDrop
    <2> QED
        BY <2>1, <2>2
<1>5. \A j \in Conns : j # c => /\ link'[j] = link[j] /\ down'[j] = down[j]
                                /\ inbox'[j] = inbox[j]
    BY DEF Drop, NoticeDrop, IInv, TypeOK
<1>6. \A j \in Conns, q \in Runs : WorksOn(j, q)' = WorksOn(j, q) /\ work'[q] = work[q]
    BY <1>1 DEF WorksOn
<1>7. ConnInv(rt, busy, sending, down, inbox, pc, c)'
    <2>1. ASSUME Listened(pc, c)
          PROVE  inbox'[c] \in IF busy[c] = NoRun THEN {<<>>} ELSE Answers(rt, busy[c])
        <3>1. inbox[c] \in IF busy[c] = NoRun THEN {<<>>} ELSE Answers(rt, busy[c])
            BY <1>2, <2>1 DEF ConnInv
        <3>2. CASE busy[c] = NoRun
            <4>1. inbox[c] = <<>>
                BY <3>1, <3>2
            <4>2. Len(inbox[c]) = 0
                BY <4>1
            <4>3. k = 0
                BY <1>4, <4>2
            <4>4. SubSeq(inbox[c], 1, k) = <<>>
                BY <4>1, <4>3, Prefixes, Zenon
            <4> QED
                BY <1>4, <3>2, <4>1, <4>4
        <3>3. CASE busy[c] # NoRun
            <4>1. inbox[c] \in Answers(rt, busy[c])
                BY <3>1, <3>3
            <4>2. SubSeq(inbox[c], 1, k) \in Answers(rt, busy[c])
                BY <1>4, <4>1, AnswersPrefix
            <4> QED
                BY <1>4, <3>3, <4>1, <4>2
        <3> QED
            BY <3>2, <3>3
    <2>2. pc[c] # "none"
        BY <1>1, <1>2 DEF ConnInv
    <2>3. Listened(pc, c)' = Listened(pc, c) /\ Answers(rt, busy[c])' = Answers(rt, busy[c])
          /\ pc'[c] = pc[c] /\ busy'[c] = busy[c]
        BY <1>1
    <2>4. Listened(pc, c)' =>
              inbox'[c] \in (IF busy[c] = NoRun THEN {<<>>} ELSE Answers(rt, busy[c]))'
        BY <2>1, <2>3
    <2>5. pc'[c] # "none" /\ link'[c] # "none" /\ link'[c] # "up"
        BY <1>1, <2>2
    <2> QED
        BY <2>4, <2>5 DEF ConnInv
<1>8. /\ pc'[c] = "serving" /\ link'[c] # "closed" =>
             pc[c] = "serving" /\ link[c] # "closed"
      /\ UNCHANGED <<rt, busy, stream_bytes, sending>>
    BY <1>1
<1>9. \A j \in Conns : j # c => /\ pc'[j] = pc[j] /\ link'[j] = link[j]
                                /\ down'[j] = down[j] /\ inbox'[j] = inbox[j]
                                /\ \A q \in Runs : WorksOn(j, q)' =>
                                       WorksOn(j, q) /\ work'[q] = work[q]
    BY <1>1, <1>5, <1>6
<1> QED
    BY <1>1, <1>7, <1>8, <1>9, QuietSess

\* The cleanup loop: only runs that have ended go.
LEMMA CleanupRunsSess ==
    ASSUME ~SendMaySuspend, IInv, IInv', ServedIsRegistered', RegistryInv(rt), SessInv,
           NEW cutoff, CleanupRuns(cutoff)
    PROVE  SessInv' /\ \A q \in Runs : Moved(rt, rt', q)
<1>1. /\ NothingSent(sending) /\ rt' = Cleanup(rt, cutoff)
      /\ UNCHANGED <<pc, busy, stream_bytes, sending, link, down, inbox, work, work_conn>>
    BY FreeLoop DEF CleanupRuns, connectorVars, channelVars
<1>2. /\ rt \in Registry /\ rt' \in Registry /\ AssignsOn(rt, down)
      /\ busy \in [Conns -> Runs \union {NoRun}]
      /\ ToldInv(rt, sending) /\ BusyInv(rt, busy, sending)
    BY DEF IInv, TypeOK, SessInv, SessionsInv
<1>3. PICK reg : reg = rt'
    OBVIOUS
<1>4. /\ reg.created = rt.created /\ reg.queued_runs \subseteq rt.queued_runs
      /\ \A q \in Runs :
            \/ /\ reg.status[q] = rt.status[q] /\ reg.session[q] = rt.session[q]
               /\ reg.executor[q] = rt.executor[q]
               /\ \/ reg.run_events[q] = rt.run_events[q]
                  \/ rt.status[q] = "absent" /\ reg.run_events[q] = <<>>
            \/ /\ Terminal(rt, q)
               /\ reg.status[q] = "absent" /\ reg.run_events[q] = <<>>
    BY <1>1, <1>2, <1>3, CleanedRuns
<1>5. \A q \in Runs : Same(rt, reg, q) \/ Shed(rt, reg, q)
    BY <1>2, <1>4 DEF ToldInv, Same, Shed
<1>6. \A d : Waiting(reg, d) \subseteq Waiting(rt, d)
    <2>1. \A q \in Runs : reg.status[q] = "queued" =>
              rt.status[q] = "queued" /\ reg.session[q] = rt.session[q]
        BY <1>4
    <2> QED
        BY <1>2, <1>3, <1>4, <2>1, WaitingShrinks
<1>7. \A q \in Runs : Underway(rt, q) => Same(rt, reg, q)
    BY <1>5 DEF Shed, Terminal, Underway, TERMINAL_RUN_STATUSES
<1>8. ToldInv(reg, sending)
    BY <1>2, <1>5 DEF ToldInv, Same, Shed
<1>9. \A k \in Conns : busy[k] # NoRun =>
          busy[k] \in Runs /\ Underway(rt, busy[k]) /\ Same(rt, reg, busy[k])
    BY <1>2, <1>7 DEF BusyInv
<1>10. \A q \in Runs : Underway(reg, q) => Underway(rt, q)
    BY <1>5 DEF Same, Shed, Underway
<1>11. BusyInv(reg, busy, sending)
    BY <1>1, <1>2, <1>9, <1>10 DEF BusyInv, NothingSent, Same, Underway
<1>12. \A k \in Conns, q \in Runs : WorksOn(k, q)' = WorksOn(k, q) /\ work'[q] = work[q]
    BY <1>1 DEF WorksOn
<1>13. ASSUME NEW k \in Conns PROVE ConnInv(rt, busy, sending, down, inbox, pc, k)'
    <2>1. ConnInv(rt, busy, sending, down, inbox, pc, k)
        BY DEF SessInv, SessionsInv
    <2>2. \A i \in 1 .. Len(down[k]) : IsAssign(down, k, i) => down[k][i].run \in Runs
        BY <1>2 DEF AssignsOn, IsAssign
    <2>3. busy[k] # NoRun => reg.status[busy[k]] = rt.status[busy[k]]
        BY <1>9 DEF Same
    <2>4. ConnInv(reg, busy, sending, down, inbox, pc, k)
        BY <1>1, <2>1, <2>2, <2>3, ConnFrame DEF NothingSent
    <2> QED
        BY <1>1, <1>3, <1>12, <2>4, ConnCarries
<1>14. SessionsInv(rt, busy, sending, down, inbox, pc)'
    <2>1. ToldInv(rt, sending)' /\ BusyInv(rt, busy, sending)'
        BY <1>1, <1>3, <1>8, <1>11
    <2> QED
        BY <1>13, <2>1 DEF SessionsInv
<1>15. IdleInv(rt, busy, sending, pc)'
    BY <1>1, <1>3, <1>6, IdleCarries DEF SessInv
<1>16. BytesInv'
    BY <1>1 DEF SessInv, BytesInv
<1>17. \A q \in Runs : Moved(rt, rt', q)
    BY <1>2, <1>3, <1>4, <1>5, OthersMove
<1> QED
    BY <1>14, <1>15, <1>16, <1>17 DEF SessInv

\* The connector takes a message: a run.assign becomes the one task of its connection.
LEMMA ConnectorReceivesSess ==
    ASSUME ~SendMaySuspend, IInv, IInv', ServedIsRegistered', RegistryInv(rt), SessInv,
           NEW c \in Conns, ConnectorReceives(c)
    PROVE  SessInv' /\ \A q \in Runs : Moved(rt, rt', q)
<1>1. /\ NothingSent(sending) /\ link[c] = "up" /\ down[c] # <<>>
      /\ UNCHANGED <<rt, pc, busy, stream_bytes, sending, link, inbox>>
    BY FreeLoop DEF ConnectorReceives, managerVars
<1>2. /\ down \in [Conns -> Seq(Messages)] /\ AssignsOn(rt, down)
      /\ work \in [Runs -> {"none", "waiting", "active", "cancelling", "done"}]
      /\ work_conn \in [Runs -> Conns \union {NoConn}]
    BY DEF IInv, TypeOK
<1>3. down'[c] = Tail(down[c]) /\ \A k \in Conns : k # c => down'[k] = down[k]
    BY <1>2 DEF ConnectorReceives
<1>4. PICK m : m = Head(down[c])
    OBVIOUS
<1>5. \/ /\ m.type = "run.assign"
         /\ work' = [work EXCEPT ![m.run] = "waiting"]
         /\ work_conn' = [work_conn EXCEPT ![m.run] = c]
      \/ /\ work[m.run] = "active" /\ work_conn[m.run] = c
         /\ work' = [work EXCEPT ![m.run] = "cancelling"]
         /\ work_conn' = work_conn
      \/ UNCHANGED <<work, work_conn>>
    BY <1>4 DEF ConnectorReceives
<1>6. ConnInv(rt, busy, sending, down, inbox, pc, c)
    BY DEF SessInv, SessionsInv
<1>7. \A i \in 1 .. Len(down[c]) : IsAssign(down, c, i) =>
          AssignInv(rt, busy, sending, down, inbox, c, i)
    BY <1>1, <1>6 DEF ConnInv
<1>8. PICK channel : channel = down'
    OBVIOUS
<1>9. /\ \A i \in 1 .. Len(channel[c]) : IsAssign(channel, c, i) =>
             AssignInv(rt, busy, sending, channel, inbox, c, i)
      /\ m.type = "run.assign" => \A i \in 1 .. Len(channel[c]) : ~IsAssign(channel, c, i)
    <2>1. down[c] \in Seq(Messages) /\ channel[c] = Tail(down[c])
        BY <1>2, <1>3, <1>8
    <2> QED
        BY <1>1, <1>4, <1>7, <2>1, TailKeepsAssigns
<1>10. ConnInv(rt, busy, sending, channel, inbox, pc, c)
    BY <1>1, <1>6, <1>9 DEF ConnInv
<1>11. CASE m.type = "run.assign" /\ work' = [work EXCEPT ![m.run] = "waiting"]
            /\ work_conn' = [work_conn EXCEPT ![m.run] = c]
    <2>1. PICK r : r = m.run
        OBVIOUS
    <2>2. 1 \in 1 .. Len(down[c]) /\ down[c][1] = m
        BY <1>1, <1>2, <1>4
    <2>3. IsAssign(down, c, 1)
        BY <1>11, <2>2 DEF IsAssign
    <2>4. /\ r \in Runs /\ busy[c] = r /\ rt.status[r] = "assigned" /\ inbox[c] = <<>>
          /\ \A q \in Runs : ~WorksOn(c, q)
        <3>1. AssignInv(rt, busy, sending, down, inbox, c, 1)
            BY <1>7, <2>2, <2>3
        <3>2. r \in Runs
            BY <1>2, <1>11, <2>1, <2>2 DEF AssignsOn
        <3> QED
            BY <1>1, <2>1, <2>2, <3>1, <3>2 DEF AssignInv, NothingSent
    <2>5. \A q \in Runs : /\ work'[q] = IF q = r THEN "waiting" ELSE work[q]
                          /\ work_conn'[q] = IF q = r THEN c ELSE work_conn[q]
        BY <1>2, <1>11, <2>1
    <2>6. \A k \in Conns : k # c => \A q \in Runs : WorksOn(k, q)' =>
              WorksOn(k, q) /\ work'[q] = work[q]
        BY <2>5 DEF WorksOn
    <2>7. \A q \in Runs : WorksOn(c, q)' => q = r
        BY <2>4, <2>5 DEF WorksOn
    <2>8. ConnInv(rt, busy, sending, down, inbox, pc, c)'
        <3>1. \A q \in Runs : WorksOn(c, q)' => TaskInv(rt, busy, inbox, c, q)'
            BY <1>1, <2>4, <2>5, <2>7 DEF TaskInv
        <3>2. \A i \in 1 .. Len(down'[c]) : ~IsAssign(down, c, i)'
            BY <1>8, <1>9, <1>11 DEF IsAssign
        <3>3. Listened(pc, c)' /\ link'[c] = "up" /\ pc'[c] # "none"
            BY <1>1, <1>6 DEF ConnInv, Listened
        <3>4. inbox'[c] \in (IF busy[c] = NoRun THEN {<<>>} ELSE Answers(rt, busy[c]))'
            <4>1. inbox[c] \in IF busy[c] = NoRun THEN {<<>>} ELSE Answers(rt, busy[c])
                BY <1>1, <1>6 DEF ConnInv
            <4> QED
                BY <1>1, <4>1
        <3> QED
            BY <3>1, <3>2, <3>3, <3>4 DEF ConnInv
    <2>9. \A k \in Conns : k # c => /\ pc'[k] = pc[k] /\ link'[k] = link[k]
                                    /\ down'[k] = down[k] /\ inbox'[k] = inbox[k]
                                    /\ \A q \in Runs : WorksOn(k, q)' =>
                                           WorksOn(k, q) /\ work'[q] = work[q]
        BY <1>1, <1>3, <2>6
    <2>10. pc'[c] = "serving" /\ link'[c] # "closed" => pc[c] = "serving" /\ link[c] # "closed"
        BY <1>1
    <2> QED
        BY <1>1, <2>8, <2>9, <2>10, QuietSess
<1>12. CASE \/ /\ work[m.run] = "active" /\ work_conn[m.run] = c
               /\ work' = [work EXCEPT ![m.run] = "cancelling"]
               /\ work_conn' = work_conn
            \/ UNCHANGED <<work, work_conn>>
    <2>1. \A q \in Runs : \/ work'[q] = work[q]
                          \/ /\ work[q] = "active" /\ work_conn[q] = c
                             /\ work'[q] = "cancelling"
        BY <1>2, <1>12
    <2>2. work_conn' = work_conn
        BY <1>12
    <2>3. \A k \in Conns : k # c => \A q \in Runs : WorksOn(k, q)' =>
              WorksOn(k, q) /\ work'[q] = work[q]
        BY <2>1, <2>2 DEF WorksOn
    <2>4. \A q \in Runs : WorksOn(c, q)' = WorksOn(c, q)
                          /\ (work'[q] = "waiting" <=> work[q] = "waiting")
        BY <2>1, <2>2 DEF WorksOn
    <2>5. ConnInv(rt, busy, sending, down, inbox, pc, c)'
        <3>1. ASSUME NEW q \in Runs, WorksOn(c, q)'
              PROVE  TaskInv(rt, busy, inbox, c, q)'
            <4>1. TaskInv(rt, busy, inbox, c, q)
                BY <1>1, <1>6, <2>4, <3>1 DEF ConnInv
            <4> QED
                BY <1>1, <2>4, <4>1 DEF TaskInv
        <3>2. ASSUME NEW i \in 1 .. Len(down'[c]), IsAssign(down, c, i)'
              PROVE  AssignInv(rt, busy, sending, down, inbox, c, i)'
            <4>1. AssignInv(rt, busy, sending, channel, inbox, c, i)
                BY <1>8, <1>9, <3>2 DEF IsAssign
            <4> QED
                BY <1>1, <1>8, <2>4, <4>1 DEF AssignInv, IsAssign
        <3>3. Listened(pc, c)' /\ link'[c] = "up" /\ pc'[c] # "none"
            BY <1>1, <1>6 DEF ConnInv, Listened
        <3>4. inbox'[c] \in (IF busy[c] = NoRun THEN {<<>>} ELSE Answers(rt, busy[c]))'
            <4>1. inbox[c] \in IF busy[c] = NoRun THEN {<<>>} ELSE Answers(rt, busy[c])
                BY <1>1, <1>6 DEF ConnInv
            <4> QED
                BY <1>1, <4>1
        <3> QED
            BY <3>1, <3>2, <3>3, <3>4 DEF ConnInv
    <2>6. \A k \in Conns : k # c => /\ pc'[k] = pc[k] /\ link'[k] = link[k]
                                    /\ down'[k] = down[k] /\ inbox'[k] = inbox[k]
                                    /\ \A q \in Runs : WorksOn(k, q)' =>
                                           WorksOn(k, q) /\ work'[q] = work[q]
        BY <1>1, <1>3, <2>3
    <2>7. pc'[c] = "serving" /\ link'[c] # "closed" => pc[c] = "serving" /\ link[c] # "closed"
        BY <1>1
    <2> QED
        BY <1>1, <2>5, <2>6, <2>7, QuietSess
<1> QED
    BY <1>5, <1>11, <1>12

\* The connector says something about the run it works on: what it says is an answer
\* the backend can still get, and its task goes on or is done.
LEMMA ReplySess ==
    ASSUME ~SendMaySuspend, IInv, IInv', ServedIsRegistered', RegistryInv(rt), SessInv,
           LoopFree, NEW r \in Runs, NEW m, Reply(r, m), NEW next,
           NEW c, c = work_conn[r],
           link[c] = "up" /\ c \in Conns =>
               /\ WorksOn(c, r)
               /\ Append(inbox[c], m) \in Answers(rt, r)
               /\ \/ next = "done"
                  \/ next = "active" /\ work[r] = "waiting" /\ m = Message("run.accepted", r),
           link[c] # "up" => next = "done",
           work' = [work EXCEPT ![r] = next],
           UNCHANGED <<managerVars, greeted, work_conn, gave_up, link, down>>
    PROVE  SessInv' /\ \A q \in Runs : Moved(rt, rt', q)
<1>1. /\ NothingSent(sending)
      /\ UNCHANGED <<rt, pc, busy, stream_bytes, sending, link, down, work_conn>>
    BY FreeLoop DEF managerVars
<1>2. /\ inbox \in [Conns -> Seq(Messages)]
      /\ work \in [Runs -> {"none", "waiting", "active", "cancelling", "done"}]
    BY DEF IInv, TypeOK
<1>3. \A q \in Runs : work'[q] = IF q = r THEN next ELSE work[q]
    BY <1>2
<1>4. \A k \in Conns : k # c => inbox'[k] = inbox[k]
    BY <1>2 DEF Reply
<1>5. \A k \in Conns : k # c => \A q \in Runs : WorksOn(k, q)' =>
          WorksOn(k, q) /\ work'[q] = work[q]
    BY <1>1, <1>3 DEF WorksOn
<1>6. ASSUME c \in Conns PROVE ConnInv(rt, busy, sending, down, inbox, pc, c)'
    <2>1. ConnInv(rt, busy, sending, down, inbox, pc, c)
        BY <1>6 DEF SessInv, SessionsInv
    <2>2. CASE link[c] # "up"
        <3>1. inbox' = inbox /\ next = "done"
            BY <2>2 DEF Reply
        <3>2. \A q \in Runs : WorksOn(c, q)' => WorksOn(c, q) /\ work'[q] = work[q]
            BY <1>1, <1>3, <3>1 DEF WorksOn
        <3> QED
            BY <1>1, <1>6, <2>1, <3>1, <3>2, ConnCarries
    <2>3. CASE link[c] = "up"
        <3>1. /\ WorksOn(c, r) /\ TaskInv(rt, busy, inbox, c, r)
              /\ \A q \in Runs : WorksOn(c, q) => TaskInv(rt, busy, inbox, c, q)
              /\ Listened(pc, c) /\ pc[c] # "none"
            BY <1>6, <2>1, <2>3 DEF ConnInv
        <3>2. busy[c] = r /\ r # NoRun /\ \A q \in Runs : WorksOn(c, q) => q = r
            BY <3>1 DEF TaskInv, Runs, NoRun
        <3>3. inbox'[c] = Append(inbox[c], m)
            BY <1>2, <1>6, <2>3 DEF Reply
        <3>4. inbox'[c] \in Answers(rt, r)
            BY <1>6, <2>3, <3>3
        <3>5. inbox'[c] \in (IF busy[c] = NoRun THEN {<<>>} ELSE Answers(rt, busy[c]))'
            BY <1>1, <3>2, <3>4
        <3>6. \A i \in 1 .. Len(down'[c]) : ~IsAssign(down, c, i)'
            BY <1>1, <2>1, <2>3, <3>1 DEF ConnInv, AssignInv, IsAssign
        <3>7. \A q \in Runs : WorksOn(c, q)' => q = r /\ next = "active"
            BY <1>1, <1>3, <1>6, <2>3, <3>2 DEF WorksOn
        <3>8. ASSUME NEW q \in Runs, WorksOn(c, q)'
              PROVE  TaskInv(rt, busy, inbox, c, q)'
            <4>1. q = r /\ next = "active" /\ work[r] = "waiting"
                  /\ m = Message("run.accepted", r)
                BY <1>6, <2>3, <3>7, <3>8
            <4>2. rt.status[r] = "assigned" /\ inbox[c] = <<>>
                BY <3>1, <4>1 DEF TaskInv
            <4>3. inbox'[c] = <<Message("run.accepted", r)>>
                <5>1. \A x : Append(<<>>, x) = <<x>>
                    OBVIOUS
                <5> QED
                    BY <3>3, <4>1, <4>2, <5>1
            <4> QED
                BY <1>1, <1>3, <3>2, <4>1, <4>2, <4>3 DEF TaskInv
        <3>9. Listened(pc, c)' /\ link'[c] = "up" /\ pc'[c] # "none"
            BY <1>1, <2>3, <3>1 DEF Listened
        <3> QED
            BY <3>5, <3>6, <3>8, <3>9 DEF ConnInv
    <2> QED
        BY <2>2, <2>3
<1>7. \A k \in Conns : k # c => /\ pc'[k] = pc[k] /\ link'[k] = link[k]
                                /\ down'[k] = down[k] /\ inbox'[k] = inbox[k]
                                /\ \A q \in Runs : WorksOn(k, q)' =>
                                       WorksOn(k, q) /\ work'[q] = work[q]
    BY <1>1, <1>4, <1>5
<1>8. pc'[c] = "serving" /\ link'[c] # "closed" => pc[c] = "serving" /\ link[c] # "closed"
    BY <1>1
<1> QED
    BY <1>1, <1>6, <1>7, <1>8, QuietSess

\* The connector starts, refuses and finishes a run.
LEMMA ConnectorAnswersSess ==
    ASSUME ~SendMaySuspend, IInv, IInv', ServedIsRegistered', RegistryInv(rt), SessInv,
           NEW r \in Runs, ConnectorAccepts(r) \/ ConnectorSetupFails(r) \/ ConnectorFinishes(r)
    PROVE  SessInv' /\ \A q \in Runs : Moved(rt, rt', q)
<1>1. PICK c : c = work_conn[r]
    OBVIOUS
<1>2. /\ LoopFree
      /\ UNCHANGED <<managerVars, greeted, work_conn, gave_up, link, down>>
    BY DEF ConnectorAccepts, ConnectorSetupFails, ConnectorFinishes
<1>3. ASSUME link[c] = "up", c \in Conns, WorksOn(c, r) PROVE TaskInv(rt, busy, inbox, c, r)
    <2>1. ConnInv(rt, busy, sending, down, inbox, pc, c)
        BY <1>3 DEF SessInv, SessionsInv
    <2> QED
        BY <1>3, <2>1 DEF ConnInv
<1>4. \A x : Append(<<>>, x) = <<x>>
    OBVIOUS
<1>5. ASSUME work[r] = "waiting",
             NEW m \in {Message("run.accepted", r), Message("run.failed", r)},
             link[c] = "up", c \in Conns
      PROVE  WorksOn(c, r) /\ Append(inbox[c], m) \in Answers(rt, r)
    <2>1. WorksOn(c, r)
        BY <1>1, <1>5 DEF WorksOn
    <2>2. rt.status[r] = "assigned" /\ inbox[c] = <<>>
        BY <1>3, <1>5, <2>1 DEF TaskInv
    <2>3. <<m>> \in Answers(rt, r)
        <3>1. {<<Message("run.accepted", r)>>, <<Message("run.failed", r)>>} \subseteq Answers(rt, r)
            BY <2>2 DEF Answers
        <3> QED
            BY <1>5, <3>1
    <2> QED
        BY <1>4, <2>1, <2>2, <2>3
<1>6. CASE ConnectorAccepts(r)
    <2>1. PICK m : m = Message("run.accepted", r)
        OBVIOUS
    <2>2. PICK next : next = IF link[c] = "up" THEN "active" ELSE "done"
        OBVIOUS
    <2>3. /\ work[r] = "waiting" /\ Reply(r, m) /\ work' = [work EXCEPT ![r] = next]
        BY <1>1, <1>6, <2>1, <2>2 DEF ConnectorAccepts
    <2>4. link[c] = "up" /\ c \in Conns =>
              /\ WorksOn(c, r)
              /\ Append(inbox[c], m) \in Answers(rt, r)
              /\ \/ next = "done"
                 \/ next = "active" /\ work[r] = "waiting" /\ m = Message("run.accepted", r)
        BY <1>5, <2>1, <2>2, <2>3
    <2>5. link[c] # "up" => next = "done"
        BY <2>2
    <2> QED
        BY <1>1, <1>2, <2>3, <2>4, <2>5, ReplySess
<1>7. CASE ConnectorSetupFails(r)
    <2>1. PICK m : m = Message("run.failed", r)
        OBVIOUS
    <2>2. PICK next : next = "done"
        OBVIOUS
    <2>3. /\ work[r] = "waiting" /\ Reply(r, m) /\ work' = [work EXCEPT ![r] = next]
        BY <1>7, <2>1, <2>2 DEF ConnectorSetupFails
    <2>4. link[c] = "up" /\ c \in Conns =>
              WorksOn(c, r) /\ Append(inbox[c], m) \in Answers(rt, r) /\ next = "done"
        BY <1>5, <2>1, <2>2, <2>3
    <2> QED
        BY <1>1, <1>2, <2>2, <2>3, <2>4, ReplySess
<1>8. CASE ConnectorFinishes(r)
    <2>1. PICK m \in Ends(r) : Reply(r, m)
        <3>1. CASE Reply(r, Message("run.failed", r))
            BY <3>1 DEF Ends
        <3>2. CASE Reply(r, [Message("run.completed", r) EXCEPT
                                 !.cancelled = (work[r] = "cancelling")])
            <4>1. PICK b \in BOOLEAN : b = (work[r] = "cancelling")
                OBVIOUS
            <4>2. Reply(r, [Message("run.completed", r) EXCEPT !.cancelled = b])
                BY <3>2, <4>1
            <4> QED
                BY <4>2 DEF Ends
        <3> QED
            BY <1>8, <3>1, <3>2 DEF ConnectorFinishes
    <2>2. PICK next : next = "done"
        OBVIOUS
    <2>3. work' = [work EXCEPT ![r] = next] /\ work[r] \in {"active", "cancelling"}
        BY <1>8, <2>2 DEF ConnectorFinishes, Prompting
    <2>4. ASSUME link[c] = "up", c \in Conns
          PROVE  WorksOn(c, r) /\ Append(inbox[c], m) \in Answers(rt, r)
        <3>1. WorksOn(c, r)
            BY <1>1, <2>3 DEF WorksOn
        <3>2. TaskInv(rt, busy, inbox, c, r)
            BY <1>3, <2>4, <3>1
        <3>3. CASE rt.status[r] = "assigned"
            <4>1. inbox[c] = <<Message("run.accepted", r)>>
                BY <2>3, <3>2, <3>3 DEF TaskInv
            <4>2. Append(inbox[c], m) = <<Message("run.accepted", r), m>>
                BY <4>1, AppendedPair, Zenon
            <4>3. {<<Message("run.accepted", r), x>> : x \in Ends(r)} \subseteq Answers(rt, r)
                BY <3>3 DEF Answers
            <4>4. <<Message("run.accepted", r), m>> \in Answers(rt, r)
                BY <4>3
            <4> QED
                BY <3>1, <4>2, <4>4, Zenon
        <3>4. CASE rt.status[r] = "running"
            <4>1. inbox[c] = <<>>
                BY <2>3, <3>2, <3>4 DEF TaskInv
            <4>2. {<<x>> : x \in Ends(r)} \subseteq Answers(rt, r)
                BY <3>4 DEF Answers
            <4>3. <<m>> \in Answers(rt, r)
                BY <4>2
            <4> QED
                BY <1>4, <3>1, <4>1, <4>3
        <3> QED
            BY <2>3, <3>2, <3>3, <3>4 DEF TaskInv
    <2>5. link[c] = "up" /\ c \in Conns =>
              WorksOn(c, r) /\ Append(inbox[c], m) \in Answers(rt, r) /\ next = "done"
        BY <2>2, <2>4
    <2> QED
        BY <1>1, <1>2, <2>1, <2>2, <2>3, <2>5, ReplySess
<1> QED
    BY <1>6, <1>7, <1>8

\* The initial state.
LEMMA InitSess ==
    ASSUME Init
    PROVE  SessInv
<1>1. /\ \A r \in Runs : /\ rt.status[r] = "absent" /\ rt.run_events[r] = <<>>
                         /\ sending[r] = NotSending /\ work[r] = "none"
      /\ \A c \in Conns : /\ pc[c] = "none" /\ busy[c] = NoRun /\ link[c] = "none"
                          /\ down[c] = <<>> /\ inbox[c] = <<>>
      /\ stream_bytes = {}
    BY DEF Init, EmptyRegistry
<1>2. ToldInv(rt, sending)
    BY <1>1 DEF ToldInv
<1>3. BusyInv(rt, busy, sending)
    BY <1>1 DEF BusyInv, Underway
<1>4. ASSUME NEW c \in Conns PROVE ConnInv(rt, busy, sending, down, inbox, pc, c)
    BY <1>1 DEF ConnInv, Listened, WorksOn
<1>5. IdleInv(rt, busy, sending, pc)
    BY <1>1 DEF IdleInv, Covered
<1> QED
    BY <1>1, <1>2, <1>3, <1>4, <1>5 DEF SessInv, SessionsInv, BytesInv

\* A step in which nothing happens.
LEMMA StutterSess ==
    ASSUME SessInv, UNCHANGED vars
    PROVE  SessInv' /\ \A q \in Runs : Moved(rt, rt', q)
<1>1. UNCHANGED <<rt, pc, busy, stream_bytes, sending, link, down, inbox, work, work_conn>>
    BY DEF vars, managerVars, connectorVars, channelVars
<1>2. ASSUME NEW c \in Conns PROVE ConnInv(rt, busy, sending, down, inbox, pc, c)'
    <2>1. ConnInv(rt, busy, sending, down, inbox, pc, c)
        BY DEF SessInv, SessionsInv
    <2>2. \A r \in Runs : WorksOn(c, r)' => WorksOn(c, r) /\ work'[r] = work[r]
        BY <1>1 DEF WorksOn
    <2> QED
        BY <1>1, <2>1, <2>2, ConnCarries
<1>3. ToldInv(rt, sending)' /\ BusyInv(rt, busy, sending)'
    BY <1>1 DEF SessInv, SessionsInv, ToldInv, BusyInv, Underway
<1>4. IdleInv(rt, busy, sending, pc)'
    BY <1>1 DEF SessInv, IdleInv, Covered, NothingSent
<1>5. BytesInv'
    BY <1>1 DEF SessInv, BytesInv
<1>6. \A q \in Runs : Moved(rt, rt', q)
    BY <1>1 DEF Moved
<1> QED
    BY <1>2, <1>3, <1>4, <1>5, <1>6 DEF SessInv, SessionsInv

\* Every step keeps what is said of the runs and the sessions, and moves every run as the
\* life of a run allows.
LEMMA NextKeepsSess ==
    ASSUME ~SendMaySuspend, IInv, IInv', ServedIsRegistered', RegistryInv(rt), SessInv,
           [Next]_vars
    PROVE  SessInv' /\ \A q \in Runs : Moved(rt, rt', q)
<1>1. CASE \E r \in Runs : SendReturns(r) \/ SendRaises(r)
    BY <1>1, SendReturnsSess, SendRaisesSess
<1>2. CASE \E s \in Sessions : SendMessage(s)
    BY <1>2, SendMessageSess
<1>3. CASE \E r \in Runs : CancelQueued(r) \/ CancelForwarded(r)
    BY <1>3, CancelQueuedSess, CancelForwardedSess
<1>4. CASE \E cutoff \in 1 .. rt.clock : CleanupRuns(cutoff)
    BY <1>4, CleanupRunsSess
<1>5. CASE \E d \in Daemons, n \in 1 .. MaxConns : Connect(d, n)
    BY <1>5, ConnectSess
<1>6. CASE \E c \in Conns : Welcome(c) \/ RegisterRaises(c)
    BY <1>6, WelcomeSess, CloseSess
<1>7. CASE \E c \in Conns, r \in Runs :
              \/ HandleAccepted(c, r) \/ HandleCompleted(c, r)
              \/ HandleFailed(c, r) \/ HandleViolation(c, r)
    BY <1>7, HandleAcceptedSess, LastWordSess, HandleViolationSess
<1>8. CASE \E c \in Conns : Unregister(c) \/ UnregisterReturns(c) \/ UnregisterRaises(c)
    BY <1>8, CloseSess, UnregisterReturnsSess
<1>9. CASE \E c \in Conns : Drop(c) \/ NoticeDrop(c) \/ ConnectorReceives(c)
    BY <1>9, DropSess, ConnectorReceivesSess
<1>10. CASE \E r \in Runs :
              ConnectorAccepts(r) \/ ConnectorSetupFails(r) \/ ConnectorFinishes(r)
    BY <1>10, ConnectorAnswersSess
<1>11. CASE UNCHANGED vars
    BY <1>11, StutterSess
<1> QED
    BY <1>1, <1>2, <1>3, <1>4, <1>5, <1>6, <1>7, <1>8, <1>9, <1>10, <1>11 DEF Next

\* As long as no send suspends, what is said of the runs, the sessions and the messages
\* between them holds in every reachable state.
THEOREM SessionInvariant ==
    ASSUME ~SendMaySuspend
    PROVE  Spec => []SessInv
<1>1. Init => SessInv
    BY InitSess
<1>2. IInv /\ IInv' /\ ServedIsRegistered' /\ RegistryInv(rt) /\ SessInv /\ [Next]_vars
          => SessInv'
    BY NextKeepsSess
<1> QED
    BY <1>1, <1>2, InductiveInvariant, ServedConnectionIsRegistered, RegistryInvariant,
       PTL DEF Spec

\* As long as no send suspends, a run is assigned or running exactly while one session is
\* busy with it or is being sent it, and that session is one of the run's daemon: a run
\* whose daemon disconnects is always found by the unregister of that connection.
THEOREM SessionsAreBusyWithActiveRuns ==
    ASSUME ~SendMaySuspend
    PROVE  Spec => []BusyWithActiveRun
<1>1. SessInv => BusyWithActiveRun
    BY DEF SessInv, SessionsInv, BusyInv, BusyWithActiveRun, Underway, Suspended
<1> QED
    BY <1>1, SessionInvariant, PTL

\* As long as no send suspends, no daemon that could work is left idle while a run waits
\* for it: every handler after which one could take the other calls dispatch_pending.
THEOREM NoDaemonIsLeftIdle ==
    ASSUME ~SendMaySuspend
    PROVE  Spec => []NoIdleDaemonWithWaitingRun
<1>1. SessInv => NoIdleDaemonWithWaitingRun
    BY DEF SessInv, IdleInv, Covered, NothingSent, NoIdleDaemonWithWaitingRun, Suspended
<1> QED
    BY <1>1, SessionInvariant, PTL

\* As long as no send suspends, nothing is kept of a run that is gone, bytes are counted
\* only for runs that can still send, and few ended runs of a session are kept.
THEOREM NothingIsKeptOfEndedRuns ==
    ASSUME ~SendMaySuspend
    PROVE  Spec => []EndedRunsAreShed
<1>1. ASSUME IInv, SessInv PROVE NothingKeptForEndedRuns
    <2>1. ToldInv(rt, sending) /\ BusyInv(rt, busy, sending) /\ BytesInv
        BY <1>1 DEF SessInv, SessionsInv
    <2>2. stream_bytes \subseteq Runs
        BY <1>1 DEF IInv, TypeOK
    <2>3. \A r \in Runs : ~Present(rt, r) => rt.run_events[r] = <<>>
        BY <2>1 DEF ToldInv, Present
    <2>4. ASSUME NEW r \in stream_bytes
          PROVE  rt.status[r] \in {"assigned", "running"}
        <3>1. PICK c \in Conns : busy[c] = r
            BY <2>1 DEF BytesInv
        <3>2. r # NoRun
            BY <2>2 DEF Runs, NoRun
        <3> QED
            BY <2>1, <3>1, <3>2 DEF BusyInv, Underway
    <2> QED
        BY <2>3, <2>4 DEF NothingKeptForEndedRuns
<1>2. IInv /\ SessInv => NothingKeptForEndedRuns
    BY <1>1
<1> QED
    BY <1>2, SessionInvariant, InductiveInvariant, EndedRunsAreFew, PTL DEF EndedRunsAreShed

\* A run moves in the registry as the life of a run allows it to.
LEMMA MovedLives ==
    ASSUME NEW r \in Runs, Moved(rt, rt', r), rt \in Registry, rt' \in Registry,
           NEW before, before = Stage(r), NEW after, after = Stage(r)'
    PROVE  \/ /\ before = "new" /\ after \in {"queued", "assigned"}
              /\ rt'.run_events[r] = Append(rt.run_events[r], "run.queued")
           \/ /\ before = "queued" /\ after = "assigned"
              /\ rt'.run_events[r] = rt.run_events[r]
           \/ /\ before = "assigned" /\ rt.run_events[r] = <<"run.queued">>
              /\ after = "assigned"
              /\ rt'.run_events[r] = Append(rt.run_events[r], "run.started")
           \/ /\ before = "assigned" /\ rt.run_events[r] = <<"run.queued", "run.started">>
              /\ after = "running"
              /\ rt'.run_events[r] = Append(rt.run_events[r], "run.accepted")
           \/ /\ before = "queued" /\ after = "cancelled"
              /\ rt'.run_events[r] = Append(rt.run_events[r], "run.completed")
           \/ /\ before = "running" /\ after \in {"completed", "cancelled"}
              /\ rt'.run_events[r] = Append(rt.run_events[r], "run.completed")
           \/ /\ before \in {"assigned", "running"}
              /\ after \in {"failed", "executor_disconnected"}
              /\ rt'.run_events[r] = Append(rt.run_events[r], "run.error")
           \/ /\ before \in TERMINAL_RUN_STATUSES /\ after = "forgotten"
              /\ rt'.run_events[r] = <<>>
           \/ after = before /\ rt'.run_events[r] = rt.run_events[r]
<1>1. /\ Present(rt, r) => before = rt.status[r]
      /\ ~Present(rt, r) => before = IF r > rt.created THEN "new" ELSE "forgotten"
      /\ Present(rt, r)' => after = rt'.status[r]
      /\ ~Present(rt, r)' => after = IF r > rt'.created THEN "new" ELSE "forgotten"
    BY DEF Stage
<1>2. Present(rt, r) = (rt.status[r] # "absent") /\ Present(rt, r)' = (rt'.status[r] # "absent")
    BY DEF Present
<1>3. rt.created \in Nat /\ rt'.created \in Nat /\ r \in Nat
    BY RegistryFields, RegistryAssumption DEF Runs
<1>4. Terminal(rt, r) => rt.status[r] \in TERMINAL_RUN_STATUSES /\ rt.status[r] # "absent"
    BY DEF Terminal, TERMINAL_RUN_STATUSES
<1>5. r <= rt'.created => ~(r > rt'.created)
    BY <1>3
<1> QED
    BY <1>1, <1>2, <1>4, <1>5 DEF Moved

\* The backend implements RunLifecycle, as long as no send suspends: every step moves
\* every run along its life, with the event that tells of it, or leaves it as it is.
THEOREM BackendImplementsLifecycle ==
    ASSUME ~SendMaySuspend
    PROVE  Spec => ImplementsLifecycle
<1> DEFINE stage == [r \in Runs |-> Stage(r)]
<1>1. Init => Lifecycle!Init
    <2> SUFFICES ASSUME Init PROVE Lifecycle!Init
        OBVIOUS
    <2>1. \A r \in Runs : Stage(r) = "new"
        BY RegistryAssumption DEF Init, EmptyRegistry, Stage, Present, Runs
    <2>2. rt.run_events = [r \in Runs |-> <<>>]
        BY DEF Init, EmptyRegistry
    <2> QED
        BY <2>1, <2>2 DEF Lifecycle!Init
<1>2. ASSUME IInv, IInv', \A q \in Runs : Moved(rt, rt', q)
      PROVE  Lifecycle!Next
    <2>1. rt \in Registry /\ rt' \in Registry
        BY <1>2 DEF IInv, TypeOK
    <2>2. \A q \in Runs : stage[q] = Stage(q) /\ stage'[q] = Stage(q)'
        OBVIOUS
    <2>3. stage' \in [Runs -> {"new", "queued", "assigned", "running", "forgotten"}
                              \union Lifecycle!TerminalStages]
        <3>1. ASSUME NEW q \in Runs
              PROVE  Stage(q)' \in {"new", "queued", "assigned", "running", "forgotten"}
                                   \union Lifecycle!TerminalStages
            <4>1. rt'.status[q] \in Statuses
                BY <2>1, RegistryFields
            <4> QED
                BY <4>1 DEF Stage, Present, Statuses, ACTIVE_RUN_STATUSES,
                            TERMINAL_RUN_STATUSES, Lifecycle!TerminalStages
        <3> QED
            BY <3>1
    <2>4. DOMAIN rt'.run_events = Runs
        BY <2>1, RegistryFields
    <2>5. ASSUME NEW r \in Runs
          PROVE  \/ Lifecycle!Create(r) \/ Lifecycle!Take(r) \/ Lifecycle!Deliver(r)
                 \/ Lifecycle!Accept(r) \/ Lifecycle!CancelWaiting(r) \/ Lifecycle!Complete(r)
                 \/ Lifecycle!Fail(r) \/ Lifecycle!Forget(r) \/ Lifecycle!Stutter(r)
        <3>1. PICK before : before = Stage(r)
            OBVIOUS
        <3>2. PICK after : after = Stage(r)'
            OBVIOUS
        <3>3. stage[r] = before /\ stage'[r] = after
            BY <3>1, <3>2
        <3> QED
            BY <1>2, <2>1, <3>1, <3>2, <3>3, MovedLives
               DEF Lifecycle!Create, Lifecycle!Take, Lifecycle!Deliver, Lifecycle!Accept,
                   Lifecycle!CancelWaiting, Lifecycle!Complete, Lifecycle!Fail, Lifecycle!Forget,
                   Lifecycle!Stutter, Lifecycle!Tells, Lifecycle!TellsNothing,
                   Lifecycle!TerminalStages, TERMINAL_RUN_STATUSES
    <2> QED
        BY <2>3, <2>4, <2>5 DEF Lifecycle!Next
<1>3. IInv /\ IInv' /\ ServedIsRegistered' /\ RegistryInv(rt) /\ SessInv /\ [Next]_vars =>
          [Lifecycle!Next]_(Lifecycle!vars)
    BY <1>2, NextKeepsSess
<1> QED
    BY <1>1, <1>3, SessionInvariant, InductiveInvariant, ServedConnectionIsRegistered,
       RegistryInvariant, PTL DEF Spec, ImplementsLifecycle, Lifecycle!Spec
=============================================================================
