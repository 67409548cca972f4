---------------------------- MODULE SessionIndex -----------------------------
(***************************************************************************)
(* The backend's index of remote sessions and the transcripts it builds:   *)
(* upsert_session, replace_daemon_sessions, cache_remote_session_          *)
(* transcript, build_session_transcript and cleanup of                     *)
(* backend/app/runtime_state.py, called by sync_remote_sessions,           *)
(* resolve_session and load_remote_session of executor_manager.py and the  *)
(* session routes of main.py.                                              *)
(*                                                                         *)
(* A call is an HTTP handler.  It waits for a connector in between, and    *)
(* applies what it was told when it resumes, whatever other handlers have  *)
(* done meanwhile; between two waits nothing else runs.  The agents are    *)
(* external: they hold the sessions and the turns of each; two daemons     *)
(* whose agents read the same files, such as a machine that was paired     *)
(* twice, list the same sessions.  Turn 0 is what a session held before it *)
(* was first seen, turn r the prompt of run r.                             *)
(***************************************************************************)
EXTENDS Naturals, Sequences, FiniteSets

CONSTANTS Sessions,
          Preexisting,      \* sessions that were not created through the backend
          Daemons,
          Flaky,            \* the daemons that lose their connection
          Calls,
          Settings,         \* the settings to start from: the daemons that list each
                            \* session, what each call is and the session it is for
          NoRow, NoCache,
          MaxRuns           \* bound on the runs created

ASSUME IndexAssumption ==
    /\ Preexisting \subseteq Sessions
    /\ Flaky \subseteq Daemons
    /\ Settings \subseteq [hosts : [Sessions -> SUBSET Daemons],
                           kind : [Calls -> {"list", "load", "send", "none"}],
                           session : [Calls -> Sessions]]
    /\ NoRow \notin {"idle", "active"} \union Daemons
    /\ MaxRuns \in Nat

Runs == 1 .. MaxRuns
Turns == 0 .. MaxRuns
NoRun == [session |-> NoRow, daemon |-> NoRow, state |-> "none"]

VARIABLES
    setting,    \* the setting, which does not change
    remote,     \* the sessions the agents hold
    turns,      \* the turns of each
    connected,  \* the daemons in _daemons
    creating,   \* sessions whose create call has its answer and has not resumed,
                \* with the daemon that gave it
    created,    \* sessions whose create call has returned
    runtime,    \* the RuntimeState
    phase,      \* of a call
    left, asked, paging, answered,  \* daemons a call will ask, has asked, has part
                                    \* of the list of, and has the list of
    items,      \* the daemons and sessions listed to it so far
    expect,     \* those it must be told of, unless they vanish
    target,     \* the daemon a load asks for its replay
    got         \* the replay a load was sent

remoteVars == <<setting, remote, turns, connected, creating, created>>
listVars == <<left, asked, paging, answered, items, expect>>
loadVars == <<target, got>>
vars == <<remoteVars, runtime, phase, listVars, loadVars>>

Hosts == setting.hosts
Kind == setting.kind
SessionOf == setting.session

\* _sessions (the status and the daemon_id of each), _daemon_sessions,
\* _remote_transcript_items (the turns of the replay), and _runs.
EmptyRuntime ==
    [rows    |-> [s \in Sessions |-> NoRow],
     owner   |-> [s \in Sessions |-> NoRow],
     indexed |-> [d \in Daemons |-> {}],
     cached  |-> [s \in Sessions |-> NoCache],
     runs    |-> [r \in Runs |-> NoRun]]

Init ==
    /\ setting \in Settings
    /\ remote = Preexisting
    /\ turns = [s \in Sessions |-> IF s \in Preexisting THEN <<0>> ELSE <<>>]
    /\ connected = UNION {Hosts[s] : s \in Sessions}
    /\ creating = {} /\ created = {}
    /\ runtime = EmptyRuntime
    /\ phase = [c \in Calls |-> "idle"]
    /\ left = [c \in Calls |-> {}]
    /\ asked = [c \in Calls |-> {}]
    /\ paging = [c \in Calls |-> {}]
    /\ answered = [c \in Calls |-> {}]
    /\ items = [c \in Calls |-> {}]
    /\ expect = [c \in Calls |-> {}]
    /\ target = [c \in Calls |-> NoRow]
    /\ got = [c \in Calls |-> <<>>]

\* What the agent of daemon d has; what a call was told of it.
Of(d) == {s \in remote : d \in Hosts[s]}
Listed(c, d) == {s \in Sessions : <<d, s>> \in items[c]}

\* No two daemons list the session.
Alone(s) == \A d, e \in Hosts[s] : d = e

Elements(q) == {q[i] : i \in DOMAIN q}
LocalRuns(rt, s) ==
    {r \in Runs : rt.runs[r].session = s /\ rt.runs[r].state \in {"active", "ended"}}
HasActiveRun(rt, s) == \E r \in LocalRuns(rt, s) : rt.runs[r].state = "active"
-----------------------------------------------------------------------------
(* Operations of RuntimeState, as functions of its value. *)

\* Mutant: a refreshed session is idle.
UpsertIdle(status) == "idle"

\* upsert_session without a status: a row keeps the one it has.
Upsert(status) == IF status = NoRow THEN "idle" ELSE status

\* It becomes a row of daemon d; the index of its former daemon keeps it.
UpsertSession(rt, s, d) ==
    [rt EXCEPT !.rows[s] = Upsert(@), !.owner[s] = d, !.indexed[d] = @ \union {s}]

\* Mutant: only sessions under way are spared.
SparedWhileActive(rt, s) == HasActiveRun(rt, s)

\* _session_has_local_run_locked
Spared(rt, s) == LocalRuns(rt, s) # {}

\* Mutant: also rows that another daemon has listed meanwhile.
RemovedAnyway(rt, d, stale) == stale

\* session.get("daemon_id") == daemon_id
Removed(rt, d, stale) == {s \in stale : rt.owner[s] = d}

\* replace_daemon_sessions, for daemon d and the sessions listed of it: of what
\* was indexed and is not listed, unless a run of it is held, the transcript goes,
\* and the row if it is still one of d; the index of d forgets it in any case.
Replace(rt, d, listed) ==
    LET stale == {s \in rt.indexed[d] \ listed : ~Spared(rt, s)}
        removed == Removed(rt, d, stale)
    IN  [rt EXCEPT
           !.rows = [s \in Sessions |-> IF s \in listed THEN Upsert(@[s])
                                         ELSE IF s \in removed THEN NoRow ELSE @[s]],
           !.owner = [s \in Sessions |-> IF s \in listed THEN d
                                          ELSE IF s \in removed THEN NoRow ELSE @[s]],
           !.cached = [s \in Sessions |-> IF s \in stale THEN NoCache ELSE @[s]],
           !.indexed[d] = listed]

\* Mutant: a replay is cached whatever runs there are.
CacheTranscriptAnyway(rt, s, replay) ==
    IF replay = <<>> THEN rt ELSE [rt EXCEPT !.cached[s] = replay]

\* cache_remote_session_transcript
CacheTranscript(rt, s, replay) ==
    IF replay = <<>> \/ LocalRuns(rt, s) # {} THEN rt ELSE [rt EXCEPT !.cached[s] = replay]

\* runs.sort: the runs in the order they were created.
InOrder(runs) ==
    CHOOSE q \in [1 .. Cardinality(runs) -> runs] : \A i, j \in DOMAIN q : i < j => q[i] < q[j]

\* build_session_transcript: the cached turns, and the runs.
Transcript(rt, s) ==
    (IF rt.cached[s] = NoCache THEN <<>> ELSE rt.cached[s]) \o InOrder(LocalRuns(rt, s))

\* Runs created so far; the next one has the next number.
Count(rt) == Cardinality({r \in Runs : rt.runs[r] # NoRun})

SetStatus(rt, s, status) == [rt EXCEPT !.rows[s] = IF @ = NoRow THEN @ ELSE status]

\* create_run, for the daemon of the row, drops the cached transcript.
CreateRun(rt, s) ==
    [SetStatus(rt, s, "active") EXCEPT
       !.runs[Count(rt) + 1] = [session |-> s, daemon |-> rt.owner[s], state |-> "active"],
       !.cached[s] = NoCache]

\* A run is marked completed, failed, cancelled or disconnected.
EndRun(rt, r) ==
    [SetStatus(rt, rt.runs[r].session, "idle") EXCEPT !.runs[r].state = "ended"]

\* cleanup: expired runs are removed, then transcripts without a session, beside a
\* run, or past their time.
CleanUp(rt, expiredRuns, expiredTranscripts) ==
    LET kept == [rt EXCEPT !.runs = [r \in Runs |-> IF r \in expiredRuns
                                                   THEN [@[r] EXCEPT !.state = "removed"]
                                                   ELSE @[r]]]
        stale == expiredTranscripts \union
                 {s \in Sessions : rt.rows[s] = NoRow \/ LocalRuns(kept, s) # {}}
    IN  [kept EXCEPT !.cached = [s \in Sessions |-> IF s \in stale THEN NoCache ELSE @[s]]]
-----------------------------------------------------------------------------
(* The agents and their daemons. *)

\* The agent answers session.create.request; the handler has yet to resume.
CreateAnswered(s, d) ==
    /\ s \notin Preexisting \union {p[2] : p \in creating} \union created
    /\ d \in Hosts[s] \intersect connected
    /\ remote' = remote \union {s}
    /\ creating' = creating \union {<<d, s>>}
    /\ UNCHANGED <<setting, turns, connected, created, runtime, phase, listVars, loadVars>>

\* create_session
CreateReturns(s, d) ==
    /\ <<d, s>> \in creating
    /\ creating' = creating \ {<<d, s>>} /\ created' = created \union {s}
    /\ runtime' = UpsertSession(runtime, s, d)
    /\ UNCHANGED <<setting, remote, turns, connected, phase, listVars, loadVars>>

\* The agents stop listing a session, e.g. because its files were removed.
Vanish(s) ==
    /\ s \in remote \ {p[2] : p \in creating}
    /\ remote' = remote \ {s}
    /\ UNCHANGED <<setting, turns, connected, creating, created, runtime, phase, listVars,
                   loadVars>>

Disconnect(d) ==
    /\ d \in connected \intersect Flaky
    /\ connected' = connected \ {d}
    /\ UNCHANGED <<setting, remote, turns, creating, created, runtime, phase, listVars, loadVars>>

Reconnect(d) ==
    /\ d \in Flaky \ connected
    /\ connected' = connected \union {d}
    /\ UNCHANGED <<setting, remote, turns, creating, created, runtime, phase, listVars, loadVars>>
-----------------------------------------------------------------------------
(* Calls. *)

\* resolve_session has found the session in rt: a load asks the daemon of the row
\* for its replay, a message becomes a run before anything else happens.
Resolved(c, rt) ==
    LET s == SessionOf[c]
    IN  IF Kind[c] = "load"
        THEN /\ phase' = [phase EXCEPT ![c] = "syncing"]
             /\ target' = [target EXCEPT ![c] = rt.owner[s]]
             /\ runtime' = rt
        ELSE /\ Count(rt) < MaxRuns
             /\ phase' = [phase EXCEPT ![c] = "done"]
             /\ runtime' = CreateRun(rt, s)
             /\ UNCHANGED target

\* A row is good as long as its daemon is connected.
HasGoodRow(c) ==
    /\ Kind[c] \in {"load", "send"}
    /\ runtime.rows[SessionOf[c]] # NoRow /\ runtime.owner[SessionOf[c]] \in connected

BeginResolved(c) ==
    /\ phase[c] = "idle" /\ HasGoodRow(c)
    /\ Resolved(c, runtime)
    /\ UNCHANGED <<remoteVars, listVars, got>>

\* sync_remote_sessions asks all daemons at once, resolve_session one by one.
BeginListing(c) ==
    /\ phase[c] = "idle" /\ Kind[c] # "none" /\ ~HasGoodRow(c)
    /\ phase' = [phase EXCEPT ![c] = "listing"]
    /\ IF Kind[c] = "list"
       THEN asked' = [asked EXCEPT ![c] = connected] /\ UNCHANGED left
       ELSE left' = [left EXCEPT ![c] = connected] /\ UNCHANGED asked
    /\ UNCHANGED <<remoteVars, runtime, paging, answered, items, expect, loadVars>>

AskNext(c, d) ==
    /\ phase[c] = "listing" /\ d \in left[c]
    /\ asked[c] \union paging[c] \union answered[c] = {}
    /\ left' = [left EXCEPT ![c] = @ \ {d}]
    /\ asked' = [asked EXCEPT ![c] = {d}]
    /\ items' = [items EXCEPT ![c] = {}]
    /\ UNCHANGED <<remoteVars, runtime, phase, paging, answered, expect, loadVars>>

\* The first session.list.result: all sessions of the agent, or the newest.
FirstPage(c, d) ==
    /\ d \in asked[c] /\ d \in connected
    /\ asked' = [asked EXCEPT ![c] = @ \ {d}]
    /\ \E page \in SUBSET Of(d) :
          /\ items' = [items EXCEPT ![c] = @ \union ({d} \X page)]
          /\ \/ /\ page = Of(d)
                /\ answered' = [answered EXCEPT ![c] = @ \union {d}]
                /\ UNCHANGED <<paging, expect>>
             \/ /\ page # {}
                /\ paging' = [paging EXCEPT ![c] = @ \union {d}]
                /\ expect' = [expect EXCEPT ![c] = @ \union ({d} \X Of(d))]
                /\ UNCHANGED answered
    /\ UNCHANGED <<remoteVars, runtime, phase, left, loadVars>>

\* The rest of the list: the agent lists the newest first, so that a session
\* created after the first page is on none of the later ones.
LastPage(c, d) ==
    /\ d \in paging[c] /\ d \in connected
    /\ items' = [items EXCEPT ![c] = @ \union (expect[c] \intersect ({d} \X Of(d)))]
    /\ paging' = [paging EXCEPT ![c] = @ \ {d}]
    /\ answered' = [answered EXCEPT ![c] = @ \union {d}]
    /\ UNCHANGED <<remoteVars, runtime, phase, left, asked, expect, loadVars>>

\* A request times out or its daemon goes: this daemon is passed over.
ListFails(c, d) ==
    /\ d \in asked[c] \union paging[c]
    /\ asked' = [asked EXCEPT ![c] = @ \ {d}]
    /\ paging' = [paging EXCEPT ![c] = @ \ {d}]
    /\ UNCHANGED <<remoteVars, runtime, phase, left, answered, items, expect, loadVars>>

\* The locals of a search end with it.
ForgetList(c) ==
    /\ left' = [left EXCEPT ![c] = {}]
    /\ answered' = [answered EXCEPT ![c] = {}]
    /\ items' = [items EXCEPT ![c] = {}]
    /\ expect' = [expect EXCEPT ![c] = {}]
    /\ UNCHANGED <<asked, paging>>

\* sync_remote_sessions goes on when every daemon has answered or failed, and
\* applies the lists one by one, with an await before each.
ListApplied(c, d) ==
    /\ phase[c] = "listing" /\ Kind[c] = "list" /\ asked[c] \union paging[c] = {}
    /\ d \in answered[c]
    /\ runtime' = Replace(runtime, d, Listed(c, d))
    /\ answered' = [answered EXCEPT ![c] = @ \ {d}]
    /\ UNCHANGED <<remoteVars, phase, left, asked, paging, items, expect, loadVars>>

ListReturns(c) ==
    /\ phase[c] = "listing" /\ Kind[c] = "list"
    /\ asked[c] \union paging[c] \union answered[c] = {}
    /\ phase' = [phase EXCEPT ![c] = "done"]
    /\ ForgetList(c)
    /\ UNCHANGED <<remoteVars, runtime, loadVars>>

\* The list of one daemon in resolve_session, whose search ends with the session.
SearchGoesOn(c, d) ==
    /\ phase[c] = "listing" /\ Kind[c] # "list" /\ d \in answered[c]
    /\ LET listed == Replace(runtime, d, Listed(c, d))
       IN  IF SessionOf[c] \in Listed(c, d)
           THEN Resolved(c, listed) /\ ForgetList(c)
           ELSE /\ runtime' = listed
                /\ answered' = [answered EXCEPT ![c] = {}]
                /\ UNCHANGED <<phase, target, left, asked, paging, items, expect>>
    /\ UNCHANGED <<remoteVars, got>>

\* LookupError: 404
SearchFails(c) ==
    /\ phase[c] = "listing" /\ Kind[c] # "list"
    /\ left[c] \union asked[c] \union paging[c] \union answered[c] = {}
    /\ phase' = [phase EXCEPT ![c] = "failed"]
    /\ ForgetList(c)
    /\ UNCHANGED <<remoteVars, runtime, loadVars>>

\* Runs reach an agent one after the other, in the order they were created.
WasPrompted(r) ==
    \A q \in 1 .. r - 1 :
        runtime.runs[q].state = "active" => runtime.runs[q].daemon # runtime.runs[r].daemon

\* The prompts of a session that are under way on other daemons than d.
UnderwayElsewhere(s, d) ==
    {r \in Runs : /\ runtime.runs[r].session = s /\ runtime.runs[r].state = "active"
                  /\ runtime.runs[r].daemon # d /\ WasPrompted(r)}

\* session.sync.result: the session's turns, or the first of them when the
\* connector still has an earlier replay.  The connector answers requests in the
\* order it got them, and no sync is answered during a prompt of the session, but
\* the agent of another daemon may be at work on the same files.
SyncAnswered(c) ==
    LET s == SessionOf[c]
    IN  /\ phase[c] = "syncing" /\ s \in remote /\ target[c] \in connected
        /\ \/ \E k \in 0 .. Len(turns[s]) :
                 got' = [got EXCEPT ![c] = SubSeq(turns[s], 1, k)]
           \/ \E r \in UnderwayElsewhere(s, target[c]) :
                 got' = [got EXCEPT ![c] = Append(turns[s], r)]
        /\ phase' = [phase EXCEPT ![c] = "synced"]
        /\ UNCHANGED <<remoteVars, runtime, listVars, target>>

\* LookupError, RuntimeError or a timeout.
SyncFails(c) ==
    /\ phase[c] = "syncing"
    /\ phase' = [phase EXCEPT ![c] = "failed"]
    /\ target' = [target EXCEPT ![c] = NoRow]
    /\ UNCHANGED <<remoteVars, runtime, listVars, got>>

\* load_remote_session resumes and _get_transcript_response goes on with it: the
\* row is one of the daemon it had when it was resolved.
LoadReturns(c) ==
    LET s == SessionOf[c]
    IN  /\ phase[c] = "synced"
        /\ runtime' = CacheTranscript(UpsertSession(runtime, s, target[c]), s, got[c])
        /\ phase' = [phase EXCEPT ![c] = "done"]
        /\ target' = [target EXCEPT ![c] = NoRow]
        /\ got' = [got EXCEPT ![c] = <<>>]
        /\ UNCHANGED <<remoteVars, listVars>>

\* A run ends; its prompt is a turn of the session unless it never got there.
RunEnds(r) ==
    LET s == runtime.runs[r].session
    IN  /\ runtime.runs[r].state = "active"
        /\ runtime' = EndRun(runtime, r)
        /\ \/ WasPrompted(r) /\ turns' = [turns EXCEPT ![s] = Append(@, r)]
           \/ UNCHANGED turns
        /\ UNCHANGED <<setting, remote, connected, creating, created, phase, listVars, loadVars>>

Cleanup ==
    /\ \E expiredRuns \in SUBSET {r \in Runs : runtime.runs[r].state = "ended"},
          expiredTranscripts \in SUBSET {s \in Sessions : runtime.cached[s] # NoCache} :
          runtime' = CleanUp(runtime, expiredRuns, expiredTranscripts)
    /\ UNCHANGED <<remoteVars, phase, listVars, loadVars>>
-----------------------------------------------------------------------------
Next ==
    \/ \E s \in Sessions, d \in Daemons : CreateAnswered(s, d) \/ CreateReturns(s, d)
    \/ \E s \in Sessions : Vanish(s)
    \/ \E d \in Daemons : Disconnect(d) \/ Reconnect(d)
    \/ \E c \in Calls :
          \/ BeginResolved(c) \/ BeginListing(c)
          \/ \E d \in Daemons :
               \/ AskNext(c, d) \/ FirstPage(c, d) \/ LastPage(c, d) \/ ListFails(c, d)
               \/ ListApplied(c, d) \/ SearchGoesOn(c, d)
          \/ ListReturns(c) \/ SearchFails(c)
          \/ SyncAnswered(c) \/ SyncFails(c) \/ LoadReturns(c)
    \/ \E r \in Runs : RunEnds(r)
    \/ Cleanup

Spec == Init /\ [][Next]_vars
-----------------------------------------------------------------------------
(* Properties. *)

IndexTypeOK ==
    /\ setting \in Settings
    /\ remote \subseteq Sessions /\ created \subseteq Sessions
    /\ creating \subseteq Daemons \X Sessions
    /\ turns \in [Sessions -> Seq(Turns)] /\ connected \subseteq Daemons
    /\ runtime.rows \in [Sessions -> {"idle", "active", NoRow}]
    /\ runtime.owner \in [Sessions -> Daemons \union {NoRow}]
    /\ runtime.indexed \in [Daemons -> SUBSET Sessions]
    /\ \A s \in Sessions : runtime.cached[s] = NoCache \/ runtime.cached[s] \in Seq(Turns)
    /\ phase \in [Calls -> {"idle", "listing", "syncing", "synced", "done", "failed"}]
    /\ \A f \in {left, asked, paging, answered} : f \in [Calls -> SUBSET Daemons]
    /\ \A f \in {items, expect} : f \in [Calls -> SUBSET (Daemons \X Sessions)]
    /\ target \in [Calls -> Daemons \union {NoRow}] /\ got \in [Calls -> Seq(Turns)]

\* No transcript shows a turn twice, once from the agent's replay and once from the
\* run that was its prompt, however late the replay arrives; and none out of order,
\* unless two daemons prompt in the session at once.
EachTurnShownOnce ==
    \A s \in Sessions :
        LET t == Transcript(runtime, s)
        IN  \A i, j \in DOMAIN t : i < j => t[i] # t[j] /\ (Alone(s) => t[i] < t[j])

\* A run that is held, and a transcript that is cached, belong to a session the
\* index shows, whatever lists are applied meanwhile.
KeptHasRow ==
    \A s \in Sessions :
        LocalRuns(runtime, s) # {} \/ runtime.cached[s] # NoCache => runtime.rows[s] # NoRow

\* Each row is one of a daemon whose agent lists the session.
OwnerListsIt ==
    \A s \in Sessions : IF runtime.rows[s] = NoRow THEN runtime.owner[s] = NoRow
                                                  ELSE runtime.owner[s] \in Hosts[s]

\* The rows, the transcripts and the runs agree, whatever was applied late.
IndexOK == IndexTypeOK /\ KeptHasRow /\ OwnerListsIt

\* Refreshing the index does not change what it says of a session under way.
RefreshKeepsStatus ==
    [][runtime'.runs = runtime.runs =>
         \A s \in Sessions :
            HasActiveRun(runtime, s) /\ runtime.rows[s] # NoRow =>
                runtime'.rows[s] = runtime.rows[s]]_vars

\* A session goes from the index only when the daemon it is a row of, at that time,
\* has listed its sessions without it: the list of another daemon that once had it
\* does not take it.
OnlyItsDaemonRemovesRow ==
    [][\A s \in Sessions :
         runtime.rows[s] # NoRow /\ runtime'.rows[s] = NoRow =>
            \E c \in Calls : /\ runtime.owner[s] \in answered[c]
                             /\ runtime.owner[s] \notin answered'[c]
                             /\ <<runtime.owner[s], s>> \notin items[c]]_vars

\* What the index of a daemon holds has a row.
\* The code does not keep it: the row may have become one of another daemon, and
\* have gone with that one's list.
IndexedHasRow ==
    \A d \in Daemons : \A s \in runtime.indexed[d] : runtime.rows[s] # NoRow

\* A load shows what the agent replayed for it.
\* The code does not keep it: nothing is cached beside a run.
TranscriptIsComplete ==
    [][\A c \in Calls :
         phase[c] = "synced" /\ phase'[c] = "done" =>
            Elements(got[c]) \subseteq Elements(Transcript(runtime', SessionOf[c]))]_vars

\* When a list is applied, rows of its daemon that it does not have, and of which no
\* run is held, are no longer shown.
\* The code does not keep it: a spared session leaves the index of its daemon.
ListedAreShown ==
    [][\A c \in Calls, d \in Daemons :
         Kind[c] = "list" /\ d \in answered[c] \ answered'[c] =>
            \A s \in Sessions \ Listed(c, d) :
               runtime.owner[s] = d /\ LocalRuns(runtime, s) = {}
               => runtime'.rows[s] = NoRow]_vars

\* A session the user has created stays in the index as long as the agent has it.
\* The code does not keep it: a list may be older than the session.
CreatedIsShown ==
    \A s \in created \intersect remote : runtime.rows[s] # NoRow
=============================================================================
