------------------------- MODULE SessionIndexProofs --------------------------
(***************************************************************************)
(* Proofs about SessionIndex, for any sessions, daemons, calls and runs.   *)
(* RuntimeOK is what every operation of RuntimeState keeps, whatever list  *)
(* or replay it applies and however old that is; TurnsInv relates the      *)
(* turns an agent holds to the runs, so that a replay that is cached later *)
(* has nothing that a run shows too.                                       *)
(***************************************************************************)
EXTENDS SessionIndex, FiniteSetTheorems, WellFoundedInduction, TLAPS

Ascending(q) == \A i, j \in DOMAIN q : i < j => q[i] < q[j]

\* No two daemons list session s, when h says which do.
One(h, s) == \A d, e \in h[s] : d = e

\* The sequence has nothing twice; and is in order, for a session of one daemon.
InTurn(h, s, q) == \A i, j \in DOMAIN q : i < j => q[i] # q[j] /\ (One(h, s) => q[i] < q[j])

RunRecords == [session : Sessions, daemon : Daemons, state : {"active", "ended", "removed"}]
RuntimeType ==
    [rows    : [Sessions -> {"idle", "active", NoRow}],
     owner   : [Sessions -> Daemons \union {NoRow}],
     indexed : [Daemons -> SUBSET Sessions],
     cached  : [Sessions -> {NoCache} \union Seq(Turns)],
     runs    : [Runs -> {NoRun} \union RunRecords]]

\* The first k runs were created.
Created(rt, k) == \A r \in Runs : rt.runs[r] # NoRun <=> r <= k

\* A row, and a run, are those of a daemon that lists the session.
Placed(h, rt) ==
    /\ \A s \in Sessions : rt.rows[s] # NoRow => rt.owner[s] \in h[s]
    /\ \A s \in Sessions : rt.rows[s] = NoRow => rt.owner[s] = NoRow
    /\ \A r \in Runs : rt.runs[r] # NoRun => rt.runs[r].daemon \in h[rt.runs[r].session]

\* A session of which a run is held has a row and no cached replay; one with a cached
\* replay has a row, and the replay is in order.
RuntimeOK(h, rt) ==
    /\ rt \in RuntimeType
    /\ Placed(h, rt)
    /\ \A s \in Sessions : LocalRuns(rt, s) # {} => rt.rows[s] # NoRow /\ rt.cached[s] = NoCache
    /\ \A s \in Sessions :
          rt.cached[s] # NoCache => rt.rows[s] # NoRow /\ InTurn(h, s, rt.cached[s])
    /\ \E k \in 0 .. MaxRuns : Created(rt, k)

\* Turns q of session s are in order, are prompts of runs that were created and are
\* over, and come before every run that is under way on its only daemon.
TurnsOK(h, rt, s, q) ==
    /\ q \in Seq(Turns) /\ InTurn(h, s, q)
    /\ \A i \in DOMAIN q :
          /\ q[i] \in Runs => rt.runs[q[i]] # NoRun /\ rt.runs[q[i]].state # "active"
          /\ \A r \in Runs :
                rt.runs[r].state = "active" /\ One(h, s) /\ rt.runs[r].daemon \in h[s]
                => q[i] < r

TurnsInv == \A s \in Sessions : TurnsOK(Hosts, runtime, s, turns[s])

ReplaysInOrder ==
    \A c \in Calls : got[c] \in Seq(Turns) /\ InTurn(Hosts, SessionOf[c], got[c])

\* A load asks a daemon that lists its session.
TargetInv == \A c \in Calls : phase[c] \in {"syncing", "synced"} => target[c] \in Hosts[SessionOf[c]]

\* Daemons, each with a session it lists.
Pairs(h) == {p \in Daemons \X Sessions : p[1] \in h[p[2]]}

Phases == {"idle", "listing", "syncing", "synced", "done", "failed"}

CallTypes ==
    /\ setting \in Settings
    /\ remote \subseteq Sessions /\ created \subseteq Sessions /\ connected \subseteq Daemons
    /\ creating \subseteq Pairs(Hosts)
    /\ phase \in [Calls -> Phases]
    /\ left \in [Calls -> SUBSET Daemons] /\ asked \in [Calls -> SUBSET Daemons]
    /\ paging \in [Calls -> SUBSET Daemons] /\ answered \in [Calls -> SUBSET Daemons]
    /\ items \in [Calls -> SUBSET Pairs(Hosts)] /\ expect \in [Calls -> SUBSET Pairs(Hosts)]
    /\ target \in [Calls -> Daemons \union {NoRow}]
    /\ turns \in [Sessions -> Seq(Turns)] /\ got \in [Calls -> Seq(Turns)]

IndexInv ==
    CallTypes /\ RuntimeOK(Hosts, runtime) /\ TurnsInv /\ ReplaysInOrder /\ TargetInv

(***************************************************************************)
(* InOrder: a set of runs has an enumeration in order.                     *)
(***************************************************************************)

LEMMA LeastElement ==
    ASSUME NEW T, T \subseteq Nat, T # {}
    PROVE  \E m \in T : \A n \in T : m <= n
<1> DEFINE R == {ss \in Nat \X Nat : ss[1] < ss[2]}
<1>1. IsWellFoundedOn(R, Nat)
  BY NatLessThanWellFounded DEF OpToRel
<1> HIDE DEF R
<1>2. PICK m \in T : \A n \in T : ~ (<<n, m>> \in R)
  BY <1>1, WFMin
<1>3. \A k, n \in Nat : n < k => <<n, k>> \in R
  BY DEF R
<1>4. \A n \in T : ~ (n < m)
  BY <1>2, <1>3
<1> QED BY <1>4

Enumerates(q, S) == q \in [1 .. Cardinality(S) -> S] /\ Ascending(q)
HasOrder(n) == \A S \in SUBSET (1 .. n) : \E q : Enumerates(q, S)

LEMMA OrderExtends ==
    ASSUME NEW n \in Nat, HasOrder(n)
    PROVE  HasOrder(n + 1)
<1> SUFFICES ASSUME NEW S \in SUBSET (1 .. n + 1) PROVE \E q : Enumerates(q, S)
  BY DEF HasOrder
<1>1. CASE n + 1 \notin S
  <2>1. S \in SUBSET (1 .. n)
    <3>1. \A r \in S : r \in 1 .. n + 1 /\ r # n + 1
      BY <1>1
    <3>2. \A r \in 1 .. n + 1 : r # n + 1 => r \in 1 .. n
      OBVIOUS
    <3> QED BY <3>1, <3>2
  <2> QED BY <2>1 DEF HasOrder
<1>2. CASE n + 1 \in S
  <2> DEFINE T == S \ {n + 1}
             c == Cardinality(T)
  <2>1. \A r \in T : r \in 1 .. n
    <3>1. \A r \in T : r \in 1 .. n + 1 /\ r # n + 1
      OBVIOUS
    <3>2. \A r \in 1 .. n + 1 : r # n + 1 => r \in 1 .. n
      OBVIOUS
    <3> QED BY <3>1, <3>2
  <2>2. T \in SUBSET (1 .. n)
    BY <2>1
  <2>3. PICK p : Enumerates(p, T)
    BY <2>2 DEF HasOrder
  <2>4. IsFiniteSet(T)
    <3>1. 1 \in Int /\ n \in Int
      OBVIOUS
    <3>2. IsFiniteSet(1 .. n)
      BY <3>1, FS_Interval
    <3> QED BY <2>2, <3>2, FS_Subset
  <2>5. c \in Nat /\ Cardinality(S) = c + 1
    <3>1. S = T \union {n + 1} /\ n + 1 \notin T
      BY <1>2
    <3>2. Cardinality(T \union {n + 1}) = Cardinality(T) + 1
      BY <2>4, <3>1, FS_AddElement
    <3> QED BY <2>4, <3>1, <3>2, FS_CardinalityType
  <2> DEFINE q == [i \in 1 .. c + 1 |-> IF i <= c THEN p[i] ELSE n + 1]
  <2>6. p \in [1 .. c -> T] /\ \A i, j \in 1 .. c : i < j => p[i] < p[j]
    BY <2>3 DEF Enumerates, Ascending
  <2> HIDE DEF T, c
  <2>7. \A i \in 1 .. c + 1 : i \in Nat /\ (i <= c => i \in 1 .. c) /\ (~(i <= c) => i = c + 1)
    BY <2>5
  <2>8. q \in [1 .. c + 1 -> S]
    <3>1. T \subseteq S
      BY DEF T
    <3> QED BY <1>2, <2>6, <2>7, <3>1
  <2>9. \A i \in 1 .. c : p[i] \in Nat /\ p[i] < n + 1
    BY <2>1, <2>6
  <2>10. \A i, j \in 1 .. c + 1 : i < j => q[i] < q[j]
    <3> SUFFICES ASSUME NEW i \in 1 .. c + 1, NEW j \in 1 .. c + 1, i < j
                 PROVE  q[i] < q[j]
      OBVIOUS
    <3>1. i <= c
      BY <2>5, <2>7
    <3>2. i \in 1 .. c /\ q[i] = p[i]
      BY <3>1, <2>7
    <3>3. CASE j <= c
      BY <2>6, <2>7, <3>2, <3>3
    <3>4. CASE ~(j <= c)
      BY <2>9, <3>2, <3>4
    <3> QED BY <3>3, <3>4
  <2> QED BY <2>5, <2>8, <2>10 DEF Enumerates, Ascending
<1> QED BY <1>1, <1>2

LEMMA OrderExists == \A n \in Nat : HasOrder(n)
<1> DEFINE Bad == {n \in Nat : ~HasOrder(n)}
<1> SUFFICES ASSUME Bad # {} PROVE FALSE
  OBVIOUS
<1>1. PICK m \in Bad : \A n \in Bad : m <= n
  BY LeastElement
<1>2. m # 0
  <2>1. ASSUME NEW S \in SUBSET (1 .. 0) PROVE \E q : Enumerates(q, S)
    <3>1. 1 .. 0 = {} /\ S = {}
      BY <2>1
    <3>2. Cardinality(S) = 0
      BY <3>1, FS_EmptySet
    <3>3. [i \in 1 .. 0 |-> i] \in [1 .. 0 -> S]
      BY <3>1, <3>2
    <3> QED BY <3>1, <3>2, <3>3 DEF Enumerates, Ascending
  <2> QED BY <1>1, <2>1 DEF HasOrder
<1>3. m - 1 \in Nat /\ (m - 1) + 1 = m
  BY <1>1, <1>2
<1>4. m - 1 \notin Bad
  BY <1>1, <1>3
<1> QED BY <1>1, <1>3, <1>4, OrderExtends

LEMMA InOrderAscends ==
    ASSUME NEW S \in SUBSET Runs
    PROVE  InOrder(S) \in [1 .. Cardinality(S) -> S] /\ Ascending(InOrder(S))
<1>1. PICK q : Enumerates(q, S)
  BY OrderExists, IndexAssumption DEF HasOrder, Runs
<1> QED BY <1>1 DEF InOrder, Enumerates, Ascending

(***************************************************************************)
(* The operations of RuntimeState keep RuntimeOK.                          *)
(***************************************************************************)

\* What RuntimeOK says of the parts of a value, and what it follows from.
LEMMA RuntimeParts ==
    ASSUME NEW h, NEW rt, RuntimeOK(h, rt)
    PROVE  /\ rt.rows \in [Sessions -> {"idle", "active", NoRow}]
           /\ rt.owner \in [Sessions -> Daemons \union {NoRow}]
           /\ rt.indexed \in [Daemons -> SUBSET Sessions]
           /\ rt.cached \in [Sessions -> {NoCache} \union Seq(Turns)]
           /\ rt.runs \in [Runs -> {NoRun} \union RunRecords]
BY DEF RuntimeOK, RuntimeType

\* A run that is held was created and belongs to a session and one of its daemons.
LEMMA HeldRuns ==
    ASSUME NEW h, NEW rt, RuntimeOK(h, rt), NEW r \in Runs,
           rt.runs[r].state \in {"active", "ended"}
    PROVE  /\ rt.runs[r] \in RunRecords /\ rt.runs[r].session \in Sessions
           /\ r \in LocalRuns(rt, rt.runs[r].session)
           /\ rt.runs[r].daemon \in h[rt.runs[r].session]
<1>1. rt.runs[r] \in {NoRun} \union RunRecords
  BY RuntimeParts
<1>2. NoRun.state = "none"
  BY DEF NoRun
<1>3. rt.runs[r] \in RunRecords /\ rt.runs[r] # NoRun
  BY <1>1, <1>2
<1>4. rt.runs[r].daemon \in h[rt.runs[r].session]
  BY <1>3 DEF RuntimeOK, Placed
<1> QED BY <1>3, <1>4 DEF RunRecords, LocalRuns

\* A value of the right type whose parts are replaced by others of the right types.
LEMMA Rebuilt ==
    ASSUME NEW rt \in RuntimeType,
           NEW rows \in [Sessions -> {"idle", "active", NoRow}],
           NEW owner \in [Sessions -> Daemons \union {NoRow}],
           NEW indexed \in [Daemons -> SUBSET Sessions],
           NEW cached \in [Sessions -> {NoCache} \union Seq(Turns)]
    PROVE  [rt EXCEPT !.rows = rows, !.owner = owner, !.cached = cached, !.indexed = indexed]
              \in RuntimeType
BY DEF RuntimeType

LEMMA UpsertKeepsOK ==
    ASSUME NEW h \in [Sessions -> SUBSET Daemons], NEW rt, RuntimeOK(h, rt),
           NEW s \in Sessions, NEW d \in h[s]
    PROVE  /\ RuntimeOK(h, UpsertSession(rt, s, d))
           /\ UpsertSession(rt, s, d).runs = rt.runs
           /\ UpsertSession(rt, s, d).rows[s] # NoRow
           /\ \A x \in Sessions :
                 rt.rows[x] # NoRow => UpsertSession(rt, s, d).rows[x] = rt.rows[x]
<1> DEFINE new == UpsertSession(rt, s, d)
<1>1. /\ new.rows = [rt.rows EXCEPT ![s] = Upsert(@)]
      /\ new.owner = [rt.owner EXCEPT ![s] = d]
      /\ new.indexed = [rt.indexed EXCEPT ![d] = @ \union {s}]
      /\ new.cached = rt.cached /\ new.runs = rt.runs
  BY DEF UpsertSession, RuntimeOK, RuntimeType
<1>2. d \in Daemons /\ d # NoRow
  BY IndexAssumption
<1>3. /\ new.rows \in [Sessions -> {"idle", "active", NoRow}] /\ new.rows[s] # NoRow
      /\ \A x \in Sessions : rt.rows[x] # NoRow => new.rows[x] = rt.rows[x]
      /\ \A x \in Sessions \ {s} : new.rows[x] = rt.rows[x]
  BY <1>1, RuntimeParts, IndexAssumption DEF Upsert
<1>4. /\ new.owner \in [Sessions -> Daemons \union {NoRow}] /\ new.owner[s] = d
      /\ \A x \in Sessions \ {s} : new.owner[x] = rt.owner[x]
      /\ new.indexed \in [Daemons -> SUBSET Sessions]
  BY <1>1, <1>2, RuntimeParts
<1>5. rt \in RuntimeType /\ rt.cached \in [Sessions -> {NoCache} \union Seq(Turns)]
  BY RuntimeParts DEF RuntimeOK
<1>10. new = [rt EXCEPT !.rows = [rt.rows EXCEPT ![s] = Upsert(@)],
                        !.owner = [rt.owner EXCEPT ![s] = d], !.cached = rt.cached,
                        !.indexed = [rt.indexed EXCEPT ![d] = @ \union {s}]]
  BY <1>5 DEF UpsertSession, RuntimeType
<1> HIDE DEF new
<1>6. new \in RuntimeType
  <2> DEFINE rows == [rt.rows EXCEPT ![s] = Upsert(@)]
             owner == [rt.owner EXCEPT ![s] = d]
             indexed == [rt.indexed EXCEPT ![d] = @ \union {s}]
  <2>1. /\ rows \in [Sessions -> {"idle", "active", NoRow}]
        /\ owner \in [Sessions -> Daemons \union {NoRow}]
        /\ indexed \in [Daemons -> SUBSET Sessions]
    BY <1>1, <1>3, <1>4
  <2>2. new = [rt EXCEPT !.rows = rows, !.owner = owner, !.cached = rt.cached,
                         !.indexed = indexed]
    BY <1>10
  <2> HIDE DEF rows, owner, indexed
  <2> QED BY <1>5, <2>1, <2>2, Rebuilt
<1>7. \A x \in Sessions : LocalRuns(new, x) = LocalRuns(rt, x)
  BY <1>1 DEF LocalRuns
<1>8. Placed(h, new)
  BY <1>1, <1>3, <1>4 DEF RuntimeOK, Placed
<1>9. RuntimeOK(h, new)
  BY <1>1, <1>3, <1>6, <1>7, <1>8 DEF RuntimeOK, Created
<1> QED BY <1>1, <1>3, <1>9 DEF new

\* Replacing what a daemon listed: what it lists has a row, other rows stay unless
\* they are rows of that daemon of which no run is held.
LEMMA ReplaceKeepsOK ==
    ASSUME NEW h \in [Sessions -> SUBSET Daemons], NEW rt, RuntimeOK(h, rt), NEW d \in Daemons,
           NEW listed \in SUBSET Sessions, \A s \in listed : d \in h[s]
    PROVE  /\ RuntimeOK(h, Replace(rt, d, listed))
           /\ Replace(rt, d, listed).runs = rt.runs
           /\ \A s \in listed : Replace(rt, d, listed).rows[s] # NoRow
           /\ \A s \in Sessions : LocalRuns(rt, s) # {} =>
                  Replace(rt, d, listed).rows[s] = rt.rows[s]
           /\ \A s \in Sessions :
                 rt.rows[s] # NoRow /\ Replace(rt, d, listed).rows[s] = NoRow => rt.owner[s] = d
<1> DEFINE stale == {s \in rt.indexed[d] \ listed : ~Spared(rt, s)}
           removed == Removed(rt, d, stale)
           new == Replace(rt, d, listed)
<1>1. /\ new.rows = [s \in Sessions |-> IF s \in listed THEN Upsert(rt.rows[s])
                                         ELSE IF s \in removed THEN NoRow ELSE rt.rows[s]]
      /\ new.owner = [s \in Sessions |-> IF s \in listed THEN d
                                          ELSE IF s \in removed THEN NoRow ELSE rt.owner[s]]
      /\ new.cached = [s \in Sessions |-> IF s \in stale THEN NoCache ELSE rt.cached[s]]
      /\ new.indexed = [rt.indexed EXCEPT ![d] = listed] /\ new.runs = rt.runs
  BY DEF Replace, RuntimeOK, RuntimeType
<1>2. rt \in RuntimeType /\ new = [rt EXCEPT !.rows = new.rows, !.owner = new.owner,
                                            !.cached = new.cached, !.indexed = new.indexed]
  BY <1>1 DEF Replace, RuntimeOK, RuntimeType
<1>3. /\ \A s \in stale : LocalRuns(rt, s) = {}
      /\ \A s \in removed : s \in stale /\ rt.owner[s] = d
  BY DEF Spared, Removed
<1> HIDE DEF stale, removed, new
<1>4. new \in RuntimeType
  <2> DEFINE rows == new.rows
             owner == new.owner
             cached == new.cached
             indexed == new.indexed
  <2>1. /\ rows \in [Sessions -> {"idle", "active", NoRow}]
        /\ owner \in [Sessions -> Daemons \union {NoRow}]
    BY <1>1, RuntimeParts DEF Upsert
  <2>2. /\ cached \in [Sessions -> {NoCache} \union Seq(Turns)]
        /\ indexed \in [Daemons -> SUBSET Sessions]
    BY <1>1, RuntimeParts
  <2>3. new = [rt EXCEPT !.rows = rows, !.owner = owner, !.cached = cached,
                         !.indexed = indexed]
    BY <1>2
  <2> HIDE DEF rows, owner, cached, indexed
  <2> QED BY <1>2, <2>1, <2>2, <2>3, Rebuilt
<1>5. \A s \in Sessions :
         s \in listed => /\ new.rows[s] # NoRow /\ new.owner[s] = d
                         /\ rt.rows[s] # NoRow => new.rows[s] = rt.rows[s]
  BY <1>1, RuntimeParts, IndexAssumption DEF Upsert
<1>6. \A s \in Sessions :
         \/ s \in listed
         \/ new.rows[s] = rt.rows[s] /\ new.owner[s] = rt.owner[s]
         \/ /\ LocalRuns(rt, s) = {} /\ rt.owner[s] = d /\ new.rows[s] = NoRow
            /\ new.owner[s] = NoRow /\ new.cached[s] = NoCache
  BY <1>1, <1>3
<1>7. \A s \in Sessions : new.cached[s] = NoCache \/ new.cached[s] = rt.cached[s]
  BY <1>1
<1>8. \A s \in Sessions : LocalRuns(rt, s) # {} => new.rows[s] = rt.rows[s]
  BY <1>5, <1>6 DEF RuntimeOK
<1>9. \A s \in Sessions : LocalRuns(new, s) = LocalRuns(rt, s)
  BY <1>1 DEF LocalRuns
<1>10. Placed(h, new)
  <2>1. \A s \in Sessions : new.rows[s] # NoRow => new.owner[s] \in h[s]
    BY <1>5, <1>6 DEF RuntimeOK, Placed
  <2>2. \A s \in Sessions : new.rows[s] = NoRow => new.owner[s] = NoRow
    BY <1>5, <1>6 DEF RuntimeOK, Placed
  <2> QED BY <1>1, <2>1, <2>2 DEF RuntimeOK, Placed
<1>11. \A s \in Sessions :
          LocalRuns(new, s) # {} => new.rows[s] # NoRow /\ new.cached[s] = NoCache
  BY <1>7, <1>8, <1>9 DEF RuntimeOK
<1>12. \A s \in Sessions :
          new.cached[s] # NoCache => new.rows[s] # NoRow /\ InTurn(h, s, new.cached[s])
  BY <1>5, <1>6, <1>7 DEF RuntimeOK
<1>13. RuntimeOK(h, new)
  BY <1>1, <1>4, <1>10, <1>11, <1>12 DEF RuntimeOK, Created
<1>14. /\ \A s \in listed : new.rows[s] # NoRow
       /\ \A s \in Sessions : rt.rows[s] # NoRow /\ new.rows[s] = NoRow => rt.owner[s] = d
  BY <1>5, <1>6
<1> QED BY <1>1, <1>8, <1>13, <1>14 DEF new

LEMMA CacheKeepsOK ==
    ASSUME NEW h, NEW rt, RuntimeOK(h, rt), NEW s \in Sessions, rt.rows[s] # NoRow,
           NEW replay \in Seq(Turns), InTurn(h, s, replay)
    PROVE  /\ RuntimeOK(h, CacheTranscript(rt, s, replay))
           /\ CacheTranscript(rt, s, replay).runs = rt.runs
           /\ CacheTranscript(rt, s, replay).rows = rt.rows
<1> DEFINE new == [rt EXCEPT !.cached[s] = replay]
<1> SUFFICES ASSUME LocalRuns(rt, s) = {}
             PROVE  RuntimeOK(h, new) /\ new.runs = rt.runs /\ new.rows = rt.rows
  BY DEF CacheTranscript
<1>1. /\ new.cached = [rt.cached EXCEPT ![s] = replay] /\ new.rows = rt.rows
      /\ new.owner = rt.owner /\ new.indexed = rt.indexed /\ new.runs = rt.runs
  BY DEF RuntimeOK, RuntimeType
<1>2. new = [rows |-> new.rows, owner |-> new.owner, indexed |-> new.indexed,
             cached |-> new.cached, runs |-> new.runs]
  BY DEF RuntimeOK, RuntimeType
<1> HIDE DEF new
<1>3. new.cached \in [Sessions -> {NoCache} \union Seq(Turns)]
  BY <1>1, RuntimeParts
<1>4. new \in RuntimeType
  BY <1>1, <1>2, <1>3, RuntimeParts DEF RuntimeType
<1>5. \A x \in Sessions : LocalRuns(new, x) = LocalRuns(rt, x)
  BY <1>1 DEF LocalRuns
<1>6. \A x \in Sessions : new.cached[x] = IF x = s THEN replay ELSE rt.cached[x]
  BY <1>1, RuntimeParts
<1>7. \A x \in Sessions :
         LocalRuns(new, x) # {} => new.rows[x] # NoRow /\ new.cached[x] = NoCache
  BY <1>1, <1>5, <1>6 DEF RuntimeOK
<1>8. \A x \in Sessions :
         new.cached[x] # NoCache => new.rows[x] # NoRow /\ InTurn(h, x, new.cached[x])
  BY <1>1, <1>6 DEF RuntimeOK
<1>9. RuntimeOK(h, new)
  BY <1>1, <1>4, <1>7, <1>8 DEF RuntimeOK, Created, Placed
<1> QED BY <1>1, <1>9

\* Count is the k of RuntimeOK.
LEMMA CountIsNumber ==
    ASSUME NEW h, NEW rt, RuntimeOK(h, rt)
    PROVE  Count(rt) \in 0 .. MaxRuns /\ Created(rt, Count(rt))
<1>1. PICK k \in 0 .. MaxRuns : Created(rt, k)
  BY DEF RuntimeOK
<1>2. k \in Nat /\ MaxRuns \in Nat /\ k <= MaxRuns
  BY IndexAssumption
<1>3. {r \in Runs : rt.runs[r] # NoRun} = 1 .. k
  <2>1. \A r : r \in 1 .. k <=> r \in 1 .. MaxRuns /\ r <= k
    BY <1>2
  <2> QED BY <1>1, <2>1 DEF Created, Runs
<1>4. Cardinality(1 .. k) = k
  <2>1. 1 \in Int /\ k \in Int
    BY <1>2
  <2>2. Cardinality(1 .. k) = IF 1 > k THEN 0 ELSE k - 1 + 1
    BY <2>1, FS_Interval
  <2> QED BY <1>2, <2>2
<1>5. Count(rt) = k
  BY <1>3, <1>4 DEF Count
<1> QED BY <1>1, <1>5

LEMMA StatusKeepsOK ==
    ASSUME NEW h, NEW rt, RuntimeOK(h, rt), NEW s \in Sessions, NEW status \in {"idle", "active"}
    PROVE  /\ RuntimeOK(h, SetStatus(rt, s, status))
           /\ SetStatus(rt, s, status).runs = rt.runs
           /\ SetStatus(rt, s, status).cached = rt.cached
           /\ SetStatus(rt, s, status).owner = rt.owner
           /\ \A x \in Sessions : rt.rows[x] # NoRow => SetStatus(rt, s, status).rows[x] # NoRow
<1> DEFINE new == SetStatus(rt, s, status)
<1>1. /\ new.rows = [rt.rows EXCEPT ![s] = IF @ = NoRow THEN @ ELSE status]
      /\ new.owner = rt.owner /\ new.indexed = rt.indexed /\ new.cached = rt.cached
      /\ new.runs = rt.runs
  BY DEF SetStatus, RuntimeOK, RuntimeType
<1>2. new.rows \in [Sessions -> {"idle", "active", NoRow}]
  BY <1>1, RuntimeParts
<1>3. new \in RuntimeType
  BY <1>1, <1>2 DEF SetStatus, RuntimeOK, RuntimeType
<1> HIDE DEF new
<1>4. \A x \in Sessions : rt.rows[x] # NoRow <=> new.rows[x] # NoRow
  BY <1>1, RuntimeParts, IndexAssumption
<1>5. \A x \in Sessions : LocalRuns(new, x) = LocalRuns(rt, x)
  BY <1>1 DEF LocalRuns
<1>6. Placed(h, new)
  BY <1>1, <1>4 DEF RuntimeOK, Placed
<1>7. RuntimeOK(h, new)
  BY <1>1, <1>3, <1>4, <1>5, <1>6 DEF RuntimeOK, Created
<1> QED BY <1>1, <1>4, <1>7 DEF new

LEMMA CreateKeepsOK ==
    ASSUME NEW h \in [Sessions -> SUBSET Daemons], NEW rt, RuntimeOK(h, rt), NEW s \in Sessions,
           rt.rows[s] # NoRow, Count(rt) < MaxRuns
    PROVE  /\ RuntimeOK(h, CreateRun(rt, s))
           /\ Count(rt) + 1 \in Runs /\ rt.runs[Count(rt) + 1] = NoRun
           /\ CreateRun(rt, s).runs =
                 [rt.runs EXCEPT ![Count(rt) + 1] = [session |-> s, daemon |-> rt.owner[s],
                                                     state |-> "active"]]
<1> DEFINE k == Count(rt)
           run == [session |-> s, daemon |-> rt.owner[s], state |-> "active"]
           mid == SetStatus(rt, s, "active")
           new == CreateRun(rt, s)
<1>1. /\ k \in Nat /\ k + 1 \in Runs /\ Created(rt, k) /\ rt.runs[k + 1] = NoRun
  <2>1. k \in 0 .. MaxRuns /\ Created(rt, k) /\ k < MaxRuns /\ MaxRuns \in Nat
    BY CountIsNumber, IndexAssumption
  <2>2. k \in Nat /\ k + 1 \in 1 .. MaxRuns /\ ~(k + 1 <= k)
    BY <2>1
  <2> QED BY <2>1, <2>2 DEF Runs, Created
<1>2. /\ RuntimeOK(h, mid) /\ mid.runs = rt.runs /\ mid.cached = rt.cached
      /\ mid.owner = rt.owner /\ mid.rows[s] # NoRow
      /\ \A x \in Sessions : rt.rows[x] # NoRow => mid.rows[x] # NoRow
  BY StatusKeepsOK
<1> HIDE DEF k, mid
<1>3. new = [mid EXCEPT !.runs[k + 1] = run, !.cached[s] = NoCache]
  BY DEF CreateRun, k, mid
<1> HIDE DEF new
<1>4. /\ new.rows = mid.rows /\ new.owner = mid.owner /\ new.indexed = mid.indexed
      /\ new.runs = [rt.runs EXCEPT ![k + 1] = run]
      /\ new.cached = [rt.cached EXCEPT ![s] = NoCache]
  BY <1>2, <1>3 DEF RuntimeOK, RuntimeType
<1>5. run \in RunRecords /\ run.daemon \in h[run.session]
  <2>1. rt.owner[s] \in h[s]
    BY DEF RuntimeOK, Placed
  <2> QED BY <2>1 DEF RunRecords
<1>6. /\ new.runs \in [Runs -> {NoRun} \union RunRecords]
      /\ new.cached \in [Sessions -> {NoCache} \union Seq(Turns)]
      /\ new.runs[k + 1] = run /\ \A r \in Runs \ {k + 1} : new.runs[r] = rt.runs[r]
      /\ new.cached[s] = NoCache /\ \A x \in Sessions \ {s} : new.cached[x] = rt.cached[x]
  BY <1>1, <1>4, <1>5, RuntimeParts
<1>7. new \in RuntimeType
  <2>1. /\ [mid.runs EXCEPT ![k + 1] = run] \in [Runs -> {NoRun} \union RunRecords]
        /\ [mid.cached EXCEPT ![s] = NoCache] \in [Sessions -> {NoCache} \union Seq(Turns)]
    BY <1>2, <1>4, <1>6
  <2> HIDE DEF run
  <2> QED BY <1>2, <1>3, <2>1 DEF RuntimeOK, RuntimeType
<1>8. \A x \in Sessions : x # s => LocalRuns(new, x) = LocalRuns(rt, x)
  <2>1. rt.runs[k + 1].state = "none"
    BY <1>1 DEF NoRun
  <2> QED BY <1>6, <2>1 DEF LocalRuns
<1>9. \A x \in Sessions :
         LocalRuns(new, x) # {} => new.rows[x] # NoRow /\ new.cached[x] = NoCache
  <2> SUFFICES ASSUME NEW x \in Sessions, LocalRuns(new, x) # {}
               PROVE  new.rows[x] # NoRow /\ new.cached[x] = NoCache
    OBVIOUS
  <2>1. CASE x = s
    BY <1>2, <1>4, <1>6, <2>1
  <2>2. CASE x # s
    <3>1. LocalRuns(rt, x) # {} /\ LocalRuns(mid, x) # {}
      BY <1>2, <1>8, <2>2 DEF LocalRuns
    <3> QED BY <1>2, <1>4, <1>6, <2>2, <3>1 DEF RuntimeOK
  <2> QED BY <2>1, <2>2
<1>10. \A x \in Sessions :
          new.cached[x] # NoCache => new.rows[x] # NoRow /\ InTurn(h, x, new.cached[x])
  BY <1>2, <1>4, <1>6 DEF RuntimeOK
<1>13. Placed(h, new)
  BY <1>2, <1>4, <1>5, <1>6 DEF RuntimeOK, Placed
<1>11. k + 1 \in 0 .. MaxRuns /\ Created(new, k + 1)
  <2>1. run # NoRun
    <3>1. run.state = "active" /\ NoRun.state = "none"
      BY DEF NoRun
    <3> QED BY <3>1
  <2>2. \A r \in Runs : r <= k + 1 <=> r <= k \/ r = k + 1
    BY <1>1 DEF Runs
  <2>3. k + 1 \in 0 .. MaxRuns
    BY <1>1 DEF Runs
  <2> HIDE DEF run
  <2> QED BY <1>1, <1>6, <2>1, <2>2, <2>3 DEF Created
<1>12. RuntimeOK(h, new)
  BY <1>7, <1>9, <1>10, <1>11, <1>13 DEF RuntimeOK
<1> QED BY <1>1, <1>2, <1>4, <1>12 DEF new, k

\* And the rows stay.
LEMMA CreateKeepsRows ==
    ASSUME NEW h \in [Sessions -> SUBSET Daemons], NEW rt, RuntimeOK(h, rt), NEW s \in Sessions,
           rt.rows[s] # NoRow, Count(rt) < MaxRuns
    PROVE  \A x \in Sessions : rt.rows[x] # NoRow => CreateRun(rt, s).rows[x] # NoRow
<1> DEFINE mid == SetStatus(rt, s, "active")
<1>1. RuntimeOK(h, mid) /\ \A x \in Sessions : rt.rows[x] # NoRow => mid.rows[x] # NoRow
  BY StatusKeepsOK
<1>2. CreateRun(rt, s).rows = mid.rows
  BY <1>1 DEF CreateRun, RuntimeOK, RuntimeType
<1> HIDE DEF mid
<1> QED BY <1>1, <1>2

LEMMA EndKeepsOK ==
    ASSUME NEW h, NEW rt, RuntimeOK(h, rt), NEW r \in Runs, rt.runs[r].state = "active"
    PROVE  /\ RuntimeOK(h, EndRun(rt, r))
           /\ EndRun(rt, r).runs[r] # NoRun /\ EndRun(rt, r).runs[r].state = "ended"
           /\ \A q \in Runs \ {r} : EndRun(rt, r).runs[q] = rt.runs[q]
           /\ \A x \in Sessions : rt.rows[x] # NoRow => EndRun(rt, r).rows[x] # NoRow
<1> DEFINE s == rt.runs[r].session
           d == rt.runs[r].daemon
           ended == [session |-> s, daemon |-> d, state |-> "ended"]
           mid == SetStatus(rt, s, "idle")
           new == EndRun(rt, r)
<1>1. /\ s \in Sessions /\ r \in LocalRuns(rt, s) /\ d \in Daemons /\ d \in h[s]
      /\ rt.runs[r] = [session |-> s, daemon |-> d, state |-> "active"]
  BY HeldRuns DEF RunRecords
<1>2. /\ RuntimeOK(h, mid) /\ mid.runs = rt.runs /\ mid.cached = rt.cached
      /\ \A x \in Sessions : rt.rows[x] # NoRow => mid.rows[x] # NoRow
  BY <1>1, StatusKeepsOK
<1>3. new = [mid EXCEPT !.runs[r].state = "ended"]
  BY DEF EndRun
<1> HIDE DEF mid, new
<1>4. /\ new.rows = mid.rows /\ new.owner = mid.owner /\ new.indexed = mid.indexed
      /\ new.cached = mid.cached
      /\ new.runs = [mid.runs EXCEPT ![r].state = "ended"]
  BY <1>2, <1>3 DEF RuntimeOK, RuntimeType
<1> HIDE DEF s, d
<1>5. new.runs = [rt.runs EXCEPT ![r] = ended]
  BY <1>1, <1>2, <1>4, RuntimeParts
<1>6. ended \in RunRecords
  BY <1>1 DEF RunRecords
<1>7. ended.state = "ended" /\ ended.daemon \in h[ended.session] /\ ended # NoRun
  <2>1. ended.state = "ended" /\ NoRun.state = "none"
    BY DEF NoRun
  <2> QED BY <1>1, <2>1
<1>8. /\ new.runs \in [Runs -> {NoRun} \union RunRecords]
      /\ new.runs[r] = ended /\ \A q \in Runs \ {r} : new.runs[q] = rt.runs[q]
  BY <1>5, <1>6, RuntimeParts
<1>9. new \in RuntimeType
  <2>1. [mid.runs EXCEPT ![r].state = "ended"] \in [Runs -> {NoRun} \union RunRecords]
    BY <1>4, <1>8
  <2> QED BY <1>2, <1>3, <2>1 DEF RuntimeOK, RuntimeType
<1>10. \A x \in Sessions : LocalRuns(new, x) = LocalRuns(rt, x)
  BY <1>1, <1>8 DEF LocalRuns
<1>11. rt.runs[r] # NoRun
  <2>1. rt.runs[r].state = "active" /\ NoRun.state = "none"
    BY DEF NoRun
  <2> QED BY <2>1
<1>12. \A k : Created(rt, k) => Created(new, k)
  <2> HIDE DEF ended
  <2> QED BY <1>7, <1>8, <1>11 DEF Created
<1>14. Placed(h, new)
  <2> HIDE DEF ended
  <2> QED BY <1>2, <1>4, <1>7, <1>8 DEF RuntimeOK, Placed
<1>15. \A x \in Sessions : LocalRuns(mid, x) = LocalRuns(rt, x)
  BY <1>2 DEF LocalRuns
<1>13. RuntimeOK(h, new)
  BY <1>2, <1>4, <1>9, <1>10, <1>12, <1>14, <1>15 DEF RuntimeOK
<1> QED BY <1>2, <1>4, <1>7, <1>8, <1>13 DEF new

LEMMA CleanUpKeepsOK ==
    ASSUME NEW h, NEW rt, RuntimeOK(h, rt), NEW expired \in SUBSET {r \in Runs : rt.runs[r].state = "ended"},
           NEW old \in SUBSET Sessions
    PROVE  /\ RuntimeOK(h, CleanUp(rt, expired, old))
           /\ CleanUp(rt, expired, old).rows = rt.rows
           /\ \A r \in Runs :
                 /\ rt.runs[r] # NoRun => CleanUp(rt, expired, old).runs[r] # NoRun
                 /\ CleanUp(rt, expired, old).runs[r].state = "active" =>
                       CleanUp(rt, expired, old).runs[r] = rt.runs[r]
<1> DEFINE new == CleanUp(rt, expired, old)
           runs == [r \in Runs |-> IF r \in expired THEN [rt.runs[r] EXCEPT !.state = "removed"]
                                  ELSE rt.runs[r]]
           kept == [rt EXCEPT !.runs = runs]
           stale == old \union {s \in Sessions : rt.rows[s] = NoRow \/ LocalRuns(kept, s) # {}}
           cached == [s \in Sessions |-> IF s \in stale THEN NoCache ELSE rt.cached[s]]
           gone(r) == [session |-> rt.runs[r].session, daemon |-> rt.runs[r].daemon,
                       state |-> "removed"]
<1>1. new = [kept EXCEPT !.cached = cached]
  <2>1. kept.cached = rt.cached
    BY DEF RuntimeOK, RuntimeType
  <2> QED BY <2>1 DEF CleanUp
<1>2. \A r \in expired : /\ r \in Runs /\ rt.runs[r].state = "ended"
                        /\ [rt.runs[r] EXCEPT !.state = "removed"]
                              = gone(r)
                        /\ gone(r) \in RunRecords
  <2> SUFFICES ASSUME NEW r \in expired
               PROVE  /\ r \in Runs /\ rt.runs[r].state = "ended"
                      /\ [rt.runs[r] EXCEPT !.state = "removed"]
                            = gone(r)
                      /\ gone(r) \in RunRecords
    OBVIOUS
  <2>1. rt.runs[r] \in {NoRun} \union RunRecords /\ NoRun.state = "none"
        /\ r \in Runs /\ rt.runs[r].state = "ended"
    BY RuntimeParts DEF NoRun
  <2>2. rt.runs[r] \in RunRecords
    BY <2>1
  <2> QED BY <2>1, <2>2 DEF RunRecords
<1>3. \A r \in expired : /\ runs[r].state = "removed" /\ runs[r] # NoRun
                        /\ runs[r] \in RunRecords
  <2>1. NoRun.state = "none"
    BY DEF NoRun
  <2> QED BY <1>2, <2>1
<1>4. \A r \in Runs \ expired : runs[r] = rt.runs[r]
  OBVIOUS
<1> HIDE DEF runs
<1>5. runs \in [Runs -> {NoRun} \union RunRecords]
  <2>1. \A r \in Runs : runs[r] \in {NoRun} \union RunRecords
    BY <1>3, <1>4, RuntimeParts
  <2>2. runs = [r \in Runs |-> runs[r]]
    BY DEF runs
  <2> QED BY <2>1, <2>2
<1>6. kept.runs = runs /\ kept.rows = rt.rows /\ kept.owner = rt.owner
      /\ kept.indexed = rt.indexed /\ kept \in RuntimeType
  BY <1>5 DEF RuntimeOK, RuntimeType
<1>7. cached \in [Sessions -> {NoCache} \union Seq(Turns)]
  BY RuntimeParts
<1>8. \A s \in Sessions : cached[s] = IF s \in stale THEN NoCache ELSE rt.cached[s]
  OBVIOUS
<1>9. \A s \in Sessions : LocalRuns(kept, s) # {} => s \in stale
  OBVIOUS
<1> HIDE DEF kept, cached, stale, new
<1>10. /\ new.runs = runs /\ new.rows = rt.rows /\ new.owner = rt.owner
       /\ new.cached = cached /\ new \in RuntimeType
  BY <1>1, <1>6, <1>7 DEF RuntimeType
<1>11. \A s \in Sessions : LocalRuns(new, s) = LocalRuns(kept, s)
                           /\ (LocalRuns(new, s) # {} => LocalRuns(rt, s) # {})
  BY <1>3, <1>4, <1>6, <1>10 DEF LocalRuns
<1>12. \A s \in Sessions :
          LocalRuns(new, s) # {} => new.rows[s] # NoRow /\ new.cached[s] = NoCache
  BY <1>8, <1>9, <1>10, <1>11 DEF RuntimeOK
<1>13. \A r \in Runs : rt.runs[r] # NoRun <=> new.runs[r] # NoRun
  <2>1. NoRun.state = "none"
    BY DEF NoRun
  <2> QED BY <1>2, <1>3, <1>4, <1>10, <2>1
<1>14. \A s \in Sessions :
          new.cached[s] # NoCache => new.rows[s] # NoRow /\ InTurn(h, s, new.cached[s])
  BY <1>8, <1>10 DEF RuntimeOK
<1>17. Placed(h, new)
  <2>1. \A r \in Runs : new.runs[r] # NoRun =>
           new.runs[r].daemon = rt.runs[r].daemon /\ new.runs[r].session = rt.runs[r].session
    BY <1>2, <1>4, <1>10 DEF runs
  <2> QED BY <1>10, <1>13, <2>1 DEF RuntimeOK, Placed
<1>15. RuntimeOK(h, new)
  BY <1>10, <1>12, <1>13, <1>14, <1>17 DEF RuntimeOK, Created
<1>16. \A r \in Runs : new.runs[r].state = "active" => new.runs[r] = rt.runs[r]
  BY <1>3, <1>4, <1>10
<1> QED BY <1>10, <1>13, <1>15, <1>16 DEF new

(***************************************************************************)
(* The initial state, and what steps do to the turns.                      *)
(***************************************************************************)

LEMMA SettingTypes ==
    ASSUME setting \in Settings
    PROVE  /\ Hosts \in [Sessions -> SUBSET Daemons] /\ SessionOf \in [Calls -> Sessions]
           /\ Kind \in [Calls -> {"list", "load", "send", "none"}]
BY IndexAssumption DEF Hosts, SessionOf, Kind

LEMMA InitInv == Init => IndexInv
<1> SUFFICES ASSUME Init PROVE IndexInv
  OBVIOUS
<1>1. 0 \in Turns /\ \A k \in Nat : k \in Runs => k # 0
  BY IndexAssumption DEF Turns, Runs
<1>2. <<>> \in Seq(Turns) /\ <<0>> \in Seq(Turns)
  BY <1>1
<1>3. CallTypes
  <2>1. connected \subseteq Daemons
    BY SettingTypes DEF Init
  <2>2. turns \in [Sessions -> Seq(Turns)] /\ got \in [Calls -> Seq(Turns)]
    BY <1>2 DEF Init
  <2> QED BY <2>1, <2>2, IndexAssumption DEF Init, CallTypes, Phases
<1>4. RuntimeOK(Hosts, runtime)
  <2>1. /\ runtime \in RuntimeType /\ runtime.rows = [s \in Sessions |-> NoRow]
        /\ runtime.owner = [s \in Sessions |-> NoRow]
        /\ runtime.cached = [s \in Sessions |-> NoCache]
        /\ runtime.runs = [r \in Runs |-> NoRun]
    BY DEF Init, EmptyRuntime, RuntimeType
  <2>2. NoRun.state = "none"
    BY DEF NoRun
  <2>3. \A s \in Sessions : LocalRuns(runtime, s) = {}
    BY <2>1, <2>2 DEF LocalRuns
  <2>4. 0 \in 0 .. MaxRuns /\ \A r \in Runs : ~(r <= 0)
    BY IndexAssumption DEF Runs
  <2>5. Created(runtime, 0) /\ Placed(Hosts, runtime)
    BY <2>1, <2>4 DEF Created, Placed
  <2> QED BY <2>1, <2>3, <2>4, <2>5 DEF RuntimeOK
<1>5. TurnsInv
  <2>1. \A r \in Runs : runtime.runs[r].state # "active"
    BY DEF Init, EmptyRuntime, NoRun
  <2>2. \A s \in Sessions : turns[s] \in {<<>>, <<0>>}
    BY DEF Init
  <2>3. \A i \in DOMAIN <<0>> : i = 1 /\ <<0>>[i] = 0
    OBVIOUS
  <2>4. 0 \notin Runs /\ \A s : InTurn(Hosts, s, <<>>) /\ InTurn(Hosts, s, <<0>>)
    BY <1>1, <2>3 DEF InTurn
  <2>5. \A s : TurnsOK(Hosts, runtime, s, <<>>)
    BY <1>2, <2>4 DEF TurnsOK
  <2>6. \A s : TurnsOK(Hosts, runtime, s, <<0>>)
    BY <1>2, <2>1, <2>3, <2>4 DEF TurnsOK
  <2> QED BY <2>2, <2>5, <2>6 DEF TurnsInv
<1>6. ReplaysInOrder /\ TargetInv
  BY <1>2 DEF Init, ReplaysInOrder, InTurn, TargetInv
<1> QED BY <1>3, <1>4, <1>5, <1>6 DEF IndexInv

\* No run becomes active and none is forgotten.
LEMMA TurnsStay ==
    ASSUME IndexInv, UNCHANGED <<setting, turns>>,
           \A r \in Runs : runtime.runs[r] # NoRun => runtime'.runs[r] # NoRun,
           \A r \in Runs : runtime'.runs[r].state = "active" => runtime'.runs[r] = runtime.runs[r]
    PROVE  TurnsInv'
<1> DEFINE h == Hosts
<1>1. Hosts' = h
  BY DEF Hosts
<1>2. \A s \in Sessions : TurnsOK(h, runtime, s, turns[s])
  BY DEF IndexInv, TurnsInv
<1> HIDE DEF h
<1>3. \A s \in Sessions : TurnsOK(h, runtime', s, turns[s])
  BY <1>2 DEF TurnsOK
<1> QED BY <1>1, <1>3 DEF TurnsInv

\* A run is created: it is later than every turn.
LEMMA TurnsBeforeNewRun ==
    ASSUME IndexInv, UNCHANGED <<setting, turns>>,
           NEW rt, RuntimeOK(Hosts, rt), rt.runs = runtime.runs, NEW z \in Sessions,
           rt.rows[z] # NoRow, Count(rt) < MaxRuns, runtime' = CreateRun(rt, z)
    PROVE  TurnsInv'
<1> DEFINE k == Count(rt)
           run == [session |-> z, daemon |-> rt.owner[z], state |-> "active"]
           h == Hosts
<1>1. h \in [Sessions -> SUBSET Daemons] /\ RuntimeOK(h, runtime) /\ Hosts' = h
      /\ \A s \in Sessions : TurnsOK(h, runtime, s, turns[s])
  BY SettingTypes DEF IndexInv, CallTypes, TurnsInv, Hosts
<1> HIDE DEF h
<1>2. /\ k + 1 \in Runs /\ k \in Nat /\ runtime.runs[k + 1] = NoRun /\ Created(rt, k)
      /\ runtime'.runs = [runtime.runs EXCEPT ![k + 1] = run]
  BY <1>1, CreateKeepsOK, CountIsNumber DEF h
<1>3. run # NoRun
  <2>1. run.state = "active" /\ NoRun.state = "none"
    BY DEF NoRun
  <2> QED BY <2>1
<1> HIDE DEF k, run
<1>4. runtime'.runs[k + 1] = run /\ \A r \in Runs \ {k + 1} : runtime'.runs[r] = runtime.runs[r]
  BY <1>1, <1>2, RuntimeParts
<1> SUFFICES ASSUME NEW s \in Sessions PROVE TurnsOK(h, runtime', s, turns[s])
  BY <1>1 DEF TurnsInv
<1>5. /\ turns[s] \in Seq(Turns) /\ InTurn(h, s, turns[s])
      /\ \A i \in DOMAIN turns[s] :
            /\ turns[s][i] \in Runs => /\ runtime.runs[turns[s][i]] # NoRun
                                       /\ runtime.runs[turns[s][i]].state # "active"
            /\ \A r \in Runs :
                  /\ runtime.runs[r].state = "active" /\ One(h, s)
                  /\ runtime.runs[r].daemon \in h[s]
                  => turns[s][i] < r
  BY <1>1 DEF TurnsOK
<1>6. \A i \in DOMAIN turns[s] : turns[s][i] \in Turns
  BY <1>5
<1>7. \A i \in DOMAIN turns[s] : turns[s][i] < k + 1 /\ turns[s][i] # k + 1
  <2> SUFFICES ASSUME NEW i \in DOMAIN turns[s]
               PROVE  turns[s][i] < k + 1 /\ turns[s][i] # k + 1
    OBVIOUS
  <2> DEFINE x == turns[s][i]
  <2>1. x \in Turns /\ (x \in Runs => runtime.runs[x] # NoRun)
    BY <1>5, <1>6
  <2> HIDE DEF x
  <2>2. x \in Nat /\ (x = 0 \/ x \in Runs)
    BY <2>1, IndexAssumption DEF Turns, Runs
  <2>3. x \in Runs => x <= k
    BY <1>2, <2>1 DEF Created
  <2>4. x < k + 1 /\ x # k + 1
    BY <1>2, <2>2, <2>3
  <2> QED BY <2>4 DEF x
<1> QED BY <1>3, <1>4, <1>5, <1>7 DEF TurnsOK

LEMMA AppendFacts ==
    ASSUME NEW S, NEW q \in Seq(S), NEW x \in S
    PROVE  /\ Append(q, x) \in Seq(S) /\ Len(q) \in Nat /\ DOMAIN q = 1 .. Len(q)
           /\ DOMAIN Append(q, x) = 1 .. Len(q) + 1 /\ Append(q, x)[Len(q) + 1] = x
           /\ \A i \in DOMAIN q : Append(q, x)[i] = q[i]
<1> QED OBVIOUS

\* A run that was active is put after turns that are over.
LEMMA InTurnGrows ==
    ASSUME NEW h, NEW s, NEW q \in Seq(Turns), NEW r \in Turns, InTurn(h, s, q),
           \A i \in DOMAIN q : q[i] # r /\ (One(h, s) => q[i] < r)
    PROVE  Append(q, r) \in Seq(Turns) /\ InTurn(h, s, Append(q, r))
<1> DEFINE n == Len(q)
           p == Append(q, r)
<1>1. /\ p \in Seq(Turns) /\ n \in Nat /\ DOMAIN q = 1 .. n /\ DOMAIN p = 1 .. n + 1
      /\ p[n + 1] = r /\ \A i \in DOMAIN q : p[i] = q[i]
  BY AppendFacts
<1> HIDE DEF n, p
<1>2. \A i, j \in 1 .. n + 1 : i < j => i \in 1 .. n /\ (j \in 1 .. n \/ j = n + 1)
  BY <1>1
<1> SUFFICES ASSUME NEW i \in 1 .. n + 1, NEW j \in 1 .. n + 1, i < j
             PROVE  p[i] # p[j] /\ (One(h, s) => p[i] < p[j])
  BY <1>1 DEF InTurn, p
<1>3. i \in DOMAIN q /\ p[i] = q[i]
  BY <1>1, <1>2
<1>4. CASE j \in 1 .. n
  BY <1>1, <1>3, <1>4 DEF InTurn
<1>5. CASE j = n + 1
  BY <1>1, <1>3, <1>5
<1> QED BY <1>2, <1>4, <1>5

\* A run ends: if its prompt is a turn, it is later than the turns before and, on the
\* only daemon of a session, earlier than what is still under way.
LEMMA TurnsGrow ==
    ASSUME IndexInv, NEW r \in Runs, RunEnds(r)
    PROVE  TurnsInv' /\ turns' \in [Sessions -> Seq(Turns)]
<1> DEFINE z == runtime.runs[r].session
           h == Hosts
<1>1. /\ runtime.runs[r].state = "active" /\ runtime' = EndRun(runtime, r) /\ setting' = setting
      /\ (WasPrompted(r) /\ turns' = [turns EXCEPT ![z] = Append(@, r)]) \/ UNCHANGED turns
  BY DEF RunEnds
<1>2. RuntimeOK(h, runtime) /\ Hosts' = h /\ \A s \in Sessions : TurnsOK(h, runtime, s, turns[s])
  BY <1>1 DEF IndexInv, TurnsInv, Hosts
<1> HIDE DEF h
<1>3. z \in Sessions /\ runtime.runs[r].daemon \in h[z] /\ r \in Turns /\ r \in Nat
  BY <1>1, <1>2, HeldRuns, IndexAssumption DEF Runs, Turns
<1> HIDE DEF z
<1>4. /\ runtime'.runs[r] # NoRun /\ runtime'.runs[r].state = "ended"
      /\ \A q \in Runs \ {r} : runtime'.runs[q] = runtime.runs[q]
  BY <1>1, <1>2, EndKeepsOK
<1>5. /\ \A q \in Runs : runtime'.runs[q].state = "active" =>
                           runtime'.runs[q] = runtime.runs[q] /\ q # r
      /\ \A q \in Runs : runtime.runs[q] # NoRun => runtime'.runs[q] # NoRun
  BY <1>4
<1>6. CASE UNCHANGED turns
  <2>1. turns \in [Sessions -> Seq(Turns)]
    BY DEF IndexInv, CallTypes
  <2> QED BY <1>1, <1>5, <1>6, <2>1, TurnsStay
<1>7. CASE WasPrompted(r) /\ turns' = [turns EXCEPT ![z] = Append(@, r)]
  <2>1. turns \in [Sessions -> Seq(Turns)] /\ turns[z] \in Seq(Turns)
    BY <1>3 DEF IndexInv, CallTypes
  <2>2. turns'[z] = Append(turns[z], r) /\ \A s \in Sessions \ {z} : turns'[s] = turns[s]
    BY <1>3, <1>7, <2>1
  <2>3. \A s \in Sessions : TurnsOK(h, runtime', s, turns[s])
    <3> SUFFICES ASSUME NEW s \in Sessions PROVE TurnsOK(h, runtime', s, turns[s])
      OBVIOUS
    <3>1. TurnsOK(h, runtime, s, turns[s])
      BY <1>2
    <3> QED BY <1>5, <3>1 DEF TurnsOK
  <2> DEFINE n == Len(turns[z])
             p == Append(turns[z], r)
  <2>4. /\ p \in Seq(Turns) /\ n \in Nat /\ DOMAIN turns[z] = 1 .. n /\ DOMAIN p = 1 .. n + 1
        /\ p[n + 1] = r /\ \A i \in DOMAIN turns[z] : p[i] = turns[z][i]
    BY <1>3, <2>1, AppendFacts
  <2> HIDE DEF n
  <2>5. \A i \in DOMAIN turns[z] : turns[z][i] # r /\ (One(h, z) => turns[z][i] < r)
    <3>1. TurnsOK(h, runtime, z, turns[z])
      BY <1>2, <1>3
    <3> QED BY <1>1, <1>3, <3>1 DEF TurnsOK
  <2>6. InTurn(h, z, p)
    <3>1. InTurn(h, z, turns[z])
      BY <1>2, <1>3 DEF TurnsOK
    <3> QED BY <1>3, <2>1, <2>5, <3>1, InTurnGrows
  <2> HIDE DEF p
  <2>7. \A q \in Runs :
           runtime'.runs[q].state = "active" /\ One(h, z) /\ runtime'.runs[q].daemon \in h[z]
           => r < q
    <3> SUFFICES ASSUME NEW q \in Runs, runtime'.runs[q].state = "active", One(h, z),
                        runtime'.runs[q].daemon \in h[z]
                 PROVE  r < q
      OBVIOUS
    <3>1. q # r /\ runtime.runs[q] = runtime'.runs[q]
      BY <1>5
    <3>2. q \in Nat /\ (q < r => q \in 1 .. r - 1)
      BY <1>3 DEF Runs
    <3>3. runtime.runs[q].daemon = runtime.runs[r].daemon
      BY <1>3, <3>1 DEF One
    <3>4. q \notin 1 .. r - 1
      BY <1>7, <3>1, <3>3 DEF WasPrompted
    <3> QED BY <1>3, <3>1, <3>2, <3>4
  <2>8. TurnsOK(h, runtime', z, p)
    <3>1. ASSUME NEW i \in DOMAIN p
          PROVE  /\ p[i] \in Runs => /\ runtime'.runs[p[i]] # NoRun
                                     /\ runtime'.runs[p[i]].state # "active"
                 /\ \A q \in Runs :
                       /\ runtime'.runs[q].state = "active" /\ One(h, z)
                       /\ runtime'.runs[q].daemon \in h[z]
                       => p[i] < q
      <4>1. i \in 1 .. n \/ i = n + 1
        BY <2>4
      <4>2. CASE i \in 1 .. n
        <5>1. TurnsOK(h, runtime', z, turns[z]) /\ i \in DOMAIN turns[z] /\ p[i] = turns[z][i]
          BY <1>3, <2>3, <2>4, <4>2
        <5> QED BY <5>1 DEF TurnsOK
      <4>3. CASE i = n + 1
        <5>1. p[i] = r
          BY <2>4, <4>3
        <5> QED BY <1>4, <2>7, <5>1
      <4> QED BY <4>1, <4>2, <4>3
    <3> QED BY <2>4, <2>6, <3>1 DEF TurnsOK
  <2>9. turns' \in [Sessions -> Seq(Turns)]
    BY <1>7, <2>1, <2>4 DEF p
  <2>10. \A s \in Sessions : TurnsOK(h, runtime', s, turns'[s])
    BY <2>2, <2>3, <2>8 DEF p
  <2> QED BY <1>2, <2>9, <2>10 DEF TurnsInv
<1> QED BY <1>1, <1>6, <1>7

(***************************************************************************)
(* One step.                                                               *)
(***************************************************************************)

\* A step that leaves the runtime, the turns and the replays alone.
LEMMA QuietKeeps ==
    ASSUME IndexInv, UNCHANGED <<setting, turns, runtime, got>>, CallTypes', TargetInv'
    PROVE  IndexInv'
<1>1. Hosts' = Hosts /\ SessionOf' = SessionOf
  BY DEF Hosts, SessionOf
<1>2. TurnsInv'
  BY TurnsStay
<1> QED BY <1>1, <1>2 DEF IndexInv, ReplaysInOrder

LEMMA OutsideKeeps ==
    ASSUME IndexInv,
           \/ \E s \in Sessions : Vanish(s) \/ \E d \in Daemons : CreateAnswered(s, d)
           \/ \E d \in Daemons : Disconnect(d) \/ Reconnect(d)
    PROVE  IndexInv'
<1>1. UNCHANGED <<setting, turns, runtime, got, phase, listVars, loadVars, created>>
  BY DEF CreateAnswered, Vanish, Disconnect, Reconnect, loadVars
<1>2. Hosts' = Hosts /\ SessionOf' = SessionOf
  BY <1>1 DEF Hosts, SessionOf
<1>3. /\ remote' \subseteq Sessions /\ connected' \subseteq Daemons
      /\ creating' \subseteq Pairs(Hosts)
  BY DEF CreateAnswered, Vanish, Disconnect, Reconnect, IndexInv, CallTypes, Pairs
<1>4. CallTypes'
  BY <1>1, <1>2, <1>3 DEF IndexInv, CallTypes, listVars, loadVars
<1>5. TargetInv'
  BY <1>1, <1>2 DEF IndexInv, TargetInv, loadVars
<1> QED BY <1>1, <1>4, <1>5, QuietKeeps

\* The steps of a call that only change its own locals.
Asks(c) ==
    \/ BeginListing(c) \/ ListReturns(c) \/ SearchFails(c) \/ SyncFails(c)
    \/ \E d \in Daemons : AskNext(c, d) \/ FirstPage(c, d) \/ LastPage(c, d) \/ ListFails(c, d)

LEMMA ForgetTypes ==
    ASSUME CallTypes, NEW c \in Calls, ForgetList(c)
    PROVE  /\ left' \in [Calls -> SUBSET Daemons] /\ asked' \in [Calls -> SUBSET Daemons]
           /\ paging' \in [Calls -> SUBSET Daemons] /\ answered' \in [Calls -> SUBSET Daemons]
           /\ items' \in [Calls -> SUBSET Pairs(Hosts)]
           /\ expect' \in [Calls -> SUBSET Pairs(Hosts)]
<1> DEFINE P == Pairs(Hosts)
<1>1. items \in [Calls -> SUBSET P] /\ expect \in [Calls -> SUBSET P]
  BY DEF CallTypes
<1> HIDE DEF P
<1>2. items' \in [Calls -> SUBSET P] /\ expect' \in [Calls -> SUBSET P]
  BY <1>1 DEF ForgetList
<1> QED BY <1>2 DEF ForgetList, CallTypes, P

\* The locals that change keep their types, for the same setting.
LEMMA LocalsKeepTypes ==
    ASSUME CallTypes, UNCHANGED <<remoteVars, got>>, phase' \in [Calls -> Phases],
           left' \in [Calls -> SUBSET Daemons], asked' \in [Calls -> SUBSET Daemons],
           paging' \in [Calls -> SUBSET Daemons], answered' \in [Calls -> SUBSET Daemons],
           items' \in [Calls -> SUBSET Pairs(Hosts)], expect' \in [Calls -> SUBSET Pairs(Hosts)],
           target' \in [Calls -> Daemons \union {NoRow}]
    PROVE  CallTypes'
<1>1. Hosts' = Hosts
  BY DEF Hosts, remoteVars
<1> QED BY <1>1 DEF CallTypes, remoteVars

LEMMA AsksTypes ==
    ASSUME CallTypes, NEW c \in Calls, Asks(c)
    PROVE  CallTypes'
<1> DEFINE P == Pairs(Hosts)
<1>1. /\ phase \in [Calls -> Phases] /\ left \in [Calls -> SUBSET Daemons]
      /\ asked \in [Calls -> SUBSET Daemons] /\ paging \in [Calls -> SUBSET Daemons]
      /\ answered \in [Calls -> SUBSET Daemons] /\ connected \subseteq Daemons
      /\ target \in [Calls -> Daemons \union {NoRow}]
      /\ items \in [Calls -> SUBSET P] /\ expect \in [Calls -> SUBSET P]
  BY DEF CallTypes
<1>2. \A d \in Daemons : {d} \X Of(d) \subseteq P
  BY DEF CallTypes, Of, Pairs
<1>3. UNCHANGED <<remoteVars, got>>
  BY DEF Asks, BeginListing, ListReturns, SearchFails, SyncFails, AskNext, FirstPage, LastPage,
         ListFails, loadVars
<1>4. phase' \in [Calls -> Phases]
  <2>1. phase' = phase \/ \E x \in Phases : phase' = [phase EXCEPT ![c] = x]
    BY DEF Asks, BeginListing, ListReturns, SearchFails, SyncFails, AskNext, FirstPage, LastPage,
           ListFails, Phases
  <2> QED BY <1>1, <2>1
<1>5. target' \in [Calls -> Daemons \union {NoRow}]
  <2>1. target' = target \/ target' = [target EXCEPT ![c] = NoRow]
    BY DEF Asks, BeginListing, ListReturns, SearchFails, SyncFails, AskNext, FirstPage, LastPage,
           ListFails, loadVars
  <2> QED BY <1>1, <2>1
<1> HIDE DEF P
<1>6. CASE ListReturns(c) \/ SearchFails(c)
  <2>1. ForgetList(c)
    BY <1>6 DEF ListReturns, SearchFails
  <2> QED BY <1>3, <1>4, <1>5, <2>1, ForgetTypes, LocalsKeepTypes
<1>7. CASE ~(ListReturns(c) \/ SearchFails(c))
  <2>1. /\ left' \in [Calls -> SUBSET Daemons] /\ asked' \in [Calls -> SUBSET Daemons]
        /\ paging' \in [Calls -> SUBSET Daemons] /\ answered' \in [Calls -> SUBSET Daemons]
    <3>1. CASE BeginListing(c)
      BY <1>1, <3>1 DEF BeginListing
    <3>2. CASE SyncFails(c)
      BY <1>1, <3>2 DEF SyncFails, listVars
    <3>3. ASSUME NEW d \in Daemons, AskNext(c, d) \/ ListFails(c, d)
          PROVE  /\ left' \in [Calls -> SUBSET Daemons] /\ asked' \in [Calls -> SUBSET Daemons]
                 /\ paging' \in [Calls -> SUBSET Daemons]
                 /\ answered' \in [Calls -> SUBSET Daemons]
      BY <1>1, <3>3 DEF AskNext, ListFails
    <3>4. ASSUME NEW d \in Daemons, FirstPage(c, d) \/ LastPage(c, d)
          PROVE  /\ left' \in [Calls -> SUBSET Daemons] /\ asked' \in [Calls -> SUBSET Daemons]
                 /\ paging' \in [Calls -> SUBSET Daemons]
                 /\ answered' \in [Calls -> SUBSET Daemons]
      BY <1>1, <3>4 DEF FirstPage, LastPage
    <3> QED BY <1>7, <3>1, <3>2, <3>3, <3>4 DEF Asks
  <2>2. items' \in [Calls -> SUBSET P] /\ expect' \in [Calls -> SUBSET P]
    <3>1. CASE BeginListing(c) \/ SyncFails(c)
      BY <1>1, <3>1 DEF BeginListing, SyncFails, listVars
    <3>2. ASSUME NEW d \in Daemons, AskNext(c, d) \/ ListFails(c, d)
          PROVE  items' \in [Calls -> SUBSET P] /\ expect' \in [Calls -> SUBSET P]
      BY <1>1, <3>2 DEF AskNext, ListFails
    <3>3. ASSUME NEW d \in Daemons, FirstPage(c, d)
          PROVE  items' \in [Calls -> SUBSET P] /\ expect' \in [Calls -> SUBSET P]
      <4>1. PICK page \in SUBSET Of(d) :
              /\ items' = [items EXCEPT ![c] = @ \union ({d} \X page)]
              /\ expect' = [expect EXCEPT ![c] = @ \union ({d} \X Of(d))] \/ UNCHANGED expect
        BY <3>3 DEF FirstPage
      <4> DEFINE have == {d} \X Of(d)
                 part == {d} \X page
      <4>2. have \subseteq P /\ part \subseteq P
        BY <1>2, <4>1
      <4> HIDE DEF have, part
      <4>3. /\ items' = [items EXCEPT ![c] = @ \union part]
            /\ expect' = [expect EXCEPT ![c] = @ \union have] \/ expect' = expect
        BY <4>1 DEF have, part
      <4> QED BY <1>1, <4>2, <4>3
    <3>4. ASSUME NEW d \in Daemons, LastPage(c, d)
          PROVE  items' \in [Calls -> SUBSET P] /\ expect' \in [Calls -> SUBSET P]
      <4> DEFINE rest == expect[c] \intersect ({d} \X Of(d))
      <4>1. rest \subseteq P /\ items' = [items EXCEPT ![c] = @ \union rest] /\ expect' = expect
        BY <1>1, <3>4 DEF LastPage
      <4> HIDE DEF rest
      <4> QED BY <1>1, <4>1
    <3> QED BY <1>7, <3>1, <3>2, <3>3, <3>4 DEF Asks
  <2> QED BY <1>3, <1>4, <1>5, <2>1, <2>2, LocalsKeepTypes DEF P
<1> QED BY <1>6, <1>7

LEMMA AsksKeeps ==
    ASSUME IndexInv, NEW c \in Calls, Asks(c)
    PROVE  IndexInv'
<1>1. UNCHANGED <<setting, turns, runtime, got>>
  BY DEF Asks, BeginListing, ListReturns, SearchFails, SyncFails, AskNext, FirstPage, LastPage,
         ListFails, remoteVars, loadVars
<1>2. CallTypes'
  BY AsksTypes DEF IndexInv
<1>3. SessionOf' = SessionOf /\ Hosts' = Hosts
  BY <1>1 DEF SessionOf, Hosts
<1>4. phase \in [Calls -> Phases] /\ target \in [Calls -> Daemons \union {NoRow}]
  BY DEF IndexInv, CallTypes
<1>5. \/ phase' = phase /\ target' = target
      \/ /\ target' = target \/ target' = [target EXCEPT ![c] = NoRow]
         /\ \E x \in {"listing", "done", "failed"} : phase' = [phase EXCEPT ![c] = x]
  BY DEF Asks, BeginListing, ListReturns, SearchFails, SyncFails, AskNext, FirstPage, LastPage,
         ListFails, remoteVars, loadVars
<1>6. TargetInv'
  BY <1>3, <1>4, <1>5 DEF IndexInv, TargetInv
<1> QED BY <1>1, <1>2, <1>6, QuietKeeps

\* A step of a call that changes the runtime and keeps the runs.
LEMMA RuntimeKeeps ==
    ASSUME IndexInv, UNCHANGED <<setting, turns>>, RuntimeOK(Hosts, runtime'),
           runtime'.runs = runtime.runs, CallTypes', ReplaysInOrder', TargetInv'
    PROVE  IndexInv'
<1>1. Hosts' = Hosts
  BY DEF Hosts
<1>2. TurnsInv'
  BY TurnsStay
<1> QED BY <1>1, <1>2 DEF IndexInv

LEMMA CreateReturnsKeeps ==
    ASSUME IndexInv, NEW s \in Sessions, NEW d \in Daemons, CreateReturns(s, d)
    PROVE  IndexInv'
<1>1. /\ UNCHANGED <<setting, remote, turns, connected, phase, listVars, loadVars>>
      /\ creating' \subseteq creating /\ created' = created \union {s}
      /\ runtime' = UpsertSession(runtime, s, d) /\ <<d, s>> \in creating
  BY DEF CreateReturns
<1>2. Hosts' = Hosts /\ SessionOf' = SessionOf /\ Hosts \in [Sessions -> SUBSET Daemons]
  BY <1>1, SettingTypes DEF Hosts, SessionOf, IndexInv, CallTypes
<1>3. d \in Hosts[s]
  BY <1>1 DEF IndexInv, CallTypes, Pairs
<1>4. RuntimeOK(Hosts, runtime') /\ runtime'.runs = runtime.runs
  BY <1>1, <1>2, <1>3, UpsertKeepsOK DEF IndexInv
<1>5. CallTypes'
  BY <1>1, <1>2 DEF IndexInv, CallTypes, listVars, loadVars
<1>6. ReplaysInOrder' /\ TargetInv'
  BY <1>1, <1>2 DEF IndexInv, ReplaysInOrder, TargetInv, loadVars
<1> QED BY <1>1, <1>4, <1>5, <1>6, RuntimeKeeps

\* A call has found its session in what the index is then.
LEMMA ResolvedKeeps ==
    ASSUME IndexInv, NEW c \in Calls, NEW rt, RuntimeOK(Hosts, rt), rt.runs = runtime.runs,
           rt.rows[SessionOf[c]] # NoRow, Resolved(c, rt), UNCHANGED <<setting, turns>>
    PROVE  /\ RuntimeOK(Hosts, runtime') /\ TurnsInv' /\ TargetInv'
           /\ phase' \in [Calls -> Phases] /\ target' \in [Calls -> Daemons \union {NoRow}]
<1>1. /\ SessionOf[c] \in Sessions /\ Hosts' = Hosts /\ SessionOf' = SessionOf
      /\ Hosts \in [Sessions -> SUBSET Daemons]
  BY SettingTypes DEF IndexInv, CallTypes, Hosts, SessionOf
<1>2. phase \in [Calls -> Phases] /\ target \in [Calls -> Daemons \union {NoRow}]
  BY DEF IndexInv, CallTypes
<1>3. rt.owner[SessionOf[c]] \in Hosts[SessionOf[c]] /\ rt.owner[SessionOf[c]] \in Daemons
  <2>1. rt.owner[SessionOf[c]] \in Hosts[SessionOf[c]]
    BY <1>1 DEF RuntimeOK, Placed
  <2> QED BY <1>1, <2>1
<1>4. CASE Kind[c] = "load"
  <2>1. /\ runtime' = rt /\ phase' = [phase EXCEPT ![c] = "syncing"]
        /\ target' = [target EXCEPT ![c] = rt.owner[SessionOf[c]]]
    BY <1>4 DEF Resolved
  <2>2. phase' \in [Calls -> Phases] /\ target' \in [Calls -> Daemons \union {NoRow}]
    BY <1>2, <1>3, <2>1 DEF Phases
  <2>3. TurnsInv'
    BY <2>1, TurnsStay
  <2>4. TargetInv'
    BY <1>1, <1>2, <1>3, <2>1 DEF IndexInv, TargetInv
  <2> QED BY <2>1, <2>2, <2>3, <2>4
<1>5. CASE Kind[c] # "load"
  <2>1. /\ Count(rt) < MaxRuns /\ runtime' = CreateRun(rt, SessionOf[c])
        /\ phase' = [phase EXCEPT ![c] = "done"] /\ target' = target
    BY <1>5 DEF Resolved
  <2>2. RuntimeOK(Hosts, runtime')
    BY <1>1, <2>1, CreateKeepsOK
  <2>3. TurnsInv'
    BY <1>1, <2>1, TurnsBeforeNewRun
  <2>4. phase' \in [Calls -> Phases] /\ TargetInv'
    BY <1>1, <1>2, <2>1 DEF IndexInv, TargetInv, Phases
  <2> QED BY <1>2, <2>1, <2>2, <2>3, <2>4
<1> QED BY <1>4, <1>5

LEMMA BeginResolvedKeeps ==
    ASSUME IndexInv, NEW c \in Calls, BeginResolved(c)
    PROVE  IndexInv'
<1>1. /\ runtime.rows[SessionOf[c]] # NoRow /\ Resolved(c, runtime)
      /\ UNCHANGED <<remoteVars, listVars, got>>
  BY DEF BeginResolved, HasGoodRow
<1>2. /\ UNCHANGED <<setting, turns>> /\ RuntimeOK(Hosts, runtime)
      /\ Hosts' = Hosts /\ SessionOf' = SessionOf
  BY <1>1 DEF remoteVars, IndexInv, Hosts, SessionOf
<1>3. /\ RuntimeOK(Hosts, runtime') /\ TurnsInv' /\ TargetInv'
      /\ phase' \in [Calls -> Phases] /\ target' \in [Calls -> Daemons \union {NoRow}]
  BY <1>1, <1>2, ResolvedKeeps
<1>4. CallTypes'
  BY <1>1, <1>3, LocalsKeepTypes DEF IndexInv, CallTypes, listVars
<1> QED BY <1>1, <1>2, <1>3, <1>4 DEF IndexInv, ReplaysInOrder

\* What a daemon has listed are sessions of its agent.
LEMMA ListedFacts ==
    ASSUME CallTypes, NEW c \in Calls, NEW d \in Daemons
    PROVE  Listed(c, d) \in SUBSET Sessions /\ \A s \in Listed(c, d) : d \in Hosts[s]
BY DEF CallTypes, Listed, Pairs

LEMMA ListAppliedKeeps ==
    ASSUME IndexInv, NEW c \in Calls, NEW d \in Daemons, ListApplied(c, d)
    PROVE  IndexInv'
<1>1. /\ runtime' = Replace(runtime, d, Listed(c, d))
      /\ answered' = [answered EXCEPT ![c] = @ \ {d}]
      /\ UNCHANGED <<remoteVars, phase, left, asked, paging, items, expect, target, got>>
  BY DEF ListApplied, loadVars
<1>2. Hosts' = Hosts /\ SessionOf' = SessionOf /\ Hosts \in [Sessions -> SUBSET Daemons]
  BY <1>1, SettingTypes DEF Hosts, SessionOf, remoteVars, IndexInv, CallTypes
<1>3. Listed(c, d) \in SUBSET Sessions /\ \A s \in Listed(c, d) : d \in Hosts[s]
  BY ListedFacts DEF IndexInv
<1>4. RuntimeOK(Hosts, runtime') /\ runtime'.runs = runtime.runs
  BY <1>1, <1>2, <1>3, ReplaceKeepsOK DEF IndexInv
<1>5. answered' \in [Calls -> SUBSET Daemons]
  BY <1>1 DEF IndexInv, CallTypes
<1>6. CallTypes'
  BY <1>1, <1>5, LocalsKeepTypes DEF IndexInv, CallTypes
<1>7. ReplaysInOrder' /\ TargetInv'
  BY <1>1, <1>2 DEF IndexInv, ReplaysInOrder, TargetInv
<1> QED BY <1>1, <1>4, <1>6, <1>7, RuntimeKeeps DEF remoteVars

LEMMA SearchGoesOnKeeps ==
    ASSUME IndexInv, NEW c \in Calls, NEW d \in Daemons, SearchGoesOn(c, d)
    PROVE  IndexInv'
<1> DEFINE found == Listed(c, d)
           listed == Replace(runtime, d, found)
<1>1. UNCHANGED <<remoteVars, got, setting, turns>>
  BY DEF SearchGoesOn, remoteVars
<1>2. Hosts' = Hosts /\ SessionOf' = SessionOf /\ Hosts \in [Sessions -> SUBSET Daemons]
  BY <1>1, SettingTypes DEF Hosts, SessionOf, IndexInv, CallTypes
<1>3. found \in SUBSET Sessions /\ \A s \in found : d \in Hosts[s]
  BY ListedFacts DEF IndexInv
<1>4. /\ SessionOf[c] \in found => Resolved(c, listed) /\ ForgetList(c)
      /\ SessionOf[c] \notin found => /\ runtime' = listed
                                      /\ answered' = [answered EXCEPT ![c] = {}]
                                      /\ UNCHANGED <<phase, target, left, asked, paging, items,
                                                     expect>>
  BY DEF SearchGoesOn
<1> HIDE DEF found
<1>5. /\ RuntimeOK(Hosts, listed) /\ listed.runs = runtime.runs
      /\ \A s \in found : listed.rows[s] # NoRow
  BY <1>2, <1>3, ReplaceKeepsOK DEF IndexInv
<1> HIDE DEF listed
<1>6. CASE SessionOf[c] \in found
  <2>1. Resolved(c, listed) /\ ForgetList(c)
    BY <1>4, <1>6
  <2>2. /\ RuntimeOK(Hosts, runtime') /\ TurnsInv' /\ TargetInv'
        /\ phase' \in [Calls -> Phases] /\ target' \in [Calls -> Daemons \union {NoRow}]
    BY <1>1, <1>5, <1>6, <2>1, ResolvedKeeps
  <2>3. CallTypes'
    BY <1>1, <2>1, <2>2, ForgetTypes, LocalsKeepTypes DEF IndexInv
  <2> QED BY <1>1, <1>2, <2>2, <2>3 DEF IndexInv, ReplaysInOrder
<1>7. CASE SessionOf[c] \notin found
  <2>1. /\ runtime' = listed /\ answered' = [answered EXCEPT ![c] = {}]
        /\ UNCHANGED <<phase, target, left, asked, paging, items, expect>>
    BY <1>4, <1>7
  <2>2. answered' \in [Calls -> SUBSET Daemons]
    BY <2>1 DEF IndexInv, CallTypes
  <2>3. CallTypes'
    BY <1>1, <2>1, <2>2, LocalsKeepTypes DEF IndexInv, CallTypes
  <2>4. ReplaysInOrder' /\ TargetInv'
    BY <1>1, <1>2, <2>1 DEF IndexInv, ReplaysInOrder, TargetInv
  <2> QED BY <1>1, <1>5, <2>1, <2>3, <2>4, RuntimeKeeps
<1> QED BY <1>6, <1>7

\* The start of a sequence in order is in order.
LEMMA PrefixInTurn ==
    ASSUME NEW h, NEW s, NEW q \in Seq(Turns), InTurn(h, s, q), NEW k \in 0 .. Len(q)
    PROVE  SubSeq(q, 1, k) \in Seq(Turns) /\ InTurn(h, s, SubSeq(q, 1, k))
<1>1. k \in Nat /\ Len(q) \in Nat /\ k <= Len(q) /\ DOMAIN q = 1 .. Len(q)
  OBVIOUS
<1>2. /\ SubSeq(q, 1, k) \in Seq(Turns) /\ DOMAIN SubSeq(q, 1, k) = 1 .. k
      /\ \A i \in 1 .. k : SubSeq(q, 1, k)[i] = q[i]
  BY <1>1
<1>3. \A i \in 1 .. k : i \in DOMAIN q
  BY <1>1
<1> QED BY <1>2, <1>3 DEF InTurn

LEMMA SyncAnsweredKeeps ==
    ASSUME IndexInv, NEW c \in Calls, SyncAnswered(c)
    PROVE  IndexInv'
<1> DEFINE s == SessionOf[c]
           h == Hosts
<1>1. /\ phase[c] = "syncing"
      /\ UNCHANGED <<remoteVars, setting, turns, runtime, listVars, target>>
      /\ phase' = [phase EXCEPT ![c] = "synced"]
  BY DEF SyncAnswered, remoteVars
<1>2. PICK replay :
         /\ got' = [got EXCEPT ![c] = replay]
         /\ \/ \E k \in 0 .. Len(turns[s]) : replay = SubSeq(turns[s], 1, k)
            \/ \E r \in UnderwayElsewhere(s, target[c]) : replay = Append(turns[s], r)
  BY DEF SyncAnswered
<1>3. /\ s \in Sessions /\ h \in [Sessions -> SUBSET Daemons] /\ Hosts' = h
      /\ SessionOf' = SessionOf /\ RuntimeOK(h, runtime)
  BY <1>1, SettingTypes DEF IndexInv, CallTypes, Hosts, SessionOf
<1>4. target[c] \in h[s] /\ TurnsOK(h, runtime, s, turns[s])
  BY <1>1, <1>3 DEF IndexInv, TargetInv, TurnsInv
<1> HIDE DEF h, s
<1>5. turns[s] \in Seq(Turns) /\ InTurn(h, s, turns[s])
  BY <1>4 DEF TurnsOK
<1>6. ASSUME NEW k \in 0 .. Len(turns[s]), replay = SubSeq(turns[s], 1, k)
      PROVE  replay \in Seq(Turns) /\ InTurn(h, s, replay)
  BY <1>5, <1>6, PrefixInTurn
<1>7. ASSUME NEW r \in UnderwayElsewhere(s, target[c]), replay = Append(turns[s], r)
      PROVE  replay \in Seq(Turns) /\ InTurn(h, s, replay)
  <2>1. /\ r \in Runs /\ runtime.runs[r].state = "active" /\ runtime.runs[r].session = s
        /\ runtime.runs[r].daemon # target[c]
    BY <1>7 DEF UnderwayElsewhere
  <2>2. runtime.runs[r].daemon \in h[s] /\ r \in Turns
    BY <1>3, <2>1, HeldRuns, IndexAssumption DEF Runs, Turns
  <2>3. ~One(h, s)
    BY <1>4, <2>1, <2>2 DEF One
  <2>4. \A i \in DOMAIN turns[s] : turns[s][i] # r
    BY <1>4, <2>1 DEF TurnsOK
  <2> QED BY <1>5, <1>7, <2>2, <2>3, <2>4, InTurnGrows
<1>8. replay \in Seq(Turns) /\ InTurn(h, s, replay)
  BY <1>2, <1>6, <1>7 DEF s
<1>9. got' \in [Calls -> Seq(Turns)] /\ ReplaysInOrder'
  <2>1. /\ got \in [Calls -> Seq(Turns)] /\ \A x \in Calls : InTurn(h, SessionOf[x], got[x])
    BY DEF IndexInv, CallTypes, ReplaysInOrder, h
  <2>2. \A x \in Calls : got'[x] = IF x = c THEN replay ELSE got[x]
    BY <1>2, <2>1
  <2>3. \A x \in Calls : got'[x] \in Seq(Turns) /\ InTurn(h, SessionOf[x], got'[x])
    BY <1>8, <2>1, <2>2 DEF s
  <2> QED BY <1>2, <1>3, <1>8, <2>1, <2>3 DEF ReplaysInOrder
<1>10. CallTypes'
  BY <1>1, <1>3, <1>9 DEF IndexInv, CallTypes, remoteVars, listVars, Phases, h
<1>11. TargetInv'
  <2>1. phase \in [Calls -> Phases]
    BY DEF IndexInv, CallTypes
  <2> QED BY <1>1, <1>3, <2>1 DEF IndexInv, TargetInv, h
<1> QED BY <1>1, <1>3, <1>9, <1>10, <1>11, RuntimeKeeps DEF h

LEMMA LoadReturnsKeeps ==
    ASSUME IndexInv, NEW c \in Calls, LoadReturns(c)
    PROVE  IndexInv'
<1> DEFINE s == SessionOf[c]
           h == Hosts
           mid == UpsertSession(runtime, s, target[c])
<1>1. /\ phase[c] = "synced" /\ UNCHANGED <<remoteVars, setting, turns, listVars>>
      /\ runtime' = CacheTranscript(mid, s, got[c])
      /\ phase' = [phase EXCEPT ![c] = "done"] /\ target' = [target EXCEPT ![c] = NoRow]
      /\ got' = [got EXCEPT ![c] = <<>>]
  BY DEF LoadReturns, remoteVars
<1>2. /\ s \in Sessions /\ h \in [Sessions -> SUBSET Daemons] /\ Hosts' = h
      /\ SessionOf' = SessionOf /\ RuntimeOK(h, runtime)
  BY <1>1, SettingTypes DEF IndexInv, CallTypes, Hosts, SessionOf
<1>3. target[c] \in h[s] /\ got[c] \in Seq(Turns) /\ InTurn(h, s, got[c])
  BY <1>1 DEF IndexInv, TargetInv, ReplaysInOrder
<1> HIDE DEF h, s
<1>4. RuntimeOK(h, mid) /\ mid.runs = runtime.runs /\ mid.rows[s] # NoRow
  BY <1>2, <1>3, UpsertKeepsOK
<1> HIDE DEF mid
<1>5. RuntimeOK(h, runtime') /\ runtime'.runs = runtime.runs
  BY <1>1, <1>2, <1>3, <1>4, CacheKeepsOK
<1>6. phase \in [Calls -> Phases] /\ target \in [Calls -> Daemons \union {NoRow}]
      /\ got \in [Calls -> Seq(Turns)]
  BY DEF IndexInv, CallTypes
<1>7. <<>> \in Seq(Turns) /\ \A x : InTurn(h, x, <<>>)
  BY DEF InTurn
<1>8. got' \in [Calls -> Seq(Turns)] /\ ReplaysInOrder'
  BY <1>1, <1>2, <1>6, <1>7 DEF IndexInv, ReplaysInOrder, h
<1>9. phase' \in [Calls -> Phases] /\ target' \in [Calls -> Daemons \union {NoRow}]
  BY <1>1, <1>6 DEF Phases
<1>10. CallTypes'
  BY <1>1, <1>2, <1>8, <1>9 DEF IndexInv, CallTypes, remoteVars, listVars, h
<1>11. TargetInv'
  BY <1>1, <1>2, <1>6 DEF IndexInv, TargetInv, h
<1> QED BY <1>1, <1>5, <1>8, <1>10, <1>11, RuntimeKeeps DEF h

LEMMA RunEndsKeeps ==
    ASSUME IndexInv, NEW r \in Runs, RunEnds(r)
    PROVE  IndexInv'
<1>1. /\ UNCHANGED <<setting, remote, connected, creating, created, phase, listVars, target, got>>
      /\ Hosts' = Hosts /\ SessionOf' = SessionOf
  BY DEF RunEnds, loadVars, Hosts, SessionOf
<1>2. RuntimeOK(Hosts, runtime')
  BY EndKeepsOK DEF RunEnds, IndexInv
<1>3. TurnsInv' /\ turns' \in [Sessions -> Seq(Turns)]
  BY TurnsGrow
<1>4. CallTypes'
  BY <1>1, <1>3 DEF IndexInv, CallTypes, listVars
<1> QED BY <1>1, <1>2, <1>3, <1>4 DEF IndexInv, ReplaysInOrder, TargetInv

LEMMA CleanupKeeps ==
    ASSUME IndexInv, Cleanup
    PROVE  IndexInv'
<1>1. PICK expired \in SUBSET {r \in Runs : runtime.runs[r].state = "ended"},
           old \in SUBSET {s \in Sessions : runtime.cached[s] # NoCache} :
           runtime' = CleanUp(runtime, expired, old)
  BY DEF Cleanup
<1>2. /\ UNCHANGED <<remoteVars, setting, turns, phase, listVars, target, got>>
      /\ Hosts' = Hosts /\ SessionOf' = SessionOf
  BY DEF Cleanup, loadVars, remoteVars, Hosts, SessionOf
<1>3. old \in SUBSET Sessions /\ RuntimeOK(Hosts, runtime)
  BY DEF IndexInv
<1>4. /\ RuntimeOK(Hosts, runtime')
      /\ \A r \in Runs : /\ runtime.runs[r] # NoRun => runtime'.runs[r] # NoRun
                         /\ runtime'.runs[r].state = "active" => runtime'.runs[r] = runtime.runs[r]
  BY <1>1, <1>3, CleanUpKeepsOK
<1>5. TurnsInv'
  BY <1>2, <1>4, TurnsStay
<1>6. CallTypes'
  BY <1>2 DEF IndexInv, CallTypes, remoteVars, listVars
<1> QED BY <1>2, <1>4, <1>5, <1>6 DEF IndexInv, ReplaysInOrder, TargetInv

LEMMA StutterKeeps == ASSUME IndexInv, UNCHANGED vars PROVE IndexInv'
<1>1. UNCHANGED <<setting, turns, runtime, got>> /\ Hosts' = Hosts /\ SessionOf' = SessionOf
  BY DEF vars, remoteVars, loadVars, Hosts, SessionOf
<1>2. CallTypes' /\ TargetInv'
  BY <1>1 DEF IndexInv, CallTypes, TargetInv, vars, remoteVars, listVars, loadVars
<1> QED BY <1>1, <1>2, QuietKeeps

LEMMA StepKeeps == IndexInv /\ [Next]_vars => IndexInv'
<1> SUFFICES ASSUME IndexInv, [Next]_vars PROVE IndexInv'
  OBVIOUS
<1>1. ASSUME NEW c \in Calls, Asks(c) \/ BeginResolved(c) \/ SyncAnswered(c) \/ LoadReturns(c)
      PROVE  IndexInv'
  <2>1. CASE Asks(c)
    BY <2>1, AsksKeeps
  <2>2. CASE BeginResolved(c)
    BY <2>2, BeginResolvedKeeps
  <2>3. CASE SyncAnswered(c)
    BY <2>3, SyncAnsweredKeeps
  <2>4. CASE LoadReturns(c)
    BY <2>4, LoadReturnsKeeps
  <2> QED BY <1>1, <2>1, <2>2, <2>3, <2>4
<1>2. ASSUME NEW c \in Calls, NEW d \in Daemons, ListApplied(c, d) \/ SearchGoesOn(c, d)
      PROVE  IndexInv'
  BY <1>2, ListAppliedKeeps, SearchGoesOnKeeps
<1>3. ASSUME NEW s \in Sessions, NEW d \in Daemons, CreateAnswered(s, d) \/ CreateReturns(s, d)
      PROVE  IndexInv'
  BY <1>3, OutsideKeeps, CreateReturnsKeeps
<1>4. CASE \/ \E s \in Sessions : Vanish(s)
           \/ \E d \in Daemons : Disconnect(d) \/ Reconnect(d)
  BY <1>4, OutsideKeeps
<1> QED BY <1>1, <1>2, <1>3, <1>4, RunEndsKeeps, CleanupKeeps, StutterKeeps DEF Next, Asks

\* The index, the cached replays, the runs and the agents' turns stay together as
\* IndexInv says, for any sessions, daemons, calls and runs, and whichever daemons
\* list the same sessions.
THEOREM InductiveInvariant == Spec => []IndexInv
BY InitInv, StepKeeps, PTL DEF Spec

\* Whatever lists are applied, however late, and whichever daemons list the same
\* session: every session of which a run is held or a transcript is cached has a row
\* (replace_daemon_sessions spares the one and takes the other with the row), and
\* each row is one of a daemon whose agent lists the session.
THEOREM IndexAgrees == Spec => []IndexOK
<1>1. IndexInv => IndexOK
  <2> SUFFICES ASSUME IndexInv PROVE IndexOK
    OBVIOUS
  <2>1. RuntimeOK(Hosts, runtime)
    BY DEF IndexInv
  <2>2. /\ runtime.rows \in [Sessions -> {"idle", "active", NoRow}]
        /\ runtime.owner \in [Sessions -> Daemons \union {NoRow}]
        /\ runtime.indexed \in [Daemons -> SUBSET Sessions]
        /\ \A s \in Sessions : runtime.cached[s] = NoCache \/ runtime.cached[s] \in Seq(Turns)
    BY <2>1, RuntimeParts
  <2>3. \A f \in {left, asked, paging, answered} : f \in [Calls -> SUBSET Daemons]
    BY DEF IndexInv, CallTypes
  <2>4. \A f \in {items, expect} : f \in [Calls -> SUBSET (Daemons \X Sessions)]
    <3> DEFINE P == Pairs(Hosts)
               Q == Daemons \X Sessions
    <3>1. P \subseteq Q /\ items \in [Calls -> SUBSET P] /\ expect \in [Calls -> SUBSET P]
      BY DEF IndexInv, CallTypes, Pairs
    <3> HIDE DEF P, Q
    <3>2. items \in [Calls -> SUBSET Q] /\ expect \in [Calls -> SUBSET Q]
      BY <3>1
    <3> QED BY <3>2 DEF Q
  <2>5. creating \subseteq Daemons \X Sessions
    BY DEF IndexInv, CallTypes, Pairs
  <2>6. IndexTypeOK
    BY <2>2, <2>3, <2>4, <2>5 DEF IndexTypeOK, IndexInv, CallTypes, Phases
  <2>7. KeptHasRow
    BY <2>1 DEF KeptHasRow, RuntimeOK
  <2>8. OwnerListsIt
    BY <2>1 DEF OwnerListsIt, RuntimeOK, Placed
  <2> QED BY <2>6, <2>7, <2>8 DEF IndexOK
<1> QED BY <1>1, InductiveInvariant, PTL

LEMMA EmptyConcat ==
    ASSUME NEW S, NEW q \in Seq(S)
    PROVE  q \o <<>> = q /\ <<>> \o q = q
<1> QED OBVIOUS

\* build_session_transcript shows no turn twice, and none out of order in a session
\* that one daemon lists: a replay is cached only beside no run, and an agent holds
\* its turns in the order of the prompts.
THEOREM TurnsAreShownOnce == Spec => []EachTurnShownOnce
<1>1. IndexInv => EachTurnShownOnce
  <2> SUFFICES ASSUME IndexInv, NEW s \in Sessions PROVE InTurn(Hosts, s, Transcript(runtime, s))
    BY DEF EachTurnShownOnce, InTurn, One, Alone
  <2> DEFINE runs == LocalRuns(runtime, s)
             cached == IF runtime.cached[s] = NoCache THEN <<>> ELSE runtime.cached[s]
             h == Hosts
  <2>1. RuntimeOK(h, runtime) /\ runs \in SUBSET Runs
    BY DEF IndexInv, LocalRuns
  <2> HIDE DEF h
  <2>2. InOrder(runs) \in [1 .. Cardinality(runs) -> runs] /\ Ascending(InOrder(runs))
    BY <2>1, InOrderAscends
  <2>3. cached \in Seq(Turns) /\ InTurn(h, s, cached) /\ (runs # {} => cached = <<>>)
    <3>1. <<>> \in Seq(Turns) /\ InTurn(h, s, <<>>)
      BY DEF InTurn
    <3>2. /\ runtime.cached[s] \in {NoCache} \union Seq(Turns)
          /\ runtime.cached[s] # NoCache => InTurn(h, s, runtime.cached[s])
          /\ runs # {} => runtime.cached[s] = NoCache
      BY <2>1, RuntimeParts DEF RuntimeOK
    <3> QED BY <3>1, <3>2
  <2>4. Transcript(runtime, s) = cached \o InOrder(runs)
    BY DEF Transcript
  <2> HIDE DEF runs, cached
  <2>5. Cardinality(runs) \in Nat /\ (runs = {} => Cardinality(runs) = 0)
    <3>1. IsFiniteSet(Runs)
      <4>1. 1 \in Int /\ MaxRuns \in Int
        BY IndexAssumption
      <4> QED BY <4>1, FS_Interval DEF Runs
    <3>2. IsFiniteSet(runs)
      BY <2>1, <3>1, FS_Subset
    <3> QED BY <3>2, FS_CardinalityType, FS_EmptySet
  <2>6. InOrder(runs) \in Seq(runs) /\ InTurn(h, s, InOrder(runs))
    <3>1. \A x \in runs : x \in Int
      BY <2>1 DEF Runs
    <3>2. \A i \in DOMAIN InOrder(runs) : InOrder(runs)[i] \in Int
      BY <2>2, <3>1
    <3> QED BY <2>2, <2>5, <3>2 DEF Ascending, InTurn
  <2>7. CASE runs # {}
    BY <2>3, <2>4, <2>6, <2>7, EmptyConcat DEF h
  <2>8. CASE runs = {}
    <3>1. InOrder(runs) = <<>>
      BY <2>2, <2>5, <2>6, <2>8
    <3> QED BY <2>3, <2>4, <3>1, EmptyConcat DEF h
  <2> QED BY <2>7, <2>8
<1> QED BY <1>1, InductiveInvariant, PTL

\* A run is created only by a step that changes the runs.
LEMMA CreateChangesRuns ==
    ASSUME IndexInv, NEW rt, NEW z \in Sessions, RuntimeOK(Hosts, rt), rt.runs = runtime.runs,
           rt.rows[z] # NoRow, Count(rt) < MaxRuns, runtime' = CreateRun(rt, z)
    PROVE  runtime'.runs # runtime.runs
<1> SUFFICES ASSUME runtime'.runs = runtime.runs PROVE FALSE
  OBVIOUS
<1> DEFINE k == Count(rt)
           run == [session |-> z, daemon |-> rt.owner[z], state |-> "active"]
           h == Hosts
<1>1. h \in [Sessions -> SUBSET Daemons] /\ RuntimeOK(h, runtime)
  BY SettingTypes DEF IndexInv, CallTypes
<1> HIDE DEF h
<1>2. /\ k + 1 \in Runs /\ runtime.runs[k + 1] = NoRun
      /\ runtime'.runs = [runtime.runs EXCEPT ![k + 1] = run]
  BY <1>1, CreateKeepsOK DEF h
<1>3. runtime.runs[k + 1] = run
  BY <1>1, <1>2, RuntimeParts
<1>4. run.state = "active" /\ NoRun.state = "none"
  BY DEF NoRun
<1> QED BY <1>2, <1>3, <1>4

\* What the steps that change the runtime do to the rows.
LEMMA RowsAfter ==
    ASSUME IndexInv, Next, NEW s \in Sessions, runtime.rows[s] # NoRow
    PROVE  /\ runtime'.runs = runtime.runs /\ LocalRuns(runtime, s) # {} =>
                  runtime'.rows[s] = runtime.rows[s]
           /\ runtime'.rows[s] = NoRow =>
                  \E c \in Calls : /\ runtime.owner[s] \in answered[c]
                                   /\ runtime.owner[s] \notin answered'[c]
                                   /\ <<runtime.owner[s], s>> \notin items[c]
<1> DEFINE Kept == runtime'.rows[s] # NoRow /\
                    (runtime'.runs = runtime.runs /\ LocalRuns(runtime, s) # {} =>
                        runtime'.rows[s] = runtime.rows[s])
           h == Hosts
<1>1. /\ h \in [Sessions -> SUBSET Daemons] /\ RuntimeOK(h, runtime)
      /\ SessionOf \in [Calls -> Sessions]
  BY SettingTypes DEF IndexInv, CallTypes
<1>2. ASSUME NEW c \in Calls, NEW rt, RuntimeOK(h, rt), rt.runs = runtime.runs,
             rt.rows[SessionOf[c]] # NoRow, Resolved(c, rt)
      PROVE  \/ runtime' = rt
             \/ /\ runtime'.runs # runtime.runs
                /\ \A x \in Sessions : rt.rows[x] # NoRow => runtime'.rows[x] # NoRow
  <2> DEFINE z == SessionOf[c]
  <2>1. z \in Sessions /\ rt.rows[z] # NoRow
    BY <1>1, <1>2
  <2>2. runtime' = rt \/ (Count(rt) < MaxRuns /\ runtime' = CreateRun(rt, z))
    BY <1>2 DEF Resolved
  <2> HIDE DEF z
  <2>3. ASSUME Count(rt) < MaxRuns, runtime' = CreateRun(rt, z)
        PROVE  /\ runtime'.runs # runtime.runs
               /\ \A x \in Sessions : rt.rows[x] # NoRow => runtime'.rows[x] # NoRow
    <3>1. runtime'.runs # runtime.runs
      BY <1>2, <2>1, <2>3, CreateChangesRuns
    <3>2. \A x \in Sessions : rt.rows[x] # NoRow => runtime'.rows[x] # NoRow
      <4> HIDE DEF h
      <4> DEFINE made == CreateRun(rt, z)
      <4>1. RuntimeOK(h, rt) /\ h \in [Sessions -> SUBSET Daemons]
        BY <1>1, <1>2
      <4>2. \A x \in Sessions : rt.rows[x] # NoRow => made.rows[x] # NoRow
        BY <2>1, <2>3, <4>1, CreateKeepsRows
      <4> HIDE DEF made
      <4>3. runtime' = made
        BY <2>3 DEF made
      <4> QED BY <4>2, <4>3
    <3> QED BY <3>1, <3>2
  <2> QED BY <2>2, <2>3
<1> HIDE DEF h
<1>3. ASSUME NEW c \in Calls, BeginResolved(c) PROVE Kept
  BY <1>1, <1>2, <1>3 DEF BeginResolved, HasGoodRow
<1>4. ASSUME NEW c \in Calls, NEW d \in Daemons
      PROVE  /\ RuntimeOK(h, Replace(runtime, d, Listed(c, d)))
             /\ Replace(runtime, d, Listed(c, d)).runs = runtime.runs
             /\ \A x \in Listed(c, d) : Replace(runtime, d, Listed(c, d)).rows[x] # NoRow
             /\ LocalRuns(runtime, s) # {} =>
                   Replace(runtime, d, Listed(c, d)).rows[s] = runtime.rows[s]
             /\ Replace(runtime, d, Listed(c, d)).rows[s] = NoRow =>
                   runtime.owner[s] = d /\ <<d, s>> \notin items[c]
  <2>1. Listed(c, d) \in SUBSET Sessions /\ \A x \in Listed(c, d) : d \in h[x]
    BY ListedFacts DEF IndexInv, h
  <2>2. s \notin Listed(c, d) => <<d, s>> \notin items[c]
    BY DEF Listed
  <2> QED BY <1>1, <2>1, <2>2, ReplaceKeepsOK
<1>5. answered \in [Calls -> SUBSET Daemons]
  BY DEF IndexInv, CallTypes
<1> DEFINE Goal == /\ runtime'.runs = runtime.runs /\ LocalRuns(runtime, s) # {} =>
                         runtime'.rows[s] = runtime.rows[s]
                   /\ runtime'.rows[s] = NoRow =>
                         \E c \in Calls : /\ runtime.owner[s] \in answered[c]
                                          /\ runtime.owner[s] \notin answered'[c]
                                          /\ <<runtime.owner[s], s>> \notin items[c]
<1>6. ASSUME NEW c \in Calls, NEW d \in Daemons, ListApplied(c, d) PROVE Goal
  <2> DEFINE listed == Replace(runtime, d, Listed(c, d))
  <2>1. /\ LocalRuns(runtime, s) # {} => listed.rows[s] = runtime.rows[s]
        /\ listed.rows[s] = NoRow => runtime.owner[s] = d /\ <<d, s>> \notin items[c]
    BY <1>4
  <2>2. runtime' = listed /\ d \in answered[c] /\ answered' = [answered EXCEPT ![c] = @ \ {d}]
    BY <1>6 DEF ListApplied
  <2>3. d \notin answered'[c]
    BY <1>5, <2>2
  <2> HIDE DEF listed
  <2> QED BY <2>1, <2>2, <2>3
<1>7. ASSUME NEW c \in Calls, NEW d \in Daemons, SearchGoesOn(c, d) PROVE Goal
  <2> DEFINE listed == Replace(runtime, d, Listed(c, d))
  <2>1. /\ RuntimeOK(h, listed) /\ listed.runs = runtime.runs
        /\ \A x \in Listed(c, d) : listed.rows[x] # NoRow
        /\ LocalRuns(runtime, s) # {} => listed.rows[s] = runtime.rows[s]
        /\ listed.rows[s] = NoRow => runtime.owner[s] = d /\ <<d, s>> \notin items[c]
    BY <1>4
  <2>2. d \in answered[c] /\ answered' = [answered EXCEPT ![c] = {}]
    BY <1>7 DEF SearchGoesOn, ForgetList
  <2>3. \/ SessionOf[c] \in Listed(c, d) /\ Resolved(c, listed)
        \/ runtime' = listed
    BY <1>7 DEF SearchGoesOn
  <2>4. d \notin answered'[c]
    BY <1>5, <2>2
  <2> HIDE DEF listed
  <2>5. \/ runtime' = listed
        \/ runtime'.runs # runtime.runs /\ (listed.rows[s] # NoRow => runtime'.rows[s] # NoRow)
    BY <1>2, <2>1, <2>3
  <2> QED BY <2>1, <2>2, <2>4, <2>5
<1>8. ASSUME NEW c \in Calls, LoadReturns(c) PROVE Kept
  <2> DEFINE z == SessionOf[c]
             mid == UpsertSession(runtime, z, target[c])
  <2>1. /\ z \in Sessions /\ target[c] \in h[z] /\ got[c] \in Seq(Turns)
        /\ InTurn(h, z, got[c]) /\ runtime' = CacheTranscript(mid, z, got[c])
    BY <1>1, <1>8 DEF LoadReturns, IndexInv, TargetInv, ReplaysInOrder, h
  <2> HIDE DEF z
  <2>2. RuntimeOK(h, mid) /\ mid.rows[z] # NoRow /\ mid.rows[s] = runtime.rows[s]
    BY <1>1, <2>1, UpsertKeepsOK
  <2> HIDE DEF mid
  <2>3. runtime'.rows = mid.rows
    BY <2>1, <2>2, CacheKeepsOK
  <2> QED BY <2>2, <2>3
<1>9. ASSUME NEW x \in Sessions, NEW d \in Daemons, CreateReturns(x, d) PROVE Kept
  <2>1. d \in h[x] /\ runtime' = UpsertSession(runtime, x, d)
    BY <1>9 DEF CreateReturns, IndexInv, CallTypes, Pairs, h
  <2> QED BY <1>1, <2>1, UpsertKeepsOK
<1>10. ASSUME NEW r \in Runs, RunEnds(r) PROVE Kept
  <2>1. runtime.runs[r].state = "active" /\ runtime' = EndRun(runtime, r)
    BY <1>10 DEF RunEnds
  <2>2. /\ runtime'.runs[r].state = "ended"
        /\ \A x \in Sessions : runtime.rows[x] # NoRow => runtime'.rows[x] # NoRow
    BY <1>1, <2>1, EndKeepsOK
  <2>3. runtime'.runs # runtime.runs
    BY <2>1, <2>2
  <2> QED BY <2>2, <2>3
<1>11. ASSUME Cleanup PROVE Kept
  <2>1. PICK expired \in SUBSET {r \in Runs : runtime.runs[r].state = "ended"},
             old \in SUBSET {x \in Sessions : runtime.cached[x] # NoCache} :
             runtime' = CleanUp(runtime, expired, old)
    BY <1>11 DEF Cleanup
  <2>2. old \in SUBSET Sessions
    OBVIOUS
  <2> QED BY <1>1, <2>1, <2>2, CleanUpKeepsOK
<1>12. ASSUME \/ \E x \in Sessions : Vanish(x) \/ \E d \in Daemons : CreateAnswered(x, d)
              \/ \E d \in Daemons : Disconnect(d) \/ Reconnect(d)
              \/ \E c \in Calls : Asks(c) \/ SyncAnswered(c)
       PROVE  runtime' = runtime
  BY <1>12 DEF CreateAnswered, Vanish, Disconnect, Reconnect, Asks, BeginListing, ListReturns,
     SearchFails, SyncFails, AskNext, FirstPage, LastPage, ListFails, SyncAnswered
<1>13. Kept => Goal
  OBVIOUS
<1>14. runtime' = runtime => Kept
  OBVIOUS
<1> HIDE DEF Kept, Goal
<1>15. Goal
  BY <1>3, <1>6, <1>7, <1>8, <1>9, <1>10, <1>11, <1>12, <1>13, <1>14 DEF Next, Asks
<1> QED BY <1>15 DEF Goal

\* A list, a load or a cleanup never changes the status of a session of which a run
\* is under way: upsert_session keeps the status it finds.
THEOREM RefreshSparesStatus == Spec => RefreshKeepsStatus
<1>1. IndexInv /\ [Next]_vars =>
        [runtime'.runs = runtime.runs =>
           \A s \in Sessions :
              HasActiveRun(runtime, s) /\ runtime.rows[s] # NoRow =>
                  runtime'.rows[s] = runtime.rows[s]]_vars
  <2> SUFFICES ASSUME IndexInv, Next, runtime'.runs = runtime.runs,
                      NEW s \in Sessions, HasActiveRun(runtime, s), runtime.rows[s] # NoRow
               PROVE  runtime'.rows[s] = runtime.rows[s]
    OBVIOUS
  <2>1. LocalRuns(runtime, s) # {}
    BY DEF HasActiveRun
  <2> QED BY <2>1, RowsAfter
<1> QED BY <1>1, InductiveInvariant, PTL DEF Spec, RefreshKeepsStatus

\* A row goes only with the list of the daemon it then is a row of, on which the
\* session is not: the daemon_id check of replace_daemon_sessions, whatever daemons
\* have listed the session in between.
THEOREM RowsGoWithTheirDaemon == Spec => OnlyItsDaemonRemovesRow
<1>1. IndexInv /\ [Next]_vars =>
        [\A s \in Sessions :
           runtime.rows[s] # NoRow /\ runtime'.rows[s] = NoRow =>
              \E c \in Calls : /\ runtime.owner[s] \in answered[c]
                               /\ runtime.owner[s] \notin answered'[c]
                               /\ <<runtime.owner[s], s>> \notin items[c]]_vars
  BY RowsAfter
<1> QED BY <1>1, InductiveInvariant, PTL DEF Spec, OnlyItsDaemonRemovesRow
=============================================================================
