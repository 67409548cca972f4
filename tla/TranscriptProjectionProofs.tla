---------------------- MODULE TranscriptProjectionProofs ----------------------
(* The safety properties of TranscriptProjection, proved for every set of     *)
(* approval ids and every bound on the events of a run, on those that are     *)
(* kept, on the updates of a replay and on those that do not reach the page.  *)
EXTENDS TranscriptProjection, WellFoundedInduction, SequenceTheorems, TLAPS

(***************************************************************************)
(* What Build and Synced compute is reached by a chain of steps: each is   *)
(* the last value of a function that adds one chunk after another.  What   *)
(* holds of the first value and is kept by every step holds of the last;   *)
(* the place where it first failed would contradict it.                    *)
(***************************************************************************)

\* A set of numbers that is not empty has a least element.
LEMMA LeastElement ==
    ASSUME NEW T, T \subseteq Nat, T # {}
    PROVE  \E m \in T : \A n \in T : m <= n
<1> DEFINE R == {ss \in Nat \X Nat : ss[1] < ss[2]}
<1>1. IsWellFoundedOn(R, Nat)
    BY NatLessThanWellFounded DEF OpToRel
<1> HIDE DEF R
<1>2. PICK m \in T : \A n \in T : ~ (<<n, m>> \in R)
    BY <1>1, WFMin
<1>3. \A k, n \in Nat : n < k => <<n, k>> \in R
    BY DEF R
<1>4. \A n \in T : ~ (n < m)
    BY <1>2, <1>3
<1> QED
    BY <1>4

\* f is the fold of Add over the first k chunks, and of AddReplayed over the first k
\* updates of the log.
Folds(f, run, chunks, k) ==
    f = [n \in 0 .. k |-> IF n = 0 THEN Unstarted(run) ELSE Add(f[n - 1], chunks[n])]
FoldsLog(f, k) ==
    f = [n \in 0 .. k |-> IF n = 0 THEN NoTurn
                          ELSE AddReplayed(f[n - 1], Chunk(log[n].kind, n))]

LEMMA FoldExtends ==
    ASSUME NEW k \in Nat, NEW g, NEW run, NEW chunks, Folds(g, run, chunks, k)
    PROVE  \E f : Folds(f, run, chunks, k + 1)
<1> DEFINE f == [n \in 0 .. k + 1 |-> IF n <= k THEN g[n] ELSE Add(g[k], chunks[k + 1])]
<1>1. \A n \in 0 .. k : f[n] = g[n]
    OBVIOUS
<1>2. f[k + 1] = Add(f[k], chunks[k + 1])
    BY <1>1
<1>3. \A n \in 0 .. k : g[n] = IF n = 0 THEN Unstarted(run) ELSE Add(g[n - 1], chunks[n])
    BY DEF Folds
<1>4. \A n \in 0 .. k + 1 : f[n] = IF n = 0 THEN Unstarted(run) ELSE Add(f[n - 1], chunks[n])
    <2> SUFFICES ASSUME NEW n \in 0 .. k + 1
                 PROVE  f[n] = IF n = 0 THEN Unstarted(run) ELSE Add(f[n - 1], chunks[n])
        OBVIOUS
    <2>1. CASE n = k + 1
        BY <1>2, <2>1
    <2>2. CASE n \in 0 .. k /\ n # 0
        <3>1. f[n] = g[n] /\ f[n - 1] = g[n - 1]
            BY <1>1, <2>2
        <3> QED
            BY <1>3, <2>2, <3>1
    <2>3. CASE n = 0
        BY <1>1, <1>3, <2>3
    <2> QED
        BY <2>1, <2>2, <2>3
<1>5. f = [n \in 0 .. k + 1 |-> f[n]]
    OBVIOUS
<1> HIDE DEF f
<1>6. Folds(f, run, chunks, k + 1)
    BY <1>4, <1>5 DEF Folds
<1> QED
    BY <1>6

LEMMA FoldExists ==
    ASSUME NEW run, NEW chunks
    PROVE  \A k \in Nat : \E f : Folds(f, run, chunks, k)
<1> DEFINE Bad == {k \in Nat : ~ \E f : Folds(f, run, chunks, k)}
<1> SUFFICES ASSUME Bad # {} PROVE FALSE
    OBVIOUS
<1>1. PICK k \in Bad : \A n \in Bad : k <= n
    BY LeastElement
<1>2. Folds([n \in 0 .. 0 |-> Unstarted(run)], run, chunks, 0)
    BY DEF Folds
<1>3. k # 0
    BY <1>1, <1>2
<1>4. k - 1 \in Nat /\ (k - 1) + 1 = k /\ k - 1 \notin Bad
    BY <1>1, <1>3
<1>5. \E g : Folds(g, run, chunks, k - 1)
    BY <1>4
<1> QED
    BY <1>1, <1>4, <1>5, FoldExtends

\* Build finishes what the fold of Add gives.
LEMMA BuildFolds ==
    ASSUME NEW run, NEW chunks, Len(chunks) \in Nat
    PROVE  \E f : Folds(f, run, chunks, Len(chunks)) /\ Build(run, chunks) = Finish(f[Len(chunks)]).items
<1> DEFINE k == Len(chunks)
           f == CHOOSE f : Folds(f, run, chunks, k)
<1>1. Folds(f, run, chunks, k)
    BY FoldExists
<1>2. Build(run, chunks) = Finish(f[k]).items
    BY DEF Build, Folds
<1> QED
    BY <1>1, <1>2
-----------------------------------------------------------------------------
(* Lists of chunks, and chains of items. *)

Chunks == [update : Updates \union {"ask", "user"}, at : Nat]
\* The times of a list of chunks, which ascend.
TimesOf(q) == {q[k].at : k \in DOMAIN q}
List(q) == q \in Seq(Chunks) /\ \A j, k \in DOMAIN q : j < k => q[j].at < q[k].at

\* The times of what an item holds, and of what all of them hold.
Times(item) == {item.at} \union TimesOf(item.parts) \union TimesOf(item.steps)
Span(items) == UNION {Times(items[n]) : n \in DOMAIN items}
Before(S, T) == \A s \in S, t \in T : s < t

\* An item holds its text and its steps in order, and everything in an item comes
\* before everything in the next one.
IsSeq(q) == \E S : q \in Seq(S)
IsItem(item) == item.at \in Nat /\ List(item.parts) /\ List(item.steps)
Chain(items) ==
    /\ IsSeq(items)
    /\ \A n \in DOMAIN items : IsItem(items[n])
    /\ \A m, n \in DOMAIN items : m < n => Before(Times(items[m]), Times(items[n]))

LEMMA EmptyList == List(<<>>) /\ TimesOf(<<>>) = {} /\ ToSet(<<>>) = {}
BY EmptySeq, IsASeq DEF List, TimesOf, ToSet

LEMMA ListAppend ==
    ASSUME NEW q, List(q), NEW c \in Chunks, Before(TimesOf(q), {c.at})
    PROVE  /\ List(Append(q, c)) /\ TimesOf(Append(q, c)) = TimesOf(q) \union {c.at}
           /\ ToSet(Append(q, c)) = ToSet(q) \union {c}
<1> DEFINE r == Append(q, c)
<1>1. q \in Seq(Chunks) /\ Len(q) \in Nat /\ DOMAIN q = 1 .. Len(q)
    BY LenProperties DEF List
<1>2. r \in Seq(Chunks) /\ DOMAIN r = 1 .. Len(q) + 1
      /\ r[Len(q) + 1] = c /\ \A k \in 1 .. Len(q) : r[k] = q[k]
    BY <1>1, AppendProperties
<1> HIDE DEF r
<1>3. \A k \in DOMAIN r : IF k = Len(q) + 1 THEN r[k] = c ELSE k \in DOMAIN q /\ r[k] = q[k]
    BY <1>1, <1>2
<1>4. \A k \in DOMAIN q : k \in DOMAIN r /\ r[k] = q[k] /\ k < Len(q) + 1
    BY <1>1, <1>2
<1>5. Len(q) + 1 \in DOMAIN r /\ \A j, k \in DOMAIN r : j < k => j # Len(q) + 1
    BY <1>1, <1>2
<1>6. TimesOf(r) = TimesOf(q) \union {c.at}
    BY <1>2, <1>3, <1>4, <1>5 DEF TimesOf
<1>7. ToSet(r) = ToSet(q) \union {c}
    BY <1>2, <1>3, <1>4, <1>5 DEF ToSet
<1>8. \A j, k \in DOMAIN r : j < k => r[j].at < r[k].at
    BY <1>3, <1>5 DEF List, Before, TimesOf
<1> QED
    BY <1>2, <1>6, <1>7, <1>8 DEF r, List

LEMMA OneChunk ==
    ASSUME NEW c \in Chunks
    PROVE  List(<<c>>) /\ TimesOf(<<c>>) = {c.at} /\ ToSet(<<c>>) = {c}
<1>1. List(Append(<<>>, c)) /\ TimesOf(Append(<<>>, c)) = {c.at} /\ ToSet(Append(<<>>, c)) = {c}
    <2> DEFINE q == <<>>
    <2>1. List(q) /\ TimesOf(q) = {} /\ ToSet(q) = {}
        BY EmptyList
    <2>2. Before(TimesOf(q), {c.at})
        BY <2>1 DEF Before
    <2> HIDE DEF q
    <2>3. List(Append(q, c)) /\ TimesOf(Append(q, c)) = {c.at} /\ ToSet(Append(q, c)) = {c}
        BY <2>1, <2>2, ListAppend
    <2> QED
        BY <2>3 DEF q
<1>2. Append(<<>>, c) = <<c>>
    OBVIOUS
<1> QED
    BY <1>1, <1>2

\* What the items hold, item by item.
LEMMA AllTexts ==
    ASSUME NEW items
    PROVE  /\ All(Texts(items)) = UNION {ToSet(items[n].parts) : n \in DOMAIN items}
           /\ All(Steps(items)) = UNION {ToSet(items[n].steps) : n \in DOMAIN items}
BY DEF All, Texts, Steps

LEMMA NoItems ==
    /\ Chain(<<>>) /\ Span(<<>>) = {} /\ Cards(<<>>) = {}
    /\ All(Texts(<<>>)) = {} /\ All(Steps(<<>>)) = {}
    /\ IdsUnique(<<>>) /\ SegmentsOfAKind(<<>>)
<1>1. DOMAIN <<>> = {} /\ IsSeq(<<>>)
    BY EmptySeq DEF IsSeq
<1> QED
    BY <1>1, AllTexts DEF Chain, Span, Cards, IdsUnique, SegmentsOfAKind

\* One more item.
LEMMA AppendItem ==
    ASSUME NEW items, IsSeq(items), NEW x
    PROVE  /\ IsSeq(Append(items, x))
           /\ \A n \in DOMAIN items : n \in DOMAIN Append(items, x) /\ Append(items, x)[n] = items[n]
           /\ \E k \in DOMAIN Append(items, x) :
                 /\ Append(items, x)[k] = x
                 /\ \A n \in DOMAIN Append(items, x) : n = k \/ (n \in DOMAIN items /\ n < k)
                 /\ \A n \in DOMAIN Append(items, x) : n \in Nat
<1>1. PICK S : items \in Seq(S)
    BY DEF IsSeq
<1> DEFINE T == S \union {x}
           r == Append(items, x)
<1>2. items \in Seq(T) /\ Len(items) \in Nat /\ DOMAIN items = 1 .. Len(items)
    BY <1>1, LenProperties
<1>3. x \in T
    OBVIOUS
<1> HIDE DEF T
<1>4. r \in Seq(T) /\ DOMAIN r = 1 .. Len(items) + 1
      /\ r[Len(items) + 1] = x /\ \A k \in 1 .. Len(items) : r[k] = items[k]
    BY <1>2, <1>3, AppendProperties
<1> HIDE DEF r
<1>5. \A n \in DOMAIN r : n = Len(items) + 1 \/ (n \in DOMAIN items /\ n < Len(items) + 1)
    BY <1>2, <1>4
<1>6. IsSeq(r)
    BY <1>4 DEF IsSeq
<1>7. \A n \in DOMAIN items : n \in DOMAIN r /\ r[n] = items[n]
    BY <1>2, <1>4
<1>8. Len(items) + 1 \in DOMAIN r /\ r[Len(items) + 1] = x /\ \A n \in DOMAIN r : n \in Nat
    BY <1>2, <1>4
<1> QED
    BY <1>5, <1>6, <1>7, <1>8 DEF r

LEMMA ChainAppend ==
    ASSUME NEW items, Chain(items), NEW x, IsItem(x), Before(Span(items), Times(x))
    PROVE  /\ Chain(Append(items, x)) /\ Span(Append(items, x)) = Span(items) \union Times(x)
           /\ All(Texts(Append(items, x))) = All(Texts(items)) \union ToSet(x.parts)
           /\ All(Steps(Append(items, x))) = All(Steps(items)) \union ToSet(x.steps)
           /\ Cards(Append(items, x)) = Cards(items) \union IF IsCard(x) THEN {x} ELSE {}
<1> DEFINE r == Append(items, x)
<1>1. IsSeq(items)
    BY DEF Chain
<1>2. IsSeq(r) /\ \A n \in DOMAIN items : n \in DOMAIN r /\ r[n] = items[n]
    BY <1>1, AppendItem
<1>3. PICK k \in DOMAIN r : /\ r[k] = x
                            /\ \A n \in DOMAIN r : n = k \/ (n \in DOMAIN items /\ n < k)
                            /\ \A n \in DOMAIN r : n \in Nat
    BY <1>1, AppendItem
<1> HIDE DEF r
<1>4. \A n \in DOMAIN r : IsItem(r[n])
    BY <1>2, <1>3 DEF Chain
<1>5. ASSUME NEW m \in DOMAIN r, NEW n \in DOMAIN r, m < n
      PROVE  Before(Times(r[m]), Times(r[n]))
    <2>1. m # k /\ m \in DOMAIN items
        BY <1>3, <1>5
    <2>2. CASE n = k
        BY <1>2, <1>3, <2>1, <2>2 DEF Before, Span
    <2>3. CASE n # k
        BY <1>2, <1>3, <1>5, <2>1, <2>3 DEF Chain
    <2> QED
        BY <2>2, <2>3
<1>6. Span(r) = Span(items) \union Times(x)
    BY <1>2, <1>3 DEF Span
<1>7. All(Texts(r)) = All(Texts(items)) \union ToSet(x.parts)
      /\ All(Steps(r)) = All(Steps(items)) \union ToSet(x.steps)
    BY <1>2, <1>3, AllTexts
<1>8. Cards(r) = Cards(items) \union IF IsCard(x) THEN {x} ELSE {}
    BY <1>2, <1>3 DEF Cards
<1> QED
    BY <1>2, <1>4, <1>5, <1>6, <1>7, <1>8 DEF r, Chain

LEMMA IdsAppend ==
    ASSUME NEW items, IsSeq(items), IdsUnique(items), NEW x,
           IsCard(x) \/ \A n \in DOMAIN items : ~IsCard(items[n]) => items[n].id # x.id
    PROVE  IdsUnique(Append(items, x))
<1> DEFINE r == Append(items, x)
<1>2. IsSeq(r) /\ \A n \in DOMAIN items : n \in DOMAIN r /\ r[n] = items[n]
    BY AppendItem
<1>3. PICK k \in DOMAIN r : /\ r[k] = x
                            /\ \A n \in DOMAIN r : n = k \/ (n \in DOMAIN items /\ n < k)
                            /\ \A n \in DOMAIN r : n \in Nat
    BY AppendItem
<1> HIDE DEF r
<1>4. \A m, n \in DOMAIN r :
        m # n /\ ~IsCard(r[m]) /\ ~IsCard(r[n]) => r[m].id # r[n].id
    BY <1>2, <1>3 DEF IdsUnique
<1> QED
    BY <1>4 DEF r, IdsUnique

LEMMA KindAppend ==
    ASSUME NEW items, IsSeq(items), SegmentsOfAKind(items), NEW x,
           x.kind \in {"message", "thought"} =>
              \A k \in DOMAIN x.parts : SegmentKind(x.parts[k].update) = x.kind
    PROVE  SegmentsOfAKind(Append(items, x))
<1> DEFINE r == Append(items, x)
<1>2. IsSeq(r) /\ \A n \in DOMAIN items : n \in DOMAIN r /\ r[n] = items[n]
    BY AppendItem
<1>3. PICK k \in DOMAIN r : /\ r[k] = x
                            /\ \A n \in DOMAIN r : n = k \/ (n \in DOMAIN items /\ n < k)
    BY AppendItem
<1> HIDE DEF r
<1>4. \A n \in DOMAIN r : r[n].kind \in {"message", "thought"} =>
        \A j \in DOMAIN r[n].parts : SegmentKind(r[n].parts[j].update) = r[n].kind
    BY <1>2, <1>3 DEF SegmentsOfAKind
<1> QED
    BY <1>4 DEF r, SegmentsOfAKind

\* The items of a chain are in the order things happened, and a card divides them.
LEMMA ChainIsOrdered ==
    ASSUME NEW items, Chain(items)
    PROVE  Ordered(items) /\ Divides(items)
<1>1. \A n \in DOMAIN items : /\ List(items[n].parts) /\ List(items[n].steps)
                              /\ items[n].at \in Times(items[n])
    BY DEF Chain, IsItem, Times
<1>2. DOMAIN items \subseteq Nat
    <2>1. PICK S : items \in Seq(S)
        BY DEF Chain, IsSeq
    <2> QED
        BY <2>1, LenProperties
<1>3. \A n \in DOMAIN items : \A k \in DOMAIN items[n].parts : items[n].parts[k].at \in Times(items[n])
    BY DEF Times, TimesOf
<1>4. \A n \in DOMAIN items : \A k \in DOMAIN items[n].steps : items[n].steps[k].at \in Times(items[n])
    BY DEF Times, TimesOf
<1>5. \A m, n \in DOMAIN items : \A s \in Times(items[m]), t \in Times(items[n]) : m < n => s < t
    BY DEF Chain, Before
<1>6. InOrder(Texts(items))
    BY <1>1, <1>3, <1>5 DEF InOrder, Texts, List
<1>7. InOrder(Steps(items))
    BY <1>1, <1>4, <1>5 DEF InOrder, Steps, List
<1>8. Sorted(items)
    BY <1>1, <1>5 DEF Sorted
<1>9. ASSUME NEW c \in DOMAIN items, NEW n \in DOMAIN items, IsCard(items[c]), ~IsCard(items[n]),
             NEW chunk \in ToSet(items[n].parts) \union ToSet(items[n].steps)
      PROVE  IF n < c THEN chunk.at < items[c].at ELSE chunk.at > items[c].at
    <2>1. chunk.at \in Times(items[n])
        BY <1>3, <1>4 DEF ToSet
    <2>2. CASE n < c
        BY <1>1, <1>5, <2>1, <2>2
    <2>3. CASE c < n
        <3>1. items[c].at < chunk.at
            BY <1>1, <1>5, <2>1, <2>3
        <3>2. chunk.at \in Nat /\ items[c].at \in Nat
            <4>1. \A m \in DOMAIN items : Times(items[m]) \subseteq Nat
                <5> SUFFICES ASSUME NEW m \in DOMAIN items PROVE Times(items[m]) \subseteq Nat
                    OBVIOUS
                <5>1. /\ items[m].at \in Nat
                      /\ \A k \in DOMAIN items[m].parts : items[m].parts[k] \in Chunks
                      /\ \A k \in DOMAIN items[m].steps : items[m].steps[k] \in Chunks
                    BY ElementOfSeq, LenProperties DEF Chain, IsItem, List
                <5> QED
                    BY <5>1 DEF Times, TimesOf, Chunks
            <4> QED
                BY <1>1, <2>1, <4>1
        <3> QED
            BY <2>3, <1>2, <3>1, <3>2
    <2>4. n # c
        BY <1>9
    <2> QED
        BY <1>2, <2>2, <2>3, <2>4
<1>10. Divides(items)
    BY <1>9 DEF Divides
<1> QED
    BY <1>6, <1>7, <1>8, <1>10 DEF Ordered
-----------------------------------------------------------------------------
(* A projection under way: items, a segment that is open unless its kind is   *)
(* "none", and steps that wait for the next one.                              *)

OpenTimes(open, pending) ==
    TimesOf(open.parts) \union TimesOf(open.steps) \union TimesOf(pending)
        \union IF open.kind = "none" THEN {} ELSE {open.at}

\* What is open comes after what is closed, and everything was seen.
Building(items, open, pending, seen) ==
    /\ Chain(items)
    /\ List(open.parts) /\ List(open.steps) /\ List(pending) /\ open.at \in Nat
    /\ IF open.kind = "none" THEN open.parts = <<>> /\ open.steps = <<>> ELSE pending = <<>>
    /\ Before(Span(items), OpenTimes(open, pending))
    /\ Span(items) \union OpenTimes(open, pending) \subseteq seen /\ seen \subseteq Nat

LEMMA CloseSegment ==
    ASSUME NEW items, NEW open, NEW pending, NEW seen, Building(items, open, pending, seen),
           open.kind # "none", NEW none, none.kind = "none", none.parts = <<>>,
           none.steps = <<>>, none.at \in Nat
    PROVE  Building(Append(items, open), none, pending, seen)
<1>1. Times(open) = OpenTimes(open, pending) /\ IsItem(open)
    BY EmptyList DEF Times, OpenTimes, Building, IsItem
<1>2. /\ Chain(Append(items, open))
      /\ Span(Append(items, open)) = Span(items) \union Times(open)
    BY <1>1, ChainAppend DEF Building
<1>3. OpenTimes(none, pending) = {}
    BY EmptyList DEF OpenTimes, Building
<1>4. Before(Span(Append(items, open)), {})
    BY DEF Before
<1> QED
    BY <1>1, <1>2, <1>3, <1>4, EmptyList DEF Building

LEMMA ClosePending ==
    ASSUME NEW items, NEW open, NEW pending, NEW seen, Building(items, open, pending, seen),
           open.kind = "none", pending # <<>>,
           NEW x, x.parts = <<>>, x.steps = pending, x.at = pending[1].at
    PROVE  Building(Append(items, x), open, <<>>, seen)
<1>1. 1 \in DOMAIN pending /\ pending[1] \in Chunks
    BY EmptySeq, LenProperties, ElementOfSeq DEF Building, List
<1>2. x.at \in TimesOf(pending) /\ x.at \in Nat
    BY <1>1 DEF TimesOf, Chunks
<1>3. Times(x) = OpenTimes(open, pending) /\ IsItem(x)
    BY <1>2, EmptyList DEF Times, OpenTimes, Building, IsItem
<1>4. /\ Chain(Append(items, x))
      /\ Span(Append(items, x)) = Span(items) \union Times(x)
    BY <1>3, ChainAppend DEF Building
<1>5. OpenTimes(open, <<>>) = {}
    BY EmptyList DEF OpenTimes, Building
<1>6. Before(Span(Append(items, x)), {})
    BY DEF Before
<1> QED
    BY <1>3, <1>4, <1>5, <1>6, EmptyList DEF Building

LEMMA BeginSegment ==
    ASSUME NEW items, NEW open, NEW pending, NEW seen, Building(items, open, pending, seen),
           open.kind = "none", NEW c \in Chunks, Before(seen, {c.at}),
           NEW new, new.kind # "none", new.parts = <<c>>, new.steps = pending, new.at = c.at
    PROVE  Building(items, new, <<>>, seen \union {c.at})
<1>1. c.at \in Nat
    BY DEF Chunks
<1>2. OpenTimes(new, <<>>) = TimesOf(pending) \union {c.at}
    BY EmptyList, OneChunk DEF OpenTimes
<1>3. OpenTimes(open, pending) = TimesOf(pending)
    BY EmptyList DEF OpenTimes, Building
<1>4. Before(Span(items), OpenTimes(new, <<>>))
    BY <1>2, <1>3 DEF Building, Before
<1> QED
    BY <1>1, <1>2, <1>3, <1>4, EmptyList, OneChunk DEF Building

LEMMA AddPart ==
    ASSUME NEW items, NEW open, NEW pending, NEW seen, Building(items, open, pending, seen),
           open.kind # "none", NEW c \in Chunks, Before(seen, {c.at}),
           NEW new, new.kind = open.kind, new.parts = Append(open.parts, c),
           new.steps = open.steps, new.at = open.at
    PROVE  Building(items, new, pending, seen \union {c.at})
<1>1. c.at \in Nat
    BY DEF Chunks
<1>2. Before(TimesOf(open.parts), {c.at})
    BY DEF Building, OpenTimes, Before
<1>3. List(new.parts) /\ TimesOf(new.parts) = TimesOf(open.parts) \union {c.at}
    BY <1>2, ListAppend DEF Building
<1>4. OpenTimes(new, pending) = OpenTimes(open, pending) \union {c.at}
    BY <1>3 DEF OpenTimes
<1>5. Before(Span(items), OpenTimes(new, pending))
    BY <1>4 DEF Building, Before
<1> QED
    BY <1>1, <1>3, <1>4, <1>5 DEF Building

LEMMA AddStep ==
    ASSUME NEW items, NEW open, NEW pending, NEW seen, Building(items, open, pending, seen),
           open.kind # "none", NEW c \in Chunks, Before(seen, {c.at}),
           NEW new, new.kind = open.kind, new.parts = open.parts,
           new.steps = Append(open.steps, c), new.at = open.at
    PROVE  Building(items, new, pending, seen \union {c.at})
<1>1. c.at \in Nat
    BY DEF Chunks
<1>2. Before(TimesOf(open.steps), {c.at})
    BY DEF Building, OpenTimes, Before
<1>3. List(new.steps) /\ TimesOf(new.steps) = TimesOf(open.steps) \union {c.at}
    BY <1>2, ListAppend DEF Building
<1>4. OpenTimes(new, pending) = OpenTimes(open, pending) \union {c.at}
    BY <1>3 DEF OpenTimes
<1>5. Before(Span(items), OpenTimes(new, pending))
    BY <1>4 DEF Building, Before
<1> QED
    BY <1>1, <1>3, <1>4, <1>5 DEF Building

LEMMA AddPending ==
    ASSUME NEW items, NEW open, NEW pending, NEW seen, Building(items, open, pending, seen),
           open.kind = "none", NEW c \in Chunks, Before(seen, {c.at})
    PROVE  Building(items, open, Append(pending, c), seen \union {c.at})
<1>1. c.at \in Nat
    BY DEF Chunks
<1>2. Before(TimesOf(pending), {c.at})
    BY DEF Building, OpenTimes, Before
<1> DEFINE new == Append(pending, c)
<1>3. List(new) /\ TimesOf(new) = TimesOf(pending) \union {c.at}
    BY <1>2, ListAppend DEF Building
<1> HIDE DEF new
<1>4. OpenTimes(open, new) = OpenTimes(open, pending) \union {c.at}
    BY <1>3 DEF OpenTimes
<1>5. Before(Span(items), OpenTimes(open, new))
    BY <1>4 DEF Building, Before
<1>6. Building(items, open, new, seen \union {c.at})
    BY <1>1, <1>3, <1>4, <1>5 DEF Building
<1> QED
    BY <1>6 DEF new

LEMMA AddCard ==
    ASSUME NEW items, NEW open, NEW seen, Building(items, open, <<>>, seen),
           open.kind = "none", NEW i \in Nat, Before(seen, {i}),
           NEW x, x.parts = <<>>, x.steps = <<>>, x.at = i
    PROVE  Building(Append(items, x), open, <<>>, seen \union {i})
<1>1. Times(x) = {i} /\ IsItem(x)
    BY EmptyList DEF Times, IsItem
<1>2. Before(Span(items), Times(x))
    BY <1>1 DEF Building, Before
<1>3. /\ Chain(Append(items, x))
      /\ Span(Append(items, x)) = Span(items) \union Times(x)
    BY <1>1, <1>2, ChainAppend DEF Building
<1>4. OpenTimes(open, <<>>) = {}
    BY EmptyList DEF OpenTimes, Building
<1>5. Before(Span(Append(items, x)), {})
    BY DEF Before
<1> QED
    BY <1>1, <1>3, <1>4, <1>5 DEF Building

LEMMA SeenGrows ==
    ASSUME NEW items, NEW open, NEW pending, NEW seen, Building(items, open, pending, seen),
           NEW more \in SUBSET Nat, seen \subseteq more
    PROVE  Building(items, open, pending, more)
BY DEF Building
-----------------------------------------------------------------------------
(* build_run_transcript_items. *)

Open(b) == Bubble(SegmentId(b), b.kind, b.parts, b.steps, b.at)

\* The builder holds the chunks that were added, and its items have ids of the run.
Holds(b, done) ==
    /\ All(Texts(b.items)) \union ToSet(b.parts) = {c \in done : c.update \in Visible}
    /\ All(Steps(b.items)) \union ToSet(b.steps) \union ToSet(b.pending)
          = {c \in done : HasStep(c.update)}
    /\ Cards(b.items) = {CardAt(c.at) : c \in {d \in done : d.update = "ask"}}
Numbered(b) ==
    /\ IdsUnique(b.items)
    /\ \A n \in DOMAIN b.items : ~IsCard(b.items[n]) =>
          \E j \in Nat : j < b.index /\ b.items[n].id = <<b.run, "segment", j>>
OfAKind(b) ==
    /\ SegmentsOfAKind(b.items)
    /\ b.kind # "none" => \A k \in DOMAIN b.parts : SegmentKind(b.parts[k].update) = b.kind

\* The builder b of the run shows the chunks done.
WellBuilt(b, run, done) ==
    /\ b = [run |-> run, items |-> b.items, index |-> b.index, kind |-> b.kind, at |-> b.at,
            parts |-> b.parts, steps |-> b.steps, pending |-> b.pending]
    /\ b.index \in Nat /\ b.kind \in {"none", "message", "thought"}
    /\ Building(b.items, Open(b), b.pending, {c.at : c \in done})
    /\ Holds(b, done) /\ Numbered(b) /\ OfAKind(b)

LEMMA UnstartedBuilt == ASSUME NEW run PROVE WellBuilt(Unstarted(run), run, {})
<1> DEFINE b == Unstarted(run)
<1>1. b = [run |-> run, items |-> <<>>, index |-> 0, kind |-> "none", at |-> 0,
           parts |-> <<>>, steps |-> <<>>, pending |-> <<>>]
    BY DEF Unstarted
<1> HIDE DEF b
<1>2. Building(b.items, Open(b), b.pending, {c.at : c \in {}})
    BY <1>1, EmptyList, NoItems DEF Building, Open, Bubble, OpenTimes, Before
<1>3. Holds(b, {})
    BY <1>1, EmptyList, NoItems DEF Holds
<1>4. Numbered(b) /\ OfAKind(b)
    BY <1>1, NoItems DEF Numbered, OfAKind
<1>5. WellBuilt(b, run, {})
    BY <1>1, <1>2, <1>3, <1>4 DEF WellBuilt
<1> QED
    BY <1>5 DEF b

\* A bubble with the next id keeps the ids apart.
LEMMA NumberNext ==
    ASSUME NEW b, Numbered(b), b.index \in Nat, IsSeq(b.items), NEW x, x.id = SegmentId(b),
           NEW b2, b2.items = Append(b.items, x), b2.index = b.index + 1, b2.run = b.run
    PROVE  Numbered(b2)
<1>1. \A n \in DOMAIN b.items : ~IsCard(b.items[n]) => b.items[n].id # x.id
    BY DEF Numbered, SegmentId
<1>2. IdsUnique(b2.items)
    BY <1>1, IdsAppend DEF Numbered
<1>3. ASSUME NEW n \in DOMAIN b2.items, ~IsCard(b2.items[n])
      PROVE  \E j \in Nat : j < b2.index /\ b2.items[n].id = <<b2.run, "segment", j>>
    <2>1. b2.items[n] = x \/ (n \in DOMAIN b.items /\ b2.items[n] = b.items[n])
        BY AppendItem
    <2>2. CASE b2.items[n] = x
        BY <2>2 DEF SegmentId
    <2>3. CASE n \in DOMAIN b.items /\ b2.items[n] = b.items[n]
        <3>1. PICK j \in Nat : j < b.index /\ b.items[n].id = <<b.run, "segment", j>>
            BY <1>3, <2>3 DEF Numbered
        <3> QED
            BY <2>3, <3>1
    <2> QED
        BY <2>1, <2>2, <2>3
<1> QED
    BY <1>2, <1>3 DEF Numbered

LEMMA FlushSegmentKeeps ==
    ASSUME NEW b, NEW run, NEW done, WellBuilt(b, run, done)
    PROVE  WellBuilt(FlushSegment(b), run, done) /\ FlushSegment(b).kind = "none"
           /\ FlushSegment(b).pending = b.pending
<1>1. CASE b.kind = "none"
    BY <1>1 DEF FlushSegment
<1>2. CASE b.kind # "none"
    <2> DEFINE b2 == FlushSegment(b)
               x == Open(b)
    <2>1. b2 = [run |-> run, items |-> Append(b.items, x), index |-> b.index + 1,
                kind |-> "none", at |-> b.at, parts |-> <<>>, steps |-> <<>>, pending |-> b.pending]
        <3>1. PICK items, index, kind, at, parts, steps, pending :
                b = [run |-> run, items |-> items, index |-> index, kind |-> kind, at |-> at,
                     parts |-> parts, steps |-> steps, pending |-> pending]
            BY DEF WellBuilt
        <3> QED
            BY <1>2, <3>1 DEF FlushSegment, Open
    <2>0. /\ b2.items = Append(b.items, x) /\ b2.index = b.index + 1 /\ b2.run = b.run
          /\ b2.parts = <<>> /\ b2.steps = <<>> /\ b2.pending = b.pending /\ b2.kind = "none"
        <3>1. b.run = run
            BY DEF WellBuilt
        <3> HIDE DEF x
        <3> QED
            BY <2>1, <3>1
    <2>2. x = [kind |-> b.kind, id |-> SegmentId(b), parts |-> b.parts, steps |-> b.steps,
               at |-> b.at]
        BY DEF Open, Bubble
    <2>3. Open(b2) = [kind |-> "none", id |-> SegmentId(b2), parts |-> <<>>, steps |-> <<>>,
                      at |-> b.at]
        BY <2>1 DEF Open, Bubble
    <2>4. Building(b.items, x, b.pending, {c.at : c \in done}) /\ b.index \in Nat
          /\ b.kind \in {"message", "thought"}
        BY <1>2 DEF WellBuilt
    <2>5. ~IsCard(x) /\ IsItem(x) /\ Before(Span(b.items), Times(x)) /\ Chain(b.items)
        BY <1>2, <2>2, <2>4 DEF IsCard, IsItem, Building, OpenTimes, Times, Before
    <2> HIDE DEF b2, x
    <2>6. Building(b2.items, Open(b2), b2.pending, {c.at : c \in done})
        <3>1. b.at \in Nat
            BY <2>2, <2>4 DEF Building
        <3> QED
            BY <1>2, <2>1, <2>2, <2>3, <2>4, <3>1, CloseSegment
    <2>7. /\ All(Texts(b2.items)) = All(Texts(b.items)) \union ToSet(b.parts)
          /\ All(Steps(b2.items)) = All(Steps(b.items)) \union ToSet(b.steps)
          /\ Cards(b2.items) = Cards(b.items)
        <3>1. /\ All(Texts(Append(b.items, x))) = All(Texts(b.items)) \union ToSet(x.parts)
              /\ All(Steps(Append(b.items, x))) = All(Steps(b.items)) \union ToSet(x.steps)
              /\ Cards(Append(b.items, x)) = Cards(b.items) \union {}
            BY <2>5, ChainAppend
        <3> QED
            BY <2>0, <2>2, <3>1
    <2>8. Holds(b2, done)
        BY <2>1, <2>7, EmptyList DEF Holds, WellBuilt
    <2>9. Numbered(b2)
        <3>1. Numbered(b) /\ IsSeq(b.items) /\ x.id = SegmentId(b)
            BY <2>2, <2>5 DEF WellBuilt, Chain
        <3> QED
            BY <2>0, <2>4, <3>1, NumberNext
    <2>10. OfAKind(b2)
        BY <1>2, <2>1, <2>2, <2>5, KindAppend DEF OfAKind, WellBuilt, Chain
    <2>11. WellBuilt(b2, run, done)
        BY <2>1, <2>4, <2>6, <2>8, <2>9, <2>10 DEF WellBuilt
    <2> QED
        BY <2>1, <2>11 DEF b2
<1> QED
    BY <1>1, <1>2

LEMMA FlushPendingStepsKeeps ==
    ASSUME NEW b, NEW run, NEW done, WellBuilt(b, run, done), b.kind = "none"
    PROVE  WellBuilt(FlushPendingSteps(b), run, done) /\ FlushPendingSteps(b).kind = "none"
           /\ FlushPendingSteps(b).pending = <<>>
<1>1. CASE b.pending = <<>>
    BY <1>1 DEF FlushPendingSteps
<1>2. CASE b.pending # <<>>
    <2> DEFINE b2 == FlushPendingSteps(b)
               x == Bubble(SegmentId(b), "steps", <<>>, b.pending, b.pending[1].at)
    <2>1. b2 = [run |-> run, items |-> Append(b.items, x), index |-> b.index + 1,
                kind |-> "none", at |-> b.at, parts |-> b.parts, steps |-> b.steps,
                pending |-> <<>>]
        <3>1. PICK items, index, kind, at, parts, steps, pending :
                b = [run |-> run, items |-> items, index |-> index, kind |-> kind, at |-> at,
                     parts |-> parts, steps |-> steps, pending |-> pending]
            BY DEF WellBuilt
        <3> QED
            BY <1>2, <3>1 DEF FlushPendingSteps
    <2>0. /\ b2.items = Append(b.items, x) /\ b2.index = b.index + 1 /\ b2.run = b.run
          /\ b2.parts = b.parts /\ b2.steps = b.steps /\ b2.pending = <<>> /\ b2.kind = "none"
        <3>1. b.run = run
            BY DEF WellBuilt
        <3> HIDE DEF x
        <3> QED
            BY <2>1, <3>1
    <2>2. x = [kind |-> "steps", id |-> SegmentId(b), parts |-> <<>>, steps |-> b.pending,
               at |-> b.pending[1].at]
        BY DEF Bubble
    <2>3. Open(b2).kind = "none" /\ Open(b2).parts = Open(b).parts /\ Open(b2).at = Open(b).at
          /\ Open(b2).steps = Open(b).steps /\ Open(b).kind = "none"
          /\ Open(b).parts = b.parts /\ Open(b).steps = b.steps
        BY <2>1 DEF Open, Bubble
    <2>4. Building(b.items, Open(b), b.pending, {c.at : c \in done}) /\ b.index \in Nat
        BY DEF WellBuilt
    <2> HIDE DEF b2, x
    <2>5. Building(Append(b.items, x), Open(b), <<>>, {c.at : c \in done})
        BY <1>2, <2>2, <2>3, <2>4, ClosePending
    <2>6. Building(b2.items, Open(b2), b2.pending, {c.at : c \in done})
        <3>1. OpenTimes(Open(b2), <<>>) = OpenTimes(Open(b), <<>>)
            BY <2>3 DEF OpenTimes
        <3>2. Building(Append(b.items, x), Open(b2), <<>>, {c.at : c \in done})
            BY <2>3, <2>5, <3>1 DEF Building
        <3> QED
            BY <2>0, <3>2
    <2>7. ~IsCard(x) /\ IsItem(x) /\ Before(Span(b.items), Times(x)) /\ Chain(b.items)
        <3>1. 1 \in DOMAIN b.pending /\ b.pending[1] \in Chunks
            BY <1>2, <2>4, EmptySeq, LenProperties, ElementOfSeq DEF Building, List
        <3>2. x.at \in TimesOf(b.pending) /\ x.at \in Nat
            BY <2>2, <3>1 DEF TimesOf, Chunks
        <3>3. Times(x) \subseteq OpenTimes(Open(b), b.pending)
            BY <2>2, <3>2, EmptyList DEF Times, OpenTimes
        <3>4. Before(Span(b.items), Times(x))
            BY <2>4, <3>3 DEF Building, Before
        <3> QED
            BY <2>2, <2>4, <3>2, <3>4, EmptyList DEF IsCard, IsItem, Building
    <2>8. /\ All(Texts(b2.items)) = All(Texts(b.items))
          /\ All(Steps(b2.items)) = All(Steps(b.items)) \union ToSet(b.pending)
          /\ Cards(b2.items) = Cards(b.items)
        <3>1. /\ All(Texts(Append(b.items, x))) = All(Texts(b.items)) \union ToSet(x.parts)
              /\ All(Steps(Append(b.items, x))) = All(Steps(b.items)) \union ToSet(x.steps)
              /\ Cards(Append(b.items, x)) = Cards(b.items) \union {}
            BY <2>7, ChainAppend
        <3> QED
            BY <2>0, <2>2, <3>1, EmptyList
    <2>9. Holds(b2, done)
        <3>1. Holds(b, done)
            BY DEF WellBuilt
        <3>2. b2.parts = b.parts /\ b2.steps = b.steps /\ ToSet(b2.pending) = {}
            BY <2>1, EmptyList
        <3> QED
            BY <2>8, <3>1, <3>2 DEF Holds
    <2>10. Numbered(b2)
        <3>1. Numbered(b) /\ IsSeq(b.items) /\ x.id = SegmentId(b)
            BY <2>2, <2>7 DEF WellBuilt, Chain
        <3> QED
            BY <2>0, <2>4, <3>1, NumberNext
    <2>11. OfAKind(b2)
        BY <2>1, <2>2, <2>7, KindAppend DEF OfAKind, WellBuilt, Chain
    <2>12. WellBuilt(b2, run, done)
        BY <2>1, <2>4, <2>6, <2>9, <2>10, <2>11 DEF WellBuilt
    <2> QED
        BY <2>1, <2>12 DEF b2
<1> QED
    BY <1>1, <1>2

LEMMA ChunkIs == ASSUME NEW c \in Chunks PROVE Chunk(c.update, c.at) = c /\ c.at \in Nat
BY DEF Chunk, Chunks

\* What one more chunk adds to what was added.
LEMMA OneMore ==
    ASSUME NEW done, NEW c
    PROVE  /\ {d.at : d \in done \union {c}} = {d.at : d \in done} \union {c.at}
           /\ {d \in done \union {c} : d.update \in Visible}
                = {d \in done : d.update \in Visible} \union IF c.update \in Visible THEN {c} ELSE {}
           /\ {d \in done \union {c} : HasStep(d.update)}
                = {d \in done : HasStep(d.update)} \union IF HasStep(c.update) THEN {c} ELSE {}
           /\ {CardAt(d.at) : d \in {e \in done \union {c} : e.update = "ask"}}
                = {CardAt(d.at) : d \in {e \in done : e.update = "ask"}}
                    \union IF c.update = "ask" THEN {CardAt(c.at)} ELSE {}
OBVIOUS

LEMMA KindsApart ==
    ASSUME NEW u
    PROVE  /\ SegmentKind(u) \in {"message", "thought"}
           /\ u \in Visible => ~HasStep(u) /\ u # "ask"
           /\ HasStep(u) => u \notin Visible /\ u # "ask"
BY DEF SegmentKind, HasStep, Visible

LEMMA AddTextKeeps ==
    ASSUME NEW b, NEW run, NEW done, WellBuilt(b, run, done), NEW c \in Chunks,
           c.update \in Visible, Before({d.at : d \in done}, {c.at})
    PROVE  WellBuilt(AddText(b, c.update, c.at), run, done \union {c})
<1> DEFINE kind == SegmentKind(c.update)
           ready == IF b.kind = kind THEN b ELSE FlushSegment(b)
           begun == IF ready.kind = "none" THEN StartSegment(ready, kind, c.at) ELSE ready
           b2 == [begun EXCEPT !.parts = Append(@, c)]
<1>1. AddText(b, c.update, c.at) = b2
    BY ChunkIs DEF AddText
<1>2. WellBuilt(ready, run, done) /\ ready.kind \in {"none", kind}
    BY FlushSegmentKeeps
<1>3. kind \in {"message", "thought"} /\ ~HasStep(c.update) /\ c.update # "ask"
    BY KindsApart
<1>4. c.at \in Nat
    BY ChunkIs
<1> DEFINE r == ready
<1>5. b2 = [run |-> run, items |-> r.items, index |-> r.index, kind |-> kind,
            at |-> IF r.kind = "none" THEN c.at ELSE r.at,
            parts |-> Append(r.parts, c),
            steps |-> IF r.kind = "none" THEN r.pending ELSE r.steps,
            pending |-> IF r.kind = "none" THEN <<>> ELSE r.pending]
    <2> HIDE DEF ready, kind
    <2>1. PICK items, index, k, at, parts, steps, pending :
            r = [run |-> run, items |-> items, index |-> index, kind |-> k, at |-> at,
                 parts |-> parts, steps |-> steps, pending |-> pending]
        BY <1>2 DEF WellBuilt
    <2>2. CASE r.kind = "none"
        <3>1. begun = [run |-> run, items |-> items, index |-> index, kind |-> kind, at |-> c.at,
                       parts |-> parts, steps |-> pending, pending |-> <<>>]
            BY <2>1, <2>2 DEF StartSegment
        <3> HIDE DEF begun
        <3>2. b2 = [run |-> run, items |-> items, index |-> index, kind |-> kind, at |-> c.at,
                    parts |-> Append(parts, c), steps |-> pending, pending |-> <<>>]
            <4>1. ASSUME NEW s, NEW i, NEW p,
                         s = [run |-> run, items |-> items, index |-> index, kind |-> kind,
                              at |-> i, parts |-> parts, steps |-> pending, pending |-> p]
                  PROVE  [s EXCEPT !.parts = Append(@, c)]
                            = [run |-> run, items |-> items, index |-> index, kind |-> kind,
                               at |-> i, parts |-> Append(parts, c), steps |-> pending,
                               pending |-> p]
                BY <4>1
            <4> QED
                BY <3>1, <4>1
        <3> HIDE DEF b2
        <3>3. r.items = items /\ r.index = index /\ r.parts = parts /\ r.pending = pending
            BY <2>1
        <3> QED
            BY <2>2, <3>2, <3>3
    <2>3. CASE r.kind # "none"
        BY <1>2, <2>1, <2>3
    <2> QED
        BY <2>2, <2>3
<1> HIDE DEF b2, ready, kind
<1>6. /\ Building(r.items, Open(r), r.pending, {d.at : d \in done})
      /\ r.index \in Nat /\ Holds(r, done) /\ Numbered(r) /\ OfAKind(r) /\ r.run = run
    BY <1>2 DEF WellBuilt
<1>7. Open(r) = [kind |-> r.kind, id |-> SegmentId(r), parts |-> r.parts, steps |-> r.steps,
                 at |-> r.at]
    BY DEF Open, Bubble
<1>8. Open(b2) = [kind |-> kind, id |-> SegmentId(b2), parts |-> b2.parts, steps |-> b2.steps,
                  at |-> b2.at]
    BY <1>5 DEF Open, Bubble
<1>9. b2.items = r.items /\ b2.index = r.index /\ b2.run = r.run /\ b2.parts = Append(r.parts, c)
      /\ b2.kind = kind
    BY <1>5, <1>6
<1>10. Building(b2.items, Open(b2), b2.pending, {d.at : d \in done} \union {c.at})
       /\ ToSet(b2.parts) = ToSet(r.parts) \union {c}
       /\ ToSet(b2.steps) \union ToSet(b2.pending) = ToSet(r.steps) \union ToSet(r.pending)
    <2>1. CASE r.kind = "none"
        <3>1. r.parts = <<>> /\ r.steps = <<>>
            BY <1>6, <1>7, <2>1 DEF Building
        <3>2. b2.parts = <<c>> /\ b2.at = c.at /\ b2.steps = r.pending /\ b2.pending = <<>>
            BY <1>5, <2>1, <3>1
        <3>3. Building(r.items, Open(b2), <<>>, {d.at : d \in done} \union {c.at})
            <4>1. Open(b2).kind # "none" /\ Open(b2).parts = <<c>> /\ Open(b2).steps = r.pending
                  /\ Open(b2).at = c.at /\ Open(r).kind = "none"
                BY <1>3, <1>7, <1>8, <2>1, <3>2
            <4> QED
                BY <1>6, <4>1, BeginSegment
        <3> QED
            BY <1>9, <3>1, <3>2, <3>3, OneChunk, EmptyList
    <2>2. CASE r.kind # "none"
        <3>1. b2.at = r.at /\ b2.steps = r.steps /\ b2.pending = r.pending /\ r.kind = kind
            BY <1>2, <1>5, <2>2
        <3>2. Open(b2).kind = Open(r).kind /\ Open(b2).parts = Append(Open(r).parts, c)
              /\ Open(b2).steps = Open(r).steps /\ Open(b2).at = Open(r).at
              /\ Open(r).kind # "none"
            BY <1>7, <1>8, <1>9, <2>2, <3>1
        <3>3. Building(r.items, Open(b2), r.pending, {d.at : d \in done} \union {c.at})
            BY <1>6, <3>2, AddPart
        <3>4. ToSet(Append(r.parts, c)) = ToSet(r.parts) \union {c}
            <4>1. List(r.parts) /\ Before(TimesOf(r.parts), {c.at})
                BY <1>6, <1>7 DEF Building, OpenTimes, Before
            <4> QED
                BY <4>1, ListAppend
        <3> QED
            BY <1>9, <3>1, <3>3, <3>4
    <2> QED
        BY <2>1, <2>2
<1>11. Holds(b2, done \union {c})
    BY <1>3, <1>6, <1>9, <1>10, OneMore DEF Holds
<1>12. Numbered(b2)
    BY <1>6, <1>9 DEF Numbered
<1>13. OfAKind(b2)
    <2>1. ASSUME NEW k \in DOMAIN b2.parts PROVE SegmentKind(b2.parts[k].update) = kind
        <3>1. b2.parts[k] \in ToSet(r.parts) \union {c}
            BY <1>10 DEF ToSet
        <3>2. CASE b2.parts[k] = c
            BY <3>2 DEF kind
        <3>3. CASE b2.parts[k] \in ToSet(r.parts)
            <4>1. PICK j \in DOMAIN r.parts : b2.parts[k] = r.parts[j]
                BY <3>3 DEF ToSet
            <4>2. r.kind = kind
                BY <1>2, <1>6, <1>7, <4>1, EmptySeq DEF Building
            <4> QED
                BY <1>3, <1>6, <4>1, <4>2 DEF OfAKind
        <3> QED
            BY <3>1, <3>2, <3>3
    <2> QED
        BY <1>6, <1>9, <2>1 DEF OfAKind
<1>14. {d.at : d \in done \union {c}} = {d.at : d \in done} \union {c.at}
    BY OneMore
<1>15. WellBuilt(b2, run, done \union {c})
    BY <1>3, <1>5, <1>6, <1>9, <1>10, <1>11, <1>12, <1>13, <1>14 DEF WellBuilt
<1> QED
    BY <1>1, <1>15

LEMMA AddUpdateKeeps ==
    ASSUME NEW b, NEW run, NEW done, WellBuilt(b, run, done), NEW c \in Chunks,
           c.update # "ask", Before({d.at : d \in done}, {c.at})
    PROVE  WellBuilt(AddUpdate(b, c.update, c.at), run, done \union {c})
<1>1. CASE c.update \in Visible
    <2>1. AddUpdate(b, c.update, c.at) = AddText(b, c.update, c.at)
        BY <1>1, KindsApart DEF AddUpdate
    <2>2. WellBuilt(AddText(b, c.update, c.at), run, done \union {c})
        BY <1>1, AddTextKeeps
    <2> QED
        BY <2>1, <2>2
<1>2. CASE HasStep(c.update)
    <2> DEFINE r == FlushSegment(b)
               b2 == [r EXCEPT !.pending = Append(@, c)]
    <2>1. AddUpdate(b, c.update, c.at) = b2
        BY <1>2, ChunkIs, KindsApart DEF AddUpdate
    <2>2. WellBuilt(r, run, done) /\ r.kind = "none"
        BY FlushSegmentKeeps
    <2>3. b2 = [run |-> run, items |-> r.items, index |-> r.index, kind |-> r.kind, at |-> r.at,
                parts |-> r.parts, steps |-> r.steps, pending |-> Append(r.pending, c)]
        <3> HIDE DEF r
        <3>1. PICK items, index, k, at, parts, steps, pending :
                r = [run |-> run, items |-> items, index |-> index, kind |-> k, at |-> at,
                     parts |-> parts, steps |-> steps, pending |-> pending]
            BY <2>2 DEF WellBuilt
        <3> QED
            BY <3>1
    <2> HIDE DEF b2, r
    <2>4. /\ Building(r.items, Open(r), r.pending, {d.at : d \in done})
          /\ r.index \in Nat /\ Holds(r, done) /\ Numbered(r) /\ OfAKind(r) /\ r.run = run
        BY <2>2 DEF WellBuilt
    <2>5. b2.items = r.items /\ b2.index = r.index /\ b2.run = r.run /\ b2.parts = r.parts
          /\ b2.kind = r.kind /\ b2.steps = r.steps /\ b2.at = r.at
          /\ b2.pending = Append(r.pending, c)
        BY <2>3, <2>4
    <2>6. Open(b2) = Open(r) /\ Open(r).kind = "none"
        BY <2>2, <2>5 DEF Open, Bubble, SegmentId
    <2>7. Building(r.items, Open(r), Append(r.pending, c), {d.at : d \in done} \union {c.at})
        BY <2>4, <2>6, AddPending
    <2>8. ToSet(Append(r.pending, c)) = ToSet(r.pending) \union {c}
        <3>1. List(r.pending) /\ Before(TimesOf(r.pending), {c.at})
            BY <2>4 DEF Building, OpenTimes, Before
        <3> QED
            BY <3>1, ListAppend
    <2>9. Holds(b2, done \union {c})
        <3>1. c.update \notin Visible /\ c.update # "ask"
            BY <1>2, KindsApart
        <3> QED
            BY <1>2, <2>4, <2>5, <2>8, <3>1, OneMore DEF Holds
    <2>10. Numbered(b2) /\ OfAKind(b2)
        BY <2>4, <2>5 DEF Numbered, OfAKind
    <2>11. {d.at : d \in done \union {c}} = {d.at : d \in done} \union {c.at}
        BY OneMore
    <2>12. WellBuilt(b2, run, done \union {c})
        BY <2>2, <2>3, <2>4, <2>5, <2>6, <2>7, <2>9, <2>10, <2>11 DEF WellBuilt
    <2> QED
        BY <2>1, <2>12
<1>3. CASE c.update \notin Visible /\ ~HasStep(c.update)
    <2>1. AddUpdate(b, c.update, c.at) = b
        BY <1>3 DEF AddUpdate
    <2>2. Holds(b, done \union {c})
        BY <1>3, OneMore DEF WellBuilt, Holds
    <2>3. Building(b.items, Open(b), b.pending, {d.at : d \in done \union {c}})
        <3>1. Building(b.items, Open(b), b.pending, {d.at : d \in done})
            BY DEF WellBuilt
        <3>2. {d.at : d \in done} \subseteq Nat
            BY <3>1 DEF Building
        <3>3. {d.at : d \in done \union {c}} = {d.at : d \in done} \union {c.at}
            BY OneMore
        <3>4. {d.at : d \in done} \union {c.at} \in SUBSET Nat
            BY <3>2, ChunkIs
        <3> QED
            BY <3>1, <3>3, <3>4, SeenGrows
    <2> QED
        BY <2>1, <2>2, <2>3 DEF WellBuilt
<1> QED
    BY <1>1, <1>2, <1>3

LEMMA AddPermissionKeeps ==
    ASSUME NEW b, NEW run, NEW done, WellBuilt(b, run, done), NEW c \in Chunks,
           c.update = "ask", Before({d.at : d \in done}, {c.at})
    PROVE  WellBuilt(AddPermission(b, CardAt(c.at)), run, done \union {c})
<1> DEFINE r == FlushPendingSteps(FlushSegment(b))
           x == CardAt(c.at)
           b2 == [r EXCEPT !.items = Append(@, x)]
<1>1. AddPermission(b, CardAt(c.at)) = b2
    BY DEF AddPermission
<1>2. WellBuilt(r, run, done) /\ r.kind = "none" /\ r.pending = <<>>
    BY FlushSegmentKeeps, FlushPendingStepsKeeps
<1>3. b2 = [run |-> run, items |-> Append(r.items, x), index |-> r.index, kind |-> r.kind,
            at |-> r.at, parts |-> r.parts, steps |-> r.steps, pending |-> r.pending]
    <2> HIDE DEF r, x
    <2>1. PICK items, index, k, at, parts, steps, pending :
            r = [run |-> run, items |-> items, index |-> index, kind |-> k, at |-> at,
                 parts |-> parts, steps |-> steps, pending |-> pending]
        BY <1>2 DEF WellBuilt
    <2> QED
        BY <2>1
<1>4. IsCard(x) /\ x.at = c.at /\ x.parts = <<>> /\ x.steps = <<>>
      /\ x.kind = "permission_request"
    BY DEF IsCard, CardAt, Card
<1> HIDE DEF b2, r, x
<1>5. /\ Building(r.items, Open(r), r.pending, {d.at : d \in done})
      /\ r.index \in Nat /\ Holds(r, done) /\ Numbered(r) /\ OfAKind(r) /\ r.run = run
    BY <1>2 DEF WellBuilt
<1>6. b2.items = Append(r.items, x) /\ b2.index = r.index /\ b2.run = r.run /\ b2.parts = r.parts
      /\ b2.kind = r.kind /\ b2.steps = r.steps /\ b2.at = r.at /\ b2.pending = r.pending
    BY <1>3, <1>5
<1>7. Open(b2) = Open(r) /\ Open(r).kind = "none"
    BY <1>2, <1>6 DEF Open, Bubble, SegmentId
<1>8. c.at \in Nat
    BY ChunkIs
<1>9. Building(Append(r.items, x), Open(r), <<>>, {d.at : d \in done} \union {c.at})
    BY <1>2, <1>4, <1>5, <1>7, <1>8, AddCard
<1>10. Chain(r.items) /\ IsItem(x) /\ Before(Span(r.items), Times(x))
    <2>1. Times(x) = {c.at}
        BY <1>4, EmptyList DEF Times
    <2> QED
        BY <1>4, <1>5, <1>8, <2>1, EmptyList DEF Building, Before, IsItem
<1>11. /\ All(Texts(b2.items)) = All(Texts(r.items)) \union {}
       /\ All(Steps(b2.items)) = All(Steps(r.items)) \union {}
       /\ Cards(b2.items) = Cards(r.items) \union {x}
    BY <1>4, <1>6, <1>10, ChainAppend, EmptyList
<1>12. Holds(b2, done \union {c})
    <2>1. c.update \notin Visible /\ ~HasStep(c.update)
        BY KindsApart
    <2> QED
        BY <1>5, <1>6, <1>11, <2>1, OneMore DEF Holds, x
<1>13. Numbered(b2)
    <2>1. IsSeq(r.items)
        BY <1>10 DEF Chain
    <2>2. IdsUnique(b2.items)
        BY <1>4, <1>5, <1>6, <2>1, IdsAppend DEF Numbered
    <2>3. \A n \in DOMAIN b2.items :
             b2.items[n] = x \/ (n \in DOMAIN r.items /\ b2.items[n] = r.items[n])
        BY <1>6, <2>1, AppendItem
    <2> QED
        BY <1>4, <1>5, <1>6, <2>2, <2>3 DEF Numbered
<1>14. OfAKind(b2)
    <2>1. IsSeq(r.items)
        BY <1>10 DEF Chain
    <2>2. SegmentsOfAKind(b2.items)
        BY <1>4, <1>5, <1>6, <2>1, KindAppend DEF OfAKind
    <2> QED
        BY <1>2, <1>6, <2>2 DEF OfAKind
<1>15. {d.at : d \in done \union {c}} = {d.at : d \in done} \union {c.at}
    BY OneMore
<1>16. WellBuilt(b2, run, done \union {c})
    BY <1>2, <1>3, <1>5, <1>6, <1>7, <1>9, <1>12, <1>13, <1>14, <1>15 DEF WellBuilt
<1> QED
    BY <1>1, <1>16 DEF x

LEMMA AddKeeps ==
    ASSUME NEW b, NEW run, NEW done, WellBuilt(b, run, done), NEW c \in Chunks,
           Before({d.at : d \in done}, {c.at})
    PROVE  WellBuilt(Add(b, c), run, done \union {c})
<1>1. CASE c.update = "ask"
    <2>1. Add(b, c) = AddPermission(b, CardAt(c.at))
        BY <1>1 DEF Add
    <2>2. WellBuilt(AddPermission(b, CardAt(c.at)), run, done \union {c})
        BY <1>1, AddPermissionKeeps
    <2> QED
        BY <2>1, <2>2
<1>2. CASE c.update # "ask"
    <2>1. Add(b, c) = AddUpdate(b, c.update, c.at)
        BY <1>2 DEF Add
    <2>2. WellBuilt(AddUpdate(b, c.update, c.at), run, done \union {c})
        BY <1>2, AddUpdateKeeps
    <2> QED
        BY <2>1, <2>2
<1> QED
    BY <1>1, <1>2

\* The items that are built of a list of chunks show what was in it.
Shows(items, run, done) ==
    /\ Chain(items) /\ Span(items) \subseteq {c.at : c \in done}
    /\ All(Texts(items)) = {c \in done : c.update \in Visible}
    /\ All(Steps(items)) = {c \in done : HasStep(c.update)}
    /\ Cards(items) = {CardAt(c.at) : c \in {d \in done : d.update = "ask"}}
    /\ IdsUnique(items) /\ SegmentsOfAKind(items)
    /\ \A n \in DOMAIN items : ~IsCard(items[n]) =>
          \E j \in Nat : items[n].id = <<run, "segment", j>>

LEMMA FinishShows ==
    ASSUME NEW b, NEW run, NEW done, WellBuilt(b, run, done)
    PROVE  Shows(Finish(b).items, run, done)
<1> DEFINE r == Finish(b)
<1>1. WellBuilt(r, run, done) /\ r.kind = "none" /\ r.pending = <<>>
    BY FlushSegmentKeeps, FlushPendingStepsKeeps DEF Finish
<1> HIDE DEF r
<1>2. Building(r.items, Open(r), r.pending, {c.at : c \in done})
      /\ Holds(r, done) /\ Numbered(r) /\ OfAKind(r) /\ r.run = run
    BY <1>1 DEF WellBuilt
<1>3. r.parts = <<>> /\ r.steps = <<>>
    BY <1>1, <1>2 DEF Building, Open, Bubble
<1>4. All(Texts(r.items)) = {c \in done : c.update \in Visible}
      /\ All(Steps(r.items)) = {c \in done : HasStep(c.update)}
      /\ Cards(r.items) = {CardAt(c.at) : c \in {d \in done : d.update = "ask"}}
    BY <1>1, <1>2, <1>3, EmptyList DEF Holds
<1>5. Chain(r.items) /\ Span(r.items) \subseteq {c.at : c \in done}
    BY <1>2 DEF Building
<1>6. Shows(r.items, run, done)
    BY <1>2, <1>4, <1>5 DEF Shows, Numbered, OfAKind
<1> QED
    BY <1>6 DEF r

First(q, n) == {q[k] : k \in 1 .. n}

LEMMA FirstGrows ==
    ASSUME NEW q, List(q), NEW n \in 1 .. Len(q)
    PROVE  /\ n \in Nat /\ n - 1 \in Nat /\ n \in DOMAIN q /\ q[n] \in Chunks
           /\ First(q, n) = First(q, n - 1) \union {q[n]}
           /\ Before({c.at : c \in First(q, n - 1)}, {q[n].at})
<1>1. q \in Seq(Chunks) /\ Len(q) \in Nat /\ DOMAIN q = 1 .. Len(q)
    BY LenProperties DEF List
<1>2. n \in Nat /\ n - 1 \in Nat /\ n \in DOMAIN q /\ q[n] \in Chunks
    BY <1>1, ElementOfSeq
<1>3. \A k \in 1 .. n : k = n \/ k \in 1 .. n - 1
    BY <1>2
<1>4. n \in 1 .. n /\ \A k \in 1 .. n - 1 : k \in 1 .. n /\ k < n /\ k \in DOMAIN q
    BY <1>1, <1>2
<1>5. First(q, n) = First(q, n - 1) \union {q[n]}
    BY <1>3, <1>4 DEF First
<1>6. Before({c.at : c \in First(q, n - 1)}, {q[n].at})
    BY <1>2, <1>4 DEF First, Before, List
<1> QED
    BY <1>2, <1>5, <1>6

LEMMA BuildShows ==
    ASSUME NEW run, NEW q, List(q)
    PROVE  Shows(Build(run, q), run, ToSet(q))
<1>1. Len(q) \in Nat /\ DOMAIN q = 1 .. Len(q)
    BY LenProperties DEF List
<1>2. PICK f : Folds(f, run, q, Len(q)) /\ Build(run, q) = Finish(f[Len(q)]).items
    BY <1>1, BuildFolds
<1>3. \A n \in 0 .. Len(q) : f[n] = IF n = 0 THEN Unstarted(run) ELSE Add(f[n - 1], q[n])
    BY <1>2 DEF Folds
<1> DEFINE Good(n) == WellBuilt(f[n], run, First(q, n))
           Bad == {n \in 0 .. Len(q) : ~Good(n)}
<1>4. Bad = {}
    <2> SUFFICES ASSUME Bad # {} PROVE FALSE
        OBVIOUS
    <2>1. PICK n \in Bad : \A m \in Bad : n <= m
        <3>1. Bad \subseteq Nat
            BY <1>1
        <3> HIDE DEF Bad
        <3> QED
            BY <3>1, LeastElement
    <2>2. n \in 0 .. Len(q) /\ ~Good(n)
        BY <2>1
    <2>3. n # 0
        <3>1. First(q, 0) = {}
            BY DEF First
        <3>2. f[0] = Unstarted(run)
            BY <1>1, <1>3
        <3>3. Good(0)
            BY <3>1, <3>2, UnstartedBuilt
        <3> HIDE DEF Good
        <3> QED
            BY <2>2, <3>3
    <2>4. n \in 1 .. Len(q) /\ n - 1 \in 0 .. Len(q) /\ ~(n <= n - 1)
        BY <1>1, <2>2, <2>3
    <2>5. Good(n - 1)
        <3> HIDE DEF Good
        <3> QED
            BY <2>1, <2>4
    <2>6. WellBuilt(Add(f[n - 1], q[n]), run, First(q, n - 1) \union {q[n]})
        BY <2>4, <2>5, FirstGrows, AddKeeps
    <2>7. f[n] = Add(f[n - 1], q[n])
        BY <1>3, <2>2, <2>3
    <2> QED
        BY <2>2, <2>4, <2>6, <2>7, FirstGrows
<1>5. WellBuilt(f[Len(q)], run, First(q, Len(q)))
    <2>1. Len(q) \in 0 .. Len(q)
        BY <1>1
    <2>2. Good(Len(q))
        <3> HIDE DEF Good
        <3> QED
            BY <1>4, <2>1
    <2> QED
        BY <2>2
<1>6. First(q, Len(q)) = ToSet(q)
    BY <1>1 DEF First, ToSet
<1> QED
    BY <1>2, <1>5, <1>6, FinishShows
-----------------------------------------------------------------------------
(* What is recorded of a run or of a replay. *)

Recordings == [kind : Updates \union {"ask", "decision", "user"},
               approval : Approvals \union {"none"}]
Rows(n) == [at : 0 .. n, status : {"none", "pending", "decided"}]

\* A run has no chunks of the user, and a replay no requests; what the page missed
\* was stored.
Recorded ==
    /\ of \in {"run", "session"} /\ over \in BOOLEAN
    /\ log \in Seq(Recordings) /\ rows \in [Approvals -> Rows(Len(log))]
    /\ missed \subseteq DOMAIN log
    /\ \A i \in DOMAIN log : log[i].kind = "ask" => log[i].approval \in Approvals
    /\ of = "run" => \A i \in DOMAIN log : log[i].kind # "user"
    /\ of = "session" =>
          /\ ~over /\ \A a \in Approvals : rows[a].status = "none"
          /\ \A i \in DOMAIN log : log[i].kind \notin {"ask", "decision"}

LEMMA LogIs ==
    ASSUME Recorded
    PROVE  /\ Len(log) \in Nat /\ DOMAIN log = 1 .. Len(log)
           /\ \A i \in DOMAIN log : log[i] \in Recordings /\ i \in Nat
<1>1. log \in Seq(Recordings)
    BY DEF Recorded
<1> QED
    BY <1>1, LenProperties, ElementOfSeq

LEMMA LogGrows ==
    ASSUME Recorded, NEW kind \in Updates \union {"ask", "decision", "user"},
           NEW approval \in Approvals \union {"none"}, Store(kind, approval)
    PROVE  /\ log' \in Seq(Recordings) /\ Len(log') = Len(log) + 1 /\ DOMAIN log' = 1 .. Len(log) + 1
           /\ log'[Len(log) + 1] = [kind |-> kind, approval |-> approval]
           /\ \A i \in DOMAIN log : i \in DOMAIN log' /\ log'[i] = log[i]
           /\ \A i \in DOMAIN log' : i = Len(log) + 1 \/ i \in DOMAIN log
<1> DEFINE e == [kind |-> kind, approval |-> approval]
<1>1. log \in Seq(Recordings) /\ Len(log) \in Nat /\ DOMAIN log = 1 .. Len(log)
    BY LogIs DEF Recorded
<1>2. e \in Recordings
    BY DEF Recordings
<1>3. log' = Append(log, e)
    BY DEF Store
<1> HIDE DEF e
<1>4. /\ log' \in Seq(Recordings) /\ Len(log') = Len(log) + 1
      /\ \A i \in 1 .. Len(log) : log'[i] = log[i]
      /\ log'[Len(log) + 1] = e
    BY <1>1, <1>2, <1>3, AppendProperties
<1>5. DOMAIN log' = 1 .. Len(log) + 1
    BY <1>1, <1>4, LenProperties
<1> QED
    BY <1>1, <1>4, <1>5 DEF e

LEMMA InitRecorded == Init => Recorded
<1> SUFFICES ASSUME Init PROVE Recorded
    OBVIOUS
<1>1. log \in Seq(Recordings) /\ Len(log) = 0 /\ DOMAIN log = {}
    BY EmptySeq DEF Init
<1>2. NoRow \in Rows(Len(log)) /\ NoRow.status = "none"
    BY <1>1 DEF NoRow, Rows
<1>3. rows \in [Approvals -> Rows(Len(log))] /\ \A a \in Approvals : rows[a] = NoRow
    BY <1>2 DEF Init
<1> QED
    BY <1>1, <1>2, <1>3 DEF Init, Recorded

LEMMA RowsGrow ==
    ASSUME NEW n \in Nat
    PROVE  Rows(n) \subseteq Rows(n + 1)
BY DEF Rows

LEMMA StoreRecorded ==
    ASSUME Recorded, NEW kind \in Updates \union {"ask", "decision", "user"},
           NEW approval \in Approvals \union {"none"}, Store(kind, approval),
           over' = over, rows' \in [Approvals -> Rows(Len(log'))],
           missed' \subseteq missed \union {Len(log')},
           kind = "ask" => approval \in Approvals, of = "run" => kind # "user",
           of = "session" => kind \notin {"ask", "decision"} /\ rows' = rows
    PROVE  Recorded'
<1>1. of' = of
    BY DEF Store
<1> DEFINE e == [kind |-> kind, approval |-> approval]
<1>2. /\ log' \in Seq(Recordings)
      /\ \A i \in DOMAIN log' : (i \in DOMAIN log /\ log'[i] = log[i]) \/ log'[i] = e
      /\ missed' \subseteq DOMAIN log'
    <2>1. /\ log' \in Seq(Recordings) /\ Len(log') = Len(log) + 1 /\ DOMAIN log' = 1 .. Len(log) + 1
          /\ log'[Len(log) + 1] = e
          /\ \A i \in DOMAIN log : i \in DOMAIN log' /\ log'[i] = log[i]
          /\ \A i \in DOMAIN log' : i = Len(log) + 1 \/ i \in DOMAIN log
        BY LogGrows
    <2>2. Len(log) \in Nat /\ missed \subseteq DOMAIN log
        BY LogIs DEF Recorded
    <2> HIDE DEF e
    <2>3. Len(log') \in DOMAIN log' /\ missed \subseteq DOMAIN log'
        BY <2>1, <2>2
    <2> QED
        BY <2>1, <2>3
<1>3. e.kind = kind /\ e.approval = approval
    OBVIOUS
<1> HIDE DEF e
<1>4. \A i \in DOMAIN log' : log'[i].kind = "ask" => log'[i].approval \in Approvals
    BY <1>2, <1>3 DEF Recorded
<1>5. of = "run" => \A i \in DOMAIN log' : log'[i].kind # "user"
    BY <1>2, <1>3 DEF Recorded
<1>6. of = "session" => \A i \in DOMAIN log' : log'[i].kind \notin {"ask", "decision"}
    BY <1>2, <1>3 DEF Recorded
<1>7. of = "session" => ~over' /\ \A a \in Approvals : rows'[a].status = "none"
    BY DEF Recorded
<1>8. of' \in {"run", "session"} /\ over' \in BOOLEAN
    BY <1>1 DEF Recorded
<1> QED
    BY <1>1, <1>2, <1>4, <1>5, <1>6, <1>7, <1>8 DEF Recorded

LEMMA NextRecorded == Recorded /\ [Next]_vars => Recorded'
<1> SUFFICES ASSUME Recorded, [Next]_vars PROVE Recorded'
    OBVIOUS
<1>0. Len(log) \in Nat /\ DOMAIN log = 1 .. Len(log) /\ Len(log) + 1 \notin DOMAIN log
    BY LogIs
<1>1. ASSUME NEW update \in Updates, SessionUpdate(update) PROVE Recorded'
    <2>1. Store(update, "none") /\ rows' = rows /\ of = "run" /\ of' = of /\ over' = over
          /\ missed' \subseteq missed \union {Len(log')}
        BY <1>1 DEF SessionUpdate, Store
    <2>2. update \notin {"ask", "decision", "user"}
        BY DEF Updates
    <2>3. rows' \in [Approvals -> Rows(Len(log'))]
        BY <1>0, <2>1, RowsGrow, LogGrows DEF Recorded
    <2> QED
        BY <2>1, <2>2, <2>3, StoreRecorded
<1>2. ASSUME NEW a \in Approvals, RequestPermission(a) PROVE Recorded'
    <2>1. Store("ask", a) /\ of = "run" /\ of' = of /\ over' = over
          /\ missed' = missed
          /\ rows' = [rows EXCEPT ![a] = [at |-> Len(log'), status |-> "pending"]]
        BY <1>2 DEF RequestPermission, Store
    <2>2. Len(log') = Len(log) + 1
        BY <2>1, LogGrows
    <2>3. rows \in [Approvals -> Rows(Len(log'))]
        BY <1>0, <2>2, RowsGrow DEF Recorded
    <2>4. [at |-> Len(log'), status |-> "pending"] \in Rows(Len(log'))
        BY <1>0, <2>2 DEF Rows
    <2>5. rows' \in [Approvals -> Rows(Len(log'))]
        BY <2>1, <2>3, <2>4
    <2> QED
        BY <2>1, <2>5, StoreRecorded
<1>3. ASSUME NEW a \in Approvals, DecidePermission(a) PROVE Recorded'
    <2>1. Store("decision", a) /\ of = "run" /\ of' = of /\ over' = over
          /\ missed' = missed
          /\ rows' = [rows EXCEPT ![a].status = "decided"]
        BY <1>3 DEF DecidePermission, Store, Recorded
    <2>2. Len(log') = Len(log) + 1
        BY <2>1, LogGrows
    <2>3. rows \in [Approvals -> Rows(Len(log'))]
        BY <1>0, <2>2, RowsGrow DEF Recorded
    <2>4. [rows[a] EXCEPT !.status = "decided"] \in Rows(Len(log'))
        BY <2>3 DEF Rows
    <2>5. rows' \in [Approvals -> Rows(Len(log'))]
        BY <2>1, <2>3, <2>4
    <2> QED
        BY <2>1, <2>5, StoreRecorded
<1>4. ASSUME Complete PROVE Recorded'
    BY <1>4 DEF Complete, Recorded
<1>5. ASSUME NEW update \in (Updates \ {"truncated"}) \union {"user"}, Replay(update) PROVE Recorded'
    <2>1. Store(update, "none") /\ rows' = rows /\ of = "session" /\ of' = of /\ over' = over
          /\ missed' = missed
        BY <1>5 DEF Replay, Store
    <2>2. update \notin {"ask", "decision"}
        BY DEF Updates
    <2>3. rows' \in [Approvals -> Rows(Len(log'))]
        BY <1>0, <2>1, RowsGrow, LogGrows DEF Recorded
    <2> QED
        BY <2>1, <2>2, <2>3, StoreRecorded
<1>6. ASSUME UNCHANGED vars PROVE Recorded'
    BY <1>6 DEF vars, Recorded
<1> QED
    BY <1>1, <1>2, <1>3, <1>4, <1>5, <1>6 DEF Next
-----------------------------------------------------------------------------
(* A run that is rebuilt. *)

LEMMA EntriesList ==
    ASSUME Recorded
    PROVE  List(Entries) /\ DOMAIN Entries = DOMAIN log
<1>1. Len(log) \in Nat /\ DOMAIN log = 1 .. Len(log)
    BY LogIs
<1>2. ASSUME NEW i \in DOMAIN log PROVE Entries[i] \in Chunks /\ Entries[i].at = i
    <2>1. Entries[i] = Chunk(IF HasEntry(i) THEN log[i].kind ELSE "silent", i)
        BY DEF Entries
    <2>2. HasEntry(i) => log[i].kind \in Updates \union {"ask", "user"}
        BY DEF HasEntry
    <2>3. "silent" \in Updates /\ i \in Nat
        BY <1>1 DEF Updates
    <2> QED
        BY <2>1, <2>2, <2>3 DEF Chunk, Chunks
<1>3. Entries \in Seq(Chunks) /\ DOMAIN Entries = DOMAIN log
    <2>1. Entries = [i \in 1 .. Len(log) |-> Entries[i]]
        BY <1>1 DEF Entries
    <2> QED
        BY <1>1, <1>2, <2>1, IsASeq
<1> QED
    BY <1>2, <1>3 DEF List

\* What is built of the entries is what the kept events hold.
LEMMA RebuiltShows ==
    ASSUME Recorded
    PROVE  /\ Chain(Rebuilt) /\ IdsUnique(Rebuilt) /\ SegmentsOfAKind(Rebuilt)
           /\ All(Texts(Rebuilt)) = {Chunk(log[i].kind, i) :
                                       i \in {n \in DOMAIN log : log[n].kind \in Visible /\ Kept(n)}}
           /\ All(Steps(Rebuilt)) = StoredSteps
           /\ Cards(Rebuilt) = {CardAt(i) : i \in {n \in DOMAIN log :
                                                       log[n].kind = "ask" /\ HasEntry(n)}}
<1>1. Shows(Rebuilt, <<"run">>, ToSet(Entries))
    BY EntriesList, BuildShows DEF Rebuilt
<1>2. ToSet(Entries) = {Entries[i] : i \in DOMAIN log}
    BY EntriesList DEF ToSet
<1>3. \A i \in DOMAIN log :
        /\ Entries[i].update = IF HasEntry(i) THEN log[i].kind ELSE "silent"
        /\ Entries[i].at = i /\ (HasEntry(i) => Entries[i] = Chunk(log[i].kind, i))
    BY DEF Entries, Chunk
<1>4. /\ "silent" \notin Visible /\ ~HasStep("silent")
      /\ "ask" \notin Visible /\ ~HasStep("ask") /\ "ask" \notin Updates
      /\ Visible \subseteq Updates /\ \A u : HasStep(u) => u \in Updates
    BY DEF Visible, HasStep, Updates
<1>5. \A i \in DOMAIN log :
        /\ Entries[i].update \in Visible <=> log[i].kind \in Visible /\ Kept(i)
        /\ HasStep(Entries[i].update) <=> HasStep(log[i].kind) /\ Kept(i)
        /\ Entries[i].update = "ask" <=> log[i].kind = "ask" /\ HasEntry(i)
    <2> SUFFICES ASSUME NEW i \in DOMAIN log
                 PROVE  /\ Entries[i].update \in Visible <=> log[i].kind \in Visible /\ Kept(i)
                        /\ HasStep(Entries[i].update) <=> HasStep(log[i].kind) /\ Kept(i)
                        /\ Entries[i].update = "ask" <=> log[i].kind = "ask" /\ HasEntry(i)
        OBVIOUS
    <2>1. CASE HasEntry(i)
        BY <1>3, <1>4, <2>1 DEF HasEntry
    <2>2. CASE ~HasEntry(i)
        BY <1>3, <1>4, <2>2 DEF HasEntry
    <2> QED
        BY <2>1, <2>2
<1>6. \A i \in DOMAIN log :
        (Entries[i].update \in Visible \/ HasStep(Entries[i].update)) => HasEntry(i)
    BY <1>3, <1>4
<1>7. {c \in ToSet(Entries) : c.update \in Visible}
        = {Chunk(log[i].kind, i) : i \in {n \in DOMAIN log : log[n].kind \in Visible /\ Kept(n)}}
    BY <1>2, <1>3, <1>5, <1>6
<1>8. {c \in ToSet(Entries) : HasStep(c.update)} = StoredSteps
    BY <1>2, <1>3, <1>5, <1>6 DEF StoredSteps
<1>9. {CardAt(c.at) : c \in {d \in ToSet(Entries) : d.update = "ask"}}
        = {CardAt(i) : i \in {n \in DOMAIN log : log[n].kind = "ask" /\ HasEntry(n)}}
    BY <1>2, <1>3, <1>5
<1> QED
    BY <1>1, <1>7, <1>8, <1>9 DEF Shows

LEMMA RebuiltIsStored ==
    ASSUME Recorded, of = "run"
    PROVE  ShowsStored(Rebuilt)
<1>1. \A i \in DOMAIN log : log[i].kind # "user"
    BY DEF Recorded
<1>2. StoredText = {Chunk(log[i].kind, i) :
                      i \in {n \in DOMAIN log : log[n].kind \in Visible /\ Kept(n)}}
    BY <1>1 DEF StoredText
<1> QED
    BY <1>2, RebuiltShows, ChainIsOrdered DEF ShowsStored
-----------------------------------------------------------------------------
(* applyRunStreamEvent. *)

TextUpdates == {"message", "thought", "blank", "empty", "truncated"}

\* The projection holds every chunk with text; of the others it may drop some.
LiveHolds(l, done) ==
    /\ {c \in done : c.update \in {"message", "thought"}}
          \subseteq All(Texts(l.items)) \union ToSet(l.active.parts)
    /\ All(Texts(l.items)) \union ToSet(l.active.parts) \subseteq {c \in done : c.update \in TextUpdates}
    /\ All(Steps(l.items)) \union ToSet(l.active.steps) \union ToSet(l.pending)
          = {c \in done : c.update = "step"}

\* The ids of the bubbles ascend.
LiveNumbered(l) ==
    /\ IdsUnique(l.items)
    /\ \A n \in DOMAIN l.items : ~IsCard(l.items[n]) =>
          l.items[n].id \in Nat /\ l.items[n].id < l.next
    /\ l.active.kind # "none" =>
          /\ l.active.id \in Nat /\ l.active.id < l.next
          /\ \A n \in DOMAIN l.items : ~IsCard(l.items[n]) => l.items[n].id < l.active.id

\* Every item is a bubble or a card.
LiveShaped(l) ==
    \A n \in DOMAIN l.items :
       \/ l.items[n].kind \in {"message", "thought", "steps"}
       \/ l.items[n] = Card(l.items[n].approval, l.items[n].status, l.items[n].at)

\* The live projection l shows the chunks done, at times in seen.
WellFollowed(l, seen, done) ==
    /\ l = [items |-> l.items, next |-> l.next, active |-> l.active, pending |-> l.pending]
    /\ l.active = Bubble(l.active.id, l.active.kind, l.active.parts, l.active.steps, l.active.at)
    /\ l.next \in Nat /\ l.active.kind \in {"none", "message", "thought"}
    /\ Building(l.items, l.active, l.pending, seen)
    /\ LiveHolds(l, done) /\ LiveNumbered(l) /\ LiveShaped(l)

LEMMA NoSegmentIs ==
    /\ NoSegment = [kind |-> "none", id |-> 0, parts |-> <<>>, steps |-> <<>>, at |-> 0]
    /\ NoSegment = Bubble(NoSegment.id, NoSegment.kind, NoSegment.parts, NoSegment.steps, NoSegment.at)
BY DEF NoSegment, Bubble

LEMMA NewFollowed ==
    ASSUME NEW seen \in SUBSET Nat
    PROVE  WellFollowed(NewProjection, seen, {})
<1> DEFINE l == NewProjection
<1>1. l = [items |-> <<>>, next |-> 0, active |-> NoSegment, pending |-> <<>>]
    BY DEF NewProjection
<1>2. l.active.kind = "none" /\ l.active.parts = <<>> /\ l.active.steps = <<>> /\ l.active.at = 0
    BY <1>1, NoSegmentIs
<1> HIDE DEF l
<1>3. Building(l.items, l.active, l.pending, seen)
    BY <1>1, <1>2, EmptyList, NoItems DEF Building, OpenTimes, Before
<1>4. LiveHolds(l, {})
    BY <1>1, <1>2, EmptyList, NoItems DEF LiveHolds
<1>5. DOMAIN l.items = {}
    BY <1>1, EmptySeq
<1>6. LiveNumbered(l) /\ LiveShaped(l)
    BY <1>1, <1>2, <1>5, NoItems DEF LiveNumbered, LiveShaped
<1>7. WellFollowed(l, seen, {})
    BY <1>1, <1>2, <1>3, <1>4, <1>6, NoSegmentIs DEF WellFollowed
<1> QED
    BY <1>7 DEF l

\* One more item whose id comes next, or a card.
LEMMA LiveAppend ==
    ASSUME NEW l, LiveShaped(l), IsSeq(l.items),
           NEW x, NEW items, items = Append(l.items, x),
           \/ x.kind \in {"message", "thought", "steps"}
           \/ x = Card(x.approval, x.status, x.at),
           NEW l2, l2.items = items
    PROVE  LiveShaped(l2)
<1>1. \A n \in DOMAIN items : items[n] = x \/ (n \in DOMAIN l.items /\ items[n] = l.items[n])
    BY AppendItem
<1> QED
    BY <1>1 DEF LiveShaped

LEMMA LiveNumberNext ==
    ASSUME NEW l, LiveNumbered(l), IsSeq(l.items), l.next \in Nat,
           NEW x,
           NEW l2, l2.items = Append(l.items, x), l2.active.kind = "none",
           l2.next \in Nat, l.next <= l2.next,
           \/ IsCard(x)
           \/ /\ x.id \in Nat /\ x.id < l2.next
              /\ \A n \in DOMAIN l.items : ~IsCard(l.items[n]) => l.items[n].id < x.id
    PROVE  LiveNumbered(l2)
<1>1. \A n \in DOMAIN l2.items : l2.items[n] = x \/ (n \in DOMAIN l.items /\ l2.items[n] = l.items[n])
    BY AppendItem
<1>2. \A n \in DOMAIN l.items : ~IsCard(l.items[n]) => l.items[n].id \in Nat /\ l.items[n].id < l.next
    BY DEF LiveNumbered
<1>3. IsCard(x) \/ \A n \in DOMAIN l.items : ~IsCard(l.items[n]) => l.items[n].id # x.id
    BY <1>2
<1>4. IdsUnique(l2.items)
    BY <1>3, IdsAppend DEF LiveNumbered
<1>5. \A n \in DOMAIN l2.items : ~IsCard(l2.items[n]) =>
          l2.items[n].id \in Nat /\ l2.items[n].id < l2.next
    BY <1>1, <1>2
<1> QED
    BY <1>4, <1>5 DEF LiveNumbered

LEMMA FlushActiveKeeps ==
    ASSUME NEW l, NEW seen, NEW done, WellFollowed(l, seen, done)
    PROVE  /\ WellFollowed(FlushActiveSegment(l), seen, done)
           /\ FlushActiveSegment(l).active.kind = "none"
           /\ Cards(FlushActiveSegment(l).items) = Cards(l.items)
<1> DEFINE a == l.active
           l2 == FlushActiveSegment(l)
<1>0. l.next \in Nat /\ l.active.kind \in {"none", "message", "thought"}
      /\ Building(l.items, l.active, l.pending, seen) /\ Chain(l.items) /\ IsSeq(l.items)
      /\ LiveHolds(l, done) /\ LiveNumbered(l) /\ LiveShaped(l)
    BY DEF WellFollowed, Building, Chain
<1>1. CASE a.kind = "none"
    BY <1>1 DEF FlushActiveSegment
<1>2. CASE a.kind # "none" /\ IsBlank(a.parts) /\ a.steps = <<>>
    <2>1. l2 = [items |-> l.items, next |-> l.next, active |-> NoSegment, pending |-> l.pending]
        <3>1. PICK items, next, active, pending :
                l = [items |-> items, next |-> next, active |-> active, pending |-> pending]
            BY DEF WellFollowed
        <3> QED
            BY <1>2, <3>1 DEF FlushActiveSegment
    <2> HIDE DEF l2
    <2>2. l2.items = l.items /\ l2.next = l.next /\ l2.active = NoSegment /\ l2.pending = l.pending
          /\ l2.active.kind = "none" /\ l2.active.parts = <<>> /\ l2.active.steps = <<>>
          /\ l2.active.at = 0
        BY <2>1, NoSegmentIs
    <2>3. l.pending = <<>>
        BY <1>0, <1>2 DEF Building
    <2>4. OpenTimes(l2.active, l2.pending) = {}
        BY <2>2, <2>3, EmptyList DEF OpenTimes
    <2>5. Building(l2.items, l2.active, l2.pending, seen)
        BY <1>0, <2>2, <2>3, <2>4, EmptyList DEF Building, Before
    <2>6. \A c \in ToSet(a.parts) : c.update \notin {"message", "thought"}
        BY <1>2 DEF IsBlank, ToSet
    <2>7. LiveHolds(l2, done)
        BY <1>0, <1>2, <2>2, <2>6, EmptyList DEF LiveHolds
    <2>8. LiveNumbered(l2) /\ LiveShaped(l2)
        BY <1>0, <2>2 DEF LiveNumbered, LiveShaped
    <2>9. WellFollowed(l2, seen, done)
        BY <1>0, <2>1, <2>2, <2>5, <2>7, <2>8, NoSegmentIs DEF WellFollowed
    <2> QED
        BY <2>2, <2>9 DEF l2
<1>3. CASE a.kind # "none" /\ ~(IsBlank(a.parts) /\ a.steps = <<>>)
    <2>1. l2 = [items |-> Append(l.items, a), next |-> l.next, active |-> NoSegment,
                pending |-> l.pending]
        <3>1. PICK items, next, active, pending :
                l = [items |-> items, next |-> next, active |-> active, pending |-> pending]
            BY DEF WellFollowed
        <3> QED
            BY <1>3, <3>1 DEF FlushActiveSegment
    <2> HIDE DEF l2
    <2>2. l2.items = Append(l.items, a) /\ l2.next = l.next /\ l2.active = NoSegment
          /\ l2.pending = l.pending
          /\ l2.active.kind = "none" /\ l2.active.parts = <<>> /\ l2.active.steps = <<>>
          /\ l2.active.at = 0
        BY <2>1, NoSegmentIs
    <2>3. Building(l2.items, l2.active, l2.pending, seen)
        BY <1>0, <1>3, <2>2, CloseSegment
    <2>4. ~IsCard(a) /\ IsItem(a) /\ Before(Span(l.items), Times(a))
        BY <1>0, <1>3 DEF IsCard, IsItem, Building, OpenTimes, Times, Before
    <2>5. /\ All(Texts(l2.items)) = All(Texts(l.items)) \union ToSet(a.parts)
          /\ All(Steps(l2.items)) = All(Steps(l.items)) \union ToSet(a.steps)
          /\ Cards(l2.items) = Cards(l.items)
        <3>1. /\ All(Texts(Append(l.items, a))) = All(Texts(l.items)) \union ToSet(a.parts)
              /\ All(Steps(Append(l.items, a))) = All(Steps(l.items)) \union ToSet(a.steps)
              /\ Cards(Append(l.items, a)) = Cards(l.items) \union {}
            BY <1>0, <2>4, ChainAppend
        <3> QED
            BY <2>2, <3>1
    <2>6. LiveHolds(l2, done)
        BY <1>0, <2>2, <2>5, EmptyList DEF LiveHolds
    <2>7. LiveNumbered(l2)
        <3>1. /\ a.id \in Nat /\ a.id < l2.next /\ l.next <= l2.next /\ l2.next \in Nat
              /\ \A n \in DOMAIN l.items : ~IsCard(l.items[n]) => l.items[n].id < a.id
            BY <1>0, <1>3, <2>2 DEF LiveNumbered
        <3> QED
            BY <1>0, <2>2, <3>1, LiveNumberNext
    <2>8. LiveShaped(l2)
        BY <1>0, <1>3, <2>2, LiveAppend
    <2>9. WellFollowed(l2, seen, done)
        BY <1>0, <2>1, <2>2, <2>3, <2>6, <2>7, <2>8, NoSegmentIs DEF WellFollowed
    <2> QED
        BY <2>2, <2>5, <2>9 DEF l2
<1> QED
    BY <1>1, <1>2, <1>3

LEMMA FlushLiveStepsKeeps ==
    ASSUME NEW l, NEW seen, NEW done, WellFollowed(l, seen, done), l.active.kind = "none"
    PROVE  /\ WellFollowed(FlushLiveSteps(l), seen, done)
           /\ FlushLiveSteps(l).active.kind = "none" /\ FlushLiveSteps(l).pending = <<>>
           /\ Cards(FlushLiveSteps(l).items) = Cards(l.items)
<1> DEFINE x == Bubble(l.next, "steps", <<>>, l.pending, l.pending[1].at)
           l2 == FlushLiveSteps(l)
<1>0. l.next \in Nat /\ l.active.kind \in {"none", "message", "thought"}
      /\ Building(l.items, l.active, l.pending, seen) /\ Chain(l.items) /\ IsSeq(l.items)
      /\ LiveHolds(l, done) /\ LiveNumbered(l) /\ LiveShaped(l)
    BY DEF WellFollowed, Building, Chain
<1>1. CASE l.pending = <<>>
    BY <1>1 DEF FlushLiveSteps
<1>2. CASE l.pending # <<>>
    <2>1. l2 = [items |-> Append(l.items, x), next |-> l.next + 1, active |-> l.active,
                pending |-> <<>>]
        <3>1. PICK items, next, active, pending :
                l = [items |-> items, next |-> next, active |-> active, pending |-> pending]
            BY DEF WellFollowed
        <3> QED
            BY <1>2, <3>1 DEF FlushLiveSteps
    <2>2. x.kind = "steps" /\ x.id = l.next /\ x.parts = <<>> /\ x.steps = l.pending
          /\ x.at = l.pending[1].at
        BY DEF Bubble
    <2> HIDE DEF l2, x
    <2>3. l2.items = Append(l.items, x) /\ l2.next = l.next + 1 /\ l2.active = l.active
          /\ l2.pending = <<>>
        BY <2>1
    <2>4. Building(l2.items, l2.active, l2.pending, seen)
        BY <1>0, <1>2, <2>2, <2>3, ClosePending
    <2>5. ~IsCard(x) /\ IsItem(x) /\ Before(Span(l.items), Times(x))
        <3>1. 1 \in DOMAIN l.pending /\ l.pending[1] \in Chunks
            BY <1>0, <1>2, EmptySeq, LenProperties, ElementOfSeq DEF Building, List
        <3>2. x.at \in TimesOf(l.pending) /\ x.at \in Nat
            BY <2>2, <3>1 DEF TimesOf, Chunks
        <3>3. Times(x) \subseteq OpenTimes(l.active, l.pending)
            BY <2>2, <3>2, EmptyList DEF Times, OpenTimes
        <3>4. Before(Span(l.items), Times(x))
            BY <1>0, <3>3 DEF Building, Before
        <3> QED
            BY <1>0, <2>2, <3>2, <3>4, EmptyList DEF IsCard, IsItem, Building
    <2>6. /\ All(Texts(l2.items)) = All(Texts(l.items))
          /\ All(Steps(l2.items)) = All(Steps(l.items)) \union ToSet(l.pending)
          /\ Cards(l2.items) = Cards(l.items)
        <3>1. /\ All(Texts(Append(l.items, x))) = All(Texts(l.items)) \union ToSet(x.parts)
              /\ All(Steps(Append(l.items, x))) = All(Steps(l.items)) \union ToSet(x.steps)
              /\ Cards(Append(l.items, x)) = Cards(l.items) \union {}
            BY <1>0, <2>5, ChainAppend
        <3> QED
            BY <2>2, <2>3, <3>1, EmptyList
    <2>7. LiveHolds(l2, done)
        BY <1>0, <2>3, <2>6, EmptyList DEF LiveHolds
    <2>8. LiveNumbered(l2)
        <3>1. /\ x.id \in Nat /\ x.id < l2.next /\ l.next <= l2.next /\ l2.next \in Nat
              /\ \A n \in DOMAIN l.items : ~IsCard(l.items[n]) => l.items[n].id < x.id
            BY <1>0, <2>2, <2>3 DEF LiveNumbered
        <3> QED
            BY <1>0, <2>3, <3>1, LiveNumberNext
    <2>9. LiveShaped(l2)
        BY <1>0, <2>2, <2>3, LiveAppend
    <2>10. WellFollowed(l2, seen, done)
        BY <1>0, <2>1, <2>3, <2>4, <2>7, <2>8, <2>9 DEF WellFollowed
    <2> QED
        BY <2>3, <2>6, <2>10 DEF l2
<1> QED
    BY <1>1, <1>2

\* What one more chunk adds to what was seen.
LEMMA OneMoreLive ==
    ASSUME NEW done, NEW c
    PROVE  /\ {d \in done \union {c} : d.update \in {"message", "thought"}}
                = {d \in done : d.update \in {"message", "thought"}}
                     \union IF c.update \in {"message", "thought"} THEN {c} ELSE {}
           /\ {d \in done \union {c} : d.update \in TextUpdates}
                = {d \in done : d.update \in TextUpdates}
                     \union IF c.update \in TextUpdates THEN {c} ELSE {}
           /\ {d \in done \union {c} : d.update = "step"}
                = {d \in done : d.update = "step"} \union IF c.update = "step" THEN {c} ELSE {}
OBVIOUS

\* An update that leaves nothing.
LEMMA FollowedMore ==
    ASSUME NEW l, NEW seen, NEW done, WellFollowed(l, seen, done),
           NEW more \in SUBSET Nat, seen \subseteq more, NEW c,
           c.update # "step" /\ c.update \notin TextUpdates
    PROVE  WellFollowed(l, more, done \union {c})
<1>1. c.update \notin {"message", "thought"}
    BY DEF TextUpdates
<1>2. LiveHolds(l, done \union {c})
    BY <1>1, OneMoreLive DEF WellFollowed, LiveHolds
<1> QED
    BY <1>2, SeenGrows DEF WellFollowed

LEMMA LiveTextKeeps ==
    ASSUME NEW l, NEW seen, NEW done, WellFollowed(l, seen, done), NEW c \in Chunks,
           c.update \in TextUpdates, Before(seen, {c.at})
    PROVE  /\ WellFollowed(LiveText(l, c.update, c.at), seen \union {c.at}, done \union {c})
           /\ Cards(LiveText(l, c.update, c.at).items) = Cards(l.items)
<1> DEFINE kind == SegmentKind(c.update)
           ready == IF l.active.kind = kind THEN l ELSE FlushActiveSegment(l)
           begun == IF ready.active.kind = "none" THEN StartLiveSegment(ready, kind, c.at) ELSE ready
           l2 == [begun EXCEPT !.active.parts = Append(@, c)]
<1>1. LiveText(l, c.update, c.at) = l2
    BY ChunkIs DEF LiveText
<1>2. WellFollowed(ready, seen, done) /\ ready.active.kind \in {"none", kind}
      /\ Cards(ready.items) = Cards(l.items)
    BY FlushActiveKeeps
<1>3. kind \in {"message", "thought"}
    BY KindsApart
<1>4. c.at \in Nat /\ c.update # "step"
    BY ChunkIs DEF TextUpdates
<1> DEFINE r == ready
           a == Bubble(IF r.active.kind = "none" THEN r.next ELSE r.active.id, kind,
                       IF r.active.kind = "none" THEN <<c>> ELSE Append(r.active.parts, c),
                       IF r.active.kind = "none" THEN r.pending ELSE r.active.steps,
                       IF r.active.kind = "none" THEN c.at ELSE r.active.at)
<1>5. l2 = [items |-> r.items, next |-> IF r.active.kind = "none" THEN r.next + 1 ELSE r.next,
            active |-> a, pending |-> IF r.active.kind = "none" THEN <<>> ELSE r.pending]
    <2> HIDE DEF ready, kind
    <2>1. PICK items, next, active, pending :
            r = [items |-> items, next |-> next, active |-> active, pending |-> pending]
        BY <1>2 DEF WellFollowed
    <2>2. CASE r.active.kind = "none"
        <3>1. begun = [items |-> items, next |-> next + 1,
                       active |-> Bubble(next, kind, <<>>, pending, c.at), pending |-> <<>>]
            BY <2>1, <2>2 DEF StartLiveSegment
        <3> HIDE DEF begun
        <3>2. [Bubble(next, kind, <<>>, pending, c.at) EXCEPT !.parts = Append(@, c)]
                = Bubble(next, kind, <<c>>, pending, c.at)
            BY DEF Bubble
        <3>3. l2 = [items |-> items, next |-> next + 1,
                    active |-> Bubble(next, kind, <<c>>, pending, c.at), pending |-> <<>>]
            <4>1. l2 = [begun EXCEPT !.active = [begun.active EXCEPT !.parts = Append(@, c)]]
                BY <3>1
            <4>2. ASSUME NEW p, NEW q, NEW s,
                         s = [items |-> items, next |-> next + 1, active |-> p, pending |-> <<>>]
                  PROVE  s.active = p /\ [s EXCEPT !.active = q]
                            = [items |-> items, next |-> next + 1, active |-> q, pending |-> <<>>]
                BY <4>2
            <4> HIDE DEF l2
            <4>3. begun.active = Bubble(next, kind, <<>>, pending, c.at)
                BY <3>1, <4>2
            <4>4. [begun.active EXCEPT !.parts = Append(@, c)] = Bubble(next, kind, <<c>>, pending, c.at)
                BY <3>2, <4>3
            <4>5. l2 = [begun EXCEPT !.active = Bubble(next, kind, <<c>>, pending, c.at)]
                BY <4>1, <4>4
            <4> QED
                BY <3>1, <4>2, <4>5
        <3> HIDE DEF l2
        <3>4. r.items = items /\ r.next = next /\ r.active = active /\ r.pending = pending
            BY <2>1
        <3>5. a = Bubble(next, kind, <<c>>, pending, c.at)
            BY <2>2, <3>4
        <3> HIDE DEF a
        <3> QED
            BY <2>2, <3>3, <3>4, <3>5
    <2>3. CASE r.active.kind # "none"
        <3>1. begun = r /\ r.active.kind = kind
            BY <1>2, <2>3
        <3>2. r.active = Bubble(r.active.id, kind, r.active.parts, r.active.steps, r.active.at)
            BY <1>2, <3>1 DEF WellFollowed
        <3>3. [r.active EXCEPT !.parts = Append(@, c)] = a
            <4> DEFINE new == Append(r.active.parts, c)
            <4>1. PICK id, parts, steps, at : r.active = Bubble(id, kind, parts, steps, at)
                BY <3>2
            <4>2. r.active.id = id /\ r.active.steps = steps /\ r.active.at = at
                BY <4>1 DEF Bubble
            <4>3. a = Bubble(r.active.id, kind, new, r.active.steps, r.active.at)
                BY <2>3
            <4> HIDE DEF new, a
            <4>4. [r.active EXCEPT !.parts = new] = Bubble(id, kind, new, steps, at)
                BY <4>1 DEF Bubble
            <4> QED
                BY <4>2, <4>3, <4>4 DEF new
        <3> HIDE DEF begun, a
        <3>4. [r EXCEPT !.active = a]
                = [items |-> r.items, next |-> r.next, active |-> a, pending |-> r.pending]
            BY <2>1
        <3>5. l2 = [r EXCEPT !.active = [r.active EXCEPT !.parts = Append(@, c)]]
            BY <2>1, <3>1
        <3> QED
            BY <2>3, <3>3, <3>4, <3>5
    <2> QED
        BY <2>2, <2>3
<1>6. /\ r.next \in Nat /\ r.active.kind \in {"none", "message", "thought"}
      /\ Building(r.items, r.active, r.pending, seen) /\ Chain(r.items) /\ IsSeq(r.items)
      /\ LiveHolds(r, done) /\ LiveNumbered(r) /\ LiveShaped(r)
    BY <1>2 DEF WellFollowed, Building, Chain
<1>7. /\ a.kind = kind /\ a = Bubble(a.id, a.kind, a.parts, a.steps, a.at)
      /\ a.id = (IF r.active.kind = "none" THEN r.next ELSE r.active.id)
      /\ a.parts = (IF r.active.kind = "none" THEN <<c>> ELSE Append(r.active.parts, c))
      /\ a.steps = (IF r.active.kind = "none" THEN r.pending ELSE r.active.steps)
      /\ a.at = (IF r.active.kind = "none" THEN c.at ELSE r.active.at)
    BY DEF Bubble
<1> HIDE DEF l2, a, ready, kind
<1>8. l2.items = r.items /\ l2.active = a
      /\ l2.next = (IF r.active.kind = "none" THEN r.next + 1 ELSE r.next)
      /\ l2.pending = (IF r.active.kind = "none" THEN <<>> ELSE r.pending)
    BY <1>5
<1>9. Building(l2.items, l2.active, l2.pending, seen \union {c.at})
      /\ ToSet(a.parts) = ToSet(r.active.parts) \union {c}
      /\ ToSet(a.steps) \union ToSet(l2.pending) = ToSet(r.active.steps) \union ToSet(r.pending)
    <2>1. CASE r.active.kind = "none"
        <3>1. r.active.parts = <<>> /\ r.active.steps = <<>>
            BY <1>6, <2>1 DEF Building
        <3>2. a.parts = <<c>> /\ a.at = c.at /\ a.steps = r.pending /\ l2.pending = <<>>
            BY <1>7, <1>8, <2>1
        <3>3. Building(r.items, a, <<>>, seen \union {c.at})
            BY <1>3, <1>6, <1>7, <2>1, <3>2, BeginSegment
        <3> QED
            BY <1>8, <3>1, <3>2, <3>3, OneChunk, EmptyList
    <2>2. CASE r.active.kind # "none"
        <3>1. a.at = r.active.at /\ a.steps = r.active.steps /\ l2.pending = r.pending
              /\ a.parts = Append(r.active.parts, c) /\ a.kind = r.active.kind
            BY <1>2, <1>7, <1>8, <2>2
        <3>2. Building(r.items, a, r.pending, seen \union {c.at})
            BY <1>6, <2>2, <3>1, AddPart
        <3>3. ToSet(Append(r.active.parts, c)) = ToSet(r.active.parts) \union {c}
            <4>1. List(r.active.parts) /\ Before(TimesOf(r.active.parts), {c.at})
                BY <1>6 DEF Building, OpenTimes, Before
            <4> QED
                BY <4>1, ListAppend
        <3> QED
            BY <1>8, <3>1, <3>2, <3>3
    <2> QED
        BY <2>1, <2>2
<1>10. LiveHolds(l2, done \union {c})
    BY <1>4, <1>6, <1>8, <1>9, OneMoreLive DEF LiveHolds
<1>11. LiveNumbered(l2) /\ l2.next \in Nat
    <2>1. \A n \in DOMAIN r.items : ~IsCard(r.items[n]) =>
             r.items[n].id \in Nat /\ r.items[n].id < r.next
        BY <1>6 DEF LiveNumbered
    <2>2. CASE r.active.kind = "none"
        <3>1. l2.next = r.next + 1 /\ a.id = r.next
            BY <1>7, <1>8, <2>2
        <3> QED
            BY <1>6, <1>8, <2>1, <3>1 DEF LiveNumbered
    <2>3. CASE r.active.kind # "none"
        <3>1. l2.next = r.next /\ a.id = r.active.id
            BY <1>7, <1>8, <2>3
        <3> QED
            BY <1>6, <1>8, <2>3, <3>1 DEF LiveNumbered
    <2> QED
        BY <2>2, <2>3
<1>12. LiveShaped(l2)
    BY <1>6, <1>8 DEF LiveShaped
<1>13. l2 = [items |-> l2.items, next |-> l2.next, active |-> l2.active, pending |-> l2.pending]
    BY <1>5, <1>8
<1>14. WellFollowed(l2, seen \union {c.at}, done \union {c})
    BY <1>3, <1>7, <1>8, <1>9, <1>10, <1>11, <1>12, <1>13 DEF WellFollowed
<1> QED
    BY <1>1, <1>2, <1>8, <1>14

LEMMA LiveStepKeeps ==
    ASSUME NEW l, NEW seen, NEW done, WellFollowed(l, seen, done), NEW c \in Chunks,
           c.update = "step", Before(seen, {c.at})
    PROVE  /\ WellFollowed(LiveStep(l, c.at), seen \union {c.at}, done \union {c})
           /\ Cards(LiveStep(l, c.at).items) = Cards(l.items)
<1> DEFINE l2 == LiveStep(l, c.at)
<1>0. /\ l.next \in Nat /\ l.active.kind \in {"none", "message", "thought"}
      /\ Building(l.items, l.active, l.pending, seen)
      /\ LiveHolds(l, done) /\ LiveNumbered(l) /\ LiveShaped(l)
    BY DEF WellFollowed
<1>1. c = Chunk("step", c.at) /\ c.update \notin TextUpdates /\ c.update \notin {"message", "thought"}
    BY ChunkIs DEF TextUpdates
<1>2. CASE l.active.kind = "none"
    <2>1. l2 = [items |-> l.items, next |-> l.next, active |-> l.active,
                pending |-> Append(l.pending, c)]
        <3>1. PICK items, next, active, pending :
                l = [items |-> items, next |-> next, active |-> active, pending |-> pending]
            BY DEF WellFollowed
        <3> QED
            BY <1>1, <1>2, <3>1 DEF LiveStep
    <2> HIDE DEF l2
    <2>2. l2.items = l.items /\ l2.next = l.next /\ l2.active = l.active
          /\ l2.pending = Append(l.pending, c)
        BY <2>1
    <2>3. Building(l2.items, l2.active, l2.pending, seen \union {c.at})
        BY <1>0, <1>2, <2>2, AddPending
    <2>4. ToSet(l2.pending) = ToSet(l.pending) \union {c}
        <3>1. List(l.pending) /\ Before(TimesOf(l.pending), {c.at})
            BY <1>0 DEF Building, OpenTimes, Before
        <3> QED
            BY <2>2, <3>1, ListAppend
    <2>5. LiveHolds(l2, done \union {c})
        BY <1>0, <1>1, <2>2, <2>4, OneMoreLive DEF LiveHolds
    <2>6. LiveNumbered(l2) /\ LiveShaped(l2)
        BY <1>0, <2>2 DEF LiveNumbered, LiveShaped
    <2>7. WellFollowed(l2, seen \union {c.at}, done \union {c})
        BY <1>0, <2>1, <2>2, <2>3, <2>5, <2>6 DEF WellFollowed
    <2> QED
        BY <2>2, <2>7 DEF l2
<1>3. CASE l.active.kind # "none"
    <2> DEFINE a == Bubble(l.active.id, l.active.kind, l.active.parts, Append(l.active.steps, c),
                           l.active.at)
    <2>1. [l.active EXCEPT !.steps = Append(@, c)] = a
        <3> DEFINE new == Append(l.active.steps, c)
        <3>1. PICK id, kind, parts, steps, at : l.active = Bubble(id, kind, parts, steps, at)
            BY DEF WellFollowed
        <3>2. l.active.id = id /\ l.active.kind = kind /\ l.active.parts = parts /\ l.active.at = at
            BY <3>1 DEF Bubble
        <3> HIDE DEF new
        <3>3. [l.active EXCEPT !.steps = new] = Bubble(id, kind, parts, new, at)
            BY <3>1 DEF Bubble
        <3> QED
            BY <3>2, <3>3 DEF new
    <2>2. a.kind = l.active.kind /\ a.id = l.active.id /\ a.parts = l.active.parts
          /\ a.steps = Append(l.active.steps, c) /\ a.at = l.active.at
          /\ a = Bubble(a.id, a.kind, a.parts, a.steps, a.at)
        BY DEF Bubble
    <2> HIDE DEF a
    <2>3. l2 = [items |-> l.items, next |-> l.next, active |-> a, pending |-> l.pending]
        <3>1. PICK items, next, active, pending :
                l = [items |-> items, next |-> next, active |-> active, pending |-> pending]
            BY DEF WellFollowed
        <3>2. l2 = [l EXCEPT !.active.steps = Append(@, c)]
            BY <1>1, <1>3 DEF LiveStep
        <3>3. l2 = [l EXCEPT !.active = [l.active EXCEPT !.steps = Append(@, c)]]
            BY <3>1, <3>2
        <3>4. [l EXCEPT !.active = a]
                = [items |-> l.items, next |-> l.next, active |-> a, pending |-> l.pending]
            BY <3>1
        <3> QED
            BY <2>1, <3>3, <3>4
    <2> HIDE DEF l2
    <2>4. l2.items = l.items /\ l2.next = l.next /\ l2.active = a /\ l2.pending = l.pending
        BY <2>3
    <2>5. Building(l2.items, l2.active, l2.pending, seen \union {c.at})
        BY <1>0, <1>3, <2>2, <2>4, AddStep
    <2>6. ToSet(a.steps) = ToSet(l.active.steps) \union {c}
        <3>1. List(l.active.steps) /\ Before(TimesOf(l.active.steps), {c.at})
            BY <1>0 DEF Building, OpenTimes, Before
        <3> QED
            BY <2>2, <3>1, ListAppend
    <2>7. LiveHolds(l2, done \union {c})
        <3>1. All(Steps(l2.items)) \union ToSet(l2.active.steps) \union ToSet(l2.pending)
                 = All(Steps(l.items)) \union ToSet(l.active.steps) \union ToSet(l.pending) \union {c}
            BY <2>4, <2>6
        <3>2. All(Texts(l2.items)) \union ToSet(l2.active.parts)
                 = All(Texts(l.items)) \union ToSet(l.active.parts)
            BY <2>2, <2>4
        <3> QED
            BY <1>0, <1>1, <3>1, <3>2, OneMoreLive DEF LiveHolds
    <2>8. LiveNumbered(l2) /\ LiveShaped(l2)
        BY <1>0, <2>2, <2>4 DEF LiveNumbered, LiveShaped
    <2>9. WellFollowed(l2, seen \union {c.at}, done \union {c})
        BY <1>0, <2>2, <2>3, <2>4, <2>5, <2>7, <2>8 DEF WellFollowed
    <2> QED
        BY <2>4, <2>9 DEF l2
<1> QED
    BY <1>2, <1>3

LEMMA LiveUpdateKeeps ==
    ASSUME NEW l, NEW seen, NEW done, WellFollowed(l, seen, done), NEW c \in Chunks,
           c.update \in Updates, Before(seen, {c.at})
    PROVE  /\ WellFollowed(LiveUpdate(l, c.update, c.at), seen \union {c.at}, done \union {c})
           /\ Cards(LiveUpdate(l, c.update, c.at).items) = Cards(l.items)
<1>1. CASE c.update = "step"
    <2>1. LiveUpdate(l, c.update, c.at) = LiveStep(l, c.at)
        BY <1>1 DEF LiveUpdate
    <2> QED
        BY <1>1, <2>1, LiveStepKeeps
<1>2. CASE c.update = "silent"
    <2>1. LiveUpdate(l, c.update, c.at) = l
        BY <1>2 DEF LiveUpdate
    <2>2. c.update \notin TextUpdates /\ c.update # "step"
        BY <1>2 DEF TextUpdates
    <2>3. seen \union {c.at} \in SUBSET Nat
        BY ChunkIs DEF WellFollowed, Building
    <2>4. WellFollowed(l, seen \union {c.at}, done \union {c})
        BY <2>2, <2>3, FollowedMore
    <2> QED
        BY <2>1, <2>4
<1>3. CASE c.update \notin {"step", "silent"}
    <2>1. LiveUpdate(l, c.update, c.at) = LiveText(l, c.update, c.at)
        BY <1>3 DEF LiveUpdate
    <2>2. c.update \in TextUpdates
        BY <1>3 DEF Updates, TextUpdates
    <2>3. /\ WellFollowed(LiveText(l, c.update, c.at), seen \union {c.at}, done \union {c})
          /\ Cards(LiveText(l, c.update, c.at).items) = Cards(l.items)
        BY <2>2, LiveTextKeeps
    <2> QED
        BY <2>1, <2>3
<1> QED
    BY <1>1, <1>2, <1>3

LEMMA LiveCompletedKeeps ==
    ASSUME NEW l, NEW seen, NEW done, WellFollowed(l, seen, done)
    PROVE  /\ WellFollowed(LiveCompleted(l), seen, done)
           /\ LiveCompleted(l).active.kind = "none" /\ LiveCompleted(l).pending = <<>>
           /\ Cards(LiveCompleted(l).items) = Cards(l.items)
<1>1. WellFollowed(FlushActiveSegment(l), seen, done) /\ FlushActiveSegment(l).active.kind = "none"
      /\ Cards(FlushActiveSegment(l).items) = Cards(l.items)
    BY FlushActiveKeeps
<1> QED
    BY <1>1, FlushLiveStepsKeeps DEF LiveCompleted

\* The cards after a request and after a decision.
Asked(cards, a, i) ==
    IF \E card \in cards : card.approval = a THEN cards ELSE cards \union {Card(a, "pending", i)}
Decided(cards, a) ==
    {IF card.approval = a THEN Card(a, "decided", card.at) ELSE card : card \in cards}

LEMMA LiveAskKeeps ==
    ASSUME NEW l, NEW seen, NEW done, WellFollowed(l, seen, done), NEW a, NEW c \in Chunks,
           c.update = "ask", Before(seen, {c.at})
    PROVE  /\ WellFollowed(LiveAsk(l, a, c.at), seen \union {c.at}, done \union {c})
           /\ Cards(LiveAsk(l, a, c.at).items) = Asked(Cards(l.items), a, c.at)
<1> DEFINE f == FlushLiveSteps(FlushActiveSegment(l))
           i == c.at
           x == Card(a, "pending", i)
           l2 == [f EXCEPT !.items = Append(@, x)]
<1>1. WellFollowed(f, seen, done) /\ f.active.kind = "none" /\ f.pending = <<>>
      /\ Cards(f.items) = Cards(l.items)
    BY LiveCompletedKeeps DEF LiveCompleted
<1>2. LiveAsk(l, a, i) = IF HasCard(f, a) THEN f ELSE l2
    BY DEF LiveAsk
<1>3. c.update \notin TextUpdates /\ c.update # "step" /\ seen \union {i} \in SUBSET Nat
      /\ c.update \notin {"message", "thought"} /\ i \in Nat /\ Before(seen, {i})
    BY ChunkIs DEF TextUpdates, WellFollowed, Building
<1>4. f = [items |-> f.items, next |-> f.next, active |-> f.active, pending |-> f.pending]
    BY <1>1 DEF WellFollowed
<1> HIDE DEF f, i, x
<1>5. HasCard(f, a) <=> \E card \in Cards(l.items) : card.approval = a
    BY <1>1 DEF HasCard, Cards
<1>6. CASE HasCard(f, a)
    <2>1. WellFollowed(f, seen \union {i}, done \union {c})
        BY <1>1, <1>3, FollowedMore
    <2> QED
        BY <1>1, <1>2, <1>5, <1>6, <2>1 DEF Asked, i
<1>7. CASE ~HasCard(f, a)
    <2>1. l2 = [items |-> Append(f.items, x), next |-> f.next, active |-> f.active,
                pending |-> f.pending]
        <3>1. PICK items, next, active, pending :
                f = [items |-> items, next |-> next, active |-> active, pending |-> pending]
            BY <1>4
        <3> QED
            BY <3>1
    <2> HIDE DEF l2
    <2>2. l2.items = Append(f.items, x) /\ l2.next = f.next /\ l2.active = f.active
          /\ l2.pending = f.pending
        BY <2>1
    <2>3. x.parts = <<>> /\ x.steps = <<>> /\ x.at = i /\ IsCard(x)
          /\ x = Card(x.approval, x.status, x.at)
        BY DEF x, Card, IsCard
    <2>4. /\ f.next \in Nat /\ Building(f.items, f.active, <<>>, seen)
          /\ Chain(f.items) /\ IsSeq(f.items)
          /\ LiveHolds(f, done) /\ LiveNumbered(f) /\ LiveShaped(f)
        BY <1>1 DEF WellFollowed, Building, Chain
    <2>5. Building(l2.items, l2.active, l2.pending, seen \union {i})
        <3>1. Building(Append(f.items, x), f.active, <<>>, seen \union {i})
            BY <1>1, <1>3, <2>3, <2>4, AddCard
        <3> QED
            BY <1>1, <2>2, <3>1
    <2>6. /\ All(Texts(l2.items)) = All(Texts(f.items))
          /\ All(Steps(l2.items)) = All(Steps(f.items))
          /\ Cards(l2.items) = Cards(f.items) \union {x}
        <3>1. IsItem(x) /\ Before(Span(f.items), Times(x))
            <4>1. Times(x) = {i} /\ IsItem(x)
                BY <1>3, <2>3, EmptyList DEF Times, IsItem
            <4> QED
                BY <1>3, <2>4, <4>1 DEF Building, Before
        <3>2. /\ All(Texts(Append(f.items, x))) = All(Texts(f.items)) \union ToSet(x.parts)
              /\ All(Steps(Append(f.items, x))) = All(Steps(f.items)) \union ToSet(x.steps)
              /\ Cards(Append(f.items, x)) = Cards(f.items) \union {x}
            BY <2>3, <2>4, <3>1, ChainAppend
        <3> QED
            BY <2>2, <2>3, <3>2, EmptyList
    <2>7. LiveHolds(l2, done \union {c})
        BY <1>3, <2>2, <2>4, <2>6, OneMoreLive DEF LiveHolds
    <2>8. LiveNumbered(l2)
        <3>1. l2.active.kind = "none" /\ l2.next \in Nat /\ f.next <= l2.next
            BY <1>1, <2>2, <2>4
        <3> QED
            BY <2>2, <2>3, <2>4, <3>1, LiveNumberNext
    <2>9. LiveShaped(l2)
        BY <2>2, <2>3, <2>4, LiveAppend
    <2>10. WellFollowed(l2, seen \union {i}, done \union {c})
        BY <1>1, <2>1, <2>2, <2>4, <2>5, <2>7, <2>8, <2>9 DEF WellFollowed
    <2>11. Cards(l2.items) = Asked(Cards(l.items), a, i)
        BY <1>1, <1>5, <1>7, <2>6 DEF Asked, x
    <2> QED
        BY <1>2, <1>7, <2>10, <2>11 DEF i
<1> QED
    BY <1>6, <1>7

LEMMA LiveDecideKeeps ==
    ASSUME NEW l, NEW seen, NEW done, WellFollowed(l, seen, done), NEW a
    PROVE  /\ WellFollowed(LiveDecide(l, a), seen, done)
           /\ Cards(LiveDecide(l, a).items) = Decided(Cards(l.items), a)
           /\ LiveDecide(l, a).active = l.active /\ LiveDecide(l, a).pending = l.pending
<1> DEFINE q == l.items
           l2 == LiveDecide(l, a)
           r == [n \in DOMAIN q |-> IF IsCard(q[n]) /\ q[n].approval = a
                                    THEN [q[n] EXCEPT !.status = "decided"] ELSE q[n]]
<1>1. l2 = [items |-> r, next |-> l.next, active |-> l.active, pending |-> l.pending]
    <2>1. PICK items, next, active, pending :
            l = [items |-> items, next |-> next, active |-> active, pending |-> pending]
        BY DEF WellFollowed
    <2> QED
        BY <2>1 DEF LiveDecide
<1>2. /\ l.next \in Nat /\ Building(q, l.active, l.pending, seen) /\ Chain(q) /\ IsSeq(q)
      /\ LiveHolds(l, done) /\ LiveNumbered(l) /\ LiveShaped(l)
    BY DEF WellFollowed, Building, Chain
<1>3. ASSUME NEW n \in DOMAIN q, IsCard(q[n])
      PROVE  q[n] = Card(q[n].approval, q[n].status, q[n].at)
    BY <1>2, <1>3 DEF LiveShaped, IsCard
<1>4. DOMAIN r = DOMAIN q
    OBVIOUS
<1>5. ASSUME NEW n \in DOMAIN q
      PROVE  IF IsCard(q[n]) /\ q[n].approval = a
             THEN r[n] = Card(a, "decided", q[n].at) ELSE r[n] = q[n]
    <2>1. CASE IsCard(q[n]) /\ q[n].approval = a
        <3>1. r[n] = [q[n] EXCEPT !.status = "decided"]
            BY <2>1
        <3>2. q[n] = Card(q[n].approval, q[n].status, q[n].at)
            BY <1>3, <2>1
        <3>3. PICK approval, status, at : q[n] = Card(approval, status, at)
            BY <3>2
        <3>4. approval = a /\ q[n].at = at
            BY <2>1, <3>3 DEF Card
        <3> HIDE DEF r
        <3>5. r[n] = Card(approval, "decided", at)
            BY <3>1, <3>3 DEF Card
        <3> QED
            BY <2>1, <3>4, <3>5
    <2>2. CASE ~(IsCard(q[n]) /\ q[n].approval = a)
        BY <2>2
    <2> QED
        BY <2>1, <2>2
<1>6. IsSeq(r)
    <2>1. PICK S : q \in Seq(S)
        BY <1>2 DEF IsSeq
    <2>2. Len(q) \in Nat /\ DOMAIN q = 1 .. Len(q)
        BY <2>1, LenProperties
    <2>3. r = [n \in 1 .. Len(q) |-> r[n]]
        BY <2>2
    <2> HIDE DEF r, q
    <2>4. \A n \in 1 .. Len(q) : r[n] \in {r[k] : k \in 1 .. Len(q)}
        OBVIOUS
    <2>5. r \in Seq({r[k] : k \in 1 .. Len(q)})
        BY <2>2, <2>3, <2>4, IsASeq
    <2> QED
        BY <2>5 DEF IsSeq
<1> HIDE DEF r, l2
<1>7. \A n \in DOMAIN q : /\ r[n].parts = q[n].parts /\ r[n].steps = q[n].steps /\ r[n].at = q[n].at
                          /\ IsCard(r[n]) <=> IsCard(q[n])
                          /\ ~IsCard(q[n]) => r[n] = q[n]
    <2> SUFFICES ASSUME NEW n \in DOMAIN q
                 PROVE  /\ r[n].parts = q[n].parts /\ r[n].steps = q[n].steps /\ r[n].at = q[n].at
                        /\ IsCard(r[n]) <=> IsCard(q[n])
                        /\ ~IsCard(q[n]) => r[n] = q[n]
        OBVIOUS
    <2>1. CASE IsCard(q[n]) /\ q[n].approval = a
        <3>1. q[n] = Card(q[n].approval, q[n].status, q[n].at)
            BY <1>3, <2>1
        <3>2. q[n].parts = <<>> /\ q[n].steps = <<>>
            BY <3>1 DEF Card
        <3>3. r[n].parts = <<>> /\ r[n].steps = <<>> /\ r[n].at = q[n].at /\ IsCard(r[n])
            <4>1. r[n] = Card(a, "decided", q[n].at)
                BY <1>5, <2>1
            <4>2. \A i : LET x == Card(a, "decided", i)
                        IN  x.parts = <<>> /\ x.steps = <<>> /\ x.at = i /\ IsCard(x)
                BY DEF Card, IsCard
            <4> QED
                BY <4>1, <4>2
        <3> QED
            BY <2>1, <3>2, <3>3
    <2>2. CASE ~(IsCard(q[n]) /\ q[n].approval = a)
        BY <1>5, <2>2
    <2> QED
        BY <2>1, <2>2
<1>8. \A n \in DOMAIN q : Times(r[n]) = Times(q[n])
    BY <1>7 DEF Times
<1>9. Chain(r) /\ Span(r) = Span(q)
    <2>1. \A n \in DOMAIN r : IsItem(r[n])
        BY <1>2, <1>4, <1>7 DEF Chain, IsItem
    <2>2. Span(r) = Span(q)
        BY <1>4, <1>8 DEF Span
    <2> QED
        BY <1>2, <1>4, <1>6, <1>8, <2>1, <2>2 DEF Chain
<1>10. All(Texts(r)) = All(Texts(q)) /\ All(Steps(r)) = All(Steps(q))
    <2>1. /\ \A n \in DOMAIN q : ToSet(r[n].parts) = ToSet(q[n].parts)
          /\ \A n \in DOMAIN q : ToSet(r[n].steps) = ToSet(q[n].steps)
        BY <1>7
    <2>2. /\ All(Texts(r)) = UNION {ToSet(r[n].parts) : n \in DOMAIN r}
          /\ All(Texts(q)) = UNION {ToSet(q[n].parts) : n \in DOMAIN q}
          /\ All(Steps(r)) = UNION {ToSet(r[n].steps) : n \in DOMAIN r}
          /\ All(Steps(q)) = UNION {ToSet(q[n].steps) : n \in DOMAIN q}
        BY AllTexts
    <2> QED
        BY <1>4, <2>1, <2>2
<1>11. Cards(r) = Decided(Cards(q), a)
    <2> DEFINE new(card) == IF card.approval = a THEN Card(a, "decided", card.at) ELSE card
    <2>1. \A n \in DOMAIN q : IsCard(q[n]) => r[n] = new(q[n])
        BY <1>5
    <2>2. Decided(Cards(q), a) = {new(card) : card \in Cards(q)}
        BY DEF Decided
    <2> HIDE DEF new
    <2>3. Cards(r) = {r[n] : n \in {m \in DOMAIN q : IsCard(q[m])}}
        BY <1>4, <1>7 DEF Cards
    <2>4. {new(card) : card \in Cards(q)} = {new(q[n]) : n \in {m \in DOMAIN q : IsCard(q[m])}}
        BY DEF Cards
    <2> QED
        BY <2>1, <2>2, <2>3, <2>4
<1>12. l2.items = r /\ l2.next = l.next /\ l2.active = l.active /\ l2.pending = l.pending
    BY <1>1
<1>13. Building(l2.items, l2.active, l2.pending, seen)
    BY <1>2, <1>9, <1>12 DEF Building
<1>14. LiveHolds(l2, done)
    BY <1>2, <1>10, <1>12 DEF LiveHolds
<1>15. LiveNumbered(l2)
    <2>1. IdsUnique(r)
        BY <1>2, <1>4, <1>7 DEF LiveNumbered, IdsUnique
    <2>2. \A n \in DOMAIN r : n \in DOMAIN q /\ (~IsCard(r[n]) => ~IsCard(q[n]) /\ r[n].id = q[n].id)
        BY <1>4, <1>7
    <2> QED
        BY <1>2, <1>12, <2>1, <2>2 DEF LiveNumbered
<1>16. LiveShaped(l2)
    <2> SUFFICES ASSUME NEW n \in DOMAIN r
                 PROVE  \/ r[n].kind \in {"message", "thought", "steps"}
                        \/ r[n] = Card(r[n].approval, r[n].status, r[n].at)
        BY <1>12 DEF LiveShaped
    <2>1. CASE IsCard(q[n]) /\ q[n].approval = a
        <3>1. r[n] = Card(a, "decided", q[n].at)
            BY <1>4, <1>5, <2>1
        <3> QED
            BY <3>1 DEF Card
    <2>2. CASE ~(IsCard(q[n]) /\ q[n].approval = a)
        <3>1. r[n] = q[n]
            BY <1>4, <1>5, <2>2
        <3> QED
            BY <1>2, <1>4, <3>1 DEF LiveShaped
    <2> QED
        BY <2>1, <2>2
<1>17. WellFollowed(l2, seen, done)
    <2>1. l.active = Bubble(l.active.id, l.active.kind, l.active.parts, l.active.steps, l.active.at)
          /\ l.active.kind \in {"none", "message", "thought"}
        BY DEF WellFollowed
    <2> QED
        BY <1>1, <1>2, <1>12, <1>13, <1>14, <1>15, <1>16, <2>1 DEF WellFollowed
<1> QED
    BY <1>11, <1>12, <1>17 DEF l2
-----------------------------------------------------------------------------
(* The inductive invariant. *)

\* What reached the page, and the places of the requests in the log.
Streamed == IF of = "run" THEN {Chunk(log[i].kind, i) : i \in DOMAIN log \ missed} ELSE {}
Requests == {i \in DOMAIN log : log[i].kind = "ask"}

\* The page has followed all of it; when the run is over, nothing is open.
Followed == WellFollowed(live, 1 .. Len(log), Streamed)
Ended == over => live.active.kind = "none" /\ live.pending = <<>>

\* Without repeated approval ids, every request has a row and a card of its own.
RequestsApart ==
    /\ \A i \in Requests : rows[log[i].approval].at = i
    /\ Cards(live.items) = {CardAt(i) : i \in Requests}

\* AskAgain is a constant: only where ids are not repeated is every request on a card.
ProjectionInv == Recorded /\ Followed /\ Ended /\ (AskAgain \/ RequestsApart)

LEMMA InitProjectionInv == Init => ProjectionInv
<1> SUFFICES ASSUME Init PROVE ProjectionInv
    OBVIOUS
<1>1. Recorded
    BY InitRecorded
<1>2. DOMAIN log = {} /\ Streamed = {} /\ Requests = {}
    BY EmptySeq DEF Init, Streamed, Requests
<1>3. live = NewProjection /\ ~over
    BY DEF Init
<1>4. 1 .. Len(log) \in SUBSET Nat
    BY LogIs, <1>1
<1>5. Followed
    BY <1>2, <1>3, <1>4, NewFollowed DEF Followed
<1>6. live.items = <<>>
    BY <1>3 DEF NewProjection
<1>7. RequestsApart
    BY <1>2, <1>6, NoItems DEF RequestsApart
<1> QED
    BY <1>1, <1>3, <1>5, <1>7 DEF ProjectionInv, Ended

\* One more entry of the log.
LEMMA StreamGrows ==
    ASSUME Recorded, NEW kind \in Updates \union {"ask", "decision", "user"},
           NEW approval \in Approvals \union {"none"}, Store(kind, approval),
           missed' \in {missed, missed \union {Len(log')}}
    PROVE  /\ Len(log') \in Nat /\ 1 .. Len(log') = (1 .. Len(log)) \union {Len(log')}
           /\ 1 .. Len(log) \in SUBSET Nat /\ 1 .. Len(log') \in SUBSET Nat
           /\ Before(1 .. Len(log), {Len(log')})
           /\ Streamed' = Streamed \union IF of = "run" /\ missed' = missed
                                           THEN {Chunk(kind, Len(log'))} ELSE {}
           /\ Requests' = Requests \union IF kind = "ask" THEN {Len(log')} ELSE {}
           /\ \A i \in Requests : i \in DOMAIN log /\ log'[i] = log[i] /\ i # Len(log') /\ i # 0
           /\ log'[Len(log')] = [kind |-> kind, approval |-> approval]
<1>1. Len(log) \in Nat /\ DOMAIN log = 1 .. Len(log)
    BY LogIs
<1>2. /\ Len(log') = Len(log) + 1 /\ DOMAIN log' = 1 .. Len(log) + 1
      /\ log'[Len(log) + 1] = [kind |-> kind, approval |-> approval]
      /\ \A i \in DOMAIN log : i \in DOMAIN log' /\ log'[i] = log[i]
      /\ \A i \in DOMAIN log' : i = Len(log) + 1 \/ i \in DOMAIN log
    BY LogGrows
<1> DEFINE n == Len(log) + 1
<1>3. n \in DOMAIN log' /\ log'[n].kind = kind /\ n \notin DOMAIN log
    BY <1>1, <1>2
<1>4. of' = of
    BY DEF Store
<1> HIDE DEF n
<1> DEFINE stored == {Chunk(log[i].kind, i) : i \in DOMAIN log \ missed}
           storedNext == {Chunk(log'[i].kind, i) : i \in DOMAIN log' \ missed'}
<1>5. storedNext = stored \union IF missed' = missed THEN {Chunk(kind, n)} ELSE {}
    <2>1. n \notin missed /\ Len(log') = n
        BY <1>2, <1>3 DEF Recorded, n
    <2>2. CASE missed' = missed
        <3>1. DOMAIN log' \ missed' = (DOMAIN log \ missed) \union {n}
            BY <1>2, <1>3, <2>1, <2>2 DEF n
        <3> QED
            BY <1>2, <1>3, <2>2, <3>1
    <2>3. CASE missed' = missed \union {n} /\ missed' # missed
        <3>1. DOMAIN log' \ missed' = DOMAIN log \ missed
            BY <1>2, <1>3, <2>3 DEF n
        <3> QED
            BY <1>2, <2>3, <3>1
    <2> QED
        BY <2>1, <2>2, <2>3
<1>6. Streamed' = Streamed \union IF of = "run" /\ missed' = missed THEN {Chunk(kind, n)} ELSE {}
    BY <1>4, <1>5 DEF Streamed
<1>7. Requests' = Requests \union IF kind = "ask" THEN {n} ELSE {}
    BY <1>2, <1>3 DEF Requests, n
<1>8. Before(1 .. Len(log), {n})
    BY <1>1 DEF Before, n
<1>9. n \in Nat /\ 1 .. n = (1 .. Len(log)) \union {n} /\ Len(log') = n
    BY <1>1, <1>2 DEF n
<1>10. \A i \in Requests : i \in DOMAIN log /\ log'[i] = log[i] /\ i # n /\ i # 0
    BY <1>1, <1>2, <1>3 DEF Requests
<1> QED
    BY <1>1, <1>2, <1>6, <1>7, <1>8, <1>9, <1>10 DEF n

LEMMA ChunkOf ==
    ASSUME NEW u \in Updates \union {"ask", "user"}, NEW i \in Nat
    PROVE  Chunk(u, i) \in Chunks /\ Chunk(u, i).update = u /\ Chunk(u, i).at = i
BY DEF Chunk, Chunks

LEMMA SessionUpdateKeeps ==
    ASSUME ProjectionInv, NEW update \in Updates, SessionUpdate(update)
    PROVE  Followed' /\ Ended' /\ (AskAgain \/ RequestsApart')
<1> DEFINE n == Len(log')
           c == Chunk(update, n)
<1>1. Recorded /\ WellFollowed(live, 1 .. Len(log), Streamed)
    BY DEF ProjectionInv, Followed
<1>2. Store(update, "none") /\ rows' = rows /\ of = "run" /\ over' = over /\ ~over
      /\ missed' \in {missed, missed \union {n}}
      /\ IF missed' = missed THEN live' = LiveUpdate(live, update, n) ELSE live' = live
    <2>1. Store(update, "none")
        BY DEF SessionUpdate
    <2>2. n = Len(log) + 1
        BY <1>1, <2>1, LogGrows
    <2>3. Len(log) \in Nat /\ DOMAIN log = 1 .. Len(log) /\ missed \subseteq DOMAIN log
        BY <1>1, LogIs DEF Recorded
    <2>4. n \notin missed
        BY <2>2, <2>3
    <2> HIDE DEF n
    <2>5. \/ live' = LiveUpdate(live, update, n) /\ missed' = missed
          \/ missed' = missed \union {n} /\ live' = live
        BY DEF SessionUpdate, n
    <2>6. rows' = rows /\ of = "run" /\ over' = over /\ ~over
        BY DEF SessionUpdate, Store
    <2> QED
        BY <2>1, <2>4, <2>5, <2>6
<1>3. update \notin {"ask", "decision", "user"}
    BY DEF Updates
<1>4. /\ n \in Nat /\ 1 .. n = (1 .. Len(log)) \union {n}
      /\ 1 .. Len(log) \in SUBSET Nat
      /\ Before(1 .. Len(log), {n}) /\ 1 .. n \in SUBSET Nat
      /\ Streamed' = Streamed \union IF missed' = missed THEN {c} ELSE {}
      /\ Requests' = Requests
      /\ \A i \in Requests : i \in DOMAIN log /\ log'[i] = log[i]
    BY <1>1, <1>2, <1>3, StreamGrows
<1>5. c \in Chunks /\ c.update = update /\ c.at = n
    BY <1>4, ChunkOf
<1> HIDE DEF c, n
<1>6. /\ WellFollowed(LiveUpdate(live, c.update, c.at), (1 .. Len(log)) \union {c.at},
                      Streamed \union {c})
      /\ Cards(LiveUpdate(live, c.update, c.at).items) = Cards(live.items)
    <2>1. Before(1 .. Len(log), {c.at}) /\ c.update \in Updates
        BY <1>4, <1>5
    <2> QED
        BY <1>1, <1>5, <2>1, LiveUpdateKeeps
<1>7. WellFollowed(live', 1 .. n, Streamed') /\ Cards(live'.items) = Cards(live.items)
    <2>1. CASE missed' = missed
        BY <1>2, <1>4, <1>5, <1>6, <2>1
    <2>2. CASE missed' # missed
        <3>1. live' = live /\ Streamed' = Streamed /\ 1 .. Len(log) \subseteq 1 .. n
            BY <1>2, <1>4, <2>2
        <3>2. WellFollowed(live, 1 .. n, Streamed)
            BY <1>1, <1>4, <3>1, SeenGrows DEF WellFollowed
        <3> QED
            BY <3>1, <3>2
    <2> QED
        BY <2>1, <2>2
<1>8. RequestsApart => RequestsApart'
    <2>1. \A i \in Requests : CardAt(i)' = CardAt(i)
        BY <1>2, <1>4 DEF CardAt
    <2> QED
        BY <1>2, <1>4, <1>7, <2>1 DEF RequestsApart
<1> QED
    BY <1>2, <1>7, <1>8 DEF ProjectionInv, Followed, Ended, n

LEMMA RequestPermissionKeeps ==
    ASSUME ProjectionInv, NEW a \in Approvals, RequestPermission(a)
    PROVE  Followed' /\ Ended' /\ (AskAgain \/ RequestsApart')
<1> DEFINE n == Len(log')
<1>1. Recorded /\ WellFollowed(live, 1 .. Len(log), Streamed)
    BY DEF ProjectionInv, Followed
<1>2. Store("ask", a) /\ of = "run" /\ over' = over /\ ~over
      /\ rows' = [rows EXCEPT ![a] = [at |-> n, status |-> "pending"]]
      /\ live' = LiveAsk(live, a, n) /\ (rows[a] = NoRow \/ AskAgain) /\ missed' = missed
    BY DEF RequestPermission, Store
<1>4. /\ n \in Nat /\ 1 .. n = (1 .. Len(log)) \union {n}
      /\ 1 .. Len(log) \in SUBSET Nat
      /\ Before(1 .. Len(log), {n})
      /\ Streamed' = Streamed \union {Chunk("ask", n)}
      /\ Requests' = Requests \union {n}
      /\ \A i \in Requests : i \in DOMAIN log /\ log'[i] = log[i] /\ i # n /\ i # 0
      /\ log'[n] = [kind |-> "ask", approval |-> a]
    BY <1>1, <1>2, StreamGrows
<1>5. rows \in [Approvals -> Rows(Len(log))]
    BY <1>1 DEF Recorded
<1>6. \A i \in Requests : log[i].approval \in Approvals
    BY <1>1 DEF Recorded, Requests
<1> HIDE DEF n
<1>7. /\ WellFollowed(LiveAsk(live, a, n), (1 .. Len(log)) \union {n}, Streamed \union {Chunk("ask", n)})
      /\ Cards(LiveAsk(live, a, n).items) = Asked(Cards(live.items), a, n)
    <2> DEFINE seen == 1 .. Len(log)
               c == Chunk("ask", n)
    <2>1. c \in Chunks /\ c.update = "ask" /\ c.at = n
        BY <1>4, ChunkOf
    <2>2. WellFollowed(live, seen, Streamed) /\ Before(seen, {c.at})
        BY <1>1, <1>4, <2>1
    <2> HIDE DEF seen, c
    <2>3. /\ WellFollowed(LiveAsk(live, a, c.at), seen \union {c.at}, Streamed \union {c})
          /\ Cards(LiveAsk(live, a, c.at).items) = Asked(Cards(live.items), a, c.at)
        BY <2>1, <2>2, LiveAskKeeps
    <2> QED
        BY <2>1, <2>3 DEF seen, c
<1>8. WellFollowed(live', 1 .. n, Streamed')
      /\ Cards(live'.items) = Asked(Cards(live.items), a, n)
    BY <1>2, <1>4, <1>7
<1>9. ASSUME ~AskAgain, RequestsApart PROVE RequestsApart'
    <2>1. rows[a].at = 0
        BY <1>2, <1>9 DEF NoRow
    <2>2. \A i \in Requests : log[i].approval # a
        BY <1>4, <1>9, <2>1 DEF RequestsApart
    <2>3. \A i \in Requests : rows'[log'[i].approval] = rows[log[i].approval]
        BY <1>2, <1>4, <1>5, <1>6, <2>2
    <2>4. rows'[log'[n].approval] = [at |-> n, status |-> "pending"] /\ log'[n].approval = a
        BY <1>2, <1>4, <1>5
    <2>5. \A i \in Requests : CardAt(i)' = CardAt(i) /\ CardAt(i).approval = log[i].approval
        BY <1>4, <2>3 DEF CardAt, Card
    <2>7. \A card \in Cards(live.items) : card.approval # a
        BY <1>9, <2>2, <2>5 DEF RequestsApart
    <2>8. Cards(live'.items) = Cards(live.items) \union {Card(a, "pending", n)}
        BY <1>8, <2>7 DEF Asked
    <2>9. \A i \in Requests' : rows'[log'[i].approval].at = i
        BY <1>4, <1>9, <2>3, <2>4 DEF RequestsApart
    <2> DEFINE CardNext(i) == Card(log'[i].approval, rows'[log'[i].approval].status, i)
    <2>10. Cards(live'.items) = {CardNext(i) : i \in Requests'}
        <3>1. CardNext(n) = Card(a, "pending", n)
            BY <2>4
        <3>2. \A i \in Requests : CardNext(i) = CardAt(i)
            BY <1>4, <2>3 DEF CardAt
        <3> HIDE DEF CardNext
        <3> QED
            BY <1>4, <1>9, <2>8, <3>1, <3>2 DEF RequestsApart
    <2> QED
        BY <2>9, <2>10 DEF RequestsApart, CardAt
<1> QED
    BY <1>2, <1>8, <1>9 DEF ProjectionInv, Followed, Ended, n

LEMMA DecidePermissionKeeps ==
    ASSUME ProjectionInv, NEW a \in Approvals, DecidePermission(a)
    PROVE  Followed' /\ Ended' /\ (AskAgain \/ RequestsApart')
<1> DEFINE n == Len(log')
           c == Chunk("decision", n)
<1>1. Recorded /\ WellFollowed(live, 1 .. Len(log), Streamed)
    BY DEF ProjectionInv, Followed
<1>2. Store("decision", a) /\ of = "run" /\ over' = over /\ ~over
      /\ rows' = [rows EXCEPT ![a].status = "decided"]
      /\ live' = LiveDecide(live, a) /\ missed' = missed
    BY <1>1 DEF DecidePermission, Store, Recorded
<1>4. /\ n \in Nat /\ 1 .. n = (1 .. Len(log)) \union {n}
      /\ 1 .. n \in SUBSET Nat
      /\ Streamed' = Streamed \union {c}
      /\ Requests' = Requests
      /\ \A i \in Requests : i \in DOMAIN log /\ log'[i] = log[i]
    <2>1. a \in Approvals \union {"none"} /\ "decision" # "ask"
          /\ "decision" \in Updates \union {"ask", "decision", "user"}
        OBVIOUS
    <2>2. /\ Streamed' = Streamed \union IF of = "run" /\ missed' = missed
                                       THEN {Chunk("decision", Len(log'))} ELSE {}
          /\ Requests' = Requests \union IF "decision" = "ask" THEN {Len(log')} ELSE {}
          /\ Len(log') \in Nat /\ 1 .. Len(log') = (1 .. Len(log)) \union {Len(log')}
          /\ 1 .. Len(log') \in SUBSET Nat
          /\ \A i \in Requests : i \in DOMAIN log /\ log'[i] = log[i]
        BY <1>1, <1>2, <2>1, StreamGrows
    <2> QED
        BY <1>2, <2>1, <2>2
<1>5. rows \in [Approvals -> Rows(Len(log))]
    BY <1>1 DEF Recorded
<1>6. \A i \in Requests : log[i].approval \in Approvals
    BY <1>1 DEF Recorded, Requests
<1>7. c.update # "step" /\ c.update \notin TextUpdates
    BY DEF Chunk, TextUpdates
<1> HIDE DEF n, c
<1>8. /\ WellFollowed(LiveDecide(live, a), 1 .. Len(log), Streamed)
      /\ Cards(LiveDecide(live, a).items) = Decided(Cards(live.items), a)
    BY <1>1, LiveDecideKeeps
<1>9. WellFollowed(live', 1 .. n, Streamed')
      /\ Cards(live'.items) = Decided(Cards(live.items), a)
    <2>1. 1 .. Len(log) \subseteq 1 .. n
        BY <1>4
    <2>2. WellFollowed(LiveDecide(live, a), 1 .. n, Streamed \union {c})
        BY <1>4, <1>7, <1>8, <2>1, FollowedMore
    <2> QED
        BY <1>2, <1>4, <1>8, <2>2
<1>10. ASSUME RequestsApart PROVE RequestsApart'
    <2> DEFINE CardNext(i) == Card(log'[i].approval, rows'[log'[i].approval].status, i)
               new(card) == IF card.approval = a THEN Card(a, "decided", card.at) ELSE card
    <2>1. /\ rows[a] \in Rows(Len(log))
          /\ \A b \in Approvals :
                rows'[b] = IF b = a THEN [rows[a] EXCEPT !.status = "decided"] ELSE rows[b]
        BY <1>2, <1>5
    <2>2. [rows[a] EXCEPT !.status = "decided"].at = rows[a].at
          /\ [rows[a] EXCEPT !.status = "decided"].status = "decided"
        BY <2>1 DEF Rows
    <2>3. \A b \in Approvals : /\ rows'[b].at = rows[b].at
                               /\ rows'[b].status = IF b = a THEN "decided" ELSE rows[b].status
        BY <2>1, <2>2
    <2>4. \A i \in Requests' : rows'[log'[i].approval].at = i
        BY <1>4, <1>6, <1>10, <2>3 DEF RequestsApart
    <2>5. \A i \in Requests : CardNext(i) = new(CardAt(i))
        <3> SUFFICES ASSUME NEW i \in Requests PROVE CardNext(i) = new(CardAt(i))
            OBVIOUS
        <3>1. CardNext(i) = Card(log[i].approval, rows'[log[i].approval].status, i)
            BY <1>4
        <3>2. CardAt(i).approval = log[i].approval /\ CardAt(i).at = i
            BY DEF CardAt, Card
        <3>3. CASE log[i].approval = a
            <4>1. CardNext(i) = Card(a, "decided", i)
                BY <1>6, <2>3, <3>1, <3>3
            <4> QED
                BY <3>2, <3>3, <4>1
        <3>4. CASE log[i].approval # a
            <4>1. CardNext(i) = CardAt(i)
                BY <1>6, <2>3, <3>1, <3>4 DEF CardAt
            <4> QED
                BY <3>2, <3>4, <4>1
        <3> QED
            BY <3>3, <3>4
    <2>6. Cards(live'.items) = {new(card) : card \in Cards(live.items)}
        BY <1>9 DEF Decided
    <2> HIDE DEF new, CardNext
    <2>7. Cards(live'.items) = {new(CardAt(i)) : i \in Requests}
        BY <1>10, <2>6 DEF RequestsApart
    <2>8. Cards(live'.items) = {CardNext(i) : i \in Requests'}
        BY <1>4, <2>5, <2>7
    <2> QED
        BY <2>4, <2>8 DEF RequestsApart, CardAt, CardNext
<1> QED
    BY <1>2, <1>9, <1>10 DEF ProjectionInv, Followed, Ended, n

LEMMA CompleteKeeps ==
    ASSUME ProjectionInv, Complete
    PROVE  Followed' /\ Ended' /\ (AskAgain \/ RequestsApart')
<1>1. WellFollowed(live, 1 .. Len(log), Streamed)
    BY DEF ProjectionInv, Followed
<1>2. of' = of /\ log' = log /\ rows' = rows /\ live' = LiveCompleted(live)
      /\ missed' = missed
    BY DEF Complete
<1>3. /\ WellFollowed(LiveCompleted(live), 1 .. Len(log), Streamed)
      /\ LiveCompleted(live).active.kind = "none" /\ LiveCompleted(live).pending = <<>>
      /\ Cards(LiveCompleted(live).items) = Cards(live.items)
    BY <1>1, LiveCompletedKeeps
<1>4. Streamed' = Streamed /\ Requests' = Requests
    BY <1>2 DEF Streamed, Requests
<1>5. RequestsApart => RequestsApart'
    <2>1. \A i \in Requests : CardAt(i)' = CardAt(i)
        BY <1>2 DEF CardAt
    <2> QED
        BY <1>2, <1>3, <1>4, <2>1 DEF RequestsApart
<1> QED
    BY <1>2, <1>3, <1>4, <1>5 DEF ProjectionInv, Followed, Ended

LEMMA ReplayKeeps ==
    ASSUME ProjectionInv, NEW update \in (Updates \ {"truncated"}) \union {"user"}, Replay(update)
    PROVE  Followed' /\ Ended' /\ (AskAgain \/ RequestsApart')
<1> DEFINE n == Len(log')
<1>1. Recorded /\ WellFollowed(live, 1 .. Len(log), Streamed)
    BY DEF ProjectionInv, Followed
<1>2. Store(update, "none") /\ of = "session" /\ rows' = rows /\ live' = live /\ over' = over
      /\ missed' = missed
    BY DEF Replay
<1>3. update # "ask"
    BY DEF Updates
<1>4. /\ 1 .. Len(log) \subseteq 1 .. n /\ 1 .. n \in SUBSET Nat
      /\ Streamed' = Streamed
      /\ Requests' = Requests
      /\ \A i \in Requests : i \in DOMAIN log /\ log'[i] = log[i]
    <2>1. update \in Updates \union {"ask", "decision", "user"}
        OBVIOUS
    <2>2. /\ Streamed' = Streamed \union IF of = "run" /\ missed' = missed
                                       THEN {Chunk(update, Len(log'))} ELSE {}
          /\ Requests' = Requests \union IF update = "ask" THEN {Len(log')} ELSE {}
          /\ Len(log') \in Nat /\ 1 .. Len(log') = (1 .. Len(log)) \union {Len(log')}
          /\ 1 .. Len(log') \in SUBSET Nat
          /\ \A i \in Requests : i \in DOMAIN log /\ log'[i] = log[i]
        BY <1>1, <1>2, <2>1, StreamGrows
    <2> QED
        BY <1>2, <1>3, <2>2
<1> HIDE DEF n
<1>5. WellFollowed(live, 1 .. n, Streamed)
    BY <1>1, <1>4, SeenGrows DEF WellFollowed
<1>6. RequestsApart => RequestsApart'
    <2>1. \A i \in Requests : CardAt(i)' = CardAt(i)
        BY <1>2, <1>4 DEF CardAt
    <2> QED
        BY <1>2, <1>4, <2>1 DEF RequestsApart
<1> QED
    BY <1>2, <1>4, <1>5, <1>6 DEF ProjectionInv, Followed, Ended, n

LEMMA NextProjectionInv == ProjectionInv /\ [Next]_vars => ProjectionInv'
<1> SUFFICES ASSUME ProjectionInv, [Next]_vars PROVE ProjectionInv'
    OBVIOUS
<1>1. Recorded'
    BY NextRecorded DEF ProjectionInv
<1>2. ASSUME UNCHANGED vars PROVE Followed' /\ Ended' /\ (AskAgain \/ RequestsApart')
    BY <1>2 DEF ProjectionInv, vars, Followed, Ended, RequestsApart, Streamed, Requests, CardAt
<1>3. Followed' /\ Ended' /\ (AskAgain \/ RequestsApart')
    BY <1>2, SessionUpdateKeeps, RequestPermissionKeeps, DecidePermissionKeeps, CompleteKeeps,
       ReplayKeeps DEF Next
<1> QED
    BY <1>1, <1>3 DEF ProjectionInv

\* However a run is recorded, followed and answered, or a replay comes in, the log, the
\* permission rows and the live projection fit together: ProjectionInv is inductive.
THEOREM InductiveInvariant == Spec => []ProjectionInv
<1> QED
    BY InitProjectionInv, NextProjectionInv, PTL DEF Spec
-----------------------------------------------------------------------------
(* What is watched, and what is rebuilt. *)

LEMMA LiveItemsChain ==
    ASSUME NEW seen, NEW done, WellFollowed(live, seen, done)
    PROVE  Chain(LiveItems) /\ IdsUnique(LiveItems)
<1>0. Building(live.items, live.active, live.pending, seen) /\ Chain(live.items)
      /\ IsSeq(live.items) /\ LiveNumbered(live)
    BY DEF WellFollowed, Building, Chain
<1>1. CASE live.active.kind = "none"
    BY <1>0, <1>1 DEF LiveItems, LiveNumbered
<1>2. CASE live.active.kind # "none"
    <2>1. LiveItems = Append(live.items, live.active)
        BY <1>2 DEF LiveItems
    <2>2. IsItem(live.active) /\ Before(Span(live.items), Times(live.active))
        BY <1>0, <1>2 DEF IsItem, Building, OpenTimes, Times, Before
    <2>3. Chain(Append(live.items, live.active))
        BY <1>0, <2>2, ChainAppend
    <2>4. \A n \in DOMAIN live.items : ~IsCard(live.items[n]) => live.items[n].id # live.active.id
        <3>1. \A n \in DOMAIN live.items : ~IsCard(live.items[n]) =>
                 live.items[n].id \in Nat /\ live.items[n].id < live.active.id
            BY <1>0, <1>2 DEF LiveNumbered
        <3>2. live.active.id \in Nat
            BY <1>0, <1>2 DEF LiveNumbered
        <3> QED
            BY <3>1, <3>2
    <2>5. IdsUnique(Append(live.items, live.active))
        BY <1>0, <2>4, IdsAppend DEF LiveNumbered
    <2> QED
        BY <2>1, <2>3, <2>5
<1> QED
    BY <1>1, <1>2

LEMMA ProjectionTypes ==
    ASSUME ProjectionInv
    PROVE  ProjTypeOK
<1>1. Recorded /\ WellFollowed(live, 1 .. Len(log), Streamed)
    BY DEF ProjectionInv, Followed
<1>2. \A i \in DOMAIN log : log[i].kind \in Updates \union {"ask", "decision", "user"}
    BY <1>1, LogIs DEF Recordings
<1>3. \A a \in Approvals : rows[a] \in Rows(Len(log))
    BY <1>1 DEF Recorded
<1>4. \A n \in DOMAIN live.items :
         live.items[n].kind \in {"message", "thought", "steps", "permission_request"}
    BY <1>1 DEF WellFollowed, LiveShaped, Card
<1> QED
    BY <1>1, <1>2, <1>3, <1>4 DEF ProjTypeOK, Rows, Recorded, WellFollowed

LEMMA RunProjected ==
    ASSUME ProjectionInv
    PROVE  RunProjectionOK
<1>1. Recorded /\ WellFollowed(live, 1 .. Len(log), Streamed)
    BY DEF ProjectionInv, Followed
<1>2. ProjTypeOK
    BY ProjectionTypes
<1>3. of = "run" => ShowsStored(Rebuilt)
    BY <1>1, RebuiltIsStored
<1>4. Ordered(LiveItems) /\ IdsUnique(LiveItems)
    BY <1>1, LiveItemsChain, ChainIsOrdered
<1> QED
    BY <1>2, <1>3, <1>4 DEF RunProjectionOK

LEMMA CardsDivided ==
    ASSUME ProjectionInv
    PROVE  CardsDivide
<1>1. Recorded /\ WellFollowed(live, 1 .. Len(log), Streamed)
    BY DEF ProjectionInv, Followed
<1>2. Chain(Rebuilt) /\ Chain(LiveItems)
    BY <1>1, RebuiltShows, LiveItemsChain
<1> QED
    BY <1>2, ChainIsOrdered DEF CardsDivide

LEMMA LiveIsRebuilt ==
    ASSUME ProjectionInv, ~AskAgain
    PROVE  LiveShowsSame
<1> SUFFICES ASSUME over, "truncated" \notin {log[i].kind : i \in DOMAIN log}
             PROVE  /\ Text(LiveItems) = Reached(Text(Rebuilt))
                    /\ KeptSteps(LiveItems) = Reached(KeptSteps(Rebuilt))
                    /\ Cards(LiveItems) = Cards(Rebuilt)
                    /\ Ordered(LiveItems) /\ Ordered(Rebuilt)
    BY DEF LiveShowsSame
<1>1. Recorded /\ WellFollowed(live, 1 .. Len(log), Streamed) /\ RequestsApart
      /\ live.active.kind = "none" /\ live.pending = <<>>
    BY DEF ProjectionInv, Followed, Ended
<1>2. of = "run" /\ LiveItems = live.items
    BY <1>1 DEF Recorded, LiveItems
<1>3. Streamed = {Chunk(log[i].kind, i) : i \in DOMAIN log \ missed}
    BY <1>2 DEF Streamed
<1>4. ToSet(live.active.parts) = {} /\ ToSet(live.active.steps) = {} /\ ToSet(live.pending) = {}
    BY <1>1, EmptyList DEF WellFollowed, Building
<1>5. /\ {c \in Streamed : c.update \in {"message", "thought"}} \subseteq All(Texts(live.items))
      /\ All(Texts(live.items)) \subseteq {c \in Streamed : c.update \in TextUpdates}
      /\ All(Steps(live.items)) = {c \in Streamed : c.update = "step"}
    BY <1>1, <1>4 DEF WellFollowed, LiveHolds
<1>6. /\ All(Texts(Rebuilt)) = {Chunk(log[i].kind, i) :
                                   i \in {n \in DOMAIN log : log[n].kind \in Visible /\ Kept(n)}}
      /\ All(Steps(Rebuilt)) = StoredSteps
      /\ Cards(Rebuilt) = {CardAt(i) : i \in {n \in DOMAIN log :
                                                 log[n].kind = "ask" /\ HasEntry(n)}}
    BY <1>1, RebuiltShows
<1>7. \A u, i : Chunk(u, i).update = u /\ Chunk(u, i).at = i
    BY DEF Chunk
<1>8. \A c : IsBlank(<<c>>) <=> c.update \in {"blank", "empty", "truncated"}
    BY DEF IsBlank
\* The chunks and the steps that are kept and have reached the page.
<1> DEFINE got(kinds) == {Chunk(log[i].kind, i) :
                            i \in {n \in DOMAIN log : log[n].kind \in kinds /\ Kept(n)
                                                      /\ n \notin missed}}
<1>9. Text(LiveItems) = got({"message", "thought"})
    <2>1. Text(LiveItems) = {c \in Streamed : c.update \in {"message", "thought"} /\ Kept(c.at)}
        BY <1>2, <1>5, <1>8 DEF TextUpdates, Text
    <2>2. {c \in Streamed : c.update \in {"message", "thought"} /\ Kept(c.at)}
             = got({"message", "thought"})
        BY <1>3, <1>7
    <2> QED
        BY <2>1, <2>2
<1>10. Reached(Text(Rebuilt)) = got({"message", "thought"})
    <2> HIDE DEF got
    <2>1. Reached(Text(Rebuilt))
             = {Chunk(log[i].kind, i) : i \in {n \in DOMAIN log :
                   log[n].kind \in Visible /\ Kept(n) /\ n \notin missed
                   /\ log[n].kind \notin {"blank", "empty", "truncated"}}}
        BY <1>6, <1>7, <1>8 DEF Reached, Text
    <2>2. \A u : u \in Visible /\ u \notin {"blank", "empty", "truncated"}
                   <=> u \in {"message", "thought"}
        BY DEF Visible
    <2> QED
        BY <2>1, <2>2 DEF got
<1>11. KeptSteps(LiveItems) = Reached(KeptSteps(Rebuilt))
    <2>1. \A i \in DOMAIN log : HasStep(log[i].kind) <=> log[i].kind = "step"
        BY DEF HasStep
    <2>2. KeptSteps(LiveItems) = got({"step"})
        BY <1>2, <1>3, <1>5, <1>7 DEF KeptSteps
    <2>3. StoredSteps
             = {Chunk(log[i].kind, i) : i \in {n \in DOMAIN log : log[n].kind = "step" /\ Kept(n)}}
        BY <2>1 DEF StoredSteps
    <2>4. Reached(KeptSteps(Rebuilt)) = got({"step"})
        BY <1>6, <1>7, <2>3 DEF Reached, KeptSteps
    <2> QED
        BY <2>2, <2>4
<1>12. Cards(LiveItems) = Cards(Rebuilt)
    <2>1. \A i \in Requests : HasEntry(i)
        BY <1>1 DEF RequestsApart, Requests, HasEntry
    <2>2. {n \in DOMAIN log : log[n].kind = "ask" /\ HasEntry(n)} = Requests
        BY <2>1 DEF Requests
    <2> QED
        BY <1>1, <1>2, <1>6, <2>2 DEF RequestsApart
<1>13. Ordered(LiveItems) /\ Ordered(Rebuilt)
    BY <1>1, RebuiltShows, LiveItemsChain, ChainIsOrdered
<1> QED
    BY <1>9, <1>10, <1>11, <1>12, <1>13
-----------------------------------------------------------------------------
(* build_synced_session_transcript_items. *)

LEMMA LogFoldExtends ==
    ASSUME NEW k \in Nat, NEW g, FoldsLog(g, k)
    PROVE  \E f : FoldsLog(f, k + 1)
<1> DEFINE c(n) == Chunk(log[n].kind, n)
           f == [n \in 0 .. k + 1 |-> IF n <= k THEN g[n] ELSE AddReplayed(g[k], c(k + 1))]
<1>1. \A n \in 0 .. k : f[n] = g[n]
    OBVIOUS
<1>2. f[k + 1] = AddReplayed(f[k], c(k + 1))
    BY <1>1
<1>3. \A n \in 0 .. k : g[n] = IF n = 0 THEN NoTurn ELSE AddReplayed(g[n - 1], c(n))
    BY DEF FoldsLog
<1> HIDE DEF c
<1>4. \A n \in 0 .. k + 1 : f[n] = IF n = 0 THEN NoTurn ELSE AddReplayed(f[n - 1], c(n))
    <2> SUFFICES ASSUME NEW n \in 0 .. k + 1
                 PROVE  f[n] = IF n = 0 THEN NoTurn ELSE AddReplayed(f[n - 1], c(n))
        OBVIOUS
    <2>1. CASE n = k + 1
        BY <1>2, <2>1
    <2>2. CASE n \in 0 .. k /\ n # 0
        <3>1. f[n] = g[n] /\ f[n - 1] = g[n - 1]
            BY <1>1, <2>2
        <3> QED
            BY <1>3, <2>2, <3>1
    <2>3. CASE n = 0
        BY <1>1, <1>3, <2>3
    <2> QED
        BY <2>1, <2>2, <2>3
<1>5. f = [n \in 0 .. k + 1 |-> f[n]]
    OBVIOUS
<1> HIDE DEF f
<1>6. FoldsLog(f, k + 1)
    BY <1>4, <1>5 DEF FoldsLog, c
<1> QED
    BY <1>6

LEMMA LogFoldExists == \A k \in Nat : \E f : FoldsLog(f, k)
<1> DEFINE Bad == {k \in Nat : ~ \E f : FoldsLog(f, k)}
<1> SUFFICES ASSUME Bad # {} PROVE FALSE
    OBVIOUS
<1>1. PICK k \in Bad : \A n \in Bad : k <= n
    BY LeastElement
<1>2. FoldsLog([n \in 0 .. 0 |-> NoTurn], 0)
    BY DEF FoldsLog
<1>3. k # 0
    BY <1>1, <1>2
<1>4. k - 1 \in Nat /\ (k - 1) + 1 = k /\ k - 1 \notin Bad
    BY <1>1, <1>3
<1>5. \E g : FoldsLog(g, k - 1)
    BY <1>4
<1> QED
    BY <1>1, <1>4, <1>5, LogFoldExtends

\* Synced finishes what the fold of AddReplayed gives.
LEMMA SyncedFolds ==
    ASSUME Len(log) \in Nat
    PROVE  \E f : FoldsLog(f, Len(log)) /\ Synced = FlushTurn(f[Len(log)]).items
<1> DEFINE f == CHOOSE f : FoldsLog(f, Len(log))
<1>1. FoldsLog(f, Len(log))
    BY LogFoldExists
<1>2. Synced = FlushTurn(f[Len(log)]).items
    BY DEF Synced, FoldsLog
<1> QED
    BY <1>1, <1>2

\* One list of items after another.
LEMMA ConcatItems ==
    ASSUME NEW p, NEW r, IsSeq(p), IsSeq(r)
    PROVE  /\ IsSeq(p \o r) /\ Len(p) \in Nat /\ DOMAIN (p \o r) \subseteq Nat
           /\ \A n \in DOMAIN p : n \in DOMAIN (p \o r) /\ (p \o r)[n] = p[n] /\ n <= Len(p)
           /\ \A n \in DOMAIN r : n > 0 /\ Len(p) + n \in DOMAIN (p \o r) /\ (p \o r)[Len(p) + n] = r[n]
           /\ \A n \in DOMAIN (p \o r) :
                 n \in DOMAIN p \/ (n - Len(p) \in DOMAIN r /\ n = Len(p) + (n - Len(p)) /\ n > Len(p))
<1>1. PICK S : p \in Seq(S)
    BY DEF IsSeq
<1>2. PICK T : r \in Seq(T)
    BY DEF IsSeq
<1> DEFINE U == S \union T
           q == p \o r
<1>3. p \in Seq(U) /\ r \in Seq(U) /\ Len(p) \in Nat /\ DOMAIN p = 1 .. Len(p)
      /\ Len(r) \in Nat /\ DOMAIN r = 1 .. Len(r)
    BY <1>1, <1>2, LenProperties
<1> HIDE DEF U
<1>4. /\ q \in Seq(U) /\ Len(q) = Len(p) + Len(r)
      /\ \A i \in 1 .. Len(p) + Len(r) : q[i] = IF i <= Len(p) THEN p[i] ELSE r[i - Len(p)]
    BY <1>3, ConcatProperties
<1>5. DOMAIN q = 1 .. Len(p) + Len(r)
    BY <1>4, LenProperties
<1> HIDE DEF q
<1>6. IsSeq(q)
    BY <1>4 DEF IsSeq
<1>7. \A n \in DOMAIN p : n \in DOMAIN q /\ q[n] = p[n] /\ n <= Len(p)
    BY <1>3, <1>4, <1>5
<1>8. \A n \in DOMAIN r : n > 0 /\ Len(p) + n \in DOMAIN q /\ q[Len(p) + n] = r[n]
    <2> SUFFICES ASSUME NEW n \in DOMAIN r
                 PROVE  n > 0 /\ Len(p) + n \in DOMAIN q /\ q[Len(p) + n] = r[n]
        OBVIOUS
    <2>1. n \in 1 .. Len(r) /\ Len(p) + n \in 1 .. Len(p) + Len(r) /\ ~(Len(p) + n <= Len(p))
          /\ (Len(p) + n) - Len(p) = n
        BY <1>3
    <2> QED
        BY <1>3, <1>4, <1>5, <2>1
<1>9. \A n \in DOMAIN q :
         n \in DOMAIN p \/ (n - Len(p) \in DOMAIN r /\ n = Len(p) + (n - Len(p)) /\ n > Len(p))
    BY <1>3, <1>5
<1>10. DOMAIN q \subseteq Nat
    BY <1>3, <1>5
<1> QED
    BY <1>3, <1>6, <1>7, <1>8, <1>9, <1>10 DEF q

LEMMA ChainConcat ==
    ASSUME NEW p, NEW r, Chain(p), Chain(r), Before(Span(p), Span(r))
    PROVE  /\ Chain(p \o r) /\ Span(p \o r) = Span(p) \union Span(r)
           /\ All(Texts(p \o r)) = All(Texts(p)) \union All(Texts(r))
           /\ All(Steps(p \o r)) = All(Steps(p)) \union All(Steps(r))
<1> DEFINE q == p \o r
           k == Len(p)
<1>1. IsSeq(p) /\ IsSeq(r)
    BY DEF Chain
<1>2. /\ IsSeq(q) /\ k \in Nat /\ DOMAIN q \subseteq Nat
      /\ \A n \in DOMAIN p : n \in DOMAIN q /\ q[n] = p[n] /\ n <= k
      /\ \A n \in DOMAIN r : n > 0 /\ k + n \in DOMAIN q /\ q[k + n] = r[n]
      /\ \A n \in DOMAIN q : n \in DOMAIN p \/ (n - k \in DOMAIN r /\ n = k + (n - k) /\ n > k)
    BY <1>1, ConcatItems
<1> HIDE DEF q, k
<1>3. \A n \in DOMAIN q : (n \in DOMAIN p /\ q[n] = p[n] /\ n <= k)
                          \/ (n - k \in DOMAIN r /\ q[n] = r[n - k] /\ n > k)
    BY <1>2
<1>4. \A n \in DOMAIN q : IsItem(q[n])
    BY <1>3 DEF Chain
<1>5. ASSUME NEW m \in DOMAIN q, NEW n \in DOMAIN q, m < n
      PROVE  Before(Times(q[m]), Times(q[n]))
    <2>0. m \in Nat /\ n \in Nat
        BY <1>2
    <2>1. CASE m \in DOMAIN p /\ q[m] = p[m] /\ n \in DOMAIN p /\ q[n] = p[n]
        BY <1>5, <2>1 DEF Chain
    <2>2. CASE m \in DOMAIN p /\ q[m] = p[m] /\ n - k \in DOMAIN r /\ q[n] = r[n - k]
        BY <2>2 DEF Span, Before
    <2>3. CASE m - k \in DOMAIN r /\ q[m] = r[m - k] /\ n - k \in DOMAIN r /\ q[n] = r[n - k]
        <3>1. m - k < n - k
            BY <1>2, <1>5, <2>0
        <3> QED
            BY <2>3, <3>1 DEF Chain
    <2>4. CASE m > k /\ n <= k
        BY <1>2, <1>5, <2>0, <2>4
    <2> QED
        BY <1>3, <2>1, <2>2, <2>3, <2>4
<1>6. Span(q) = Span(p) \union Span(r)
    <2>1. Span(q) \subseteq Span(p) \union Span(r)
        BY <1>3 DEF Span
    <2>2. Span(p) \subseteq Span(q)
        BY <1>2 DEF Span
    <2>3. Span(r) \subseteq Span(q)
        BY <1>2 DEF Span
    <2> QED
        BY <2>1, <2>2, <2>3
<1>7. All(Texts(q)) = All(Texts(p)) \union All(Texts(r))
    <2>1. \A s : All(Texts(s)) = UNION {ToSet(s[n].parts) : n \in DOMAIN s}
        BY AllTexts
    <2>2. All(Texts(q)) \subseteq All(Texts(p)) \union All(Texts(r))
        BY <1>3, <2>1
    <2>3. All(Texts(p)) \subseteq All(Texts(q)) /\ All(Texts(r)) \subseteq All(Texts(q))
        BY <1>2, <2>1
    <2> QED
        BY <2>2, <2>3
<1>8. All(Steps(q)) = All(Steps(p)) \union All(Steps(r))
    <2>1. \A s : All(Steps(s)) = UNION {ToSet(s[n].steps) : n \in DOMAIN s}
        BY AllTexts
    <2>2. All(Steps(q)) \subseteq All(Steps(p)) \union All(Steps(r))
        BY <1>3, <2>1
    <2>3. All(Steps(p)) \subseteq All(Steps(q)) /\ All(Steps(r)) \subseteq All(Steps(q))
        BY <1>2, <2>1
    <2> QED
        BY <2>2, <2>3
<1> QED
    BY <1>2, <1>4, <1>5, <1>6, <1>7, <1>8 DEF q, Chain

LEMMA IdsConcat ==
    ASSUME NEW p, NEW r, IsSeq(p), IsSeq(r), IdsUnique(p), IdsUnique(r),
           SegmentsOfAKind(p), SegmentsOfAKind(r),
           \A m \in DOMAIN p, n \in DOMAIN r : ~IsCard(p[m]) /\ ~IsCard(r[n]) => p[m].id # r[n].id
    PROVE  IdsUnique(p \o r) /\ SegmentsOfAKind(p \o r)
<1> DEFINE q == p \o r
           k == Len(p)
<1>2. /\ IsSeq(q) /\ k \in Nat /\ DOMAIN q \subseteq Nat
      /\ \A n \in DOMAIN p : n \in DOMAIN q /\ q[n] = p[n] /\ n <= k
      /\ \A n \in DOMAIN r : n > 0 /\ k + n \in DOMAIN q /\ q[k + n] = r[n]
      /\ \A n \in DOMAIN q : n \in DOMAIN p \/ (n - k \in DOMAIN r /\ n = k + (n - k) /\ n > k)
    BY ConcatItems
<1> HIDE DEF q, k
<1>3. \A n \in DOMAIN q : (n \in DOMAIN p /\ q[n] = p[n])
                          \/ (n - k \in DOMAIN r /\ q[n] = r[n - k])
    BY <1>2
<1>4. ASSUME NEW m \in DOMAIN q, NEW n \in DOMAIN q, m # n, ~IsCard(q[m]), ~IsCard(q[n])
      PROVE  q[m].id # q[n].id
    <2>0. m \in Nat /\ n \in Nat
        BY <1>2
    <2>1. CASE m \in DOMAIN p /\ q[m] = p[m] /\ n \in DOMAIN p /\ q[n] = p[n]
        BY <1>4, <2>1 DEF IdsUnique
    <2>2. CASE m \in DOMAIN p /\ q[m] = p[m] /\ n - k \in DOMAIN r /\ q[n] = r[n - k]
        BY <1>4, <2>2
    <2>3. CASE n \in DOMAIN p /\ q[n] = p[n] /\ m - k \in DOMAIN r /\ q[m] = r[m - k]
        BY <1>4, <2>3
    <2>4. CASE m - k \in DOMAIN r /\ q[m] = r[m - k] /\ n - k \in DOMAIN r /\ q[n] = r[n - k]
        <3>1. m - k # n - k
            BY <1>2, <1>4, <2>0
        <3> QED
            BY <1>4, <2>4, <3>1 DEF IdsUnique
    <2> QED
        BY <1>3, <2>1, <2>2, <2>3, <2>4
<1>5. IdsUnique(q)
    BY <1>4 DEF IdsUnique
<1>6. SegmentsOfAKind(q)
    BY <1>3 DEF SegmentsOfAKind
<1> QED
    BY <1>5, <1>6 DEF q

\* The items of the turns before, and the chunks of the turn under way; the items have
\* ids of their turns.
TurnHolds(t, done) ==
    /\ All(Texts(t.items)) \union ToSet(t.users) \union {c \in ToSet(t.updates) : c.update \in Visible}
          = {c \in done : c.update \in Visible \union {"user"}}
    /\ All(Steps(t.items)) \union {c \in ToSet(t.updates) : HasStep(c.update)}
          = {c \in done : HasStep(c.update)}
OfTurns(items, turns) ==
    /\ IdsUnique(items) /\ SegmentsOfAKind(items)
    /\ \A n \in DOMAIN items : ~IsCard(items[n]) =>
          \E k \in turns : items[n].id[1] = RemoteRun(k)

\* The turns t were cut from the first n updates, which are the chunks done.
WellTurned(t, n, done) ==
    /\ t = [items |-> t.items, users |-> t.users, updates |-> t.updates, index |-> t.index]
    /\ t.index \in Nat
    /\ Chain(t.items) /\ List(t.users) /\ List(t.updates)
    /\ Before(Span(t.items), TimesOf(t.users) \union TimesOf(t.updates))
    /\ Before(TimesOf(t.users), TimesOf(t.updates))
    /\ Span(t.items) \union TimesOf(t.users) \union TimesOf(t.updates) \subseteq 1 .. n
    /\ TurnHolds(t, done) /\ OfTurns(t.items, 0 .. t.index - 1)

LEMMA RunsApart == \A k, m : RemoteRun(k) = RemoteRun(m) => k = m
BY DEF RemoteRun

LEMMA NoTurnHolds == WellTurned(NoTurn, 0, {})
<1> DEFINE t == NoTurn
<1>1. t = [items |-> <<>>, users |-> <<>>, updates |-> <<>>, index |-> 0]
    BY DEF NoTurn
<1> HIDE DEF t
<1>2. t.items = <<>> /\ t.users = <<>> /\ t.updates = <<>> /\ t.index = 0
    BY <1>1
<1>3. TurnHolds(t, {})
    BY <1>2, EmptyList, NoItems DEF TurnHolds
<1>4. OfTurns(t.items, 0 .. t.index - 1)
    BY <1>2, EmptySeq, NoItems DEF OfTurns
<1>5. WellTurned(t, 0, {})
    BY <1>1, <1>2, <1>3, <1>4, EmptyList, NoItems DEF WellTurned, Before
<1> QED
    BY <1>5 DEF t

\* The message of the user comes after the turns before.
LEMMA UserMessageFollows ==
    ASSUME NEW t, NEW n \in Nat, NEW done, WellTurned(t, n, done), t.users # <<>>
    PROVE  LET x == UserMessage(RemoteRun(t.index), t.users)
           IN  /\ x.parts = t.users /\ x.steps = <<>> /\ x.kind = "user_message"
               /\ x.id = <<RemoteRun(t.index), "user", 0>>
               /\ IsItem(x) /\ ~IsCard(x) /\ Times(x) = TimesOf(t.users)
<1> DEFINE x == UserMessage(RemoteRun(t.index), t.users)
<1>1. x.parts = t.users /\ x.steps = <<>> /\ x.kind = "user_message" /\ x.at = t.users[1].at
      /\ x.id = <<RemoteRun(t.index), "user", 0>>
    BY DEF UserMessage, Bubble
<1>2. List(t.users)
    BY DEF WellTurned
<1>3. 1 \in DOMAIN t.users /\ t.users[1] \in Chunks
    BY <1>2, EmptySeq, LenProperties, ElementOfSeq DEF List
<1> HIDE DEF x
<1>4. x.at \in TimesOf(t.users) /\ x.at \in Nat
    BY <1>1, <1>3 DEF TimesOf, Chunks
<1>5. IsItem(x) /\ ~IsCard(x)
    BY <1>1, <1>2, <1>4, EmptyList DEF IsItem, IsCard
<1>6. Times(x) = TimesOf(t.users)
    BY <1>1, <1>4, EmptyList DEF Times
<1> QED
    BY <1>1, <1>5, <1>6 DEF x

LEMMA FlushTurnShows ==
    ASSUME NEW t, NEW n \in Nat, NEW done, WellTurned(t, n, done)
    PROVE  LET r == FlushTurn(t)
           IN  /\ r = [items |-> r.items, users |-> t.users, updates |-> t.updates, index |-> t.index]
               /\ Chain(r.items) /\ Span(r.items) \subseteq 1 .. n
               /\ All(Texts(r.items)) = {c \in done : c.update \in Visible \union {"user"}}
               /\ All(Steps(r.items)) = {c \in done : HasStep(c.update)}
               /\ OfTurns(r.items, 0 .. t.index)
<1> DEFINE run == RemoteRun(t.index)
           x == UserMessage(run, t.users)
           said == IF t.users = <<>> THEN <<>> ELSE <<x>>
           p == t.items \o said
           built == Build(run, t.updates)
           q == p \o built
           r == FlushTurn(t)
<1>0. /\ t.index \in Nat
      /\ Chain(t.items) /\ List(t.users) /\ List(t.updates)
      /\ Before(Span(t.items), TimesOf(t.users) \union TimesOf(t.updates))
      /\ Before(TimesOf(t.users), TimesOf(t.updates))
      /\ Span(t.items) \union TimesOf(t.users) \union TimesOf(t.updates) \subseteq 1 .. n
      /\ TurnHolds(t, done) /\ OfTurns(t.items, 0 .. t.index - 1)
    BY DEF WellTurned
<1>1. r = [items |-> q, users |-> t.users, updates |-> t.updates, index |-> t.index]
    <2>1. PICK items, users, updates, index :
            t = [items |-> items, users |-> users, updates |-> updates, index |-> index]
        BY DEF WellTurned
    <2>2. r = [t EXCEPT !.items = q]
        BY <2>1 DEF FlushTurn
    <2> HIDE DEF q
    <2> QED
        BY <2>1, <2>2
<1> HIDE DEF r
<1>2. r.items = q
    BY <1>1
<1>3. \A m \in DOMAIN t.items : ~IsCard(t.items[m]) =>
          t.items[m].id[1] # run /\ \E k \in 0 .. t.index : t.items[m].id[1] = RemoteRun(k)
    <2> SUFFICES ASSUME NEW m \in DOMAIN t.items, ~IsCard(t.items[m])
                 PROVE  t.items[m].id[1] # run
                        /\ \E k \in 0 .. t.index : t.items[m].id[1] = RemoteRun(k)
        OBVIOUS
    <2>1. PICK k \in 0 .. t.index - 1 : t.items[m].id[1] = RemoteRun(k)
        BY <1>0 DEF OfTurns
    <2>2. k # t.index /\ k \in 0 .. t.index
        BY <1>0
    <2> QED
        BY <2>1, <2>2, RunsApart
<1>4. /\ Chain(p) /\ Span(p) = Span(t.items) \union TimesOf(t.users)
      /\ All(Texts(p)) = All(Texts(t.items)) \union ToSet(t.users)
      /\ All(Steps(p)) = All(Steps(t.items))
      /\ IdsUnique(p) /\ SegmentsOfAKind(p)
      /\ \A m \in DOMAIN p : ~IsCard(p[m]) =>
            /\ p[m].id[1] = run => p[m].id = <<run, "user", 0>>
            /\ \E k \in 0 .. t.index : p[m].id[1] = RemoteRun(k)
    <2>1. CASE t.users = <<>>
        <3>1. p = t.items
            BY <1>0, <2>1, ConcatEmptySeq DEF Chain, IsSeq
        <3> HIDE DEF p
        <3>2. TimesOf(t.users) = {} /\ ToSet(t.users) = {}
            BY <2>1, EmptyList
        <3> QED
            BY <1>0, <1>3, <3>1, <3>2 DEF OfTurns
    <2>2. CASE t.users # <<>>
        <3>1. p = Append(t.items, x)
            <4>1. PICK S : t.items \in Seq(S)
                BY <1>0 DEF Chain, IsSeq
            <4>2. t.items \in Seq(S \union {x}) /\ x \in S \union {x}
                BY <4>1, LenProperties
            <4>3. Append(t.items, x) = t.items \o <<x>>
                <5> HIDE DEF x
                <5> QED
                    BY <4>2, AppendIsConcat
            <4>4. said = <<x>>
                BY <2>2
            <4> HIDE DEF x, said
            <4> QED
                BY <4>3, <4>4
        <3>2. /\ x.parts = t.users /\ x.steps = <<>> /\ x.kind = "user_message"
              /\ x.id = <<run, "user", 0>>
              /\ IsItem(x) /\ ~IsCard(x) /\ Times(x) = TimesOf(t.users)
            BY <2>2, UserMessageFollows
        <3> HIDE DEF p, x
        <3>3. Before(Span(t.items), Times(x))
            BY <1>0, <3>2 DEF Before
        <3>4. /\ Chain(p) /\ Span(p) = Span(t.items) \union Times(x)
              /\ All(Texts(p)) = All(Texts(t.items)) \union ToSet(x.parts)
              /\ All(Steps(p)) = All(Steps(t.items)) \union ToSet(x.steps)
            BY <1>0, <3>1, <3>2, <3>3, ChainAppend
        <3>5. IsSeq(t.items) /\ x.id[1] = run
            BY <1>0, <3>2 DEF Chain
        <3>6. IdsUnique(p)
            <4>1. \A m \in DOMAIN t.items : ~IsCard(t.items[m]) => t.items[m].id # x.id
                BY <1>3, <3>5
            <4> QED
                BY <1>0, <3>1, <3>5, <4>1, IdsAppend DEF OfTurns
        <3>7. SegmentsOfAKind(p)
            BY <1>0, <3>1, <3>2, <3>5, KindAppend DEF OfTurns
        <3>8. ASSUME NEW m \in DOMAIN p, ~IsCard(p[m])
              PROVE  /\ p[m].id[1] = run => p[m].id = <<run, "user", 0>>
                     /\ \E k \in 0 .. t.index : p[m].id[1] = RemoteRun(k)
            <4>1. p[m] = x \/ (m \in DOMAIN t.items /\ p[m] = t.items[m])
                BY <3>1, <3>5, AppendItem
            <4>2. CASE p[m] = x
                <5>1. t.index \in 0 .. t.index
                    BY <1>0
                <5> QED
                    BY <3>2, <3>5, <4>2, <5>1
            <4>3. CASE m \in DOMAIN t.items /\ p[m] = t.items[m]
                BY <1>3, <3>8, <4>3
            <4> QED
                BY <4>1, <4>2, <4>3
        <3> QED
            BY <3>2, <3>4, <3>6, <3>7, <3>8, EmptyList
    <2> QED
        BY <2>1, <2>2
<1>5. Shows(built, run, ToSet(t.updates))
    BY <1>0, BuildShows
<1> HIDE DEF p, built, q
<1>6. /\ Chain(built) /\ Span(built) \subseteq TimesOf(t.updates)
      /\ All(Texts(built)) = {c \in ToSet(t.updates) : c.update \in Visible}
      /\ All(Steps(built)) = {c \in ToSet(t.updates) : HasStep(c.update)}
      /\ IdsUnique(built) /\ SegmentsOfAKind(built)
      /\ \A m \in DOMAIN built : ~IsCard(built[m]) =>
            \E j \in Nat : built[m].id = <<run, "segment", j>>
    <2>1. {c.at : c \in ToSet(t.updates)} = TimesOf(t.updates)
        BY DEF ToSet, TimesOf
    <2> QED
        BY <1>5, <2>1 DEF Shows
<1>7. Before(Span(p), Span(built))
    BY <1>0, <1>4, <1>6 DEF Before
<1>8. /\ Chain(q) /\ Span(q) = Span(p) \union Span(built)
      /\ All(Texts(q)) = All(Texts(p)) \union All(Texts(built))
      /\ All(Steps(q)) = All(Steps(p)) \union All(Steps(built))
    BY <1>4, <1>6, <1>7, ChainConcat DEF q
<1>9. IsSeq(p) /\ IsSeq(built)
    BY <1>4, <1>6 DEF Chain
<1>10. \A m \in DOMAIN built : ~IsCard(built[m]) => built[m].id[1] = run /\ built[m].id[2] = "segment"
    BY <1>6
<1>11. \A m \in DOMAIN p, k \in DOMAIN built :
          ~IsCard(p[m]) /\ ~IsCard(built[k]) => p[m].id # built[k].id
    <2> SUFFICES ASSUME NEW m \in DOMAIN p, NEW k \in DOMAIN built,
                        ~IsCard(p[m]), ~IsCard(built[k]), p[m].id = built[k].id
                 PROVE  FALSE
        OBVIOUS
    <2>1. p[m].id[1] = run /\ p[m].id[2] = "segment"
        BY <1>10
    <2>2. p[m].id = <<run, "user", 0>>
        BY <1>4, <2>1
    <2>3. "segment" = "user"
        BY <2>1, <2>2
    <2> QED
        BY <2>3
<1>12. IdsUnique(q) /\ SegmentsOfAKind(q)
    BY <1>4, <1>6, <1>9, <1>11, IdsConcat DEF q
<1>13. ASSUME NEW m \in DOMAIN q, ~IsCard(q[m])
       PROVE  \E k \in 0 .. t.index : q[m].id[1] = RemoteRun(k)
    <2>1. \/ m \in DOMAIN p /\ q[m] = p[m]
          \/ \E k \in DOMAIN built : q[m] = built[k]
        <3>0. /\ IsSeq(p \o built) /\ Len(p) \in Nat /\ DOMAIN (p \o built) \subseteq Nat
              /\ \A i \in DOMAIN p : i \in DOMAIN (p \o built) /\ (p \o built)[i] = p[i] /\ i <= Len(p)
              /\ \A i \in DOMAIN built : /\ i > 0 /\ Len(p) + i \in DOMAIN (p \o built)
                                         /\ (p \o built)[Len(p) + i] = built[i]
              /\ \A i \in DOMAIN (p \o built) :
                    i \in DOMAIN p
                    \/ (i - Len(p) \in DOMAIN built /\ i = Len(p) + (i - Len(p)) /\ i > Len(p))
            BY <1>9, ConcatItems
        <3>1. /\ \A i \in DOMAIN p : q[i] = p[i]
              /\ \A i \in DOMAIN built : q[Len(p) + i] = built[i]
              /\ \A i \in DOMAIN q :
                    i \in DOMAIN p \/ (i - Len(p) \in DOMAIN built /\ i = Len(p) + (i - Len(p)))
            BY <3>0 DEF q
        <3>2. CASE m \in DOMAIN p
            BY <3>1, <3>2
        <3>3. CASE m - Len(p) \in DOMAIN built /\ m = Len(p) + (m - Len(p))
            <4>1. q[Len(p) + (m - Len(p))] = built[m - Len(p)]
                BY <3>1, <3>3
            <4>2. q[m] = built[m - Len(p)]
                BY <3>3, <4>1
            <4> QED
                BY <3>3, <4>2
        <3> QED
            BY <1>13, <3>1, <3>2, <3>3
    <2>2. CASE m \in DOMAIN p /\ q[m] = p[m]
        BY <1>4, <1>13, <2>2
    <2>3. CASE \E k \in DOMAIN built : q[m] = built[k]
        <3>1. t.index \in 0 .. t.index
            BY <1>0
        <3> QED
            BY <1>10, <1>13, <2>3, <3>1
    <2> QED
        BY <2>1, <2>2, <2>3
<1>14. OfTurns(q, 0 .. t.index)
    BY <1>12, <1>13 DEF OfTurns
<1>15. Span(q) \subseteq 1 .. n
    BY <1>0, <1>4, <1>6, <1>8
<1>16. All(Texts(q)) = {c \in done : c.update \in Visible \union {"user"}}
       /\ All(Steps(q)) = {c \in done : HasStep(c.update)}
    BY <1>0, <1>4, <1>6, <1>8 DEF TurnHolds
<1> QED
    BY <1>1, <1>2, <1>8, <1>14, <1>15, <1>16 DEF r

LEMMA NextTurnKeeps ==
    ASSUME NEW t, NEW n \in Nat, NEW done, WellTurned(t, n, done)
    PROVE  WellTurned(NextTurn(t), n, done) /\ NextTurn(t).updates = <<>>
<1> DEFINE r == FlushTurn(t)
           t2 == NextTurn(t)
<1>1. /\ r = [items |-> r.items, users |-> t.users, updates |-> t.updates, index |-> t.index]
      /\ Chain(r.items) /\ Span(r.items) \subseteq 1 .. n
      /\ All(Texts(r.items)) = {c \in done : c.update \in Visible \union {"user"}}
      /\ All(Steps(r.items)) = {c \in done : HasStep(c.update)}
      /\ OfTurns(r.items, 0 .. t.index)
    BY FlushTurnShows
<1>2. t.index \in Nat
    BY DEF WellTurned
<1>3. t2 = [items |-> r.items, users |-> <<>>, updates |-> <<>>, index |-> t.index + 1]
    <2>1. t2 = [r EXCEPT !.index = @ + 1, !.users = <<>>, !.updates = <<>>]
        BY DEF NextTurn
    <2> HIDE DEF r, t2
    <2>2. PICK items, users, updates, index :
            r = [items |-> items, users |-> users, updates |-> updates, index |-> index]
        BY <1>1
    <2>3. index = t.index /\ r.items = items
        <3>1. r.index = t.index
            BY <1>1
        <3> QED
            BY <2>2, <3>1
    <2> QED
        BY <2>1, <2>2, <2>3
<1> HIDE DEF r, t2
<1>4. t2.items = r.items /\ t2.users = <<>> /\ t2.updates = <<>> /\ t2.index = t.index + 1
    BY <1>3
<1>5. TurnHolds(t2, done)
    BY <1>1, <1>4, EmptyList DEF TurnHolds
<1>6. OfTurns(t2.items, 0 .. t2.index - 1)
    <2>1. t2.index - 1 = t.index
        BY <1>2, <1>4
    <2> QED
        BY <1>1, <1>4, <2>1
<1>7. TimesOf(t2.users) = {} /\ TimesOf(t2.updates) = {} /\ List(t2.users) /\ List(t2.updates)
    BY <1>4, EmptyList
<1>8. WellTurned(t2, n, done)
    BY <1>1, <1>2, <1>3, <1>4, <1>5, <1>6, <1>7 DEF WellTurned, Before
<1> QED
    BY <1>4, <1>8 DEF t2

LEMMA AddReplayedKeeps ==
    ASSUME NEW t, NEW n \in Nat, NEW done, WellTurned(t, n, done),
           NEW c \in Chunks, c.at = n + 1
    PROVE  WellTurned(AddReplayed(t, c), n + 1, done \union {c})
<1> DEFINE t2 == AddReplayed(t, c)
<1>0. 1 .. n \subseteq 1 .. n + 1 /\ n + 1 \in 1 .. n + 1 /\ \A k \in 1 .. n : k < n + 1
    OBVIOUS
<1>1. CASE c.update = "user"
    <2> DEFINE b == IF t.updates = <<>> THEN t ELSE NextTurn(t)
    <2>1. WellTurned(b, n, done) /\ b.updates = <<>>
        BY NextTurnKeeps
    <2>2. t2 = [b EXCEPT !.users = Append(@, c)]
        BY <1>1 DEF AddReplayed
    <2> HIDE DEF b
    <2>3. t2 = [items |-> b.items, users |-> Append(b.users, c), updates |-> <<>>, index |-> b.index]
        <3> HIDE DEF t2
        <3>1. PICK items, users, updates, index :
                b = [items |-> items, users |-> users, updates |-> updates, index |-> index]
            BY <2>1 DEF WellTurned
        <3> QED
            BY <2>1, <2>2, <3>1
    <2> HIDE DEF t2
    <2>4. t2.items = b.items /\ t2.users = Append(b.users, c) /\ t2.updates = <<>>
          /\ t2.index = b.index
        BY <2>3
    <2>5. /\ b.index \in Nat /\ Chain(b.items) /\ List(b.users)
          /\ Before(Span(b.items), TimesOf(b.users))
          /\ Span(b.items) \union TimesOf(b.users) \subseteq 1 .. n
          /\ TurnHolds(b, done) /\ OfTurns(b.items, 0 .. b.index - 1)
        BY <2>1 DEF WellTurned, Before
    <2>6. Before(TimesOf(b.users), {c.at}) /\ Before(Span(b.items), {c.at})
        BY <1>0, <2>5 DEF Before
    <2>7. /\ List(t2.users) /\ TimesOf(t2.users) = TimesOf(b.users) \union {c.at}
          /\ ToSet(t2.users) = ToSet(b.users) \union {c}
        BY <2>4, <2>5, <2>6, ListAppend
    <2>8. TimesOf(t2.updates) = {} /\ ToSet(t2.updates) = {} /\ ToSet(b.updates) = {}
          /\ List(t2.updates)
        BY <2>1, <2>4, EmptyList
    <2>9. TurnHolds(t2, done \union {c})
        <3>1. ~HasStep(c.update)
            BY <1>1 DEF HasStep
        <3>2. {d \in done \union {c} : d.update \in Visible \union {"user"}}
                 = {d \in done : d.update \in Visible \union {"user"}} \union {c}
            BY <1>1
        <3>3. {d \in done \union {c} : HasStep(d.update)} = {d \in done : HasStep(d.update)}
            BY <3>1
        <3> QED
            BY <2>4, <2>5, <2>7, <2>8, <3>2, <3>3 DEF TurnHolds
    <2>10. /\ Before(Span(t2.items), TimesOf(t2.users) \union TimesOf(t2.updates))
           /\ Before(TimesOf(t2.users), TimesOf(t2.updates))
           /\ Span(t2.items) \union TimesOf(t2.users) \union TimesOf(t2.updates) \subseteq 1 .. n + 1
        BY <1>0, <2>4, <2>5, <2>6, <2>7, <2>8 DEF Before
    <2>11. t2 = [items |-> t2.items, users |-> t2.users, updates |-> t2.updates, index |-> t2.index]
        BY <2>3, <2>4
    <2>12. WellTurned(t2, n + 1, done \union {c})
        BY <2>4, <2>5, <2>7, <2>8, <2>9, <2>10, <2>11 DEF WellTurned
    <2> QED
        BY <2>12 DEF t2
<1>2. CASE c.update # "user"
    <2>1. t2 = [items |-> t.items, users |-> t.users, updates |-> Append(t.updates, c),
                index |-> t.index]
        <3>1. PICK items, users, updates, index :
                t = [items |-> items, users |-> users, updates |-> updates, index |-> index]
            BY DEF WellTurned
        <3> QED
            BY <1>2, <3>1 DEF AddReplayed
    <2> HIDE DEF t2
    <2>2. t2.items = t.items /\ t2.users = t.users /\ t2.updates = Append(t.updates, c)
          /\ t2.index = t.index
        BY <2>1
    <2>3. /\ t.index \in Nat /\ Chain(t.items) /\ List(t.users) /\ List(t.updates)
          /\ Before(Span(t.items), TimesOf(t.users) \union TimesOf(t.updates))
          /\ Before(TimesOf(t.users), TimesOf(t.updates))
          /\ Span(t.items) \union TimesOf(t.users) \union TimesOf(t.updates) \subseteq 1 .. n
          /\ TurnHolds(t, done) /\ OfTurns(t.items, 0 .. t.index - 1)
        BY DEF WellTurned
    <2>4. /\ Before(TimesOf(t.users), {c.at}) /\ Before(Span(t.items), {c.at})
          /\ Before(TimesOf(t.updates), {c.at})
        BY <1>0, <2>3 DEF Before
    <2>5. /\ List(t2.updates) /\ TimesOf(t2.updates) = TimesOf(t.updates) \union {c.at}
          /\ ToSet(t2.updates) = ToSet(t.updates) \union {c}
        BY <2>2, <2>3, <2>4, ListAppend
    <2>6. TurnHolds(t2, done \union {c})
        <3> DEFINE seen(d) == d.update \in Visible \union {"user"}
        <3>1. {d \in done \union {c} : seen(d)}
                 = {d \in done : seen(d)} \union IF c.update \in Visible THEN {c} ELSE {}
            BY <1>2
        <3>2. {d \in ToSet(t2.updates) : d.update \in Visible}
                 = {d \in ToSet(t.updates) : d.update \in Visible}
                      \union IF c.update \in Visible THEN {c} ELSE {}
            BY <2>5
        <3>3. {d \in done \union {c} : HasStep(d.update)}
                 = {d \in done : HasStep(d.update)} \union IF HasStep(c.update) THEN {c} ELSE {}
            OBVIOUS
        <3>4. {d \in ToSet(t2.updates) : HasStep(d.update)}
                 = {d \in ToSet(t.updates) : HasStep(d.update)}
                      \union IF HasStep(c.update) THEN {c} ELSE {}
            BY <2>5
        <3>5. All(Texts(t2.items)) \union ToSet(t2.users)
                    \union {d \in ToSet(t2.updates) : d.update \in Visible}
                 = {d \in done \union {c} : seen(d)}
            BY <2>2, <2>3, <3>1, <3>2 DEF TurnHolds
        <3>6. All(Steps(t2.items)) \union {d \in ToSet(t2.updates) : HasStep(d.update)}
                 = {d \in done \union {c} : HasStep(d.update)}
            BY <2>2, <2>3, <3>3, <3>4 DEF TurnHolds
        <3> QED
            BY <3>5, <3>6 DEF TurnHolds
    <2>7. /\ Before(Span(t2.items), TimesOf(t2.users) \union TimesOf(t2.updates))
          /\ Before(TimesOf(t2.users), TimesOf(t2.updates))
          /\ Span(t2.items) \union TimesOf(t2.users) \union TimesOf(t2.updates) \subseteq 1 .. n + 1
        BY <1>0, <2>2, <2>3, <2>4, <2>5 DEF Before
    <2>8. t2 = [items |-> t2.items, users |-> t2.users, updates |-> t2.updates, index |-> t2.index]
        BY <2>1, <2>2
    <2>9. WellTurned(t2, n + 1, done \union {c})
        BY <2>2, <2>3, <2>5, <2>6, <2>7, <2>8 DEF WellTurned
    <2> QED
        BY <2>9 DEF t2
<1> QED
    BY <1>1, <1>2

\* The first n updates of a replay.
Replayed(n) == {Chunk(log[i].kind, i) : i \in 1 .. n}

LEMMA SyncedIsStored ==
    ASSUME Recorded, of = "session"
    PROVE  ShowsStored(Synced)
<1>1. Len(log) \in Nat /\ DOMAIN log = 1 .. Len(log)
    BY LogIs
<1>2. PICK f : FoldsLog(f, Len(log)) /\ Synced = FlushTurn(f[Len(log)]).items
    BY <1>1, SyncedFolds
<1>3. \A n \in 0 .. Len(log) :
         f[n] = IF n = 0 THEN NoTurn ELSE AddReplayed(f[n - 1], Chunk(log[n].kind, n))
    BY <1>2 DEF FoldsLog
<1>4. ASSUME NEW n \in DOMAIN log
      PROVE  LET c == Chunk(log[n].kind, n) IN c \in Chunks /\ c.at = n
    <2>1. log[n].kind \in Updates \union {"ask", "user"} /\ n \in Nat
        BY <1>1, LogIs DEF Recorded, Recordings
    <2> QED
        BY <2>1, ChunkOf
<1> DEFINE Good(n) == WellTurned(f[n], n, Replayed(n))
           Bad == {n \in 0 .. Len(log) : ~Good(n)}
<1>5. Bad = {}
    <2> SUFFICES ASSUME Bad # {} PROVE FALSE
        OBVIOUS
    <2>1. PICK n \in Bad : \A m \in Bad : n <= m
        <3>1. Bad \subseteq Nat
            BY <1>1
        <3> HIDE DEF Bad
        <3> QED
            BY <3>1, LeastElement
    <2>2. n \in 0 .. Len(log) /\ ~Good(n)
        BY <2>1
    <2>3. n # 0
        <3>1. Replayed(0) = {}
            BY DEF Replayed
        <3>2. f[0] = NoTurn
            BY <1>1, <1>3
        <3>3. Good(0)
            BY <3>1, <3>2, NoTurnHolds
        <3> HIDE DEF Good
        <3> QED
            BY <2>2, <3>3
    <2>4. n \in 1 .. Len(log) /\ n - 1 \in 0 .. Len(log) /\ ~(n <= n - 1) /\ n - 1 \in Nat
          /\ (n - 1) + 1 = n
        BY <1>1, <2>2, <2>3
    <2>5. Good(n - 1)
        <3> HIDE DEF Good
        <3> QED
            BY <2>1, <2>4
    <2> DEFINE c == Chunk(log[n].kind, n)
    <2>6. c \in Chunks /\ c.at = (n - 1) + 1
        BY <1>1, <1>4, <2>4
    <2>7. Replayed(n) = Replayed(n - 1) \union {c}
        <3>1. 1 .. n = (1 .. n - 1) \union {n}
            BY <2>4
        <3> QED
            BY <3>1 DEF Replayed
    <2>8. f[n] = AddReplayed(f[n - 1], c)
        BY <1>3, <2>2, <2>3
    <2> HIDE DEF c
    <2>9. WellTurned(AddReplayed(f[n - 1], c), (n - 1) + 1, Replayed(n - 1) \union {c})
        BY <2>4, <2>5, <2>6, AddReplayedKeeps
    <2> QED
        BY <2>2, <2>4, <2>7, <2>8, <2>9
<1>6. WellTurned(f[Len(log)], Len(log), Replayed(Len(log)))
    <2>1. Len(log) \in 0 .. Len(log)
        BY <1>1
    <2>2. Good(Len(log))
        <3> HIDE DEF Good
        <3> QED
            BY <1>5, <2>1
    <2> QED
        BY <2>2
<1> DEFINE done == Replayed(Len(log))
<1>7. /\ Chain(Synced) /\ IdsUnique(Synced) /\ SegmentsOfAKind(Synced)
      /\ All(Texts(Synced)) = {c \in done : c.update \in Visible \union {"user"}}
      /\ All(Steps(Synced)) = {c \in done : HasStep(c.update)}
    BY <1>1, <1>2, <1>6, FlushTurnShows DEF OfTurns
<1>8. \A i : Kept(i)
    BY DEF Kept
<1>9. done = {Chunk(log[i].kind, i) : i \in DOMAIN log}
    BY <1>1 DEF Replayed
<1>10. \A u, i : Chunk(u, i).update = u
    BY DEF Chunk
<1>11. {c \in done : c.update \in Visible \union {"user"}} = StoredText
    BY <1>8, <1>9, <1>10 DEF StoredText
<1>12. {c \in done : HasStep(c.update)} = StoredSteps
    BY <1>8, <1>9, <1>10 DEF StoredSteps
<1> QED
    BY <1>7, <1>11, <1>12, ChainIsOrdered DEF ShowsStored
-----------------------------------------------------------------------------
\* What is rebuilt of a run is the run: every kept chunk of text and every kept step,
\* once, where it happened, in segments of one kind; and what is followed live is in
\* order, with ids of its own for every bubble.
THEOREM RunIsProjected == Spec => []RunProjectionOK
<1> QED
    BY RunProjected, InductiveInvariant, PTL

\* No bubble spans a permission card, neither of a run that is rebuilt nor of one that
\* is followed live.
THEOREM CardsAreDivided == Spec => []CardsDivide
<1> QED
    BY CardsDivided, InductiveInvariant, PTL

\* When a run is over, the page it was watched on shows, of the updates that reached
\* it, the text and the steps that loading the transcript again shows, and all of its
\* cards, whichever updates it missed; unless the agent used an approval id twice: the
\* page keeps the first card of an id, the backend the last request.
THEOREM LiveIsTheSame ==
    ASSUME ~AskAgain
    PROVE  Spec => []LiveShowsSame
<1>1. ProjectionInv => LiveShowsSame
    BY LiveIsRebuilt
<1> QED
    BY <1>1, InductiveInvariant, PTL

\* What is built of a replay is the replay: every message of the user and every update,
\* once and in order, cut into turns with ids of their own.
THEOREM ReplayIsProjected == Spec => []ReplayProjectionOK
<1>1. ProjectionInv => ReplayProjectionOK
    BY SyncedIsStored DEF ProjectionInv, ReplayProjectionOK
<1> QED
    BY <1>1, InductiveInvariant, PTL
=============================================================================
