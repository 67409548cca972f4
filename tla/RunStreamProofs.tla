--------------------------- MODULE RunStreamProofs ---------------------------
(* The safety properties of EventBroker, and those of RunStream, which rest   *)
(* on them, proved for every set of runs and requests, every queue capacity   *)
(* and every bound on the events.                                             *)
EXTENDS RunStream, FiniteSetTheorems, SequenceTheorems, WellFoundedInduction, TLAPS

(***************************************************************************)
(* The broker.                                                             *)
(***************************************************************************)

\* A nonempty set of positions has a smallest element, the one Min chooses.
LEMMA SmallestIndex ==
    ASSUME NEW T \in SUBSET Nat, T # {}
    PROVE  Min(T) \in T /\ \A n \in T : Min(T) <= n
<1> DEFINE R == {ss \in Nat \X Nat : ss[1] < ss[2]}
<1>1. IsWellFoundedOn(R, Nat)
    BY NatLessThanWellFounded DEF OpToRel
<1> HIDE DEF R
<1>2. \E m \in T : \A n \in T : ~ (<<n, m>> \in R)
    BY <1>1, WFMin
<1>3. \A m, n \in Nat : n < m => <<n, m>> \in R
    BY DEF R
<1>4. PICK m \in T : \A n \in T : ~ (<<n, m>> \in R)
    BY <1>2
<1>5. \A n \in T : ~ (n < m)
    BY <1>3, <1>4
<1>6. \A n \in T : m <= n
    BY <1>5
<1> QED
    BY <1>6 DEF Min

\* RemoveAt drops one position and keeps the order of the others.
LEMMA RemoveAtResult ==
    ASSUME NEW queue \in Seq(StreamEvent), NEW k \in 1 .. Len(queue)
    PROVE  /\ RemoveAt(queue, k) \in Seq(StreamEvent)
           /\ Len(RemoveAt(queue, k)) = Len(queue) - 1
           /\ \A i \in 1 .. Len(queue) - 1 :
                RemoveAt(queue, k)[i] = queue[IF i < k THEN i ELSE i + 1]
<1> DEFINE before == SubSeq(queue, 1, k - 1)
           after == SubSeq(queue, k + 1, Len(queue))
<1>0. Len(queue) \in Nat /\ \A i \in 1 .. Len(queue) : queue[i] \in StreamEvent
    BY LenProperties, ElementOfSeq
<1>1. /\ before \in Seq(StreamEvent)
      /\ Len(before) = k - 1
      /\ \A i \in 1 .. k - 1 : before[i] = queue[i]
    BY <1>0, SubSeqProperties
<1>2. /\ after \in Seq(StreamEvent)
      /\ Len(after) = Len(queue) - k
      /\ \A i \in 1 .. Len(queue) - k : after[i] = queue[k + i]
    BY <1>0, SubSeqProperties
<1> HIDE DEF before, after
<1> DEFINE shorter == before \o after
<1>3. /\ shorter \in Seq(StreamEvent)
      /\ Len(shorter) = Len(before) + Len(after)
      /\ \A i \in 1 .. Len(before) + Len(after) : shorter[i] =
            IF i <= Len(before) THEN before[i] ELSE after[i - Len(before)]
    BY <1>1, <1>2, ConcatProperties
<1>4. shorter = RemoveAt(queue, k)
    BY DEF RemoveAt, before, after
<1> HIDE DEF shorter
<1>5. Len(before) + Len(after) = Len(queue) - 1
    BY <1>0, <1>1, <1>2
<1>6. \A i \in 1 .. Len(queue) - 1 :
            shorter[i] = IF i <= k - 1 THEN before[i] ELSE after[i - (k - 1)]
    BY <1>1, <1>3, <1>5
<1>7. ASSUME NEW i \in 1 .. Len(queue) - 1, i <= k - 1
      PROVE  shorter[i] = queue[i]
    <2>1. i \in 1 .. k - 1
        BY <1>0, <1>7
    <2> QED
        BY <1>1, <1>6, <1>7, <2>1
<1>8. ASSUME NEW i \in 1 .. Len(queue) - 1, ~ (i <= k - 1)
      PROVE  shorter[i] = queue[i + 1]
    <2>1. i - (k - 1) \in 1 .. Len(queue) - k
        BY <1>0, <1>8
    <2>2. k + (i - (k - 1)) = i + 1
        BY <1>0
    <2> QED
        BY <1>2, <1>6, <1>8, <2>1, <2>2
<1>9. \A i \in 1 .. Len(queue) - 1 : shorter[i] = queue[IF i < k THEN i ELSE i + 1]
    BY <1>0, <1>7, <1>8
<1> QED
    BY <1>3, <1>4, <1>5, <1>9

\* _drop_first_matching takes the first entry of the given types out and keeps
\* the order of the others.
LEMMA DropFirstMatchingResult ==
    ASSUME NEW queue \in Seq(StreamEvent), NEW types, HasMatching(queue, types)
    PROVE  \E k \in 1 .. Len(queue) :
             /\ queue[k].event_type \in types
             /\ DropFirstMatching(queue, types) \in Seq(StreamEvent)
             /\ Len(DropFirstMatching(queue, types)) = Len(queue) - 1
             /\ \A i \in 1 .. Len(queue) - 1 :
                  DropFirstMatching(queue, types)[i] =
                     queue[IF i < k THEN i ELSE i + 1]
<1> DEFINE I == {i \in 1 .. Len(queue) : queue[i].event_type \in types}
           k == Min(I)
<1>0. Len(queue) \in Nat /\ DOMAIN queue = 1 .. Len(queue)
    BY LenProperties
<1>1. I \in SUBSET Nat /\ I # {}
    BY <1>0 DEF HasMatching
<1>2. k \in I
    BY <1>1, SmallestIndex
<1>3. DropFirstMatching(queue, types) = RemoveAt(queue, k)
    BY <1>1 DEF DropFirstMatching, RemoveFirstMatch, SelectInSeq
<1> HIDE DEF k
<1> QED
    BY <1>2, <1>3, RemoveAtResult

\* Without such an entry the queue is left alone.
LEMMA DropFirstMatchingNone ==
    ASSUME NEW queue \in Seq(StreamEvent), NEW types, ~HasMatching(queue, types)
    PROVE  DropFirstMatching(queue, types) = queue
<1> DOMAIN queue = 1 .. Len(queue)
    BY LenProperties
<1> QED
    BY DEF DropFirstMatching, RemoveFirstMatch, HasMatching
-----------------------------------------------------------------------------
(* The invariants, said of one queue, of the seq its subscriber has reached  *)
(* and of the events stored for its run.                                     *)

Held(queue) == {queue[i] : i \in DOMAIN queue}

Ordered(queue) ==
    \A i, j \in DOMAIN queue : i < j => queue[i].seq < queue[j].seq

Known(held, reached, log) ==
    \A event \in held :
        /\ event.seq > reached
        /\ event.seq <= Len(log)
        /\ event.event_type = log[event.seq]

Newest(held, log) ==
    \A event \in held : event.event_type \in COALESCING_EVENT_TYPES =>
        \A n \in DOMAIN log : n > event.seq => log[n] \notin COALESCING_EVENT_TYPES

CriticalKept(queue, reached, log) ==
    \A n \in DOMAIN log : (n > reached /\ log[n] \in CRITICAL_EVENT_TYPES) =>
        \/ \E event \in Held(queue) : event.seq = n
        \/ /\ Full(queue)
           /\ \A event \in Held(queue) :
                 event.event_type \in CRITICAL_EVENT_TYPES /\ event.seq > n

QueueOK(queue, reached, log) ==
    /\ queue \in Seq(StreamEvent)
    /\ Len(queue) <= QueueMaxsize
    /\ Ordered(queue)
    /\ Known(Held(queue), reached, log)
    /\ Newest(Held(queue), log)
    /\ CriticalKept(queue, reached, log)

\* shorter is the queue without its k-th entry.
Without(queue, k, shorter) ==
    /\ shorter \in Seq(StreamEvent)
    /\ Len(shorter) = Len(queue) - 1
    /\ \A i \in 1 .. Len(queue) - 1 : shorter[i] = queue[IF i < k THEN i ELSE i + 1]

\* Taking one entry out keeps all others, in their order.
LEMMA WithoutKeeps ==
    ASSUME NEW queue \in Seq(StreamEvent), NEW k \in 1 .. Len(queue), NEW shorter,
           Without(queue, k, shorter)
    PROVE  /\ Held(shorter) \subseteq Held(queue)
           /\ Held(queue) \ {queue[k]} \subseteq Held(shorter)
           /\ Ordered(queue) => Ordered(shorter)
<1>1. /\ Len(queue) \in Nat /\ DOMAIN queue = 1 .. Len(queue)
      /\ DOMAIN shorter = 1 .. Len(queue) - 1
      /\ \A i \in DOMAIN queue : queue[i] \in StreamEvent
    BY LenProperties, ElementOfSeq DEF Without
<1> DEFINE at(i) == IF i < k THEN i ELSE i + 1
<1>2. \A i \in DOMAIN shorter : at(i) \in DOMAIN queue /\ shorter[i] = queue[at(i)]
    BY <1>1 DEF Without
<1>3. \A i, j \in DOMAIN shorter : i < j => at(i) < at(j)
    BY <1>1
<1>4. Held(shorter) \subseteq Held(queue)
    BY <1>2 DEF Held
<1>5. Ordered(queue) => Ordered(shorter)
    BY <1>2, <1>3 DEF Ordered
<1>6. ASSUME NEW j \in DOMAIN queue, j # k
      PROVE  \E i \in DOMAIN shorter : at(i) = j
    <2>1. CASE j < k
        BY <1>1, <2>1
    <2>2. CASE j > k
        <3>1. j - 1 \in DOMAIN shorter /\ at(j - 1) = j
            BY <1>1, <2>2
        <3> QED
            BY <3>1
    <2> QED
        BY <1>1, <1>6, <2>1, <2>2
<1>7. Held(queue) \ {queue[k]} \subseteq Held(shorter)
    BY <1>2, <1>6 DEF Held
<1> QED
    BY <1>4, <1>5, <1>7

\* Appending an event newer than all that are held keeps the order.
LEMMA AppendNewest ==
    ASSUME NEW queue \in Seq(StreamEvent), NEW event \in StreamEvent, Ordered(queue),
           \A held \in Held(queue) : held.seq < event.seq
    PROVE  /\ Append(queue, event) \in Seq(StreamEvent)
           /\ Len(Append(queue, event)) = Len(queue) + 1
           /\ Ordered(Append(queue, event))
           /\ Held(Append(queue, event)) = Held(queue) \union {event}
<1> DEFINE longer == Append(queue, event)
<1>1. /\ longer \in Seq(StreamEvent)
      /\ Len(longer) = Len(queue) + 1
      /\ \A i \in 1 .. Len(queue) : longer[i] = queue[i]
      /\ longer[Len(queue) + 1] = event
    BY AppendProperties
<1> HIDE DEF longer
<1>2. /\ Len(queue) \in Nat /\ DOMAIN queue = 1 .. Len(queue)
      /\ DOMAIN longer = 1 .. Len(queue) + 1
    BY <1>1, LenProperties
<1>3. \A i \in DOMAIN longer : i \in DOMAIN queue \/ i = Len(queue) + 1
    BY <1>2
<1>4. Held(longer) = Held(queue) \union {event}
    BY <1>1, <1>2, <1>3 DEF Held
<1>5. ASSUME NEW i \in DOMAIN longer, NEW j \in DOMAIN longer, i < j
      PROVE  longer[i].seq < longer[j].seq
    <2>1. i \in DOMAIN queue
        BY <1>2, <1>5
    <2>2. CASE j \in DOMAIN queue
        BY <1>1, <1>2, <1>5, <2>1, <2>2 DEF Ordered
    <2>3. CASE j = Len(queue) + 1
        <3>1. queue[i] \in Held(queue)
            BY <2>1 DEF Held
        <3> QED
            BY <1>1, <1>2, <2>1, <2>3, <3>1
    <2> QED
        BY <1>3, <2>2, <2>3
<1> QED
    BY <1>1, <1>4, <1>5 DEF longer, Ordered

\* At most one update waits in a queue.
LEMMA OneUpdate ==
    ASSUME NEW log \in Seq(EventTypes), NEW reached \in Nat, NEW queue,
           QueueOK(queue, reached, log),
           NEW i \in DOMAIN queue, NEW j \in DOMAIN queue, i < j
    PROVE  ~ (/\ queue[i].event_type \in COALESCING_EVENT_TYPES
              /\ queue[j].event_type \in COALESCING_EVENT_TYPES)
<1>1. queue[i] \in Held(queue) /\ queue[j] \in Held(queue)
    BY DEF Held
<1>2. queue[i].seq < queue[j].seq
    BY DEF QueueOK, Ordered
<1>3. /\ queue[i] \in StreamEvent
      /\ queue[j] \in StreamEvent
    BY ElementOfSeq, LenProperties DEF QueueOK
<1>4. queue[j].seq \in DOMAIN log /\ log[queue[j].seq] = queue[j].event_type
    <2>1. DOMAIN log = 1 .. Len(log) /\ Len(log) \in Nat
        BY LenProperties
    <2> QED
        BY <1>1, <1>3, <2>1 DEF QueueOK, Known, StreamEvent
<1> QED
    BY <1>1, <1>2, <1>3, <1>4 DEF QueueOK, Newest, StreamEvent

\* The queue a coalescing event leaves for itself: in order, with every critical
\* event it had, and with no update if the event is one.
LEMMA CoalescedResult ==
    ASSUME NEW log \in Seq(EventTypes), NEW reached \in Nat, NEW queue,
           QueueOK(queue, reached, log), NEW event \in StreamEvent
    PROVE  LET kept == Coalesced(queue, event)
           IN  /\ kept \in Seq(StreamEvent)
               /\ \/ kept = queue
                  \/ /\ Len(kept) = Len(queue) - 1
                     /\ \E held \in Held(queue) :
                           held.event_type \in COALESCING_EVENT_TYPES
               /\ Ordered(kept)
               /\ Held(kept) \subseteq Held(queue)
               /\ \A held \in Held(queue) \ Held(kept) :
                     held.event_type \in COALESCING_EVENT_TYPES
               /\ event.event_type \in COALESCING_EVENT_TYPES =>
                     \A held \in Held(kept) :
                        held.event_type \notin COALESCING_EVENT_TYPES
<1> DEFINE types == {event.event_type}
           kept == Coalesced(queue, event)
<1>1. queue \in Seq(StreamEvent) /\ Ordered(queue)
    BY DEF QueueOK
<1>2. CASE event.event_type \notin COALESCING_EVENT_TYPES
    BY <1>1, <1>2 DEF Coalesced
<1>3. CASE event.event_type \in COALESCING_EVENT_TYPES /\ ~HasMatching(queue, types)
    <2>1. kept = queue
        BY <1>1, <1>3, DropFirstMatchingNone DEF Coalesced
    <2>2. \A held \in Held(queue) : held.event_type \notin COALESCING_EVENT_TYPES
        BY <1>3 DEF HasMatching, Held, COALESCING_EVENT_TYPES
    <2> QED
        BY <1>1, <2>1, <2>2
<1>4. CASE event.event_type \in COALESCING_EVENT_TYPES /\ HasMatching(queue, types)
    <2>1. PICK k \in 1 .. Len(queue) :
              queue[k].event_type \in types /\ Without(queue, k, kept)
        BY <1>1, <1>4, DropFirstMatchingResult DEF Coalesced, Without
    <2>2. /\ Held(kept) \subseteq Held(queue)
          /\ Held(queue) \ {queue[k]} \subseteq Held(kept)
          /\ Ordered(kept)
        BY <1>1, <2>1, WithoutKeeps
    <2>3. ASSUME NEW held \in Held(kept)
          PROVE  held.event_type \notin COALESCING_EVENT_TYPES
        <3>1. PICK i \in DOMAIN kept : held = kept[i]
            BY DEF Held
        <3>2. /\ Len(queue) \in Nat /\ DOMAIN queue = 1 .. Len(queue)
              /\ DOMAIN kept = 1 .. Len(queue) - 1
            BY <1>1, <2>1, LenProperties DEF Without
        <3>3. PICK j \in DOMAIN queue : j # k /\ held = queue[j]
            BY <2>1, <3>1, <3>2 DEF Without
        <3>4. k \in DOMAIN queue /\ queue[k].event_type \in COALESCING_EVENT_TYPES
            BY <1>4, <2>1, <3>2
        <3>5. CASE j < k
            BY <3>3, <3>4, <3>5, OneUpdate
        <3>6. CASE k < j
            BY <3>3, <3>4, <3>6, OneUpdate
        <3> QED
            BY <3>2, <3>3, <3>5, <3>6
    <2>4. queue[k] \in Held(queue) /\ queue[k].event_type \in COALESCING_EVENT_TYPES
        BY <1>1, <1>4, <2>1, LenProperties DEF Held
    <2> QED
        BY <1>4, <2>1, <2>2, <2>3, <2>4 DEF Without
<1> QED
    BY <1>2, <1>3, <1>4

\* What a full queue becomes: it holds the new event, or the event is not a
\* critical one; every critical event it held stays, unless a critical one
\* comes to a queue of nothing else and takes the place of the oldest.
LEMMA MakeRoomResult ==
    ASSUME NEW queue \in Seq(StreamEvent), Ordered(queue), Len(queue) = QueueMaxsize,
           NEW event \in StreamEvent, \A held \in Held(queue) : held.seq < event.seq
    PROVE  LET full == MakeRoom(queue, event)
           IN  /\ full \in Seq(StreamEvent)
               /\ Len(full) = QueueMaxsize
               /\ Ordered(full)
               /\ Held(full) \subseteq Held(queue) \union {event}
               /\ event \in Held(full) \/ event.event_type \notin CRITICAL_EVENT_TYPES
               /\ \/ event.event_type \in CRITICAL_EVENT_TYPES
                  \/ full = queue
                  \/ \E held \in Held(queue) :
                        held.event_type \notin CRITICAL_EVENT_TYPES
               /\ \/ \A held \in Held(queue) :
                       held.event_type \in CRITICAL_EVENT_TYPES => held \in Held(full)
                  \/ \A held \in Held(full) :
                       /\ held.event_type \in CRITICAL_EVENT_TYPES
                       /\ \A lost \in Held(queue) \ Held(full) : lost.seq < held.seq
<1> DEFINE full == MakeRoom(queue, event)
<1>0. Len(queue) \in Nat \ {0} /\ DOMAIN queue = 1 .. Len(queue)
    BY LenProperties, BrokerAssumption
<1>1. CASE HasMatching(queue, LOW_PRIORITY_EVENT_TYPES)
    <2> DEFINE kept == DropFirstMatching(queue, LOW_PRIORITY_EVENT_TYPES)
    <2>1. PICK k \in 1 .. Len(queue) :
              queue[k].event_type \in LOW_PRIORITY_EVENT_TYPES /\ Without(queue, k, kept)
        BY <1>1, DropFirstMatchingResult DEF Without
    <2>2. full = Append(kept, event)
        BY <1>1 DEF MakeRoom
    <2> HIDE DEF kept
    <2>3. /\ Held(kept) \subseteq Held(queue)
          /\ Held(queue) \ {queue[k]} \subseteq Held(kept)
          /\ Ordered(kept)
        BY <2>1, WithoutKeeps
    <2>4. /\ full \in Seq(StreamEvent)
          /\ Len(full) = Len(kept) + 1
          /\ Ordered(full)
          /\ Held(full) = Held(kept) \union {event}
        BY <2>1, <2>2, <2>3, AppendNewest DEF Without
    <2>5. queue[k].event_type \notin CRITICAL_EVENT_TYPES
        BY <2>1 DEF LOW_PRIORITY_EVENT_TYPES, COALESCING_EVENT_TYPES, CRITICAL_EVENT_TYPES
    <2>6. \A held \in Held(queue) :
             held.event_type \in CRITICAL_EVENT_TYPES => held \in Held(full)
        BY <2>3, <2>4, <2>5
    <2>7. Len(full) = QueueMaxsize
        BY <1>0, <2>1, <2>4 DEF Without
    <2>8. queue[k] \in Held(queue)
        BY <1>0 DEF Held
    <2> QED
        BY <2>3, <2>4, <2>5, <2>6, <2>7, <2>8
<1>2. CASE ~HasMatching(queue, LOW_PRIORITY_EVENT_TYPES)
           /\ event.event_type \notin CRITICAL_EVENT_TYPES
    BY <1>2 DEF MakeRoom
<1>3. CASE ~HasMatching(queue, LOW_PRIORITY_EVENT_TYPES)
           /\ event.event_type \in CRITICAL_EVENT_TYPES
    <2> DEFINE kept == Tail(queue)
    <2>1. Without(queue, 1, kept)
        BY <1>0, HeadTailProperties DEF Without
    <2>2. full = Append(kept, event)
        BY <1>3 DEF MakeRoom
    <2> HIDE DEF kept
    <2>3. /\ Held(kept) \subseteq Held(queue)
          /\ Held(queue) \ {queue[1]} \subseteq Held(kept)
          /\ Ordered(kept)
        BY <1>0, <2>1, WithoutKeeps
    <2>4. /\ full \in Seq(StreamEvent)
          /\ Len(full) = Len(kept) + 1
          /\ Ordered(full)
          /\ Held(full) = Held(kept) \union {event}
        BY <2>1, <2>2, <2>3, AppendNewest DEF Without
    <2>5. Len(full) = QueueMaxsize
        BY <1>0, <2>1, <2>4 DEF Without
    <2>6. \A held \in Held(full) : held.event_type \in CRITICAL_EVENT_TYPES
        <3>1. \A held \in Held(queue) : held \in StreamEvent
            BY ElementOfSeq, <1>0 DEF Held
        <3> QED
            BY <1>3, <2>3, <2>4, <3>1 DEF Held, HasMatching, StreamEvent, EventTypes
    <2>7. ASSUME NEW held \in Held(full), NEW lost \in Held(queue) \ Held(full)
          PROVE  lost.seq < held.seq
        <3>1. lost = queue[1] /\ lost \in Held(queue)
            BY <2>3, <2>4, <2>7
        <3>2. CASE held = event
            BY <3>1, <3>2
        <3>3. CASE held \in Held(kept)
            <4>1. PICK i \in DOMAIN kept : held = kept[i]
                BY <3>3 DEF Held
            <4>2. i \in 1 .. Len(queue) - 1 /\ held = queue[i + 1]
                BY <1>0, <2>1, <4>1, LenProperties DEF Without
            <4> QED
                BY <1>0, <3>1, <4>2 DEF Ordered
        <3> QED
            BY <2>4, <2>7, <3>2, <3>3
    <2> QED
        BY <1>3, <2>3, <2>4, <2>5, <2>6, <2>7
<1> QED
    BY <1>1, <1>2, <1>3

\* Publishing an event keeps a subscriber's queue as it should be.
LEMMA PublishKeepsQueueOK ==
    ASSUME NEW log \in Seq(EventTypes), NEW type \in EventTypes,
           NEW reached \in Nat, reached <= Len(log),
           NEW queue, QueueOK(queue, reached, log)
    PROVE  QueueOK(PublishToQueue(queue, [event_type |-> type, seq |-> Len(log) + 1]),
                   reached, Append(log, type))
<1> DEFINE event == [event_type |-> type, seq |-> Len(log) + 1]
           longer == Append(log, type)
           kept == Coalesced(queue, event)
           result == PublishToQueue(queue, event)
<1>1. /\ longer \in Seq(EventTypes)
      /\ Len(log) \in Nat
      /\ Len(longer) = Len(log) + 1
      /\ DOMAIN longer = 1 .. Len(log) + 1
      /\ DOMAIN log = 1 .. Len(log)
      /\ \A n \in 1 .. Len(log) : longer[n] = log[n]
      /\ longer[Len(log) + 1] = type
    BY AppendProperties, LenProperties
<1>2. event \in StreamEvent /\ event.event_type = type /\ event.seq = Len(log) + 1
    BY <1>1 DEF StreamEvent
<1>3. /\ queue \in Seq(StreamEvent)
      /\ Len(queue) \in Nat
      /\ Len(queue) <= QueueMaxsize
      /\ QueueMaxsize \in Nat \ {0}
      /\ \A held \in Held(queue) :
            held \in StreamEvent /\ held.seq > reached /\ held.seq < event.seq
    <2>1. \A held \in Held(queue) : held \in StreamEvent
        BY LenProperties, ElementOfSeq DEF Held, QueueOK
    <2> QED
        BY <1>1, <1>2, <2>1, LenProperties, BrokerAssumption DEF QueueOK, Known, StreamEvent
<1> HIDE DEF event, longer
<1>4. /\ kept \in Seq(StreamEvent)
      /\ \/ kept = queue
         \/ /\ Len(kept) = Len(queue) - 1
            /\ \E held \in Held(queue) : held.event_type \in COALESCING_EVENT_TYPES
      /\ Ordered(kept)
      /\ Held(kept) \subseteq Held(queue)
      /\ \A held \in Held(queue) \ Held(kept) :
            held.event_type \in COALESCING_EVENT_TYPES
      /\ type \in COALESCING_EVENT_TYPES =>
            \A held \in Held(kept) : held.event_type \notin COALESCING_EVENT_TYPES
    BY <1>2, CoalescedResult
<1> HIDE DEF kept
<1>5. result = IF Full(kept) THEN MakeRoom(kept, event) ELSE Append(kept, event)
    BY DEF PublishToQueue, kept
<1> HIDE DEF result
<1>6. /\ result \in Seq(StreamEvent)
      /\ Len(result) <= QueueMaxsize
      /\ Ordered(result)
      /\ Held(result) \subseteq Held(kept) \union {event}
      /\ event \in Held(result) \/ type \notin CRITICAL_EVENT_TYPES
      /\ \/ \A held \in Held(kept) :
              held.event_type \in CRITICAL_EVENT_TYPES => held \in Held(result)
         \/ /\ Full(kept)
            /\ Full(result)
            /\ \A held \in Held(result) :
                 /\ held.event_type \in CRITICAL_EVENT_TYPES
                 /\ \A lost \in Held(kept) \ Held(result) : lost.seq < held.seq
      /\ Full(kept) =>
            /\ Full(result)
            /\ \/ type \in CRITICAL_EVENT_TYPES
               \/ result = kept
               \/ \E held \in Held(kept) : held.event_type \notin CRITICAL_EVENT_TYPES
    <2>1. CASE Full(kept)
        <3>1. Len(kept) = QueueMaxsize
            BY <1>3, <1>4, <2>1 DEF Full
        <3> QED
            BY <1>2, <1>3, <1>4, <1>5, <2>1, <3>1, MakeRoomResult DEF Full
    <2>2. CASE ~Full(kept)
        <3>1. /\ result \in Seq(StreamEvent)
              /\ Len(result) = Len(kept) + 1
              /\ Ordered(result)
              /\ Held(result) = Held(kept) \union {event}
            BY <1>2, <1>3, <1>4, <1>5, <2>2, AppendNewest
        <3>2. Len(result) <= QueueMaxsize
            BY <1>3, <1>4, <2>2, <3>1 DEF Full
        <3> QED
            BY <2>2, <3>1, <3>2
    <2> QED
        BY <2>1, <2>2
<1>7. Known(Held(result), reached, longer)
    <2>1. ASSUME NEW held \in Held(queue)
          PROVE  /\ held.seq > reached
                 /\ held.seq <= Len(longer)
                 /\ held.event_type = longer[held.seq]
        BY <1>1, <1>3, <2>1 DEF QueueOK, Known, StreamEvent
    <2>2. /\ event.seq > reached
          /\ event.seq <= Len(longer)
          /\ event.event_type = longer[event.seq]
        BY <1>1, <1>2
    <2> QED
        BY <1>4, <1>6, <2>1, <2>2 DEF Known
<1>8. Newest(Held(result), longer)
    <2>1. ASSUME NEW held \in Held(result), NEW n \in DOMAIN longer,
                 held.event_type \in COALESCING_EVENT_TYPES, n > held.seq
          PROVE  longer[n] \notin COALESCING_EVENT_TYPES
        <3>1. held \in Held(kept) /\ held \in Held(queue)
            BY <1>1, <1>2, <1>4, <1>6, <2>1
        <3>2. CASE n = Len(log) + 1
            BY <1>1, <1>4, <2>1, <3>1, <3>2
        <3>3. CASE n \in DOMAIN log
            BY <1>1, <2>1, <3>1, <3>3 DEF QueueOK, Newest
        <3> QED
            BY <1>1, <3>2, <3>3
    <2> QED
        BY <2>1 DEF Newest
<1>9. CriticalKept(result, reached, longer)
    <2>1. ASSUME NEW n \in DOMAIN longer, n > reached, longer[n] \in CRITICAL_EVENT_TYPES
          PROVE  \/ \E held \in Held(result) : held.seq = n
                 \/ /\ Full(result)
                    /\ \A held \in Held(result) :
                          held.event_type \in CRITICAL_EVENT_TYPES /\ held.seq > n
        <3>1. CASE n = Len(log) + 1
            BY <1>1, <1>2, <1>6, <2>1, <3>1
        <3>2. CASE n \in DOMAIN log /\ \E held \in Held(queue) : held.seq = n
            <4>1. PICK old \in Held(queue) : old.seq = n
                BY <3>2
            <4>2. old.event_type \in CRITICAL_EVENT_TYPES
                BY <1>1, <2>1, <3>2, <4>1 DEF QueueOK, Known
            <4>3. old \in Held(kept)
                BY <1>4, <4>1, <4>2
                   DEF COALESCING_EVENT_TYPES, CRITICAL_EVENT_TYPES
            <4> QED
                BY <1>1, <1>3, <1>4, <1>6, <4>1, <4>2, <4>3 DEF StreamEvent
        <3>3. CASE /\ n \in DOMAIN log
                   /\ Full(queue)
                   /\ \A held \in Held(queue) :
                         held.event_type \in CRITICAL_EVENT_TYPES /\ held.seq > n
            <4>1. \A held \in Held(kept) :
                     held.event_type \in CRITICAL_EVENT_TYPES /\ held.seq > n
                BY <1>4, <3>3
            <4>2. kept = queue
                BY <1>4, <3>3 DEF COALESCING_EVENT_TYPES, CRITICAL_EVENT_TYPES
            <4>3. Full(kept) /\ Full(result)
                BY <1>6, <3>3, <4>2
            <4>4. CASE type \in CRITICAL_EVENT_TYPES
                BY <1>1, <1>2, <1>6, <3>3, <4>1, <4>3, <4>4
            <4>5. CASE type \notin CRITICAL_EVENT_TYPES
                <5>1. result = kept
                    BY <1>6, <4>1, <4>3, <4>5
                <5> QED
                    BY <4>1, <4>3, <5>1
            <4> QED
                BY <4>4, <4>5
        <3> QED
            BY <1>1, <2>1, <3>1, <3>2, <3>3 DEF QueueOK, CriticalKept
    <2> QED
        BY <2>1 DEF CriticalKept
<1> QED
    BY <1>6, <1>7, <1>8, <1>9 DEF QueueOK, event, longer, result
-----------------------------------------------------------------------------
(* The invariant of the whole broker: every subscribed queue is as it should *)
(* be, and no subscriber is ahead of what is stored.                         *)

IInv ==
    /\ TypeOK
    /\ \A s \in Subscribers : topic[s] \in Runs =>
          /\ delivered[s] <= Len(events[topic[s]])
          /\ QueueOK(queues[s], delivered[s], events[topic[s]])

\* A broker without subscribers satisfies the invariant.
LEMMA InitIInv == Init => IInv
<1> SUFFICES ASSUME Init PROVE IInv
    OBVIOUS
<1>1. TypeOK
    BY BrokerAssumption DEF Init, TypeOK
<1> QED
    BY <1>1, BrokerAssumption DEF Init, IInv

\* publish, offering the event to every subscriber of its run, keeps it.
LEMMA PublishKeepsIInv ==
    ASSUME IInv, NEW r \in Runs, NEW type \in EmittedTypes, Publish(r, type)
    PROVE  IInv'
<1> DEFINE event == [event_type |-> type, seq |-> Len(events[r]) + 1]
<1>1. type \in EventTypes
    BY BrokerAssumption
<1>2. /\ events \in [Runs -> Seq(EventTypes)]
      /\ topic \in [Subscribers -> Runs \union {NoRun}]
      /\ queues \in [Subscribers -> Seq(StreamEvent)]
      /\ delivered \in [Subscribers -> Nat]
      /\ topic' = topic /\ delivered' = delivered
    BY DEF IInv, TypeOK, Publish
<1>3. /\ events' = [events EXCEPT ![r] = Append(events[r], type)]
      /\ events' \in [Runs -> Seq(EventTypes)]
      /\ Len(events'[r]) = Len(events[r]) + 1
      /\ Len(events[r]) \in Nat
    BY <1>1, <1>2, AppendProperties, LenProperties DEF Publish
<1>4. queues' = [s \in Subscribers |->
                    IF topic[s] = r THEN PublishToQueue(queues[s], event) ELSE queues[s]]
    BY DEF Publish
<1>5. ASSUME NEW s \in Subscribers, topic[s] = r
      PROVE  /\ delivered'[s] <= Len(events'[topic'[s]])
             /\ QueueOK(queues'[s], delivered'[s], events'[topic'[s]])
    <2>1. delivered[s] <= Len(events[r]) /\ QueueOK(queues[s], delivered[s], events[r])
        BY <1>5 DEF IInv
    <2>2. QueueOK(PublishToQueue(queues[s], event), delivered[s], Append(events[r], type))
        BY <1>1, <1>2, <2>1, PublishKeepsQueueOK
    <2>3. /\ queues'[s] = PublishToQueue(queues[s], event)
          /\ events'[topic'[s]] = Append(events[r], type)
          /\ delivered'[s] = delivered[s]
        BY <1>2, <1>3, <1>4, <1>5
    <2>4. delivered[s] <= Len(Append(events[r], type))
        BY <1>2, <1>3, <2>1
    <2> QED
        BY <2>2, <2>3, <2>4
<1>6. ASSUME NEW s \in Subscribers, topic[s] # r
      PROVE  queues'[s] = queues[s] /\ (topic[s] \in Runs => events'[topic[s]] = events[topic[s]])
    BY <1>2, <1>3, <1>4, <1>6
<1>7. TypeOK'
    <2>1. \A s \in Subscribers :
             /\ queues'[s] \in Seq(StreamEvent)
             /\ Len(queues'[s]) <= QueueMaxsize
             /\ topic'[s] = NoRun => queues'[s] = <<>>
        BY <1>2, <1>5, <1>6, BrokerAssumption DEF IInv, TypeOK, QueueOK
    <2>2. queues' \in [Subscribers -> Seq(StreamEvent)]
        BY <1>4, <2>1
    <2> QED
        BY <1>2, <1>3, <2>1, <2>2 DEF TypeOK
<1>8. ASSUME NEW s \in Subscribers, topic'[s] \in Runs
      PROVE  /\ delivered'[s] <= Len(events'[topic'[s]])
             /\ QueueOK(queues'[s], delivered'[s], events'[topic'[s]])
    BY <1>2, <1>5, <1>6, <1>8 DEF IInv
<1> QED
    BY <1>7, <1>8 DEF IInv

\* subscribe keeps it: the new queue owes nothing stored before it.
LEMMA SubscribeKeepsIInv ==
    ASSUME IInv, NEW s \in Subscribers, NEW r \in Runs, Subscribe(s, r)
    PROVE  IInv'
<1>1. /\ events[r] \in Seq(EventTypes) /\ Len(events[r]) \in Nat
      /\ DOMAIN events[r] = 1 .. Len(events[r])
    BY LenProperties DEF IInv, TypeOK
<1>2. TypeOK'
    BY <1>1, BrokerAssumption DEF IInv, TypeOK, Subscribe
<1>3. QueueOK(<<>>, Len(events[r]), events[r])
    BY <1>1, BrokerAssumption
       DEF QueueOK, Held, Ordered, Known, Newest, CriticalKept
<1>4. ASSUME NEW t \in Subscribers, topic'[t] \in Runs
      PROVE  /\ delivered'[t] <= Len(events'[topic'[t]])
             /\ QueueOK(queues'[t], delivered'[t], events'[topic'[t]])
    <2>1. CASE t = s
        <3>1. /\ delivered'[t] = Len(events[r]) /\ queues'[t] = <<>>
              /\ topic'[t] = r /\ events' = events
            BY <2>1 DEF IInv, TypeOK, Subscribe
        <3> QED
            BY <1>1, <1>3, <3>1
    <2>2. CASE t # s
        BY <1>4, <2>2 DEF IInv, TypeOK, Subscribe
    <2> QED
        BY <2>1, <2>2
<1> QED
    BY <1>2, <1>4 DEF IInv

\* A subscriber that takes the head of its queue keeps it.
LEMMA ReceiveKeepsIInv ==
    ASSUME IInv, NEW s \in Subscribers, Receive(s)
    PROVE  IInv'
<1> DEFINE q == queues[s]
           log == events[topic[s]]
<1>1. /\ events \in [Runs -> Seq(EventTypes)]
      /\ topic \in [Subscribers -> Runs \union {NoRun}]
      /\ queues \in [Subscribers -> Seq(StreamEvent)]
      /\ delivered \in [Subscribers -> Nat]
      /\ topic[s] \in Runs
      /\ q # <<>> /\ Len(q) <= QueueMaxsize
    BY DEF IInv, TypeOK, Receive
<1>2. /\ delivered[s] <= Len(log)
      /\ QueueOK(q, delivered[s], log)
    BY <1>1 DEF IInv
<1>3. /\ Len(q) \in Nat \ {0} /\ DOMAIN q = 1 .. Len(q)
      /\ Head(q) = q[1] /\ q[1] \in Held(q) /\ q[1] \in StreamEvent
      /\ Without(q, 1, Tail(q))
    BY <1>1, LenProperties, HeadTailProperties, EmptySeq, ElementOfSeq DEF Held, Without
<1>4. /\ Held(Tail(q)) \subseteq Held(q)
      /\ Held(q) \ {q[1]} \subseteq Held(Tail(q))
      /\ Ordered(Tail(q))
    BY <1>1, <1>2, <1>3, WithoutKeeps DEF QueueOK
<1>5. \A held \in Held(Tail(q)) : held.seq > q[1].seq
    <2>1. \A i \in DOMAIN Tail(q) : i + 1 \in DOMAIN q /\ Tail(q)[i] = q[i + 1] /\ 1 < i + 1
        BY <1>3, LenProperties DEF Without
    <2>2. \A i \in DOMAIN q : 1 < i => q[1].seq < q[i].seq
        BY <1>2, <1>3 DEF QueueOK, Ordered
    <2>3. \A i \in DOMAIN q : q[i].seq \in Nat
        <3>1. q \in Seq(StreamEvent)
            BY <1>1
        <3>2. \A i \in DOMAIN q : q[i] \in StreamEvent
            BY <1>3, <3>1, ElementOfSeq
        <3> QED
            BY <3>2 DEF StreamEvent
    <2>4. \A i \in DOMAIN Tail(q) : q[1].seq < Tail(q)[i].seq /\ Tail(q)[i].seq \in Nat
        BY <2>1, <2>2, <2>3
    <2>5. q[1].seq \in Nat
        BY <1>3, <2>3
    <2> QED
        BY <2>4, <2>5 DEF Held
<1>6. q[1].seq \in Nat /\ q[1].seq <= Len(log) /\ q[1].seq > delivered[s]
    BY <1>2, <1>3 DEF QueueOK, Known, StreamEvent
<1>7. QueueOK(Tail(q), q[1].seq, log)
    <2>1. Known(Held(Tail(q)), q[1].seq, log)
        BY <1>2, <1>4, <1>5 DEF QueueOK, Known
    <2>2. Newest(Held(Tail(q)), log)
        BY <1>2, <1>4 DEF QueueOK, Newest
    <2>3. CriticalKept(Tail(q), q[1].seq, log)
        <3>1. log \in Seq(EventTypes) /\ DOMAIN log = 1 .. Len(log) /\ Len(log) \in Nat
            BY <1>1, LenProperties
        <3>2. ASSUME NEW n \in DOMAIN log, n > q[1].seq, log[n] \in CRITICAL_EVENT_TYPES
              PROVE  \E held \in Held(Tail(q)) : held.seq = n
            <4>1. n > delivered[s]
                BY <1>1, <1>6, <3>1, <3>2
            <4>2. ~ (\A held \in Held(q) : held.seq > n)
                BY <1>3, <1>6, <3>1, <3>2
            <4>3. PICK held \in Held(q) : held.seq = n
                BY <1>2, <3>2, <4>1, <4>2 DEF QueueOK, CriticalKept
            <4>4. held # q[1]
                BY <1>6, <3>1, <3>2, <4>3
            <4> QED
                BY <1>4, <4>3, <4>4
        <3> QED
            BY <3>2 DEF CriticalKept
    <2>4. Len(Tail(q)) <= QueueMaxsize
        BY <1>1, <1>3, BrokerAssumption DEF Without
    <2> QED
        BY <1>3, <1>4, <2>1, <2>2, <2>3, <2>4 DEF QueueOK, Without
<1>8. /\ events' = events /\ topic' = topic
      /\ delivered' = [delivered EXCEPT ![s] = q[1].seq]
      /\ queues' = [queues EXCEPT ![s] = Tail(q)]
    BY <1>3 DEF Receive
<1>9. TypeOK'
    BY <1>1, <1>3, <1>6, <1>7, <1>8, BrokerAssumption DEF IInv, TypeOK, QueueOK
<1>10. ASSUME NEW t \in Subscribers, topic'[t] \in Runs
       PROVE  /\ delivered'[t] <= Len(events'[topic'[t]])
              /\ QueueOK(queues'[t], delivered'[t], events'[topic'[t]])
    <2>1. CASE t = s
        BY <1>1, <1>6, <1>7, <1>8, <2>1
    <2>2. CASE t # s
        BY <1>1, <1>8, <1>10, <2>2 DEF IInv
    <2> QED
        BY <2>1, <2>2
<1> QED
    BY <1>9, <1>10 DEF IInv

\* unsubscribe keeps it.
LEMMA UnsubscribeKeepsIInv ==
    ASSUME IInv, NEW s \in Subscribers, Unsubscribe(s)
    PROVE  IInv'
<1>1. TypeOK'
    BY BrokerAssumption DEF IInv, TypeOK, Unsubscribe
<1>2. ASSUME NEW t \in Subscribers, topic'[t] \in Runs
      PROVE  /\ delivered'[t] <= Len(events'[topic'[t]])
             /\ QueueOK(queues'[t], delivered'[t], events'[topic'[t]])
    <2>1. t # s
        BY <1>2, BrokerAssumption DEF IInv, TypeOK, Unsubscribe
    <2> QED
        BY <1>2, <2>1 DEF IInv, TypeOK, Unsubscribe
<1> QED
    BY <1>1, <1>2 DEF IInv
-----------------------------------------------------------------------------
(* The theorems. *)

\* The invariant is inductive.
LEMMA NextKeepsIInv == IInv /\ [Next]_vars => IInv'
<1> SUFFICES ASSUME IInv, [Next]_vars PROVE IInv'
    OBVIOUS
<1>1. CASE \E r \in Runs, type \in EmittedTypes : Publish(r, type)
    BY <1>1, PublishKeepsIInv
<1>2. CASE \E s \in Subscribers, r \in Runs : Subscribe(s, r)
    BY <1>2, SubscribeKeepsIInv
<1>3. CASE \E s \in Subscribers : Receive(s)
    BY <1>3, ReceiveKeepsIInv
<1>4. CASE \E s \in Subscribers : Unsubscribe(s)
    BY <1>4, UnsubscribeKeepsIInv
<1>5. CASE UNCHANGED vars
    BY <1>5 DEF vars, IInv, TypeOK, QueueOK, Held, Ordered, Known, Newest, CriticalKept, Full
<1> QED
    BY <1>1, <1>2, <1>3, <1>4, <1>5 DEF Next

\* The inductive invariant holds in every state.
THEOREM InductiveInvariant == Spec => []IInv
    BY InitIInv, NextKeepsIInv, PTL DEF Spec

\* Type correctness; no subscriber's queue ever exceeds its capacity.
THEOREM TypeCorrect == Spec => []TypeOK
<1>1. IInv => TypeOK
    BY DEF IInv
<1> QED
    BY <1>1, InductiveInvariant, PTL

\* A subscriber's queue holds events of its run, in order, each once, and none
\* that it has seen: _publish_to_queue never reorders or repeats.
THEOREM QueuesInOrder == Spec => []QueueInOrder
<1>1. IInv => QueueInOrder
    <2> SUFFICES ASSUME IInv, NEW s \in Subscribers, queues[s] # <<>>
                 PROVE  /\ Known(Held(queues[s]), delivered[s], events[topic[s]])
                        /\ Ordered(queues[s])
        BY DEF QueueInOrder, Known, Held, Ordered
    <2>1. topic[s] \in Runs
        BY DEF IInv, TypeOK
    <2> QED
        BY <2>1 DEF IInv, QueueOK
<1> QED
    BY <1>1, InductiveInvariant, PTL

\* Coalescing never leaves a superseded run.session_update in a queue.
THEOREM NewestUpdateWaits == Spec => []OnlyNewestUpdateWaits
<1>1. IInv => OnlyNewestUpdateWaits
    <2> SUFFICES ASSUME IInv, NEW s \in Subscribers, queues[s] # <<>>
                 PROVE  Newest(Held(queues[s]), events[topic[s]])
        BY DEF OnlyNewestUpdateWaits, Newest, Held
    <2>1. topic[s] \in Runs
        BY DEF IInv, TypeOK
    <2> QED
        BY <2>1 DEF IInv, QueueOK
<1> QED
    BY <1>1, InductiveInvariant, PTL

\* The three together: what a queue may hold.
THEOREM QueuesWellFormed == Spec => []QueuesOK
<1>1. TypeOK /\ QueueInOrder /\ OnlyNewestUpdateWaits => QueuesOK
    BY DEF QueuesOK
<1> QED
    BY <1>1, TypeCorrect, QueuesInOrder, NewestUpdateWaits, PTL

\* A full queue gives up a critical event only when it holds nothing but newer
\* critical events.
THEOREM CriticalKeptOrSuperseded == Spec => []CriticalLostOnlyToNewerCritical
<1>1. IInv => CriticalLostOnlyToNewerCritical
    <2> SUFFICES ASSUME IInv, NEW s \in Subscribers, topic[s] # NoRun
                 PROVE  CriticalKept(queues[s], delivered[s], events[topic[s]])
        BY DEF CriticalLostOnlyToNewerCritical, CriticalKept, Held
    <2>1. topic[s] \in Runs
        BY DEF IInv, TypeOK
    <2> QED
        BY <2>1 DEF IInv, QueueOK
<1> QED
    BY <1>1, InductiveInvariant, PTL
-----------------------------------------------------------------------------
(***************************************************************************)
(* The streams of the requests.                                            *)
(***************************************************************************)

\* The seqs a client has been shown, and the critical events that follow one.
Seen(list) == {list[i].seq : i \in DOMAIN list}
NewerCritical(n, log) == {m \in DOMAIN log : log[m] \in CRITICAL_EVENT_TYPES /\ m > n}

\* A list holds events of the run, in order: so do the snapshot and what was shown.
ListOK(list, log) ==
    \A i \in DOMAIN list :
        /\ list[i].seq \in DOMAIN log
        /\ list[i].event_type = log[list[i].seq]
        /\ \A j \in 1 .. (i - 1) : list[j].seq < list[i].seq

\* What a client that was passed over has not missed.
PassedOK(list, start, reached, log) ==
    \A n \in DOMAIN log :
        (log[n] \in CRITICAL_EVENT_TYPES /\ n > start /\ n <= reached) =>
            n \in Seen(list) \/ Cardinality(NewerCritical(n, log)) >= QueueMaxsize

RequestOK(where, before, list, start, reached, log) ==
    /\ ListOK(before, log)
    /\ ListOK(list, log)
    /\ where = "accepted" => before = <<>> /\ list = <<>>
    /\ where = "replaying" =>
          Len(list) <= Len(before) /\ \A i \in DOMAIN list : list[i] = before[i]
    /\ where = "live" =>
          /\ Seen(before) \subseteq Seen(list)
          /\ \A n \in Seen(list) : n <= reached
          /\ PassedOK(list, start, reached, log)

StreamInv ==
    /\ IInv
    /\ StreamTypeOK
    /\ \A s \in Subscribers :
          /\ phase[s] = "none" => history[s] = <<>> /\ shown[s] = <<>>
          /\ phase[s] # "none" =>
                /\ watched[s] \in Runs
                /\ RequestOK(phase[s], history[s], shown[s], joined[s], delivered[s],
                             events[watched[s]])
-----------------------------------------------------------------------------
(* Sequences. *)

\* A sequence and its domain.
LEMMA SeqFacts ==
    ASSUME NEW S, NEW list \in Seq(S)
    PROVE  /\ Len(list) \in Nat /\ DOMAIN list = 1 .. Len(list)
           /\ \A i \in DOMAIN list : list[i] \in S
    BY LenProperties, ElementOfSeq

\* A position is a number that the length bounds.
LEMMA DomainFacts ==
    ASSUME NEW S, NEW list \in Seq(S)
    PROVE  \A i \in 1 .. Len(list) : i \in Nat /\ i <= Len(list) /\ ~ (i > Len(list))
<1> DEFINE k == Len(list)
<1>1. k \in Nat
    BY SeqFacts
<1> HIDE DEF k
<1>2. \A i \in 1 .. k : i \in Nat /\ i <= k /\ ~ (i > k)
    BY <1>1
<1> QED
    BY <1>2 DEF k

\* What Append adds.
LEMMA AppendFacts ==
    ASSUME NEW S, NEW list \in Seq(S), NEW e \in S
    PROVE  /\ Append(list, e) \in Seq(S)
           /\ Len(Append(list, e)) = Len(list) + 1
           /\ DOMAIN Append(list, e) = 1 .. Len(list) + 1
           /\ \A i \in DOMAIN list : Append(list, e)[i] = list[i]
           /\ Append(list, e)[Len(list) + 1] = e
    BY AppendProperties, LenProperties

\* The newer critical events of a run are finitely many.
LEMMA NewerFinite ==
    ASSUME NEW log \in Seq(EventTypes), NEW n
    PROVE  /\ IsFiniteSet(NewerCritical(n, log))
           /\ Cardinality(NewerCritical(n, log)) \in Nat
<1>1. Len(log) \in Int /\ DOMAIN log = 1 .. Len(log)
    BY SeqFacts
<1>2. IsFiniteSet(1 .. Len(log))
    BY <1>1, FS_Interval
<1>3. NewerCritical(n, log) \in SUBSET (1 .. Len(log))
    BY <1>1 DEF NewerCritical
<1>4. IsFiniteSet(NewerCritical(n, log))
    BY <1>2, <1>3, FS_Subset
<1> QED
    BY <1>4, FS_CardinalityType

\* A full queue of critical events newer than the n-th is as many of them as
\* a queue has places.
LEMMA FullOfNewer ==
    ASSUME NEW log \in Seq(EventTypes), NEW reached \in Nat, NEW queue,
           QueueOK(queue, reached, log), Full(queue), NEW n,
           \A held \in Held(queue) :
              held.event_type \in CRITICAL_EVENT_TYPES /\ held.seq > n
    PROVE  Cardinality(NewerCritical(n, log)) >= QueueMaxsize
<1> DEFINE T == NewerCritical(n, log)
           f == [i \in DOMAIN queue |-> queue[i].seq]
<1>1. /\ queue \in Seq(StreamEvent) /\ Len(queue) \in Nat
      /\ DOMAIN queue = 1 .. Len(queue)
      /\ \A i \in DOMAIN queue : queue[i] \in StreamEvent
    BY SeqFacts DEF QueueOK
<1>2. IsFiniteSet(T) /\ Cardinality(T) \in Nat
    BY NewerFinite
<1>3. Len(log) \in Nat /\ DOMAIN log = 1 .. Len(log)
    BY SeqFacts
<1>4. ASSUME NEW i \in DOMAIN queue
      PROVE  f[i] \in T
    <2>1. queue[i] \in Held(queue)
        BY DEF Held
    <2>2. /\ queue[i].seq <= Len(log) /\ queue[i].event_type = log[queue[i].seq]
          /\ queue[i].event_type \in CRITICAL_EVENT_TYPES /\ queue[i].seq > n
          /\ queue[i].seq > reached
        BY <2>1 DEF QueueOK, Known
    <2>3. queue[i].seq \in Nat
        BY <1>1 DEF StreamEvent
    <2>4. queue[i].seq # 0
        BY <2>2, <2>3
    <2> QED
        BY <1>3, <2>2, <2>3, <2>4 DEF NewerCritical
<1>5. \A i, j \in DOMAIN queue : i < j => f[i] < f[j]
    BY DEF QueueOK, Ordered
<1>6. \A i \in DOMAIN queue : f[i] \in Nat
    BY <1>1 DEF StreamEvent
<1>7. f \in Injection(DOMAIN queue, T)
    <2>1. f \in [DOMAIN queue -> T]
        BY <1>4
    <2>2. \A i, j \in DOMAIN queue : f[i] = f[j] => i = j
        BY <1>1, <1>5, <1>6
    <2>3. DOMAIN f = DOMAIN queue
        OBVIOUS
    <2> HIDE DEF f
    <2> QED
        BY <2>1, <2>2, <2>3 DEF Injection, IsInjective
<1>8. Cardinality(1 .. Len(queue)) = Len(queue)
    <2>1. 1 \in Int /\ Len(queue) \in Int
        BY <1>1
    <2>2. Cardinality(1 .. Len(queue)) =
             IF 1 > Len(queue) THEN 0 ELSE Len(queue) - 1 + 1
        BY <2>1, FS_Interval
    <2> QED
        BY <1>1, <2>2
<1> HIDE DEF T, f
<1>9. Cardinality(DOMAIN queue) <= Cardinality(T)
    BY <1>2, <1>7, FS_Injection
<1> QED
    BY <1>1, <1>2, <1>8, <1>9, BrokerAssumption DEF Full, T
-----------------------------------------------------------------------------
(* One request. *)

\* What a list shows grows by the event appended to it.
LEMMA SeenGrows ==
    ASSUME NEW list \in Seq(StreamEvent), NEW e \in StreamEvent
    PROVE  Seen(Append(list, e)) = Seen(list) \union {e.seq}
<1>1. /\ Len(list) \in Nat /\ DOMAIN list = 1 .. Len(list)
      /\ DOMAIN Append(list, e) = DOMAIN list \union {Len(list) + 1}
      /\ \A i \in DOMAIN list : Append(list, e)[i] = list[i]
      /\ Append(list, e)[Len(list) + 1] = e
    BY SeqFacts, AppendFacts
<1> QED
    BY <1>1 DEF Seen

\* A list to which a newer event of the run is appended is still in order.
LEMMA ListGrows ==
    ASSUME NEW log, NEW list \in Seq(StreamEvent), ListOK(list, log),
           NEW e \in StreamEvent, e.seq \in DOMAIN log, e.event_type = log[e.seq],
           \A n \in Seen(list) : n < e.seq
    PROVE  ListOK(Append(list, e), log)
<1>1. /\ Len(list) \in Nat /\ DOMAIN list = 1 .. Len(list)
      /\ DOMAIN Append(list, e) = DOMAIN list \union {Len(list) + 1}
      /\ \A i \in DOMAIN list : Append(list, e)[i] = list[i]
      /\ Append(list, e)[Len(list) + 1] = e
    BY SeqFacts, AppendFacts
<1> DEFINE longer == Append(list, e)
<1>2. \A i \in DOMAIN list : list[i].seq < e.seq
    BY DEF Seen
<1> HIDE DEF longer
<1>3. ASSUME NEW i \in DOMAIN longer
      PROVE  /\ longer[i].seq \in DOMAIN log
             /\ longer[i].event_type = log[longer[i].seq]
             /\ \A j \in 1 .. (i - 1) : longer[j].seq < longer[i].seq
    <2>1. \A j \in 1 .. (i - 1) : j \in DOMAIN list
        BY <1>1 DEF longer
    <2>2. CASE i \in DOMAIN list
        BY <1>1, <2>1, <2>2 DEF ListOK, longer
    <2>3. CASE i = Len(list) + 1
        BY <1>1, <1>2, <2>1, <2>3 DEF longer
    <2> QED
        BY <1>1, <1>3, <2>2, <2>3 DEF longer
<1> QED
    BY <1>3 DEF ListOK, longer

\* An event stored for its run changes nothing for a request: what it has been
\* shown stays, and what it has missed is followed by even more.
LEMMA PublishKeepsRequest ==
    ASSUME NEW log \in Seq(EventTypes), NEW type \in EventTypes,
           NEW where, NEW before, NEW list, NEW start,
           NEW reached \in Nat, reached <= Len(log),
           RequestOK(where, before, list, start, reached, log)
    PROVE  RequestOK(where, before, list, start, reached, Append(log, type))
<1> DEFINE longer == Append(log, type)
<1>1. /\ Len(log) \in Nat /\ DOMAIN log = 1 .. Len(log)
      /\ longer \in Seq(EventTypes)
      /\ DOMAIN longer = DOMAIN log \union {Len(log) + 1}
      /\ \A n \in DOMAIN log : longer[n] = log[n]
    BY SeqFacts, AppendFacts
<1> HIDE DEF longer
<1>2. ListOK(before, longer)
    BY <1>1 DEF RequestOK, ListOK
<1>3. ListOK(list, longer)
    BY <1>1 DEF RequestOK, ListOK
<1>4. ASSUME PassedOK(list, start, reached, log)
      PROVE  PassedOK(list, start, reached, longer)
    <2>1. ASSUME NEW n \in DOMAIN longer, longer[n] \in CRITICAL_EVENT_TYPES,
                 n > start, n <= reached, n \notin Seen(list)
          PROVE  Cardinality(NewerCritical(n, longer)) >= QueueMaxsize
        <3>1. n \in DOMAIN log /\ log[n] = longer[n]
            BY <1>1, <2>1
        <3>2. Cardinality(NewerCritical(n, log)) >= QueueMaxsize
            BY <1>4, <2>1, <3>1 DEF PassedOK
        <3>3. NewerCritical(n, log) \in SUBSET NewerCritical(n, longer)
            BY <1>1 DEF NewerCritical
        <3>4. /\ IsFiniteSet(NewerCritical(n, longer))
              /\ Cardinality(NewerCritical(n, longer)) \in Nat
              /\ Cardinality(NewerCritical(n, log)) \in Nat
            BY <1>1, NewerFinite
        <3>5. Cardinality(NewerCritical(n, log)) <= Cardinality(NewerCritical(n, longer))
            BY <3>3, <3>4, FS_Subset
        <3> QED
            BY <3>2, <3>4, <3>5, BrokerAssumption
    <2> QED
        BY <2>1 DEF PassedOK
<1>5. where = "live" =>
          /\ Seen(before) \subseteq Seen(list)
          /\ \A n \in Seen(list) : n <= reached
          /\ PassedOK(list, start, reached, longer)
    BY <1>4 DEF RequestOK
<1> QED
    BY <1>2, <1>3, <1>5 DEF RequestOK, longer

\* A request begins with the first event of its snapshot.
LEMMA BeginKeepsRequest ==
    ASSUME NEW log \in Seq(EventTypes), NEW before \in Seq(StreamEvent), before # <<>>,
           ListOK(before, log), NEW start, NEW reached
    PROVE  /\ <<Head(before)>> \in Seq(StreamEvent)
           /\ RequestOK("replaying", before, <<Head(before)>>, start, reached, log)
<1>1. /\ Len(before) \in Nat \ {0} /\ DOMAIN before = 1 .. Len(before)
      /\ Head(before) = before[1] /\ before[1] \in StreamEvent
    BY SeqFacts, EmptySeq, HeadTailProperties
<1>2. before[1].seq \in DOMAIN log /\ before[1].event_type = log[before[1].seq]
    BY <1>1 DEF ListOK
<1> DEFINE list == <<before[1]>>
<1>3. list \in Seq(StreamEvent) /\ Len(list) = 1 /\ DOMAIN list = {1} /\ list[1] = before[1]
    BY <1>1
<1> HIDE DEF list
<1>4. ListOK(list, log)
    BY <1>2, <1>3 DEF ListOK
<1>5. RequestOK("replaying", before, list, start, reached, log)
    BY <1>1, <1>3, <1>4 DEF RequestOK
<1> QED
    BY <1>1, <1>3, <1>5 DEF list

\* While it replays, a request has been shown the first events of its snapshot.
LEMMA ReplayedSeen ==
    ASSUME NEW log, NEW before \in Seq(StreamEvent), NEW list \in Seq(StreamEvent),
           NEW start, NEW reached,
           RequestOK("replaying", before, list, start, reached, log)
    PROVE  /\ Seen(list) = {before[i].seq : i \in 1 .. Len(list)}
           /\ 1 .. Len(list) \subseteq DOMAIN before
<1>1. /\ Len(list) \in Nat /\ DOMAIN list = 1 .. Len(list)
      /\ Len(before) \in Nat /\ DOMAIN before = 1 .. Len(before)
    BY SeqFacts
<1>2. Len(list) <= Len(before) /\ \A i \in DOMAIN list : list[i] = before[i]
    BY DEF RequestOK
<1>3. 1 .. Len(list) \subseteq DOMAIN before
    BY <1>1, <1>2
<1> QED
    BY <1>1, <1>2, <1>3 DEF Seen

\* The next event of the snapshot is shown.
LEMMA ReplayKeepsRequest ==
    ASSUME NEW log \in Seq(EventTypes),
           NEW before \in Seq(StreamEvent), NEW list \in Seq(StreamEvent),
           NEW start, NEW reached, Len(list) < Len(before),
           RequestOK("replaying", before, list, start, reached, log)
    PROVE  /\ Append(list, before[Len(list) + 1]) \in Seq(StreamEvent)
           /\ RequestOK("replaying", before, Append(list, before[Len(list) + 1]),
                        start, reached, log)
<1> DEFINE k == Len(list) + 1
           e == before[k]
           longer == Append(list, e)
<1>1. /\ Len(list) \in Nat /\ DOMAIN list = 1 .. Len(list)
      /\ Len(before) \in Nat /\ DOMAIN before = 1 .. Len(before)
      /\ \A i \in DOMAIN before : before[i] \in StreamEvent
    BY SeqFacts
<1>2. k \in DOMAIN before /\ e \in StreamEvent
    BY <1>1
<1>3. /\ longer \in Seq(StreamEvent) /\ Len(longer) = k
      /\ DOMAIN longer = 1 .. k
      /\ \A i \in DOMAIN list : longer[i] = list[i]
      /\ longer[k] = e
    BY <1>2, AppendFacts
<1>4. /\ e.seq \in DOMAIN log /\ e.event_type = log[e.seq]
      /\ \A i \in 1 .. (k - 1) : before[i].seq < e.seq
    BY <1>2 DEF RequestOK, ListOK
<1>5. \A n \in Seen(list) : n < e.seq
    <2>1. 1 .. (k - 1) = 1 .. Len(list)
        BY <1>1
    <2> QED
        BY <1>4, <2>1, ReplayedSeen
<1>6. ListOK(longer, log)
    <2>1. ListOK(list, log) /\ e.seq \in DOMAIN log /\ e.event_type = log[e.seq]
        BY <1>4 DEF RequestOK
    <2> HIDE DEF e
    <2> QED
        BY <1>2, <1>5, <2>1, ListGrows
<1>7. Len(longer) <= Len(before)
    BY <1>1, <1>3
<1>8. \A i \in DOMAIN longer : longer[i] = before[i]
    <2>1. \A i \in DOMAIN list : longer[i] = before[i]
        BY <1>3 DEF RequestOK
    <2> HIDE DEF longer
    <2> QED
        BY <1>1, <1>3, <2>1
<1> HIDE DEF longer
<1>9. RequestOK("replaying", before, longer, start, reached, log)
    BY <1>6, <1>7, <1>8 DEF RequestOK
<1> QED
    BY <1>3, <1>9 DEF longer

\* A request that subscribes has been shown all that it asked for so far.
LEMMA JoinKeepsRequest ==
    ASSUME NEW log \in Seq(EventTypes), NEW before \in Seq(StreamEvent),
           NEW list \in Seq(StreamEvent), NEW where, NEW start, NEW reached,
           RequestOK(where, before, list, start, reached, log),
           \/ where = "accepted"
           \/ where = "replaying" /\ Len(list) = Len(before)
    PROVE  RequestOK("live", before, list, Len(log), Len(log), log)
<1>1. /\ Len(list) \in Nat /\ DOMAIN list = 1 .. Len(list)
      /\ Len(before) \in Nat /\ DOMAIN before = 1 .. Len(before)
      /\ Len(log) \in Nat /\ DOMAIN log = 1 .. Len(log)
    BY SeqFacts
<1>2. ListOK(before, log) /\ ListOK(list, log)
    BY DEF RequestOK
<1>3. Seen(before) \subseteq Seen(list)
    <2>1. CASE where = "accepted"
        <3>1. before = <<>>
            BY <2>1 DEF RequestOK
        <3> QED
            BY <3>1 DEF Seen
    <2>2. CASE where = "replaying" /\ Len(list) = Len(before)
        <3>1. Seen(list) = {before[i].seq : i \in 1 .. Len(list)}
            BY <2>2, ReplayedSeen
        <3> QED
            BY <1>1, <2>2, <3>1 DEF Seen
    <2> QED
        BY <2>1, <2>2
<1>4. \A n \in Seen(list) : n <= Len(log)
    <2>1. \A i \in DOMAIN list : list[i].seq \in 1 .. Len(log)
        BY <1>1, <1>2 DEF ListOK
    <2>2. \A n \in Seen(list) : n \in 1 .. Len(log)
        BY <2>1 DEF Seen
    <2> QED
        BY <2>2, DomainFacts
<1>5. PassedOK(list, Len(log), Len(log), log)
    <2>1. \A n \in DOMAIN log : ~ (n > Len(log))
        BY <1>1, DomainFacts
    <2> QED
        BY <2>1 DEF PassedOK
<1> QED
    BY <1>2, <1>3, <1>4, <1>5 DEF RequestOK

\* A live request that takes the head of its queue: what the queue gave up
\* before it was followed by a queue full of newer critical events.
LEMMA LiveKeepsRequest ==
    ASSUME NEW log \in Seq(EventTypes), NEW before, NEW list \in Seq(StreamEvent),
           NEW start \in Nat, NEW reached \in Nat, NEW queue, queue # <<>>,
           QueueOK(queue, reached, log),
           RequestOK("live", before, list, start, reached, log)
    PROVE  /\ Append(list, Head(queue)) \in Seq(StreamEvent)
           /\ RequestOK("live", before, Append(list, Head(queue)),
                        start, Head(queue).seq, log)
<1> DEFINE e == Head(queue)
           longer == Append(list, e)
<1>1. /\ queue \in Seq(StreamEvent) /\ Len(queue) \in Nat \ {0}
      /\ DOMAIN queue = 1 .. Len(queue) /\ e = queue[1]
      /\ \A i \in DOMAIN queue : queue[i] \in StreamEvent
      /\ Len(log) \in Nat /\ DOMAIN log = 1 .. Len(log)
    <2>1. queue \in Seq(StreamEvent)
        BY DEF QueueOK
    <2> QED
        BY <2>1, SeqFacts, EmptySeq, HeadTailProperties
<1>2. e \in StreamEvent /\ e \in Held(queue) /\ e.seq \in Nat
    <2>1. 1 \in DOMAIN queue
        BY <1>1
    <2>2. queue[1] \in StreamEvent /\ queue[1] \in Held(queue)
        BY <1>1, <2>1 DEF Held
    <2>3. queue[1].seq \in Nat
        BY <2>2 DEF StreamEvent
    <2> QED
        BY <1>1, <2>2, <2>3
<1>3. e.seq > reached /\ e.seq <= Len(log) /\ e.event_type = log[e.seq]
    BY <1>2 DEF QueueOK, Known
<1>4. e.seq \in DOMAIN log
    BY <1>1, <1>2, <1>3
<1>5. /\ ListOK(before, log) /\ ListOK(list, log)
      /\ Seen(before) \subseteq Seen(list)
      /\ \A n \in Seen(list) : n <= reached
      /\ PassedOK(list, start, reached, log)
    BY DEF RequestOK
<1>6. \A n \in Seen(list) : n \in Nat
    <2>1. \A i \in DOMAIN list : list[i] \in StreamEvent
        BY SeqFacts
    <2> QED
        BY <2>1 DEF Seen, StreamEvent
<1> HIDE DEF e
<1>7. \A n \in Seen(list) : n < e.seq
    BY <1>2, <1>3, <1>5, <1>6
<1>8. Seen(longer) = Seen(list) \union {e.seq} /\ longer \in Seq(StreamEvent)
    BY <1>2, SeenGrows, AppendFacts
<1>9. ListOK(longer, log)
    BY <1>2, <1>3, <1>4, <1>5, <1>7, ListGrows
<1>10. PassedOK(longer, start, e.seq, log)
    <2>1. ASSUME NEW n \in DOMAIN log, log[n] \in CRITICAL_EVENT_TYPES, n > start,
                 n <= e.seq, n \notin Seen(longer)
          PROVE  Cardinality(NewerCritical(n, log)) >= QueueMaxsize
        <3>1. n \notin Seen(list) /\ n # e.seq /\ n \in Nat
            BY <1>1, <1>8, <2>1
        <3>2. CASE n <= reached
            BY <1>5, <2>1, <3>1, <3>2 DEF PassedOK
        <3>3. CASE n > reached
            <4>1. \A held \in Held(queue) : held.seq >= e.seq
                <5>1. \A i \in DOMAIN queue : queue[i].seq \in Nat
                    BY <1>1 DEF StreamEvent
                <5>2. \A i \in DOMAIN queue : 1 < i => queue[1].seq < queue[i].seq
                    BY <1>1 DEF QueueOK, Ordered
                <5>3. \A i \in DOMAIN queue : queue[i].seq >= e.seq
                    BY <1>1, <1>2, <5>1, <5>2
                <5> QED
                    BY <5>3 DEF Held
            <4>2. \A held \in Held(queue) : held.seq # n
                BY <1>2, <2>1, <3>1, <4>1
            <4>3. /\ Full(queue)
                  /\ \A held \in Held(queue) :
                        held.event_type \in CRITICAL_EVENT_TYPES /\ held.seq > n
                BY <2>1, <3>3, <4>2 DEF QueueOK, CriticalKept
            <4> QED
                BY <4>3, FullOfNewer
        <3> QED
            BY <3>1, <3>2, <3>3
    <2> QED
        BY <2>1 DEF PassedOK
<1>11. Seen(before) \subseteq Seen(longer) /\ \A n \in Seen(longer) : n <= e.seq
    BY <1>2, <1>5, <1>6, <1>7, <1>8
<1> HIDE DEF longer
<1>12. RequestOK("live", before, longer, start, e.seq, log)
    BY <1>5, <1>9, <1>10, <1>11 DEF RequestOK
<1> QED
    BY <1>8, <1>12 DEF e, longer

\* A request that leaves has seen what it has seen.
LEMMA LeaveKeepsRequest ==
    ASSUME NEW log, NEW before, NEW list, NEW where, NEW start, NEW reached,
           RequestOK(where, before, list, start, reached, log), NEW later
    PROVE  RequestOK("ended", before, list, start, later, log)
    BY DEF RequestOK
-----------------------------------------------------------------------------
(* The steps. *)

\* What the invariant says of one request.
LEMMA RequestFacts ==
    ASSUME StreamInv, NEW s \in Subscribers
    PROVE  /\ history[s] \in Seq(StreamEvent) /\ shown[s] \in Seq(StreamEvent)
           /\ joined[s] \in Nat /\ delivered[s] \in Nat
           /\ topic[s] = IF phase[s] = "live" THEN watched[s] ELSE NoRun
           /\ phase[s] = "none" => history[s] = <<>> /\ shown[s] = <<>>
           /\ phase[s] # "none" =>
                 /\ watched[s] \in Runs
                 /\ events[watched[s]] \in Seq(EventTypes)
                 /\ RequestOK(phase[s], history[s], shown[s], joined[s], delivered[s],
                              events[watched[s]])
           /\ phase[s] = "live" =>
                 /\ delivered[s] <= Len(events[watched[s]])
                 /\ QueueOK(queues[s], delivered[s], events[watched[s]])
    BY BrokerAssumption DEF StreamInv, StreamTypeOK, TypeOK, IInv

\* What is stored of a run is a snapshot of it.
LEMMA StoredFacts ==
    ASSUME NEW r \in Runs, events[r] \in Seq(EventTypes)
    PROVE  Stored(r) \in Seq(StreamEvent) /\ ListOK(Stored(r), events[r])
<1>1. Len(events[r]) \in Nat /\ DOMAIN events[r] = 1 .. Len(events[r])
      /\ \A n \in DOMAIN events[r] : events[r][n] \in EventTypes
    BY SeqFacts
<1>2. CASE r \in removed
    BY <1>2 DEF Stored, ListOK
<1>3. CASE r \notin removed
    <2> DEFINE pruned == Pruned(r)
               kept == Len(events[r]) - pruned
               list == [n \in 1 .. kept |->
                          [event_type |-> events[r][pruned + n], seq |-> pruned + n]]
    <2>1. list = Stored(r)
        BY <1>3 DEF Stored
    <2>2. pruned \in Nat /\ kept \in Nat /\ pruned + kept = Len(events[r])
        BY <1>1, StreamAssumption DEF Pruned
    <2> HIDE DEF pruned, kept
    <2>3. \A n \in 1 .. kept : pruned + n \in DOMAIN events[r]
        BY <1>1, <2>2
    <2>4. \A n \in 1 .. kept :
             [event_type |-> events[r][pruned + n], seq |-> pruned + n] \in StreamEvent
        BY <1>1, <2>3 DEF StreamEvent
    <2>5. list \in [1 .. kept -> StreamEvent] /\ DOMAIN list = 1 .. kept
        BY <2>4
    <2>6. list \in Seq(StreamEvent)
        <3> HIDE DEF list
        <3> QED
            BY <2>2, <2>5, SeqDef
    <2>7. \A n \in 1 .. kept : /\ list[n].seq = pruned + n
                               /\ list[n].event_type = events[r][pruned + n]
        OBVIOUS
    <2> HIDE DEF list
    <2>8. ListOK(list, events[r])
        BY <2>2, <2>3, <2>5, <2>7 DEF ListOK
    <2> QED
        BY <2>1, <2>6, <2>8
<1> QED
    BY <1>2, <1>3

\* Every step of a stream is a step of the broker, or one it does not notice.
LEMMA StreamStepIsBrokerStep ==
    StreamInv /\ [StreamNext]_<<vars, streamVars>> => [Next]_vars
<1> SUFFICES ASSUME StreamInv, [StreamNext]_<<vars, streamVars>> PROVE [Next]_vars
    OBVIOUS
<1>1. CASE \E r \in Runs, type \in EmittedTypes : PublishOfRun(r, type)
    BY <1>1 DEF PublishOfRun, Next
<1>2. CASE \E r \in Runs : RemoveRun(r)
    BY <1>2 DEF RemoveRun
<1>3. CASE \E s \in Subscribers, r \in Runs : Request(s, r)
    BY <1>3 DEF Request
<1>4. ASSUME NEW s \in Subscribers, BeginWithoutHistory(s) \/ SubscribeAfterHistory(s)
      PROVE  [Next]_vars
    <2>1. phase[s] # "none" /\ Subscribe(s, watched[s])
        BY <1>4 DEF BeginWithoutHistory, SubscribeAfterHistory, Join
    <2>2. watched[s] \in Runs
        BY <2>1, RequestFacts
    <2> QED
        BY <2>1, <2>2 DEF Next
<1>5. ASSUME NEW s \in Subscribers, Live(s)
      PROVE  [Next]_vars
    BY <1>5 DEF Live, Next
<1>6. ASSUME NEW s \in Subscribers, Begin(s) \/ Replay(s)
      PROVE  [Next]_vars
    BY <1>6 DEF Begin, Replay
<1>7. ASSUME NEW s \in Subscribers, Return(s) \/ Disconnect(s)
      PROVE  [Next]_vars
    BY <1>7 DEF Return, Disconnect, Leave, Next
<1>8. CASE UNCHANGED <<vars, streamVars>>
    BY <1>8
<1> QED
    BY <1>1, <1>2, <1>3, <1>4, <1>5, <1>6, <1>7, <1>8 DEF StreamNext

\* The invariant after a step, given what the step does to each request.
LEMMA Requests ==
    ASSUME IInv', StreamTypeOK',
           \A s \in Subscribers :
              /\ phase'[s] = "none" => history'[s] = <<>> /\ shown'[s] = <<>>
              /\ phase'[s] # "none" =>
                    /\ watched'[s] \in Runs
                    /\ RequestOK(phase'[s], history'[s], shown'[s], joined'[s],
                                 delivered'[s], events'[watched'[s]])
    PROVE  StreamInv'
    BY DEF StreamInv

\* An event is stored and offered to the queues.
LEMMA PublishKeeps ==
    ASSUME StreamInv, IInv', NEW r \in Runs, NEW type \in EmittedTypes, PublishOfRun(r, type)
    PROVE  StreamInv'
<1>1. type \in EventTypes
    BY BrokerAssumption
<1>2. /\ events \in [Runs -> Seq(EventTypes)]
      /\ events' = [events EXCEPT ![r] = Append(events[r], type)]
      /\ topic' = topic /\ delivered' = delivered /\ UNCHANGED streamVars
    BY DEF PublishOfRun, Publish, StreamInv, IInv, TypeOK
<1>3. StreamTypeOK'
    BY <1>2 DEF StreamInv, StreamTypeOK, IInv, streamVars
<1>4. ASSUME NEW s \in Subscribers
      PROVE  /\ phase'[s] = "none" => history'[s] = <<>> /\ shown'[s] = <<>>
             /\ phase'[s] # "none" =>
                   /\ watched'[s] \in Runs
                   /\ RequestOK(phase'[s], history'[s], shown'[s], joined'[s],
                                delivered'[s], events'[watched'[s]])
    <2>1. CASE phase[s] = "none"
        BY <1>2, <2>1, RequestFacts DEF streamVars
    <2>2. CASE phase[s] # "none" /\ watched[s] # r
        BY <1>2, <2>2, RequestFacts DEF streamVars
    <2>3. CASE phase[s] # "none" /\ watched[s] = r /\ phase[s] # "live"
        <3>1. RequestOK(phase[s], history[s], shown[s], joined[s], 0, events[r])
            BY <2>3, RequestFacts DEF RequestOK
        <3>2. events[r] \in Seq(EventTypes) /\ 0 <= Len(events[r])
            BY <1>2, SeqFacts
        <3>3. RequestOK(phase[s], history[s], shown[s], joined[s], 0, Append(events[r], type))
            BY <1>1, <3>1, <3>2, PublishKeepsRequest
        <3>4. RequestOK(phase[s], history[s], shown[s], joined[s], delivered[s],
                        Append(events[r], type))
            BY <2>3, <3>3 DEF RequestOK
        <3> QED
            BY <1>2, <2>3, <3>4 DEF streamVars
    <2>4. CASE watched[s] = r /\ phase[s] = "live"
        <3>1. /\ RequestOK(phase[s], history[s], shown[s], joined[s], delivered[s], events[r])
              /\ delivered[s] \in Nat /\ delivered[s] <= Len(events[r])
              /\ events[r] \in Seq(EventTypes)
            BY <2>4, RequestFacts
        <3>2. RequestOK(phase[s], history[s], shown[s], joined[s], delivered[s],
                        Append(events[r], type))
            BY <1>1, <3>1, PublishKeepsRequest
        <3> QED
            BY <1>2, <2>4, <3>2 DEF streamVars
    <2> QED
        BY <2>1, <2>2, <2>3, <2>4
<1> QED
    BY <1>3, <1>4, Requests

\* A request that a step does not touch is as it was.
Untouched(s) ==
    /\ phase'[s] = phase[s] /\ watched'[s] = watched[s]
    /\ history'[s] = history[s] /\ shown'[s] = shown[s]
    /\ joined'[s] = joined[s] /\ delivered'[s] = delivered[s] /\ events' = events

LEMMA UntouchedKeeps ==
    ASSUME StreamInv, NEW s \in Subscribers, Untouched(s)
    PROVE  /\ phase'[s] = "none" => history'[s] = <<>> /\ shown'[s] = <<>>
           /\ phase'[s] # "none" =>
                 /\ watched'[s] \in Runs
                 /\ RequestOK(phase'[s], history'[s], shown'[s], joined'[s],
                              delivered'[s], events'[watched'[s]])
    BY RequestFacts DEF Untouched

\* A step of one request, given what it does to that one.
LEMMA OneRequest ==
    ASSUME StreamInv, IInv', StreamTypeOK', NEW s \in Subscribers,
           \A t \in Subscribers \ {s} : Untouched(t),
           phase'[s] # "none", watched'[s] \in Runs,
           RequestOK(phase'[s], history'[s], shown'[s], joined'[s],
                     delivered'[s], events'[watched'[s]])
    PROVE  StreamInv'
<1>1. ASSUME NEW t \in Subscribers
      PROVE  /\ phase'[t] = "none" => history'[t] = <<>> /\ shown'[t] = <<>>
             /\ phase'[t] # "none" =>
                   /\ watched'[t] \in Runs
                   /\ RequestOK(phase'[t], history'[t], shown'[t], joined'[t],
                                delivered'[t], events'[watched'[t]])
    <2>1. CASE t = s
        BY <2>1
    <2>2. CASE t # s
        BY <2>2, UntouchedKeeps
    <2> QED
        BY <2>1, <2>2
<1> QED
    BY <1>1, Requests

\* The registry forgets a run, or nothing happens.
LEMMA RemoveKeeps ==
    ASSUME StreamInv, IInv',
           UNCHANGED <<vars, phase, watched, history, shown, joined>>, removed' \subseteq Runs
    PROVE  StreamInv'
<1>1. StreamTypeOK'
    BY DEF StreamInv, StreamTypeOK, IInv, vars
<1>2. \A s \in Subscribers : Untouched(s)
    BY DEF Untouched, vars
<1> QED
    BY <1>1, <1>2, UntouchedKeeps, Requests

\* The endpoint accepts a request.
LEMMA RequestKeeps ==
    ASSUME StreamInv, IInv', NEW s \in Subscribers, NEW r \in Runs, Request(s, r)
    PROVE  StreamInv'
<1>1. /\ phase[s] = "none"
      /\ phase' = [phase EXCEPT ![s] = "accepted"]
      /\ watched' = [watched EXCEPT ![s] = r]
      /\ UNCHANGED <<vars, history, shown, joined, removed>>
    BY DEF Request
<1>2. StreamTypeOK'
    BY <1>1 DEF StreamInv, StreamTypeOK, IInv, vars
<1>3. \A t \in Subscribers \ {s} : Untouched(t)
    BY <1>1 DEF Untouched, vars, StreamInv, StreamTypeOK
<1>4. phase'[s] = "accepted" /\ watched'[s] = r
    BY <1>1 DEF StreamInv, StreamTypeOK
<1>5. history'[s] = <<>> /\ shown'[s] = <<>>
    BY <1>1, RequestFacts
<1>6. RequestOK(phase'[s], history'[s], shown'[s], joined'[s], delivered'[s],
                events'[watched'[s]])
    BY <1>4, <1>5 DEF RequestOK, ListOK
<1> QED
    BY <1>2, <1>3, <1>4, <1>6, OneRequest

\* The generator takes its snapshot.
LEMMA BeginKeeps ==
    ASSUME StreamInv, IInv', NEW s \in Subscribers, Begin(s)
    PROVE  StreamInv'
<1> DEFINE r == watched[s]
           list == Stored(r)
<1>1. /\ phase[s] = "accepted" /\ list # <<>>
      /\ phase' = [phase EXCEPT ![s] = "replaying"]
      /\ history' = [history EXCEPT ![s] = list]
      /\ shown' = [shown EXCEPT ![s] = <<Head(list)>>]
      /\ UNCHANGED <<vars, watched, joined, removed>>
    BY DEF Begin
<1>2. r \in Runs /\ events[r] \in Seq(EventTypes)
    BY <1>1, RequestFacts
<1>3. list \in Seq(StreamEvent) /\ ListOK(list, events[r])
    BY <1>2, StoredFacts
<1> HIDE DEF list
<1>4. /\ <<Head(list)>> \in Seq(StreamEvent)
      /\ RequestOK("replaying", list, <<Head(list)>>, joined[s], delivered[s], events[r])
    BY <1>1, <1>2, <1>3, BeginKeepsRequest
<1>5. StreamTypeOK'
    BY <1>1, <1>3, <1>4 DEF StreamInv, StreamTypeOK, IInv, vars
<1>6. \A t \in Subscribers \ {s} : Untouched(t)
    BY <1>1 DEF Untouched, vars, StreamInv, StreamTypeOK
<1>7. /\ phase'[s] = "replaying" /\ history'[s] = list /\ shown'[s] = <<Head(list)>>
      /\ joined'[s] = joined[s] /\ delivered'[s] = delivered[s]
      /\ watched'[s] = r /\ events' = events
    BY <1>1 DEF StreamInv, StreamTypeOK, vars
<1> QED
    BY <1>2, <1>4, <1>5, <1>6, <1>7, OneRequest

\* It yields the next event of the snapshot.
LEMMA ReplayKeeps ==
    ASSUME StreamInv, IInv', NEW s \in Subscribers, Replay(s)
    PROVE  StreamInv'
<1> DEFINE r == watched[s]
           longer == Append(shown[s], history[s][Len(shown[s]) + 1])
<1>1. /\ phase[s] = "replaying" /\ Len(shown[s]) < Len(history[s])
      /\ shown' = [shown EXCEPT ![s] = longer]
      /\ UNCHANGED <<vars, phase, watched, history, joined, removed>>
    BY DEF Replay
<1>2. /\ r \in Runs /\ events[r] \in Seq(EventTypes)
      /\ history[s] \in Seq(StreamEvent) /\ shown[s] \in Seq(StreamEvent)
      /\ RequestOK("replaying", history[s], shown[s], joined[s], delivered[s], events[r])
    BY <1>1, RequestFacts
<1>3. /\ longer \in Seq(StreamEvent)
      /\ RequestOK("replaying", history[s], longer, joined[s], delivered[s], events[r])
    BY <1>1, <1>2, ReplayKeepsRequest
<1> HIDE DEF longer
<1>4. StreamTypeOK'
    BY <1>1, <1>3 DEF StreamInv, StreamTypeOK, IInv, vars
<1>5. \A t \in Subscribers \ {s} : Untouched(t)
    BY <1>1 DEF Untouched, vars, StreamInv, StreamTypeOK
<1>6. /\ phase'[s] = "replaying" /\ history'[s] = history[s] /\ shown'[s] = longer
      /\ joined'[s] = joined[s] /\ delivered'[s] = delivered[s]
      /\ watched'[s] = r /\ events' = events
    BY <1>1 DEF StreamInv, StreamTypeOK, vars
<1> QED
    BY <1>2, <1>3, <1>4, <1>5, <1>6, OneRequest

\* It subscribes.
LEMMA JoinKeeps ==
    ASSUME StreamInv, IInv', NEW s \in Subscribers,
           BeginWithoutHistory(s) \/ SubscribeAfterHistory(s)
    PROVE  StreamInv'
<1> DEFINE r == watched[s]
           n == Len(events[r])
<1>1. /\ phase[s] = "accepted" \/ (phase[s] = "replaying" /\ Len(shown[s]) = Len(history[s]))
      /\ phase' = [phase EXCEPT ![s] = "live"]
      /\ joined' = [joined EXCEPT ![s] = n]
      /\ topic' = [topic EXCEPT ![s] = r]
      /\ delivered' = [delivered EXCEPT ![s] = n]
      /\ UNCHANGED <<events, watched, history, shown, removed>>
    BY DEF BeginWithoutHistory, SubscribeAfterHistory, Join, Subscribe
<1>2. /\ r \in Runs /\ events[r] \in Seq(EventTypes) /\ n \in Nat
      /\ history[s] \in Seq(StreamEvent) /\ shown[s] \in Seq(StreamEvent)
      /\ RequestOK(phase[s], history[s], shown[s], joined[s], delivered[s], events[r])
    BY <1>1, RequestFacts, SeqFacts
<1>3. RequestOK("live", history[s], shown[s], n, n, events[r])
    BY <1>1, <1>2, JoinKeepsRequest
<1> HIDE DEF n
<1>4. StreamTypeOK'
    <2>1. \A t \in Subscribers :
             topic'[t] = IF phase'[t] = "live" THEN watched'[t] ELSE NoRun
        BY <1>1 DEF StreamInv, StreamTypeOK, IInv, TypeOK
    <2>2. TypeOK'
        BY DEF IInv
    <2> QED
        BY <1>1, <1>2, <2>1, <2>2 DEF StreamInv, StreamTypeOK
<1>5. \A t \in Subscribers \ {s} : Untouched(t)
    BY <1>1 DEF Untouched, StreamInv, StreamTypeOK, TypeOK
<1>6. /\ phase'[s] = "live" /\ history'[s] = history[s] /\ shown'[s] = shown[s]
      /\ joined'[s] = n /\ delivered'[s] = n
      /\ watched'[s] = r /\ events' = events
    BY <1>1 DEF StreamInv, StreamTypeOK, TypeOK
<1> QED
    BY <1>2, <1>3, <1>4, <1>5, <1>6, OneRequest

\* It takes an event from its queue and yields it.
LEMMA LiveKeeps ==
    ASSUME StreamInv, IInv', NEW s \in Subscribers, Live(s)
    PROVE  StreamInv'
<1> DEFINE r == watched[s]
           e == Head(queues[s])
           longer == Append(shown[s], e)
<1>1. /\ phase[s] = "live" /\ queues[s] # <<>>
      /\ shown' = [shown EXCEPT ![s] = longer]
      /\ delivered' = [delivered EXCEPT ![s] = e.seq]
      /\ UNCHANGED <<events, topic, phase, watched, history, joined, removed>>
    BY DEF Live, Receive
<1>2. /\ r \in Runs /\ events[r] \in Seq(EventTypes)
      /\ shown[s] \in Seq(StreamEvent) /\ joined[s] \in Nat /\ delivered[s] \in Nat
      /\ RequestOK("live", history[s], shown[s], joined[s], delivered[s], events[r])
      /\ QueueOK(queues[s], delivered[s], events[r])
    BY <1>1, RequestFacts
<1>3. /\ longer \in Seq(StreamEvent)
      /\ RequestOK("live", history[s], longer, joined[s], e.seq, events[r])
    BY <1>1, <1>2, LiveKeepsRequest
<1> HIDE DEF longer, e
<1>4. StreamTypeOK'
    BY <1>1, <1>3 DEF StreamInv, StreamTypeOK, IInv
<1>5. \A t \in Subscribers \ {s} : Untouched(t)
    BY <1>1 DEF Untouched, StreamInv, StreamTypeOK, TypeOK
<1>6. /\ phase'[s] = "live" /\ history'[s] = history[s] /\ shown'[s] = longer
      /\ joined'[s] = joined[s] /\ delivered'[s] = e.seq
      /\ watched'[s] = r /\ events' = events
    BY <1>1 DEF StreamInv, StreamTypeOK, TypeOK
<1> QED
    BY <1>2, <1>3, <1>4, <1>5, <1>6, OneRequest

\* It ends.
LEMMA LeaveKeeps ==
    ASSUME StreamInv, IInv', NEW s \in Subscribers, Return(s) \/ Disconnect(s)
    PROVE  StreamInv'
<1> DEFINE r == watched[s]
<1>1. /\ phase[s] \in {"accepted", "replaying", "live"}
      /\ phase' = [phase EXCEPT ![s] = "ended"]
      /\ Unsubscribe(s) \/ (topic[s] = NoRun /\ UNCHANGED vars)
      /\ UNCHANGED <<watched, history, shown, joined, removed>>
    BY DEF Return, Disconnect, Leave
<1>2. /\ topic' = [topic EXCEPT ![s] = NoRun]
      /\ UNCHANGED <<events, delivered>>
    BY <1>1 DEF Unsubscribe, vars, StreamInv, IInv, TypeOK
<1>3. /\ r \in Runs
      /\ RequestOK(phase[s], history[s], shown[s], joined[s], delivered[s], events[r])
    BY <1>1, RequestFacts
<1>4. RequestOK("ended", history[s], shown[s], joined[s], delivered[s], events[r])
    BY <1>3, LeaveKeepsRequest
<1>5. StreamTypeOK'
    BY <1>1, <1>2 DEF StreamInv, StreamTypeOK, IInv, TypeOK
<1>6. \A t \in Subscribers \ {s} : Untouched(t)
    BY <1>1, <1>2 DEF Untouched, StreamInv, StreamTypeOK
<1>7. /\ phase'[s] = "ended" /\ history'[s] = history[s] /\ shown'[s] = shown[s]
      /\ joined'[s] = joined[s] /\ delivered'[s] = delivered[s]
      /\ watched'[s] = r /\ events' = events
    BY <1>1, <1>2 DEF StreamInv, StreamTypeOK
<1> QED
    BY <1>3, <1>4, <1>5, <1>6, <1>7, OneRequest
-----------------------------------------------------------------------------
(* The theorems. *)

LEMMA StreamInitInv == StreamInit => StreamInv
<1> SUFFICES ASSUME StreamInit PROVE StreamInv
    OBVIOUS
<1>1. IInv /\ TypeOK
    BY InitIInv DEF StreamInit, IInv
<1>2. StreamTypeOK
    BY <1>1 DEF StreamInit, Init, StreamTypeOK
<1>3. \A s \in Subscribers : phase[s] = "none" /\ history[s] = <<>> /\ shown[s] = <<>>
    BY DEF StreamInit
<1> QED
    BY <1>1, <1>2, <1>3 DEF StreamInv

LEMMA StreamStepKeeps == StreamInv /\ [StreamNext]_<<vars, streamVars>> => StreamInv'
<1> SUFFICES ASSUME StreamInv, [StreamNext]_<<vars, streamVars>> PROVE StreamInv'
    OBVIOUS
<1>1. IInv'
    BY StreamStepIsBrokerStep, NextKeepsIInv DEF StreamInv
<1>2. CASE \E r \in Runs, type \in EmittedTypes : PublishOfRun(r, type)
    BY <1>1, <1>2, PublishKeeps
<1>3. CASE \E r \in Runs : RemoveRun(r)
    <2>1. UNCHANGED <<vars, phase, watched, history, shown, joined>>
        BY <1>3 DEF RemoveRun
    <2>2. removed' \subseteq Runs
        BY <1>3 DEF RemoveRun, StreamInv, StreamTypeOK
    <2> QED
        BY <1>1, <2>1, <2>2, RemoveKeeps
<1>4. CASE \E s \in Subscribers, r \in Runs : Request(s, r)
    BY <1>1, <1>4, RequestKeeps
<1>5. ASSUME NEW s \in Subscribers,
             \/ Begin(s) \/ BeginWithoutHistory(s) \/ Replay(s)
             \/ SubscribeAfterHistory(s) \/ Live(s) \/ Return(s) \/ Disconnect(s)
      PROVE  StreamInv'
    BY <1>1, <1>5, BeginKeeps, JoinKeeps, ReplayKeeps, LiveKeeps, LeaveKeeps
<1>6. CASE UNCHANGED <<vars, streamVars>>
    <2>1. UNCHANGED <<vars, phase, watched, history, shown, joined>>
        BY <1>6 DEF streamVars
    <2>2. removed' \subseteq Runs
        BY <1>6 DEF streamVars, StreamInv, StreamTypeOK
    <2> QED
        BY <1>1, <2>1, <2>2, RemoveKeeps
<1> QED
    BY <1>2, <1>3, <1>4, <1>5, <1>6 DEF StreamNext

\* The inductive invariant holds in every state.
THEOREM StreamInductive == StreamSpec => []StreamInv
    BY StreamInitInv, StreamStepKeeps, PTL DEF StreamSpec

\* stream_run_events uses the broker as the broker is meant to be used: a
\* request subscribes at most once at a time, receives while it is subscribed
\* and unsubscribes once, so that the streams are an instance of the broker
\* alone, and what is proved of that holds of them.
THEOREM StreamsUseTheBroker == StreamSpec => Spec
<1>1. StreamInit => Init
    BY DEF StreamInit
<1> QED
    BY <1>1, StreamInductive, StreamStepIsBrokerStep, PTL DEF StreamSpec, Spec

\* The queues of the streams are as _publish_to_queue leaves them: in order, and
\* critical events lost only to newer ones.
THEOREM StreamQueuesOK == StreamSpec => [](QueuesOK /\ CriticalLostOnlyToNewerCritical)
    BY StreamsUseTheBroker, QueuesWellFormed, CriticalKeptOrSuperseded, PTL

\* A client is shown events of its run in the order they were stored and none
\* twice, whatever is stored between its snapshot and its subscription, and a
\* request is subscribed exactly while its generator is live.
THEOREM ShowsInOrder == StreamSpec => []StreamInOrder
<1>1. StreamInv => StreamInOrder
    <2> SUFFICES ASSUME StreamInv PROVE ShownInOrder
        BY DEF StreamInv, StreamInOrder
    <2>1. ASSUME NEW s \in Subscribers, NEW i \in DOMAIN shown[s]
          PROVE  /\ shown[s][i].event_type = events[watched[s]][shown[s][i].seq]
                 /\ \A j \in 1 .. (i - 1) : shown[s][j].seq < shown[s][i].seq
        <3>1. shown[s] # <<>>
            OBVIOUS
        <3>2. ListOK(shown[s], events[watched[s]])
            BY <3>1, RequestFacts DEF RequestOK
        <3> QED
            BY <3>2 DEF ListOK
    <2> QED
        BY <2>1 DEF ShownInOrder
<1> QED
    BY <1>1, StreamInductive, PTL

\* A client that is past the history was shown all that was kept of it, and it misses a
\* critical event stored after it subscribed only when as many newer critical
\* ones as a queue has places were stored.
THEOREM ShowsCriticalEvents == StreamSpec => []CriticalShown
<1>1. StreamInv => CriticalShown
    <2> SUFFICES ASSUME StreamInv, NEW s \in Subscribers, phase[s] = "live"
                 PROVE  LET Shown(n) == \E i \in DOMAIN shown[s] : shown[s][i].seq = n
                            Waits(n) == \E i \in DOMAIN queues[s] : queues[s][i].seq = n
                            Critical == {n \in DOMAIN events[watched[s]] :
                                           events[watched[s]][n] \in CRITICAL_EVENT_TYPES}
                        IN  /\ \A event \in ToSet(history[s]) : Shown(event.seq)
                            /\ \A n \in Critical :
                                  (n > joined[s] /\ Cardinality({m \in Critical : m > n}) < QueueMaxsize)
                                     => Shown(n) \/ Waits(n)
        BY DEF CriticalShown
    <2> DEFINE log == events[watched[s]]
               Critical == {n \in DOMAIN log : log[n] \in CRITICAL_EVENT_TYPES}
    <2>1. /\ log \in Seq(EventTypes) /\ joined[s] \in Nat /\ delivered[s] \in Nat
          /\ RequestOK("live", history[s], shown[s], joined[s], delivered[s], log)
          /\ QueueOK(queues[s], delivered[s], log)
        BY RequestFacts
    <2>2. \A event \in ToSet(history[s]) : \E i \in DOMAIN shown[s] : shown[s][i].seq = event.seq
        <3>1. Seen(history[s]) \subseteq Seen(shown[s])
            BY <2>1 DEF RequestOK
        <3>2. \A event \in ToSet(history[s]) : event.seq \in Seen(history[s])
            BY DEF ToSet, Seen
        <3> QED
            BY <3>1, <3>2 DEF Seen
    <2>3. ASSUME NEW n \in Critical, n > joined[s],
                 Cardinality({m \in Critical : m > n}) < QueueMaxsize
          PROVE  \/ \E i \in DOMAIN shown[s] : shown[s][i].seq = n
                 \/ \E i \in DOMAIN queues[s] : queues[s][i].seq = n
        <3>1. {m \in Critical : m > n} = NewerCritical(n, log)
            BY DEF NewerCritical
        <3>2. Cardinality(NewerCritical(n, log)) \in Nat
            BY <2>1, NewerFinite
        <3>3. ~ (Cardinality(NewerCritical(n, log)) >= QueueMaxsize)
            BY <2>3, <3>1, <3>2, BrokerAssumption
        <3>4. n \in DOMAIN log /\ log[n] \in CRITICAL_EVENT_TYPES
            OBVIOUS
        <3>5. CASE n <= delivered[s]
            <4>1. n \in Seen(shown[s])
                BY <2>1, <2>3, <3>3, <3>4, <3>5 DEF RequestOK, PassedOK
            <4> QED
                BY <4>1 DEF Seen
        <3>6. CASE n > delivered[s]
            <4>1. CASE \E held \in Held(queues[s]) : held.seq = n
                BY <4>1 DEF Held
            <4>2. CASE /\ Full(queues[s])
                       /\ \A held \in Held(queues[s]) :
                             held.event_type \in CRITICAL_EVENT_TYPES /\ held.seq > n
                BY <2>1, <3>3, <4>2, FullOfNewer
            <4> QED
                BY <2>1, <3>4, <3>6, <4>1, <4>2 DEF QueueOK, CriticalKept
        <3>7. n \in Nat
            BY <2>1, <3>4, SeqFacts
        <3> QED
            BY <2>1, <3>5, <3>6, <3>7
    <2> QED
        BY <2>2, <2>3
<1> QED
    BY <1>1, StreamInductive, PTL
=============================================================================
