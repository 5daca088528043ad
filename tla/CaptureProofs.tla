---------------------------- MODULE CaptureProofs ----------------------------
(***************************************************************************)
(* Proofs about Capture, for any events, limits and requests under way: a  *)
(* page's queue and its running pass are followed first, then a request    *)
(* through the gateway and the producer behind it.                         *)
(***************************************************************************)
EXTENDS Capture, FiniteSetTheorems, TLAPS

Unique(q) == \A k, l \in DOMAIN q : q[k].id = q[l].id => k = l

\* A queue: one entry for an event, within the buffer.
QueueRight(q) == q \in Seq(Entry) /\ Len(q) <= MaxBuffer /\ Unique(q)

-----------------------------------------------------------------------------
(* Queues.                                                                 *)

\* The first n positions are n.
LEMMA FirstN ==
    ASSUME NEW n \in Nat
    PROVE  IsFiniteSet(1 .. n) /\ Cardinality(1 .. n) = n
BY FS_Interval

\* The entries of some events are those, all of them, and each once.
LEMMA AmongIs ==
    ASSUME NEW q, QueueRight(q), NEW ids
    PROVE  /\ QueueRight(Among(q, ids))
           /\ Queued(Among(q, ids)) = Queued(q) \cap ids
           /\ \A j \in DOMAIN Among(q, ids) : \E k \in DOMAIN q : Among(q, ids)[j] = q[k]
<1> DEFINE kept == {k \in DOMAIN q : q[k].id \in ids}
           upto(k) == kept \cap (1 .. k)
           N == Cardinality(kept)
           place == [k \in kept |-> Cardinality(upto(k))]
           at(j) == CHOOSE k \in kept : Cardinality(upto(k)) = j
           r == Among(q, ids)
<1>1. q \in Seq(Entry) /\ Len(q) \in Nat /\ Len(q) <= MaxBuffer /\ DOMAIN q = 1 .. Len(q) /\ MaxBuffer \in Nat
  BY TrackerAssumption DEF QueueRight
<1>2. IsFiniteSet(kept) /\ N \in Nat /\ N <= Len(q) /\ kept \subseteq 1 .. Len(q)
  <2>1. IsFiniteSet(1 .. Len(q)) /\ Cardinality(1 .. Len(q)) = Len(q)
    BY <1>1, FirstN
  <2> QED
    BY <1>1, <2>1, FS_Subset, FS_CardinalityType
<1>3. ASSUME NEW k \in kept
      PROVE  /\ IsFiniteSet(upto(k)) /\ Cardinality(upto(k)) \in 1 .. N
             /\ Cardinality(upto(k)) \in Nat
  <2>1. k \in upto(k) /\ upto(k) \subseteq kept
    BY <1>2
  <2>2. IsFiniteSet(upto(k)) /\ Cardinality(upto(k)) \in Nat /\ Cardinality(upto(k)) <= N
    BY <1>2, <2>1, FS_Subset, FS_CardinalityType
  <2>3. Cardinality(upto(k)) # 0
    BY <2>1, <2>2, FS_EmptySet
  <2> QED
    BY <1>2, <2>2, <2>3
<1>4. ASSUME NEW k \in kept, NEW l \in kept, k < l
      PROVE  Cardinality(upto(k)) < Cardinality(upto(l))
  <2>1. upto(k) \subseteq upto(l) /\ l \in upto(l) /\ l \notin upto(k)
    BY <1>2, <1>4
  <2>2. /\ Cardinality(upto(k)) <= Cardinality(upto(l))
        /\ Cardinality(upto(k)) = Cardinality(upto(l)) => upto(k) = upto(l)
    BY <1>3, <2>1, FS_Subset
  <2>3. Cardinality(upto(k)) \in Nat /\ Cardinality(upto(l)) \in Nat
    BY <1>3
  <2> QED
    BY <2>1, <2>2, <2>3
<1> HIDE DEF upto, N
<1>5. ASSUME NEW k \in kept, NEW l \in kept, Cardinality(upto(k)) = Cardinality(upto(l))
      PROVE  k = l
  <2>1. k \in Nat /\ l \in Nat
    BY <1>2
  <2>2. Cardinality(upto(k)) \in Nat /\ ~(k < l) /\ ~(l < k)
    BY <1>2, <1>3, <1>4, <1>5
  <2> QED
    BY <2>1, <2>2
<1>6. \A j \in 1 .. N : \E k \in kept : Cardinality(upto(k)) = j
  <2>1. place \in Injection(kept, 1 .. N)
    BY <1>3, <1>5 DEF Injection, IsInjective
  <2>2. IsFiniteSet(1 .. N) /\ Cardinality(1 .. N) = N
    BY <1>2, FirstN
  <2>3. place \in Surjection(kept, 1 .. N)
    BY <2>1, <2>2, FS_Injection DEF N
  <2> QED
    BY <2>3 DEF Surjection
<1>7. \A j \in 1 .. N : at(j) \in kept /\ Cardinality(upto(at(j))) = j
  BY <1>6
<1>8. \A k \in kept : Cardinality(upto(k)) \in 1 .. N /\ at(Cardinality(upto(k))) = k
  BY <1>3, <1>5, <1>7
<1>9. r = [j \in 1 .. N |-> q[at(j)]]
  BY DEF Among, N, upto
<1> HIDE DEF kept, at, r
<1>10. r \in Seq(Entry) /\ Len(r) = N /\ DOMAIN r = 1 .. N
  <2>1. \A j \in 1 .. N : q[at(j)] \in Entry
    <3>1. \A k \in 1 .. Len(q) : q[k] \in Entry
      BY <1>1
    <3> QED
      BY <1>2, <1>7, <3>1
  <2> QED
    BY <1>2, <1>9, <2>1
<1>11. Unique(r)
  <2>1. \A j \in 1 .. N : at(j) \in DOMAIN q /\ r[j] = q[at(j)]
    BY <1>7, <1>9 DEF kept
  <2> QED
    BY <1>7, <1>10, <2>1 DEF Unique, QueueRight
<1>12. Queued(r) = Queued(q) \cap ids
  <2>1. ASSUME NEW i \in Queued(r)
        PROVE  i \in Queued(q) \cap ids
    BY <1>7, <1>9, <1>10, <2>1 DEF Queued, kept
  <2>2. ASSUME NEW i \in Queued(q) \cap ids
        PROVE  i \in Queued(r)
    <3>1. PICK k \in kept : i = q[k].id
      BY <2>2 DEF Queued, kept
    <3> QED
      BY <1>8, <1>9, <1>10, <3>1 DEF Queued
  <2> QED
    BY <2>1, <2>2
<1>13. \A j \in DOMAIN r : \E k \in DOMAIN q : r[j] = q[k]
  BY <1>7, <1>9, <1>10 DEF kept
<1> QED
  BY <1>1, <1>2, <1>10, <1>11, <1>12, <1>13 DEF QueueRight, r

-----------------------------------------------------------------------------
(* The tracker.                                                            *)

Drain == [pc: {"none", "token", "response", "sleep"}, keepalive: BOOLEAN, eligible: SUBSET Ids,
          batch: SUBSET Ids, refresh: BOOLEAN, request: SUBSET Requests]

\* The events of a pass's request, while there is one.
Trying(d) == IF d.pc \in {"token", "response"} THEN d.batch ELSE {}

\* A pass against the queue: what it tries is queued, charged for the attempt, and
\* nothing else has used its attempts up.
PassRight(d, q) ==
    /\ d \in Drain
    /\ d.pc # "response" => d.request = {}
    /\ Trying(d) \subseteq Queued(q)
    /\ \A k \in DOMAIN q :
          IF q[k].id \in Trying(d) THEN q[k].attempts > 0 ELSE q[k].attempts < MaxAttempts

Fresh(q) == \A k \in DOMAIN q : q[k].attempts < MaxAttempts

\* What is queued, what was reported and what was counted.
LedgerRight ==
    /\ \A i \in Queued(queue) : outcome[i] = "none" /\ i \in tracked
    /\ \A i \in Ids : outcome[i] # "none" => i \in tracked
    /\ page = "open" => \A i \in tracked : outcome[i] = "none" => i \in Queued(queue)
    /\ \A s \in Statuses : totals[s] = Cardinality({i \in Ids : outcome[i] = s})
    /\ page = "gone" => queue = <<>> /\ drain = NoDrain

\* What the tracker's variables hold apart from the queue and the pass.
PageTypes ==
    /\ page \in {"open", "gone"}
    /\ forceRefresh \in BOOLEAN /\ closed \in BOOLEAN /\ closing \in BOOLEAN
    /\ refused \in BOOLEAN
    /\ hung \in 0 .. MaxHung
    /\ totals \in [Statuses -> Nat]
    /\ tracked \in SUBSET Ids
    /\ outcome \in [Ids -> Statuses \cup {"none"}]

TrackerRight == PageTypes /\ QueueRight(queue) /\ PassRight(drain, queue) /\ LedgerRight

\* What an entry of a queue is.
LEMMA EntryShape ==
    ASSUME NEW q, QueueRight(q), NEW k \in DOMAIN q
    PROVE  q[k] \in Entry /\ q[k].id \in Ids /\ q[k].attempts \in Nat /\ q[k].id \in Queued(q)
           /\ q[k].attempts <= MaxAttempts /\ MaxAttempts \in Nat \ {0}
<1>1. q[k] \in Entry
  BY DEF QueueRight
<1> QED
  BY <1>1, TrackerAssumption DEF Entry, Queued

\* No pass fits any queue whose entries have attempts left.
LEMMA NoDrainRight ==
    ASSUME NEW q, QueueRight(q), Fresh(q)
    PROVE  PassRight(NoDrain, q) /\ NoDrain.request = {}
BY DEF PassRight, NoDrain, Drain, Trying, Fresh

\* What is charged is the batch, one attempt each.
LEMMA ChargedIs ==
    ASSUME NEW q, QueueRight(q), Fresh(q), NEW batch
    PROVE  /\ QueueRight(Charged(q, batch)) /\ Queued(Charged(q, batch)) = Queued(q)
           /\ \A k \in DOMAIN Charged(q, batch) :
                 LET e == Charged(q, batch)[k]
                 IN  IF e.id \in batch THEN e.attempts > 0 ELSE e.attempts < MaxAttempts
<1> DEFINE c == Charged(q, batch)
<1>1. ASSUME NEW k \in DOMAIN q
      PROVE  /\ c[k] \in Entry /\ c[k].id = q[k].id
             /\ IF c[k].id \in batch THEN c[k].attempts > 0 ELSE c[k].attempts < MaxAttempts
  <2>1. q[k] \in Entry /\ q[k].attempts \in Nat /\ q[k].attempts < MaxAttempts /\ MaxAttempts \in Nat
    BY EntryShape DEF Fresh
  <2>2. c[k] = IF q[k].id \in batch THEN [q[k] EXCEPT !.attempts = @ + 1] ELSE q[k]
    BY DEF Charged
  <2> HIDE DEF c
  <2>3. CASE q[k].id \in batch
    <3>1. c[k] = [id |-> q[k].id, attempts |-> q[k].attempts + 1]
      BY <2>1, <2>2, <2>3 DEF Entry
    <3> QED
      BY <2>1, <2>3, <3>1 DEF Entry
  <2>4. CASE q[k].id \notin batch
    BY <2>1, <2>2, <2>4
  <2> QED
    BY <2>3, <2>4
<1>2. DOMAIN c = DOMAIN q /\ DOMAIN q = 1 .. Len(q) /\ Len(q) \in Nat
  BY DEF Charged, QueueRight
<1> HIDE DEF c
<1>3. c \in Seq(Entry) /\ Len(c) = Len(q)
  <2>1. c = [k \in 1 .. Len(q) |-> c[k]]
    BY <1>2 DEF c, Charged
  <2> QED
    BY <1>1, <1>2, <2>1
<1>4. Unique(c) /\ Queued(c) = Queued(q)
  BY <1>1, <1>2 DEF Unique, Queued, QueueRight
<1> QED
  BY <1>1, <1>2, <1>3, <1>4 DEF QueueRight, c

\* The next batch is of eligible events that are queued.
LEMMA BatchIs ==
    ASSUME NEW q, QueueRight(q), NEW eligible, NEW limit
    PROVE  Batch(q, eligible, limit) \subseteq Queued(q) \cap eligible
<1>1. Batch(q, eligible, limit) \subseteq Queued(Among(q, eligible))
  BY DEF Batch, Queued
<1> QED
  BY <1>1, AmongIs

\* A pass goes on with a batch whose events are charged, or ends.
LEMMA ProceedIs ==
    ASSUME NEW q, QueueRight(q), Fresh(q), NEW eligible \in SUBSET Ids,
           NEW keepalive \in BOOLEAN, NEW refresh \in BOOLEAN,
           Proceed(q, eligible, keepalive, refresh)
    PROVE  /\ QueueRight(queue') /\ Queued(queue') = Queued(q)
           /\ PassRight(drain', queue') /\ drain'.request = {}
<1> DEFINE limit == IF keepalive /\ UnloadLimit < BodyLimit THEN UnloadLimit ELSE BodyLimit
           batch == Batch(q, eligible, limit)
<1>1. batch \subseteq Queued(q) \cap eligible /\ Queued(q) \subseteq Ids
  <2>1. Queued(q) \subseteq Ids
    BY EntryShape DEF Queued
  <2> QED
    BY <2>1, BatchIs
<1>2. CASE batch = {}
  BY <1>2, NoDrainRight DEF Proceed
<1>3. CASE batch # {}
  <2> DEFINE d == [pc |-> "token", keepalive |-> keepalive, eligible |-> eligible,
                   batch |-> batch, refresh |-> refresh, request |-> {}]
  <2>1. queue' = Charged(q, batch) /\ drain' = d
    BY <1>3 DEF Proceed
  <2> HIDE DEF batch
  <2>2. d \in Drain /\ Trying(d) = batch /\ d.request = {}
    BY <1>1 DEF Drain, Trying
  <2> HIDE DEF d
  <2>3. PassRight(d, Charged(q, batch))
    BY <1>1, <2>2, ChargedIs DEF PassRight
  <2> QED
    BY <2>1, <2>2, <2>3, ChargedIs
<1> QED
  BY <1>2, <1>3

\* Disjoint sets count together.
LEMMA DisjointCount ==
    ASSUME NEW S, NEW T, IsFiniteSet(S), IsFiniteSet(T), S \cap T = {}
    PROVE  IsFiniteSet(S \cup T) /\ Cardinality(S \cup T) = Cardinality(S) + Cardinality(T)
<1>1. Cardinality(S \cap T) = 0 /\ Cardinality(S) \in Nat /\ Cardinality(T) \in Nat
  BY FS_EmptySet, FS_CardinalityType
<1>2. /\ IsFiniteSet(S \cup T)
      /\ Cardinality(S \cup T) = Cardinality(S) + Cardinality(T) - Cardinality(S \cap T)
  BY FS_Union, Zenon
<1> QED
  BY <1>1, <1>2

\* What _drain does with a reply, settled being final for events of the batch.
LEMMA HandleIs ==
    ASSUME TrackerRight, drain.pc \in {"token", "response"},
           NEW settled, settled = [i \in DOMAIN settled |-> settled[i]],
           DOMAIN settled \subseteq drain.batch, \A i \in DOMAIN settled : settled[i] \in Statuses,
           NEW refresh \in BOOLEAN, Handle(settled, refresh),
           page' = page, tracked' = tracked
    PROVE  /\ QueueRight(queue') /\ PassRight(drain', queue') /\ drain'.request = {} /\ LedgerRight'
           /\ totals' \in [Statuses -> Nat] /\ outcome' \in [Ids -> Statuses \cup {"none"}]
           /\ \A i \in Ids : outcome'[i] = "accepted" =>
                 outcome[i] = "accepted" \/ (i \in DOMAIN settled /\ settled[i] = "accepted")
<1> DEFINE exhausted == Exhausted(DOMAIN settled)
           over == DOMAIN settled \cup exhausted
           rest == Among(queue, Ids \ over)
           told(s) == {i \in DOMAIN settled : settled[i] = s}
           dropped(s) == IF s = "dropped" THEN exhausted ELSE {}
           was(s) == {i \in Ids : outcome[i] = s}
<1>1. /\ QueueRight(queue) /\ drain \in Drain /\ drain.batch \subseteq Queued(queue)
      /\ drain.batch \in SUBSET Ids /\ drain.eligible \in SUBSET Ids
      /\ totals \in [Statuses -> Nat] /\ outcome \in [Ids -> Statuses \cup {"none"}]
      /\ \A i \in drain.batch : outcome[i] = "none" /\ i \in tracked
      /\ page = "open"
  BY DEF TrackerRight, PageTypes, PassRight, Trying, LedgerRight, Drain, NoDrain
<1>2. /\ outcome' = [i \in Ids |->
             CASE i \in exhausted -> "dropped"
               [] i \in DOMAIN settled \ exhausted -> settled[i]
               [] OTHER -> outcome[i]]
      /\ totals' = [s \in Statuses |->
             totals[s] + Cardinality(told(s)) + (IF s = "dropped" THEN Cardinality(exhausted) ELSE 0)]
  BY DEF Handle
<1>3. exhausted \subseteq drain.batch \ DOMAIN settled /\ over \subseteq drain.batch
  BY DEF Exhausted
<1>4. /\ QueueRight(rest) /\ Queued(rest) = Queued(queue) \ over
      /\ \A j \in DOMAIN rest : \E k \in DOMAIN queue : rest[j] = queue[k]
  <2>1. Queued(queue) \subseteq Ids
    BY <1>1, EntryShape DEF Queued
  <2> HIDE DEF over
  <2>2. /\ QueueRight(rest) /\ Queued(rest) = Queued(queue) \cap (Ids \ over)
        /\ \A j \in DOMAIN rest : \E k \in DOMAIN queue : rest[j] = queue[k]
    <3>1. QueueRight(queue)
      BY <1>1
    <3>2. ASSUME NEW ids
          PROVE  /\ QueueRight(Among(queue, ids))
                 /\ Queued(Among(queue, ids)) = Queued(queue) \cap ids
                 /\ \A j \in DOMAIN Among(queue, ids) : \E k \in DOMAIN queue : Among(queue, ids)[j] = queue[k]
      BY <3>1, AmongIs
    <3> QED
      BY <3>2
  <2> HIDE DEF rest
  <2> QED
    BY <2>1, <2>2
<1>5. Fresh(rest)
  <2> SUFFICES ASSUME NEW j \in DOMAIN rest
               PROVE  rest[j].attempts < MaxAttempts
    BY DEF Fresh
  <2>1. PICK k \in DOMAIN queue : rest[j] = queue[k]
    BY <1>4
  <2>2. rest[j].id \notin over
    BY <1>4 DEF Queued
  <2> HIDE DEF rest, over
  <2>3. CASE queue[k].id \notin drain.batch
    BY <1>1, <2>1, <2>3 DEF TrackerRight, PassRight, Trying
  <2>4. CASE queue[k].id \in drain.batch
    <3>1. AttemptsOf(queue[k].id) = queue[k].attempts
      BY <1>1 DEF AttemptsOf, QueueRight, Unique
    <3>2. ~(queue[k].attempts >= MaxAttempts)
      BY <2>1, <2>2, <2>4, <3>1 DEF over, Exhausted
    <3>3. queue[k].attempts \in Nat /\ MaxAttempts \in Nat
      BY <1>1, EntryShape
    <3> QED
      BY <2>1, <3>2, <3>3
  <2> QED
    BY <2>3, <2>4
<1>6. /\ QueueRight(queue') /\ PassRight(drain', queue') /\ drain'.request = {}
      /\ Queued(queue') = Queued(queue) \ over
  <2>1. CASE queue' = rest /\ drain' = NoDrain
    BY <1>4, <1>5, <2>1, NoDrainRight
  <2>2. CASE queue' = rest /\ drain' = [drain EXCEPT !.pc = "sleep", !.request = {}]
    <3> DEFINE d == [drain EXCEPT !.pc = "sleep", !.request = {}]
    <3>1. d \in Drain /\ Trying(d) = {} /\ d.request = {}
      BY <1>1 DEF Drain, Trying
    <3> HIDE DEF d, rest
    <3>2. PassRight(d, rest)
      BY <1>5, <3>1 DEF PassRight, Fresh
    <3> QED
      BY <1>4, <2>2, <3>1, <3>2 DEF d
  <2>3. CASE Proceed(rest, drain.eligible, FALSE, refresh)
    <3> HIDE DEF rest, over
    <3> QED
      BY <1>1, <1>4, <1>5, <2>3, ProceedIs
  <2> QED
    BY <2>1, <2>2, <2>3 DEF Handle
<1> HIDE DEF exhausted, rest
<1>7. \A i \in Ids : outcome'[i] =
         IF i \in exhausted THEN "dropped" ELSE IF i \in DOMAIN settled THEN settled[i] ELSE outcome[i]
  BY <1>2
<1>8. outcome' \in [Ids -> Statuses \cup {"none"}]
  BY <1>1, <1>2, <1>7 DEF Statuses
<1>9. /\ IsFiniteSet(exhausted)
      /\ \A s : IsFiniteSet(told(s)) /\ IsFiniteSet(was(s)) /\ IsFiniteSet(dropped(s))
  <2>1. /\ exhausted \subseteq Ids
        /\ \A s : told(s) \subseteq Ids /\ was(s) \subseteq Ids /\ dropped(s) \subseteq Ids
    BY <1>1, <1>3
  <2> QED
    BY <2>1, ExchangeAssumption, FS_Subset
<1>10. ASSUME NEW s \in Statuses
       PROVE  totals'[s] = totals[s] + Cardinality(told(s)) + Cardinality(dropped(s))
  <2>1. Cardinality({}) = 0
    BY FS_EmptySet
  <2> QED
    BY <1>2, <2>1
<1>11. totals' \in [Statuses -> Nat]
  <2>1. \A s \in Statuses : totals'[s] \in Nat
    <3>1. \A s : Cardinality(told(s)) \in Nat /\ Cardinality(dropped(s)) \in Nat
      BY <1>9, FS_CardinalityType
    <3> HIDE DEF told, dropped
    <3>2. \A s \in Statuses : totals[s] \in Nat
      BY <1>1
    <3> QED
      BY <1>10, <3>1, <3>2
  <2> QED
    BY <1>2, <2>1
<1>12. ASSUME NEW s \in Statuses
       PROVE  totals'[s] = Cardinality({i \in Ids : outcome'[i] = s})
  <2>1. {i \in Ids : outcome'[i] = s} = (was(s) \cup told(s)) \cup dropped(s)
    BY <1>1, <1>3, <1>7, <1>12 DEF Statuses
  <2>2. was(s) \cap told(s) = {} /\ (was(s) \cup told(s)) \cap dropped(s) = {}
    BY <1>1, <1>3, <1>12 DEF Statuses
  <2>3. totals[s] = Cardinality(was(s))
    BY <1>12 DEF TrackerRight, LedgerRight
  <2> HIDE DEF was, told, dropped
  <2>4. /\ IsFiniteSet(was(s) \cup told(s))
        /\ Cardinality(was(s) \cup told(s)) = Cardinality(was(s)) + Cardinality(told(s))
    BY <1>9, <2>2, DisjointCount
  <2>5. Cardinality((was(s) \cup told(s)) \cup dropped(s))
           = Cardinality(was(s)) + Cardinality(told(s)) + Cardinality(dropped(s))
    BY <1>9, <2>2, <2>4, DisjointCount
  <2> QED
    BY <1>10, <2>1, <2>3, <2>5
<1>13. LedgerRight'
  <2>1. \A i \in Queued(queue') : outcome'[i] = "none" /\ i \in tracked'
    <3>1. Queued(queue) \subseteq Ids
      BY <1>1, EntryShape DEF Queued
    <3> QED
      BY <1>6, <1>7, <3>1 DEF TrackerRight, LedgerRight
  <2>2. \A i \in Ids : outcome'[i] # "none" => i \in tracked'
    BY <1>1, <1>3, <1>7 DEF TrackerRight, LedgerRight
  <2>3. \A i \in tracked' : outcome'[i] = "none" => i \in Queued(queue')
    <3>1. tracked \subseteq Ids /\ \A i \in over : outcome'[i] # "none"
      BY <1>1, <1>3, <1>7 DEF TrackerRight, PageTypes, Statuses
    <3> QED
      BY <1>1, <1>3, <1>6, <1>7, <3>1 DEF TrackerRight, LedgerRight
  <2>4. \A s \in Statuses : totals'[s] = Cardinality({i \in Ids : outcome'[i] = s})
    BY <1>12
  <2> QED
    BY <1>1, <2>1, <2>2, <2>3, <2>4 DEF LedgerRight, Queued
<1> QED
  BY <1>6, <1>7, <1>8, <1>11, <1>13

-----------------------------------------------------------------------------
(* Requests.                                                               *)

\* A request against the topics: what is stored for it is in the topic its validity
\* says, and its answer, if any, calls nothing accepted that is not delivered.
RecordRight(r, T, Q) ==
    /\ r \in Request
    /\ r.pc # "publishing" => r.stored = {}
    /\ r.pc = "publishing" => r.rejected \cup r.stored \cup r.pending \subseteq r.events
    /\ r.stored \ r.rejected \subseteq T /\ r.stored \cap r.rejected \subseteq Q
    /\ r.answer.accepted \cap r.answer.rejected = {}
    /\ r.answer.accepted \subseteq T /\ r.answer.persisted \subseteq Q

\* A request against the pass that waits for it: it carries the batch, and so does the
\* answer to it; there are no answers nobody waits for.
HeardRight(n, r, d) ==
    /\ r.awaited => n \in d.request
    /\ r.awaited /\ r.pc # "answered" => r.events = d.batch
    /\ r.pc = "answered" => r.awaited /\ r.answer.accepted \cup r.answer.rejected \subseteq d.batch

RequestsRight ==
    /\ exchange \in [Requests -> Request]
    /\ \A n \in Requests :
          RecordRight(exchange[n], topic, quarantine) /\ HeardRight(n, exchange[n], drain)

Delivered == \A i \in Ids : outcome[i] = "accepted" => i \in topic

CaptureInv == TrackerRight /\ GatewayType /\ RequestsRight /\ Delivered

\* Nobody waits for this request.
Unheard(r) == ~r.awaited /\ r.pc # "answered"

\* A request nobody waits for fits any pass.
LEMMA UnheardRight ==
    ASSUME NEW n, NEW r, Unheard(r), NEW d
    PROVE  HeardRight(n, r, d)
BY DEF Unheard, HeardRight

\* No request is right.
LEMMA NoRequestRight ==
    ASSUME NEW T, NEW Q
    PROVE  RecordRight(NoRequest, T, Q) /\ Unheard(NoRequest) /\ NoRequest.answer = Refused("retry")
BY DEF RecordRight, Unheard, NoRequest, Request, RequestPCs, Refused, Answer, Kinds

\* Nor can one that is over be wrong: its answer is gone.
LEMMA OverRight ==
    ASSUME NEW r \in Request, NEW T, NEW Q
    PROVE  RecordRight(Over(r), T, Q) /\ Unheard(Over(r))
BY DEF RecordRight, Unheard, Over, NoRequest, Request, RequestPCs, Refused, Answer, Kinds

\* Without a request of its own, the pass is waiting for none.
LEMMA NobodyWaits ==
    ASSUME CaptureInv, drain.request = {}, NEW n \in Requests
    PROVE  Unheard(exchange[n])
BY DEF CaptureInv, RequestsRight, HeardRight, Unheard

\* When the tracker stops listening, for whatever reason, nobody waits any more.
LEMMA StoppedListening ==
    ASSUME CaptureInv, StopListening
    PROVE  /\ exchange' \in [Requests -> Request]
           /\ \A n \in Requests : RecordRight(exchange'[n], topic, quarantine) /\ Unheard(exchange'[n])
<1> SUFFICES ASSUME NEW n \in Requests
             PROVE  /\ exchange'[n] \in Request
                    /\ RecordRight(exchange'[n], topic, quarantine) /\ Unheard(exchange'[n])
  BY DEF StopListening
<1> DEFINE r == exchange[n]
<1>1. r \in Request /\ RecordRight(r, topic, quarantine) /\ HeardRight(n, r, drain)
  BY DEF CaptureInv, RequestsRight
<1>2. exchange'[n] = IF n \in drain.request THEN GivenUp(r) ELSE r
  BY DEF StopListening
<1> HIDE DEF r
<1>3. CASE n \notin drain.request
  BY <1>1, <1>2, <1>3 DEF HeardRight, Unheard
<1>4. CASE n \in drain.request /\ r.pc \in {"none", "answered"}
  <2>1. exchange'[n] = Over(r)
    BY <1>2, <1>4 DEF GivenUp
  <2>2. RecordRight(Over(r), topic, quarantine) /\ Unheard(Over(r))
    BY <1>1, OverRight
  <2> QED
    BY <2>1, <2>2 DEF RecordRight
<1>5. CASE n \in drain.request /\ r.pc \notin {"none", "answered"}
  <2> DEFINE q == [r EXCEPT !.awaited = FALSE]
  <2>1. exchange'[n] = q
    BY <1>2, <1>5 DEF GivenUp
  <2>2. /\ q \in Request /\ q.awaited = FALSE /\ q.pc = r.pc /\ q.stored = r.stored
        /\ q.rejected = r.rejected /\ q.pending = r.pending /\ q.events = r.events
        /\ q.answer = r.answer
    BY <1>1 DEF Request
  <2> HIDE DEF q
  <2> QED
    BY <1>1, <1>5, <2>1, <2>2 DEF RecordRight, Unheard
<1> QED
  BY <1>3, <1>4, <1>5

\* After a step of the tracker that leaves nobody waiting, the requests are right.
LEMMA TrackerStep ==
    ASSUME CaptureInv, UNCHANGED gatewayVars, TrackerRight',
           \/ exchange' = exchange /\ (drain.request = {} \/ drain' = drain)
           \/ StopListening,
           \A i \in Ids : outcome'[i] = "accepted" => i \in topic
    PROVE  CaptureInv'
<1>1. GatewayType' /\ topic' = topic /\ quarantine' = quarantine /\ Delivered'
  BY DEF CaptureInv, GatewayType, gatewayVars, Delivered
<1>2. ASSUME exchange' = exchange, drain.request = {} \/ drain' = drain
      PROVE  RequestsRight'
  <2>1. ASSUME NEW n \in Requests
        PROVE  HeardRight(n, exchange[n], drain')
    BY <1>2, NobodyWaits, UnheardRight DEF CaptureInv, RequestsRight
  <2>2. ASSUME NEW n \in Requests
        PROVE  RecordRight(exchange[n], topic, quarantine)
    BY DEF CaptureInv, RequestsRight
  <2> QED
    BY <1>1, <1>2, <2>1, <2>2 DEF CaptureInv, RequestsRight
<1>3. ASSUME StopListening
      PROVE  RequestsRight'
  <2>1. /\ exchange' \in [Requests -> Request]
        /\ \A n \in Requests : RecordRight(exchange'[n], topic, quarantine) /\ Unheard(exchange'[n])
    BY <1>3, StoppedListening
  <2>2. \A n \in Requests : HeardRight(n, exchange'[n], drain')
    BY <2>1, UnheardRight
  <2> QED
    BY <1>1, <2>1, <2>2 DEF RequestsRight
<1> QED
  BY <1>1, <1>2, <1>3 DEF CaptureInv

-----------------------------------------------------------------------------
(* The steps of the tracker.                                               *)

\* Nothing has used its attempts up while no request is out.
LEMMA RestIsFresh ==
    ASSUME CaptureInv, drain.pc \notin {"token", "response"}
    PROVE  QueueRight(queue) /\ Fresh(queue) /\ drain \in Drain /\ drain.request = {}
           /\ Queued(queue) \subseteq Ids
<1>1. QueueRight(queue) /\ PassRight(drain, queue)
  BY DEF CaptureInv, TrackerRight
<1>2. Queued(queue) \subseteq Ids
  BY <1>1, EntryShape DEF Queued
<1> QED
  BY <1>1, <1>2 DEF PassRight, Trying, Fresh

\* A pass over the queue as it is, or the next batch of the one there is.
LEMMA ProceedSafe ==
    ASSUME CaptureInv, drain.pc \notin {"token", "response"}, UNCHANGED gatewayVars,
           NEW eligible \in SUBSET Ids, NEW keepalive \in BOOLEAN,
           Proceed(queue, eligible, keepalive, forceRefresh),
           UNCHANGED <<page, forceRefresh, hung, totals, tracked, outcome, refused, exchange>>,
           page = "open", closed' \in BOOLEAN, closing' \in BOOLEAN
    PROVE  CaptureInv'
<1>1. PageTypes /\ LedgerRight
  BY DEF CaptureInv, TrackerRight
<1>2. forceRefresh \in BOOLEAN
  BY <1>1 DEF PageTypes
<1>3. QueueRight(queue') /\ Queued(queue') = Queued(queue) /\ PassRight(drain', queue')
  BY <1>2, RestIsFresh, ProceedIs
<1>4. PageTypes'
  BY <1>1 DEF PageTypes
<1>5. LedgerRight'
  BY <1>1, <1>3 DEF LedgerRight, Queued
<1>6. TrackerRight'
  BY <1>3, <1>4, <1>5 DEF TrackerRight
<1>7. \A i \in Ids : outcome'[i] = "accepted" => i \in topic
  BY DEF CaptureInv, Delivered
<1> QED
  BY <1>6, <1>7, RestIsFresh, TrackerStep

\* A pass that is waiting for something is an open page's.
LEMMA PassIsOpen ==
    ASSUME CaptureInv, drain.pc # "none"
    PROVE  page = "open" /\ drain \in Drain
BY DEF CaptureInv, TrackerRight, LedgerRight, PageTypes, PassRight, NoDrain

\* track appends an entry with a new event identifier.
LEMMA TrackSafe ==
    ASSUME CaptureInv, NEW i \in Ids, Track(i), UNCHANGED gatewayVars
    PROVE  CaptureInv'
<1> DEFINE e == [id |-> i, attempts |-> 0]
<1>1. /\ PageTypes /\ LedgerRight /\ QueueRight(queue) /\ PassRight(drain, queue)
      /\ Len(queue) < MaxBuffer /\ i \notin tracked
      /\ queue' = Append(queue, e) /\ tracked' = tracked \cup {i}
      /\ UNCHANGED <<page, drain, forceRefresh, hung, closed, closing, totals, outcome, refused, exchange>>
  BY DEF CaptureInv, TrackerRight, Track
<1>2. /\ queue \in Seq(Entry) /\ Len(queue) \in Nat /\ e \in Entry /\ MaxBuffer \in Nat
      /\ MaxAttempts \in Nat \ {0} /\ DOMAIN queue = 1 .. Len(queue)
  BY <1>1, TrackerAssumption DEF QueueRight, Entry
<1>3. /\ queue' \in Seq(Entry) /\ Len(queue') = Len(queue) + 1 /\ DOMAIN queue' = 1 .. (Len(queue) + 1)
      /\ \A k \in 1 .. Len(queue) : queue'[k] = queue[k]
      /\ queue'[Len(queue) + 1] = e
  BY <1>1, <1>2
<1>4. i \notin Queued(queue) /\ \A k \in 1 .. Len(queue) : queue[k].id # i
  BY <1>1, <1>2 DEF LedgerRight, Queued
<1>5. QueueRight(queue')
  BY <1>1, <1>2, <1>3, <1>4 DEF QueueRight, Unique
<1>6. Queued(queue') = Queued(queue) \cup {i}
  <2>1. ASSUME NEW j \in Queued(queue')
        PROVE  j \in Queued(queue) \cup {i}
    BY <1>2, <1>3, <2>1 DEF Queued
  <2>2. ASSUME NEW j \in Queued(queue)
        PROVE  j \in Queued(queue')
    BY <1>2, <1>3, <2>2 DEF Queued
  <2>3. i \in Queued(queue')
    BY <1>2, <1>3 DEF Queued
  <2> QED
    BY <2>1, <2>2, <2>3
<1>7. PassRight(drain', queue')
  BY <1>1, <1>2, <1>3, <1>4, <1>6 DEF PassRight, Trying
<1>8. PageTypes'
  BY <1>1 DEF PageTypes
<1>9. LedgerRight'
  <2>1. outcome[i] = "none"
    BY <1>1 DEF LedgerRight
  <2> QED
    BY <1>1, <1>6, <2>1 DEF LedgerRight, Track, Queued
<1>10. TrackerRight'
  BY <1>5, <1>7, <1>8, <1>9 DEF TrackerRight
<1>11. \A j \in Ids : outcome'[j] = "accepted" => j \in topic
  BY <1>1 DEF CaptureInv, Delivered
<1> QED
  BY <1>1, <1>10, <1>11, TrackerStep

\* flush starts a pass.
LEMMA FlushSafe ==
    ASSUME CaptureInv, NEW keepalive \in BOOLEAN, Flush(keepalive), UNCHANGED gatewayVars
    PROVE  CaptureInv'
<1>1. drain.pc \notin {"token", "response"} /\ closed \in BOOLEAN /\ closing \in BOOLEAN
  BY DEF Flush, NoDrain, CaptureInv, TrackerRight, PageTypes
<1> QED
  BY <1>1, RestIsFresh, ProceedSafe DEF Flush

\* close starts a pass, joins one, or only closes.
LEMMA CloseSafe ==
    ASSUME CaptureInv, NEW flush \in BOOLEAN, Close(flush), UNCHANGED gatewayVars
    PROVE  CaptureInv'
<1>1. closed' \in BOOLEAN /\ closing' \in BOOLEAN
  BY DEF Close
<1>2. CASE UNCHANGED <<queue, drain>>
  <2>1. TrackerRight'
    BY <1>1, <1>2 DEF Close, CaptureInv, TrackerRight, PageTypes, LedgerRight
  <2>2. \A j \in Ids : outcome'[j] = "accepted" => j \in topic
    BY DEF CaptureInv, Delivered, Close
  <2> QED
    BY <1>2, <2>1, <2>2, TrackerStep DEF Close
<1>3. CASE drain = NoDrain /\ Proceed(queue, Queued(queue), FALSE, forceRefresh)
  <2>1. drain.pc \notin {"token", "response"}
    BY <1>3 DEF NoDrain
  <2> QED
    BY <1>1, <1>3, <2>1, RestIsFresh, ProceedSafe DEF Close
<1> QED
  BY <1>2, <1>3 DEF Close

\* The pass goes on after its backoff.
LEMMA WakeSafe ==
    ASSUME CaptureInv, Wake, UNCHANGED gatewayVars
    PROVE  CaptureInv'
<1>1. drain.pc = "sleep" /\ page = "open" /\ drain.eligible \in SUBSET Ids
      /\ closed \in BOOLEAN /\ closing \in BOOLEAN
  BY PassIsOpen DEF Wake, Drain, CaptureInv, TrackerRight, PageTypes
<1> QED
  BY <1>1, ProceedSafe DEF Wake

\* A page that goes takes queue and pass with it.
LEMMA LeaveSafe ==
    ASSUME CaptureInv, Leave, UNCHANGED gatewayVars
    PROVE  CaptureInv'
<1>1. QueueRight(<<>>) /\ Queued(<<>>) = {} /\ Fresh(<<>>)
  BY TrackerAssumption DEF QueueRight, Unique, Queued, Fresh
<1>2. queue' = <<>> /\ drain' = NoDrain /\ page' = "gone"
  BY DEF Leave
<1>3. QueueRight(queue') /\ PassRight(drain', queue')
  BY <1>1, <1>2, NoDrainRight
<1>4. PageTypes'
  BY TrackerAssumption DEF Leave, CaptureInv, TrackerRight, PageTypes
<1>5. LedgerRight'
  BY <1>1, <1>2 DEF Leave, CaptureInv, TrackerRight, LedgerRight
<1>6. TrackerRight'
  BY <1>3, <1>4, <1>5 DEF TrackerRight
<1>7. \A j \in Ids : outcome'[j] = "accepted" => j \in topic
  BY DEF CaptureInv, Delivered, Leave
<1> QED
  BY <1>6, <1>7, TrackerStep DEF Leave

\* A token that comes too late touches nothing that counts.
LEMMA LateTokenSafe ==
    ASSUME CaptureInv, LateToken, UNCHANGED gatewayVars
    PROVE  CaptureInv'
<1>1. hung' \in 0 .. MaxHung
  BY TrackerAssumption DEF LateToken, CaptureInv, TrackerRight, PageTypes
<1>2. TrackerRight'
  BY <1>1 DEF LateToken, CaptureInv, TrackerRight, PageTypes, LedgerRight
<1>3. \A j \in Ids : outcome'[j] = "accepted" => j \in topic
  BY DEF CaptureInv, Delivered, LateToken
<1> QED
  BY <1>2, <1>3, TrackerStep DEF LateToken

\* A request carries the batch the pass tries, of events not reported yet.
LEMMA SendSafe ==
    ASSUME CaptureInv, SendRequest, UNCHANGED gatewayVars
    PROVE  CaptureInv'
<1>1. PICK n \in Requests :
         /\ exchange[n] = NoRequest
         /\ exchange' = [exchange EXCEPT ![n] =
                [NoRequest EXCEPT !.pc = "sent", !.awaited = TRUE, !.events = drain.batch]]
         /\ drain' = [drain EXCEPT !.pc = "response", !.request = {n}]
  BY DEF SendRequest
<1> DEFINE r == [NoRequest EXCEPT !.pc = "sent", !.awaited = TRUE, !.events = drain.batch]
           d == [drain EXCEPT !.pc = "response", !.request = {n}]
<1>2. /\ drain \in Drain /\ drain.pc = "token" /\ drain.request = {}
      /\ PassRight(drain, queue) /\ exchange \in [Requests -> Request]
  BY DEF SendRequest, CaptureInv, TrackerRight, PassRight, RequestsRight
<1>3. /\ d \in Drain /\ d.pc = "response" /\ d.request = {n} /\ d.batch = drain.batch
      /\ Trying(d) = Trying(drain)
  BY <1>2 DEF Drain, Trying
<1>4. RecordRight(r, topic, quarantine) /\ HeardRight(n, r, d)
  BY <1>2, <1>3 DEF RecordRight, HeardRight, NoRequest, Request, RequestPCs, Refused, Answer, Kinds, Drain
<1>5. exchange' = [exchange EXCEPT ![n] = r] /\ drain' = d
  BY <1>1
<1> HIDE DEF r, d
<1>6. TrackerRight'
  <2>1. PassRight(drain', queue')
    BY <1>2, <1>3, <1>5 DEF PassRight, SendRequest
  <2>2. LedgerRight'
    BY <1>2 DEF LedgerRight, CaptureInv, TrackerRight, SendRequest, NoDrain
  <2> QED
    BY <2>1, <2>2 DEF CaptureInv, TrackerRight, PageTypes, SendRequest
<1>7. RequestsRight'
  <2>1. r \in Request
    BY <1>4 DEF RecordRight
  <2>2. ASSUME NEW m \in Requests
        PROVE  RecordRight(exchange'[m], topic, quarantine) /\ HeardRight(m, exchange'[m], drain')
    <3>1. CASE m = n
      BY <1>2, <1>4, <1>5, <3>1
    <3>2. CASE m # n
      <4>1. exchange'[m] = exchange[m] /\ Unheard(exchange[m])
        BY <1>2, <1>5, <3>2, NobodyWaits
      <4> QED
        BY <4>1, UnheardRight DEF CaptureInv, RequestsRight
    <3> QED
      BY <3>1, <3>2
  <2> QED
    BY <1>2, <1>5, <2>1, <2>2 DEF RequestsRight, gatewayVars
<1>8. GatewayType' /\ Delivered'
  BY DEF CaptureInv, GatewayType, gatewayVars, Delivered, SendRequest
<1> QED
  BY <1>6, <1>7, <1>8 DEF CaptureInv

\* What a reply, or none, leads to.
LEMMA HandleSafe ==
    ASSUME CaptureInv, drain.pc \in {"token", "response"}, UNCHANGED gatewayVars,
           NEW settled, settled = [i \in DOMAIN settled |-> settled[i]],
           DOMAIN settled \subseteq drain.batch, \A i \in DOMAIN settled : settled[i] \in Statuses,
           \A i \in DOMAIN settled : settled[i] = "accepted" => i \in topic,
           NEW refresh \in BOOLEAN, Handle(settled, refresh),
           UNCHANGED <<page, closed, closing, tracked>>,
           forceRefresh' \in BOOLEAN, refused' \in BOOLEAN, hung' \in 0 .. MaxHung,
           \/ exchange' = exchange /\ drain.request = {}
           \/ StopListening
    PROVE  CaptureInv'
<1>1. TrackerRight /\ PageTypes
  BY DEF CaptureInv, TrackerRight
<1>2. /\ QueueRight(queue') /\ PassRight(drain', queue') /\ LedgerRight'
      /\ totals' \in [Statuses -> Nat] /\ outcome' \in [Ids -> Statuses \cup {"none"}]
      /\ \A i \in Ids : outcome'[i] = "accepted" =>
            outcome[i] = "accepted" \/ (i \in DOMAIN settled /\ settled[i] = "accepted")
  BY <1>1, HandleIs
<1>3. PageTypes'
  BY <1>1, <1>2 DEF PageTypes
<1>4. TrackerRight'
  BY <1>2, <1>3 DEF TrackerRight
<1>5. \A i \in Ids : outcome'[i] = "accepted" => i \in topic
  BY <1>2 DEF CaptureInv, Delivered
<1> QED
  BY <1>4, <1>5, TrackerStep

\* Without a reply nothing is settled.
LEMMA NothingIs ==
    /\ Nothing = [i \in DOMAIN Nothing |-> Nothing[i]]
    /\ DOMAIN Nothing = {}
BY DEF Nothing

\* No token, no request: the attempt is used up.
LEMMA NoTokenSafe ==
    ASSUME CaptureInv, NoToken, UNCHANGED gatewayVars
    PROVE  CaptureInv'
<1>1. /\ drain.pc = "token" /\ drain.request = {}
      /\ forceRefresh \in BOOLEAN /\ refused \in BOOLEAN /\ hung \in 0 .. MaxHung /\ MaxHung \in Nat
  BY TrackerAssumption DEF NoToken, CaptureInv, TrackerRight, PageTypes, PassRight
<1>2. hung' \in 0 .. MaxHung
  BY <1>1 DEF NoToken
<1> QED
  BY <1>1, <1>2, NothingIs, HandleSafe DEF NoToken

\* No reply: the request may still be on its way, and nobody listens to it.
LEMMA NoReplySafe ==
    ASSUME CaptureInv, NoReply, UNCHANGED gatewayVars
    PROVE  CaptureInv'
<1>1. forceRefresh \in BOOLEAN /\ refused \in BOOLEAN /\ hung \in 0 .. MaxHung
  BY DEF CaptureInv, TrackerRight, PageTypes
<1> QED
  BY <1>1, NothingIs, HandleSafe DEF NoReply

\* An answer is final only for events of the batch, and says of none more than is so.
LEMMA SettledIs ==
    ASSUME CaptureInv, NEW n \in drain.request, exchange[n].pc = "answered",
           NEW settled, settled = Settled(exchange[n].answer)
    PROVE  /\ settled = [i \in DOMAIN settled |-> settled[i]]
           /\ DOMAIN settled \subseteq drain.batch
           /\ \A i \in DOMAIN settled : settled[i] \in Statuses
           /\ \A i \in DOMAIN settled : settled[i] = "accepted" => i \in topic
<1> DEFINE answer == exchange[n].answer
<1>1. n \in Requests
  BY DEF CaptureInv, TrackerRight, PassRight, Drain
<1>2. /\ answer.accepted \cup answer.rejected \subseteq drain.batch
      /\ answer.accepted \subseteq topic
  BY <1>1 DEF CaptureInv, RequestsRight, RecordRight, HeardRight
<1> HIDE DEF answer
<1>3. settled = Settled(answer)
  BY DEF answer
<1>4. CASE answer.kind = "results"
  <2>1. settled = [i \in answer.accepted \cup answer.rejected |->
                     IF i \in answer.accepted THEN "accepted" ELSE "rejected"]
    BY <1>3, <1>4 DEF Settled
  <2> QED
    BY <1>2, <1>4, <2>1 DEF Statuses, answer
<1>5. CASE answer.kind = "permanent"
  <2>1. settled = [i \in drain.batch |-> "dropped"]
    BY <1>3, <1>5 DEF Settled
  <2> QED
    BY <2>1 DEF Statuses
<1>6. CASE answer.kind \notin {"results", "permanent"}
  <2>1. settled = Nothing
    BY <1>3, <1>6 DEF Settled
  <2> QED
    BY <2>1, <1>6 DEF answer, Nothing
<1> QED
  BY <1>4, <1>5, <1>6

\* A reply settles what it is final for.
LEMMA ReplySafe ==
    ASSUME CaptureInv, Reply, UNCHANGED gatewayVars
    PROVE  CaptureInv'
<1>1. PICK n \in drain.request :
         /\ exchange[n].pc = "answered"
         /\ forceRefresh' = (forceRefresh \/ exchange[n].answer.kind = "unauthorized")
         /\ refused' = (exchange[n].answer.kind = "unauthorized")
         /\ Handle(Settled(exchange[n].answer), forceRefresh \/ exchange[n].answer.kind = "unauthorized")
  BY DEF Reply
<1> DEFINE refresh == forceRefresh \/ exchange[n].answer.kind = "unauthorized"
<1>2. /\ forceRefresh' \in BOOLEAN /\ refused' \in BOOLEAN /\ refresh \in BOOLEAN
      /\ hung' \in 0 .. MaxHung
  BY <1>1 DEF Reply, CaptureInv, TrackerRight, PageTypes
<1> DEFINE settled == Settled(exchange[n].answer)
<1>3. /\ settled = [i \in DOMAIN settled |-> settled[i]]
      /\ DOMAIN settled \subseteq drain.batch
      /\ \A i \in DOMAIN settled : settled[i] \in Statuses
      /\ \A i \in DOMAIN settled : settled[i] = "accepted" => i \in topic
  <2> HIDE DEF settled
  <2>1. settled = Settled(exchange[n].answer)
    BY DEF settled
  <2> QED
    BY <1>1, <2>1, SettledIs
<1>4. Handle(settled, refresh) /\ drain.pc = "response" /\ StopListening
      /\ UNCHANGED <<page, closed, closing, tracked>>
  BY <1>1 DEF Reply
<1> HIDE DEF settled, refresh
<1> QED
  BY <1>2, <1>3, <1>4, HandleSafe

-----------------------------------------------------------------------------
(* The steps of the gateway.                                               *)

\* One request goes on, and the topics only grow.
LEMMA GatewayStep ==
    ASSUME CaptureInv, UNCHANGED trackerVars, GatewayType',
           topic \subseteq topic', quarantine \subseteq quarantine',
           NEW n \in Requests, NEW r, exchange' = [exchange EXCEPT ![n] = r],
           RecordRight(r, topic', quarantine'), HeardRight(n, r, drain)
    PROVE  CaptureInv'
<1>1. TrackerRight'
  BY DEF CaptureInv, TrackerRight, PageTypes, LedgerRight, trackerVars
<1>2. r \in Request /\ exchange \in [Requests -> Request]
  BY DEF RecordRight, CaptureInv, RequestsRight
<1>3. ASSUME NEW m \in Requests
      PROVE  RecordRight(exchange'[m], topic', quarantine') /\ HeardRight(m, exchange'[m], drain)
  <2>1. CASE m = n
    BY <1>2, <2>1
  <2>2. CASE m # n
    BY <1>2, <2>2 DEF CaptureInv, RequestsRight, RecordRight
  <2> QED
    BY <2>1, <2>2
<1>4. RequestsRight'
  BY <1>2, <1>3 DEF RequestsRight, trackerVars
<1>5. Delivered'
  BY DEF CaptureInv, Delivered, trackerVars
<1> QED
  BY <1>1, <1>4, <1>5 DEF CaptureInv

\* What the invariant says of one request.
LEMMA RequestIs ==
    ASSUME CaptureInv, NEW n \in Requests
    PROVE  /\ exchange[n] \in Request /\ exchange \in [Requests -> Request]
           /\ RecordRight(exchange[n], topic, quarantine) /\ HeardRight(n, exchange[n], drain)
BY DEF CaptureInv, RequestsRight

\* An answer that is about events of the request, and true.
LEMMA AnswerSafe ==
    ASSUME CaptureInv, UNCHANGED <<trackerVars, gatewayVars>>, NEW n \in Requests,
           exchange[n].pc \in {"sent", "open", "publishing"},
           NEW answer \in Answer, AnswerWith(n, answer),
           answer.accepted \cup answer.rejected \subseteq exchange[n].events,
           answer.accepted \cap answer.rejected = {},
           answer.accepted \subseteq topic, answer.persisted \subseteq quarantine
    PROVE  CaptureInv'
<1> DEFINE old == exchange[n]
           heard == [Over(old) EXCEPT !.pc = "answered", !.awaited = TRUE, !.answer = answer]
           r == IF old.awaited THEN heard ELSE Over(old)
<1>1. /\ old \in Request /\ RecordRight(old, topic, quarantine) /\ HeardRight(n, old, drain)
      /\ RecordRight(Over(old), topic, quarantine) /\ Unheard(Over(old))
  BY RequestIs, OverRight
<1>2. exchange' = [exchange EXCEPT ![n] = r]
  BY RequestIs DEF AnswerWith
<1>3. ASSUME old.awaited
      PROVE  RecordRight(heard, topic, quarantine) /\ HeardRight(n, heard, drain)
  <2>1. Over(old) \in Request /\ Over(old).stored = {} /\ Over(old).rejected \subseteq old.rejected
    BY <1>1 DEF RecordRight, Over, NoRequest, Request
  <2>2. /\ heard \in Request /\ heard.pc = "answered" /\ heard.awaited = TRUE /\ heard.answer = answer
        /\ heard.stored = {}
    BY <2>1 DEF Request, RequestPCs
  <2> HIDE DEF heard
  <2>3. RecordRight(heard, topic, quarantine)
    BY <2>2 DEF RecordRight
  <2>4. n \in drain.request /\ old.events = drain.batch
    BY <1>1, <1>3 DEF HeardRight
  <2> QED
    BY <2>2, <2>3, <2>4 DEF HeardRight
<1>4. RecordRight(r, topic, quarantine) /\ HeardRight(n, r, drain)
  BY <1>1, <1>3, UnheardRight
<1> HIDE DEF r
<1>5. GatewayType' /\ topic' = topic /\ quarantine' = quarantine
  BY DEF CaptureInv, GatewayType, gatewayVars
<1> QED
  BY <1>2, <1>4, <1>5, GatewayStep

\* A refusal, before the body is read or for the body, calls nothing accepted.
LEMMA TurnAwaySafe ==
    ASSUME CaptureInv, UNCHANGED trackerVars, NEW n \in Requests,
           NEW kind \in {"unauthorized", "permanent", "retry"}, TurnAway(n, kind) \/ RefuseBody(n, kind)
    PROVE  CaptureInv'
<1>1. /\ Refused(kind) \in Answer /\ Refused(kind).accepted = {} /\ Refused(kind).rejected = {}
      /\ Refused(kind).persisted = {}
  BY DEF Refused, Answer, Kinds
<1>2. /\ AnswerWith(n, Refused(kind)) /\ exchange[n].pc \in {"sent", "open", "publishing"}
      /\ UNCHANGED gatewayVars
  BY DEF TurnAway, RefuseBody
<1> QED
  BY <1>1, <1>2, AnswerSafe

\* Acknowledged is what is stored: the accepted are in the topic, the persisted in
\* quarantine.
LEMMA RespondSafe ==
    ASSUME CaptureInv, UNCHANGED trackerVars, NEW n \in Requests, Respond(n)
    PROVE  CaptureInv'
<1> DEFINE r == exchange[n]
<1>1. PICK acks \in Acknowledged(n) :
         AnswerWith(n, [kind |-> "results",
                        accepted |-> acks \ exchange[n].rejected,
                        rejected |-> exchange[n].rejected,
                        persisted |-> acks \cap exchange[n].rejected])
  BY DEF Respond
<1> DEFINE answer == [kind |-> "results", accepted |-> acks \ r.rejected,
                      rejected |-> r.rejected, persisted |-> acks \cap r.rejected]
<1>2. /\ r \in Request /\ r.pc = "publishing" /\ acks \subseteq r.stored
      /\ r.rejected \cup r.stored \subseteq r.events
      /\ r.stored \ r.rejected \subseteq topic /\ r.stored \cap r.rejected \subseteq quarantine
  BY RequestIs DEF Respond, Acknowledged, RecordRight
<1>3. /\ answer \in Answer /\ answer.accepted = acks \ r.rejected /\ answer.rejected = r.rejected
      /\ answer.persisted = acks \cap r.rejected
  BY <1>2 DEF Answer, Kinds, Request
<1>4. AnswerWith(n, answer) /\ UNCHANGED gatewayVars
  BY <1>1 DEF Respond
<1> HIDE DEF answer
<1> QED
  BY <1>2, <1>3, <1>4, AnswerSafe

\* Lost, admitted, validated.
LEMMA HandlingSafe ==
    ASSUME CaptureInv, UNCHANGED trackerVars, NEW n \in Requests, Lose(n) \/ Admit(n) \/ Validate(n)
    PROVE  CaptureInv'
<1> DEFINE old == exchange[n]
<1>1. old \in Request /\ RecordRight(old, topic, quarantine) /\ HeardRight(n, old, drain)
  BY RequestIs
<1>2. GatewayType' /\ topic' = topic /\ quarantine' = quarantine
  BY DEF CaptureInv, GatewayType, gatewayVars, Lose, Admit, Validate
<1>3. CASE Lose(n)
  <2>1. exchange' = [exchange EXCEPT ![n] = NoRequest]
    BY <1>3 DEF Lose
  <2> QED
    BY <1>2, <2>1, NoRequestRight, UnheardRight, GatewayStep
<1>4. CASE Admit(n)
  <2> DEFINE r == [old EXCEPT !.pc = "open"]
  <2>1. exchange' = [exchange EXCEPT ![n] = r] /\ old.pc = "sent"
    BY <1>4 DEF Admit
  <2>2. RecordRight(r, topic, quarantine) /\ HeardRight(n, r, drain)
    BY <1>1, <2>1 DEF RecordRight, HeardRight, Request, RequestPCs
  <2> HIDE DEF r
  <2> QED
    BY <1>2, <2>1, <2>2, GatewayStep
<1>5. CASE Validate(n)
  <2>1. PICK pending \in SUBSET old.events :
           exchange' = [exchange EXCEPT
               ![n].pc = "publishing",
               ![n].rejected = exchange[n].events \cap (Malformed \cup ahead),
               ![n].pending = pending]
    BY <1>5 DEF Validate
  <2> DEFINE r == [old EXCEPT !.pc = "publishing", !.rejected = old.events \cap (Malformed \cup ahead),
                              !.pending = pending]
  <2>2. exchange' = [exchange EXCEPT ![n] = r] /\ old.pc = "open"
    BY <1>5, <2>1, RequestIs DEF Validate
  <2>3. RecordRight(r, topic, quarantine) /\ HeardRight(n, r, drain)
    BY <1>1, <2>2 DEF RecordRight, HeardRight, Request, RequestPCs
  <2> HIDE DEF r
  <2> QED
    BY <1>2, <2>2, <2>3, GatewayStep
<1> QED
  BY <1>3, <1>4, <1>5

\* A record off the producer's hands changes nothing else of its request.
LEMMA WithoutIs ==
    ASSUME NEW r \in Request, NEW i
    PROVE  LET q == Without(r, i)
           IN  /\ q \in Request /\ q.pc = r.pc /\ q.awaited = r.awaited /\ q.events = r.events
               /\ q.stored = r.stored /\ q.answer = r.answer
               /\ q.pending \subseteq r.pending /\ q.rejected \subseteq r.rejected
               /\ r.pc = "publishing" => q.rejected = r.rejected
BY DEF Without, Request

\* The producer is done with a record, for a request under way or one long over.
LEMMA ProducerSafe ==
    ASSUME CaptureInv, UNCHANGED trackerVars, NEW n \in Requests, NEW i \in Ids,
           Store(n, i) \/ GiveUp(n, i)
    PROVE  CaptureInv'
<1> DEFINE old == exchange[n]
           q == Without(old, i)
<1>1. old \in Request /\ RecordRight(old, topic, quarantine) /\ HeardRight(n, old, drain) /\ i \in old.pending
  BY RequestIs DEF Store, GiveUp
<1>2. /\ q \in Request /\ q.pc = old.pc /\ q.awaited = old.awaited /\ q.events = old.events
      /\ q.stored = old.stored /\ q.answer = old.answer
      /\ q.pending \subseteq old.pending /\ q.rejected \subseteq old.rejected
      /\ old.pc = "publishing" => q.rejected = old.rejected
  BY <1>1, WithoutIs
<1>3. HeardRight(n, q, drain)
  BY <1>1, <1>2 DEF HeardRight
<1>4. ASSUME topic \subseteq topic', quarantine \subseteq quarantine'
      PROVE  RecordRight(q, topic', quarantine')
  BY <1>1, <1>2, <1>4 DEF RecordRight
<1> HIDE DEF q
<1>5. CASE GiveUp(n, i)
  <2>1. /\ exchange' = [exchange EXCEPT ![n] = q]
        /\ GatewayType' /\ topic' = topic /\ quarantine' = quarantine
    BY <1>5 DEF GiveUp, CaptureInv, GatewayType, gatewayVars, q
  <2> QED
    BY <1>3, <1>4, <2>1, GatewayStep
<1>6. CASE Store(n, i)
  <2> DEFINE s == [q EXCEPT !.stored = old.stored \cup {i}]
             r == IF old.pc = "publishing" THEN s ELSE q
  <2>1. exchange' = [exchange EXCEPT ![n] = r]
    BY <1>2, <1>6 DEF Store, q
  <2>2. /\ topic \subseteq topic' /\ quarantine \subseteq quarantine'
        /\ i \in old.rejected => i \in quarantine'
        /\ i \notin old.rejected => i \in topic'
    BY <1>6 DEF Store
  <2>3. GatewayType'
    BY <1>6 DEF Store, CaptureInv, GatewayType
  <2>4. ASSUME old.pc = "publishing"
        PROVE  RecordRight(s, topic', quarantine') /\ HeardRight(n, s, drain)
    <3>1. /\ s \in Request /\ s.pc = old.pc /\ s.awaited = old.awaited /\ s.events = old.events
          /\ s.stored = old.stored \cup {i} /\ s.answer = old.answer
          /\ s.pending \subseteq old.pending /\ s.rejected = old.rejected
      BY <1>1, <1>2, <2>4 DEF Request
    <3> HIDE DEF s
    <3> QED
      BY <1>1, <2>2, <2>4, <3>1 DEF RecordRight, HeardRight
  <2>5. RecordRight(r, topic', quarantine') /\ HeardRight(n, r, drain)
    BY <1>3, <1>4, <2>2, <2>4
  <2> HIDE DEF r
  <2> QED
    BY <2>1, <2>2, <2>3, <2>5, GatewayStep
<1> QED
  BY <1>5, <1>6

\* A restart loses what the gateway had in memory, and nothing a topic holds.
LEMMA CrashSafe ==
    ASSUME CaptureInv, UNCHANGED trackerVars, Crash
    PROVE  CaptureInv'
<1>1. TrackerRight' /\ Delivered'
  BY DEF CaptureInv, TrackerRight, PageTypes, LedgerRight, trackerVars, Delivered, Crash
<1>2. GatewayType' /\ topic' = topic /\ quarantine' = quarantine
  <2>1. /\ ahead \in SUBSET Ahead /\ topic \in SUBSET Ids /\ quarantine \in SUBSET Ids
        /\ crashes \in 0 .. MaxCrashes /\ MaxCrashes \in Nat
        /\ crashes < MaxCrashes /\ crashes' = crashes + 1 /\ UNCHANGED <<ahead, topic, quarantine>>
    BY GatewayAssumption DEF CaptureInv, GatewayType, Crash
  <2>2. crashes' \in 0 .. MaxCrashes
    BY <2>1
  <2> QED
    BY <2>1, <2>2 DEF GatewayType
<1>3. ASSUME NEW n \in Requests
      PROVE  /\ exchange'[n] \in Request /\ RecordRight(exchange'[n], topic, quarantine)
             /\ HeardRight(n, exchange'[n], drain)
  <2> DEFINE old == exchange[n]
             q == [old EXCEPT !.pending = {}, !.rejected = {}]
  <2>1. old \in Request /\ RecordRight(old, topic, quarantine) /\ HeardRight(n, old, drain)
    BY RequestIs
  <2>2. exchange'[n] = IF n \in Open THEN NoRequest ELSE q
    BY DEF Crash
  <2>3. CASE n \in Open
    BY <2>2, <2>3, NoRequestRight, UnheardRight DEF RecordRight
  <2>4. CASE n \notin Open
    <3>1. old.pc \notin {"open", "publishing"}
      BY <2>4 DEF Open
    <3>2. RecordRight(q, topic, quarantine) /\ HeardRight(n, q, drain)
      BY <2>1, <3>1 DEF RecordRight, HeardRight, Request
    <3> HIDE DEF q
    <3> QED
      BY <2>2, <2>4, <3>2 DEF RecordRight
  <2> QED
    BY <2>3, <2>4
<1>4. RequestsRight'
  <2>1. exchange' \in [Requests -> Request]
    BY <1>3 DEF Crash
  <2> QED
    BY <1>2, <1>3, <2>1 DEF RequestsRight, trackerVars
<1> QED
  BY <1>1, <1>2, <1>4 DEF CaptureInv

\* The clock reaches an event's time.
LEMMA CatchUpSafe ==
    ASSUME CaptureInv, UNCHANGED trackerVars, NEW i \in Ids, CatchUp(i)
    PROVE  CaptureInv'
<1>1. TrackerRight' /\ Delivered' /\ RequestsRight' /\ GatewayType'
  BY DEF CaptureInv, TrackerRight, PageTypes, LedgerRight, trackerVars, Delivered, CatchUp,
         RequestsRight, GatewayType
<1> QED
  BY <1>1 DEF CaptureInv

-----------------------------------------------------------------------------
(* What follows.                                                           *)

\* The first state.
LEMMA CaptureStart == Init => CaptureInv
<1> SUFFICES ASSUME Init
             PROVE  CaptureInv
  OBVIOUS
<1> USE DEF Init, ExchangeInit, TrackerInit, GatewayInit
<1>1. QueueRight(queue) /\ Queued(queue) = {} /\ Fresh(queue)
  BY TrackerAssumption DEF QueueRight, Unique, Queued, Fresh
<1>2. PageTypes
  <2>1. 0 \in 0 .. MaxHung
    BY TrackerAssumption
  <2>2. totals \in [Statuses -> Nat] /\ outcome \in [Ids -> Statuses \cup {"none"}]
    OBVIOUS
  <2> QED
    BY <2>1, <2>2 DEF PageTypes
<1>3. LedgerRight
  <2>1. \A s \in Statuses : {i \in Ids : outcome[i] = s} = {} /\ totals[s] = 0
    BY DEF Statuses
  <2> QED
    BY <1>1, <2>1, FS_EmptySet DEF LedgerRight
<1>4. TrackerRight
  BY <1>1, <1>2, <1>3, NoDrainRight DEF TrackerRight
<1>5. GatewayType /\ Delivered
  BY GatewayAssumption DEF GatewayType, Delivered
<1>6. RequestsRight
  <2>1. NoRequest \in Request
    BY NoRequestRight DEF RecordRight
  <2> QED
    BY <2>1, NoRequestRight, UnheardRight DEF RequestsRight
<1> QED
  BY <1>4, <1>5, <1>6 DEF CaptureInv

\* Every step keeps the invariant.
LEMMA CaptureStays ==
    ASSUME CaptureInv, [Next]_vars
    PROVE  CaptureInv'
<1>1. CASE TrackerNext /\ UNCHANGED gatewayVars
  BY <1>1, TrackSafe, FlushSafe, CloseSafe, LeaveSafe, SendSafe, NoTokenSafe, LateTokenSafe, NoReplySafe,
     ReplySafe, WakeSafe DEF TrackerNext
<1>2. CASE GatewayNext /\ UNCHANGED trackerVars
  BY <1>2, TurnAwaySafe, HandlingSafe, ProducerSafe, RespondSafe, CrashSafe, CatchUpSafe DEF GatewayNext
<1>3. CASE UNCHANGED vars
  BY <1>3 DEF vars, trackerVars, gatewayVars, CaptureInv, TrackerRight, PageTypes, LedgerRight, GatewayType,
         RequestsRight, Delivered
<1> QED
  BY <1>1, <1>2, <1>3 DEF Next

\* The invariant behind the others: queue, pass and reports agree; the request a pass
\* waits for carries its batch, and so does the answer to it; what a request has stored
\* is in a topic, and what any answer or report calls accepted is too.
THEOREM CaptureInvariant == Spec => []CaptureInv
BY CaptureStart, CaptureStays, PTL DEF Spec

\* Type correctness: no event is tried more often than maxAttempts, and the buffer keeps
\* its bound.
THEOREM CaptureTypeCorrect == Spec => []TypeOK
<1>1. CaptureInv => TypeOK
  BY DEF CaptureInv, TrackerRight, PageTypes, QueueRight, PassRight, Drain, RequestsRight, TypeOK,
         ExchangeType, TrackerType
<1> QED
  BY <1>1, CaptureInvariant, PTL

\* Every event track took is still queued or was reported once, with one status, while
\* the page lives, and the totals count just that, whatever is lost, late or repeated.
THEOREM EventsOnce == Spec => []EachEventOnce
<1>1. CaptureInv => EachEventOnce
  BY DEF CaptureInv, TrackerRight, QueueRight, Unique, LedgerRight, EachEventOnce
<1> QED
  BY <1>1, CaptureInvariant, PTL

\* What the tracker reports as accepted is in the topic; what an answer calls accepted
\* or persisted is where it says.
THEOREM AcceptedAreDelivered == Spec => []AcceptedIsDelivered
<1>1. CaptureInv => AcceptedIsDelivered
  BY DEF CaptureInv, Delivered, RequestsRight, RecordRight, AcceptedIsDelivered
<1> QED
  BY <1>1, CaptureInvariant, PTL

\* A request that goes out carries queued events nobody has reported yet, each with an
\* attempt charged for it: partial retries leave out what an answer was final for.
THEOREM ReportedAreNotResent == Spec => ReportedIsNotResent
<1> DEFINE Fits(i) == /\ outcome[i] = "none"
                      /\ \E k \in DOMAIN queue : queue[k].id = i /\ queue[k].attempts > 0
           Sent(n) == exchange'[n].pc = "sent" /\ exchange[n].pc # "sent"
           Sound == \A n \in Requests : Sent(n) => \A i \in exchange'[n].events : Fits(i)
<1>1. ASSUME CaptureInv, Next
      PROVE  Sound
  <2>1. CASE SendRequest
    <3>1. PICK m \in Requests :
             exchange' = [exchange EXCEPT ![m] =
                [NoRequest EXCEPT !.pc = "sent", !.awaited = TRUE, !.events = drain.batch]]
      BY <2>1 DEF SendRequest
    <3>2. \A n \in Requests : Sent(n) => exchange'[n].events = drain.batch
      BY <1>1, <3>1, RequestIs DEF NoRequest
    <3>3. \A i \in drain.batch : Fits(i)
      <4>1. /\ drain.batch \subseteq Queued(queue)
            /\ \A k \in DOMAIN queue : queue[k].id \in drain.batch => queue[k].attempts > 0
            /\ \A i \in Queued(queue) : outcome[i] = "none"
        BY <1>1, <2>1 DEF SendRequest, CaptureInv, TrackerRight, PassRight, Trying, LedgerRight
      <4> QED
        BY <4>1 DEF Queued
    <3> QED
      BY <3>2, <3>3
  <2>2. CASE ~SendRequest
    <3> SUFFICES ASSUME NEW n \in Requests
                 PROVE  ~Sent(n)
      OBVIOUS
    <3>1. exchange[n] \in Request /\ exchange \in [Requests -> Request]
      BY <1>1, RequestIs
    <3>2. ASSUME exchange' = exchange
          PROVE  ~Sent(n)
      BY <3>2
    <3>3. ASSUME NEW m \in Requests, NEW r, exchange' = [exchange EXCEPT ![m] = r],
                 r.pc # "sent" \/ exchange[m].pc = "sent"
          PROVE  ~Sent(n)
      BY <3>1, <3>3
    <3>4. ASSUME StopListening
          PROVE  ~Sent(n)
      BY <3>1, <3>4 DEF StopListening, GivenUp, Over, NoRequest, Request
    <3>5. CASE TrackerNext
      BY <2>2, <3>2, <3>4, <3>5
         DEF TrackerNext, Track, Flush, Close, Leave, NoToken, LateToken, NoReply, Reply, Wake
    <3>6. ASSUME NEW m \in Requests, NEW answer, AnswerWith(m, answer)
          PROVE  ~Sent(n)
      <4> DEFINE r == IF exchange[m].awaited
                      THEN [Over(exchange[m]) EXCEPT !.pc = "answered", !.awaited = TRUE, !.answer = answer]
                      ELSE Over(exchange[m])
      <4>1. exchange' = [exchange EXCEPT ![m] = r]
        BY <3>6 DEF AnswerWith
      <4>2. r.pc # "sent"
        BY DEF Over, NoRequest
      <4> QED
        BY <3>3, <4>1, <4>2
    <3>7. CASE GatewayNext
      <4>1. ASSUME NEW m \in Requests, Lose(m) \/ Admit(m) \/ Validate(m)
            PROVE  ~Sent(n)
        BY <3>1, <4>1 DEF Lose, Admit, Validate, NoRequest, Request
      <4>2. ASSUME NEW m \in Requests, NEW i \in Ids, Store(m, i) \/ GiveUp(m, i)
            PROVE  ~Sent(n)
        <5>1. exchange[m] \in Request /\ Without(exchange[m], i).pc = exchange[m].pc
              /\ Without(exchange[m], i) \in Request
          BY <1>1, RequestIs, WithoutIs
        <5> QED
          BY <3>1, <4>2, <5>1 DEF Store, GiveUp, Request
      <4>3. CASE Crash
        BY <3>1, <4>3 DEF Crash, NoRequest, Request
      <4>4. ASSUME NEW i \in Ids, CatchUp(i)
            PROVE  ~Sent(n)
        BY <3>2, <4>4 DEF CatchUp
      <4> QED
        BY <3>6, <3>7, <4>1, <4>2, <4>3, <4>4 DEF GatewayNext, TurnAway, RefuseBody, Respond
    <3> QED
      BY <1>1, <3>5, <3>7 DEF Next
  <2> QED
    BY <2>1, <2>2
<1>2. CaptureInv /\ [Next]_vars => [Sound]_vars
  BY <1>1
<1> QED
  BY <1>2, CaptureInvariant, PTL DEF Spec, ReportedIsNotResent
=============================================================================
