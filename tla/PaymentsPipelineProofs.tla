------------------------ MODULE PaymentsPipelineProofs ------------------------
(***************************************************************************)
(* What holds of PaymentsPipeline for every set of partitions and events,  *)
(* every window and delay, and every number of restarts and repairs.       *)
(***************************************************************************)
EXTENDS PaymentsPipeline, FiniteSetTheorems, TLAPS

-----------------------------------------------------------------------------
(* Types.                                                                  *)

\* A restart is pending only while the strategy has attempts left.
RestartIsAllowed == job = "restarting" => attempts < RestartAttempts

\* No split is read beyond its end, nor was it when a checkpoint was taken.
InsideLog ==
    \A p \in Partitions : position[p] <= Len(log[p]) /\ checkpoint.position[p] <= Len(log[p])

TInv == TypeOK /\ RestartIsAllowed /\ InsideLog

\* Groups are finite, and so is any part of one: their counts are numbers.
LEMMA PartOfGroup ==
    ASSUME NEW k \in Keys, NEW S \in SUBSET Group(k)
    PROVE  IsFiniteSet(S) /\ Cardinality(S) \in Nat
<1>1. IsFiniteSet(Group(k))
  BY PipelineAssumption, FS_Subset DEF Group
<1> QED
  BY <1>1, FS_Subset, FS_CardinalityType

\* A part of a part counts no more.
LEMMA PartIsSmaller ==
    ASSUME NEW k \in Keys, NEW S \in SUBSET Group(k), NEW T \in SUBSET S
    PROVE  Cardinality(T) \in Nat /\ Cardinality(S) \in Nat /\ Cardinality(T) <= Cardinality(S)
<1>1. IsFiniteSet(S) /\ IsFiniteSet(T)
  BY PartOfGroup
<1> QED
  BY <1>1, PartOfGroup, FS_Subset

\* The empty snapshot, log and tables are well typed.
LEMMA InitTInv == Init => TInv
<1> SUFFICES ASSUME Init PROVE TInv
  OBVIOUS
<1>1. TypeOK
  BY PipelineAssumption DEF Init, TypeOK, Start, NothingPending
<1>2. RestartIsAllowed /\ InsideLog
  BY PipelineAssumption DEF Init, RestartIsAllowed, InsideLog, Start
<1> QED
  BY <1>1, <1>2 DEF TInv

\* Every step keeps the types, the attempts and the offsets within bounds.
LEMMA NextTInv == TInv /\ [Next]_vars => TInv'
<1> SUFFICES ASSUME TInv, [Next]_vars PROVE TInv'
  OBVIOUS
<1> USE DEF TInv, TypeOK, RestartIsAllowed, InsideLog, state, tables, repair
<1>1. ASSUME NEW p \in Partitions, NEW r \in Record, Publish(p, r) PROVE TInv'
  <2>1. /\ log' \in [Partitions -> Seq(Record)]
        /\ \A q \in Partitions : Len(log'[q]) <= MaxLog /\ Len(log[q]) <= Len(log'[q])
    <3>1. Append(log[p], r) \in Seq(Record) /\ Len(Append(log[p], r)) = Len(log[p]) + 1
      OBVIOUS
    <3> QED
      BY <1>1, <3>1, PipelineAssumption DEF Publish
  <2>2. \A q \in Partitions : Len(log[q]) \in Nat /\ Len(log'[q]) \in Nat
    BY <2>1
  <2> QED
    BY <1>1, <2>1, <2>2 DEF Publish
<1>2. ASSUME NEW p \in Partitions, Read(p) PROVE TInv'
  <2> DEFINE r == log[p][position[p] + 1]
  <2>1. /\ Len(log[p]) \in Nat /\ Len(log[p]) <= MaxLog
        /\ position[p] \in Nat /\ position[p] < Len(log[p])
    BY <1>2 DEF Read
  <2>2. r \in Record
    BY <2>1
  <2>3. Timestamp(r) \in Nat /\ r.event \in Events /\ r.valid \in BOOLEAN
    BY <2>2, PipelineAssumption DEF Timestamp, Record
  <2>4. <<p, position[p]>> \in Coordinates
    BY <2>1, PipelineAssumption DEF Coordinates
  <2>5. seen' \in [Partitions -> Nat]
    BY <1>2, <2>3 DEF Read
  <2>6. arrived' \in [Events -> Nat]
    BY <1>2, <2>3 DEF Read
  <2>7. pending' \in [audit: SUBSET Events, dead: SUBSET Coordinates, rows: [Keys -> Nat]]
    BY <1>2, <2>3, <2>4 DEF Read
  <2>8. /\ position' \in [Partitions -> 0 .. MaxLog]
        /\ \A q \in Partitions : position'[q] <= Len(log[q])
    <3>1. position[p] + 1 \in 0 .. MaxLog /\ position[p] + 1 <= Len(log[p])
      BY <2>1, PipelineAssumption
    <3>2. position' = [position EXCEPT ![p] = @ + 1]
      BY <1>2 DEF Read
    <3> QED
      BY <3>1, <3>2
  <2> QED
    BY <1>2, <2>5, <2>6, <2>7, <2>8 DEF Read
<1>3. ASSUME NEW p \in Partitions, Advance(p) PROVE TInv'
  <2>1. \A k \in Keys : Count(k) \in Nat
    BY PartOfGroup DEF Count
  <2>2. watermark' \in Int
    BY <1>3, PipelineAssumption DEF Advance
  <2>3. arrived' \in [Events -> Nat]
    BY <1>3 DEF Advance
  <2>4. pending' \in [audit: SUBSET Events, dead: SUBSET Coordinates, rows: [Keys -> Nat]]
    BY <1>3, <2>1 DEF Advance
  <2> QED
    BY <1>3, <2>2, <2>3, <2>4 DEF Advance
<1>4. ASSUME FlushAudit \/ FlushDead PROVE TInv'
  BY <1>4 DEF FlushAudit, FlushDead
<1>5. ASSUME NEW table, FlushRows(table) PROVE TInv'
  BY <1>5 DEF FlushRows, Upserted
<1>6. CASE Checkpoint
  BY <1>6 DEF Checkpoint
<1>7. CASE Fail \/ Cancel
  BY <1>7, PipelineAssumption DEF Fail, Cancel, Lose, AfterFailure, NothingPending
<1>8. CASE Restart
  <2>1. attempts' \in 0 .. RestartAttempts
    BY <1>8, PipelineAssumption DEF Restart
  <2> QED
    BY <1>8, <2>1 DEF Restart, Resume
<1>9. ASSUME NEW restore \in BOOLEAN, Resubmit(restore) PROVE TInv'
  <2> DEFINE snapshot == IF restore THEN checkpoint ELSE Start
  <2>1. /\ snapshot \in [position: [Partitions -> 0 .. MaxLog], watermark: Int, arrived: [Events -> Nat]]
        /\ \A p \in Partitions : snapshot.position[p] <= Len(log[p])
    BY PipelineAssumption DEF Start
  <2>2. attempts' \in 0 .. RestartAttempts
    BY <1>9, PipelineAssumption DEF Resubmit
  <2> HIDE DEF snapshot
  <2>3. Resume(snapshot) /\ checkpoint' = snapshot
    BY <1>9 DEF Resubmit, snapshot
  <2> QED
    BY <1>9, <2>1, <2>2, <2>3 DEF Resubmit, Resume
<1>10. ASSUME NEW from \in Boundaries, NEW until \in Boundaries, Reconcile(from, until) PROVE TInv'
  <2>1. rows' \in [Keys -> Nat]
    BY <1>10, PartOfGroup DEF Reconcile
  <2>2. repairs' \in 0 .. MaxRepairs /\ repaired' \in SUBSET Windows
    BY <1>10, PipelineAssumption DEF Reconcile
  <2> QED
    BY <1>10, <2>1, <2>2 DEF Reconcile
<1>11. CASE UNCHANGED vars
  BY <1>11 DEF vars
<1> QED
  BY <1>1, <1>2, <1>3, <1>4, <1>5, <1>6, <1>7, <1>8, <1>9, <1>10, <1>11 DEF Next, Step

\* Types, for every size of the log and every number of restarts: the offsets
\* and attempts stay within bounds, only records that exist are dead-lettered.
THEOREM TypeCorrect == Spec => []TypeOK
<1>1. Spec => []TInv
  BY InitTInv, NextTInv, PTL DEF Spec
<1>2. TInv => TypeOK
  BY DEF TInv
<1> QED
  BY <1>1, <1>2, PTL

-----------------------------------------------------------------------------
(* Routing.                                                                *)

\* A running job has routed what it has read, or holds it in its sinks' buffers.
RoutedOrPending(p, i) ==
    LET r == log[p][i]
    IN  IF r.valid THEN r.event \in audit \cup pending.audit
        ELSE <<p, i - 1>> \in dead \cup pending.dead

RunningKeepsTrack ==
    job = "running" => \A p \in Partitions : \A i \in 1 .. position[p] : RoutedOrPending(p, i)

RInv == TInv /\ RunningKeepsTrack /\ CheckpointedIsRouted

\* What the steps of a running job preserve: records stay where they are and
\* nothing leaves a buffer but for its sink.
LEMMA StaysRouted ==
    ASSUME TInv, TInv', RInv,
           \A p \in Partitions : \A i \in 1 .. Len(log[p]) :
               log'[p][i] = log[p][i] /\ i <= Len(log'[p]),
           audit \subseteq audit', dead \subseteq dead',
           checkpoint' = checkpoint
    PROVE  CheckpointedIsRouted'
<1> SUFFICES ASSUME NEW p \in Partitions, NEW i \in 1 .. checkpoint.position[p]
             PROVE  i <= Len(log'[p]) /\ Routed(p, i)'
  BY DEF CheckpointedIsRouted
<1>1. i <= Len(log[p]) /\ Routed(p, i)
  BY DEF RInv, CheckpointedIsRouted
<1>2. i \in 1 .. Len(log[p])
  BY <1>1 DEF TInv, TypeOK
<1> QED
  BY <1>1, <1>2 DEF Routed

\* Resuming from a snapshot that the tables cover starts with empty hands.
LEMMA ResumeKeepsTrack ==
    ASSUME TInv, NEW snapshot, Resume(snapshot), UNCHANGED <<log, tables, pending>>,
           \A p \in Partitions : \A i \in 1 .. snapshot.position[p] : Routed(p, i)
    PROVE  RunningKeepsTrack'
<1> SUFFICES ASSUME NEW p \in Partitions, NEW i \in 1 .. snapshot.position[p]
             PROVE  RoutedOrPending(p, i)'
  BY DEF RunningKeepsTrack, Resume
<1> QED
  BY DEF Routed, RoutedOrPending, tables

\* Every step keeps what a running job knows, and a checkpoint makes it durable.
LEMMA NextRInv == RInv /\ [Next]_vars => RInv'
<1> SUFFICES ASSUME RInv, [Next]_vars PROVE RInv'
  OBVIOUS
<1>0. TInv /\ TInv'
  BY NextTInv DEF RInv
<1> USE DEF state, tables, repair
<1>a. \A p \in Partitions : log[p] \in Seq(Record) /\ Len(log[p]) \in Nat /\ position[p] \in Nat
                           /\ position[p] <= Len(log[p]) /\ checkpoint.position[p] \in Nat
  BY <1>0, PipelineAssumption DEF TInv, TypeOK, InsideLog
<1>1. ASSUME NEW p \in Partitions, NEW r \in Record, Publish(p, r) PROVE RInv'
  <2>1. \A q \in Partitions : \A i \in 1 .. Len(log[q]) : log'[q][i] = log[q][i] /\ i <= Len(log'[q])
    BY <1>1, <1>a, <1>0 DEF Publish, TInv, TypeOK
  <2>2. CheckpointedIsRouted'
    BY <1>0, <1>1, <2>1, StaysRouted DEF Publish
  <2>3. RunningKeepsTrack'
    <3> SUFFICES ASSUME job = "running", NEW q \in Partitions, NEW i \in 1 .. position[q]
                 PROVE  RoutedOrPending(q, i)'
      BY <1>1 DEF Publish, RunningKeepsTrack
    <3>1. RoutedOrPending(q, i)
      BY DEF RInv, RunningKeepsTrack
    <3>2. log'[q][i] = log[q][i]
      BY <1>a, <2>1
    <3> QED
      BY <1>1, <3>1, <3>2 DEF Publish, RoutedOrPending
  <2> QED
    BY <1>0, <2>2, <2>3 DEF RInv
<1>2. ASSUME NEW p \in Partitions, Read(p) PROVE RInv'
  <2> DEFINE r == log[p][position[p] + 1]
  <2>1. CheckpointedIsRouted'
    BY <1>0, <1>2, <1>a, StaysRouted DEF Read
  <2>2. SUFFICES ASSUME NEW q \in Partitions, NEW i \in 1 .. position'[q]
                 PROVE  RoutedOrPending(q, i)'
    BY <1>0, <2>1 DEF RInv, RunningKeepsTrack
  <2>3. CASE i \in 1 .. position[q]
    <3>1. RoutedOrPending(q, i)
      BY <2>3, <1>2 DEF RInv, RunningKeepsTrack, Read
    <3>2. pending.audit \subseteq pending'.audit /\ pending.dead \subseteq pending'.dead
      BY <1>2, <1>0 DEF Read, TInv, TypeOK
    <3> QED
      BY <1>2, <3>1, <3>2 DEF RoutedOrPending, Read
  <2>4. CASE q = p /\ i = position[p] + 1
    <3>1. IF r.valid THEN r.event \in pending'.audit ELSE <<p, position[p]>> \in pending'.dead
      BY <1>2, <1>0 DEF Read, TInv, TypeOK
    <3>2. i - 1 = position[p]
      BY <2>4, <1>a
    <3> QED
      BY <1>2, <2>4, <3>1, <3>2 DEF RoutedOrPending, Read
  <2>5. i \in 1 .. position[q] \/ (q = p /\ i = position[p] + 1)
    BY <1>2, <1>0, <1>a DEF Read, TInv, TypeOK
  <2> QED
    BY <2>3, <2>4, <2>5
<1>3. ASSUME NEW p \in Partitions, Advance(p) PROVE RInv'
  <2>1. pending'.audit = pending.audit /\ pending'.dead = pending.dead
    BY <1>3, <1>0 DEF Advance, TInv, TypeOK
  <2>2. CheckpointedIsRouted'
    BY <1>0, <1>3, <1>a, StaysRouted DEF Advance
  <2> QED
    BY <1>0, <1>3, <2>1, <2>2 DEF Advance, RInv, RunningKeepsTrack, RoutedOrPending
<1>4. ASSUME FlushAudit \/ FlushDead \/ (\E table \in {"payments", "activity"} : FlushRows(table))
      PROVE  RInv'
  <2>1. /\ audit \cup pending.audit \subseteq audit' \cup pending'.audit
        /\ dead \cup pending.dead \subseteq dead' \cup pending'.dead
        /\ audit \subseteq audit' /\ dead \subseteq dead'
        /\ UNCHANGED <<log, job, position, checkpoint>>
    BY <1>4, <1>0 DEF FlushAudit, FlushDead, FlushRows, TInv, TypeOK
  <2>2. CheckpointedIsRouted'
    BY <1>0, <2>1, <1>a, StaysRouted
  <2>3. RunningKeepsTrack'
    BY <2>1 DEF RInv, RunningKeepsTrack, RoutedOrPending
  <2> QED
    BY <1>0, <2>2, <2>3 DEF RInv
<1>5. CASE Checkpoint
  <2>1. \A p \in Partitions : \A i \in 1 .. position[p] : Routed(p, i)
    BY <1>5 DEF Checkpoint, Flushed, NothingPending, RInv, RunningKeepsTrack, RoutedOrPending, Routed
  <2>2. CheckpointedIsRouted'
    <3> SUFFICES ASSUME NEW p \in Partitions, NEW i \in 1 .. position[p]
                 PROVE  i <= Len(log[p]) /\ Routed(p, i)
      BY <1>5 DEF Checkpoint, CheckpointedIsRouted, Routed
    <3> QED
      BY <2>1, <1>a
  <2>3. RunningKeepsTrack'
    BY <1>5 DEF Checkpoint, RInv, RunningKeepsTrack, RoutedOrPending
  <2> QED
    BY <1>0, <2>2, <2>3 DEF RInv
<1>6. CASE Fail \/ Cancel
  <2>1. CheckpointedIsRouted'
    BY <1>0, <1>6, <1>a, StaysRouted DEF Fail, Cancel, Lose
  <2>2. job' # "running"
    BY <1>6 DEF Fail, Cancel, Lose, AfterFailure
  <2> QED
    BY <1>0, <2>1, <2>2 DEF RInv, RunningKeepsTrack
<1>7. CASE Restart
  <2>1. CheckpointedIsRouted'
    BY <1>0, <1>7, <1>a, StaysRouted DEF Restart
  <2>2. RunningKeepsTrack'
    BY <1>0, <1>7, ResumeKeepsTrack DEF Restart, RInv, CheckpointedIsRouted
  <2> QED
    BY <1>0, <2>1, <2>2 DEF RInv
<1>8. ASSUME NEW restore \in BOOLEAN, Resubmit(restore) PROVE RInv'
  <2> DEFINE snapshot == IF restore THEN checkpoint ELSE Start
  <2>1. \A p \in Partitions : \A i \in 1 .. snapshot.position[p] : i <= Len(log[p]) /\ Routed(p, i)
    BY DEF RInv, CheckpointedIsRouted, Start
  <2>2. Resume(snapshot) /\ checkpoint' = snapshot /\ UNCHANGED <<log, tables, pending>>
    BY <1>8 DEF Resubmit
  <2> HIDE DEF snapshot
  <2>3. CheckpointedIsRouted'
    BY <2>1, <2>2 DEF CheckpointedIsRouted, Routed
  <2>4. RunningKeepsTrack'
    BY <1>0, <2>1, <2>2, ResumeKeepsTrack
  <2> QED
    BY <1>0, <2>3, <2>4 DEF RInv
<1>9. ASSUME NEW from \in Boundaries, NEW until \in Boundaries, Reconcile(from, until) PROVE RInv'
  <2>1. CheckpointedIsRouted'
    BY <1>0, <1>9, <1>a, StaysRouted DEF Reconcile
  <2> QED
    BY <1>0, <1>9, <2>1 DEF Reconcile, RInv, RunningKeepsTrack
<1>10. CASE UNCHANGED vars
  <2>1. CheckpointedIsRouted'
    BY <1>0, <1>10, <1>a, StaysRouted DEF vars
  <2> QED
    BY <1>0, <1>10, <2>1 DEF vars, RInv, RunningKeepsTrack, RoutedOrPending
<1> QED
  BY <1>1, <1>2, <1>3, <1>4, <1>5, <1>6, <1>7, <1>8, <1>9, <1>10 DEF Next, Step

\* "Exhaustive valid/invalid routing", across failures: what a completed
\* checkpoint of the job has left behind is in the audit table if it is valid
\* and in the dead-letter topic if it is not, and stays there.
THEOREM CheckpointRouted == Spec => []CheckpointedIsRouted
<1>1. Init => RInv
  BY InitTInv DEF RInv, Init, RunningKeepsTrack, CheckpointedIsRouted, Start
<1>2. Spec => []RInv
  BY <1>1, NextRInv, PTL DEF Spec
<1>3. RInv => CheckpointedIsRouted
  BY DEF RInv
<1> QED
  BY <1>2, <1>3, PTL

-----------------------------------------------------------------------------
(* Counting.                                                               *)

Published(k) == {e \in Group(k) : Valid(e)}

\* Only published events are in a window, in a checkpoint or in the audit.
OnlyPublished ==
    /\ \A e \in Events : arrived[e] > 0 \/ checkpoint.arrived[e] > 0 => Valid(e)
    /\ \A e \in audit \cup pending.audit : Valid(e)

\* No row, written or buffered, counts more than was published.
PendingCountsDistinct == \A k \in Keys : pending.rows[k] <= Cardinality(Published(k))

CInv == TInv /\ OnlyPublished /\ PendingCountsDistinct /\ RowsCountDistinctEvents

\* Kafka keeps its records where they are: logs only grow.
LEMMA LogGrows ==
    ASSUME TInv, [Next]_vars
    PROVE  \A p \in Partitions : \A i \in 1 .. Len(log[p]) :
               log'[p][i] = log[p][i] /\ i \in 1 .. Len(log'[p])
<1>1. CASE \E p \in Partitions, r \in Record : Publish(p, r)
  BY <1>1 DEF Publish, TInv, TypeOK
<1>2. CASE UNCHANGED log
  BY <1>2
<1> QED
  BY <1>1, <1>2 DEF Next, Step, Read, Advance, FlushAudit, FlushDead, FlushRows, Checkpoint,
                    Fail, Cancel, Lose, Restart, Resubmit, Reconcile, vars

\* What is published stays published, and the counts it allows only grow.
LEMMA PublishedGrows ==
    ASSUME TInv, [Next]_vars
    PROVE  /\ \A e \in Events : Valid(e) => Valid(e)'
           /\ \A k \in Keys : /\ Cardinality(Published(k)) \in Nat /\ Cardinality(Published(k))' \in Nat
                              /\ Cardinality(Published(k)) <= Cardinality(Published(k))'
<1>1. \A p \in Partitions : \A i \in 1 .. Len(log[p]) : log'[p][i] = log[p][i] /\ i \in 1 .. Len(log'[p])
  BY LogGrows
<1>2. \A e \in Events : Valid(e) => Valid(e)'
  BY <1>1 DEF Valid
<1>3. ASSUME NEW k \in Keys
      PROVE  /\ Cardinality(Published(k)) \in Nat /\ Cardinality(Published(k))' \in Nat
             /\ Cardinality(Published(k)) <= Cardinality(Published(k))'
  <2> DEFINE S == Published(k)
             T == {e \in Group(k) : Valid(e)'}
  <2>1. T \in SUBSET Group(k) /\ S \in SUBSET T
    BY <1>2 DEF Published, Group
  <2>2. Published(k)' = T
    BY DEF Published, Group
  <2> HIDE DEF S, T
  <2>3. Cardinality(S) \in Nat /\ Cardinality(T) \in Nat /\ Cardinality(S) <= Cardinality(T)
    BY <2>1, PartIsSmaller
  <2> QED
    BY <2>2, <2>3 DEF S
<1> QED
  BY <1>2, <1>3

\* A count of published events of a group is within bounds.
LEMMA CountIsBounded ==
    ASSUME NEW k \in Keys, NEW S \in SUBSET Published(k)
    PROVE  Cardinality(S) <= Cardinality(Published(k))
BY PartIsSmaller DEF Published

\* Steps that put nothing new into windows, audit or rows.
LEMMA CountsStay ==
    ASSUME CInv, TInv', [Next]_vars,
           \A e \in Events : arrived'[e] > 0 \/ checkpoint'.arrived[e] > 0
                                 => arrived[e] > 0 \/ checkpoint.arrived[e] > 0,
           audit' \cup pending'.audit \subseteq audit \cup pending.audit,
           \A k \in Keys : /\ pending'.rows[k] \in {0, pending.rows[k]}
                           /\ rows'[k] \in {rows[k], pending.rows[k]}
    PROVE  CInv'
<1>1. /\ \A e \in Events : Valid(e) => Valid(e)'
      /\ \A k \in Keys : /\ Cardinality(Published(k)) \in Nat /\ Cardinality(Published(k))' \in Nat
                         /\ Cardinality(Published(k)) <= Cardinality(Published(k))'
  BY PublishedGrows DEF CInv
<1>2. OnlyPublished'
  <2>1. audit \cup pending.audit \subseteq Events
    BY DEF CInv, TInv, TypeOK
  <2> QED
    BY <1>1, <2>1 DEF CInv, OnlyPublished
<1>3. ASSUME NEW k \in Keys
      PROVE  pending'.rows[k] <= Cardinality(Published(k))' /\ rows'[k] <= Cardinality(Published(k))'
  <2>1. pending.rows[k] \in Nat /\ rows[k] \in Nat
    BY DEF CInv, TInv, TypeOK
  <2>2. pending.rows[k] <= Cardinality(Published(k)) /\ rows[k] <= Cardinality(Published(k))
    BY DEF CInv, PendingCountsDistinct, RowsCountDistinctEvents, Published
  <2>3. pending'.rows[k] \in {0, pending.rows[k]} /\ rows'[k] \in {rows[k], pending.rows[k]}
    OBVIOUS
  <2> QED
    BY <1>1, <2>1, <2>2, <2>3
<1> QED
  BY <1>2, <1>3 DEF CInv, PendingCountsDistinct, RowsCountDistinctEvents, Published, Group

\* Every step counts published events, each once.
LEMMA NextCInv == CInv /\ [Next]_vars => CInv'
<1> SUFFICES ASSUME CInv, [Next]_vars PROVE CInv'
  OBVIOUS
<1>0. TInv /\ TInv'
  BY NextTInv DEF CInv
<1>a. /\ \A e \in Events : Valid(e) => Valid(e)'
      /\ \A k \in Keys : /\ Cardinality(Published(k)) \in Nat /\ Cardinality(Published(k))' \in Nat
                         /\ Cardinality(Published(k)) <= Cardinality(Published(k))'
  BY PublishedGrows, <1>0
<1> USE DEF state, tables, repair
<1>1. ASSUME NEW p \in Partitions, NEW r \in Record, Publish(p, r) PROVE CInv'
  BY <1>0, <1>1, CountsStay DEF Publish
<1>2. ASSUME NEW p \in Partitions, Read(p) PROVE CInv'
  <2> DEFINE r == log[p][position[p] + 1]
  <2>1. position[p] + 1 \in 1 .. Len(log[p]) /\ r \in Record
    <3>1. log[p] \in Seq(Record) /\ position[p] \in Nat /\ position[p] < Len(log[p])
      BY <1>0, <1>2, PipelineAssumption DEF Read, TInv, TypeOK
    <3>2. position[p] + 1 \in 1 .. Len(log[p])
      BY <3>1
    <3> QED
      BY <3>1, <3>2
  <2>2. r.valid => Valid(r.event)
    <3>1. r.valid => r = [event |-> r.event, valid |-> TRUE]
      BY <2>1 DEF Record
    <3> QED
      BY <2>1, <3>1 DEF Valid
  <2>3. UNCHANGED <<log, checkpoint, audit, rows>> /\ pending'.rows = pending.rows
    BY <1>0, <1>2 DEF Read, TInv, TypeOK
  <2>4. \A e \in Events : Valid(e)' = Valid(e)
    BY <2>3 DEF Valid
  <2>5. \A e \in Events : arrived'[e] > 0 => arrived[e] > 0 \/ (r.valid /\ e = r.event)
    BY <1>0, <1>2 DEF Read, TInv, TypeOK
  <2>6. \A e \in pending'.audit : e \in pending.audit \/ (r.valid /\ e = r.event)
    BY <1>0, <1>2 DEF Read, TInv, TypeOK
  <2>7. audit \cup pending.audit \subseteq Events /\ (r.valid => r.event \in Events)
    BY <1>0, <2>1 DEF TInv, TypeOK, Record
  <2>8. OnlyPublished'
    BY <2>2, <2>3, <2>4, <2>5, <2>6, <2>7 DEF CInv, OnlyPublished
  <2>9. PendingCountsDistinct' /\ RowsCountDistinctEvents'
    BY <2>3 DEF CInv, PendingCountsDistinct, RowsCountDistinctEvents, Published, Group, Valid
  <2> QED
    BY <1>0, <2>8, <2>9 DEF CInv
<1>3. ASSUME NEW p \in Partitions, Advance(p) PROVE CInv'
  <2>1. UNCHANGED <<log, checkpoint, audit, rows>> /\ pending'.audit = pending.audit
    BY <1>0, <1>3 DEF Advance, TInv, TypeOK
  <2>2. \A k \in Keys : pending'.rows[k] \in {pending.rows[k], Count(k)}
    BY <1>0, <1>3 DEF Advance, TInv, TypeOK
  <2>3. \A k \in Keys : Count(k) <= Cardinality(Published(k))
    <3>1. \A k \in Keys : {e \in Group(k) : arrived[e] > 0} \in SUBSET Published(k)
      BY DEF CInv, OnlyPublished, Published, Group
    <3> QED
      BY <3>1, CountIsBounded DEF Count
  <2>4. \A e \in Events : arrived'[e] > 0 => arrived[e] > 0
    BY <1>3 DEF Advance
  <2>5. OnlyPublished'
    BY <2>1, <2>4 DEF CInv, OnlyPublished, Valid
  <2>6. PendingCountsDistinct' /\ RowsCountDistinctEvents'
    BY <2>1, <2>2, <2>3 DEF CInv, PendingCountsDistinct, RowsCountDistinctEvents, Published, Group, Valid
  <2> QED
    BY <1>0, <2>5, <2>6 DEF CInv
<1>4. CASE FlushAudit \/ FlushDead
  BY <1>0, <1>4, CountsStay DEF FlushAudit, FlushDead, TInv, TypeOK
<1>5. ASSUME NEW table \in {"payments", "activity"}, FlushRows(table) PROVE CInv'
  <2>1. \A k \in Keys : pending'.rows[k] \in {0, pending.rows[k]} /\ rows'[k] \in {rows[k], pending.rows[k]}
    BY <1>0, <1>5 DEF FlushRows, Upserted, TInv, TypeOK
  <2>2. UNCHANGED <<arrived, checkpoint, audit>> /\ pending'.audit = pending.audit
    BY <1>0, <1>5 DEF FlushRows, TInv, TypeOK
  <2> QED
    BY <1>0, <2>1, <2>2, CountsStay
<1>6. CASE Checkpoint
  BY <1>0, <1>6, CountsStay DEF Checkpoint
<1>7. CASE Fail \/ Cancel
  BY <1>0, <1>7, CountsStay DEF Fail, Cancel, Lose, NothingPending
<1>8. CASE Restart
  BY <1>0, <1>8, CountsStay DEF Restart, Resume
<1>9. ASSUME NEW restore \in BOOLEAN, Resubmit(restore) PROVE CInv'
  <2>1. \A e \in Events : ~(Start.arrived[e] > 0)
    BY DEF Start
  <2> QED
    BY <1>0, <1>9, <2>1, CountsStay DEF Resubmit, Resume
<1>10. ASSUME NEW from \in Boundaries, NEW until \in Boundaries, Reconcile(from, until) PROVE CInv'
  <2>1. UNCHANGED <<log, arrived, checkpoint, audit, pending>>
    BY <1>10 DEF Reconcile
  <2>2. \A k \in Keys : \/ rows'[k] = rows[k]
                        \/ \E S \in SUBSET Published(k) : rows'[k] = Cardinality(S)
    <3> DEFINE selected == {e \in audit : InRange(e, from, until)}
    <3>1. \A k \in Keys : Group(k) \cap selected \in SUBSET Published(k)
      BY DEF CInv, OnlyPublished, Published
    <3>2. rows' = [k \in Keys |->
                 IF Group(k) \cap selected = {} THEN rows[k] ELSE Cardinality(Group(k) \cap selected)]
      BY <1>10 DEF Reconcile
    <3> HIDE DEF selected
    <3> QED
      BY <3>1, <3>2
  <2>3. \A k \in Keys : rows'[k] <= Cardinality(Published(k))
    BY <2>2, CountIsBounded DEF CInv, RowsCountDistinctEvents, Published
  <2>4. OnlyPublished' /\ PendingCountsDistinct'
    BY <2>1 DEF CInv, OnlyPublished, PendingCountsDistinct, Published, Group, Valid
  <2>5. RowsCountDistinctEvents'
    BY <2>1, <2>3 DEF RowsCountDistinctEvents, Published, Group, Valid
  <2> QED
    BY <1>0, <2>4, <2>5 DEF CInv
<1>11. CASE UNCHANGED vars
  BY <1>0, <1>11, CountsStay DEF vars
<1> QED
  BY <1>1, <1>2, <1>3, <1>4, <1>5, <1>6, <1>7, <1>8, <1>9, <1>10, <1>11 DEF Next, Step

\* Window rows count distinct valid events: duplicates in the topic, replays of
\* it, upserts and reconciliations never make a row count more than was published.
THEOREM RowsCountDistinct == Spec => []RowsCountDistinctEvents
<1>1. Init => CInv
  <2> SUFFICES ASSUME Init PROVE CInv
    OBVIOUS
  <2>1. OnlyPublished
    BY DEF Init, OnlyPublished, Start, NothingPending
  <2>2. \A k \in Keys : Cardinality(Published(k)) \in Nat
    BY PartOfGroup DEF Published
  <2>3. PendingCountsDistinct /\ RowsCountDistinctEvents
    BY <2>2 DEF Init, PendingCountsDistinct, RowsCountDistinctEvents, Published, NothingPending
  <2> QED
    BY <2>1, <2>3, InitTInv DEF CInv
<1>2. Spec => []CInv
  BY <1>1, NextCInv, PTL DEF Spec
<1>3. CInv => RowsCountDistinctEvents
  BY DEF CInv
<1> QED
  BY <1>2, <1>3, PTL

-----------------------------------------------------------------------------
(* Reconciliation.                                                         *)

\* A time lies in the window its quotient names.
LEMMA DivisionBounds ==
    ASSUME NEW n \in Nat
    PROVE  /\ n \div Size \in Nat
           /\ (n \div Size) * Size <= n /\ n < (n \div Size + 1) * Size
<1> DEFINE q == n \div Size
<1>1. q \in Int /\ n = (q * Size) + (n % Size) /\ n % Size \in 0 .. (Size - 1)
  BY SMTT(60), PipelineAssumption
<1> HIDE DEF q
<1>2. PICK r \in 0 .. (Size - 1) : n = (q * Size) + r
  BY <1>1
<1>3. q >= 0
  <2> SUFFICES ASSUME q <= -1 PROVE FALSE
    BY <1>1
  <2>1. (-1 - q) * Size >= 0
    BY <1>1, PipelineAssumption
  <2> QED
    BY <2>1, <1>1, <1>2, PipelineAssumption
<1>4. q * Size \in Int /\ (q + 1) * Size = q * Size + Size
  BY <1>1, PipelineAssumption
<1>5. q * Size <= n /\ n < (q + 1) * Size
  BY <1>2, <1>4, PipelineAssumption
<1> QED
  BY <1>1, <1>3, <1>5 DEF q

\* A window ends before a later one begins.
LEMMA WindowsAreDisjoint ==
    ASSUME NEW v \in Nat, NEW w \in Nat, v < w
    PROVE  (v + 1) * Size <= w * Size
<1>1. PICK d \in Nat : w = v + 1 + d
  <2> WITNESS w - v - 1 \in Nat
  <2> QED
    OBVIOUS
<1>2. d * Size \in Nat
  BY PipelineAssumption
<1>3. w * Size = (v + 1) * Size + d * Size
  BY <1>1, PipelineAssumption
<1>4. (v + 1) * Size \in Nat /\ w * Size \in Nat
  BY PipelineAssumption
<1> QED
  BY <1>2, <1>3, <1>4

\* Of two multiples of the window's size, the smaller has the smaller factor.
LEMMA SmallerFactor ==
    ASSUME NEW v \in Nat, NEW w \in Nat, v * Size < w * Size
    PROVE  v < w
<1> SUFFICES ASSUME w <= v PROVE FALSE
  OBVIOUS
<1>1. CASE w = v
  BY <1>1, PipelineAssumption
<1>2. CASE w < v
  <2>1. (w + 1) * Size <= v * Size
    BY <1>2, WindowsAreDisjoint
  <2>2. (w + 1) * Size = w * Size + Size /\ w * Size \in Nat /\ v * Size \in Nat
    BY PipelineAssumption
  <2> QED
    BY <2>1, <2>2, PipelineAssumption
<1> QED
  BY <1>1, <1>2

\* Windows are numbered, and an event lies between its window's bounds.
LEMMA EventInWindow ==
    ASSUME NEW e \in Events
    PROVE  /\ At[e] \in Nat /\ Window(e) \in Nat
           /\ Window(e) * Size <= At[e] /\ At[e] < (Window(e) + 1) * Size
BY PipelineAssumption, DivisionBounds DEF Window

\* A boundary is the beginning of some window.
LEMMA BoundaryIsMultiple ==
    ASSUME NEW b \in Boundaries
    PROVE  \E v \in Nat : b = v * Size
<1>1. \A w \in Windows : w \in Nat /\ w + 1 \in Nat
  BY EventInWindow DEF Windows
<1> QED
  BY <1>1 DEF Boundaries

\* A range between two boundaries has each window wholly or not at all.
LEMMA RangeIsOfWindows ==
    ASSUME NEW from \in Boundaries, NEW until \in Boundaries, NEW e \in Events
    PROVE  InRange(e, from, until) <=> from <= Window(e) * Size /\ Window(e) * Size < until
<1> DEFINE w == Window(e)
<1>1. PICK u \in Nat, v \in Nat : from = u * Size /\ until = v * Size
  BY BoundaryIsMultiple
<1>2. w \in Nat /\ At[e] \in Nat /\ w * Size <= At[e] /\ At[e] < (w + 1) * Size
  BY EventInWindow
<1> HIDE DEF w
<1>3. \A x \in Nat : x * Size \in Nat
  BY PipelineAssumption
<1>4. w * Size \in Nat /\ (w + 1) * Size \in Nat /\ from \in Nat /\ until \in Nat
  BY <1>1, <1>2, <1>3
<1>5. w * Size < until => (w + 1) * Size <= until
  BY <1>1, <1>2, SmallerFactor, WindowsAreDisjoint
<1>6. w * Size < from => (w + 1) * Size <= from
  BY <1>1, <1>2, SmallerFactor, WindowsAreDisjoint
<1>7. InRange(e, from, until) <=> from <= w * Size /\ w * Size < until
  BY <1>2, <1>4, <1>5, <1>6 DEF InRange
<1> QED
  BY <1>7 DEF w

\* What a checkpoint has left behind of a group.
LeftBehind(k) ==
    {e \in Group(k) : \E p \in Partitions : \E i \in 1 .. checkpoint.position[p] :
        log[p][i] = [event |-> e, valid |-> TRUE]}

\* The script runs while the job is stopped, and a submission forgets its repairs.
RepairedWhileStopped == job # "stopped" => repaired = {}

RepInv == RInv /\ RepairedWhileStopped /\ RepairedIsComplete

\* It is in the audit.
LEMMA LeftBehindIsAudited ==
    ASSUME RInv, NEW k \in Keys
    PROVE  LeftBehind(k) \subseteq Group(k) \cap audit
<1> SUFFICES ASSUME NEW e \in LeftBehind(k) PROVE e \in Group(k) /\ e \in audit
  OBVIOUS
<1>1. e \in Group(k) /\ \E p \in Partitions : \E i \in 1 .. checkpoint.position[p] :
          log[p][i] = [event |-> e, valid |-> TRUE]
  BY DEF LeftBehind
<1>2. PICK p \in Partitions : \E i \in 1 .. checkpoint.position[p] :
          log[p][i] = [event |-> e, valid |-> TRUE]
  BY <1>1
<1>3. PICK i \in 1 .. checkpoint.position[p] : log[p][i] = [event |-> e, valid |-> TRUE]
  BY <1>2
<1>4. Routed(p, i)
  BY DEF RInv, CheckpointedIsRouted
<1> QED
  BY <1>1, <1>3, <1>4 DEF Routed

\* Completeness in terms of what was left behind.
LEMMA CompleteByGroup ==
    RepairedIsComplete <=> \A k \in Keys : k[2] \in repaired => rows[k] >= Cardinality(LeftBehind(k))
BY DEF RepairedIsComplete, LeftBehind

\* While the job is stopped, only publications and repairs are left, and a later
\* repair recomputes a repaired window wholly or leaves its rows.
LEMMA NextRepInv == RepInv /\ [Next]_vars => RepInv'
<1> SUFFICES ASSUME RepInv, [Next]_vars PROVE RepInv'
  OBVIOUS
<1>0. RInv /\ RInv' /\ TInv /\ TInv'
  BY NextRInv DEF RepInv, RInv
<1> USE DEF state, tables, repair
<1>1. ASSUME NEW p \in Partitions, NEW r \in Record, Publish(p, r) PROVE RepInv'
  <2>1. \A q \in Partitions : \A i \in 1 .. checkpoint.position[q] : log'[q][i] = log[q][i]
    <3> SUFFICES ASSUME NEW q \in Partitions, NEW i \in 1 .. checkpoint.position[q]
                 PROVE  log'[q][i] = log[q][i]
      OBVIOUS
    <3>1. log \in [Partitions -> Seq(Record)] /\ log[q] \in Seq(Record)
      BY <1>0 DEF TInv, TypeOK
    <3>2. checkpoint.position[q] \in Nat /\ checkpoint.position[q] <= Len(log[q]) /\ Len(log[q]) \in Nat
      BY <1>0, <3>1, PipelineAssumption DEF TInv, TypeOK, InsideLog
    <3>3. i \in 1 .. Len(log[q])
      BY <3>2
    <3> QED
      BY <1>1, <3>1, <3>3 DEF Publish
  <2>2. \A k \in Keys : LeftBehind(k)' = LeftBehind(k)
    <3>1. checkpoint' = checkpoint
      BY <1>1 DEF Publish
    <3> SUFFICES ASSUME NEW k \in Keys PROVE LeftBehind(k)' = LeftBehind(k)
      OBVIOUS
    <3>2. \A e \in Group(k) :
              (\E q \in Partitions : \E i \in 1 .. checkpoint.position[q] :
                   log'[q][i] = [event |-> e, valid |-> TRUE])
              <=> (\E q \in Partitions : \E i \in 1 .. checkpoint.position[q] :
                   log[q][i] = [event |-> e, valid |-> TRUE])
      BY <2>1
    <3> QED
      BY <3>1, <3>2 DEF LeftBehind, Group
  <2>3. RepairedIsComplete'
    BY <1>1, <2>2, CompleteByGroup DEF Publish, RepInv, RepairedIsComplete, LeftBehind, Group
  <2> QED
    BY <1>0, <1>1, <2>3 DEF RepInv, RepairedWhileStopped, Publish
<1>2. ASSUME UNCHANGED <<job, repaired>>, job # "stopped" PROVE RepInv'
  BY <1>0, <1>2 DEF RepInv, RepairedWhileStopped, RepairedIsComplete
<1>3. CASE Step \/ Checkpoint
  BY <1>2, <1>3 DEF Step, Read, Advance, FlushAudit, FlushDead, FlushRows, Checkpoint
<1>4. ASSUME repaired' = {} PROVE RepInv'
  BY <1>0, <1>4 DEF RepInv, RepairedWhileStopped, RepairedIsComplete
<1>5. CASE Fail \/ Cancel \/ Restart
  BY <1>4, <1>5 DEF Fail, Cancel, Lose, Restart, RepInv, RepairedWhileStopped
<1>6. ASSUME NEW restore \in BOOLEAN, Resubmit(restore) PROVE RepInv'
  BY <1>4, <1>6 DEF Resubmit
<1>7. ASSUME NEW from \in Boundaries, NEW until \in Boundaries, Reconcile(from, until) PROVE RepInv'
  <2> DEFINE selected == {e \in audit : InRange(e, from, until)}
  <2>1. UNCHANGED <<log, job, checkpoint, audit>> /\ job = "stopped"
    BY <1>7 DEF Reconcile
  <2>2. rows' = [k \in Keys |->
             IF Group(k) \cap selected = {} THEN rows[k] ELSE Cardinality(Group(k) \cap selected)]
    BY <1>7 DEF Reconcile
  <2>3. repaired' = repaired \cup {w \in Windows : from <= w * Size /\ w * Size < until}
    BY <1>7 DEF Reconcile
  <2>4. ASSUME NEW k \in Keys, k[2] \in repaired' PROVE rows'[k] >= Cardinality(LeftBehind(k))
    <3> DEFINE within == from <= k[2] * Size /\ k[2] * Size < until
    <3>1. \A e \in Group(k) : e \in Events /\ (InRange(e, from, until) <=> within)
      BY RangeIsOfWindows DEF Group
    <3>2. LeftBehind(k) \subseteq Group(k) \cap audit /\ Group(k) \cap audit \in SUBSET Group(k)
      BY <1>0, LeftBehindIsAudited
    <3>3. /\ Cardinality(LeftBehind(k)) \in Nat /\ Cardinality(Group(k) \cap audit) \in Nat
          /\ Cardinality(LeftBehind(k)) <= Cardinality(Group(k) \cap audit)
      BY <3>2, PartIsSmaller
    <3>4. rows[k] \in Nat
      BY <1>0 DEF TInv, TypeOK
    <3>5. CASE within
      <4>1. Group(k) \cap selected = Group(k) \cap audit
        BY <3>1, <3>5
      <4>2. CASE Group(k) \cap audit = {}
        <5>1. Cardinality(LeftBehind(k)) = 0
          BY <3>2, <4>2, FS_EmptySet
        <5> QED
          BY <2>2, <3>4, <4>1, <4>2, <5>1
      <4>3. CASE Group(k) \cap audit # {}
        BY <2>2, <3>3, <4>1, <4>3
      <4> QED
        BY <4>2, <4>3
    <3>6. CASE ~within
      <4>1. Group(k) \cap selected = {}
        BY <3>1, <3>6
      <4>2. k[2] \in repaired
        BY <2>3, <2>4, <3>6
      <4>3. rows[k] >= Cardinality(LeftBehind(k))
        BY <4>2, CompleteByGroup DEF RepInv
      <4> QED
        BY <2>2, <4>1, <4>3
    <3> QED
      BY <3>5, <3>6
  <2>5. \A k \in Keys : LeftBehind(k)' = LeftBehind(k)
    BY <2>1 DEF LeftBehind, Group
  <2>6. RepairedIsComplete'
    BY <2>4, <2>5 DEF RepairedIsComplete, LeftBehind, Group
  <2> QED
    BY <1>0, <2>1, <2>6 DEF RepInv, RepairedWhileStopped
<1>8. CASE UNCHANGED vars
  BY <1>0, <1>8 DEF vars, RepInv, RepairedWhileStopped, RepairedIsComplete, Group
<1> QED
  BY <1>1, <1>3, <1>5, <1>6, <1>7, <1>8 DEF Next

\* "Recompute completed windows": after any number of repairs over any ranges,
\* and whatever is published meanwhile, a repaired window's rows count every
\* valid event that the last checkpoint had left behind.
THEOREM RepairsAreComplete == Spec => []RepairedIsComplete
<1>1. Init => RepInv
  <2>1. Init => RInv
    BY InitTInv DEF RInv, Init, RunningKeepsTrack, CheckpointedIsRouted, Start
  <2> QED
    BY <2>1 DEF RepInv, Init, RepairedWhileStopped, RepairedIsComplete
<1>2. Spec => []RepInv
  BY <1>1, NextRepInv, PTL DEF Spec
<1>3. RepInv => RepairedIsComplete
  BY DEF RepInv
<1> QED
  BY <1>2, <1>3, PTL

-----------------------------------------------------------------------------
(* Timeliness, with one partition and before any reconciliation.           *)

\* One of the first n records of a partition is as late as a time.
Reached(p, n, time) == \E j \in 1 .. n : Timestamp(log[p][j]) >= time

\* A record is in the log that no later event of a window is timely behind.
Passed(w) == \E p \in Partitions : Reached(p, Len(log[p]), Last(w) + Delay)

TimelyOf(k) == {e \in Group(k) : Timely(e)}
Counts(k, n) == n >= Cardinality(TimelyOf(k))

\* A snapshot's watermark follows a record it has read, and what it has read of
\* windows it has not closed is in them.
Follows(s) ==
    \A p \in Partitions :
        /\ s.watermark = -Delay \/ Reached(p, s.position[p], s.watermark + Delay)
        /\ \A i \in 1 .. s.position[p] :
               log[p][i].valid /\ ~Closed(Window(log[p][i].event), s.watermark)
                   => s.arrived[log[p][i].event] > 0

Now == [position |-> position, watermark |-> watermark, arrived |-> arrived]

\* What was met in a partition is the time of a record read from it.
SeenIsRead == \A p \in Partitions : seen[p] = 0 \/ Reached(p, position[p], seen[p])

\* Rows, buffered and written, count the timely events, of which no more can come.
BufferedAreComplete ==
    \A k \in Keys : pending.rows[k] > 0 => Passed(k[2]) /\ Counts(k, pending.rows[k])
WrittenAreComplete ==
    \A k \in Keys : rows[k] > 0 => Passed(k[2]) /\ Counts(k, rows[k])

\* A closed window has its rows, in a running job's buffers or in the table.
ClosedAreCounted ==
    job = "running" => \A k \in Keys : Closed(k[2], watermark) =>
        Counts(k, rows[k]) \/ Counts(k, pending.rows[k])

\* The windows a snapshot has closed have their rows in the table.
SettledAreCounted(s) == \A k \in Keys : Closed(k[2], s.watermark) => Counts(k, rows[k])

OnTime ==
    /\ SeenIsRead
    /\ Follows(Now) /\ Follows(checkpoint)
    /\ BufferedAreComplete /\ WrittenAreComplete
    /\ ClosedAreCounted /\ SettledAreCounted(checkpoint)

TimelyInv == TInv /\ (Cardinality(Partitions) = 1 /\ repairs = 0 => OnTime)

\* A single partition is every partition.
LEMMA OnePartition ==
    ASSUME Cardinality(Partitions) = 1
    PROVE  \E p \in Partitions : Partitions = {p}
BY PipelineAssumption, FS_Singleton

\* A group's window is after epoch zero, and its events are in it.
LEMMA GroupInWindow ==
    ASSUME NEW k \in Keys
    PROVE  /\ Last(k[2]) \in Nat /\ Last(k[2]) >= 1
           /\ \A e \in Group(k) : At[e] \in Nat /\ At[e] <= Last(k[2])
<1>1. ASSUME NEW e \in Events
      PROVE  At[e] \in Nat /\ At[e] >= 1 /\ Last(Window(e)) \in Nat /\ At[e] <= Last(Window(e))
  <2>1. At[e] \in Nat /\ At[e] >= 1
    BY PipelineAssumption
  <2>2. Window(e) \in Nat /\ At[e] < (Window(e) + 1) * Size
    BY EventInWindow
  <2>3. (Window(e) + 1) * Size \in Nat
    BY <2>2, PipelineAssumption
  <2> QED
    BY <2>1, <2>2, <2>3 DEF Last
<1>2. PICK e \in Events : k[2] = Window(e)
  BY DEF Keys, Windows
<1> QED
  BY <1>1, <1>2 DEF Group

\* Records have times, and snapshots end within the log.
LEMMA RecordTimes ==
    ASSUME TInv
    PROVE  /\ \A p \in Partitions : /\ Len(log[p]) \in Nat
                                    /\ \A i \in 1 .. Len(log[p]) : /\ log[p][i] \in Record
                                                                   /\ Timestamp(log[p][i]) \in Nat
           /\ \A p \in Partitions : /\ position[p] \in Nat /\ position[p] <= Len(log[p])
                                    /\ checkpoint.position[p] \in Nat
                                    /\ checkpoint.position[p] <= Len(log[p])
<1>1. \A r \in Record : Timestamp(r) \in Nat
  BY PipelineAssumption DEF Record, Timestamp
<1>2. \A p \in Partitions : log[p] \in Seq(Record)
  BY DEF TInv, TypeOK
<1> QED
  BY <1>1, <1>2, PipelineAssumption DEF TInv, TypeOK, InsideLog

\* A timely record of a window is no later in the log than one that has passed it.
LEMMA TimelyIsBefore ==
    ASSUME TInv, NEW k \in Keys, NEW e \in Group(k), NEW p \in Partitions,
           NEW i \in 1 .. Len(log[p]), NEW j \in 1 .. Len(log[p]),
           \A h \in 1 .. (i - 1) : Timestamp(log[p][h]) < At[e] + Delay,
           Timestamp(log[p][j]) >= Last(k[2]) + Delay
    PROVE  i <= j
<1> SUFFICES ASSUME j < i PROVE FALSE
  BY RecordTimes
<1>1. Timestamp(log[p][j]) \in Nat /\ j \in 1 .. (i - 1)
  BY RecordTimes
<1>2. At[e] \in Nat /\ At[e] <= Last(k[2]) /\ Last(k[2]) \in Nat
  BY GroupInWindow
<1> QED
  BY <1>1, <1>2, PipelineAssumption

\* A window that a snapshot has closed is passed by a record it has read.
LEMMA ClosedIsPassed ==
    ASSUME TInv, NEW k \in Keys, NEW p \in Partitions, NEW s, s.watermark \in Int,
           Follows(s), Closed(k[2], s.watermark)
    PROVE  Reached(p, s.position[p], s.watermark + Delay)
<1>1. Last(k[2]) \in Nat /\ Last(k[2]) >= 1
  BY GroupInWindow
<1>2. s.watermark # -Delay
  BY <1>1, PipelineAssumption DEF Closed
<1> QED
  BY <1>2 DEF Follows

\* An earlier time in a longer log is reached too.
LEMMA ReachedMore ==
    ASSUME TInv, NEW p \in Partitions, NEW n \in 0 .. Len(log[p]), NEW m \in n .. Len(log[p]),
           NEW time \in Int, NEW earlier \in Int, earlier <= time, Reached(p, n, time)
    PROVE  Reached(p, m, earlier)
<1>1. PICK j \in 1 .. n : Timestamp(log[p][j]) >= time
  BY DEF Reached
<1>2. Len(log[p]) \in Nat
  BY RecordTimes
<1>3. j \in 1 .. m /\ j \in 1 .. Len(log[p])
  BY <1>2
<1>4. Timestamp(log[p][j]) \in Nat
  BY <1>3, RecordTimes
<1> QED
  BY <1>1, <1>3, <1>4 DEF Reached

\* What the log already holds, it holds after any step.
LEMMA ReachedStays ==
    ASSUME TInv, [Next]_vars, NEW p \in Partitions, NEW n \in 0 .. Len(log[p]), NEW time
    PROVE  Reached(p, n, time)' <=> Reached(p, n, time)
<1>1. \A j \in 1 .. n : log'[p][j] = log[p][j]
  BY LogGrows, RecordTimes
<1> QED
  BY <1>1 DEF Reached, Timestamp

\* Snapshots follow the log whatever is published.
LEMMA FollowsStays ==
    ASSUME TInv, [Next]_vars, NEW s, Follows(s),
           \A p \in Partitions : s.position[p] \in Nat /\ s.position[p] <= Len(log[p])
    PROVE  /\ \A p \in Partitions :
                  s.watermark = -Delay \/ Reached(p, s.position[p], s.watermark + Delay)'
           /\ \A p \in Partitions : \A i \in 1 .. s.position[p] :
                  log'[p][i].valid /\ ~Closed(Window(log'[p][i].event), s.watermark)
                      => s.arrived[log'[p][i].event] > 0
<1> SUFFICES ASSUME NEW p \in Partitions
             PROVE  /\ s.watermark = -Delay \/ Reached(p, s.position[p], s.watermark + Delay)'
                    /\ \A i \in 1 .. s.position[p] :
                           log'[p][i].valid /\ ~Closed(Window(log'[p][i].event), s.watermark)
                               => s.arrived[log'[p][i].event] > 0
  OBVIOUS
<1>1. Len(log[p]) \in Nat /\ s.position[p] \in 0 .. Len(log[p])
  BY RecordTimes
<1>2. \A i \in 1 .. s.position[p] : log'[p][i] = log[p][i]
  BY <1>1, LogGrows
<1>3. s.watermark = -Delay \/ Reached(p, s.position[p], s.watermark + Delay)'
  BY <1>1, ReachedStays DEF Follows
<1> QED
  BY <1>2, <1>3 DEF Follows

\* Behind a record that has passed a window, no new record is timely in it.
LEMMA PassedStays ==
    ASSUME TInv, TInv', [Next]_vars, Cardinality(Partitions) = 1, NEW k \in Keys, Passed(k[2])
    PROVE  Passed(k[2])' /\ TimelyOf(k)' = TimelyOf(k)
<1>1. PICK p \in Partitions : Partitions = {p}
  BY OnePartition
<1>2. \A i \in 1 .. Len(log[p]) : log'[p][i] = log[p][i] /\ i \in 1 .. Len(log'[p])
  BY LogGrows
<1>3. PICK j \in 1 .. Len(log[p]) : Timestamp(log[p][j]) >= Last(k[2]) + Delay
  BY <1>1 DEF Passed, Reached
<1>4. Timestamp(log'[p][j]) >= Last(k[2]) + Delay /\ j \in 1 .. Len(log'[p])
  BY <1>2, <1>3
<1>5. Passed(k[2])'
  BY <1>4 DEF Passed, Reached, Timestamp, Last
<1>6. Len(log[p]) \in Nat /\ Len(log'[p]) \in Nat
  BY RecordTimes
<1>7. ASSUME NEW e \in Group(k), Timely(e) PROVE Timely(e)'
  <2>1. PICK i \in 1 .. Len(log[p]) : /\ log[p][i] = [event |-> e, valid |-> TRUE]
                                      /\ \A h \in 1 .. (i - 1) : Timestamp(log[p][h]) < At[e] + Delay
    BY <1>1, <1>7 DEF Timely
  <2>2. \A h \in 1 .. (i - 1) : log'[p][h] = log[p][h]
    BY <1>2, <1>6
  <2>3. /\ i \in 1 .. Len(log'[p]) /\ log'[p][i] = [event |-> e, valid |-> TRUE]
        /\ \A h \in 1 .. (i - 1) : Timestamp(log'[p][h]) < At[e] + Delay
    BY <1>2, <2>1, <2>2
  <2> QED
    BY <2>3 DEF Timely, Timestamp
<1>8. ASSUME NEW e \in Group(k), Timely(e)' PROVE Timely(e)
  <2>1. PICK i \in 1 .. Len(log'[p]) :
            /\ log'[p][i] = [event |-> e, valid |-> TRUE]
            /\ \A h \in 1 .. (i - 1) : Timestamp(log'[p][h]) < At[e] + Delay
    BY <1>1, <1>8 DEF Timely, Timestamp
  <2>2. i <= j
    <3> SUFFICES ASSUME j < i PROVE FALSE
      BY <1>6
    <3>1. Timestamp(log'[p][j]) < At[e] + Delay /\ Timestamp(log'[p][j]) = Timestamp(log[p][j])
      BY <1>2, <1>6, <2>1 DEF Timestamp
    <3>2. Timestamp(log[p][j]) \in Nat
      BY RecordTimes
    <3>3. At[e] \in Nat /\ At[e] <= Last(k[2]) /\ Last(k[2]) \in Nat
      BY GroupInWindow
    <3> QED
      BY <1>3, <3>1, <3>2, <3>3, PipelineAssumption
  <2>3. i \in 1 .. Len(log[p])
    BY <1>6, <2>2
  <2>4. \A h \in 1 .. i : log'[p][h] = log[p][h]
    BY <1>2, <1>6, <2>3
  <2>5. /\ log[p][i] = [event |-> e, valid |-> TRUE]
        /\ \A h \in 1 .. (i - 1) : Timestamp(log[p][h]) < At[e] + Delay
    BY <2>1, <2>3, <2>4
  <2> QED
    BY <2>3, <2>5 DEF Timely
<1>9. TimelyOf(k)' = TimelyOf(k)
  BY <1>7, <1>8 DEF TimelyOf, Group
<1> QED
  BY <1>5, <1>9

\* A group's timely events are a number.
LEMMA TimelyIsNumber ==
    ASSUME NEW k \in Keys
    PROVE  Cardinality(TimelyOf(k)) \in Nat
BY PartOfGroup DEF TimelyOf

\* Publication makes no event of a closed or counted window timely.
LEMMA PublishOnTime ==
    ASSUME TimelyInv, TInv', Cardinality(Partitions) = 1, repairs = 0,
           NEW q \in Partitions, NEW r \in Record, Publish(q, r)
    PROVE  OnTime'
<1>0. TInv /\ OnTime /\ [Next]_vars
  BY DEF TimelyInv, Next
<1>1. UNCHANGED <<job, attempts, seen, state, checkpoint, pending, tables, repair>>
  BY DEF Publish
<1> USE DEF state, tables, repair
<1>2. PICK p \in Partitions : Partitions = {p}
  BY OnePartition
<1>3. SeenIsRead'
  BY <1>0, <1>1, ReachedStays, RecordTimes DEF OnTime, SeenIsRead
<1>4. Follows(Now)'
  BY <1>0, <1>1, FollowsStays, RecordTimes DEF OnTime, Follows, Now
<1>5. Follows(checkpoint)'
  BY <1>0, <1>1, FollowsStays, RecordTimes DEF OnTime, Follows
<1>6. BufferedAreComplete' /\ WrittenAreComplete'
  BY <1>0, <1>1, PassedStays DEF OnTime, BufferedAreComplete, WrittenAreComplete, Counts
<1>7. \A s \in {Now, checkpoint} : \A k \in Keys : Closed(k[2], s.watermark) => Passed(k[2])
  <2> SUFFICES ASSUME NEW s \in {Now, checkpoint}, NEW k \in Keys, Closed(k[2], s.watermark)
               PROVE  Passed(k[2])
    OBVIOUS
  <2>1. s.watermark \in Int /\ s.position[p] \in 0 .. Len(log[p]) /\ Len(log[p]) \in Nat /\ Follows(s)
    <3>1. CASE s = Now
      <4>1. s.watermark = watermark /\ s.position = position
        BY <3>1 DEF Now
      <4>2. watermark \in Int /\ position[p] \in 0 .. Len(log[p]) /\ Len(log[p]) \in Nat
        <5>1. watermark \in Int
          BY <1>0 DEF TInv, TypeOK
        <5>2. position[p] \in Nat /\ position[p] <= Len(log[p]) /\ Len(log[p]) \in Nat
          BY <1>0, RecordTimes
        <5> QED
          BY <5>1, <5>2
      <4>3. Follows(s)
        BY <1>0, <3>1 DEF OnTime
      <4> QED
        BY <4>1, <4>2, <4>3
    <3>2. CASE s = checkpoint
      <4>1. checkpoint.watermark \in Int
        BY <1>0 DEF TInv, TypeOK
      <4>2. checkpoint.position[p] \in 0 .. Len(log[p]) /\ Len(log[p]) \in Nat
        BY <1>0, RecordTimes
      <4>3. Follows(checkpoint)
        BY <1>0 DEF OnTime
      <4> QED
        BY <3>2, <4>1, <4>2, <4>3
    <3> QED
      BY <3>1, <3>2
  <2>2. Reached(p, s.position[p], s.watermark + Delay)
    BY <1>0, <2>1, ClosedIsPassed
  <2>3. Last(k[2]) \in Nat
    BY GroupInWindow
  <2>4. Last(k[2]) + Delay \in Int /\ s.watermark + Delay \in Int /\ Last(k[2]) + Delay <= s.watermark + Delay
    BY <2>1, <2>3, PipelineAssumption DEF Closed
  <2>5. Len(log[p]) \in s.position[p] .. Len(log[p])
    BY <2>1
  <2> QED
    BY <1>0, <2>1, <2>2, <2>4, <2>5, ReachedMore DEF Passed
<1>8. ClosedAreCounted' /\ SettledAreCounted(checkpoint)'
  <2>1. \A k \in Keys : Closed(k[2], watermark) \/ Closed(k[2], checkpoint.watermark)
                            => TimelyOf(k)' = TimelyOf(k)
    BY <1>0, <1>7, PassedStays DEF Now
  <2> QED
    BY <1>0, <1>1, <2>1 DEF OnTime, ClosedAreCounted, SettledAreCounted, Counts, Closed, Last
<1> QED
  BY <1>3, <1>4, <1>5, <1>6, <1>8 DEF OnTime

\* A record is read: its time is met, and it joins its window if that is open.
LEMMA ReadOnTime ==
    ASSUME TimelyInv, TInv', Cardinality(Partitions) = 1, repairs = 0,
           NEW p \in Partitions, Read(p)
    PROVE  OnTime'
<1> USE DEF state, tables, repair
<1>0. TInv /\ OnTime
  BY DEF TimelyInv
<1>1. Partitions = {p}
  BY OnePartition
<1> DEFINE r == log[p][position[p] + 1]
           n == position[p]
<1>2. /\ Len(log[p]) \in Nat /\ n \in 0 .. Len(log[p]) /\ n + 1 \in n .. Len(log[p])
      /\ n + 1 \in 1 .. Len(log[p]) /\ r \in Record /\ Timestamp(r) \in Nat
  BY <1>0, RecordTimes DEF Read
<1>3. /\ UNCHANGED <<log, job, watermark, checkpoint, rows>> /\ pending'.rows = pending.rows
      /\ position'[p] = n + 1 /\ seen'[p] \in {seen[p], Timestamp(r)}
      /\ \A e \in Events : arrived[e] > 0 => arrived'[e] > 0
      /\ r.valid /\ ~Closed(Window(r.event), watermark) => arrived'[r.event] > 0
  <2>1. UNCHANGED <<log, job, watermark, checkpoint, rows>> /\ pending'.rows = pending.rows
    BY <1>0 DEF Read, TInv, TypeOK
  <2>2. position'[p] = n + 1 /\ seen'[p] \in {seen[p], Timestamp(r)}
    BY <1>0 DEF Read, TInv, TypeOK
  <2>3. /\ arrived \in [Events -> Nat] /\ r.event \in Events
        /\ arrived' = IF r.valid /\ ~Closed(Window(r.event), watermark)
                      THEN [arrived EXCEPT ![r.event] = @ + 1] ELSE arrived
    BY <1>0, <1>2 DEF Read, TInv, TypeOK, Record
  <2> QED
    BY <2>1, <2>2, <2>3
<1> HIDE DEF n
<1>4. seen[p] \in Nat /\ watermark \in Int /\ Delay \in Nat
  BY <1>0, PipelineAssumption DEF TInv, TypeOK
<1>5. ASSUME NEW time \in Int, Reached(p, n, time) PROVE Reached(p, n + 1, time)
  BY <1>0, <1>2, <1>5, ReachedMore
<1>6. Reached(p, n + 1, Timestamp(r))
  BY <1>2 DEF Reached, n
<1>7. SeenIsRead'
  <2>1. seen[p] = 0 \/ Reached(p, n, seen[p])
    BY <1>0 DEF OnTime, SeenIsRead, n
  <2>2. seen'[p] = 0 \/ Reached(p, n + 1, seen'[p])
    BY <1>3, <1>4, <1>5, <1>6, <2>1
  <2> QED
    BY <1>1, <1>3, <2>2 DEF SeenIsRead, Reached, Timestamp
<1>8. Follows(Now)'
  <2>1. /\ watermark = -Delay \/ Reached(p, n, watermark + Delay)
        /\ \A i \in 1 .. n : log[p][i].valid /\ ~Closed(Window(log[p][i].event), watermark)
                                 => arrived[log[p][i].event] > 0
    BY <1>0 DEF OnTime, Follows, Now, n
  <2>2. watermark = -Delay \/ Reached(p, n + 1, watermark + Delay)
    BY <1>4, <1>5, <2>1
  <2>3. ASSUME NEW i \in 1 .. (n + 1), log[p][i].valid, ~Closed(Window(log[p][i].event), watermark)
        PROVE  arrived'[log[p][i].event] > 0
    <3>1. CASE i \in 1 .. n
      <4>1. i \in 1 .. Len(log[p])
        BY <1>2, <3>1
      <4>2. log[p][i].event \in Events
        BY <1>0, <4>1, RecordTimes DEF Record
      <4> QED
        BY <1>3, <2>1, <2>3, <3>1, <4>2
    <3>2. CASE i = n + 1
      BY <1>3, <2>3, <3>2 DEF n
    <3> QED
      BY <1>2, <3>1, <3>2
  <2> QED
    BY <1>1, <1>3, <2>2, <2>3 DEF Follows, Now, Reached, Timestamp, Closed, Last
<1>9. Follows(checkpoint)'
  BY <1>0, <1>3 DEF OnTime, Follows, Reached, Timestamp, Closed, Last
<1>10. \A k \in Keys : TimelyOf(k)' = TimelyOf(k) /\ Passed(k[2])' = Passed(k[2])
  BY <1>3 DEF TimelyOf, Timely, Timestamp, Group, Passed, Reached, Last
<1>11. BufferedAreComplete' /\ WrittenAreComplete'
  BY <1>0, <1>3, <1>10 DEF OnTime, BufferedAreComplete, WrittenAreComplete, Counts
<1>12. ClosedAreCounted' /\ SettledAreCounted(checkpoint)'
  BY <1>0, <1>3, <1>10 DEF OnTime, ClosedAreCounted, SettledAreCounted, Counts, Closed, Last
<1> QED
  BY <1>7, <1>8, <1>9, <1>11, <1>12 DEF OnTime

\* The watermark goes on: the rows of the windows it closes count every timely
\* event, for a record that has passed a window was read behind all of them.
LEMMA AdvanceOnTime ==
    ASSUME TimelyInv, TInv', Cardinality(Partitions) = 1, repairs = 0,
           NEW p \in Partitions, Advance(p)
    PROVE  OnTime'
<1> USE DEF state, tables, repair
<1>0. TInv /\ OnTime
  BY DEF TimelyInv
<1>1. Partitions = {p}
  BY OnePartition
<1> DEFINE time == seen[p] - Delay
           closing == {w \in Windows : Closed(w, time) /\ ~Closed(w, watermark)}
<1>2. /\ UNCHANGED <<log, job, position, seen, checkpoint, rows>> /\ watermark' = time
      /\ watermark < time
      /\ arrived' = [e \in Events |-> IF Window(e) \in closing THEN 0 ELSE arrived[e]]
      /\ \A k \in Keys : pending'.rows[k] =
             IF k[2] \in closing /\ Count(k) > 0 THEN Count(k) ELSE pending.rows[k]
  BY <1>0 DEF Advance, TInv, TypeOK
<1>3. /\ seen[p] \in Nat /\ watermark \in Int /\ Delay \in Nat /\ time \in Int
      /\ time + Delay = seen[p]
  BY <1>0, PipelineAssumption DEF TInv, TypeOK
<1>4. \A w \in Windows : /\ Last(w) \in Nat /\ Last(w) >= 1
                         /\ Closed(w, watermark) => Closed(w, time)
                         /\ Closed(w, time) => seen[p] >= Last(w) + Delay /\ seen[p] # 0
  <2> SUFFICES ASSUME NEW w \in Windows
               PROVE  /\ Last(w) \in Nat /\ Last(w) >= 1
                      /\ Closed(w, watermark) => Closed(w, time)
                      /\ Closed(w, time) => seen[p] >= Last(w) + Delay /\ seen[p] # 0
    OBVIOUS
  <2>1. PICK e \in Events : w = Window(e)
    BY DEF Windows
  <2>2. <<"activity", w, Type[e]>> \in Keys
    BY <2>1 DEF Keys, Types
  <2>3. Last(w) \in Nat /\ Last(w) >= 1
    BY <2>2, GroupInWindow
  <2> QED
    BY <1>2, <1>3, <2>3 DEF Closed
<1> HIDE DEF time, closing
<1>5. \A k \in Keys : k[2] \in Windows
  BY DEF Keys
<1>6. seen[p] = 0 \/ Reached(p, position[p], seen[p])
  BY <1>0 DEF OnTime, SeenIsRead
<1>7. /\ Len(log[p]) \in Nat /\ position[p] \in 0 .. Len(log[p])
      /\ Len(log[p]) \in position[p] .. Len(log[p])
  BY <1>0, RecordTimes
<1>8. \A k \in Keys : k[2] \in closing => Passed(k[2]) /\ Counts(k, Count(k)) /\ Count(k) \in Nat
  <2> SUFFICES ASSUME NEW k \in Keys, k[2] \in closing
               PROVE  Passed(k[2]) /\ Counts(k, Count(k)) /\ Count(k) \in Nat
    OBVIOUS
  <2>1. Closed(k[2], time) /\ ~Closed(k[2], watermark)
    BY DEF closing
  <2>2. Last(k[2]) \in Nat /\ seen[p] >= Last(k[2]) + Delay /\ Reached(p, position[p], seen[p])
    BY <1>4, <1>5, <1>6, <2>1
  <2>3. Last(k[2]) + Delay \in Int /\ seen[p] \in Int
    BY <1>3, <2>2
  <2>4. Reached(p, position[p], Last(k[2]) + Delay) /\ Reached(p, Len(log[p]), Last(k[2]) + Delay)
    <3>1. position[p] \in position[p] .. Len(log[p])
      BY <1>7
    <3> QED
      BY <1>0, <1>7, <2>2, <2>3, <3>1, ReachedMore
  <2>5. Passed(k[2])
    BY <2>4 DEF Passed
  <2>6. TimelyOf(k) \subseteq {e \in Group(k) : arrived[e] > 0}
    <3> SUFFICES ASSUME NEW e \in Group(k), Timely(e) PROVE arrived[e] > 0
      BY DEF TimelyOf
    <3>1. PICK i \in 1 .. Len(log[p]) : /\ log[p][i] = [event |-> e, valid |-> TRUE]
                                        /\ \A h \in 1 .. (i - 1) : Timestamp(log[p][h]) < At[e] + Delay
      BY <1>1 DEF Timely
    <3>2. PICK j \in 1 .. position[p] : Timestamp(log[p][j]) >= Last(k[2]) + Delay
      BY <2>4 DEF Reached
    <3>3. j \in 1 .. Len(log[p])
      BY <1>7
    <3>4. i <= j
      BY <1>0, <3>1, <3>2, <3>3, TimelyIsBefore
    <3>5. i \in 1 .. position[p]
      BY <1>7, <3>4
    <3>6. log[p][i].valid /\ log[p][i].event = e /\ Window(e) = k[2]
      BY <3>1 DEF Group
    <3> QED
      BY <1>0, <2>1, <3>5, <3>6 DEF OnTime, Follows, Now
  <2>7. Counts(k, Count(k)) /\ Count(k) \in Nat
    BY <2>6, PartIsSmaller DEF Counts, Count
  <2> QED
    BY <2>5, <2>7
<1>9. SeenIsRead'
  BY <1>0, <1>2 DEF OnTime, SeenIsRead, Reached, Timestamp
<1>10. Follows(Now)'
  <2>1. time = -Delay \/ Reached(p, position[p], time + Delay)
    BY <1>3, <1>6 DEF time
  <2>2. ASSUME NEW i \in 1 .. position[p], log[p][i].valid, ~Closed(Window(log[p][i].event), time)
        PROVE  arrived'[log[p][i].event] > 0
    <3>1. i \in 1 .. Len(log[p])
      BY <1>7
    <3>2. log[p][i].event \in Events
      BY <1>0, <3>1, RecordTimes DEF Record
    <3>3. Window(log[p][i].event) \in Windows
      BY <3>2 DEF Windows
    <3>4. ~Closed(Window(log[p][i].event), watermark)
      BY <1>4, <2>2, <3>3
    <3>5. arrived[log[p][i].event] > 0
      BY <1>0, <2>2, <3>4 DEF OnTime, Follows, Now
    <3> QED
      BY <1>2, <2>2, <3>2, <3>5 DEF closing
  <2> QED
    BY <1>1, <1>2, <2>1, <2>2 DEF Follows, Now, Reached, Timestamp, Closed, Last
<1>11. Follows(checkpoint)'
  BY <1>0, <1>2 DEF OnTime, Follows, Reached, Timestamp, Closed, Last
<1>12. \A k \in Keys : TimelyOf(k)' = TimelyOf(k) /\ Passed(k[2])' = Passed(k[2])
  BY <1>2 DEF TimelyOf, Timely, Timestamp, Group, Passed, Reached, Last
<1>13. BufferedAreComplete' /\ WrittenAreComplete'
  <2>1. \A k \in Keys : pending'.rows[k] > 0 => Passed(k[2]) /\ Counts(k, pending'.rows[k])
    BY <1>0, <1>2, <1>8 DEF OnTime, BufferedAreComplete
  <2>2. \A k \in Keys : rows[k] > 0 => Passed(k[2]) /\ Counts(k, rows[k])
    BY <1>0 DEF OnTime, WrittenAreComplete
  <2> QED
    BY <1>2, <1>12, <2>1, <2>2 DEF BufferedAreComplete, WrittenAreComplete, Counts
<1>14. ClosedAreCounted'
  <2>1. ASSUME job = "running", NEW k \in Keys, Closed(k[2], time)
        PROVE  Counts(k, rows[k]) \/ Counts(k, pending'.rows[k])
    <3>1. CASE k[2] \in closing /\ Count(k) > 0
      BY <1>2, <1>8, <3>1
    <3>2. CASE k[2] \in closing /\ ~(Count(k) > 0)
      <4>1. Count(k) = 0
        BY <1>8, <3>2
      <4>2. rows[k] \in Nat /\ Cardinality(TimelyOf(k)) \in Nat
        BY <1>0, TimelyIsNumber DEF TInv, TypeOK
      <4> QED
        BY <1>8, <3>2, <4>1, <4>2 DEF Counts
    <3>3. CASE k[2] \notin closing
      <4>1. Closed(k[2], watermark)
        BY <1>5, <2>1, <3>3 DEF closing
      <4> QED
        BY <1>0, <1>2, <2>1, <3>3, <4>1 DEF OnTime, ClosedAreCounted
    <3> QED
      BY <3>1, <3>2, <3>3
  <2> QED
    BY <1>2, <1>12, <2>1 DEF ClosedAreCounted, Counts, Closed, Last
<1>15. SettledAreCounted(checkpoint)'
  BY <1>0, <1>2, <1>12 DEF OnTime, SettledAreCounted, Counts, Closed, Last
<1> QED
  BY <1>9, <1>10, <1>11, <1>13, <1>14, <1>15 DEF OnTime

\* Steps that read nothing and close nothing: what is written was complete in a
\* buffer or in the table.
LEMMA WriteOnTime ==
    ASSUME TimelyInv, TInv', Cardinality(Partitions) = 1, repairs = 0,
           UNCHANGED <<log, position, watermark, arrived, seen, checkpoint>>,
           job' # "running" \/ (job = "running" /\ \A k \in Keys :
               \/ pending'.rows[k] = pending.rows[k] /\ rows'[k] = rows[k]
               \/ pending'.rows[k] = 0 /\ rows'[k] = pending.rows[k] /\ pending.rows[k] > 0),
           job' # "running" => \A k \in Keys : /\ rows'[k] = rows[k]
                                              /\ pending'.rows[k] \in {0, pending.rows[k]}
    PROVE  OnTime'
<1>0. TInv /\ OnTime
  BY DEF TimelyInv
<1>1. \A k \in Keys : TimelyOf(k)' = TimelyOf(k) /\ Passed(k[2])' = Passed(k[2])
  BY DEF TimelyOf, Timely, Timestamp, Group, Passed, Reached, Last
<1>2. SeenIsRead' /\ Follows(checkpoint)' /\ Follows(Now)'
  <2>1. SeenIsRead'
    BY <1>0 DEF OnTime, SeenIsRead, Reached, Timestamp
  <2>2. Follows(checkpoint)'
    BY <1>0 DEF OnTime, Follows, Reached, Timestamp, Closed, Last
  <2>3. Follows(Now)'
    BY <1>0 DEF OnTime, Follows, Now, Reached, Timestamp, Closed, Last
  <2> QED
    BY <2>1, <2>2, <2>3
<1>3. \A k \in Keys : /\ rows[k] \in Nat /\ pending.rows[k] \in Nat
                      /\ Cardinality(TimelyOf(k)) \in Nat
  BY <1>0, TimelyIsNumber DEF TInv, TypeOK
<1>4. \A k \in Keys : /\ pending.rows[k] > 0 => Passed(k[2]) /\ Counts(k, pending.rows[k])
                      /\ rows[k] > 0 => Passed(k[2]) /\ Counts(k, rows[k])
  BY <1>0 DEF OnTime, BufferedAreComplete, WrittenAreComplete
<1>5. \A k \in Keys : /\ pending'.rows[k] \in {0, pending.rows[k]}
                      /\ \/ rows'[k] = rows[k]
                         \/ rows'[k] = pending.rows[k] /\ pending.rows[k] > 0
  OBVIOUS
<1>6. \A k \in Keys : Counts(k, rows[k]) => Counts(k, rows'[k])
  BY <1>4, <1>5
<1>7. BufferedAreComplete' /\ WrittenAreComplete'
  <2>1. \A k \in Keys : /\ pending'.rows[k] > 0 => Passed(k[2]) /\ Counts(k, pending'.rows[k])
                        /\ rows'[k] > 0 => Passed(k[2]) /\ Counts(k, rows'[k])
    BY <1>4, <1>5
  <2> QED
    BY <1>1, <2>1 DEF BufferedAreComplete, WrittenAreComplete, Counts
<1>8. SettledAreCounted(checkpoint)'
  <2>1. \A k \in Keys : Closed(k[2], checkpoint.watermark) => Counts(k, rows'[k])
    BY <1>0, <1>6 DEF OnTime, SettledAreCounted
  <2> QED
    BY <1>1, <2>1 DEF SettledAreCounted, Counts, Closed, Last
<1>9. ClosedAreCounted'
  <2>1. ASSUME job' = "running", NEW k \in Keys, Closed(k[2], watermark)
        PROVE  Counts(k, rows'[k]) \/ Counts(k, pending'.rows[k])
    <3>1. Counts(k, rows[k]) \/ Counts(k, pending.rows[k])
      BY <1>0, <2>1 DEF OnTime, ClosedAreCounted
    <3>2. \/ pending'.rows[k] = pending.rows[k] /\ rows'[k] = rows[k]
          \/ pending'.rows[k] = 0 /\ rows'[k] = pending.rows[k] /\ pending.rows[k] > 0
      BY <2>1
    <3> QED
      BY <1>4, <3>1, <3>2
  <2> QED
    BY <1>1, <2>1 DEF ClosedAreCounted, Counts, Closed, Last
<1> QED
  BY <1>2, <1>7, <1>8, <1>9 DEF OnTime

\* A checkpoint is taken with empty buffers: what was closed is in the table.
LEMMA CheckpointOnTime ==
    ASSUME TimelyInv, TInv', Cardinality(Partitions) = 1, repairs = 0, Checkpoint
    PROVE  OnTime'
<1>0. TInv /\ OnTime
  BY DEF TimelyInv
<1>1. /\ UNCHANGED <<log, job, position, watermark, arrived, seen, pending, rows>> /\ job = "running"
      /\ checkpoint' = Now /\ Now' = Now
  BY DEF Checkpoint, state, tables, Now
<1>2. \A k \in Keys : TimelyOf(k)' = TimelyOf(k) /\ Passed(k[2])' = Passed(k[2])
  BY <1>1 DEF TimelyOf, Timely, Timestamp, Group, Passed, Reached, Last
<1>3. SeenIsRead'
  BY <1>0, <1>1 DEF OnTime, SeenIsRead, Reached, Timestamp
<1>4. Follows(Now)' /\ Follows(checkpoint)'
  BY <1>0, <1>1 DEF OnTime, Follows, Reached, Timestamp, Closed, Last
<1>5. BufferedAreComplete' /\ WrittenAreComplete'
  BY <1>0, <1>1, <1>2 DEF OnTime, BufferedAreComplete, WrittenAreComplete, Counts
<1>6. ClosedAreCounted'
  BY <1>0, <1>1, <1>2 DEF OnTime, ClosedAreCounted, Counts, Closed, Last
<1>7. SettledAreCounted(checkpoint)'
  <2>1. ASSUME NEW k \in Keys, Closed(k[2], watermark) PROVE Counts(k, rows[k])
    <3>1. Counts(k, rows[k]) \/ Counts(k, pending.rows[k])
      BY <1>0, <1>1, <2>1 DEF OnTime, ClosedAreCounted
    <3>2. pending.rows[k] = 0
      BY DEF Checkpoint, Flushed, NothingPending
    <3>3. rows[k] \in Nat /\ Cardinality(TimelyOf(k)) \in Nat
      BY <1>0, TimelyIsNumber DEF TInv, TypeOK
    <3> QED
      BY <3>1, <3>2, <3>3 DEF Counts
  <2>2. checkpoint'.watermark = watermark
    BY <1>1 DEF Now
  <2> QED
    BY <1>1, <1>2, <2>1, <2>2 DEF SettledAreCounted, Counts, Closed, Last
<1> QED
  BY <1>3, <1>4, <1>5, <1>6, <1>7 DEF OnTime

\* Before any record is read, nothing is closed.
LEMMA StartOnTime == Follows(Start) /\ SettledAreCounted(Start)
<1>1. \A k \in Keys : ~Closed(k[2], -Delay)
  BY GroupInWindow, PipelineAssumption DEF Closed
<1>2. Start.watermark = -Delay /\ \A p \in Partitions : Start.position[p] = 0
  BY DEF Start
<1> QED
  BY <1>1, <1>2 DEF Follows, SettledAreCounted

\* A job that resumes from a snapshot whose closed windows are in the table.
LEMMA ResumeOnTime ==
    ASSUME TimelyInv, TInv', Cardinality(Partitions) = 1, repairs = 0, NEW snapshot,
           Resume(snapshot), checkpoint' = snapshot, UNCHANGED <<log, pending, rows>>,
           Follows(snapshot), SettledAreCounted(snapshot)
    PROVE  OnTime'
<1>0. TInv /\ OnTime
  BY DEF TimelyInv
<1>1. \A k \in Keys : TimelyOf(k)' = TimelyOf(k) /\ Passed(k[2])' = Passed(k[2])
  BY DEF TimelyOf, Timely, Timestamp, Group, Passed, Reached, Last
<1>2. SeenIsRead'
  BY DEF Resume, SeenIsRead
<1>3. Follows(checkpoint)'
  BY DEF Follows, Reached, Timestamp, Closed, Last
<1>4. Follows(Now)'
  <2>1. Now'.position = snapshot.position /\ Now'.watermark = snapshot.watermark
        /\ Now'.arrived = snapshot.arrived
    BY DEF Now, Resume
  <2> QED
    BY <2>1 DEF Follows, Reached, Timestamp, Closed, Last
<1>5. BufferedAreComplete' /\ WrittenAreComplete'
  BY <1>0, <1>1 DEF OnTime, BufferedAreComplete, WrittenAreComplete, Counts
<1>6. SettledAreCounted(checkpoint)'
  BY <1>1 DEF SettledAreCounted, Counts, Closed, Last
<1>7. ClosedAreCounted'
  BY <1>1 DEF Resume, ClosedAreCounted, SettledAreCounted, Counts, Closed, Last
<1> QED
  BY <1>2, <1>3, <1>4, <1>5, <1>6, <1>7 DEF OnTime

\* Every step keeps the counts complete, until the first reconciliation.
LEMMA NextTimelyInv == TimelyInv /\ [Next]_vars => TimelyInv'
<1> SUFFICES ASSUME TimelyInv, [Next]_vars PROVE TimelyInv'
  OBVIOUS
<1>0. TInv /\ TInv'
  BY NextTInv DEF TimelyInv
<1> SUFFICES ASSUME Cardinality(Partitions) = 1, repairs' = 0 PROVE OnTime'
  BY <1>0 DEF TimelyInv
<1> USE DEF state, tables, repair
<1>1. ASSUME NEW from \in Boundaries, NEW until \in Boundaries, Reconcile(from, until) PROVE FALSE
  BY <1>0, <1>1, PipelineAssumption DEF Reconcile, TInv, TypeOK
<1>2. repairs = 0
  BY <1>1 DEF Next, Step, Publish, Read, Advance, FlushAudit, FlushDead, FlushRows, Checkpoint,
              Fail, Cancel, Lose, Restart, Resubmit, vars
<1>3. OnTime
  BY <1>2 DEF TimelyInv
<1>4. CASE \E p \in Partitions, r \in Record : Publish(p, r)
  BY <1>0, <1>2, <1>4, PublishOnTime
<1>5. CASE \E p \in Partitions : Read(p) \/ Advance(p)
  BY <1>0, <1>2, <1>5, ReadOnTime, AdvanceOnTime
<1>6. CASE FlushAudit \/ FlushDead
  <2>1. /\ UNCHANGED <<log, position, watermark, arrived, seen, checkpoint, rows, job>>
        /\ job = "running" /\ pending'.rows = pending.rows
    BY <1>0, <1>6 DEF FlushAudit, FlushDead, TInv, TypeOK
  <2> QED
    BY <1>0, <1>2, <2>1, WriteOnTime
<1>7. ASSUME NEW table \in {"payments", "activity"}, FlushRows(table) PROVE OnTime'
  <2>1. /\ UNCHANGED <<log, position, watermark, arrived, seen, checkpoint, job>> /\ job = "running"
        /\ rows' = Upserted(table)
        /\ pending'.rows = [k \in Keys |-> IF k[1] = table THEN 0 ELSE pending.rows[k]]
    BY <1>0, <1>7 DEF FlushRows, TInv, TypeOK
  <2>2. \A k \in Keys : pending.rows[k] \in Nat /\ rows[k] \in Nat
    BY <1>0 DEF TInv, TypeOK
  <2>3. \A k \in Keys :
            \/ pending'.rows[k] = pending.rows[k] /\ rows'[k] = rows[k]
            \/ pending'.rows[k] = 0 /\ rows'[k] = pending.rows[k] /\ pending.rows[k] > 0
    BY <2>1, <2>2 DEF Upserted
  <2> QED
    BY <1>0, <1>2, <2>1, <2>3, WriteOnTime
<1>8. CASE Checkpoint
  BY <1>0, <1>2, <1>8, CheckpointOnTime
<1>9. CASE Fail \/ Cancel
  <2>1. /\ UNCHANGED <<log, position, watermark, arrived, seen, checkpoint, rows>>
        /\ job' # "running" /\ \A k \in Keys : pending'.rows[k] = 0
    BY <1>9 DEF Fail, Cancel, Lose, AfterFailure, NothingPending
  <2> QED
    BY <1>0, <1>2, <2>1, WriteOnTime
<1>10. CASE Restart
  BY <1>0, <1>2, <1>3, <1>10, ResumeOnTime DEF Restart, OnTime
<1>11. ASSUME NEW restore \in BOOLEAN, Resubmit(restore) PROVE OnTime'
  <2> DEFINE snapshot == IF restore THEN checkpoint ELSE Start
  <2>1. Follows(snapshot) /\ SettledAreCounted(snapshot)
    BY <1>3, StartOnTime DEF OnTime
  <2>2. Resume(snapshot) /\ checkpoint' = snapshot /\ UNCHANGED <<log, pending, rows>>
    BY <1>11 DEF Resubmit
  <2> HIDE DEF snapshot
  <2> QED
    BY <1>0, <1>2, <2>1, <2>2, ResumeOnTime
<1>12. CASE UNCHANGED vars
  <2>1. UNCHANGED <<log, job, position, watermark, arrived, seen, checkpoint, pending, rows>>
    BY <1>12 DEF vars
  <2>2. \A k \in Keys : pending'.rows[k] = pending.rows[k] /\ rows'[k] = rows[k]
    BY <2>1
  <2> QED
    BY <1>0, <1>2, <2>1, <2>2, WriteOnTime
<1> QED
  BY <1>1, <1>4, <1>5, <1>6, <1>7, <1>8, <1>9, <1>10, <1>11, <1>12 DEF Next, Step

\* "This permits some out-of-order arrival": with one partition and before any
\* reconciliation, however often the job fails, restarts, replays or is submitted
\* again, a row counts every event that came within the watermark's delay, and a
\* window that a checkpoint has closed has its rows.
THEOREM TimelyAreCounted == Spec => []TimelyIsCounted
<1>1. Init => TimelyInv
  <2> SUFFICES ASSUME Init PROVE TimelyInv
    OBVIOUS
  <2>1. TInv
    BY InitTInv
  <2>2. SeenIsRead
    BY DEF Init, SeenIsRead
  <2>3. Now = Start /\ checkpoint = Start
    BY DEF Init, Now, Start
  <2>4. Follows(Now) /\ Follows(checkpoint) /\ SettledAreCounted(checkpoint)
    BY <2>3, StartOnTime
  <2>5. BufferedAreComplete /\ WrittenAreComplete
    BY DEF Init, NothingPending, BufferedAreComplete, WrittenAreComplete
  <2>6. ClosedAreCounted
    BY StartOnTime DEF Init, ClosedAreCounted, SettledAreCounted
  <2> QED
    BY <2>1, <2>2, <2>4, <2>5, <2>6 DEF TimelyInv, OnTime
<1>2. Spec => []TimelyInv
  BY <1>1, NextTimelyInv, PTL DEF Spec
<1>3. TimelyInv => TimelyIsCounted
  <2> SUFFICES ASSUME TimelyInv, Cardinality(Partitions) = 1, repairs = 0, NEW k \in Keys,
                      rows[k] > 0 \/ Closed(k[2], checkpoint.watermark)
               PROVE  rows[k] >= Cardinality({e \in Group(k) : Timely(e)})
    BY DEF TimelyIsCounted
  <2> QED
    BY DEF TimelyInv, OnTime, WrittenAreComplete, SettledAreCounted, Counts, TimelyOf
<1> QED
  BY <1>2, <1>3, PTL
=============================================================================
