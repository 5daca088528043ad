--------------------------- MODULE PaymentsPipeline ---------------------------
(***************************************************************************)
(* The payments job of flink-processor/pipeline.py: every Kafka record is  *)
(* routed to the audit table or to the dead-letter topic, valid events are *)
(* counted once per event-time window, and sql/reconcile_event_time_-      *)
(* windows.sql recomputes windows from the audit rows while the job is     *)
(* stopped.  Flink's sinks write at least once: what they have buffered is *)
(* lost with the job and written again by the replay.                      *)
(*                                                                         *)
(* The job runs with its default parallelism of one.  Currencies only      *)
(* split the groups further and are left out; revenue is the sum over the  *)
(* events that payment_count counts.                                       *)
(***************************************************************************)
EXTENDS Integers, Sequences, FiniteSets, Functions

CONSTANTS
    Partitions,       \* partitions of user-events
    Events,           \* immutable business events, by event_id
    At,               \* their timestamps
    Type,             \* their event types
    Damaged,          \* events of which copies may come damaged or too early
    Size,             \* EVENT_WINDOW_SECONDS
    Delay,            \* EVENT_WATERMARK_SECONDS
    MaxLog,           \* bound: records per partition
    RestartAttempts,  \* restart-strategy.fixed-delay.attempts
    MaxRepairs        \* bound: runs of the reconciliation script

ASSUME PipelineAssumption ==
    /\ IsFiniteSet(Partitions) /\ IsFiniteSet(Events)
    /\ At \in [Events -> Nat \ {0}] /\ Damaged \subseteq Events
    /\ Size \in Nat \ {0} /\ Delay \in Nat
    /\ MaxLog \in Nat /\ RestartAttempts \in Nat /\ MaxRepairs \in Nat

\* An event as it was received: a copy that arrives too far ahead of the
\* broker's clock, or is damaged, is not valid.
Record == {r \in [event: Events, valid: BOOLEAN] : r.valid \/ r.event \in Damaged}
Coordinates == Partitions \X (0 .. (MaxLog - 1))

Types == {Type[e] : e \in Events}
Window(e) == At[e] \div Size
Windows == {Window(e) : e \in Events}
Last(w) == (w + 1) * Size - 1  \* the last instant of a window

\* The rows of payment_revenue_windows and activity_windows.
Keys == {k \in {"payments", "activity"} \X Windows \X Types : k[1] = "payments" => k[3] = "payment"}
Group(k) == {e \in Events : Window(e) = k[2] /\ Type[e] = k[3]}

VARIABLES
    log,         \* Kafka: the records of each partition
    job,         \* "running", "restarting", or "stopped"
    attempts,    \* restarts used
    position,    \* the offset each split reads next
    seen,        \* the greatest event time met in each partition
    watermark,   \* the watermark the window operators have reached
    arrived,     \* open windows: deliveries of each event that came in time
    checkpoint,  \* the last completed checkpoint
    pending,     \* what the sinks have buffered
    audit,       \* processed_events
    dead,        \* the dead-letter topic: coordinates it has a record for
    rows,        \* window rows: the count of each, 0 for a missing row
    repairs,     \* runs of the reconciliation script
    repaired     \* windows reconciled since the job last ran

state == <<position, watermark, arrived>>
tables == <<audit, dead, rows>>
repair == <<repairs, repaired>>
vars == <<log, job, attempts, seen, state, checkpoint, pending, tables, repair>>

\* Before any event: epoch zero, which invalid records stand for, less the delay.
Start == [position |-> [p \in Partitions |-> 0], watermark |-> -Delay, arrived |-> [e \in Events |-> 0]]
NothingPending == [audit |-> {}, dead |-> {}, rows |-> [k \in Keys |-> 0]]

TypeOK ==
    /\ log \in [Partitions -> Seq(Record)] /\ \A p \in Partitions : Len(log[p]) <= MaxLog
    /\ job \in {"running", "restarting", "stopped"}
    /\ attempts \in 0 .. RestartAttempts
    /\ position \in [Partitions -> 0 .. MaxLog]
    /\ watermark \in Int
    /\ arrived \in [Events -> Nat]
    /\ checkpoint \in [position: [Partitions -> 0 .. MaxLog], watermark: Int, arrived: [Events -> Nat]]
    /\ seen \in [Partitions -> Nat]
    /\ pending \in [audit: SUBSET Events, dead: SUBSET Coordinates, rows: [Keys -> Nat]]
    /\ audit \in SUBSET Events /\ dead \in SUBSET Coordinates
    /\ rows \in [Keys -> Nat]
    /\ repairs \in 0 .. MaxRepairs /\ repaired \in SUBSET Windows

Init ==
    /\ log = [p \in Partitions |-> <<>>]
    /\ job = "running" /\ attempts = 0
    /\ position = Start.position /\ watermark = Start.watermark /\ arrived = Start.arrived
    /\ seen = [p \in Partitions |-> 0]
    /\ checkpoint = Start
    /\ pending = NothingPending
    /\ audit = {} /\ dead = {} /\ rows = [k \in Keys |-> 0]
    /\ repairs = 0 /\ repaired = {}

-----------------------------------------------------------------------------
\* A producer's record is appended: an event for the first time or again.
Publish(p, r) ==
    /\ Len(log[p]) < MaxLog
    /\ log' = [log EXCEPT ![p] = Append(@, r)]
    /\ UNCHANGED <<job, attempts, seen, state, checkpoint, pending, tables, repair>>

\* validated_timestamp: epoch zero for a record that is not valid.
Timestamp(r) == IF r.valid THEN At[r.event] ELSE 0

\* Mistake: the watermark's delay is left out.
Mistake_Closed(w, time) == Last(w) <= time + Delay

Closed(w, time) == Last(w) <= time

\* The job reads a record: parse_event routes it, and a valid event joins its
\* window unless that has closed.
Read(p) ==
    /\ job = "running"
    /\ position[p] < Len(log[p])
    /\ LET r == log[p][position[p] + 1]
       IN  /\ seen' = [seen EXCEPT ![p] = IF Timestamp(r) > @ THEN Timestamp(r) ELSE @]
           /\ arrived' = IF r.valid /\ ~Closed(Window(r.event), watermark)
                         THEN [arrived EXCEPT ![r.event] = @ + 1] ELSE arrived
           /\ pending' = IF r.valid
                         THEN [pending EXCEPT !.audit = @ \cup {r.event}]
                         ELSE [pending EXCEPT !.dead = @ \cup {<<p, position[p]>>}]
    /\ position' = [position EXCEPT ![p] = @ + 1]
    /\ UNCHANGED <<log, job, attempts, watermark, checkpoint, tables, repair>>

\* Mistake: every delivery of an event counts.
Mistake_Count(k) == FoldFunctionOnSet(+, 0, arrived, Group(k))

\* ROW_NUMBER() = 1: one of an event's deliveries counts.
Count(k) == Cardinality({e \in Group(k) : arrived[e] > 0})

\* The watermark goes on, some time after the record that moved it; the windows
\* it passes close, and their groups' rows go to the sinks.  It follows one of
\* the partitions: which one is open, "do not assume independent per-Kafka-
\* partition clocks" (EVENT_TIME_BUSINESS_LOGIC.md:30).
Advance(p) ==
    LET time == seen[p] - Delay
        closing == {w \in Windows : Closed(w, time) /\ ~Closed(w, watermark)}
    IN  /\ job = "running"
        /\ watermark < time
        /\ watermark' = time
        /\ arrived' = [e \in Events |-> IF Window(e) \in closing THEN 0 ELSE arrived[e]]
        /\ pending' = [pending EXCEPT !.rows = [k \in Keys |->
               IF k[2] \in closing /\ Count(k) > 0 THEN Count(k) ELSE @[k]]]
        /\ UNCHANGED <<log, job, attempts, position, seen, checkpoint, tables, repair>>

\* A JDBC sink's or the Kafka sink's buffer is written.
FlushAudit ==
    /\ job = "running" /\ pending.audit # {}
    /\ audit' = audit \cup pending.audit
    /\ pending' = [pending EXCEPT !.audit = {}]
    /\ UNCHANGED <<log, job, attempts, seen, state, checkpoint, dead, rows, repair>>

FlushDead ==
    /\ job = "running" /\ pending.dead # {}
    /\ dead' = dead \cup pending.dead
    /\ pending' = [pending EXCEPT !.dead = {}]
    /\ UNCHANGED <<log, job, attempts, seen, state, checkpoint, audit, rows, repair>>

\* Upserts by the key of the table.
Upserted(table) == [k \in Keys |-> IF k[1] = table /\ pending.rows[k] > 0 THEN pending.rows[k] ELSE rows[k]]

FlushRows(table) ==
    /\ job = "running"
    /\ \E k \in Keys : k[1] = table /\ pending.rows[k] > 0
    /\ rows' = Upserted(table)
    /\ pending' = [pending EXCEPT !.rows = [k \in Keys |-> IF k[1] = table THEN 0 ELSE @[k]]]
    /\ UNCHANGED <<log, job, attempts, seen, state, checkpoint, audit, dead, repair>>

\* Mistake: a checkpoint does not wait for the sinks.
Mistake_Flushed == TRUE

\* The sinks flush when the checkpoint's barrier reaches them.
Flushed == pending = NothingPending

Checkpoint ==
    /\ job = "running"
    /\ Flushed
    /\ checkpoint' = [position |-> position, watermark |-> watermark, arrived |-> arrived]
    /\ UNCHANGED <<log, job, attempts, seen, state, pending, tables, repair>>

-----------------------------------------------------------------------------
\* Mistake: restarts are not counted.
Mistake_AfterFailure == "restarting"

AfterFailure == IF attempts < RestartAttempts THEN "restarting" ELSE "stopped"

\* The job fails or is cancelled, and its buffers go with it.
Lose(next) ==
    /\ job = "running"
    /\ job' = next
    /\ pending' = NothingPending
    /\ UNCHANGED <<log, attempts, seen, state, checkpoint, tables, repair>>

Fail == Lose(AfterFailure)
Cancel == Lose("stopped")

\* Mistake: the offsets go on where the job was lost.
Mistake_Resume(snapshot) ==
    /\ job' = "running"
    /\ UNCHANGED state
    /\ seen' = [p \in Partitions |-> 0]

\* Offsets and windows as in a snapshot; the watermark assigner starts over.
Resume(snapshot) ==
    /\ job' = "running"
    /\ position' = snapshot.position
    /\ watermark' = snapshot.watermark
    /\ arrived' = snapshot.arrived
    /\ seen' = [p \in Partitions |-> 0]

Restart ==
    /\ job = "restarting"
    /\ attempts' = attempts + 1
    /\ Resume(checkpoint)
    /\ UNCHANGED <<log, checkpoint, pending, tables, repair>>

\* main is run again, with FLINK_RESTORE_PATH or from the earliest offsets.
Resubmit(restore) ==
    LET snapshot == IF restore THEN checkpoint ELSE Start
    IN  /\ job = "stopped"
        /\ attempts' = 0
        /\ checkpoint' = snapshot
        /\ Resume(snapshot)
        /\ repaired' = {}
        /\ UNCHANGED <<log, pending, tables, repairs>>

-----------------------------------------------------------------------------
\* Mistake: the lower end of the range is left out.
Mistake_InRange(e, from, until) == from < At[e] /\ At[e] < until

InRange(e, from, until) == from <= At[e] /\ At[e] < until

\* The reconciliation of whole windows, from from_utc up to until_utc; a group
\* that the audit has no row of keeps its row.
Reconcile(from, until) ==
    /\ job = "stopped"
    /\ repairs < MaxRepairs
    /\ repairs' = repairs + 1
    /\ LET selected == {e \in audit : InRange(e, from, until)}
       IN  rows' = [k \in Keys |->
                  IF Group(k) \cap selected = {} THEN rows[k] ELSE Cardinality(Group(k) \cap selected)]
    /\ repaired' = repaired \cup {w \in Windows : from <= w * Size /\ w * Size < until}
    /\ UNCHANGED <<log, job, attempts, seen, state, checkpoint, pending, audit, dead>>

Boundaries == {w * Size : w \in Windows} \cup {(w + 1) * Size : w \in Windows}

Step ==
    \/ \E p \in Partitions : Read(p) \/ Advance(p)
    \/ FlushAudit
    \/ FlushDead
    \/ \E table \in {"payments", "activity"} : FlushRows(table)

Next ==
    \/ \E p \in Partitions, r \in Record : Publish(p, r)
    \/ Step
    \/ Checkpoint
    \/ Fail
    \/ Cancel
    \/ Restart
    \/ \E restore \in BOOLEAN : Resubmit(restore)
    \/ \E from, until \in Boundaries : from < until /\ Reconcile(from, until)

Spec == Init /\ [][Next]_vars

\* Splits are read, sinks flush within a second, and a failed job is restarted.
Fairness ==
    /\ \A p \in Partitions : WF_vars(Read(p))
    /\ WF_vars(FlushAudit) /\ WF_vars(FlushDead)
    /\ WF_vars(Restart)

FairSpec == Spec /\ Fairness

-----------------------------------------------------------------------------
(* Properties.                                                             *)

\* Where a record belongs: "exhaustive valid/invalid routing".
Routed(p, i) ==
    LET r == log[p][i] IN IF r.valid THEN r.event \in audit ELSE <<p, i - 1>> \in dead

\* Every record a completed checkpoint has left behind is durable: as an audit
\* row if it is valid, in the dead-letter topic if not, whatever was lost since.
CheckpointedIsRouted ==
    \A p \in Partitions : \A i \in 1 .. checkpoint.position[p] : i <= Len(log[p]) /\ Routed(p, i)

Valid(e) == \E p \in Partitions : \E i \in 1 .. Len(log[p]) : log[p][i] = [event |-> e, valid |-> TRUE]

\* A window row never counts an event twice, nor one that was never published
\* validly: not through duplicates, replays, upserts or reconciliations.
RowsCountDistinctEvents ==
    \A k \in Keys : rows[k] <= Cardinality({e \in Group(k) : Valid(e)})

\* A record of a single partition that no earlier record is ahead of by the
\* watermark's delay or more.
Timely(e) ==
    \E p \in Partitions : \E i \in 1 .. Len(log[p]) :
        /\ log[p][i] = [event |-> e, valid |-> TRUE]
        /\ \A j \in 1 .. (i - 1) : Timestamp(log[p][j]) < At[e] + Delay

\* "This permits some out-of-order arrival": with one partition, a row counts
\* every event that came within the delay, in the first run and in every replay,
\* and a window the checkpoint has closed has its rows (before a reconciliation,
\* which counts what the audit has).
TimelyIsCounted ==
    Cardinality(Partitions) = 1 /\ repairs = 0 =>
        \A k \in Keys :
            rows[k] > 0 \/ Closed(k[2], checkpoint.watermark) =>
                rows[k] >= Cardinality({e \in Group(k) : Timely(e)})

\* "Recompute completed windows ..., including late data": after a repair, while
\* the job is stopped, the rows count all that a checkpoint had left behind.
RepairedIsComplete ==
    \A k \in Keys : k[2] \in repaired =>
        rows[k] >= Cardinality({e \in Group(k) :
            \E p \in Partitions : \E i \in 1 .. checkpoint.position[p] :
                log[p][i] = [event |-> e, valid |-> TRUE]})

\* Every published record is routed, or the job has used up its restarts or was
\* cancelled.
EveryRecordIsRouted ==
    \A p \in Partitions : \A i \in 1 .. MaxLog :
        i <= Len(log[p]) ~> (i <= Len(log[p]) /\ Routed(p, i)) \/ job = "stopped"
=============================================================================
