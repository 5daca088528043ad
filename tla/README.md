# TLA+ models of the kafka-flink-pipeline repository

This directory holds models of the event path of *JourneyPulse* — browser tracker,
event gateway, Kafka, Flink profile processor, PostgreSQL profiles, segments and
targeting —, of the services around it, of the payments pipeline and of the tools that
keep evidence about it, together with TLC runs and TLAPS proofs. Paths below are relative to
the repository's root; `jp/` stands for `journeypulse/`.

```
tlc -workers 4 -config MCProfileLedgerOrders.cfg MCProfileLedger   # any run of PROJECT.json
tlapm ProfileLedgerTotals.tla                                      # any proof module
```

`PROJECT.json` lists the components, the runs, the properties' mutants (a wrong
version of one definition under which the property must fail; the operators named
`Mistake_...` in the modules), the map from definitions to source lines, the hazards
and the theorems.

## 1. Inventory

How an event travels: the page calls `track`; the tracker batches events into
`POST /v1/events`; the gateway validates each one and publishes it, keyed by user, to
`journeypulse-events` or `journeypulse-quarantine`; a Flink job reads the topic and
calls `ProfileStore.apply` once per record; that one PostgreSQL transaction
deduplicates, updates the customer's behaviour and evaluates the segments; a worker
re-evaluates customers whose memberships change by time alone; the customer API
onboards customers and serves profiles and targeting decisions.

| Component | State it keeps | Operations | What is hard | What makes it correct |
| --- | --- | --- | --- | --- |
| **Browser tracker** `jp/sdk/journeypulse.mjs` | queue with attempts, the running drain, refresh flag, totals | `track`, `flush`, timer, `pagehide`, `close`, `_drain`, `_request` | awaits between reading the queue and using the reply; lost and late replies; a token call that outlives its request; calls that join a running pass | each event queued or reported exactly once; accepted means stored; passes end |
| **Event gateway** `jp/gateway.py`, `jp/publisher.py` | in-flight semaphore, rate-limit history, Kafka producer and its buffer | `authenticate`, `rate_limit`, `body`, `events`, `publish_many` | thread that outlives `wait_for`; acknowledgement lost after the append; partial batches; a future timestamp that becomes valid | `accepted` only after an acknowledgement; a rejected event says truthfully whether it is quarantined |
| **Profile ledger** `jp/processor.py`, `jp/profiles.py`, `jp/sql/002_profiles.sql` | receipts per Kafka coordinate, live event ids, summaries, orders, carts, views, evaluations | `map()`, `apply`, `prune`, `onboard`, `update` | crash between commit and checkpoint, zombie commits of abandoned sessions, the same id on two partitions, retention, reused ids, a recreated topic | each accepted record has exactly the effect of one contribution per id and retention period, and none is skipped |
| **Segments** `jp/segments.py`, `jp/segment_worker.py`, `jp/profiles.py`, `jp/sql/003_segments.sql` | views, carts, order counts, evaluation (version, time, next), memberships, consent | `record_behavior`, `evaluate_customer`, `evaluate_due`, `targeting`, rule versions | time changes memberships with no event, late and early events, concurrent evaluators, pruning, reads in two queries | a stored evaluation stays right until its deadline; nobody is served who does not match or consent |
| **Customer API** `jp/customer_api.py`, `jp/auth.py`, `ProfileStore.update` | customers' attributes; tokens are stateless; a rate limit per source in each process | `session`, `authenticate`, onboarding, update, profile and targeting reads | write and read in two transactions; a commit whose acknowledgement is lost; partial updates from several threads; consent revoked during a read | every attribute is what the last committed write that named it said; as for segments |
| **Rate limit** `jp/gateway.py:29-42` | grant times per source | `allow` | boundary of the minute; threads of the customer API | no minute has more than the budget |
| **Bootstrap** `jp/bootstrap.py`, `register_rules` | topics, applied migrations, registered definitions | `ensure_topics`, `ensure_database`, read-only checks | concurrent commands of builds that disagree, interruption half-way, topics the broker made by itself | `ready` is true and stays true; a re-run completes |
| JourneyPulse contracts `jp/contracts.py`, `contracts/journeypulse` | JSON Schema | `validation_errors` | none: pure predicate | — |
| Payments producer and contract `producer/`, `event_contract.py` | counters | generate, validate | none of note | — |
| **Payments Flink pipeline** `flink-processor/pipeline.py`, `sql/` | event-time windows, dead letters, JDBC tables | window queries, upserts, reconciliation SQL | late events, replay after a crash, reconciliation of the same windows | a window's row is what its distinct events amount to |
| **Lakehouse** `lakehouse_config.py`, `lakehouse_ops.py`, `scripts/lakehouse.py` | Iceberg snapshots, reports, replay manifests | `reconcile`, `replay`, maintenance | a MERGE the client gave up on commits later; a replay dies between acknowledgement and manifest; repeated archive rows | a group has the row of the last MERGE over it; a manifest that is whole is true |
| **Operational metrics** `monitoring/metrics.py` | the source observer's sliding window and coverage; gauges | `kafka_loop`, `QualityWindow`, `record_source_quality` | restarts at the end of the topic, records out of order, clocks that differ | counts are exactly the window's; no gap is called covered |
| **Recovery drill** `scripts/recovery_drill.py`, `recovery_probe.py` | report and manifest | checkpoint, publish, verify, kill, verify | the job takes checkpoints and fails by itself meanwhile | a drill that passes has seen a replay |
| **DataLens** `datalens/` | investigation slots; evidence tables | `investigate`, `retrieve`, `assess`, `validate` | the pipeline writes between queries; the model cites what it was not shown; slots on error paths | a report is of one instant, every ref resolves, slots come back |
| `kafka/` (a checked-in virtual environment), web assets | | third-party or generated | | |

## 2. Modules

| Module | What it models |
| --- | --- |
| `BehaviorRows` | the rows of `002_profiles.sql`/`003_segments.sql` that ledger and segments share: `GREATEST` on nullable times (`Greatest`), what an event makes of the carts (`RecordCarts`, `segments.record_behavior`) |
| `ProfileLedger` | the Flink job and `ProfileStore.apply`, one action per database round trip, with crashes, restarts, resubmission, abandoned sessions, pruning, onboarding and the worker's evaluation |
| `ExactlyOnceLedger` | the abstract promise: a record is settled once, and an id contributes once until it is forgotten |
| `SegmentRules` | `segments.evaluate` and `targeting_response` as operators over one customer's rows |
| `Segments` | transactions of processors, workers, API writers and readers over those rows, a clock, rule versions |
| `Exchange` | the POST requests between one tracker and the gateway: what both sides share |
| `Tracker` | `JourneyPulseTracker` |
| `Gateway` | `POST /v1/events` and `KafkaPublisher` |
| `Capture` | `Tracker` and `Gateway` composed over `Exchange`, with the properties of the capture path |
| `PaymentsPipeline` | the payments job (`pipeline.py`) and `reconcile_event_time_windows.sql`, independent of the rest |
| `RateLimit` | `RateLimit.allow`, one action per operation on the deque, for any number of calling threads |
| `CustomerApi` | tokens, the customer API's requests and `ProfileStore.update` |
| `Bootstrap` | `bootstrap.py` and `register_rules`: creating and checking commands |
| `Investigation` | an investigation of the DataLens assistant, from slot to validated answer |
| `Reconciliation` | `lakehouse.py reconcile`: pinned snapshots, one MERGE, commits the client does not learn of |
| `Replay` | `lakehouse.py replay`: plan, sends, manifest |
| `Observer` | the source observer and the quality results it persists |
| `RecoveryDrill` | the drill, its probe, and the job it is run against |
| `MCProfileLedger`, `MCSegments`, `MCCapture`, `MCPaymentsPipeline`, `MCServices`, `MCEvidence` | instances for TLC |
| `ProfileLedgerProofs`, `ProfileLedgerSafety`, `ProfileLedgerTotals` | theorems about the ledger |
| `SegmentsProofs`, `CaptureProofs`, `PaymentsPipelineProofs` | theorems about segments, the capture path and the payments job |
| `ServicesProofs` | theorems about the rate limit, the customer API and the bootstrap |
| `EvidenceProofs` | theorems about investigations, reconciliation, replay, the observer and the drill |

### ProfileLedger and the code

A database session runs `apply`: `InsertReceipt` (`INSERT ... receipts ON CONFLICT`,
`profiles.py:72`), `ClaimIdentity` (the advisory lock and the id row, `:86-96`),
`CompareIdentity` (duplicate or conflict), `Apply` (the rest, up to the commit),
`AbortTransaction`, each of which may end in `RollBack`. Uncommitted writes are visible to nobody, so they are represented
by the locks they hold: a session past `InsertReceipt` has the unique index entry of its
coordinate, one past `ClaimIdentity` the advisory lock of its id. `Map`, `Return`,
`Checkpoint`, `Fail`, `Restart`, `Cancel` and `Resubmit` are the job (`processor.py`, the
fixed-delay strategy of ten attempts). Flink may abandon a session whose commit is on its
way; such a session goes on by itself ("zombie commit"). `Lapse` is an id that runs out
of its seven days and is pruned; `RecreateTopic` is a topic deleted and created again under the
same ledger. Kafka and Flink themselves are not part of the repository: they are modelled
from how the job uses them (offsets move with records, a checkpoint holds the offsets,
recovery goes back to it).

A receipt's `payload` is the event; in the code it is the whole transport record, so a
republished event has another `request_id` and another payload. Treating it as the same
payload only admits more histories. The abstract ledger needs two things the code does not
store under those names: which ids are retained and the effects, which the refinement
maps from the `ids` rows and the summaries. Of `evaluate_customer` this module keeps what it does to the ledger's
own tables, the pruning of views; the evaluation and the memberships, and that they are derived from the rows
`record_behavior` has just written (`profiles.py:126-127`), are the subject of `Segments` (`EvaluationStands`).

### Segments and the code

Writers are processors (`apply`'s `record_behavior` and `evaluate_customer`) and workers
(`evaluate_due`: `SELECT ... FOR UPDATE SKIP LOCKED` in the order of the deadline, then one
customer at a time, then one commit). Row locks are `txn[w].locked`. Readers make the two
queries of `targeting` in one repeatable-read transaction. `Tick` moves the clock, `Deploy`
changes the rule version, which the phase-4 guide allows only with writers paused.
Not represented: `SKIP LOCKED` may pick a customer that was just re-evaluated (harmless: it
is evaluated again), the order among equal deadlines, the statistics query. The snapshot and
`served_at` are one step.

### The capture path and the code

JavaScript runs to the next `await`, so `Tracker` has one action per stretch of code between
two awaits of `_drain` and `_request`: `Proceed` (the head of the loop up to `getToken`),
`SendRequest` (the token has arrived, `fetch` starts), `NoToken`, `Reply`, `NoReply`, `Wake`,
and one per call of the page. `Handle` is what `_drain` does with any reply. `LateToken` is
the continuation of a `getToken` call that lost its race with the timeout.

A request is a record of `exchange`. `GivenUp` leaves it on its way when the tracker stops
listening: the gateway may still admit, publish and answer it. `Gateway` has the awaits of
`events`: admission (`Admit`, with `inflight.locked()` and the semaphore as one step, there is
no await between them), the body (`RefuseBody`), validation and the start of the publishing
thread (`Validate`), the answer (`Respond`). The producer's `Store` and `GiveUp` happen before
or after the answer: `wait_for` cannot stop the thread and the producer keeps its buffer.
`Acknowledged` lets an acknowledgement be missing although the record was stored, as
`future.get` on a lost response or a deadline does. Topic and quarantine are sets of events:
duplicates inside Kafka are the ledger's business (`AppliedOncePerRetention`), which takes any
republication as `Publish`.

Left open (any outcome): token lifetime and rate limits (401, 403, 429 at any time); `RateLimit` and
`CustomerApi` say when the code does refuse. Left
out: backoff lengths, wording of errors and quarantine records, the checks of ids and names in
`track`, requests the tracker never sends (malformed JSON, empty batches).

### PaymentsPipeline and the code

The job is the SQL of `pipeline.py`, so its actions are what Flink does with it. `Read` takes a record
through `raw_events`, `validated_events` (`parse_event`, with the validity `decode_event` gives it),
the audit and dead-letter inserts and the two `TUMBLE`s of `unique_window_events` up to the open window.
`Advance` is the watermark passing: it closes windows, and `business_window_query` emits one row per
group, which counts each id once (`ROW_NUMBER() = 1`). Rows reach their tables when a sink flushes
(`FlushAudit`, `FlushDead`, `FlushRows`), as upserts by primary key. `Checkpoint` needs empty
buffers, as the sinks flush before it completes; `Fail`, `Cancel`, `Restart` and `Resubmit` lose what is buffered
and go on from the last checkpoint, or from the earliest offsets without `FLINK_RESTORE_PATH`.
`Reconcile` is the script on a stopped job.

Taken from Flink, as the job relies on it: window operators restore their watermark, the watermark
assigner does not; rows behind the watermark of a closed window are dropped; sinks write at least
once. With several partitions the watermark may follow any of them, as `EVENT_TIME_BUSINESS_LOGIC.md`
leaves that open; `TimelyIsCounted` is therefore checked with one. Left out: currencies and amounts
(they split groups and sum what is counted), idleness, a `window_seconds` of the script that differs from
the job's, and a larger `FLINK_PARALLELISM`. Event ids are immutable, as the documents require.

### The services and the code

`RateLimit` follows `allow` operation by operation: `EnterAllow` (the clock and the deque), `DropStale`
(`while history and history[0] <= now - 60`), `PopOldest`, `CheckBudget`, `Grant`. The gateway calls it on
its event loop, one call at a time. The customer API calls it from synchronous dependencies, which FastAPI
runs in a thread pool (`customer_api.py:74`): there two calls may overlap, the budget can be exceeded, and
`popleft` can meet a deque another thread has emptied (`"raised"`). `BudgetHolds` is checked and proved for
one caller; with two it does not hold. Nothing in the repository promises the limit under threads,
so this is a hazard without a property and not a finding.

`CustomerApi`: `Issue` (either service's `POST /v1/sessions`, under its own audience), `Receive`,
`CheckRequest` (`authenticate`, rate limit, `authorize`, `attributes`, in FastAPI's order), `CommitWrite`
(`ProfileStore.update`, with or without the acknowledgement), `FailRequest` (503 before the commit),
`ReadProfile` (a transaction of its own). `FirstEvent` is the processor's placeholder row. Signing is taken to identify
a token; the targeting read is in `Segments`.

`Bootstrap`: `ListTopics`, `CreateTopic`, `VerifyTopics` are `ensure_topics`; `BeginRegistration` (the advisory
lock) and `CommitCatalogue` are the one transaction of `ensure_database`; `CheckMigrations` and
`CheckDefinitions` the read-only variant, each query on what is committed by then. `AutoCreate` is the broker
creating a topic for a client that names it first. Constants give each command the definitions of its build.

### The evidence tools and the code

`Investigation`: `Arrive` (`SLOTS.acquire(blocking=False)`), `Collect`, `Compare`, `Measure` (the queries of
`investigate`, all of the snapshot that the first fixed), `Assess` (`retrieve`, at most one call of the model,
`validate`, and the `finally`), `Fail` (at a query, or in the assessment; the `finally` frees the slot). The comparison, the sample shown to the model, the refs of observations
and the acceptance of hypotheses are operators with the code's rules and smaller limits. What the model answers
is a constant set of good and bad assessments. `PipelineWrites` is the payments job.

`Reconciliation`: `Pin`, `Check`, `Submit`, `Report`, `GiveUp` are the client; `CommitMerge` and `AbortMerge` the
server, which goes on when the client has given up. Iceberg commits optimistically: a MERGE that has read an
older version of the table is refused (`Current`). `Canonical` is `canonical_cte` (one row per event id, conflicting
ids apart). The MERGE is taken as removing what the table has in the range and putting in what it rebuilt.

`Replay`: `Plan` (`replay_sql` on the pinned snapshot, every payload decoded before the first send), `Send` (with
the producer's repetitions), `AppendLate` (a send that was given up arrives while the producer closes, or after the process has
ended), `Rewrite` (the manifest after each acknowledgement), `Flush`, `Close`, `Interrupt`
(an exception: the `finally` still writes), `Kill` (nothing is written any more; a rewrite may be torn). `Records` are those
of the range asked for: the filter of `replay_sql` on topic, partition and offsets is left out.

`Observer`: `SeekToEnd` and `BeginCoverage` (two steps: `observer_start` is taken after the seek), `PollSource`,
`Expose`, `Persist`, `FailObserver`. A record has the broker's timestamp, which may be behind or ahead of the
observer's clock; that clock does not go back in the model.

`RecoveryDrill`: the command's requests are actions of their own (`SeeRunning` and `SeeRestored` are the two of
`restored`). The job is external: it reads, writes, takes checkpoints, fails and is restored whenever
it likes, from the latest completed checkpoint, and what a lost TaskManager had not written is gone. All records of a
probe have one key, hence one partition. Taken from Flink: the dead-letter sink delivers a record once per time it is read
at most (its producer does not repeat), without which no count of deliveries could show a replay.

## 3. Runs

`CHECK_DEADLOCK FALSE` everywhere: logs, clocks and attempts are bounded, the page may leave
and a job may fail for good, so all these systems may stop.

| Run | Question | Bounds, and why they are enough |
| --- | --- | --- |
| `ledger_orders` | are summary, orders and carts exactly what the receipts amount to? | 1 partition, 3 records, 2 sessions, 1 restart, 1 lapse: the same order twice with different carts, an id reused with another payload, times out of order, an undecodable record, each redelivered after a crash |
| `ledger_shared` | does an id contribute once when it arrives on two partitions, do its effects come with one receipt that stays, is a record of a recreated topic ever skipped, does every record settle? | 2 partitions of one record, 2 customers, 2 sessions, 1 restart, 1 recreation with equal or other records at the same offsets; also the refinement |
| `segments_rules` | does a stored evaluation stay right until its deadline, does pruning lose anybody? | 7 ticks for windows of 2: an event can enter, stay in and leave every window; late, current and early events, a completion before and after its add |
| `segments_targeting` | is whoever is served as eligible really eligible? | 3 updates of consent, 6 ticks, staleness of 4 |
| `segments_versions` | can concurrent evaluators overwrite newer results or mix versions, can a due customer be passed over for ever? | 2 customers, 2 processors, 1 worker with batches of 1, 2 versions |
| `capture_delivery` | is each event in one place, and accepted only when stored? | 2 events of different size in one batch or two, 2 requests under way (one given up, one current), 2 attempts, 1 gateway restart, an event ahead of the clock; requests are interchangeable (symmetry) |
| `capture_liveness` | does an open page learn what became of every event? | as before, a rejected event, a token call that hangs |
| `payments` | is everything behind a checkpoint durable, what does a window's row count, does a reconciliation recover late events, is every record routed? | 1 partition of 3 records: events at both edges of one window and one that closes it, hence duplicates, an event out of order within the delay, late copies; one event also damaged; 1 restart, any number of resubmissions, 1 reconciliation of any range of whole windows. More partitions only add splits that route independently; the theorems cover any number |
| `journey_services` | do concurrent writes of one customer survive each other and retries; is the budget kept; is `ready` true and does a re-run complete? | 2 requests of either kind for 2 customers, 1 token of lifetime 1; 1 source, 2 grants in a window of 2, 6 instants (the boundary is reached twice); 2 creating and 1 checking command of 2 builds that agree on one name of three, 2 topics, 2 faults |
| `evidence` | the nine questions of the evidence tools, below | 2 clients for 1 slot, 2 windows in 2 lengths, 2 writes (one is not enough: what was read before it and after it would each agree with one state), limits of 1 so that samples and refs are cut; 3 deliveries with a conflict, 2 commands, windows of 1 and 2; 3 records of which one does not decode, 1 replay, 1 foreign message, 1 retry; 2 deliveries, timestamps 1 off either way, 1 restart; 3 probe records, 1 repetition by the producer, 3 checkpoints (one before the baseline, one after), 1 failure by itself (2 give the same result) |
| `capture_close` (violation) | does `close({flush: true})` flush? | 2 events, 2 attempts |
| `capture_refresh` (violation) | does a 401 lead to a refreshed token? | 1 event, 4 attempts, 1 hanging token call |

`journey_services` and `evidence` check *disjoint sums*: their parts share no state, so an initial state
chooses a part (`part`) and the others stay put. The runs of the parts are in the sum as they are; the sums say
nothing about interactions between parts, of which there are none in these models. The `TypeOK`-like invariants of
the parts (`RateType`, `ApiType`, `BootType`, `InvType`, `ReconcileType`, `ReplayType`, `ObserverType`, `DrillType`) are not
among a run's properties, except as parts of the invariants that are proved; each held when it was run by itself.

### What the properties say

*Ledger.* `TotalsMatchReceipts`: revision, per-name counts and the distinct-order total equal
what the applied receipts and orders give. `LatestAreMaxima`: the latest times are maxima over
applied events in whatever order they came. `CartsFollowFacts`: a cart is terminal exactly from
the facts about it, whichever arrived first. `EffectsNeedAReceipt`: a customer's behaviour changes, and a
view is added, only together with one new applied receipt of that customer, and no receipt is ever changed: a redelivery or a
zombie commit turns no outcome into another and brings no pruned view back. `AppliedOncePerRetention`, `ImplementsExactlyOnce`: exactly-once.
`NoRecordSkipped`: what a source position or a checkpoint has left behind has a receipt for that
very payload. `EveryRecordSettles`: or the job has used up its restarts. Proved and no longer run:
`FirstFactsWin` (an order's first facts never change), `RefusalsAreJustified` (a duplicate or conflict has its
witness among the receipts).

*Segments.* `EvaluationStands`: until its deadline a stored evaluation equals what the rules say of
all applied events now, late or early ones included. `NobodyIsMissed`: pruned views were not needed.
`EligibleIsTrue`, `ResponseIsOneSnapshot`: what is served was true of one instant, with consent.
`EvaluationMatchesMemberships`, `EvaluationsMoveForward`: evaluation and memberships are one unit
and never go back. `DueIsEvaluated`: nobody starves.

*Capture.* `EachEventOnce`: an event is queued or has been reported once, with one status, and the
totals count that. `AcceptedIsDelivered`: what is reported accepted is in the topic, what is called
quarantined is in the quarantine. `ReportedIsNotResent`: a request carries only unsettled events, each
charged an attempt. `EveryEventIsReported`: without any help of the gateway.

*Payments.* `CheckpointedIsRouted`: what a completed checkpoint has left behind is in the audit table or
the dead-letter topic. `RowsCountDistinctEvents`: no row counts more than its group's distinct published
events. `TimelyIsCounted`: a written row, and every row of a window that the checkpoint has closed, counts
all events within the watermark's delay. `RepairedIsComplete`: until the job runs again, a reconciled row
counts all checkpointed events of its window. (A later replay may overwrite it: documented, and possible in the
model.) `EveryRecordIsRouted`: or the job has used up its restarts or was cancelled.

*Services.* `CustomersHoldTheirWrites`: each attribute is what the last committed write that named it said, a consent's
instant is that write's, a customer is onboarded as of the first onboarding — through overlapping requests, lost
acknowledgements and repetitions. `BudgetHolds`: of any limit-plus-one grants the last comes a minute after the first.
`ReadyIsRegistered`: as long as a command has said ready and not been run again, topics, schema and its own
definitions are as it said, whatever others did since. `RerunCompletes`: a command run again and again gets ready, unless a
topic has other settings or another build registered something else.

*Evidence.* `ReportIsOneInstant`, `EveryRefResolves`, `SlotsComeBack`: as the table of components says.
`GroupsHoldTheirMerge`: a group has one row, with the count and the snapshot of the last MERGE that covered it, or none.
`CommittedIsMerged`: a report says committed only of its own MERGE, from a snapshot without conflicts.
`ManifestIsTrue`: after any failure a whole manifest lists the beginning of the plan at the offsets where it is, at most
one record behind the topic, and one that says acknowledged has all of the snapshot once. `CountsAreTheWindow`: a
result counts exactly what was read since the coverage began and is in the window, except records that were ever
ahead of the clock, which the code drops for good. `NoGapIsClaimed`: a result that is not called partial has missed
nothing. `PassShowsReplay`: when the drill passes, the source has read every record the probe put in the partition
at least twice since the baseline, the valid ones and repetitions by the producer too, of which the counted deliveries say nothing.
This rests on the probe's last record being an invalid one (`recovery_probe.py:31-39`, assumed in `DrillAssumption`). It does not say
that the kill was the reason: the JobManager may still say RUNNING of the job that was killed, and an accidental failure
before the kill may already have restored the baseline (`recovery_drill.py:99`); the model has such a behaviour.

### Fairness

Ledger: weak fairness of the job's own steps (`Map`, `Return`, the round trips of sessions, `Restart`):
Flink schedules a running job and psycopg's calls end; none for crashes, checkpoints or pruning.
Segments: the worker's loop runs on (`SelectDue`, `EvaluateNext` and `Commit` strongly fair, because
locks of others come and go), and a processor that has begun ends its transaction. Tracker: the timer
ticks (weak), and each await of `_request` ends (weak, on the disjunction of its outcomes), because
`requestTimeoutMs` rejects it at the latest. Payments: splits are read, the audit and dead-letter
buffers are flushed (within a second, or by the next checkpoint) and a failed job restarts; nothing of
checkpoints and failures. For the tracker, nothing is assumed of the gateway, Kafka or the network,
so a request may always fail; that is what the attempt limit is for. The timer can be turned off
(`flushIntervalMs` 0); `EveryEventIsReported` is about a tracker with its timer. Bootstrap: a running
command goes on, PostgreSQL grants the advisory lock to one that keeps waiting (strong), and the operator runs again what failed,
which is what the document asks of him. Investigation: database statements and the model's call have timeouts
(weak, on the steps of a request); nothing of the pipeline and the model's answers. In the sums this fairness
concerns one part and is vacuous in the others.

### Findings

* `capture_close`: `close` awaits `this.flush()`, which returns the running pass; that pass fixed its
  eligible set when it began (`journeypulse.mjs:129`). Events tracked since then are neither sent nor
  reported when `close({ flush: true })` resolves, the timer is gone, and the SDK's README says that it
  "flushes". (That README does say of `flush` that concurrent calls share one delivery loop.)
* `capture_refresh`: a `getToken` call that resolves after its request timed out still clears
  `forceRefresh` (`journeypulse.mjs:115`), also when a 401 of a later request has set it meanwhile. The
  next token is then asked for without a refresh; a later attempt repairs it if there is one.

## 4. Proofs

Every invariant and every action property that a run checks is also a theorem, for all values of the constants that
satisfy the assumption of its module. The first three modules are about `ProfileLedger`, for every set of partitions,
customers, ids, orders, carts, sessions and events that satisfies `LedgerAssumption`.

1. `ProfileLedgerProofs` — `TypeCorrect`. `TypeOK` is not inductive: `position` stays inside the
   log only because a task that returns had a record to work on. `TInv` adds `RestartIsAllowed` (a
   restarting job has an attempt left) and `TasksWait` (a task waits for a session at its own
   position).
2. `ProfileLedgerSafety` — the inductive invariant `TInv /\ SInv` (`Invariance`). `SInv` says who
   holds what while a transaction is in flight (`ReceiptsLocked`, `IdsLocked`: at most one session per
   coordinate and id, whose row is not there yet), that an acknowledged transaction is durable
   (`AcknowledgedIsDurable`), that a session's predecessors in the partition are settled
   (`PredecessorsSettled`), `NoRecordSkipped` itself, and that each retained id has an applied receipt
   with its payload (`IdsWitnessed`). Without the locks two sessions could each write the receipt the
   other has not seen; without durability a return would move the position past an unwritten record.
   From it: `NothingSkipped`, `RefusalsJustified`, `OneReceiptPerEffect` (a session that commits has no receipt at its
   coordinate yet, so its row overwrites none) and `ExactlyOnce`, which maps
   `Apply` to `Contribute`, refusals to `Refuse`, `Lapse` to `Forget` and all else to stuttering.
3. `ProfileLedgerTotals` — `OncePerRetention` and `TotalsMatch`: counting arguments over finite sets
   of coordinates; each step adds one receipt and one to each count it belongs to. `LatestTimesAreMaxima` and `CartRowsFollowFacts` are inductive only beside
   `RefusalsAreJustified`: a second event of an order adds nothing because the facts it repeats are those of an applied
   receipt, and that receipt is what the maxima and the carts are already accounted for by.

4. `PaymentsPipelineProofs`, from `PipelineAssumption` (finite sets of partitions and events, any window
   size, delay, log length and number of restarts): `TypeCorrect`; `CheckpointRouted`, with
   `RunningKeepsTrack` (a running job has routed what it has read or still holds it in a buffer), without
   which a checkpoint would prove nothing; `RowsCountDistinct`, with `OnlyPublished` and
   `PendingCountsDistinct`: windows, checkpoints, buffers and audit hold only published events, so
   each count is the cardinality of a part of the published group.
   `RepairsAreComplete` (`RepInv`): only a stopped job is repaired, and a repair reads from the audit table what
   `CheckpointedIsRouted` says is there.
   `TimelyAreCounted` (`TimelyInv`, with `OnTime`): for every window size and delay, with one partition and until something is
   reconciled. The newest time met is that of a record read (`SeenIsRead`); the watermark follows one, and what was read of
   windows it has not closed is in the window state, now and in the checkpoint (`Follows`); a row, buffered or written, is of a
   window that can get no more timely events, and counts them all (`BufferedAreComplete`, `WrittenAreComplete`); what the
   watermark has closed has its row in a buffer or the table (`ClosedAreCounted`), what the checkpoint's has closed in the
   table (`SettledAreCounted`). The checkpoint's half is what a restart starts from: then the source reads again
   records of windows that are closed, and drops them. The lemmas on windows (an event is in exactly one, they are disjoint) are for every size.

5. `ServicesProofs`. `BudgetIsKept`, from `RateAssumption` and `OneCaller` (no two calls of `allow` overlap): the deque
   is the tail of the grants, in order of time, everything not in it is older than the window (`WindowInv`,
   `OrderInv`), and a call past the loop has nothing stale left at its own instant (`CallInv`). Without the last a grant
   could not be related to the ones before. `ReadyStands`, `CatalogueStaysWhole`, `NothingChanges`, from
   `BootstrapAssumption`: `BootInv` says what each step of a command has established (topics verified, migrations
   and definitions compared) and that nobody takes it back; `NothingIsAltered` is why it lasts.
   `WritesAreHeld` (`ApiInv`), from `ApiAssumption`, which says of `None` that it is no attribute value, number or row: customers
   without a row were never written (`AbsentIsUnwritten`), so what an onboarding creates is the whole effect of the writes.

6. `EvidenceProofs`. `OneInstant`, `RefsResolve`, `CausesSupported` from `InvInv` (a snapshot is a past content of the
   database; rows are its comparison; see `Sound`), for any limits, clients and answers of the model. `CountsAreRight` and
   `NoGapClaimed` from `ObserverInv`: the deque is the polled records that are in the window or were not looked at
   yet, and the coverage begins after the seek. `GroupsHold` and `CommittedMerged` from `RecInv`: a MERGE that can commit has read
   the current version, and what a query carries is what its command pinned.
   `PassMeansReplayed` from `DrillInv`: as long as the latest completed checkpoint is the baseline or older, restores go back to before
   the probe (`BaselineIsBefore`), so no record is read more often than an earlier one (`ReadFromZero`); a delivery
   was read for itself (`EffectsAreRead`); the last record of the partition is an invalid one the command noted (`NotedLast`); hence when
   that one is delivered a second time all others were read a second time since the baseline, also after later checkpoints, which
   are behind what was read (`ReplayProgress`, `CheckpointsBehind`). Which failure made the job read them again is not claimed.
   `ManifestsAreTrue` from `ReplayInv`: a run's plan stays that of its snapshot while rows are added (`PlanIsPinned`); what is
   acknowledged is the beginning of the plan and in the topic (`AckedArePublished`); a record is sent only after all before it were acknowledged,
   so repetitions, lost answers and late arrivals of a send given up put one record more there at most (`BeginsPlan`; until
   such an arrival nothing is acknowledged any more); a whole manifest is behind the
   acknowledgements, and equal to them whenever something is sent (`ReportFollows`). That a plan has every record of the snapshot once is
   the lemma `InOrderIsComplete`: the records are numbered by how many come before them, and that numbering is a bijection.

7. `SegmentsProofs`, from `SegmentsAssumption` (finite sets of customers, carts, orders and events; any windows, delays, versions, batch size):
   `SegmentsInvariant`. `Faithful` relates a row to all events ever applied for its customer, less what pruning has taken;
   `Evaluated` says that the stored evaluation is right at every instant from when it was made until its deadline. Both must hold of the
   committed rows and of the images in transactions (`RowsRight`, `TxnsRight`), and a commit keeps them only because the
   locks are exclusive and an image is the committed row until it is changed (`LocksExclusive`). From it: `EvaluationsStand`, `EvaluationsMatch`,
   `NobodyMissed`, `NoOlderEvaluation`, and for readers, whose two queries see one snapshot (`ReadsRight`), `ResponsesAreOneSnapshot` and `EligibleAreTrue`.

8. `CaptureProofs`, from the assumptions of `Exchange`, `Tracker` and `Gateway`: `CaptureInvariant`. `TrackerRight`: ids are
   unique in the queue, a running pass tries only queued events it took when it began, and queue and outcomes partition what was
   tracked (`LedgerRight`). `RequestsRight`: every request on its way, listened to or not, has stored only what it carries, and an
   answer calls accepted what is in the topic; the one the pass waits for carries the batch of that pass (`HeardRight`), without
   which an answer could be booked on other events. `Delivered` is what reports inherit. From it `EventsOnce`,
   `AcceptedAreDelivered`, `CaptureTypeCorrect` and the action property `ReportedAreNotResent`.

`ProfileLedgerSafety` also has `FirstFacts`: no step changes an order's facts or reopens a cart.

TLC checks the same formulas on the instances above first. Only model-checked are the liveness properties
(`EveryRecordSettles`, `DueIsEvaluated`, `EveryEventIsReported`, `EveryRecordIsRouted`, `RerunCompletes`, `SlotsComeBack`): the prover
has no support for arguments from fairness and for `ENABLED`. The two findings are counterexamples of TLC. What a recursive
definition computes could not be proved for every input, so the modules that are proved about use sets, cardinalities and plain functions instead
(`Among`, the entries of the tracker's queue with some ids; `InOrder`, the order of a replay).

## 5. Not modelled

* JSON Schema contracts and `decode_event`: pure predicates over one event. The models have valid and invalid
  records, and copies of an event may be either.
* Signatures and encodings of tokens: a token is its claims. Origin registries: the origin is right or wrong.
* Health and metrics endpoints, the PostgreSQL and dead-letter gauges of `monitoring/metrics.py`, `benchmark.py`,
  `benchmark_pipeline.py`, the synthetic producer, `datalens` evaluation, prompts and retrieval ranking: they
  read, compute or generate, and leave no state that a later step depends on.
* Lakehouse maintenance, rollback and health: one statement each; amounts and currencies.
* The Iceberg sinks' commit protocol and Flink's own: modelled from outside, as the commands and the payments job rely on them.
* The rate limiter under the customer API's threads: representable (`Callers` with two elements), no property of it holds.
* Clocks that are set back, in the observer and the rate limiter (which uses a monotonic one).
* `kafka/`, the checked-in virtual environment, and demo assets: third-party or generated.

Worth doing next: the refinement of an abstract capture channel (each event settled once, accepted only if stored) by `Capture`,
as `ExactlyOnceLedger` is for the ledger; what of `TimelyIsCounted` holds with several partitions, where the watermark follows the slowest.
