---------------------------- MODULE ProfileLedger ----------------------------
(***************************************************************************)
(* The path of a captured event from its Kafka partition into a customer's *)
(* durable behaviour: the Flink job of journeypulse/processor.py, whose    *)
(* map() calls ProfileStore.apply of journeypulse/profiles.py once per     *)
(* record, and the PostgreSQL rows that call commits.                      *)
(*                                                                         *)
(* A database session runs one transaction at a time.  Its uncommitted     *)
(* writes are visible to nobody and are modelled as the locks they hold:   *)
(* the unique index entry of the receipt and the advisory lock on the      *)
(* event id.  A job that fails abandons its sessions: what such a session  *)
(* had in flight may still commit, or roll back, after the job has         *)
(* restarted from its last checkpoint.                                     *)
(***************************************************************************)
EXTENDS BehaviorRows, Sequences, FiniteSets

CONSTANTS
    Partitions,       \* partitions of the topic journeypulse-events
    Users,            \* customers, the Kafka key of their events
    PartitionOf,      \* the partition Kafka's partitioner gives each key
    EventIds,         \* event_id values
    Orders,           \* order_id values
    Carts,            \* cart_id values
    Times,            \* occurrence times
    Events,           \* the valid (source, event) bodies that may be published
    Invalid,          \* a record decode_transport refuses
    Sessions,         \* database sessions
    MaxLog,           \* bound: records per partition
    RestartAttempts,  \* restart-strategy.fixed-delay.attempts
    MaxLapses,        \* bound: how often the retention of one id runs out
    MaxRecreations    \* bound: how often the topic is deleted and recreated

None == "none"

Records == Events \cup {Invalid}
Offsets == 0 .. (MaxLog - 1)
Coordinates == Partitions \X Offsets
Outcomes == {"applied", "duplicate", "conflict", "invalid"}

Event == [id: EventIds, user: Users, name: EventNames, at: Times,
          cart: Carts, order: Orders]

ASSUME LedgerAssumption ==
    /\ IsFiniteSet(Partitions) /\ IsFiniteSet(Orders)
    /\ PartitionOf \in [Users -> Partitions]
    /\ Times \subseteq Nat \ {NoTime}
    /\ Events \subseteq Event
    /\ Invalid \notin Events
    /\ None \notin Sessions /\ None \notin Carts
    /\ MaxLog \in Nat /\ RestartAttempts \in Nat
    /\ MaxLapses \in Nat /\ MaxRecreations \in Nat

VARIABLES
    log,         \* Kafka: the records of each partition
    position,    \* the offset each source split reads next
    checkpoint,  \* the offsets of the last completed checkpoint
    job,         \* "running", "restarting", or "failed" for good
    attempts,    \* restarts used by the fixed-delay strategy
    task,        \* the session each partition's map() call waits for, or None
    session,     \* the transaction each database session runs
    receipts,    \* journeypulse.kafka_receipts
    ids,         \* journeypulse.event_ids
    customers,   \* journeypulse.customers
    orders,      \* journeypulse.completed_orders
    carts,       \* journeypulse.carts
    views,       \* journeypulse.segment_views
    summary,     \* journeypulse.behavioral_summaries
    lapses,      \* how often each id's retention has run out
    recreations  \* how often the topic has been recreated

kafka == <<log, recreations>>
flink == <<position, checkpoint, job, attempts, task>>
identity == <<receipts, ids, lapses>>
behavior == <<customers, orders, carts, views, summary>>
vars == <<kafka, flink, session, identity, behavior>>

-----------------------------------------------------------------------------
NoReceipt == [payload |-> Invalid, outcome |-> None]
NoIdentity == [state |-> "absent", event |-> Invalid]
NoFact == [at |-> NoTime, cart |-> None]
Idle == [pc |-> "idle", at |-> <<None, 0>>, record |-> Invalid]
NoSummary ==
    [counts |-> [n \in EventNames |-> 0], completed |-> 0, revision |-> 0,
     latestActivity |-> NoTime, latestOrder |-> NoTime]

PCs == {"idle", "receipt", "identity", "compare", "apply", "committed"}

KafkaType ==
    /\ log \in [Partitions -> Seq(Records)]
    /\ \A p \in Partitions : Len(log[p]) <= MaxLog
    /\ recreations \in 0 .. MaxRecreations

FlinkType ==
    /\ position \in [Partitions -> 0 .. MaxLog]
    /\ checkpoint \in [Partitions -> 0 .. MaxLog]
    /\ job \in {"running", "restarting", "failed"}
    /\ attempts \in 0 .. RestartAttempts
    /\ task \in [Partitions -> Sessions \cup {None}]

SessionType ==
    /\ session \in [Sessions -> {Idle} \cup [pc: PCs, at: Coordinates, record: Records]]
    /\ \A s \in Sessions :
          /\ session[s].pc = "idle" => session[s] = Idle
          /\ session[s].pc \in {"identity", "compare", "apply"} => session[s].record \in Events

IdentityType ==
    /\ receipts \in [Coordinates -> [payload: Records, outcome: Outcomes \cup {None}]]
    /\ ids \in [EventIds -> [state: {"absent", "live", "expired"}, event: Records]]
    /\ lapses \in [EventIds -> 0 .. MaxLapses]

BehaviorType ==
    /\ customers \in [Users -> {"absent", "placeholder", "onboarded"}]
    /\ orders \in [Users -> [Orders -> [at: Times \cup {NoTime}, cart: Carts \cup {None}]]]
    /\ carts \in [Users -> [Carts -> CartRow(Times)]]
    /\ views \in [Users -> SUBSET EventIds]
    /\ summary \in [Users ->
           [counts: [EventNames -> Nat], completed: Nat, revision: Nat,
            latestActivity: Times \cup {NoTime}, latestOrder: Times \cup {NoTime}]]

TypeOK == KafkaType /\ FlinkType /\ SessionType /\ IdentityType /\ BehaviorType

Init ==
    /\ log = [p \in Partitions |-> <<>>]
    /\ position = [p \in Partitions |-> 0]
    /\ checkpoint = [p \in Partitions |-> 0]
    /\ job = "running"
    /\ attempts = 0
    /\ task = [p \in Partitions |-> None]
    /\ session = [s \in Sessions |-> Idle]
    /\ receipts = [c \in Coordinates |-> NoReceipt]
    /\ ids = [e \in EventIds |-> NoIdentity]
    /\ customers = [u \in Users |-> "absent"]
    /\ orders = [u \in Users |-> [o \in Orders |-> NoFact]]
    /\ carts = [u \in Users |-> [c \in Carts |-> NoCartRow]]
    /\ views = [u \in Users |-> {}]
    /\ summary = [u \in Users |-> NoSummary]
    /\ lapses = [e \in EventIds |-> 0]
    /\ recreations = 0

-----------------------------------------------------------------------------
(* Kafka and the processor job.                                            *)

\* The producer side: the gateway publishes to the partition of the event's
\* user; a record decode_transport will refuse may appear on any partition.
Publish(p, r) ==
    /\ Len(log[p]) < MaxLog
    /\ r # Invalid => PartitionOf[r.user] = p
    /\ log' = [log EXCEPT ![p] = Append(@, r)]
    /\ UNCHANGED <<recreations, flink, session, identity, behavior>>

IsLive(s) == \E p \in Partitions : task[p] = s

\* prune_event_ids: every expired row goes, in a transaction of its own.
Pruned == [e \in EventIds |-> IF ids[e].state = "expired" THEN NoIdentity ELSE ids[e]]

\* Persist.map takes the next record and calls apply on a fresh connection.
\* Whether 60 seconds have passed since the last prune is left open.
Map(p, s) ==
    /\ job = "running"
    /\ task[p] = None
    /\ session[s] = Idle
    /\ position[p] < Len(log[p])
    /\ task' = [task EXCEPT ![p] = s]
    /\ session' = [session EXCEPT ![s] =
           [pc |-> "receipt", at |-> <<p, position[p]>>, record |-> log[p][position[p] + 1]]]
    /\ ids' \in {ids, Pruned}
    /\ UNCHANGED <<kafka, position, checkpoint, job, attempts, receipts, lapses, behavior>>

\* map() returns: the source moves on to the next record.
Return(p) ==
    /\ task[p] # None
    /\ session[task[p]].pc = "committed"
    /\ position' = [position EXCEPT ![p] = @ + 1]
    /\ task' = [task EXCEPT ![p] = None]
    /\ session' = [session EXCEPT ![task[p]] = Idle]
    /\ UNCHANGED <<kafka, checkpoint, job, attempts, identity, behavior>>

\* A checkpoint completes: the barrier passed each split at some position
\* between the previous checkpoint and where the split is now.
Checkpoint ==
    /\ job = "running"
    /\ \E barrier \in [Partitions -> 0 .. MaxLog] :
          /\ \A p \in Partitions : checkpoint[p] <= barrier[p] /\ barrier[p] <= position[p]
          /\ checkpoint' = barrier
    /\ UNCHANGED <<kafka, position, job, attempts, task, session, identity, behavior>>

\* The job loses its tasks.  A transaction whose commit has not been
\* acknowledged yet is already durable; the others stay in flight.
Abandon(j) ==
    /\ job' = j
    /\ task' = [p \in Partitions |-> None]
    /\ session' = [s \in Sessions |->
                     IF session[s].pc = "committed" THEN Idle ELSE session[s]]
    /\ UNCHANGED <<kafka, position, checkpoint, attempts>>

\* Mistake: restarts are not counted.
Mistake_AfterFailure == "restarting"

AfterFailure == IF attempts < RestartAttempts THEN "restarting" ELSE "failed"

\* A worker or connection is lost at any moment, a lost commit
\* acknowledgement included.
Fail == job = "running" /\ Abandon(AfterFailure) /\ UNCHANGED <<identity, behavior>>

\* An operator cancels the job.
Cancel == job = "running" /\ Abandon("failed") /\ UNCHANGED <<identity, behavior>>

\* fixed-delay restart from the last completed checkpoint.
Restart ==
    /\ job = "restarting"
    /\ job' = "running"
    /\ attempts' = attempts + 1
    /\ position' = checkpoint
    /\ UNCHANGED <<kafka, checkpoint, task, session, identity, behavior>>

\* A new submission of a job that is gone: from JOURNEYPULSE_RESTORE_PATH, or
\* fresh, from the earliest offsets.
Resubmit(restore) ==
    /\ job = "failed"
    /\ job' = "running"
    /\ attempts' = 0
    /\ checkpoint' = IF restore THEN checkpoint ELSE [p \in Partitions |-> 0]
    /\ position' = checkpoint'
    /\ UNCHANGED <<kafka, task, session, identity, behavior>>

\* The topic is deleted and created anew while no job runs, so offsets start
\* again at 0; the next submission is a fresh one.
RecreateTopic ==
    /\ job = "failed"
    /\ recreations < MaxRecreations
    /\ recreations' = recreations + 1
    /\ log' = [p \in Partitions |-> <<>>]
    /\ position' = [p \in Partitions |-> 0]
    /\ checkpoint' = [p \in Partitions |-> 0]
    /\ UNCHANGED <<job, attempts, task, session, identity, behavior>>

\* The seven days of an id's row run out.
Lapse(e) ==
    /\ ids[e].state = "live"
    /\ lapses[e] < MaxLapses
    /\ ids' = [ids EXCEPT ![e].state = "expired"]
    /\ lapses' = [lapses EXCEPT ![e] = @ + 1]
    /\ UNCHANGED <<kafka, flink, session, receipts, behavior>>

-----------------------------------------------------------------------------
(* ProfileStore.apply, one database round trip after the other.            *)

\* The transaction commits.  A live task waits for the acknowledgement; an
\* abandoned session has nobody to tell.
Commit(s) ==
    session' = [session EXCEPT ![s] = IF IsLive(s) THEN [@ EXCEPT !.pc = "committed"] ELSE Idle]

GoTo(s, pc) == session' = [session EXCEPT ![s].pc = pc]

\* Mistake: map() swallows the exception and the source moves on.
Mistake_RollBack(s) ==
    /\ session' = [session EXCEPT ![s] = Idle]
    /\ position' = [p \in Partitions |-> IF task[p] = s THEN position[p] + 1 ELSE position[p]]
    /\ task' = [p \in Partitions |-> IF task[p] = s THEN None ELSE task[p]]
    /\ UNCHANGED <<kafka, checkpoint, job, attempts, identity, behavior>>

\* The transaction rolls back.  In a live task the exception leaves map() and
\* fails the job.
RollBack(s) ==
    /\ session' = [t \in Sessions |->
           IF t = s \/ (IsLive(s) /\ session[t].pc = "committed") THEN Idle ELSE session[t]]
    /\ job' = IF IsLive(s) THEN AfterFailure ELSE job
    /\ task' = IF IsLive(s) THEN [p \in Partitions |-> None] ELSE task
    /\ UNCHANGED <<kafka, position, checkpoint, attempts, identity, behavior>>

\* Mistakes: no unique index on the coordinate, no advisory lock on the id.
Mistake_HoldsReceipt(s, c) == FALSE
Mistake_HoldsIdentity(s, e) == FALSE

HoldsReceipt(s, c) == session[s].pc \in {"identity", "compare", "apply"} /\ session[s].at = c
HoldsIdentity(s, e) == session[s].pc \in {"compare", "apply"} /\ session[s].record.id = e

\* Mistake: an existing receipt is taken for a replay without comparing hashes.
Mistake_SamePayload(c, r) == TRUE

SamePayload(c, r) == receipts[c].payload = r

\* INSERT INTO kafka_receipts ... ON CONFLICT DO NOTHING, which waits for a
\* session that has the same coordinate in flight.
InsertReceipt(s) ==
    LET c == session[s].at
        r == session[s].record
    IN  /\ session[s].pc = "receipt"
        /\ \A t \in Sessions : ~HoldsReceipt(t, c)
        /\ \/ /\ receipts[c].outcome = None
              /\ r = Invalid
              /\ receipts' = [receipts EXCEPT ![c] = [payload |-> r, outcome |-> "invalid"]]
              /\ Commit(s)
              /\ UNCHANGED <<kafka, flink, ids, lapses, behavior>>
           \/ /\ receipts[c].outcome = None
              /\ r # Invalid
              /\ GoTo(s, "identity")
              /\ UNCHANGED <<kafka, flink, identity, behavior>>
           \/ /\ receipts[c].outcome # None   \* 'replay'
              /\ SamePayload(c, r)
              /\ Commit(s)
              /\ UNCHANGED <<kafka, flink, identity, behavior>>
           \/ /\ receipts[c].outcome # None   \* coordinate reused
              /\ ~SamePayload(c, r)
              /\ RollBack(s)

\* pg_advisory_xact_lock on the event id, then the expired row is deleted
\* and the id inserted; a retained row is left for the comparison.
ClaimIdentity(s) ==
    LET e == session[s].record.id
    IN  /\ session[s].pc = "identity"
        /\ \A t \in Sessions : ~HoldsIdentity(t, e)
        /\ GoTo(s, IF ids[e].state = "live" THEN "compare" ELSE "apply")
        /\ UNCHANGED <<kafka, flink, identity, behavior>>

\* Mistake: a known id with another body is another event.
Mistake_Refusal(r) == IF ids[r.id].event = r THEN "duplicate" ELSE "applied"

Refusal(r) == IF ids[r.id].event = r THEN "duplicate" ELSE "conflict"

\* The retained row's hash decides.  It may have expired and been pruned since
\* the insert found it: then fetchone() is None and subscripting it raises.
CompareIdentity(s) ==
    LET r == session[s].record
    IN  /\ session[s].pc = "compare"
        /\ \/ /\ ids[r.id].state # "absent"
              /\ receipts' = [receipts EXCEPT ![session[s].at] =
                     [payload |-> r, outcome |-> Refusal(r)]]
              /\ Commit(s)
              /\ UNCHANGED <<kafka, flink, ids, lapses, behavior>>
           \/ /\ ids[r.id].state = "absent"
              /\ RollBack(s)

\* A session gives up: lock_timeout, statement_timeout or a lost connection.
AbortTransaction(s) ==
    /\ session[s].pc \in {"receipt", "identity", "compare", "apply"}
    /\ RollBack(s)

IsNewOrder(e) == e.name = "order_completed" /\ orders[e.user][e.order] = NoFact

OrdersAfter(e) ==
    IF IsNewOrder(e) THEN [orders EXCEPT ![e.user][e.order] = [at |-> e.at, cart |-> e.cart]]
    ELSE orders

\* The UPDATE of the customer's summary row.
SummaryRow(row, e) ==
    [counts |-> [row.counts EXCEPT ![e.name] = @ + 1],
     completed |-> IF IsNewOrder(e) THEN row.completed + 1 ELSE row.completed,
     revision |-> row.revision + 1,
     latestActivity |-> Greatest(row.latestActivity, e.at),
     latestOrder |-> Greatest(row.latestOrder, IF IsNewOrder(e) THEN e.at ELSE NoTime)]

SummaryAfter(e) == [summary EXCEPT ![e.user] = SummaryRow(@, e)]

CartsAfter(e) ==
    [carts EXCEPT ![e.user] = RecordCarts(@, e, OrdersAfter(e)[e.user])]

\* segment_views is keyed by event id alone.
ViewsAfter(e) ==
    IF e.name = "restaurant_view" /\ \A u \in Users : e.id \notin views[u]
    THEN [views EXCEPT ![e.user] = @ \cup {e.id}]
    ELSE views

CustomersAfter(e) ==
    [customers EXCEPT ![e.user] = IF @ = "absent" THEN "placeholder" ELSE @]

\* evaluate_customer drops the views older than the window; which ones they are
\* is the clock's business, left open here. The memberships it then derives from
\* these rows are in module Segments.
EvaluateCustomer(u, recorded) ==
    \E kept \in SUBSET recorded[u] : views' = [recorded EXCEPT ![u] = kept]

\* The rest of apply: customer, order, summary, behaviour rows, memberships,
\* and the commit that makes all of it durable together with the receipt and
\* the event id.
Apply(s) ==
    LET e == session[s].record
    IN  /\ session[s].pc = "apply"
        /\ receipts' = [receipts EXCEPT ![session[s].at] = [payload |-> e, outcome |-> "applied"]]
        /\ ids' = [ids EXCEPT ![e.id] = [state |-> "live", event |-> e]]
        /\ customers' = CustomersAfter(e)
        /\ orders' = OrdersAfter(e)
        /\ summary' = SummaryAfter(e)
        /\ carts' = CartsAfter(e)
        /\ EvaluateCustomer(e.user, ViewsAfter(e))
        /\ Commit(s)
        /\ UNCHANGED <<kafka, flink, lapses>>

-----------------------------------------------------------------------------
(* The other writers of these rows.                                        *)

\* ProfileStore.update(onboarding=True), the customer API.
Onboard(u) ==
    /\ customers' = [customers EXCEPT ![u] = "onboarded"]
    /\ UNCHANGED <<kafka, flink, session, identity, orders, carts, views, summary>>

\* The segment worker evaluates a customer it finds due (any customer with a
\* summary may be) under the lock of the summary row.
EvaluateDue(u) ==
    /\ summary[u].revision > 0
    /\ EvaluateCustomer(u, views)
    /\ UNCHANGED <<kafka, flink, session, identity, customers, orders, carts, summary>>

-----------------------------------------------------------------------------
Step(s) == InsertReceipt(s) \/ ClaimIdentity(s) \/ CompareIdentity(s) \/ Apply(s)

Next ==
    \/ \E p \in Partitions, r \in Records : Publish(p, r)
    \/ \E p \in Partitions, s \in Sessions : Map(p, s)
    \/ \E p \in Partitions : Return(p)
    \/ \E s \in Sessions : InsertReceipt(s)
    \/ \E s \in Sessions : ClaimIdentity(s)
    \/ \E s \in Sessions : CompareIdentity(s)
    \/ \E s \in Sessions : Apply(s)
    \/ \E s \in Sessions : AbortTransaction(s)
    \/ Checkpoint
    \/ Fail
    \/ Cancel
    \/ Restart
    \/ \E restore \in BOOLEAN : Resubmit(restore)
    \/ RecreateTopic
    \/ \E e \in EventIds : Lapse(e)
    \/ \E u \in Users : Onboard(u)
    \/ \E u \in Users : EvaluateDue(u)

Spec == Init /\ [][Next]_vars

(* Flink keeps calling map() and restarts a failed job after its delay;    *)
(* PostgreSQL answers a session or drops it.                               *)
Fairness ==
    /\ \A p \in Partitions : WF_vars(\E s \in Sessions : Map(p, s))
    /\ \A p \in Partitions : WF_vars(Return(p))
    /\ \A s \in Sessions : WF_vars(Step(s) \/ AbortTransaction(s))
    /\ WF_vars(Restart)

FairSpec == Spec /\ Fairness

-----------------------------------------------------------------------------
(* The abstract ledger this one implements.                                *)

Promise == INSTANCE ExactlyOnceLedger WITH
    settled <- receipts,
    effects <- [u \in Users |-> summary[u].revision],
    retained <- [e \in EventIds |-> ids[e].state = "live"]

\* Jobs, sessions, crashes, restarts, zombie commits and prunes are invisible:
\* every behaviour of the ledger is one of the exactly-once ledger.
ImplementsExactlyOnce == Promise!Spec

-----------------------------------------------------------------------------
(* Properties.                                                             *)

Applied(u) == {c \in Coordinates : receipts[c].outcome = "applied" /\ receipts[c].payload.user = u}
AppliedAs(u, n) == {c \in Applied(u) : receipts[c].payload.name = n}
AppliedWith(e) == {c \in Coordinates : receipts[c].outcome = "applied" /\ receipts[c].payload.id = e}
Facts(u) == {o \in Orders : orders[u][o] # NoFact}

\* "A crash after database commit and before checkpointing cannot repeat the
\* increment": revision, the five event counts and the distinct-order total are
\* exactly what the applied receipts and the durable orders amount to, however
\* often their records were delivered.
TotalsMatchReceipts ==
    \A u \in Users :
        /\ summary[u].revision = Cardinality(Applied(u))
        /\ \A n \in EventNames : summary[u].counts[n] = Cardinality(AppliedAs(u, n))
        /\ summary[u].completed = Cardinality(Facts(u))

\* latest_activity_at is the maximum over all applied events, and
\* latest_order_at the maximum first occurrence over distinct orders, in
\* whatever order late events were applied.
LatestAreMaxima ==
    \A u \in Users :
        /\ \A c \in Applied(u) : receipts[c].payload.at <= summary[u].latestActivity
        /\ summary[u].latestActivity # NoTime =>
              \E c \in Applied(u) : receipts[c].payload.at = summary[u].latestActivity
        /\ \A o \in Facts(u) : orders[u][o].at <= summary[u].latestOrder
        /\ summary[u].latestOrder # NoTime =>
              \E o \in Facts(u) : orders[u][o].at = summary[u].latestOrder

\* "Source offsets must not checkpoint past" a record that was not persisted:
\* every record the source or a checkpoint has left behind has a receipt, and
\* for that very payload, recreated topics included.
NoRecordSkipped ==
    \A p \in Partitions : \A i \in 1 .. MaxLog :
        (i <= position[p] \/ i <= checkpoint[p]) =>
            /\ i <= Len(log[p])
            /\ receipts[<<p, i - 1>>].outcome # None
            /\ receipts[<<p, i - 1>>].payload = log[p][i]

\* An event id contributes once per retention period, whatever partitions,
\* sessions and job attempts raced for it.
AppliedOncePerRetention ==
    \A e \in EventIds :
        Cardinality(AppliedWith(e)) = lapses[e] + (IF ids[e].state = "live" THEN 1 ELSE 0)

\* A contribution is refused only for a reason that exists: 'duplicate' beside
\* the same body applied elsewhere, 'conflict' beside a different body of that
\* id, 'invalid' for what cannot be decoded.
RefusalsAreJustified ==
    \A c \in Coordinates :
        LET r == receipts[c] IN
        /\ r.outcome # None => (r.outcome = "invalid" <=> r.payload = Invalid)
        /\ r.outcome = "duplicate" =>
              \E d \in AppliedWith(r.payload.id) : receipts[d].payload = r.payload
        /\ r.outcome = "conflict" =>
              \E d \in AppliedWith(r.payload.id) : receipts[d].payload # r.payload

\* Cart rows are the maximum applied add and the earliest first completion that
\* names the cart, so completion before the add, late adds and later
\* notifications of a known order all resolve exactly the right cart.
CartsFollowFacts ==
    \A u \in Users, k \in Carts :
        LET adds == {c \in AppliedAs(u, "add_to_cart") : receipts[c].payload.cart = k}
            completions == {o \in Orders : orders[u][o].cart = k}
            row == carts[u][k]
        IN  /\ \A c \in adds : receipts[c].payload.at <= row.add
            /\ row.add # NoTime => \E c \in adds : receipts[c].payload.at = row.add
            /\ \A o \in completions : row.done # NoTime /\ row.done <= orders[u][o].at
            /\ row.done # NoTime => \E o \in completions : orders[u][o].at = row.done

\* Behaviour grows only together with one new 'applied' receipt, and a receipt is
\* final: a redelivery, a refusal or an abandoned session that commits late adds
\* nothing, turns no outcome into another, and brings back no view that was pruned.
EffectsNeedAReceipt ==
    [][/\ \A c \in Coordinates : receipts[c].outcome # None => receipts'[c] = receipts[c]
       /\ \A u \in Users :
             \/ summary'[u] # summary[u] \/ orders'[u] # orders[u] \/ carts'[u] # carts[u]
             \/ ~(views'[u] \subseteq views[u])
             => \E c \in Coordinates : c \notin Applied(u) /\ Applied(u)' = Applied(u) \cup {c}]_vars

\* The first committed facts of an order win, and a completed cart is terminal:
\* it never reopens and its completion never moves later.
FirstFactsWin ==
    [][\A u \in Users :
         /\ \A o \in Orders : orders[u][o] # NoFact => orders'[u][o] = orders[u][o]
         /\ \A k \in Carts : carts[u][k].done # NoTime =>
               carts'[u][k].done # NoTime /\ carts'[u][k].done <= carts[u][k].done]_vars

\* Every published record is settled with a receipt unless the job has used up
\* its restarts or was cancelled.
Settled(p, i) == i <= Len(log[p]) /\ receipts[<<p, i - 1>>].outcome # None

EveryRecordSettles ==
    \A p \in Partitions : \A i \in 1 .. MaxLog :
        (i <= Len(log[p])) ~> (Settled(p, i) \/ job = "failed")
=============================================================================
