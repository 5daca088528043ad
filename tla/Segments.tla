------------------------------ MODULE Segments ------------------------------
(***************************************************************************)
(* Segment memberships over time: the processor that records an event and  *)
(* evaluates its customer in one transaction (profiles.py, apply), the     *)
(* segment workers that evaluate due customers in batches (evaluate_due),  *)
(* consent updates (update) and the targeting reads that serve the result  *)
(* (targeting).  ProfileLedger shows that an event is applied once per     *)
(* retention period, in one transaction; here that transaction is a        *)
(* writer's, and the PostgreSQL clock moves between its steps.             *)
(***************************************************************************)
EXTENDS SegmentRules

CONSTANTS
    Users, Carts, Orders,
    Events,      \* events that may be applied, each with its own event id
    Processors,  \* map() calls of the processor job
    Workers,     \* segment workers
    Readers,     \* targeting requests
    BatchSize,   \* customers a worker evaluates in one transaction
    Skew,        \* how far ahead of the clock the gateway lets an event be
    Horizon,     \* bound: the last tick of the clock
    MaxUpdates   \* bound: attribute updates

Event == [id: Nat, user: Users, name: EventNames, at: Nat \ {NoTime},
          cart: Carts, order: Orders]

ASSUME SegmentsAssumption ==
    /\ IsFiniteSet(Orders) /\ "none" \notin Carts
    /\ Versions \subseteq Nat \ {0} /\ Versions # {}
    /\ Events \subseteq Event
    /\ \A e, f \in Events : e.id = f.id => e = f
    /\ IsFiniteSet(Events)
    /\ Processors \cap Workers = {}
    /\ BatchSize \in Nat \ {0}
    /\ Skew \in Nat /\ Horizon \in Nat \ {0} /\ MaxUpdates \in Nat

Writers == Processors \cup Workers

VARIABLES
    clock,      \* clock_timestamp()
    deployed,   \* the rule version every process is configured with
    applied,    \* events whose transaction has committed
    db,         \* a customer's behaviour rows, evaluation and memberships
    customers,  \* journeypulse.customers
    txn,        \* the transaction of each writer
    read,       \* the targeting request of each reader
    updates     \* attribute updates so far

vars == <<clock, deployed, applied, db, customers, txn, read, updates>>

-----------------------------------------------------------------------------
NoFact == [at |-> NoTime, cart |-> "none"]

NewRow ==
    [seen |-> FALSE,
     views |-> {},
     carts |-> [k \in Carts |-> NoCartRow],
     facts |-> [o \in Orders |-> NoFact],
     evaluation |-> NoEvaluation,
     memberships |-> [v \in Versions |-> NoMembership]]

NoTxn == [event |-> {}, locked |-> {}, todo |-> {}, image |-> [u \in Users |-> NewRow]]
NoRead == [pc |-> "idle"]

Completed(row) == Cardinality({o \in Orders : row.facts[o] # NoFact})

TypeOK ==
    /\ clock \in 1 .. Horizon
    /\ deployed \in Versions
    /\ applied \subseteq Events
    /\ \A u \in Users :
          /\ db[u].seen \in BOOLEAN
          /\ \A x \in db[u].views : x.at \in Nat \ {NoTime}
          /\ db[u].carts \in [Carts -> CartRow(Nat)]
          /\ db[u].evaluation \in [version: Versions \cup {NoTime}, at: Nat, next: Nat]
          /\ db[u].memberships \in [Versions ->
                [member: [Segments -> BOOLEAN], validUntil: Nat, at: Nat]]
    /\ customers \in [Users -> [onboarded: BOOLEAN, consent: BOOLEAN]]
    /\ \A w \in Writers :
          /\ txn[w].event \in SUBSET Events
          /\ txn[w].locked \in SUBSET Users /\ Cardinality(txn[w].locked) <= BatchSize
          /\ txn[w].todo \in SUBSET txn[w].locked
    /\ \A r \in Readers : read[r].pc \in {"idle", "first", "done"}
    /\ updates \in 0 .. MaxUpdates

Init ==
    /\ clock = 1
    /\ deployed \in Versions
    /\ applied = {}
    /\ db = [u \in Users |-> NewRow]
    /\ customers = [u \in Users |-> [onboarded |-> FALSE, consent |-> FALSE]]
    /\ txn = [w \in Writers |-> NoTxn]
    /\ read = [r \in Readers |-> NoRead]
    /\ updates = 0

Tick ==
    /\ clock < Horizon
    /\ clock' = clock + 1
    /\ UNCHANGED <<deployed, applied, db, customers, txn, read, updates>>

\* All processes restart with other thresholds ("configure bootstrap, every
\* Flink process, worker and API identically").
Deploy(v) ==
    /\ deployed # v
    /\ \A w \in Writers : txn[w] = NoTxn
    /\ \A r \in Readers : read[r] = NoRead
    /\ deployed' = v
    /\ UNCHANGED <<clock, applied, db, customers, txn, read, updates>>

-----------------------------------------------------------------------------
(* Evaluation under the customer's lock.                                   *)

\* Mistake: FOR UPDATE is forgotten.
Mistake_Locked(u) == FALSE

Locked(u) == \E w \in Writers : u \in txn[w].locked

\* DELETE FROM segment_views WHERE occurred_at <= now - window.
Pruned(row) == {x \in row.views : x.at > clock - Window[deployed]}

\* Mistake: ON CONFLICT DO NOTHING keeps the memberships of an earlier evaluation.
Mistake_EvaluatedRows(row) ==
    {[row EXCEPT !.views = Pruned(row),
                 !.evaluation = [version |-> deployed, at |-> r.at, next |-> r.next],
                 !.memberships[deployed] =
                     IF @ # NoMembership THEN @
                     ELSE [member |-> r.member, validUntil |-> r.validUntil, at |-> r.at]] :
        r \in Evaluations(deployed, clock, Pruned(row), row.carts, Completed(row))}

\* evaluate_customer: what a row becomes.  A set of one element.
EvaluatedRows(row) ==
    {[row EXCEPT !.views = Pruned(row),
                 !.evaluation = [version |-> deployed, at |-> r.at, next |-> r.next],
                 !.memberships[deployed] =
                     [member |-> r.member, validUntil |-> r.validUntil, at |-> r.at]] :
        r \in Evaluations(deployed, clock, Pruned(row), row.carts, Completed(row))}

RecordFacts(facts, e) ==
    IF e.name = "order_completed" /\ facts[e.order] = NoFact
    THEN [facts EXCEPT ![e.order] = [at |-> e.at, cart |-> e.cart]]
    ELSE facts

\* record_behavior, and the order facts it reads.
Recorded(row, e) ==
    LET facts == RecordFacts(row.facts, e)
    IN  [row EXCEPT
           !.seen = TRUE,
           !.views = IF e.name = "restaurant_view" THEN @ \cup {[id |-> e.id, at |-> e.at]} ELSE @,
           !.carts = RecordCarts(@, e, facts),
           !.facts = facts]

\* apply takes the customer's lock, records the event and evaluates: the
\* memberships carry the clock of this step, the commit comes later.
Record(w, e) ==
    /\ txn[w] = NoTxn
    /\ e \notin applied
    /\ \A x \in Processors : e \notin txn[x].event
    /\ e.at <= clock + Skew
    /\ ~Locked(e.user)
    /\ \E row \in EvaluatedRows(Recorded(db[e.user], e)) :
          txn' = [txn EXCEPT ![w] =
                    [event |-> {e}, locked |-> {e.user}, todo |-> {},
                     image |-> [db EXCEPT ![e.user] = row]]]
    /\ UNCHANGED <<clock, deployed, applied, db, customers, read, updates>>

-----------------------------------------------------------------------------
(* The segment worker.                                                     *)

\* Rows without an evaluation have the earliest time there is.
Due(u) ==
    /\ db[u].seen
    /\ \/ db[u].evaluation.at = NoTime
       \/ db[u].evaluation.version # deployed
       \/ db[u].evaluation.next <= clock

\* Mistake: the ORDER BY is forgotten.
Mistake_Batches(candidates) ==
    {batch \in SUBSET candidates :
        Cardinality(batch) <= BatchSize
        /\ (batch = candidates \/ Cardinality(batch) = BatchSize)}

\* The batches the ORDER BY and the LIMIT leave, whatever breaks ties.
Batches(candidates) ==
    {batch \in SUBSET candidates :
        /\ Cardinality(batch) <= BatchSize
        /\ batch = candidates \/ Cardinality(batch) = BatchSize
        /\ \A u \in batch, x \in candidates \ batch :
              db[u].evaluation.next <= db[x].evaluation.next}

\* SELECT ... ORDER BY next_evaluation_at LIMIT batch_size FOR UPDATE SKIP LOCKED.
SelectDue(w) ==
    LET candidates == {u \in Users : Due(u) /\ ~Locked(u)}
    IN  /\ txn[w] = NoTxn
        /\ candidates # {}
        /\ \E batch \in Batches(candidates) :
              txn' = [txn EXCEPT ![w] =
                  [event |-> {}, locked |-> batch, todo |-> batch, image |-> db]]
        /\ UNCHANGED <<clock, deployed, applied, db, customers, read, updates>>

\* One evaluate_customer of the loop, at the clock of its own statement.
EvaluateNext(w) ==
    /\ \E u \in txn[w].todo : \E row \in EvaluatedRows(db[u]) :
          txn' = [txn EXCEPT ![w].todo = @ \ {u}, ![w].image[u] = row]
    /\ UNCHANGED <<clock, deployed, applied, db, customers, read, updates>>

-----------------------------------------------------------------------------
Commit(w) ==
    /\ txn[w].locked # {}
    /\ txn[w].todo = {}
    /\ db' = [u \in Users |-> IF u \in txn[w].locked THEN txn[w].image[u] ELSE db[u]]
    /\ applied' = applied \cup txn[w].event
    /\ txn' = [txn EXCEPT ![w] = NoTxn]
    /\ UNCHANGED <<clock, deployed, customers, read, updates>>

\* A database error or a timeout: nothing of the transaction stays.
RollBack(w) ==
    /\ txn[w].locked # {}
    /\ txn' = [txn EXCEPT ![w] = NoTxn]
    /\ UNCHANGED <<clock, deployed, applied, db, customers, read, updates>>

-----------------------------------------------------------------------------
(* The customer API.                                                       *)

\* update(onboarding=True): consent is set when given and kept when omitted.
Onboard(u, consent) ==
    /\ updates < MaxUpdates
    /\ updates' = updates + 1
    /\ customers' = [customers EXCEPT ![u] = [onboarded |-> TRUE, consent |-> consent]]
    /\ UNCHANGED <<clock, deployed, applied, db, txn, read>>

\* PATCH reaches customers that exist: onboarded ones and placeholders.
Patch(u, consent) ==
    /\ updates < MaxUpdates
    /\ customers[u].onboarded \/ db[u].seen
    /\ updates' = updates + 1
    /\ customers' = [customers EXCEPT ![u].consent = consent]
    /\ UNCHANGED <<clock, deployed, applied, db, txn, read>>

\* The first query of a targeting read fixes the snapshot and served_at.
ReadCustomer(r, u) ==
    /\ read[r] = NoRead
    /\ read' = [read EXCEPT ![r] =
           [pc |-> "first", user |-> u, served |-> clock,
            customer |-> customers[u], row |-> db[u], membership |-> NoMembership]]
    /\ UNCHANGED <<clock, deployed, applied, db, customers, txn, updates>>

\* Mistake: READ COMMITTED, so the second query sees later commits.
Mistake_SecondSnapshot(r) == db[read[r].user]

SecondSnapshot(r) == read[r].row

\* The second query reads the memberships, in the same snapshot.
ReadMemberships(r) ==
    /\ read[r].pc = "first"
    /\ read' = [read EXCEPT ![r].pc = "done",
                            ![r].membership = SecondSnapshot(r).memberships[deployed]]
    /\ UNCHANGED <<clock, deployed, applied, db, customers, txn, updates>>

Respond(r) ==
    /\ read[r].pc = "done"
    /\ read' = [read EXCEPT ![r] = NoRead]
    /\ UNCHANGED <<clock, deployed, applied, db, customers, txn, updates>>

-----------------------------------------------------------------------------
Next ==
    \/ Tick
    \/ \E v \in Versions : Deploy(v)
    \/ \E w \in Processors, e \in Events : Record(w, e)
    \/ \E w \in Workers : SelectDue(w)
    \/ \E w \in Workers : EvaluateNext(w)
    \/ \E w \in Writers : Commit(w)
    \/ \E w \in Writers : RollBack(w)
    \/ \E u \in Users, consent \in BOOLEAN : Onboard(u, consent)
    \/ \E u \in Users, consent \in BOOLEAN : Patch(u, consent)
    \/ \E r \in Readers, u \in Users : ReadCustomer(r, u)
    \/ \E r \in Readers : ReadMemberships(r)
    \/ \E r \in Readers : Respond(r)

Spec == Init /\ [][Next]_vars

(* The worker loops for ever: it polls, and a database error only makes it *)
(* poll again.  A customer whose lock is free again and again is found     *)
(* free by some poll, and what is tried again and again commits in the     *)
(* end: errors come and go, and a record a processor cannot commit uses up *)
(* the restarts of its job, which then takes no lock any more (strong      *)
(* fairness).  A transaction ends, one way or the other.                   *)
Fairness ==
    /\ \A w \in Workers : SF_vars(SelectDue(w)) /\ SF_vars(EvaluateNext(w))
    /\ \A w \in Writers : SF_vars(Commit(w)) /\ WF_vars(Commit(w) \/ RollBack(w))

FairSpec == Spec /\ Fairness

-----------------------------------------------------------------------------
(* Properties.                                                             *)

History(u) == {e \in applied : e.user = u}

\* What the rules say of a customer at a time, from the committed events alone.
TrueViews(u) == {e \in History(u) : e.name = "restaurant_view"}

Truly(segment, v, u, now) ==
    CASE segment = "active_browser" -> Cardinality(Current(v, now, TrueViews(u))) >= MinViews
      [] segment = "abandoned_cart" ->
           \E k \in Carts :
              /\ db[u].carts[k].add # NoTime
              /\ db[u].carts[k].add + AbandonDelay[v] <= now
              /\ \A o \in Orders : db[u].facts[o].cart # k
      [] segment = "repeat_customer" ->
           Cardinality({e.order : e \in {f \in History(u) : f.name = "order_completed"}}) >= MinOrders

\* An evaluation stands until its deadline: at every time from evaluated_at up
\* to next_evaluation_at the rules would give, from the rows as they now are,
\* the memberships that are stored.  No writer leaves behaviour unevaluated and
\* no change of membership falls between two deadlines.
EvaluationStands ==
    \A u \in Users :
        LET row == db[u]
            v == row.evaluation.version
        IN  row.evaluation.at # NoTime =>
              \A t \in row.evaluation.at .. (row.evaluation.next - 1) : \A s \in Segments :
                 row.memberships[v].member[s] = Member(s, v, t, row.views, row.carts, Completed(row))

\* Whoever is served as eligible has consented, is onboarded, and does match
\* the segment at this very time, even when the evaluation is overdue: an
\* expired browser or a resolved cart is never targeted.
EligibleIsTrue ==
    \A u \in Users, s \in Segments :
        Eligible(s, deployed, clock, customers[u], db[u].evaluation, db[u].memberships[deployed]) =>
            /\ customers[u].consent /\ customers[u].onboarded
            /\ Truly(s, deployed, u, clock)

\* One response mixes no two states: what it calls eligible was consented to and
\* matched in the snapshot it names.
ResponseIsOneSnapshot ==
    \A r \in Readers, s \in Segments :
        read[r].pc = "done" =>
            LET q == read[r] IN
            Eligible(s, deployed, q.served, q.customer, q.row.evaluation, q.membership) =>
                /\ q.customer.consent
                /\ Member(s, deployed, q.served, q.row.views, q.row.carts, Completed(q.row))

\* The evaluation row and the membership rows of its version are written
\* together, also when a version is deployed for a second time.
EvaluationMatchesMemberships ==
    \A u \in Users :
        db[u].evaluation.at # NoTime =>
            db[u].memberships[db[u].evaluation.version].at = db[u].evaluation.at

\* No writer replaces an evaluation by an older one.
EvaluationsMoveForward ==
    [][\A u \in Users : db'[u].evaluation.at >= db[u].evaluation.at]_vars

\* While an evaluation is not yet due nobody who matches is missed: what is
\* pruned, and what other writers do meanwhile, takes nothing from the
\* customer's rows that still counts.  ("A longer view window cannot recover
\* timestamps already pruned under a shorter window.")
NobodyIsMissed ==
    \A u \in Users, s \in Segments :
        /\ Status(deployed, clock, db[u].evaluation, db[u].memberships[deployed]) # "unevaluated"
        /\ clock < db[u].evaluation.next
        /\ Truly(s, deployed, u, clock)
        /\ s = "active_browser" => \A v \in Versions : Window[v] >= Window[deployed]
        => db[u].memberships[deployed].member[s]

\* A due customer is evaluated, however many others are due and whatever
\* fails: no customer is starved by the batch limit or by skipped locks.
DueIsEvaluated == \A u \in Users : Due(u) ~> ~Due(u)
=============================================================================
