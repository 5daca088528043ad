------------------------- MODULE ProfileLedgerProofs -------------------------
(***************************************************************************)
(* What holds of ProfileLedger for every number of partitions, sessions,   *)
(* customers, ids and records.                                             *)
(***************************************************************************)
EXTENDS ProfileLedger, TLAPS

-----------------------------------------------------------------------------
(* The inductive invariant, part one: what a running job knows.            *)

\* A restart is pending only while the strategy has attempts left.
RestartIsAllowed == job = "restarting" => attempts < RestartAttempts

\* A task waits for the session that handles the record at its position.
TasksWait ==
    \A p \in Partitions :
        task[p] # None =>
            /\ job = "running"
            /\ session[task[p]].pc # "idle"
            /\ session[task[p]].at = <<p, position[p]>>
            /\ position[p] < Len(log[p])
            /\ session[task[p]].record = log[p][position[p] + 1]

TInv == TypeOK /\ RestartIsAllowed /\ TasksWait

\* An empty Kafka, an idle job and an empty ledger are well typed.
LEMMA InitTInv == Init => TInv
<1> SUFFICES ASSUME Init PROVE TInv
  OBVIOUS
<1>1. KafkaType
  BY LedgerAssumption DEF Init, KafkaType, Records
<1>2. FlinkType
  BY LedgerAssumption DEF Init, FlinkType
<1>3. SessionType
  BY DEF Init, SessionType, Idle
<1>4. IdentityType
  BY LedgerAssumption DEF Init, IdentityType, NoReceipt, NoIdentity, Records
<1>5. BehaviorType
  BY DEF Init, BehaviorType, NoFact, NoCartRow, NoSummary, CartRow, NoTime
<1>6. RestartIsAllowed /\ TasksWait
  BY DEF Init, RestartIsAllowed, TasksWait
<1> QED
  BY <1>1, <1>2, <1>3, <1>4, <1>5, <1>6 DEF TInv, TypeOK

\* Kafka and the job: everything but the sessions' own steps.
LEMMA JobStep ==
    ASSUME TInv,
           \/ \E p \in Partitions, r \in Records : Publish(p, r)
           \/ \E p \in Partitions, s \in Sessions : Map(p, s)
           \/ \E p \in Partitions : Return(p)
           \/ Checkpoint \/ Fail \/ Cancel \/ Restart
           \/ \E restore \in BOOLEAN : Resubmit(restore)
           \/ RecreateTopic
           \/ \E e \in EventIds : Lapse(e)
    PROVE  TInv'
<1> USE DEF TInv, TypeOK, RestartIsAllowed
<1>1. ASSUME NEW p \in Partitions, NEW r \in Records, Publish(p, r)
      PROVE  TInv'
  <2> USE <1>1 DEF Publish
  <2>1. KafkaType'
    BY LedgerAssumption DEF KafkaType
  <2>2. FlinkType' /\ SessionType' /\ IdentityType' /\ BehaviorType'
    BY DEF FlinkType, SessionType, IdentityType, BehaviorType, flink, identity, behavior
  <2>3. TasksWait'
    BY SMTT(20) DEF TasksWait, KafkaType, FlinkType, flink
  <2> QED
    BY <2>1, <2>2, <2>3 DEF flink
<1>2. ASSUME NEW p \in Partitions, NEW s \in Sessions, Map(p, s)
      PROVE  TInv'
  <2> USE <1>2 DEF Map
  <2>1. KafkaType' /\ BehaviorType'
    BY DEF KafkaType, BehaviorType, kafka, behavior
  <2>2. FlinkType'
    BY DEF FlinkType
  <2>3. SessionType'
    <3>1. position[p] \in Offsets
      BY LedgerAssumption DEF KafkaType, FlinkType, Offsets
    <3>2. log[p][position[p] + 1] \in Records
      BY <3>1 DEF KafkaType, FlinkType, Offsets
    <3> QED
      BY <3>1, <3>2 DEF SessionType, PCs, Coordinates
  <2>4. IdentityType'
    BY DEF IdentityType, Pruned, NoIdentity, Records
  <2>5. TasksWait'
    BY SMTT(20) DEF TasksWait, FlinkType, KafkaType, SessionType, Idle, kafka
  <2> QED
    BY <2>1, <2>2, <2>3, <2>4, <2>5
<1>3. ASSUME NEW p \in Partitions, Return(p)
      PROVE  TInv'
  <2> USE <1>3 DEF Return
  <2>1. KafkaType' /\ IdentityType' /\ BehaviorType'
    BY DEF KafkaType, IdentityType, BehaviorType, kafka, identity, behavior
  <2>2. FlinkType'
    BY LedgerAssumption DEF FlinkType, KafkaType, TasksWait
  <2>3. SessionType'
    BY DEF SessionType, Idle
  <2>4. TasksWait'
    BY DEF TasksWait, FlinkType, SessionType, kafka
  <2> QED
    BY <2>1, <2>2, <2>3, <2>4
<1>4. ASSUME Checkpoint
      PROVE  TInv'
  BY <1>4 DEF Checkpoint, KafkaType, FlinkType, SessionType, IdentityType, BehaviorType,
              TasksWait, kafka, identity, behavior
<1>5. ASSUME Fail \/ Cancel
      PROVE  TInv'
  <2> USE <1>5 DEF Fail, Cancel, Abandon
  <2>1. KafkaType' /\ IdentityType' /\ BehaviorType'
    BY DEF KafkaType, IdentityType, BehaviorType, kafka, identity, behavior
  <2>2. FlinkType' /\ RestartIsAllowed' /\ TasksWait'
    BY DEF FlinkType, AfterFailure, TasksWait
  <2>3. SessionType'
    BY DEF SessionType, Idle
  <2> QED
    BY <2>1, <2>2, <2>3
<1>6. ASSUME Restart
      PROVE  TInv'
  BY <1>6, LedgerAssumption DEF Restart, KafkaType, FlinkType, SessionType, IdentityType,
              BehaviorType, TasksWait, kafka, identity, behavior
<1>7. ASSUME NEW restore \in BOOLEAN, Resubmit(restore)
      PROVE  TInv'
  BY <1>7, LedgerAssumption DEF Resubmit, KafkaType, FlinkType, SessionType, IdentityType,
              BehaviorType, TasksWait, kafka, identity, behavior
<1>8. ASSUME RecreateTopic
      PROVE  TInv'
  BY <1>8, LedgerAssumption DEF RecreateTopic, KafkaType, FlinkType, SessionType, IdentityType,
              BehaviorType, TasksWait, identity, behavior
<1>9. ASSUME NEW e \in EventIds, Lapse(e)
      PROVE  TInv'
  <2> USE <1>9 DEF Lapse
  <2>1. KafkaType' /\ FlinkType' /\ SessionType' /\ BehaviorType' /\ TasksWait' /\ RestartIsAllowed'
    BY DEF KafkaType, FlinkType, SessionType, BehaviorType, TasksWait, kafka, flink, behavior
  <2>2. ids' \in [EventIds -> [state: {"absent", "live", "expired"}, event: Records]]
    BY DEF IdentityType
  <2>3. lapses' \in [EventIds -> 0 .. MaxLapses]
    BY LedgerAssumption DEF IdentityType
  <2> QED
    BY <2>1, <2>2, <2>3 DEF IdentityType
<1> QED
  BY <1>1, <1>2, <1>3, <1>4, <1>5, <1>6, <1>7, <1>8, <1>9

JobInv == KafkaType /\ FlinkType /\ SessionType /\ RestartIsAllowed /\ TasksWait

\* A session that commits leaves job and sessions well typed, and tasks waiting for their own sessions.
LEMMA CommitStep ==
    ASSUME TInv, NEW s \in Sessions, session[s].pc # "idle", Commit(s), UNCHANGED <<kafka, flink>>
    PROVE  JobInv'
<1> USE DEF TInv, TypeOK, Commit, kafka, flink
<1>1. KafkaType' /\ FlinkType' /\ RestartIsAllowed'
  BY DEF KafkaType, FlinkType, RestartIsAllowed
<1>2. SessionType'
  BY DEF SessionType, PCs, Idle
<1>3. TasksWait'
  BY DEF TasksWait, SessionType, FlinkType, IsLive, PCs, Idle
<1> QED
  BY <1>1, <1>2, <1>3 DEF JobInv

\* So does a session that only advances inside its transaction.
LEMMA GoToStep ==
    ASSUME TInv, NEW s \in Sessions, session[s].pc # "idle",
           session[s].record \in Events, NEW pc \in PCs \ {"idle"}, GoTo(s, pc), UNCHANGED <<kafka, flink>>
    PROVE  JobInv'
<1> USE DEF TInv, TypeOK, GoTo, kafka, flink
<1>1. KafkaType' /\ FlinkType' /\ RestartIsAllowed'
  BY DEF KafkaType, FlinkType, RestartIsAllowed
<1>2. SessionType'
  BY DEF SessionType, PCs, Idle
<1>3. TasksWait'
  BY DEF TasksWait, SessionType, FlinkType, PCs, Idle
<1> QED
  BY <1>1, <1>2, <1>3 DEF JobInv

\* A rollback that interrupts map() ends it with an error.
LEMMA RollBackStep ==
    ASSUME TInv, NEW s \in Sessions, RollBack(s)
    PROVE  TInv'
<1> USE DEF TInv, TypeOK, RollBack, kafka, identity, behavior
<1>1. KafkaType' /\ IdentityType' /\ BehaviorType'
  BY DEF KafkaType, IdentityType, BehaviorType
<1>2. FlinkType' /\ RestartIsAllowed'
  BY DEF FlinkType, RestartIsAllowed, AfterFailure
<1>3. SessionType'
  <2>1. \A t \in Sessions : session'[t] = Idle \/ session'[t] = session[t]
    BY Zenon
  <2> DEFINE Kept == [t \in Sessions |->
                         IF t = s \/ (IsLive(s) /\ session[t].pc = "committed") THEN Idle ELSE session[t]]
  <2>2. Kept \in [Sessions -> {Idle} \cup [pc: PCs, at: Coordinates, record: Records]]
    BY DEF SessionType, IsLive
  <2>3. session' = Kept
    OBVIOUS
  <2> QED
    BY <2>1, <2>2, <2>3 DEF SessionType, Idle
<1>4. TasksWait'
  BY DEF TasksWait, FlinkType, IsLive
<1> QED
  BY <1>1, <1>2, <1>3, <1>4

\* The round trips before the behaviour is written: receipt, id, comparison and abort.
LEMMA RefusalStep ==
    ASSUME TInv, NEW s \in Sessions,
           InsertReceipt(s) \/ ClaimIdentity(s) \/ CompareIdentity(s) \/ AbortTransaction(s)
    PROVE  TInv'
<1> USE DEF TInv, TypeOK
<1>0. session[s].pc # "idle" => session[s].record \in Records /\ session[s].at \in Coordinates
  BY DEF SessionType, Idle
<1>1. CASE InsertReceipt(s)
  <2>1. CASE RollBack(s)
    BY <2>1, RollBackStep
  <2>2. CASE session[s].record # Invalid /\ GoTo(s, "identity") /\ UNCHANGED <<kafka, flink, identity, behavior>>
    <3>1. session[s].record \in Events
      BY <1>0, <1>1, <2>2 DEF InsertReceipt, Records
    <3>2. JobInv'
      BY <1>1, <2>2, <3>1, GoToStep DEF InsertReceipt, PCs
    <3> QED
      BY <2>2, <3>2 DEF JobInv, IdentityType, BehaviorType, identity, behavior
  <2>3. CASE /\ receipts' = [receipts EXCEPT ![session[s].at] =
                    [payload |-> session[s].record, outcome |-> "invalid"]]
             /\ Commit(s)
             /\ UNCHANGED <<kafka, flink, ids, lapses, behavior>>
    <3>1. JobInv'
      BY <1>1, <2>3, CommitStep DEF InsertReceipt
    <3>2. IdentityType'
      BY <1>0, <1>1, <2>3 DEF InsertReceipt, IdentityType, Outcomes
    <3> QED
      BY <2>3, <3>1, <3>2 DEF JobInv, BehaviorType, behavior
  <2>4. CASE Commit(s) /\ UNCHANGED <<kafka, flink, identity, behavior>>
    <3>1. JobInv'
      BY <1>1, <2>4, CommitStep DEF InsertReceipt
    <3> QED
      BY <2>4, <3>1 DEF JobInv, IdentityType, BehaviorType, identity, behavior
  <2> QED
    BY <1>1, <2>1, <2>2, <2>3, <2>4 DEF InsertReceipt
<1>2. CASE ClaimIdentity(s)
  <2>1. JobInv'
    <3>1. session[s].record \in Events
      BY <1>2 DEF ClaimIdentity, SessionType
    <3> QED
      BY <1>2, <3>1, GoToStep DEF ClaimIdentity, PCs
  <2> QED
    BY <1>2, <2>1 DEF ClaimIdentity, JobInv, IdentityType, BehaviorType, identity, behavior
<1>3. CASE CompareIdentity(s)
  <2>1. CASE RollBack(s)
    BY <2>1, RollBackStep
  <2>2. CASE ~RollBack(s)
    <3>1. JobInv'
      BY <1>3, <2>2, CommitStep DEF CompareIdentity
    <3>2. IdentityType'
      BY <1>0, <1>3, <2>2 DEF CompareIdentity, IdentityType, Outcomes, Refusal
    <3> QED
      BY <1>3, <2>2, <3>1, <3>2 DEF CompareIdentity, JobInv, BehaviorType, behavior
  <2> QED
    BY <2>1, <2>2
<1>4. CASE AbortTransaction(s)
  BY <1>4, RollBackStep DEF AbortTransaction
<1> QED
  BY <1>1, <1>2, <1>3, <1>4

\* What an event makes of the carts are cart rows again.
LEMMA CartRowsType ==
    ASSUME NEW rows \in [Carts -> CartRow(Times)], NEW e \in Events,
           NEW facts \in [Orders -> [at: Times \cup {NoTime}, cart: Carts \cup {None}]]
    PROVE  RecordCarts(rows, e, facts) \in [Carts -> CartRow(Times)]
<1>1. e \in Event
  BY LedgerAssumption
<1>2. \A a, b \in Times \cup {NoTime} :
        Greatest(a, b) \in Times \cup {NoTime} /\ Least(a, b) \in Times \cup {NoTime}
  BY DEF Greatest, Least
<1>3. CASE e.name = "add_to_cart"
  BY <1>1, <1>2, <1>3 DEF RecordCarts, CartRow, Event
<1>4. CASE e.name = "checkout_started"
  BY <1>1, <1>2, <1>4 DEF RecordCarts, CartRow, Event
<1>5. CASE e.name = "order_completed"
  <2> DEFINE k == facts[e.order].cart
  <2>1. RecordCarts(rows, e, facts) = [rows EXCEPT ![k].done = Least(@, facts[e.order].at)]
    BY <1>5 DEF RecordCarts
  <2>2. facts[e.order].at \in Times \cup {NoTime}
    BY <1>1 DEF Event
  <2>3. ASSUME k \in Carts
        PROVE  [rows EXCEPT ![k].done = Least(@, facts[e.order].at)] \in [Carts -> CartRow(Times)]
    BY <1>2, <2>2, <2>3 DEF CartRow
  <2>4. ASSUME k \notin Carts
        PROVE  [rows EXCEPT ![k].done = Least(@, facts[e.order].at)] = rows
    BY <2>4
  <2> QED
    BY <2>1, <2>3, <2>4
<1> QED
  BY <1>3, <1>4, <1>5 DEF RecordCarts

\* The rest of apply writes rows of the declared types.
LEMMA ApplyStep ==
    ASSUME TInv, NEW s \in Sessions, Apply(s)
    PROVE  TInv'
<1> USE DEF TInv, TypeOK
<1> DEFINE e == session[s].record
<1>0. session[s].record \in Records /\ session[s].at \in Coordinates
  BY DEF SessionType, Idle, Apply
<1>1. e \in Events /\ e \in Event
  BY LedgerAssumption DEF Apply, SessionType
<1>2. JobInv'
  BY CommitStep DEF Apply
<1>3. IdentityType'
  BY <1>0, <1>1 DEF Apply, IdentityType, Outcomes, Event
<1>4. orders' \in [Users -> [Orders -> [at: Times \cup {NoTime}, cart: Carts \cup {None}]]]
  BY <1>1 DEF Apply, OrdersAfter, BehaviorType, Event
<1>5. customers' \in [Users -> {"absent", "placeholder", "onboarded"}]
  BY <1>1 DEF Apply, CustomersAfter, BehaviorType, Event
<1>6. carts' \in [Users -> [Carts -> CartRow(Times)]]
  <2>1. OrdersAfter(e)[e.user] \in [Orders -> [at: Times \cup {NoTime}, cart: Carts \cup {None}]]
    BY <1>1, <1>4 DEF Apply, Event
  <2>2. RecordCarts(carts[e.user], e, OrdersAfter(e)[e.user]) \in [Carts -> CartRow(Times)]
    BY <1>1, <2>1, CartRowsType DEF BehaviorType, Event
  <2> QED
    BY <1>1, <2>2 DEF Apply, CartsAfter, BehaviorType, Event
<1>7. summary' \in [Users ->
           [counts: [EventNames -> Nat], completed: Nat, revision: Nat,
            latestActivity: Times \cup {NoTime}, latestOrder: Times \cup {NoTime}]]
  <2> DEFINE Row == SummaryRow(summary[e.user], e)
  <2>1. Row \in [counts: [EventNames -> Nat], completed: Nat, revision: Nat,
                latestActivity: Times \cup {NoTime}, latestOrder: Times \cup {NoTime}]
    <3>1. e.user \in Users /\ e.name \in EventNames /\ e.at \in Times
      BY <1>1 DEF Event
    <3>2. summary[e.user] \in [counts: [EventNames -> Nat], completed: Nat, revision: Nat,
                latestActivity: Times \cup {NoTime}, latestOrder: Times \cup {NoTime}]
      BY <3>1 DEF BehaviorType
    <3>3. [summary[e.user].counts EXCEPT ![e.name] = @ + 1] \in [EventNames -> Nat]
      BY <3>1, <3>2
    <3>4. Greatest(summary[e.user].latestActivity, e.at) \in Times \cup {NoTime}
      BY <3>1, <3>2 DEF Greatest
    <3>5. \A t \in Times \cup {NoTime} :
             Greatest(summary[e.user].latestOrder, t) \in Times \cup {NoTime}
      BY <3>2 DEF Greatest
    <3>6. (IF IsNewOrder(e) THEN e.at ELSE NoTime) \in Times \cup {NoTime}
      BY <3>1
    <3>7. /\ (IF IsNewOrder(e) THEN summary[e.user].completed + 1 ELSE summary[e.user].completed) \in Nat
          /\ summary[e.user].revision + 1 \in Nat
      BY <3>2
    <3> QED
      BY <3>3, <3>4, <3>5, <3>6, <3>7 DEF SummaryRow
  <2>2. summary' = [summary EXCEPT ![e.user] = Row]
    BY DEF Apply, SummaryAfter
  <2> QED
    BY <1>1, <2>1, <2>2 DEF BehaviorType, Event
<1>8. views' \in [Users -> SUBSET EventIds]
  <2>1. ViewsAfter(e) \in [Users -> SUBSET EventIds] /\ e.user \in Users
    BY <1>1 DEF ViewsAfter, BehaviorType, Event
  <2>2. PICK kept \in SUBSET ViewsAfter(e)[e.user] : views' = [ViewsAfter(e) EXCEPT ![e.user] = kept]
    BY DEF Apply, EvaluateCustomer
  <2>3. kept \in SUBSET EventIds
    BY <2>1
  <2> QED
    BY <2>1, <2>2, <2>3
<1> QED
  BY <1>2, <1>3, <1>4, <1>5, <1>6, <1>7, <1>8 DEF JobInv, BehaviorType

\* Onboarding and the segment worker write rows of the declared types.
LEMMA WriterStep ==
    ASSUME TInv, NEW u \in Users, Onboard(u) \/ EvaluateDue(u)
    PROVE  TInv'
<1> USE DEF TInv, TypeOK
<1>1. JobInv' /\ IdentityType'
  BY DEF Onboard, EvaluateDue, JobInv, KafkaType, FlinkType, SessionType, IdentityType,
         RestartIsAllowed, TasksWait, kafka, flink, identity
<1>2. BehaviorType'
  <2>1. CASE Onboard(u)
    BY <2>1 DEF Onboard, BehaviorType
  <2>2. CASE EvaluateDue(u)
    <3>1. PICK kept \in SUBSET views[u] : views' = [views EXCEPT ![u] = kept]
      BY <2>2 DEF EvaluateDue, EvaluateCustomer
    <3>2. kept \in SUBSET EventIds
      BY DEF BehaviorType
    <3> QED
      BY <2>2, <3>1, <3>2 DEF EvaluateDue, BehaviorType
  <2> QED
    BY <2>1, <2>2
<1> QED
  BY <1>1, <1>2 DEF JobInv

\* Every step of the job, its sessions and their surroundings preserves the types.
LEMMA NextTInv == TInv /\ [Next]_vars => TInv'
<1> SUFFICES ASSUME TInv, [Next]_vars PROVE TInv'
  OBVIOUS
<1>1. CASE \E s \in Sessions : Apply(s)
  BY <1>1, ApplyStep
<1>2. CASE \E s \in Sessions :
              InsertReceipt(s) \/ ClaimIdentity(s) \/ CompareIdentity(s) \/ AbortTransaction(s)
  BY <1>2, RefusalStep
<1>3. CASE \E u \in Users : Onboard(u) \/ EvaluateDue(u)
  BY <1>3, WriterStep
<1>4. CASE UNCHANGED vars
  BY <1>4 DEF TInv, TypeOK, KafkaType, FlinkType, SessionType, IdentityType, BehaviorType,
              RestartIsAllowed, TasksWait, vars, kafka, flink, identity, behavior
<1> QED
  BY <1>1, <1>2, <1>3, <1>4, JobStep DEF Next

\* The type invariant and its companions hold in every reachable state.
LEMMA SpecTInv == Spec => []TInv
BY InitTInv, NextTInv, PTL DEF Spec

\* Every variable has its type in every reachable state: in particular no split
\* reads past the end of its partition and the restarts used never exceed the
\* attempts the strategy allows.
THEOREM TypeCorrect == Spec => []TypeOK
BY SpecTInv, PTL DEF TInv
=============================================================================
