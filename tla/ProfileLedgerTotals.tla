------------------------- MODULE ProfileLedgerTotals -------------------------
(***************************************************************************)
(* What the rows of ProfileLedger amount to: an id contributes once per    *)
(* retention period; the totals and the latest times of a summary, and the *)
(* carts, are what the applied receipts give.                              *)
(***************************************************************************)
EXTENDS ProfileLedgerSafety, FiniteSetTheorems

\* There are finitely many coordinates.
LEMMA CoordinatesFinite == IsFiniteSet(Coordinates)
<1>1. IsFiniteSet(Offsets)
  BY LedgerAssumption, FS_Interval DEF Offsets
<1> QED
  BY <1>1, LedgerAssumption, FS_Product DEF Coordinates

\* One more element counts one more.
LEMMA CountOneMore ==
    ASSUME NEW S, NEW T, NEW c, IsFiniteSet(S), c \notin S, T = S \cup {c}
    PROVE  Cardinality(T) = Cardinality(S) + 1
BY FS_AddElement

\* The receipts counted are finitely many.
LEMMA ReceiptSetsFinite ==
    /\ \A e : IsFiniteSet(AppliedWith(e)) /\ Cardinality(AppliedWith(e)) \in Nat
    /\ \A u : IsFiniteSet(Applied(u)) /\ Cardinality(Applied(u)) \in Nat
    /\ \A u, n : IsFiniteSet(AppliedAs(u, n)) /\ Cardinality(AppliedAs(u, n)) \in Nat
<1>1. \A T \in SUBSET Coordinates : IsFiniteSet(T) /\ Cardinality(T) \in Nat
  BY CoordinatesFinite, FS_Subset, FS_CardinalityType
<1> QED
  BY <1>1 DEF AppliedWith, Applied, AppliedAs

-----------------------------------------------------------------------------
(* Event ids.                                                              *)

\* Ids and the applied receipts that carry them are counted alike by every step.
LEMMA NextOnce ==
    ASSUME TInv, SInv, AppliedOncePerRetention, [Next]_vars
    PROVE  AppliedOncePerRetention'
<1> USE DEF AppliedOncePerRetention
<1>1. ASSUME NEW s \in Sessions, Apply(s)
      PROVE  AppliedOncePerRetention'
  <2>1. PICK e \in Events, c \in Coordinates : e = session[s].record /\ c = session[s].at
    BY <1>1, SessionPlace DEF Apply, HasReceipt
  <2>2. /\ Writes(c, e, "applied") /\ e.id \in EventIds
        /\ ids[e.id].state # "live"
    BY <1>1, <2>1, LedgerAssumption
       DEF Apply, Writes, SInv, ReceiptsLocked, IdsLocked, HasReceipt, HasIdentity, Event
  <2>3. /\ receipts'[c] = [payload |-> e, outcome |-> "applied"]
        /\ \A d \in Coordinates \ {c} : receipts'[d] = receipts[d]
    BY <2>2, WriteShape DEF Records, Outcomes
  <2>4. \A d \in EventIds :
           /\ d = e.id => c \notin AppliedWith(d) /\ AppliedWith(d)' = AppliedWith(d) \cup {c}
           /\ d # e.id => AppliedWith(d)' = AppliedWith(d)
    BY <2>2, <2>3 DEF AppliedWith, Writes, None
  <2>5. ASSUME NEW d \in EventIds, d = e.id
        PROVE  Cardinality(AppliedWith(d)') = Cardinality(AppliedWith(d)) + 1
    BY <2>4, <2>5, ReceiptSetsFinite, CountOneMore
  <2>6. /\ lapses' = lapses /\ ids'[e.id].state = "live"
        /\ \A d \in EventIds \ {e.id} : ids'[d] = ids[d]
    BY <1>1, <2>1, <2>2 DEF Apply, TInv, TypeOK, IdentityType
  <2>7. lapses[e.id] \in Nat
    BY <2>2, LedgerAssumption DEF TInv, TypeOK, IdentityType
  <2>8. ASSUME NEW d \in EventIds
        PROVE  Cardinality(AppliedWith(d)') = lapses'[d] + (IF ids'[d].state = "live" THEN 1 ELSE 0)
    <3>1. Cardinality(AppliedWith(d)) = lapses[d] + (IF ids[d].state = "live" THEN 1 ELSE 0)
      OBVIOUS
    <3>2. CASE d = e.id
      BY <2>2, <2>5, <2>6, <2>7, <3>1, <3>2
    <3>3. CASE d # e.id
      BY <2>4, <2>6, <3>1, <3>3
    <3> QED
      BY <3>2, <3>3
  <2> QED
    BY <2>8
<1>2. ASSUME NEW e \in EventIds, Lapse(e)
      PROVE  AppliedOncePerRetention'
  <2>1. /\ ids[e].state = "live" /\ ids'[e].state = "expired" /\ lapses'[e] = lapses[e] + 1
        /\ \A d \in EventIds \ {e} : ids'[d] = ids[d] /\ lapses'[d] = lapses[d]
        /\ \A d \in EventIds : AppliedWith(d)' = AppliedWith(d)
    BY <1>2 DEF Lapse, TInv, TypeOK, IdentityType, AppliedWith
  <2>2. lapses[e] \in Nat
    BY LedgerAssumption DEF TInv, TypeOK, IdentityType
  <2> QED
    BY <2>1, <2>2
<1>3. ASSUME UNCHANGED lapses, \A d \in EventIds : ids'[d].state = "live" <=> ids[d].state = "live",
             \A d \in EventIds : AppliedWith(d)' = AppliedWith(d)
      PROVE  AppliedOncePerRetention'
  BY <1>3
<1>4. ASSUME NEW s \in Sessions, CompareIdentity(s), ~RollBack(s)
      PROVE  AppliedOncePerRetention'
  <2>1. PICK e \in Events, c \in Coordinates : e = session[s].record /\ c = session[s].at
    BY <1>4, SessionPlace DEF CompareIdentity, HasReceipt
  <2>2. Writes(c, e, Refusal(e)) /\ UNCHANGED <<ids, lapses>>
    BY <1>4, <2>1 DEF CompareIdentity, Writes, SInv, ReceiptsLocked, HasReceipt
  <2>3. \A d \in EventIds : AppliedWith(d)' = AppliedWith(d)
    <3>1. e \in Records /\ Refusal(e) \in Outcomes /\ Refusal(e) # "applied"
      BY DEF Records, Outcomes, Refusal
    <3>2. /\ receipts'[c].outcome # "applied" /\ receipts[c].outcome # "applied"
          /\ \A d \in Coordinates \ {c} : receipts'[d] = receipts[d]
      BY <2>2, <3>1, WriteShape DEF Writes, None
    <3> QED
      BY <3>2 DEF AppliedWith
  <2> QED
    BY <1>3, <2>2, <2>3
<1>5. ASSUME NEW s \in Sessions, session[s].pc = "receipt", session[s].record = Invalid,
             receipts[session[s].at].outcome = None, UNCHANGED <<kafka, flink, ids, lapses, behavior>>,
             receipts' = [receipts EXCEPT ![session[s].at] =
                 [payload |-> session[s].record, outcome |-> "invalid"]]
      PROVE  AppliedOncePerRetention'
  <2>1. session[s].at \in Coordinates
    BY <1>5, SessionPlace
  <2>2. \A d \in EventIds : AppliedWith(d)' = AppliedWith(d)
    BY <1>5, <2>1 DEF AppliedWith, None, TInv, TypeOK, IdentityType
  <2> QED
    BY <1>3, <1>5, <2>2
<1>6. CASE UNCHANGED <<receipts, ids, lapses>>
  BY <1>3, <1>6 DEF AppliedWith
<1>7. ASSUME NEW p \in Partitions, NEW s \in Sessions, Map(p, s)
      PROVE  AppliedOncePerRetention'
  <2>1. \A d \in EventIds : ids'[d].state = "live" <=> ids[d].state = "live"
    BY <1>7 DEF Map, Pruned, NoIdentity
  <2> QED
    BY <1>3, <1>7, <2>1 DEF Map, AppliedWith
<1>8. ASSUME NEW s \in Sessions, InsertReceipt(s) \/ ClaimIdentity(s) \/ CompareIdentity(s)
                \/ AbortTransaction(s)
      PROVE  AppliedOncePerRetention'
  <2>1. CASE CompareIdentity(s) /\ ~RollBack(s)
    BY <1>4, <2>1
  <2>2. CASE ~(CompareIdentity(s) /\ ~RollBack(s))
    BY <1>5, <1>6, <1>8, <2>2 DEF InsertReceipt, ClaimIdentity, AbortTransaction, RollBack, identity
  <2> QED
    BY <2>1, <2>2
<1>9. CASE \/ UNCHANGED vars
           \/ \E p \in Partitions, r \in Records : Publish(p, r)
           \/ \E p \in Partitions : Return(p)
           \/ Checkpoint \/ Fail \/ Cancel \/ Restart
           \/ \E restore \in BOOLEAN : Resubmit(restore)
           \/ RecreateTopic
           \/ \E u \in Users : Onboard(u) \/ EvaluateDue(u)
  <2>1. UNCHANGED <<receipts, ids, lapses>>
    BY <1>9 DEF vars, Publish, Return, Checkpoint, Fail, Cancel, Abandon, Restart, Resubmit,
                RecreateTopic, Onboard, EvaluateDue, identity
  <2> QED
    BY <1>6, <2>1
<1> QED
  BY <1>1, <1>2, <1>7, <1>8, <1>9 DEF Next

\* Whatever partitions, sessions and job attempts race for an event id, it is
\* applied once, and once more for each time its retention ran out.
THEOREM OncePerRetention == Spec => []AppliedOncePerRetention
<1>1. Init => AppliedOncePerRetention
  <2> SUFFICES ASSUME Init PROVE AppliedOncePerRetention
    OBVIOUS
  <2>1. \A e \in EventIds : AppliedWith(e) = {} /\ lapses[e] = 0 /\ ids[e].state = "absent"
    BY DEF Init, AppliedWith, NoReceipt, NoIdentity, None
  <2> QED
    BY <2>1, FS_EmptySet DEF AppliedOncePerRetention
<1>2. TInv /\ SInv /\ AppliedOncePerRetention /\ [Next]_vars => AppliedOncePerRetention'
  BY NextOnce
<1> QED
  BY <1>1, <1>2, Invariance, PTL DEF Spec

-----------------------------------------------------------------------------
(* Totals.                                                                 *)

\* The orders of a customer are finitely many.
LEMMA FactsFinite == \A u : IsFiniteSet(Facts(u)) /\ Cardinality(Facts(u)) \in Nat
BY LedgerAssumption, FS_Subset, FS_CardinalityType DEF Facts

\* Summaries and the receipts and orders they sum up are counted alike by every step.
LEMMA NextTotals ==
    ASSUME TInv, SInv, TotalsMatchReceipts, [Next]_vars
    PROVE  TotalsMatchReceipts'
<1> DEFINE Total(u) ==
        /\ summary[u].revision = Cardinality(Applied(u))
        /\ \A n \in EventNames : summary[u].counts[n] = Cardinality(AppliedAs(u, n))
        /\ summary[u].completed = Cardinality(Facts(u))
<1>0. \A u \in Users : Total(u)
  BY DEF TotalsMatchReceipts
<1>1. ASSUME NEW u \in Users, UNCHANGED <<summary[u], orders[u]>>,
             Applied(u)' = Applied(u), \A n \in EventNames : AppliedAs(u, n)' = AppliedAs(u, n)
      PROVE  Total(u)'
  <2>1. Facts(u)' = Facts(u)
    BY <1>1 DEF Facts
  <2> QED
    BY <1>0, <1>1, <2>1
<1>2. CASE UNCHANGED <<receipts, summary, orders, carts>>
  <2>1. \A u \in Users : Applied(u)' = Applied(u) /\ \A n \in EventNames : AppliedAs(u, n)' = AppliedAs(u, n)
    BY <1>2 DEF Applied, AppliedAs
  <2> QED
    BY <1>1, <1>2, <2>1 DEF TotalsMatchReceipts
<1>3. ASSUME NEW c \in Coordinates, NEW r \in Records, NEW outcome \in Outcomes, Writes(c, r, outcome),
             outcome # "applied", UNCHANGED <<summary, orders, carts>>
      PROVE  TotalsMatchReceipts'
  <2>1. /\ receipts'[c].outcome # "applied" /\ receipts[c].outcome # "applied"
        /\ \A d \in Coordinates \ {c} : receipts'[d] = receipts[d]
    BY <1>3, WriteShape DEF Writes, None
  <2>2. \A u \in Users : Applied(u)' = Applied(u) /\ \A n \in EventNames : AppliedAs(u, n)' = AppliedAs(u, n)
    BY <2>1 DEF Applied, AppliedAs
  <2> QED
    BY <1>1, <1>3, <2>2 DEF TotalsMatchReceipts
<1>4. ASSUME NEW c \in Coordinates, NEW e \in Events, Writes(c, e, "applied"),
             summary' = SummaryAfter(e), orders' = OrdersAfter(e)
      PROVE  TotalsMatchReceipts'
  <2>0. /\ e.user \in Users /\ e.name \in EventNames /\ e.order \in Orders
        /\ e.at # NoTime
    BY LedgerAssumption DEF Event
  <2>1. /\ receipts'[c] = [payload |-> e, outcome |-> "applied"] /\ receipts[c].outcome # "applied"
        /\ \A d \in Coordinates \ {c} : receipts'[d] = receipts[d]
    BY <1>4, WriteShape DEF Records, Outcomes, Writes, None
  <2>2. ASSUME NEW u \in Users, u # e.user
        PROVE  Total(u)'
    <3>1. Applied(u)' = Applied(u) /\ \A n \in EventNames : AppliedAs(u, n)' = AppliedAs(u, n)
      BY <2>1, <2>2 DEF Applied, AppliedAs
    <3>2. UNCHANGED <<summary[u], orders[u]>>
      BY <1>4, <2>2 DEF SummaryAfter, OrdersAfter, TInv, TypeOK, BehaviorType
    <3> QED
      BY <1>1, <3>1, <3>2
  <2>3. ASSUME NEW u \in Users, u = e.user
        PROVE  Total(u)'
    <3>1. summary'[u] = SummaryRow(summary[u], e)
      BY <1>4, <2>3 DEF SummaryAfter, TInv, TypeOK, BehaviorType
    <3>2. summary[u].counts \in [EventNames -> Nat]
      BY DEF TInv, TypeOK, BehaviorType
    <3>3. Cardinality(Applied(u)') = Cardinality(Applied(u)) + 1
      <4>1. c \notin Applied(u) /\ Applied(u)' = Applied(u) \cup {c}
        BY <2>1, <2>3 DEF Applied
      <4> QED
        BY <4>1, ReceiptSetsFinite, CountOneMore
    <3>4. ASSUME NEW n \in EventNames
          PROVE  Cardinality(AppliedAs(u, n)') = Cardinality(AppliedAs(u, n)) + (IF n = e.name THEN 1 ELSE 0)
      <4>1. /\ c \notin AppliedAs(u, n)
            /\ n = e.name => AppliedAs(u, n)' = AppliedAs(u, n) \cup {c}
            /\ n # e.name => AppliedAs(u, n)' = AppliedAs(u, n)
        BY <2>1, <2>3 DEF AppliedAs, Applied
      <4>2. CASE n = e.name
        BY <4>1, <4>2, ReceiptSetsFinite, CountOneMore
      <4>3. CASE n # e.name
        BY <4>1, <4>3, ReceiptSetsFinite
      <4> QED
        BY <4>2, <4>3
    <3>5. Cardinality(Facts(u)') = Cardinality(Facts(u)) + (IF IsNewOrder(e) THEN 1 ELSE 0)
      <4>1. CASE IsNewOrder(e)
        <5>1. e.order \notin Facts(u) /\ Facts(u)' = Facts(u) \cup {e.order}
          BY <1>4, <2>0, <2>3, <4>1 DEF Facts, IsNewOrder, OrdersAfter, NoFact, TInv, TypeOK, BehaviorType
        <5> QED
          BY <4>1, <5>1, FactsFinite, CountOneMore
      <4>2. CASE ~IsNewOrder(e)
        <5>1. Facts(u)' = Facts(u)
          BY <1>4, <4>2 DEF Facts, OrdersAfter
        <5> QED
          BY <4>2, <5>1, FactsFinite
      <4> QED
        BY <4>1, <4>2
    <3>6. /\ summary'[u].revision = summary[u].revision + 1
          /\ \A n \in EventNames :
                summary'[u].counts[n] = summary[u].counts[n] + (IF n = e.name THEN 1 ELSE 0)
          /\ summary'[u].completed = summary[u].completed + (IF IsNewOrder(e) THEN 1 ELSE 0)
          /\ summary[u].completed \in Nat
      BY <2>0, <3>1, <3>2 DEF SummaryRow, TInv, TypeOK, BehaviorType
    <3> QED
      BY <1>0, <3>3, <3>4, <3>5, <3>6
  <2> QED
    BY <2>2, <2>3 DEF TotalsMatchReceipts
<1>5. /\ Invalid \in Records /\ "invalid" \in Outcomes
      /\ \A r \in Events : r \in Records /\ Refusal(r) \in Outcomes \ {"applied"}
  BY DEF Records, Refusal, Outcomes
<1> QED
  BY <1>2, <1>3, <1>4, <1>5, ReceiptWrites

\* The revision, the five event counts and the distinct-order total of every
\* summary are exactly what the applied receipts and the durable order facts
\* amount to, however often their records were delivered.
THEOREM TotalsMatch == Spec => []TotalsMatchReceipts
<1>1. Init => TotalsMatchReceipts
  <2> SUFFICES ASSUME Init PROVE TotalsMatchReceipts
    OBVIOUS
  <2>1. \A u \in Users : Applied(u) = {} /\ Facts(u) = {} /\ \A n \in EventNames : AppliedAs(u, n) = {}
    BY DEF Init, Applied, AppliedAs, Facts, NoReceipt, None
  <2>2. \A u \in Users : summary[u].revision = 0 /\ summary[u].completed = 0
                          /\ \A n \in EventNames : summary[u].counts[n] = 0
    BY DEF Init, NoSummary
  <2> QED
    BY <2>1, <2>2, FS_EmptySet DEF TotalsMatchReceipts
<1>2. TInv /\ SInv /\ TotalsMatchReceipts /\ [Next]_vars => TotalsMatchReceipts'
  BY NextTotals
<1> QED
  BY <1>1, <1>2, Invariance, PTL DEF Spec

-----------------------------------------------------------------------------
(* Latest times and cart rows.                                             *)

\* The later of two times is one of them, and neither is later.
LEMMA GreatestIsLater ==
    \A a, b \in Times \cup {NoTime} :
        /\ Greatest(a, b) \in {a, b} /\ a <= Greatest(a, b) /\ b <= Greatest(a, b)
        /\ NoTime <= a
BY LedgerAssumption DEF Greatest, NoTime

\* Times are numbers, the absent time included.
LEMMA TimesAreNumbers == Times \cup {NoTime} \subseteq Int
BY LedgerAssumption DEF NoTime

\* Only events are applied.
LEMMA AppliedAreEvents ==
    ASSUME TInv, RefusalsAreJustified, NEW u
    PROVE  \A d \in Applied(u) : receipts[d].payload \in Events /\ receipts[d].payload.at \in Times
<1>1. \A d \in Applied(u) : receipts[d].payload # Invalid
  BY DEF Applied, RefusalsAreJustified, None
<1>2. \A d \in Applied(u) : receipts[d].payload \in Records
  BY DEF Applied, TInv, TypeOK, IdentityType
<1> QED
  BY <1>1, <1>2, LedgerAssumption DEF Records, Event

\* What applying an event leaves as it was, and what it adds to its customer.
LEMMA AppliedShape ==
    ASSUME TInv, NEW c \in Coordinates, NEW e \in Events, Writes(c, e, "applied"),
           summary' = SummaryAfter(e), orders' = OrdersAfter(e), carts' = CartsAfter(e)
    PROVE  /\ receipts'[c].payload = e
           /\ \A d \in Coordinates \ {c} : receipts'[d] = receipts[d]
           /\ c \notin Applied(e.user) /\ Applied(e.user)' = Applied(e.user) \cup {c}
           /\ \A n \in EventNames :
                 AppliedAs(e.user, n)' =
                     IF n = e.name THEN AppliedAs(e.user, n) \cup {c} ELSE AppliedAs(e.user, n)
           /\ summary'[e.user] = SummaryRow(summary[e.user], e)
           /\ carts'[e.user] = RecordCarts(carts[e.user], e, orders'[e.user])
           /\ \A u \in Users \ {e.user} :
                 /\ summary'[u] = summary[u] /\ orders'[u] = orders[u] /\ carts'[u] = carts[u]
                 /\ Applied(u)' = Applied(u)
                 /\ \A n \in EventNames : AppliedAs(u, n)' = AppliedAs(u, n)
<1>1. /\ receipts'[c] = [payload |-> e, outcome |-> "applied"] /\ receipts[c].outcome # "applied"
      /\ \A d \in Coordinates \ {c} : receipts'[d] = receipts[d]
  BY WriteShape DEF Records, Outcomes, Writes, None
<1>2. e.user \in Users
  BY LedgerAssumption DEF Event
<1>3. /\ DOMAIN summary = Users /\ DOMAIN orders = Users /\ DOMAIN carts = Users
  BY DEF TInv, TypeOK, BehaviorType
<1>4. /\ summary'[e.user] = SummaryRow(summary[e.user], e)
      /\ carts'[e.user] = RecordCarts(carts[e.user], e, orders'[e.user])
      /\ \A u \in Users \ {e.user} :
            summary'[u] = summary[u] /\ orders'[u] = orders[u] /\ carts'[u] = carts[u]
  BY <1>2, <1>3 DEF SummaryAfter, OrdersAfter, CartsAfter
<1>5. /\ c \notin Applied(e.user) /\ Applied(e.user)' = Applied(e.user) \cup {c}
      /\ \A u \in Users \ {e.user} : Applied(u)' = Applied(u)
  BY <1>1 DEF Applied
<1>6. \A u \in Users, n \in EventNames :
          AppliedAs(u, n)' = IF u = e.user /\ n = e.name THEN AppliedAs(u, n) \cup {c} ELSE AppliedAs(u, n)
  BY <1>1 DEF AppliedAs, Applied
<1> QED
  BY <1>1, <1>2, <1>4, <1>5, <1>6

\* The order an event completes: recorded by it if it is new, kept otherwise.
LEMMA OrderShape ==
    ASSUME TInv, NEW e \in Events, orders' = OrdersAfter(e)
    PROVE  /\ \A o \in Orders \ {e.order} : orders'[e.user][o] = orders[e.user][o]
           /\ IsNewOrder(e) => /\ orders'[e.user][e.order] = [at |-> e.at, cart |-> e.cart]
                               /\ e.order \notin Facts(e.user)
                               /\ Facts(e.user)' = Facts(e.user) \cup {e.order}
           /\ ~IsNewOrder(e) => orders' = orders /\ Facts(e.user)' = Facts(e.user)
<1>1. e.user \in Users /\ e.order \in Orders /\ e.at # NoTime
  BY LedgerAssumption DEF Event
<1>2. CASE IsNewOrder(e)
  <2>1. orders' = [orders EXCEPT ![e.user][e.order] = [at |-> e.at, cart |-> e.cart]]
    BY <1>2 DEF OrdersAfter
  <2>2. /\ orders'[e.user][e.order] = [at |-> e.at, cart |-> e.cart]
        /\ \A o \in Orders \ {e.order} : orders'[e.user][o] = orders[e.user][o]
    BY <1>1, <2>1 DEF TInv, TypeOK, BehaviorType
  <2>3. orders[e.user][e.order] = NoFact /\ orders'[e.user][e.order] # NoFact
    BY <1>1, <1>2, <2>2 DEF IsNewOrder, NoFact
  <2> QED
    BY <1>1, <1>2, <2>2, <2>3 DEF Facts
<1>3. CASE ~IsNewOrder(e)
  BY <1>3 DEF OrdersAfter, Facts
<1> QED
  BY <1>2, <1>3

\* Both latest times move with the receipts and the orders they are the maxima of.
LEMMA NextLatest ==
    ASSUME TInv, SInv, RefusalsAreJustified, LatestAreMaxima, [Next]_vars
    PROVE  LatestAreMaxima'
<1> DEFINE Activity(u) ==
               /\ \A c \in Applied(u) : receipts[c].payload.at <= summary[u].latestActivity
               /\ summary[u].latestActivity # NoTime =>
                     \E c \in Applied(u) : receipts[c].payload.at = summary[u].latestActivity
           Order(u) ==
               /\ \A o \in Facts(u) : orders[u][o].at <= summary[u].latestOrder
               /\ summary[u].latestOrder # NoTime =>
                     \E o \in Facts(u) : orders[u][o].at = summary[u].latestOrder
<1>0. \A u \in Users : Activity(u) /\ Order(u)
  BY DEF LatestAreMaxima
<1>1. ASSUME NEW u \in Users, UNCHANGED <<summary[u], orders[u]>>, Applied(u)' = Applied(u),
             \A c \in Applied(u) : receipts'[c] = receipts[c]
      PROVE  Activity(u)' /\ Order(u)'
  <2>1. Facts(u)' = Facts(u)
    BY <1>1 DEF Facts
  <2> QED
    BY <1>0, <1>1, <2>1
<1>2. CASE UNCHANGED <<receipts, summary, orders, carts>>
  <2>1. \A u \in Users : Applied(u)' = Applied(u)
    BY <1>2 DEF Applied
  <2> QED
    BY <1>1, <1>2, <2>1 DEF LatestAreMaxima
<1>3. ASSUME NEW c \in Coordinates, NEW r \in Records, NEW outcome \in Outcomes, Writes(c, r, outcome),
             outcome # "applied", UNCHANGED <<summary, orders, carts>>
      PROVE  LatestAreMaxima'
  <2>1. /\ receipts'[c].outcome # "applied" /\ receipts[c].outcome # "applied"
        /\ \A d \in Coordinates \ {c} : receipts'[d] = receipts[d]
    BY <1>3, WriteShape DEF Writes, None
  <2>2. \A u \in Users : Applied(u)' = Applied(u) /\ \A d \in Applied(u) : receipts'[d] = receipts[d]
    BY <2>1 DEF Applied
  <2> QED
    BY <1>1, <1>3, <2>2 DEF LatestAreMaxima
<1>4. ASSUME NEW c \in Coordinates, NEW e \in Events, Writes(c, e, "applied"),
             summary' = SummaryAfter(e), orders' = OrdersAfter(e), carts' = CartsAfter(e)
      PROVE  LatestAreMaxima'
  <2>0. /\ e.user \in Users /\ e.at \in Times /\ e.order \in Orders
        /\ summary[e.user].latestActivity \in Times \cup {NoTime}
        /\ summary[e.user].latestOrder \in Times \cup {NoTime}
        /\ \A o \in Orders : orders[e.user][o].at \in Times \cup {NoTime}
    BY LedgerAssumption DEF Event, TInv, TypeOK, BehaviorType
  <2>1. /\ receipts'[c].payload = e
        /\ \A d \in Coordinates \ {c} : receipts'[d] = receipts[d]
        /\ c \notin Applied(e.user) /\ Applied(e.user)' = Applied(e.user) \cup {c}
        /\ summary'[e.user] = SummaryRow(summary[e.user], e)
        /\ \A u \in Users \ {e.user} :
              summary'[u] = summary[u] /\ orders'[u] = orders[u] /\ Applied(u)' = Applied(u)
    BY <1>4, AppliedShape
  <2>2. ASSUME NEW u \in Users \ {e.user}
        PROVE  Activity(u)' /\ Order(u)'
    <3>1. \A d \in Applied(u) : receipts'[d] = receipts[d]
      BY <1>4, <2>1 DEF Applied, Writes, None
    <3> HIDE DEF Activity, Order
    <3> QED
      BY <1>1, <2>1, <3>1
  <2>3. Activity(e.user)'
    <3> DEFINE a == summary[e.user].latestActivity
               b == summary'[e.user].latestActivity
    <3>1. b = Greatest(a, e.at)
      BY <2>1 DEF SummaryRow
    <3>2. b \in {a, e.at} /\ a <= b /\ e.at <= b /\ a \in Int /\ b \in Int
      BY <2>0, <3>1, GreatestIsLater, TimesAreNumbers
    <3>3. \A d \in Applied(e.user) : d # c /\ receipts'[d] = receipts[d]
      BY <2>1 DEF Applied
    <3>4. \A d \in Applied(e.user) : receipts'[d].payload.at <= a /\ receipts'[d].payload.at \in Int
      <4>1. \A d \in Applied(e.user) : receipts[d].payload.at \in Int
        BY AppliedAreEvents, TimesAreNumbers
      <4> QED
        BY <1>0, <2>0, <3>3, <4>1
    <3>5. a # NoTime => \E d \in Applied(e.user) : receipts'[d].payload.at = a
      BY <1>0, <2>0, <3>3
    <3>6. \A d \in Applied(e.user) \cup {c} : receipts'[d].payload.at <= b
      BY <2>1, <3>2, <3>4
    <3>7. b # NoTime => \E d \in Applied(e.user) \cup {c} : receipts'[d].payload.at = b
      BY <2>1, <3>2, <3>5
    <3> QED
      BY <2>1, <3>6, <3>7
  <2>4. Order(e.user)'
    <3> DEFINE a == summary[e.user].latestOrder
               b == summary'[e.user].latestOrder
    <3>1. b = Greatest(a, IF IsNewOrder(e) THEN e.at ELSE NoTime)
      BY <2>1 DEF SummaryRow
    <3>2. a \in Int /\ b \in Int /\ \A o \in Orders : orders[e.user][o].at \in Int
      <4>1. a \in Times \cup {NoTime} /\ b \in Times \cup {NoTime}
        BY <2>0, <3>1, GreatestIsLater
      <4> QED
        BY <2>0, <4>1, TimesAreNumbers
    <3>3. CASE IsNewOrder(e)
      <4>1. /\ orders'[e.user][e.order].at = e.at
            /\ \A o \in Facts(e.user) : orders'[e.user][o] = orders[e.user][o]
            /\ Facts(e.user)' = Facts(e.user) \cup {e.order}
        <5>1. /\ orders'[e.user][e.order] = [at |-> e.at, cart |-> e.cart]
              /\ e.order \notin Facts(e.user) /\ Facts(e.user)' = Facts(e.user) \cup {e.order}
              /\ \A o \in Orders \ {e.order} : orders'[e.user][o] = orders[e.user][o]
          BY <1>4, <3>3, OrderShape
        <5>2. Facts(e.user) \subseteq Orders \ {e.order}
          BY <5>1 DEF Facts
        <5> QED
          BY <5>1, <5>2
      <4>2. b \in {a, e.at} /\ a <= b /\ e.at <= b
        BY <2>0, <3>1, <3>3, GreatestIsLater
      <4>3. \A o \in Facts(e.user) : orders'[e.user][o].at <= a /\ orders'[e.user][o].at \in Int
        BY <1>0, <2>0, <3>2, <4>1 DEF Facts
      <4>4. a # NoTime => \E o \in Facts(e.user) : orders'[e.user][o].at = a
        BY <1>0, <2>0, <4>1
      <4>5. \A o \in Facts(e.user) \cup {e.order} : orders'[e.user][o].at <= b
        BY <3>2, <4>1, <4>2, <4>3
      <4>6. b # NoTime => \E o \in Facts(e.user) \cup {e.order} : orders'[e.user][o].at = b
        BY <4>1, <4>2, <4>4
      <4> QED
        BY <4>1, <4>5, <4>6
    <3>4. CASE ~IsNewOrder(e)
      <4>1. orders' = orders /\ Facts(e.user)' = Facts(e.user)
        BY <1>4, <3>4, OrderShape
      <4>2. b = a
        <5>1. b = Greatest(a, NoTime)
          BY <3>1, <3>4
        <5> QED
          BY <2>0, <5>1, GreatestIsLater DEF Greatest
      <4> QED
        BY <1>0, <2>0, <4>1, <4>2
    <3> QED
      BY <3>3, <3>4
  <2> HIDE DEF Activity, Order
  <2>5. \A u \in Users : Activity(u)' /\ Order(u)'
    BY <2>2, <2>3, <2>4
  <2> QED
    BY <2>5 DEF LatestAreMaxima, Activity, Order
<1>5. /\ Invalid \in Records /\ "invalid" \in Outcomes
      /\ \A r \in Events : r \in Records /\ Refusal(r) \in Outcomes \ {"applied"}
  BY DEF Records, Refusal, Outcomes
<1> QED
  BY <1>2, <1>3, <1>4, <1>5, ReceiptWrites

\* latest_activity_at is the maximum over the applied events and latest_order_at
\* the maximum first occurrence over the distinct orders, however late and in
\* whatever order they were applied.
THEOREM LatestTimesAreMaxima == Spec => []LatestAreMaxima
<1>1. Init => LatestAreMaxima
  <2> SUFFICES ASSUME Init PROVE LatestAreMaxima
    OBVIOUS
  <2>1. \A u \in Users : /\ Applied(u) = {} /\ Facts(u) = {}
                         /\ summary[u].latestActivity = NoTime /\ summary[u].latestOrder = NoTime
    BY DEF Init, Applied, Facts, NoReceipt, None, NoSummary
  <2> QED
    BY <2>1 DEF LatestAreMaxima
<1>2. TInv /\ SInv /\ RefusalsAreJustified /\ LatestAreMaxima /\ [Next]_vars => LatestAreMaxima'
  BY NextLatest
<1> QED
  BY <1>1, <1>2, Invariance, RefusalsJustified, PTL DEF Spec

\* A cart row that follows its customer's facts: the adds applied and the orders
\* that name the cart.
AddsFollow(u, k) ==
    LET adds == {c \in AppliedAs(u, "add_to_cart") : receipts[c].payload.cart = k}
    IN  /\ \A c \in adds : receipts[c].payload.at <= carts[u][k].add
        /\ carts[u][k].add # NoTime => \E c \in adds : receipts[c].payload.at = carts[u][k].add

CompletionsFollow(u, k) ==
    LET completions == {o \in Orders : orders[u][o].cart = k}
    IN  /\ \A o \in completions :
              carts[u][k].done # NoTime /\ carts[u][k].done <= orders[u][o].at
        /\ carts[u][k].done # NoTime => \E o \in completions : orders[u][o].at = carts[u][k].done

\* The invariant, cart by cart.
LEMMA CartsFollowSplit ==
    CartsFollowFacts <=> \A u \in Users, k \in Carts : AddsFollow(u, k) /\ CompletionsFollow(u, k)
BY DEF CartsFollowFacts, AddsFollow, CompletionsFollow

\* Only the cart an event concerns is written, and of it only one time.
LEMMA CartShape ==
    ASSUME NEW rows \in [Carts -> CartRow(Times)], NEW e \in Events,
           NEW facts \in [Orders -> [at: Times \cup {NoTime}, cart: Carts \cup {None}]],
           NEW k \in Carts
    PROVE  LET row == RecordCarts(rows, e, facts)[k] IN
           /\ row.add = IF e.name = "add_to_cart" /\ e.cart = k THEN Greatest(rows[k].add, e.at)
                        ELSE rows[k].add
           /\ row.done = IF e.name = "order_completed" /\ facts[e.order].cart = k
                         THEN Least(rows[k].done, facts[e.order].at) ELSE rows[k].done
<1>1. /\ e.name \in EventNames /\ e.cart \in Carts /\ e.order \in Orders
      /\ DOMAIN rows = Carts /\ rows[k] \in CartRow(Times)
  BY LedgerAssumption DEF Event
<1>2. CASE e.name = "add_to_cart"
  BY <1>1, <1>2 DEF RecordCarts, CartRow
<1>3. CASE e.name = "checkout_started"
  BY <1>1, <1>3 DEF RecordCarts, CartRow
<1>4. CASE e.name = "order_completed"
  <2>1. RecordCarts(rows, e, facts) =
            [rows EXCEPT ![facts[e.order].cart].done = Least(@, facts[e.order].at)]
    BY <1>4 DEF RecordCarts
  <2>2. CASE facts[e.order].cart = k
    BY <1>1, <1>4, <2>1, <2>2 DEF CartRow
  <2>3. CASE facts[e.order].cart # k
    BY <1>1, <1>4, <2>1, <2>3
  <2> QED
    BY <2>2, <2>3
<1>5. CASE e.name \notin {"add_to_cart", "checkout_started", "order_completed"}
  BY <1>5 DEF RecordCarts
<1> QED
  BY <1>2, <1>3, <1>4, <1>5

\* The add of a cart follows every event its customer applies.
LEMMA AddsStep ==
    ASSUME TInv, RefusalsAreJustified,
           NEW c \in Coordinates, NEW e \in Events, Writes(c, e, "applied"),
           summary' = SummaryAfter(e), orders' = OrdersAfter(e), carts' = CartsAfter(e),
           NEW k \in Carts, AddsFollow(e.user, k), TInv'
    PROVE  AddsFollow(e.user, k)'
<1> DEFINE u == e.user
           adds == {d \in AppliedAs(u, "add_to_cart") : receipts[d].payload.cart = k}
           a == carts[u][k].add
           b == carts'[u][k].add
<1>1. u \in Users /\ e.at \in Times /\ "add_to_cart" \in EventNames
  BY LedgerAssumption DEF Event, EventNames
<1>2. /\ carts[u] \in [Carts -> CartRow(Times)]
      /\ orders'[u] \in [Orders -> [at: Times \cup {NoTime}, cart: Carts \cup {None}]]
      /\ a \in Times \cup {NoTime}
  BY <1>1 DEF TInv, TypeOK, BehaviorType, CartRow
<1>3. /\ receipts'[c].payload = e
      /\ \A d \in Coordinates \ {c} : receipts'[d] = receipts[d]
      /\ c \notin Applied(u)
      /\ AppliedAs(u, "add_to_cart")' =
             IF e.name = "add_to_cart" THEN AppliedAs(u, "add_to_cart") \cup {c}
             ELSE AppliedAs(u, "add_to_cart")
      /\ carts'[u] = RecordCarts(carts[u], e, orders'[u])
  BY <1>1, AppliedShape
<1>4. b = IF e.name = "add_to_cart" /\ e.cart = k THEN Greatest(a, e.at) ELSE a
  BY <1>2, <1>3, CartShape
<1>5. \A d \in adds : /\ d # c /\ receipts'[d] = receipts[d]
                      /\ receipts[d].payload.at \in Int
  BY <1>3, AppliedAreEvents, TimesAreNumbers DEF AppliedAs, Applied
<1>6. (adds)' = IF e.name = "add_to_cart" /\ e.cart = k THEN adds \cup {c} ELSE adds
  <2>1. \A d \in AppliedAs(u, "add_to_cart") : d # c /\ receipts'[d] = receipts[d]
    BY <1>3 DEF AppliedAs, Applied
  <2> QED
    BY <1>3, <2>1
<1>7. /\ \A d \in adds : receipts[d].payload.at <= a
      /\ a # NoTime => \E d \in adds : receipts[d].payload.at = a
  BY DEF AddsFollow
<1>8. AddsFollow(u, k)' <=>
         /\ \A d \in (adds)' : receipts'[d].payload.at <= b
         /\ b # NoTime => \E d \in (adds)' : receipts'[d].payload.at = b
  BY DEF AddsFollow
<1> HIDE DEF u, adds, a, b
<1>9. CASE e.name = "add_to_cart" /\ e.cart = k
  <2>1. b \in {a, e.at} /\ a <= b /\ e.at <= b /\ a \in Int /\ e.at \in Int /\ b \in Int
    BY <1>1, <1>2, <1>4, <1>9, GreatestIsLater, TimesAreNumbers
  <2>2. \A d \in adds \cup {c} : receipts'[d].payload.at <= b
    BY <1>3, <1>5, <1>7, <2>1
  <2>3. b # NoTime => \E d \in adds \cup {c} : receipts'[d].payload.at = b
    BY <1>3, <1>5, <1>7, <2>1
  <2> QED
    BY <1>6, <1>8, <1>9, <2>2, <2>3 DEF u
<1>10. CASE ~(e.name = "add_to_cart" /\ e.cart = k)
  BY <1>4, <1>5, <1>6, <1>7, <1>8, <1>10 DEF u
<1> QED
  BY <1>9, <1>10

\* The completion of a cart follows every event its customer applies: the first
\* facts of an order count, whatever cart a later notification names.
LEMMA CompletionsStep ==
    ASSUME TInv, NEW c \in Coordinates, NEW e \in Events, Writes(c, e, "applied"),
           summary' = SummaryAfter(e), orders' = OrdersAfter(e), carts' = CartsAfter(e),
           NEW k \in Carts, CompletionsFollow(e.user, k), TInv'
    PROVE  CompletionsFollow(e.user, k)'
<1> DEFINE u == e.user
           o == e.order
           done == {x \in Orders : orders[u][x].cart = k}
           a == carts[u][k].done
           b == carts'[u][k].done
<1>1. u \in Users /\ o \in Orders /\ e.at \in Times /\ e.cart \in Carts
  BY LedgerAssumption DEF Event
<1>2. /\ carts[u] \in [Carts -> CartRow(Times)]
      /\ orders'[u] \in [Orders -> [at: Times \cup {NoTime}, cart: Carts \cup {None}]]
      /\ a \in Times \cup {NoTime}
      /\ \A x \in Orders : orders[u][x].at \in Times \cup {NoTime}
  BY <1>1 DEF TInv, TypeOK, BehaviorType, CartRow
<1>3. carts'[u] = RecordCarts(carts[u], e, orders'[u])
  BY AppliedShape
<1>4. b = IF e.name = "order_completed" /\ orders'[u][o].cart = k
          THEN Least(a, orders'[u][o].at) ELSE a
  BY <1>2, <1>3, CartShape
<1>5. /\ \A x \in done : a # NoTime /\ a <= orders[u][x].at
      /\ a # NoTime => \E x \in done : orders[u][x].at = a
  BY DEF CompletionsFollow
<1>6. CompletionsFollow(u, k)' <=>
         /\ \A x \in (done)' : b # NoTime /\ b <= orders'[u][x].at
         /\ b # NoTime => \E x \in (done)' : orders'[u][x].at = b
  BY DEF CompletionsFollow
<1>7. CASE IsNewOrder(e)
  <2>1. /\ orders'[u][o] = [at |-> e.at, cart |-> e.cart]
        /\ \A x \in Orders \ {o} : orders'[u][x] = orders[u][x]
    BY <1>7, OrderShape
  <2>2. orders[u][o].cart = None /\ k # None /\ e.name = "order_completed"
    BY <1>7, LedgerAssumption DEF IsNewOrder, NoFact
  <2>3. (done)' = IF e.cart = k THEN done \cup {o} ELSE done
    BY <1>1, <2>1, <2>2
  <2>4. \A x \in done : x # o /\ orders'[u][x] = orders[u][x] /\ orders[u][x].at \in Int
    BY <1>2, <2>1, <2>2, TimesAreNumbers
  <2>5. orders'[u][o].at = e.at /\ orders'[u][o].cart = e.cart
    BY <2>1
  <2> HIDE DEF u, o, done, a, b
  <2>6. CASE e.cart = k
    <3>1. b = Least(a, e.at)
      BY <1>4, <2>2, <2>5, <2>6
    <3>2. /\ b \in {a, e.at} /\ b # NoTime /\ b <= e.at /\ (a # NoTime => b <= a)
          /\ a \in Int /\ e.at \in Int /\ b \in Int
          /\ a = NoTime => b = e.at
      BY <1>1, <1>2, <3>1, LedgerAssumption DEF Least, NoTime
    <3>3. \A x \in done \cup {o} : b # NoTime /\ b <= orders'[u][x].at
      BY <1>5, <2>4, <2>5, <3>2
    <3>4. \E x \in done \cup {o} : orders'[u][x].at = b
      BY <1>5, <2>4, <2>5, <3>2
    <3> QED
      BY <1>6, <2>3, <2>6, <3>3, <3>4 DEF u
  <2>7. CASE e.cart # k
    BY <1>4, <1>5, <1>6, <2>3, <2>4, <2>5, <2>7 DEF u
  <2> QED
    BY <2>6, <2>7
<1>8. CASE ~IsNewOrder(e)
  <2>1. orders' = orders
    BY <1>8, OrderShape
  <2>2. (done)' = done
    BY <2>1
  <2>3. b = a
    <3>1. CASE e.name = "order_completed" /\ orders'[u][o].cart = k
      <4>1. o \in done /\ a # NoTime /\ a <= orders[u][o].at
        BY <1>1, <1>5, <2>1, <3>1
      <4>2. b = Least(a, orders[u][o].at)
        BY <1>4, <2>1, <3>1
      <4>3. a \in Int /\ orders[u][o].at \in Int
        BY <1>1, <1>2, TimesAreNumbers
      <4> HIDE DEF a, b
      <4> QED
        BY <4>1, <4>2, <4>3 DEF Least
    <3>2. CASE ~(e.name = "order_completed" /\ orders'[u][o].cart = k)
      BY <1>4, <3>2
    <3> QED
      BY <3>1, <3>2
  <2> HIDE DEF o, done, a, b
  <2> QED
    BY <1>5, <1>6, <2>1, <2>2, <2>3
<1> QED
  BY <1>7, <1>8

\* Every step keeps the cart rows at what the facts amount to.
LEMMA NextCarts ==
    ASSUME TInv, SInv, RefusalsAreJustified, CartsFollowFacts, [Next]_vars
    PROVE  CartsFollowFacts'
<1>0. /\ TInv' /\ \A u \in Users, k \in Carts : AddsFollow(u, k) /\ CompletionsFollow(u, k)
  BY NextTInv, CartsFollowSplit
<1>1. ASSUME NEW u \in Users, UNCHANGED <<orders[u], carts[u]>>,
             AppliedAs(u, "add_to_cart")' = AppliedAs(u, "add_to_cart"),
             \A c \in AppliedAs(u, "add_to_cart") : receipts'[c] = receipts[c]
      PROVE  \A k \in Carts : AddsFollow(u, k)' /\ CompletionsFollow(u, k)'
  <2> SUFFICES ASSUME NEW k \in Carts PROVE AddsFollow(u, k)' /\ CompletionsFollow(u, k)'
    OBVIOUS
  <2>1. AddsFollow(u, k)'
    BY <1>0, <1>1 DEF AddsFollow
  <2>2. CompletionsFollow(u, k)'
    BY <1>0, <1>1 DEF CompletionsFollow
  <2> QED
    BY <2>1, <2>2
<1>2. CASE UNCHANGED <<receipts, summary, orders, carts>>
  <2>1. \A u \in Users : AppliedAs(u, "add_to_cart")' = AppliedAs(u, "add_to_cart")
    BY <1>2 DEF Applied, AppliedAs
  <2>2. \A u \in Users, k \in Carts : AddsFollow(u, k)' /\ CompletionsFollow(u, k)'
    BY <1>1, <1>2, <2>1
  <2> QED
    BY <2>2, CartsFollowSplit DEF CartsFollowFacts, AddsFollow, CompletionsFollow
<1>3. ASSUME NEW c \in Coordinates, NEW r \in Records, NEW outcome \in Outcomes, Writes(c, r, outcome),
             outcome # "applied", UNCHANGED <<summary, orders, carts>>
      PROVE  CartsFollowFacts'
  <2>1. /\ receipts'[c].outcome # "applied" /\ receipts[c].outcome # "applied"
        /\ \A d \in Coordinates \ {c} : receipts'[d] = receipts[d]
    BY <1>3, WriteShape DEF Writes, None
  <2>2. \A u \in Users : /\ AppliedAs(u, "add_to_cart")' = AppliedAs(u, "add_to_cart")
                         /\ \A d \in AppliedAs(u, "add_to_cart") : receipts'[d] = receipts[d]
    BY <2>1 DEF Applied, AppliedAs
  <2>3. \A u \in Users, k \in Carts : AddsFollow(u, k)' /\ CompletionsFollow(u, k)'
    BY <1>1, <1>3, <2>2
  <2> QED
    BY <2>3 DEF CartsFollowFacts, AddsFollow, CompletionsFollow
<1>4. ASSUME NEW c \in Coordinates, NEW e \in Events, Writes(c, e, "applied"),
             summary' = SummaryAfter(e), orders' = OrdersAfter(e), carts' = CartsAfter(e)
      PROVE  CartsFollowFacts'
  <2>1. e.user \in Users /\ "add_to_cart" \in EventNames
    BY LedgerAssumption DEF Event, EventNames
  <2>2. \A k \in Carts : AddsFollow(e.user, k)' /\ CompletionsFollow(e.user, k)'
    BY <1>0, <1>4, <2>1, AddsStep, CompletionsStep
  <2>3. ASSUME NEW u \in Users \ {e.user}
        PROVE  \A k \in Carts : AddsFollow(u, k)' /\ CompletionsFollow(u, k)'
    <3>1. /\ UNCHANGED <<orders[u], carts[u]>>
          /\ AppliedAs(u, "add_to_cart")' = AppliedAs(u, "add_to_cart")
          /\ \A d \in Coordinates \ {c} : receipts'[d] = receipts[d]
      BY <1>4, <2>1, AppliedShape
    <3>2. \A d \in AppliedAs(u, "add_to_cart") : receipts'[d] = receipts[d]
      BY <1>4, <3>1 DEF AppliedAs, Applied, Writes, None
    <3> QED
      BY <1>1, <3>1, <3>2
  <2>4. \A u \in Users, k \in Carts : AddsFollow(u, k)' /\ CompletionsFollow(u, k)'
    BY <2>2, <2>3
  <2> QED
    BY <2>4 DEF CartsFollowFacts, AddsFollow, CompletionsFollow
<1>5. /\ Invalid \in Records /\ "invalid" \in Outcomes
      /\ \A r \in Events : r \in Records /\ Refusal(r) \in Outcomes \ {"applied"}
  BY DEF Records, Refusal, Outcomes
<1> QED
  BY <1>2, <1>3, <1>4, <1>5, ReceiptWrites

\* A cart's row is the maximum applied add and the earliest first completion
\* that names it, in whatever order adds, completions and repeated
\* notifications of an order were applied.
THEOREM CartRowsFollowFacts == Spec => []CartsFollowFacts
<1>1. Init => CartsFollowFacts
  <2> SUFFICES ASSUME Init PROVE CartsFollowFacts
    OBVIOUS
  <2>1. \A u \in Users, k \in Carts :
           /\ AppliedAs(u, "add_to_cart") = {} /\ carts[u][k] = NoCartRow
           /\ \A o \in Orders : orders[u][o].cart = None
    BY DEF Init, Applied, AppliedAs, NoReceipt, None, NoFact
  <2>2. \A k \in Carts : k # None
    BY LedgerAssumption
  <2> QED
    BY <2>1, <2>2 DEF CartsFollowFacts, NoCartRow
<1>2. TInv /\ SInv /\ RefusalsAreJustified /\ CartsFollowFacts /\ [Next]_vars => CartsFollowFacts'
  BY NextCarts
<1> QED
  BY <1>1, <1>2, Invariance, RefusalsJustified, PTL DEF Spec
=============================================================================
