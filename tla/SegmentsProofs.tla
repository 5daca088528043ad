---------------------------- MODULE SegmentsProofs ----------------------------
(***************************************************************************)
(* Proofs about Segments, for any customers, events, rule versions,        *)
(* writers and readers.  The rules are looked at first, one row at a time; *)
(* then a row is followed through the transactions that change it.         *)
(***************************************************************************)
EXTENDS Segments, FiniteSetTheorems, TLAPS

View == [id: Nat, at: Nat \ {NoTime}]
Fact == [at: Nat, cart: Carts \cup {"none"}]
Evaluation == [version: Versions \cup {NoTime}, at: Nat, next: Nat]
Membership == [member: [Segments -> BOOLEAN], validUntil: Nat, at: Nat]

Row == [seen: BOOLEAN, views: SUBSET View, carts: [Carts -> CartRow(Nat)],
        facts: [Orders -> Fact], evaluation: Evaluation,
        memberships: [Versions -> Membership]]

-----------------------------------------------------------------------------
(* The rules.                                                              *)

\* What a version's settings are.
LEMMA SettingsNat ==
    ASSUME NEW v \in Versions
    PROVE  Window[v] \in Nat \ {0} /\ AbandonDelay[v] \in Nat \ {0} /\ v \in Nat \ {0}
BY SettingsAssumption, SegmentsAssumption

\* Before the earliest deadline the same views are in the window.
LEMMA CurrentStands ==
    ASSUME NEW v \in Versions, NEW now \in Nat, NEW views \in SUBSET View, NEW rows,
           NEW next \in Nat, \A d \in Deadlines(v, now, views, rows) : next <= d,
           NEW t \in now .. (next - 1)
    PROVE  Current(v, t, views) = Current(v, now, views)
<1> USE SettingsNat
<1>1. ASSUME NEW x \in Current(v, now, views)
      PROVE  x \in Current(v, t, views)
  <2>1. x.at \in Nat /\ x \in views /\ next <= x.at + Window[v] /\ x.at <= now
    BY <1>1 DEF Deadlines, Current, View
  <2> QED
    BY <2>1 DEF Current
<1>2. ASSUME NEW x \in Current(v, t, views)
      PROVE  x \in Current(v, now, views)
  <2>1. x.at \in Nat /\ x \in views /\ t - Window[v] < x.at /\ x.at <= t
    BY <1>2 DEF Current, View
  <2>2. x.at > now => next <= x.at
    BY <2>1 DEF Deadlines
  <2> QED
    BY <2>1, <2>2 DEF Current
<1> QED
  BY <1>1, <1>2 DEF Current

\* Before the earliest deadline the same carts are abandoned.
LEMMA AbandonedStands ==
    ASSUME NEW v \in Versions, NEW now \in Nat, NEW views, NEW rows \in [Carts -> CartRow(Nat)],
           NEW next \in Nat, \A d \in Deadlines(v, now, views, rows) : next <= d,
           NEW t \in now .. (next - 1)
    PROVE  Abandoned(v, t, rows) = Abandoned(v, now, rows)
<1>1. ASSUME NEW k \in Unresolved(rows)
      PROVE  /\ rows[k].add \in Nat
             /\ k \notin Abandoned(v, now, rows) => next <= rows[k].add + AbandonDelay[v]
  <2>1. k \in Carts /\ rows[k].add \in Nat
    BY DEF Unresolved, CartRow, NoTime
  <2>2. k \notin Abandoned(v, now, rows) =>
           rows[k].add + AbandonDelay[v] \in Deadlines(v, now, views, rows)
    BY DEF Deadlines
  <2> QED
    BY <2>1, <2>2
<1> QED
  BY <1>1, SettingsNat DEF Abandoned

\* Before the earliest deadline every membership is what it was.
LEMMA MemberStands ==
    ASSUME NEW v \in Versions, NEW now \in Nat, NEW views \in SUBSET View,
           NEW rows \in [Carts -> CartRow(Nat)], NEW completed,
           NEW next \in Nat, \A d \in Deadlines(v, now, views, rows) : next <= d,
           NEW t \in now .. (next - 1), NEW s \in Segments
    PROVE  Member(s, v, t, views, rows, completed) = Member(s, v, now, views, rows, completed)
BY CurrentStands, AbandonedStands DEF Member, Segments

\* A subset counts no more.
LEMMA CountsNoMore ==
    ASSUME NEW S, NEW T, IsFiniteSet(T), S \subseteq T
    PROVE  IsFiniteSet(S) /\ Cardinality(S) \in Nat /\ Cardinality(T) \in Nat
           /\ Cardinality(S) <= Cardinality(T)
BY FS_Subset, FS_CardinalityType

\* A browser stays one until the oldest view that makes up the minimum leaves the
\* window, however overdue the evaluation is.
LEMMA BrowserUntilExpiry ==
    ASSUME NEW v \in Versions, NEW now \in Nat, NEW views \in SUBSET View, IsFiniteSet(views),
           Cardinality(Current(v, now, views)) >= MinViews,
           NEW until \in Expiries(v, Current(v, now, views)),
           NEW t \in Nat, now <= t, t < until
    PROVE  Cardinality(Current(v, t, views)) >= MinViews
<1> DEFINE current == Current(v, now, views)
<1>1. PICK y \in current : /\ until = y.at + Window[v]
                           /\ Cardinality({z \in current : z.at >= y.at}) >= MinViews
  BY DEF Expiries, PivotTimes
<1>2. {z \in current : z.at >= y.at} \subseteq Current(v, t, views)
  <2> SUFFICES ASSUME NEW z \in current, z.at >= y.at
               PROVE  z \in Current(v, t, views)
    OBVIOUS
  <2>1. z \in views /\ z.at \in Nat /\ y.at \in Nat /\ z.at <= now
    BY DEF Current, View
  <2> QED
    BY <1>1, <2>1, SettingsNat DEF Current
<1>3. IsFiniteSet(Current(v, t, views))
  BY FS_Subset DEF Current
<1>4. MinViews \in Nat
  BY SettingsAssumption
<1> HIDE DEF current
<1> QED
  BY <1>1, <1>2, <1>3, <1>4, CountsNoMore

\* Abandoned carts stay so as time goes on, their rows being the same.
LEMMA AbandonedRemain ==
    ASSUME NEW v \in Versions, NEW now \in Nat, NEW rows \in [Carts -> CartRow(Nat)],
           NEW t \in Nat, now <= t
    PROVE  Abandoned(v, now, rows) \subseteq Abandoned(v, t, rows)
<1>1. \A k \in Unresolved(rows) : rows[k].add \in Nat
  BY DEF Unresolved, CartRow, NoTime
<1> QED
  BY <1>1, SettingsNat DEF Abandoned

-----------------------------------------------------------------------------
(* A row and its evaluation.                                               *)

\* The evaluation of a row, if there is one: when it was made, that it came with
\* its memberships, that these are right until the deadline, and that after it a
\* membership is right as long as it has not expired.
Evaluated(row, time) ==
    LET v == row.evaluation.version
        m == row.memberships[v]
        Matches(s, t) == Member(s, v, t, row.views, row.carts, Completed(row))
    IN  row.evaluation.at # NoTime =>
          /\ v \in Versions
          /\ row.evaluation.at <= time
          /\ m.at = row.evaluation.at
          /\ \A t \in Nat, s \in Segments : row.evaluation.at <= t =>
                /\ t < row.evaluation.next => m.member[s] = Matches(s, t)
                /\ m.member[s] /\ ~Expired(s, t, m) => Matches(s, t)

\* A row with finitely many views.
IsRow(row) == row \in Row /\ IsFiniteSet(row.views)

\* A customer's rows before any event are well formed and have no evaluation.
LEMMA NewRowIs ==
    IsRow(NewRow) /\ (\A t : Evaluated(NewRow, t))
<1>1. NewRow \in Row
  BY DEF NewRow, Row, View, Fact, Evaluation, Membership, NoCartRow, CartRow, NoFact,
         NoEvaluation, NoMembership, NoTime
<1> QED
  BY <1>1, FS_EmptySet DEF IsRow, NewRow, Evaluated, NoEvaluation

\* No evaluation is of a time to come.
LEMMA NoLaterEvaluation ==
    ASSUME NEW time \in Nat, NEW row, IsRow(row), Evaluated(row, time)
    PROVE  row.evaluation.at <= time
<1>1. row.evaluation.at \in Nat
  BY DEF IsRow, Row, Evaluation
<1>2. CASE row.evaluation.at = 0
  BY <1>2
<1>3. CASE row.evaluation.at # 0
  BY <1>3 DEF Evaluated, NoTime
<1> QED
  BY <1>2, <1>3

\* What an evaluation derives, by the clock's time, from a row's own data.
LEMMA EvaluationSound ==
    ASSUME NEW v \in Versions, NEW now \in Nat \ {0}, NEW views \in SUBSET View, IsFiniteSet(views),
           NEW rows \in [Carts -> CartRow(Nat)], NEW completed,
           NEW r \in Evaluations(v, now, views, rows, completed)
    PROVE  /\ r.member \in [Segments -> BOOLEAN] /\ r.validUntil \in Nat /\ r.next \in Nat
           /\ r.at = now
           /\ \A t \in Nat, s \in Segments : now <= t =>
                 /\ t < r.next => r.member[s] = Member(s, v, t, views, rows, completed)
                 /\ r.member[s] /\ ~Expired(s, t, r) => Member(s, v, t, views, rows, completed)
<1>1. /\ r.member = [s \in Segments |-> Member(s, v, now, views, rows, completed)]
      /\ r.validUntil \in Expiries(v, Current(v, now, views)) /\ r.at = now
      /\ r.next \in Earliest(Deadlines(v, now, views, rows))
  BY DEF Evaluations
<1>2. \A s \in Segments : Member(s, v, now, views, rows, completed) \in BOOLEAN
  <2> SUFFICES ASSUME NEW s \in Segments
               PROVE  Member(s, v, now, views, rows, completed) \in BOOLEAN
    OBVIOUS
  <2>1. CASE s = "active_browser"
    BY <2>1 DEF Member
  <2>2. CASE s = "abandoned_cart"
    BY <2>2 DEF Member
  <2>3. CASE s = "repeat_customer"
    BY <2>3 DEF Member
  <2> QED
    BY <2>1, <2>2, <2>3 DEF Segments
<1>3. r.next \in Nat /\ \A d \in Deadlines(v, now, views, rows) : r.next <= d
  <2>1. now + Poll \in Nat
    BY SettingsAssumption
  <2>2. \A x \in views : x.at \in Nat /\ x.at + Window[v] \in Nat
    BY SettingsNat DEF View
  <2>3. \A k \in Unresolved(rows) : rows[k].add + AbandonDelay[v] \in Nat
    BY SettingsNat DEF Unresolved, CartRow, NoTime
  <2>4. Deadlines(v, now, views, rows) \subseteq Nat
    BY <2>1, <2>2, <2>3 DEF Deadlines, Current
  <2> QED
    BY <1>1, <2>4 DEF Earliest
<1> DEFINE current == Current(v, now, views)
<1>4. /\ r.validUntil \in Nat
      /\ Cardinality(current) >= MinViews => r.validUntil # NoTime
  <2>1. \A x \in current : x.at \in Nat \ {0}
    BY DEF View, Current, NoTime
  <2>2. \A y \in PivotTimes(current) : y \in Nat \ {0}
    BY <2>1 DEF PivotTimes
  <2>3. CASE Cardinality(current) >= MinViews
    <3>1. PICK y \in PivotTimes(current) : r.validUntil = y + Window[v]
      BY <1>1, <2>3 DEF Expiries
    <3> QED
      BY <2>2, <3>1, SettingsNat DEF NoTime
  <2>4. CASE ~(Cardinality(current) >= MinViews)
    BY <1>1, <2>4 DEF Expiries, NoTime
  <2> QED
    BY <2>3, <2>4
<1>5. ASSUME NEW t \in Nat, NEW s \in Segments, now <= t, t < r.next
      PROVE  r.member[s] = Member(s, v, t, views, rows, completed)
  BY <1>1, <1>3, <1>5, MemberStands
<1>6. ASSUME NEW t \in Nat, NEW s \in Segments, now <= t, r.member[s], ~Expired(s, t, r)
      PROVE  Member(s, v, t, views, rows, completed)
  <2>1. Member(s, v, now, views, rows, completed)
    BY <1>1, <1>6
  <2>2. CASE s = "active_browser"
    <3>1. Cardinality(Current(v, now, views)) >= MinViews
      BY <2>1, <2>2 DEF Member
    <3>2. r.validUntil # NoTime
      BY <1>4, <3>1
    <3>3. t < r.validUntil
      BY <1>4, <1>6, <2>2, <3>2 DEF Expired
    <3>4. Cardinality(Current(v, t, views)) >= MinViews
      BY <1>1, <1>6, <3>1, <3>3, BrowserUntilExpiry
    <3> QED
      BY <2>2, <3>4 DEF Member
  <2>3. CASE s = "abandoned_cart"
    BY <1>6, <2>1, <2>3, AbandonedRemain DEF Member
  <2>4. CASE s = "repeat_customer"
    BY <2>1, <2>4 DEF Member
  <2> QED
    BY <2>2, <2>3, <2>4 DEF Segments
<1> QED
  BY <1>1, <1>2, <1>3, <1>4, <1>5, <1>6

\* evaluate_customer leaves a row with an evaluation of this instant, and changes
\* nothing else but views it prunes.
LEMMA EvaluatedRowIs ==
    ASSUME clock \in Nat \ {0}, deployed \in Versions,
           NEW row, IsRow(row), NEW new \in EvaluatedRows(row)
    PROVE  /\ IsRow(new) /\ Evaluated(new, clock) /\ new.evaluation.at = clock
           /\ new.seen = row.seen /\ new.carts = row.carts /\ new.facts = row.facts
           /\ new.views = Pruned(row)
<1>1. PICK r \in Evaluations(deployed, clock, Pruned(row), row.carts, Completed(row)) :
         new = [row EXCEPT !.views = Pruned(row),
                           !.evaluation = [version |-> deployed, at |-> r.at, next |-> r.next],
                           !.memberships[deployed] =
                               [member |-> r.member, validUntil |-> r.validUntil, at |-> r.at]]
  BY DEF EvaluatedRows
<1>2. /\ row.views \in SUBSET View /\ row.carts \in [Carts -> CartRow(Nat)]
      /\ row.memberships \in [Versions -> Membership] /\ row.facts \in [Orders -> Fact]
      /\ row.seen \in BOOLEAN
  BY DEF IsRow, Row
<1>3. Pruned(row) \in SUBSET View /\ IsFiniteSet(Pruned(row))
  BY <1>2, FS_Subset DEF Pruned, IsRow
<1>4. /\ r.member \in [Segments -> BOOLEAN] /\ r.validUntil \in Nat /\ r.next \in Nat
      /\ r.at = clock
      /\ \A t \in Nat, s \in Segments : clock <= t =>
            /\ t < r.next => r.member[s] =
                  Member(s, deployed, t, Pruned(row), row.carts, Completed(row))
            /\ r.member[s] /\ ~Expired(s, t, r) =>
                  Member(s, deployed, t, Pruned(row), row.carts, Completed(row))
  BY <1>2, <1>3, EvaluationSound
<1>5. /\ new.seen = row.seen /\ new.carts = row.carts /\ new.facts = row.facts
      /\ new.views = Pruned(row)
      /\ new.evaluation = [version |-> deployed, at |-> clock, next |-> r.next]
      /\ new.memberships = [row.memberships EXCEPT ![deployed] =
             [member |-> r.member, validUntil |-> r.validUntil, at |-> clock]]
  BY <1>1, <1>4 DEF IsRow, Row
<1>6. /\ new.memberships[deployed] =
             [member |-> r.member, validUntil |-> r.validUntil, at |-> clock]
      /\ new.memberships \in [Versions -> Membership]
  BY <1>2, <1>4, <1>5 DEF Membership
<1>7. new \in Row
  <2>1. new.evaluation \in Evaluation
    BY <1>4, <1>5 DEF Evaluation
  <2>2. new = [seen |-> new.seen, views |-> new.views, carts |-> new.carts, facts |-> new.facts,
               evaluation |-> new.evaluation, memberships |-> new.memberships]
    BY <1>1 DEF IsRow, Row
  <2> QED
    BY <1>2, <1>3, <1>5, <1>6, <2>1, <2>2 DEF Row
<1>8. Completed(new) = Completed(row)
  BY <1>5 DEF Completed
<1>9. \A s, t : Expired(s, t, new.memberships[deployed]) = Expired(s, t, r)
  BY <1>6 DEF Expired
<1>10. Evaluated(new, clock)
  BY <1>4, <1>5, <1>6, <1>8, <1>9 DEF Evaluated
<1> QED
  BY <1>3, <1>5, <1>7, <1>10 DEF IsRow

-----------------------------------------------------------------------------
(* A row and its customer's events.                                        *)

ViewOf(e) == [id |-> e.id, at |-> e.at]
ViewEvents(history) == {e \in history : e.name = "restaurant_view"}
OrderEvents(history) == {e \in history : e.name = "order_completed"}

\* A row against the events it was made from: its views are those of the events,
\* except such as some version's window had left behind when they were pruned; its
\* facts are of the orders completed; a cart is completed if a fact names it.
Faithful(row, history, now) ==
    /\ \A x \in row.views : \E e \in ViewEvents(history) : x = ViewOf(e)
    /\ \A e \in ViewEvents(history) :
          ViewOf(e) \in row.views \/ \E v \in Versions : e.at <= now - Window[v]
    /\ \A o \in Orders :
          row.facts[o] # NoFact <=> \E e \in OrderEvents(history) : e.order = o
    /\ \A o \in Orders : row.facts[o] # NoFact => row.facts[o].at # NoTime
    /\ \A k \in Carts :
          row.carts[k].done # NoTime <=> \E o \in Orders : row.facts[o].cart = k

\* They agree with having no events.
LEMMA NewRowFaithful ==
    ASSUME NEW now
    PROVE  Faithful(NewRow, {}, now)
BY SegmentsAssumption DEF Faithful, NewRow, NoFact, NoCartRow, ViewEvents, OrderEvents, NoTime

\* Time only makes more views old.
LEMMA FaithfulLater ==
    ASSUME NEW row, NEW history \in SUBSET Events, NEW now \in Nat, NEW later \in Nat, now <= later,
           Faithful(row, history, now)
    PROVE  Faithful(row, history, later)
<1>1. ASSUME NEW e \in ViewEvents(history), NEW v \in Versions, e.at <= now - Window[v]
      PROVE  e.at <= later - Window[v]
  <2>1. e.at \in Nat
    BY SegmentsAssumption DEF ViewEvents, Event
  <2> QED
    BY <1>1, <2>1, SettingsNat
<1> QED
  BY <1>1 DEF Faithful

\* Recording an event keeps a row in step with the events.
LEMMA RecordedIs ==
    ASSUME NEW row, IsRow(row), NEW e \in Events
    PROVE  IsRow(Recorded(row, e))
<1> DEFINE facts == RecordFacts(row.facts, e)
           views == IF e.name = "restaurant_view" THEN row.views \cup {ViewOf(e)} ELSE row.views
           carts == RecordCarts(row.carts, e, facts)
<1>1. e \in Event
  BY SegmentsAssumption
<1>2. row \in Row /\ IsFiniteSet(row.views) /\ ViewOf(e) \in View
  BY <1>1 DEF IsRow, ViewOf, View, Event
<1>3. facts \in [Orders -> Fact]
  BY <1>1, <1>2 DEF RecordFacts, Row, Fact, Event
<1>4. views \in SUBSET View /\ IsFiniteSet(views)
  BY <1>2, FS_AddElement DEF Row
<1>5. carts \in [Carts -> CartRow(Nat)]
  <2> HIDE DEF facts
  <2>1. row.carts \in [Carts -> CartRow(Nat)] /\ e.at \in Nat /\ e.cart \in Carts
    BY <1>1, <1>2 DEF Row, Event
  <2>2. \A k \in Carts : /\ row.carts[k] \in CartRow(Nat)
                         /\ row.carts[k].add \in Nat /\ row.carts[k].checkout \in Nat
                         /\ row.carts[k].done \in Nat
    BY <2>1 DEF CartRow, NoTime
  <2>3. \A a, b \in Nat : Greatest(a, b) \in Nat /\ Least(a, b) \in Nat
    BY DEF Greatest, Least
  <2>4. CASE e.name = "add_to_cart"
    <3>1. carts = [row.carts EXCEPT ![e.cart].add = Greatest(@, e.at)]
      BY <2>4 DEF RecordCarts
    <3> QED
      BY <2>1, <2>2, <2>3, <3>1 DEF CartRow
  <2>5. CASE e.name = "checkout_started"
    <3>1. carts = [row.carts EXCEPT ![e.cart].checkout = Greatest(@, e.at)]
      BY <2>5 DEF RecordCarts
    <3> QED
      BY <2>1, <2>2, <2>3, <3>1 DEF CartRow
  <2>6. CASE e.name = "order_completed"
    <3>1. carts = [row.carts EXCEPT ![facts[e.order].cart].done = Least(@, facts[e.order].at)]
      BY <2>6 DEF RecordCarts
    <3>2. facts[e.order].at \in Nat
      BY <1>1, <1>3 DEF Event, Fact
    <3> HIDE DEF carts
    <3> QED
      BY <2>1, <2>2, <2>3, <3>1, <3>2 DEF CartRow
  <2>7. CASE e.name \notin {"add_to_cart", "checkout_started", "order_completed"}
    BY <2>1, <2>7 DEF RecordCarts
  <2> QED
    BY <2>4, <2>5, <2>6, <2>7
<1>6. Recorded(row, e) = [row EXCEPT !.seen = TRUE, !.views = views, !.carts = carts, !.facts = facts]
  BY DEF Recorded, ViewOf
<1> HIDE DEF facts, views, carts
<1> QED
  BY <1>2, <1>3, <1>4, <1>5, <1>6 DEF IsRow, Row

\* record_behavior keeps a row in step with the events, the new one included.
LEMMA RecordedFaithful ==
    ASSUME NEW row, IsRow(row), NEW history \in SUBSET Events, NEW now \in Nat,
           Faithful(row, history, now), NEW e \in Events
    PROVE  Faithful(Recorded(row, e), history \cup {e}, now)
<1> DEFINE facts == RecordFacts(row.facts, e)
           carts == RecordCarts(row.carts, e, facts)
           new == Recorded(row, e)
           more == history \cup {e}
<1>1. /\ e \in Event /\ e.at # NoTime /\ e.cart \in Carts /\ e.order \in Orders
      /\ row \in Row
  BY SegmentsAssumption DEF Event, IsRow
<1>2. /\ new.facts = facts /\ new.carts = carts
      /\ new.views = IF e.name = "restaurant_view" THEN row.views \cup {ViewOf(e)} ELSE row.views
  BY <1>1 DEF Recorded, Row, ViewOf
<1>3. ASSUME NEW x \in new.views
      PROVE  \E f \in ViewEvents(more) : x = ViewOf(f)
  BY <1>2, <1>3 DEF Faithful, ViewEvents
<1>4. ASSUME NEW f \in ViewEvents(more)
      PROVE  ViewOf(f) \in new.views \/ \E v \in Versions : f.at <= now - Window[v]
  BY <1>2 DEF Faithful, ViewEvents
<1>5. ASSUME NEW o \in Orders
      PROVE  /\ facts[o] # NoFact <=> row.facts[o] # NoFact \/ (e.name = "order_completed" /\ e.order = o)
             /\ facts[o] # NoFact => facts[o].at # NoTime
             /\ row.facts[o] # NoFact => facts[o] = row.facts[o]
             /\ facts[o] # row.facts[o] =>
                    o = e.order /\ e.name = "order_completed" /\ facts[o] = [at |-> e.at, cart |-> e.cart]
  BY <1>1 DEF RecordFacts, Faithful, Row, NoFact
<1>6. ASSUME NEW o \in Orders
      PROVE  facts[o] # NoFact <=> \E f \in OrderEvents(more) : f.order = o
  BY <1>5 DEF Faithful, OrderEvents
<1>7. ASSUME NEW k \in Carts
      PROVE  carts[k].done # NoTime <=> \E o \in Orders : facts[o].cart = k
  <2> HIDE DEF facts
  <2>1. /\ row.carts \in [Carts -> CartRow(Nat)]
        /\ row.carts[k].done # NoTime <=> \E o \in Orders : row.facts[o].cart = k
        /\ \A j \in Carts : row.carts[j].done \in Nat
    BY <1>1 DEF Faithful, Row, CartRow, NoTime
  <2>2. \A o \in Orders : row.facts[o].cart = k => facts[o].cart = k
    BY <1>5, SegmentsAssumption DEF NoFact
  <2>3. CASE e.name # "order_completed"
    <3>1. carts[k].done = row.carts[k].done
      BY <1>1, <2>1, <2>3 DEF RecordCarts, CartRow
    <3>2. \A o \in Orders : facts[o] = row.facts[o]
      BY <1>5, <2>3
    <3> QED
      BY <2>1, <3>1, <3>2
  <2>4. CASE e.name = "order_completed"
    <3> DEFINE at == facts[e.order].at
               cart == facts[e.order].cart
    <3>1. carts = [row.carts EXCEPT ![cart].done = Least(@, at)]
      BY <2>4 DEF RecordCarts
    <3>2. facts[e.order] # NoFact /\ at # NoTime
      BY <1>1, <1>5, <2>4
    <3>3. k # cart => carts[k].done = row.carts[k].done
      BY <2>1, <3>1
    <3>4. k = cart => carts[k].done = Least(row.carts[k].done, at)
      BY <2>1, <3>1 DEF CartRow
    <3>5. k = cart => carts[k].done # NoTime
      BY <3>2, <3>4 DEF Least, NoTime
    <3>6. \A o \in Orders : facts[o].cart = k => row.facts[o].cart = k \/ k = cart
      BY <1>5
    <3> HIDE DEF at, cart, carts
    <3>7. ASSUME carts[k].done # NoTime
          PROVE  \E o \in Orders : facts[o].cart = k
      BY <1>1, <2>1, <2>2, <3>3, <3>7 DEF cart
    <3>8. ASSUME NEW o \in Orders, facts[o].cart = k
          PROVE  carts[k].done # NoTime
      BY <2>1, <3>3, <3>5, <3>6, <3>8
    <3> QED
      BY <3>7, <3>8
  <2> QED
    BY <2>3, <2>4
<1> HIDE DEF facts, carts, new, more
<1> QED
  BY <1>2, <1>3, <1>4, <1>5, <1>6, <1>7 DEF Faithful, new, more

\* So does evaluating one.
LEMMA EvaluatedFaithful ==
    ASSUME clock \in Nat \ {0}, deployed \in Versions, NEW row, IsRow(row),
           NEW history \in SUBSET Events, Faithful(row, history, clock),
           NEW new \in EvaluatedRows(row)
    PROVE  Faithful(new, history, clock)
<1>1. new.carts = row.carts /\ new.facts = row.facts /\ new.views = Pruned(row)
  BY EvaluatedRowIs
<1>2. ASSUME NEW e \in ViewEvents(history), ViewOf(e) \in row.views, ViewOf(e) \notin Pruned(row)
      PROVE  e.at <= clock - Window[deployed]
  <2>1. e.at \in Nat /\ ViewOf(e).at = e.at
    BY SegmentsAssumption DEF ViewEvents, Event, ViewOf
  <2> QED
    BY <1>2, <2>1, SettingsNat DEF Pruned
<1>3. Pruned(row) \subseteq row.views
  BY DEF Pruned
<1> QED
  BY <1>1, <1>2, <1>3 DEF Faithful

-----------------------------------------------------------------------------
(* The invariant.                                                          *)

Customer == [onboarded: BOOLEAN, consent: BOOLEAN]
Txn == [event: SUBSET Events, locked: SUBSET Users, todo: SUBSET Users, image: [Users -> Row]]
Read == [pc: {"first", "done"}, user: Users, served: Nat, customer: Customer, row: Row,
         membership: Membership]

Typed ==
    /\ clock \in 1 .. Horizon
    /\ deployed \in Versions
    /\ applied \in SUBSET Events
    /\ db \in [Users -> Row]
    /\ customers \in [Users -> Customer]
    /\ txn \in [Writers -> Txn]
    /\ read \in [Readers -> Read \cup {NoRead}]
    /\ updates \in 0 .. MaxUpdates

\* A row that was right at the clock's time for a history of its customer.
Right(row, history) == IsRow(row) /\ Evaluated(row, clock) /\ Faithful(row, history, clock)

RowsRight == \A u \in Users : Right(db[u], History(u))

\* What a transaction is about to write: rows of customers it has locked, as right as
\* the committed ones once its event has been applied, and not older than these.
TxnRight(x) ==
    /\ x.todo \subseteq x.locked
    /\ x.todo # {} => x.event = {}
    /\ Cardinality(x.locked) <= BatchSize
    /\ \A e \in x.event : e.user \in x.locked
    /\ \A u \in x.locked \ x.todo :
          /\ Right(x.image[u], History(u) \cup {e \in x.event : e.user = u})
          /\ db[u].evaluation.at <= x.image[u].evaluation.at

TxnsRight == \A w \in Writers : TxnRight(txn[w])

LocksExclusive == \A w, x \in Writers : w # x => txn[w].locked \cap txn[x].locked = {}

\* What a read holds is of the instant it names.
ReadsRight ==
    \A r \in Readers : read[r] # NoRead =>
        /\ IsRow(read[r].row) /\ Evaluated(read[r].row, read[r].served)
        /\ read[r].pc = "done" => read[r].membership = read[r].row.memberships[deployed]

SegInv == Typed /\ RowsRight /\ TxnsRight /\ LocksExclusive /\ ReadsRight

\* A writer between transactions has nothing to answer for.
LEMMA NoTxnRight ==
    /\ NoTxn \in Txn
    /\ NoTxn.locked = {} /\ NoTxn.todo = {} /\ NoTxn.event = {}
    /\ Cardinality(NoTxn.locked) <= BatchSize
<1>1. Cardinality({}) = 0 /\ BatchSize \in Nat
  BY FS_EmptySet, SegmentsAssumption
<1> QED
  BY <1>1, NewRowIs DEF NoTxn, Txn, IsRow

\* The first state.
LEMMA SegStart == Init => SegInv
<1> SUFFICES ASSUME Init
             PROVE  SegInv
  OBVIOUS
<1> USE DEF Init
<1>1. Typed
  BY NoTxnRight, NewRowIs, SegmentsAssumption DEF Typed, IsRow, Customer
<1>2. RowsRight
  BY NewRowIs, NewRowFaithful DEF RowsRight, Right, History
<1>3. TxnsRight /\ LocksExclusive
  BY NoTxnRight DEF TxnsRight, TxnRight, LocksExclusive
<1> QED
  BY <1>1, <1>2, <1>3 DEF SegInv, ReadsRight

\* A row that is right stays so as the clock goes on.
LEMMA RightLater ==
    ASSUME NEW row, NEW history \in SUBSET Events, clock \in Nat, clock' \in Nat, clock <= clock',
           Right(row, history)
    PROVE  (IsRow(row) /\ Evaluated(row, clock') /\ Faithful(row, history, clock'))
<1>1. Evaluated(row, clock')
  BY DEF Right, Evaluated, IsRow, Row, Evaluation
<1> QED
  BY <1>1, FaithfulLater DEF Right

\* The clock and what only others read leave rows and transactions right.
LEMMA QuietSteps ==
    ASSUME SegInv, UNCHANGED <<applied, db, txn>>, clock' \in Nat, clock <= clock'
    PROVE  RowsRight' /\ TxnsRight' /\ LocksExclusive'
<1> USE DEF SegInv
<1>1. clock \in Nat /\ \A u : History(u) \in SUBSET Events /\ History(u)' = History(u)
  BY SegmentsAssumption DEF Typed, History
<1>2. RowsRight'
  BY <1>1, RightLater DEF RowsRight, Right
<1>3. ASSUME NEW w \in Writers
      PROVE  TxnRight(txn[w])'
  <2>1. TxnRight(txn[w]) /\ txn[w].event \in SUBSET Events
    BY DEF TxnsRight, Typed, Txn
  <2>2. ASSUME NEW u \in txn[w].locked \ txn[w].todo
        PROVE  Right(txn[w].image[u], History(u) \cup {e \in txn[w].event : e.user = u})'
    <3> DEFINE row == txn[w].image[u]
               history == History(u) \cup {e \in txn[w].event : e.user = u}
    <3>1. Right(row, history) /\ history \in SUBSET Events
      BY <1>1, <2>1 DEF TxnRight
    <3> HIDE DEF row, history
    <3>2. IsRow(row) /\ Evaluated(row, clock') /\ Faithful(row, history, clock')
      BY <1>1, <3>1, RightLater
    <3>3. row' = row /\ history' = history
      BY <1>1 DEF row, history
    <3> QED
      BY <3>2, <3>3 DEF Right, row, history
  <2> QED
    BY <2>1, <2>2 DEF TxnRight
<1> QED
  BY <1>2, <1>3 DEF TxnsRight, LocksExclusive

\* One transaction goes on to something that is right, and takes only free locks.
LEMMA TxnSteps ==
    ASSUME SegInv, UNCHANGED <<clock, deployed, applied, db, customers, read, updates>>,
           NEW w \in Writers, NEW x \in Txn, txn' = [txn EXCEPT ![w] = x],
           TxnRight(x), \A u \in x.locked : u \in txn[w].locked \/ ~Locked(u)
    PROVE  SegInv'
<1>1. Typed'
  BY DEF SegInv, Typed
<1>2. RowsRight'
  BY DEF SegInv, RowsRight, Right, History
<1>3. \A y \in Writers : txn'[y] = IF y = w THEN x ELSE txn[y]
  BY DEF SegInv, Typed
<1>4. ASSUME NEW y \in Writers
      PROVE  TxnRight(txn[y])'
  <2>1. \A z : TxnRight(z) => TxnRight(z)'
    BY DEF TxnRight, Right, History
  <2>2. TxnRight(txn[y]) /\ (txn'[y] = x \/ txn'[y] = txn[y])
    BY <1>3 DEF SegInv, TxnsRight
  <2>3. TxnRight(txn'[y])
    BY <2>2
  <2> QED
    BY <2>3 DEF TxnRight, Right, History
<1>5. LocksExclusive'
  BY <1>3 DEF SegInv, LocksExclusive, Locked
<1>6. ReadsRight'
  BY DEF SegInv, ReadsRight
<1> QED
  BY <1>1, <1>2, <1>4, <1>5, <1>6 DEF SegInv, TxnsRight

\* A transaction that is rolled back leaves nothing.
LEMMA RollBackSafe ==
    ASSUME SegInv, NEW w \in Writers, RollBack(w)
    PROVE  SegInv'
<1>1. TxnRight(NoTxn)
  BY NoTxnRight DEF TxnRight
<1> QED
  BY <1>1, NoTxnRight, TxnSteps DEF RollBack

\* apply locks its customer, records and evaluates: its image has the event in it.
LEMMA RecordSafe ==
    ASSUME SegInv, NEW w \in Processors, NEW e \in Events, Record(w, e)
    PROVE  SegInv'
<1> DEFINE u == e.user
<1>1. PICK row \in EvaluatedRows(Recorded(db[u], e)) :
         txn' = [txn EXCEPT ![w] = [event |-> {e}, locked |-> {u}, todo |-> {},
                                    image |-> [db EXCEPT ![u] = row]]]
  BY DEF Record
<1> DEFINE x == [event |-> {e}, locked |-> {u}, todo |-> {}, image |-> [db EXCEPT ![u] = row]]
<1>2. /\ u \in Users /\ clock \in Nat \ {0} /\ deployed \in Versions /\ w \in Writers
      /\ Right(db[u], History(u)) /\ History(u) \in SUBSET Events /\ db \in [Users -> Row]
  BY SegmentsAssumption DEF SegInv, Typed, RowsRight, History, Event, Writers
<1>3. /\ IsRow(Recorded(db[u], e))
      /\ Faithful(Recorded(db[u], e), History(u) \cup {e}, clock)
  BY <1>2, RecordedIs, RecordedFaithful DEF Right
<1>4. /\ IsRow(row) /\ Evaluated(row, clock) /\ row.evaluation.at = clock
      /\ Faithful(row, History(u) \cup {e}, clock)
  <2>1. History(u) \cup {e} \in SUBSET Events
    BY <1>2
  <2> QED
    BY <1>2, <1>3, <2>1, EvaluatedRowIs, EvaluatedFaithful
<1>5. db[u].evaluation.at <= clock
  BY <1>2, NoLaterEvaluation DEF Right
<1>6. x \in Txn /\ x.image[u] = row
  BY <1>2, <1>4 DEF Txn, IsRow
<1>7. Cardinality({u}) <= BatchSize
  <2>1. Cardinality({u}) = 1
    BY FS_Singleton
  <2>2. BatchSize \in Nat \ {0}
    BY SegmentsAssumption
  <2> HIDE DEF u
  <2> QED
    BY <2>1, <2>2
<1>8. TxnRight(x)
  BY <1>4, <1>5, <1>6, <1>7 DEF TxnRight, Right
<1> HIDE DEF x
<1>9. txn' = [txn EXCEPT ![w] = x] /\ \A y \in x.locked : ~Locked(y)
  BY <1>1 DEF x, Record
<1> QED
  BY <1>2, <1>6, <1>8, <1>9, TxnSteps DEF Record

\* A worker takes a batch of customers nobody has locked.
LEMMA SelectSafe ==
    ASSUME SegInv, NEW w \in Workers, SelectDue(w)
    PROVE  SegInv'
<1>1. PICK batch \in Batches({u \in Users : Due(u) /\ ~Locked(u)}) :
         txn' = [txn EXCEPT ![w] = [event |-> {}, locked |-> batch, todo |-> batch, image |-> db]]
  BY DEF SelectDue
<1> DEFINE x == [event |-> {}, locked |-> batch, todo |-> batch, image |-> db]
<1>2. batch \subseteq Users /\ Cardinality(batch) <= BatchSize /\ \A u \in batch : ~Locked(u)
  BY DEF Batches
<1>3. x \in Txn /\ TxnRight(x) /\ w \in Writers
  BY <1>2 DEF Txn, TxnRight, SegInv, Typed, Writers
<1> QED
  BY <1>1, <1>2, <1>3, TxnSteps DEF SelectDue

\* A worker evaluates one more of its customers, from the committed rows.
LEMMA EvaluateSafe ==
    ASSUME SegInv, NEW w \in Workers, EvaluateNext(w)
    PROVE  SegInv'
<1>1. PICK u \in txn[w].todo : \E row \in EvaluatedRows(db[u]) :
         txn' = [txn EXCEPT ![w].todo = @ \ {u}, ![w].image[u] = row]
  BY DEF EvaluateNext
<1>2. PICK row \in EvaluatedRows(db[u]) :
         txn' = [txn EXCEPT ![w].todo = @ \ {u}, ![w].image[u] = row]
  BY <1>1
<1> DEFINE old == txn[w]
           x == [old EXCEPT !.todo = @ \ {u}, !.image[u] = row]
<1>3. /\ w \in Writers /\ old \in Txn /\ TxnRight(old) /\ u \in Users
      /\ clock \in Nat \ {0} /\ deployed \in Versions
      /\ Right(db[u], History(u)) /\ History(u) \in SUBSET Events
  BY SegmentsAssumption DEF SegInv, Typed, Txn, TxnsRight, RowsRight, History, Writers
<1>4. /\ IsRow(row) /\ Evaluated(row, clock) /\ row.evaluation.at = clock
      /\ Faithful(row, History(u), clock)
  BY <1>3, EvaluatedRowIs, EvaluatedFaithful DEF Right
<1>5. db[u].evaluation.at <= clock
  BY <1>3, NoLaterEvaluation DEF Right
<1>6. old.event = {} /\ old.image \in [Users -> Row] /\ old.todo \subseteq old.locked
  BY <1>3 DEF TxnRight, Txn
<1>7. x \in Txn /\ x.event = {} /\ x.locked = old.locked /\ x.todo = old.todo \ {u}
      /\ x.image = [old.image EXCEPT ![u] = row] /\ x.image[u] = row
  BY <1>3, <1>4, <1>6 DEF Txn, IsRow
<1> HIDE DEF x
<1>8. ASSUME NEW y \in x.locked \ x.todo
      PROVE  /\ Right(x.image[y], History(y) \cup {e \in x.event : e.user = y})
             /\ db[y].evaluation.at <= x.image[y].evaluation.at
  <2>1. CASE y = u
    <3>1. History(y) \cup {e \in x.event : e.user = y} = History(u)
      BY <1>7, <2>1
    <3> QED
      BY <1>4, <1>5, <1>7, <2>1, <3>1 DEF Right
  <2>2. CASE y # u
    <3>1. y \in old.locked \ old.todo /\ x.image[y] = old.image[y] /\ x.event = old.event
      BY <1>3, <1>6, <1>7, <2>2 DEF Txn
    <3> QED
      BY <1>3, <3>1 DEF TxnRight
  <2> QED
    BY <2>1, <2>2
<1>9. TxnRight(x)
  BY <1>3, <1>6, <1>7, <1>8 DEF TxnRight
<1>10. txn' = [txn EXCEPT ![w] = x] /\ \A y \in x.locked : y \in txn[w].locked
  BY <1>2, <1>3, <1>7 DEF x, SegInv, Typed, Txn
<1> QED
  BY <1>3, <1>7, <1>9, <1>10, TxnSteps DEF EvaluateNext

\* A commit puts the images of the locked rows in place of these, and the event
\* with them: the customers other writers have locked are not among them.
LEMMA CommitSafe ==
    ASSUME SegInv, NEW w \in Writers, Commit(w)
    PROVE  SegInv' /\ \A u \in Users : db'[u].evaluation.at >= db[u].evaluation.at
<1> DEFINE old == txn[w]
<1>1. /\ old \in Txn /\ TxnRight(old) /\ old.todo = {} /\ txn \in [Writers -> Txn]
      /\ db \in [Users -> Row] /\ applied \in SUBSET Events
      /\ \A e \in Events : e.user \in Users
  BY SegmentsAssumption DEF SegInv, Typed, TxnsRight, Commit, Event
<1>2. /\ db' = [u \in Users |-> IF u \in old.locked THEN old.image[u] ELSE db[u]]
      /\ applied' = applied \cup old.event
      /\ txn' = [txn EXCEPT ![w] = NoTxn]
      /\ UNCHANGED <<clock, deployed, customers, read, updates>>
  BY DEF Commit
<1>3. ASSUME NEW u \in Users
      PROVE  History(u)' = History(u) \cup {e \in old.event : e.user = u}
  BY <1>2 DEF History
<1>4. ASSUME NEW u \in Users, u \notin old.locked
      PROVE  History(u)' = History(u)
  BY <1>1, <1>3, <1>4 DEF TxnRight
<1>5. ASSUME NEW u \in Users, u \in old.locked
      PROVE  /\ Right(old.image[u], History(u)') /\ db'[u] = old.image[u]
             /\ db[u].evaluation.at <= old.image[u].evaluation.at
  BY <1>1, <1>2, <1>3, <1>5 DEF TxnRight
<1> HIDE DEF old
<1>6. Typed'
  <2>1. old.image \in [Users -> Row] /\ old.event \in SUBSET Events
    BY <1>1 DEF Txn
  <2>2. db' \in [Users -> Row]
    BY <1>1, <1>2, <2>1
  <2> QED
    BY <1>1, <1>2, <2>1, <2>2, NoTxnRight DEF SegInv, Typed
<1>7. RowsRight'
  <2> SUFFICES ASSUME NEW u \in Users
               PROVE  Right(db[u], History(u))'
    BY DEF RowsRight
  <2>1. Right(db'[u], History(u)')
    BY <1>1, <1>2, <1>4, <1>5 DEF SegInv, RowsRight
  <2> QED
    BY <1>2, <2>1 DEF Right
<1>8. ASSUME NEW y \in Writers
      PROVE  TxnRight(txn[y])'
  <2>1. CASE y = w
    <3>1. txn'[y] = NoTxn
      BY <1>1, <1>2, <2>1
    <3> QED
      BY <3>1, NoTxnRight DEF TxnRight
  <2>2. CASE y # w
    <3> DEFINE x == txn[y]
    <3>1. txn'[y] = x /\ TxnRight(x) /\ x.locked \cap old.locked = {} /\ x.locked \subseteq Users
      BY <1>1, <1>2, <2>2 DEF SegInv, TxnsRight, LocksExclusive, old, Txn
    <3> HIDE DEF x
    <3>2. ASSUME NEW u \in x.locked \ x.todo
          PROVE  /\ Right(x.image[u], History(u)' \cup {e \in x.event : e.user = u})
                 /\ db'[u] = db[u]
      BY <1>1, <1>2, <1>4, <3>1 DEF TxnRight
    <3>3. ASSUME NEW u \in x.locked \ x.todo
          PROVE  Right(x.image[u], History(u) \cup {e \in x.event : e.user = u})'
      <4>1. txn[y]' = x /\ x' = x
        BY <3>1 DEF x
      <4> QED
        BY <1>2, <3>2, <4>1 DEF Right
    <3>4. TxnRight(x)'
      BY <1>2, <3>1, <3>2, <3>3 DEF TxnRight, x
    <3> QED
      BY <3>1, <3>4 DEF x
  <2> QED
    BY <2>1, <2>2
<1>9. LocksExclusive'
  BY <1>1, <1>2, NoTxnRight DEF SegInv, LocksExclusive
<1>10. ReadsRight'
  BY <1>2 DEF SegInv, ReadsRight
<1>11. ASSUME NEW u \in Users
       PROVE  db'[u].evaluation.at >= db[u].evaluation.at
  <2>1. db[u].evaluation.at \in Nat
    BY <1>1 DEF Row, Evaluation
  <2> QED
    BY <1>1, <1>2, <1>5, <2>1
<1> QED
  BY <1>6, <1>7, <1>8, <1>9, <1>10, <1>11 DEF SegInv, TxnsRight

\* The clock, the configuration, consent and the reads.
LEMMA OtherSafe ==
    ASSUME SegInv,
           \/ Tick
           \/ \E v \in Versions : Deploy(v)
           \/ \E u \in Users, consent \in BOOLEAN : Onboard(u, consent) \/ Patch(u, consent)
           \/ \E r \in Readers : (\E u \in Users : ReadCustomer(r, u)) \/ ReadMemberships(r) \/ Respond(r)
           \/ UNCHANGED vars
    PROVE  SegInv' /\ db' = db
<1>1. /\ UNCHANGED <<applied, db, txn>> /\ clock \in Nat \ {0} /\ clock' \in Nat /\ clock <= clock'
      /\ clock' \in 1 .. Horizon
  <2>1. clock \in 1 .. Horizon /\ Horizon \in Nat
    BY SegmentsAssumption DEF SegInv, Typed
  <2>2. UNCHANGED <<applied, db, txn>>
    BY DEF Tick, Deploy, Onboard, Patch, ReadCustomer, ReadMemberships, Respond, vars
  <2>3. clock' = clock \/ (clock < Horizon /\ clock' = clock + 1)
    BY DEF Tick, Deploy, Onboard, Patch, ReadCustomer, ReadMemberships, Respond, vars
  <2> QED
    BY <2>1, <2>2, <2>3
<1>2. RowsRight' /\ TxnsRight' /\ LocksExclusive'
  BY <1>1, QuietSteps
<1>3. Typed' /\ ReadsRight'
  <2> USE <1>1 DEF SegInv
  <2>1. CASE Tick
    BY <2>1 DEF Tick, Typed, ReadsRight
  <2>2. ASSUME NEW v \in Versions, Deploy(v)
        PROVE  Typed' /\ ReadsRight'
    BY <2>2 DEF Deploy, Typed, ReadsRight
  <2>3. ASSUME NEW u \in Users, NEW consent \in BOOLEAN, Onboard(u, consent) \/ Patch(u, consent)
        PROVE  Typed' /\ ReadsRight'
    <3>1. customers' \in [Users -> Customer] /\ updates' \in 0 .. MaxUpdates
      <4>1. /\ updates \in 0 .. MaxUpdates /\ MaxUpdates \in Nat /\ customers \in [Users -> Customer]
            /\ updates < MaxUpdates /\ updates' = updates + 1
        BY <2>3, SegmentsAssumption DEF Onboard, Patch, Typed
      <4>2. CASE Onboard(u, consent)
        BY <4>1, <4>2 DEF Onboard, Customer
      <4>3. CASE Patch(u, consent)
        BY <4>1, <4>3 DEF Patch, Customer
      <4> QED
        BY <2>3, <4>1, <4>2, <4>3
    <3> QED
      BY <2>3, <3>1 DEF Onboard, Patch, Typed, ReadsRight
  <2>4. ASSUME NEW r \in Readers, NEW u \in Users, ReadCustomer(r, u)
        PROVE  Typed' /\ ReadsRight'
    <3> DEFINE q == [pc |-> "first", user |-> u, served |-> clock, customer |-> customers[u],
                     row |-> db[u], membership |-> NoMembership]
    <3>1. NoMembership \in Membership
      BY DEF NoMembership, Membership, NoTime
    <3>2. q \in Read /\ q.pc = "first" /\ q.row = db[u] /\ q.served = clock
      BY <3>1 DEF Read, Typed
    <3> HIDE DEF q
    <3>3. read' = [read EXCEPT ![r] = q]
      BY <2>4 DEF ReadCustomer, q
    <3>4. IsRow(q.row) /\ Evaluated(q.row, q.served)
      BY <3>2 DEF RowsRight, Right
    <3>5. \A y \in Readers : read'[y] = IF y = r THEN q ELSE read[y]
      BY <3>3 DEF Typed
    <3>6. Typed'
      BY <2>4, <3>2, <3>3 DEF ReadCustomer, Typed
    <3>7. ReadsRight'
      BY <2>4, <3>2, <3>4, <3>5 DEF ReadCustomer, ReadsRight
    <3> QED
      BY <3>6, <3>7
  <2>5. ASSUME NEW r \in Readers, ReadMemberships(r)
        PROVE  Typed' /\ ReadsRight'
    <3> DEFINE q == [read[r] EXCEPT !.pc = "done",
                                    !.membership = read[r].row.memberships[deployed]]
    <3>1. read[r] \in Read
      BY <2>5 DEF ReadMemberships, Typed, NoRead
    <3>2. read[r].row.memberships[deployed] \in Membership
      BY <3>1 DEF Read, Row, Typed
    <3>3. /\ q \in Read /\ q.row = read[r].row /\ q.served = read[r].served
          /\ q.membership = q.row.memberships[deployed]
      BY <3>1, <3>2 DEF Read
    <3>4. read' = [read EXCEPT ![r] = q]
      BY <2>5 DEF ReadMemberships, SecondSnapshot, Typed
    <3>5. IsRow(q.row) /\ Evaluated(q.row, q.served)
      BY <2>5, <3>3 DEF ReadsRight, ReadMemberships, NoRead
    <3> HIDE DEF q
    <3>6. \A y \in Readers : read'[y] = IF y = r THEN q ELSE read[y]
      BY <3>4 DEF Typed
    <3>7. Typed'
      BY <2>5, <3>3, <3>4 DEF ReadMemberships, Typed
    <3>8. ReadsRight'
      BY <2>5, <3>3, <3>5, <3>6 DEF ReadMemberships, ReadsRight
    <3> QED
      BY <3>7, <3>8
  <2>6. ASSUME NEW r \in Readers, Respond(r)
        PROVE  Typed' /\ ReadsRight'
    BY <2>6 DEF Respond, Typed, ReadsRight
  <2>7. CASE UNCHANGED vars
    BY <2>7 DEF vars, Typed, ReadsRight
  <2> QED
    BY <2>1, <2>2, <2>3, <2>4, <2>5, <2>6, <2>7
<1> QED
  BY <1>1, <1>2, <1>3 DEF SegInv

-----------------------------------------------------------------------------
(* What follows.                                                           *)

\* Every step keeps the invariant, and takes no evaluation back.
LEMMA SegInvStays ==
    ASSUME SegInv, [Next]_vars
    PROVE  SegInv' /\ \A u \in Users : db'[u].evaluation.at >= db[u].evaluation.at
<1>1. ASSUME db' = db, NEW u \in Users
      PROVE  db'[u].evaluation.at >= db[u].evaluation.at
  <2>1. db[u].evaluation.at \in Nat
    BY DEF SegInv, Typed, Row, Evaluation
  <2> QED
    BY <1>1, <2>1
<1>2. ASSUME NEW w \in Processors, NEW e \in Events, Record(w, e)
      PROVE  SegInv' /\ db' = db
  BY <1>2, RecordSafe DEF Record
<1>3. ASSUME NEW w \in Workers, SelectDue(w)
      PROVE  SegInv' /\ db' = db
  BY <1>3, SelectSafe DEF SelectDue
<1>4. ASSUME NEW w \in Workers, EvaluateNext(w)
      PROVE  SegInv' /\ db' = db
  BY <1>4, EvaluateSafe DEF EvaluateNext
<1>5. ASSUME NEW w \in Writers, Commit(w)
      PROVE  SegInv' /\ \A u \in Users : db'[u].evaluation.at >= db[u].evaluation.at
  BY <1>5, CommitSafe
<1>6. ASSUME NEW w \in Writers, RollBack(w)
      PROVE  SegInv' /\ db' = db
  BY <1>6, RollBackSafe DEF RollBack
<1> QED
  BY <1>1, <1>2, <1>3, <1>4, <1>5, <1>6, OtherSafe DEF Next

\* The invariant behind the others: in every state each committed row, and each row a
\* transaction is about to commit, carries an evaluation that stands and agrees with
\* the events of its customer; locks are exclusive, and a read holds one instant.
THEOREM SegmentsInvariant == Spec => []SegInv
BY SegStart, SegInvStays, PTL DEF Spec

\* Type correctness, with the bound on a worker's transaction.
THEOREM TypeCorrect == Spec => []TypeOK
<1>1. SegInv => TypeOK
  <2> SUFFICES ASSUME SegInv
               PROVE  TypeOK
    OBVIOUS
  <2>1. \A u \in Users : db[u] \in Row
    BY DEF SegInv, Typed
  <2>2. \A w \in Writers : /\ txn[w] \in Txn /\ Cardinality(txn[w].locked) <= BatchSize
                           /\ txn[w].todo \subseteq txn[w].locked
    BY DEF SegInv, Typed, TxnsRight, TxnRight
  <2>3. \A r \in Readers : read[r].pc \in {"idle", "first", "done"}
    BY DEF SegInv, Typed, Read, NoRead
  <2> QED
    BY <2>1, <2>2, <2>3 DEF TypeOK, SegInv, Typed, Row, View, Evaluation, Membership, Txn, Customer
<1> QED
  BY <1>1, SegmentsInvariant, PTL

\* Until its deadline an evaluation gives what the rules would give, from the rows as
\* they are, at every time: no writer leaves behaviour unevaluated (evaluate_customer
\* in the transaction of the event) and no change falls between two deadlines.
THEOREM EvaluationsStand == Spec => []EvaluationStands
<1>1. SegInv => EvaluationStands
  <2> SUFFICES ASSUME SegInv, NEW u \in Users, db[u].evaluation.at # NoTime,
                      NEW t \in db[u].evaluation.at .. (db[u].evaluation.next - 1), NEW s \in Segments
               PROVE  db[u].memberships[db[u].evaluation.version].member[s] =
                         Member(s, db[u].evaluation.version, t, db[u].views, db[u].carts, Completed(db[u]))
    BY DEF EvaluationStands
  <2>1. db[u].evaluation.at \in Nat /\ db[u].evaluation.next \in Nat /\ Evaluated(db[u], clock)
    BY DEF SegInv, RowsRight, Right, IsRow, Row, Evaluation
  <2>2. t \in Nat /\ db[u].evaluation.at <= t /\ t < db[u].evaluation.next
    BY <2>1
  <2>3. \A x \in Nat, y \in Segments :
           db[u].evaluation.at <= x /\ x < db[u].evaluation.next =>
              db[u].memberships[db[u].evaluation.version].member[y] =
                 Member(y, db[u].evaluation.version, x, db[u].views, db[u].carts, Completed(db[u]))
    BY <2>1 DEF Evaluated
  <2> QED
    BY <2>2, <2>3
<1> QED
  BY <1>1, SegmentsInvariant, PTL

\* The evaluation row and the membership rows of its version are of one evaluation.
THEOREM EvaluationsMatch == Spec => []EvaluationMatchesMemberships
<1>1. SegInv => EvaluationMatchesMemberships
  BY DEF SegInv, RowsRight, Right, Evaluated, EvaluationMatchesMemberships
<1> QED
  BY <1>1, SegmentsInvariant, PTL

\* No transaction replaces a customer's evaluation by an older one.
THEOREM NoOlderEvaluation == Spec => EvaluationsMoveForward
<1>1. SegInv /\ [Next]_vars => [\A u \in Users : db'[u].evaluation.at >= db[u].evaluation.at]_vars
  BY SegInvStays
<1> QED
  BY <1>1, SegmentsInvariant, PTL DEF Spec, EvaluationsMoveForward

\* What is eligible matches the rules at the time it is served, however late.
LEMMA EligibleMatches ==
    ASSUME SegInv, NEW row, IsRow(row), NEW now \in Nat, Evaluated(row, now), NEW customer,
           NEW s \in Segments,
           Eligible(s, deployed, now, customer, row.evaluation, row.memberships[deployed])
    PROVE  /\ customer.consent /\ customer.onboarded
           /\ Member(s, deployed, now, row.views, row.carts, Completed(row))
<1>1. row.evaluation.at # NoTime /\ row.evaluation.version = deployed
  BY DEF Eligible, Status
<1>2. /\ row.memberships[deployed].member[s]
      /\ ~Expired(s, now, row.memberships[deployed])
      /\ customer.consent /\ customer.onboarded
  BY DEF Eligible, Consents
<1> QED
  BY <1>1, <1>2 DEF Evaluated

\* A targeting response is of one snapshot: whom it calls eligible had consented and
\* matched in the state its served_at names, though it was read in two queries.
THEOREM ResponsesAreOneSnapshot == Spec => []ResponseIsOneSnapshot
<1>1. SegInv => ResponseIsOneSnapshot
  <2> SUFFICES ASSUME SegInv, NEW r \in Readers, NEW s \in Segments, read[r].pc = "done",
                      Eligible(s, deployed, read[r].served, read[r].customer, read[r].row.evaluation,
                               read[r].membership)
               PROVE  /\ read[r].customer.consent
                      /\ Member(s, deployed, read[r].served, read[r].row.views, read[r].row.carts,
                                Completed(read[r].row))
    BY DEF ResponseIsOneSnapshot
  <2>1. read[r] # NoRead
    BY DEF NoRead
  <2>2. /\ read[r].served \in Nat /\ IsRow(read[r].row) /\ Evaluated(read[r].row, read[r].served)
        /\ read[r].membership = read[r].row.memberships[deployed]
    BY <2>1 DEF SegInv, Typed, Read, ReadsRight
  <2> QED
    BY <2>2, EligibleMatches
<1> QED
  BY <1>1, SegmentsInvariant, PTL

\* The views stored that count are those among the customer's events that do, unless
\* a shorter window has pruned some: event identifiers are unique.
LEMMA ViewsCount ==
    ASSUME SegInv, NEW u \in Users,
           NEW stored, stored = Current(deployed, clock, db[u].views),
           NEW counted, counted = Current(deployed, clock, TrueViews(u))
    PROVE  /\ Cardinality(stored) \in Nat /\ Cardinality(counted) \in Nat
           /\ Cardinality(stored) <= Cardinality(counted)
           /\ (\A v \in Versions : Window[v] >= Window[deployed])
                 => Cardinality(counted) <= Cardinality(stored)
<1>1. /\ Faithful(db[u], History(u), clock) /\ IsFiniteSet(db[u].views) /\ db[u].views \in SUBSET View
      /\ TrueViews(u) = ViewEvents(History(u)) /\ TrueViews(u) \in SUBSET Events
      /\ clock \in Nat /\ deployed \in Versions /\ IsFiniteSet(Events) /\ Events \subseteq Event
  <2>1. Right(db[u], History(u)) /\ clock \in 1 .. Horizon /\ deployed \in Versions /\ applied \in SUBSET Events
    BY DEF SegInv, Typed, RowsRight
  <2>2. TrueViews(u) = ViewEvents(History(u)) /\ TrueViews(u) \in SUBSET Events
    BY <2>1 DEF TrueViews, ViewEvents, History
  <2>3. IsFiniteSet(Events) /\ Events \subseteq Event /\ Horizon \in Nat
    BY SegmentsAssumption
  <2>4. IsRow(db[u]) /\ Faithful(db[u], History(u), clock)
    BY <2>1 DEF Right
  <2> QED
    BY <2>1, <2>2, <2>3, <2>4 DEF IsRow, Row
<1>2. IsFiniteSet(stored) /\ IsFiniteSet(counted) /\ counted \subseteq TrueViews(u)
  <2>1. stored \subseteq db[u].views /\ counted \subseteq Events /\ counted \subseteq TrueViews(u)
    BY <1>1 DEF Current
  <2> QED
    BY <1>1, <2>1, FS_Subset
<1>3. \A e \in TrueViews(u) : /\ ViewOf(e).at = e.at /\ e.at \in Nat /\ ViewOf(e) \in View
                              /\ ViewOf(e) \in stored <=> ViewOf(e) \in db[u].views /\ e \in counted
  BY <1>1 DEF Current, ViewOf, Event, View
<1>4. Cardinality(stored) <= Cardinality(counted)
  <2> DEFINE f == [x \in stored |-> CHOOSE e \in counted : x = ViewOf(e)]
  <2>1. ASSUME NEW x \in stored
        PROVE  \E e \in counted : x = ViewOf(e)
    <3>1. PICK e \in TrueViews(u) : x = ViewOf(e)
      BY <1>1 DEF Faithful, Current
    <3> QED
      BY <1>3, <3>1
  <2>2. \A x \in stored : f[x] \in counted /\ x = ViewOf(f[x])
    BY <2>1
  <2> HIDE DEF f
  <2>3. f \in Injection(stored, counted)
    <3>1. f \in [stored -> counted]
      BY <2>2 DEF f
    <3> QED
      BY <2>2, <3>1 DEF Injection, IsInjective
  <2> QED
    BY <1>2, <2>3, FS_Injection
<1>5. ASSUME \A v \in Versions : Window[v] >= Window[deployed]
      PROVE  Cardinality(counted) <= Cardinality(stored)
  <2> DEFINE f == [e \in counted |-> ViewOf(e)]
  <2>1. ASSUME NEW e \in counted
        PROVE  ViewOf(e) \in stored
    <3>1. e \in TrueViews(u) /\ clock - Window[deployed] < e.at
      BY <1>2 DEF Current
    <3>2. \A v \in Versions : ~(e.at <= clock - Window[v])
      BY <1>1, <1>3, <1>5, <3>1, SettingsNat
    <3> QED
      BY <1>1, <1>3, <3>1, <3>2 DEF Faithful
  <2>2. \A d, e \in counted : ViewOf(d) = ViewOf(e) => d = e
    <3>1. \A d, e \in counted : ViewOf(d) = ViewOf(e) => d.id = e.id
      BY DEF ViewOf
    <3> QED
      BY <1>1, <1>2, <3>1, SegmentsAssumption
  <2>3. f \in Injection(counted, stored)
    BY <2>1, <2>2 DEF Injection, IsInjective
  <2> HIDE DEF f
  <2> QED
    BY <1>2, <2>3, FS_Injection
<1> QED
  BY <1>2, <1>4, <1>5, FS_CardinalityType

\* The orders that count are those the customer's events complete.
LEMMA OrdersCount ==
    ASSUME SegInv, NEW u \in Users
    PROVE  Completed(db[u]) =
              Cardinality({e.order : e \in {f \in History(u) : f.name = "order_completed"}})
<1>1. Faithful(db[u], History(u), clock) /\ \A e \in History(u) : e.order \in Orders
  BY SegmentsAssumption DEF SegInv, Typed, RowsRight, Right, History, Event
<1>2. {o \in Orders : db[u].facts[o] # NoFact}
         = {e.order : e \in {f \in History(u) : f.name = "order_completed"}}
  BY <1>1 DEF Faithful, OrderEvents
<1> QED
  BY <1>2 DEF Completed

\* A cart is abandoned exactly when its row says so.
LEMMA CartsCount ==
    ASSUME SegInv, NEW u \in Users
    PROVE  Abandoned(deployed, clock, db[u].carts) # {} <=> Truly("abandoned_cart", deployed, u, clock)
<1>1. /\ Faithful(db[u], History(u), clock) /\ db[u].carts \in [Carts -> CartRow(Nat)]
  BY DEF SegInv, RowsRight, Right, IsRow, Row
<1>2. ASSUME NEW k \in Carts
      PROVE  k \in Abandoned(deployed, clock, db[u].carts) <=>
                /\ db[u].carts[k].add # NoTime
                /\ db[u].carts[k].add + AbandonDelay[deployed] <= clock
                /\ \A o \in Orders : db[u].facts[o].cart # k
  BY <1>1 DEF Abandoned, Unresolved, Faithful
<1>3. Abandoned(deployed, clock, db[u].carts) \subseteq Carts
  BY <1>1 DEF Abandoned, Unresolved
<1> QED
  BY <1>2, <1>3 DEF Truly

\* Whoever is served as eligible has consented, is onboarded, and does match the
\* segment at that time, by the committed events, even when the evaluation is overdue
\* (targeting_response: an expired browser or a resolved cart is never targeted).
THEOREM EligibleAreTrue == Spec => []EligibleIsTrue
<1>1. SegInv => EligibleIsTrue
  <2> SUFFICES ASSUME SegInv, NEW u \in Users, NEW s \in Segments,
                      Eligible(s, deployed, clock, customers[u], db[u].evaluation,
                               db[u].memberships[deployed])
               PROVE  /\ customers[u].consent /\ customers[u].onboarded
                      /\ Truly(s, deployed, u, clock)
    BY DEF EligibleIsTrue
  <2>1. clock \in Nat /\ IsRow(db[u]) /\ Evaluated(db[u], clock)
    BY DEF SegInv, Typed, RowsRight, Right
  <2>2. /\ customers[u].consent /\ customers[u].onboarded
        /\ Member(s, deployed, clock, db[u].views, db[u].carts, Completed(db[u]))
    BY <2>1, EligibleMatches
  <2>3. CASE s = "active_browser"
    <3>1. Cardinality(Current(deployed, clock, db[u].views)) >= MinViews /\ MinViews \in Nat
      BY <2>2, <2>3, SettingsAssumption DEF Member
    <3>2. Cardinality(Current(deployed, clock, TrueViews(u))) >= MinViews
      BY <3>1, ViewsCount
    <3> QED
      BY <2>2, <2>3, <3>2 DEF Truly
  <2>4. CASE s = "abandoned_cart"
    BY <2>2, <2>4, CartsCount DEF Member
  <2>5. CASE s = "repeat_customer"
    BY <2>2, <2>5, OrdersCount DEF Member, Truly
  <2> QED
    BY <2>3, <2>4, <2>5 DEF Segments
<1> QED
  BY <1>1, SegmentsInvariant, PTL

\* Until the next evaluation is due nobody who matches is missed: what is pruned takes
\* nothing that still counts, unless a version with a shorter window was deployed.
THEOREM NobodyMissed == Spec => []NobodyIsMissed
<1>1. SegInv => NobodyIsMissed
  <2> SUFFICES ASSUME SegInv, NEW u \in Users, NEW s \in Segments,
                      Status(deployed, clock, db[u].evaluation, db[u].memberships[deployed]) # "unevaluated",
                      clock < db[u].evaluation.next, Truly(s, deployed, u, clock),
                      s = "active_browser" => \A v \in Versions : Window[v] >= Window[deployed]
               PROVE  db[u].memberships[deployed].member[s]
    BY DEF NobodyIsMissed
  <2>1. /\ clock \in Nat /\ db[u].evaluation.at # NoTime /\ db[u].evaluation.version = deployed
        /\ Evaluated(db[u], clock)
    BY DEF SegInv, Typed, RowsRight, Right, Status
  <2>2. db[u].memberships[deployed].member[s] =
           Member(s, deployed, clock, db[u].views, db[u].carts, Completed(db[u]))
    BY <2>1 DEF Evaluated
  <2>3. CASE s = "active_browser"
    <3>1. Cardinality(Current(deployed, clock, TrueViews(u))) >= MinViews /\ MinViews \in Nat
      BY <2>3, SettingsAssumption DEF Truly
    <3>2. Cardinality(Current(deployed, clock, db[u].views)) >= MinViews
      BY <2>3, <3>1, ViewsCount
    <3> QED
      BY <2>2, <2>3, <3>2 DEF Member
  <2>4. CASE s = "abandoned_cart"
    BY <2>2, <2>4, CartsCount DEF Member
  <2>5. CASE s = "repeat_customer"
    BY <2>2, <2>5, OrdersCount DEF Member, Truly
  <2> QED
    BY <2>3, <2>4, <2>5 DEF Segments
<1> QED
  BY <1>1, SegmentsInvariant, PTL
=============================================================================
