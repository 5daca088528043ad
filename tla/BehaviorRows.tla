----------------------------- MODULE BehaviorRows -----------------------------
(***************************************************************************)
(* The rows a committed event contributes to a customer's behaviour, as    *)
(* pure operators: journeypulse/segments.py, record_behavior, and the SQL  *)
(* aggregates it relies on.  Times are positive integers and NoTime is     *)
(* SQL's NULL, which GREATEST and LEAST ignore.                            *)
(***************************************************************************)
EXTENDS Integers

NoTime == 0

EventNames == {"session_started", "restaurant_view", "add_to_cart",
               "checkout_started", "order_completed"}

\* Mistake: the last write wins.
Mistake_Greatest(a, b) == b

\* GREATEST(a, b): the later time, NULLs ignored.
Greatest(a, b) == IF a >= b THEN a ELSE b

\* LEAST(a, b): the earlier time, NULLs ignored.
Least(a, b) == IF a = NoTime \/ (b # NoTime /\ b <= a) THEN b ELSE a

\* A row of journeypulse.carts before anything was recorded in it.
NoCartRow == [add |-> NoTime, checkout |-> NoTime, done |-> NoTime]

CartRow(Times) ==
    [add: Times \cup {NoTime}, checkout: Times \cup {NoTime}, done: Times \cup {NoTime}]

\* Mistake: the cart an order_completed names is resolved, whatever its order's
\* first facts say.
Mistake_RecordCarts(rows, e, facts) ==
    CASE e.name = "add_to_cart" ->
           [rows EXCEPT ![e.cart].add = Greatest(@, e.at)]
      [] e.name = "checkout_started" ->
           [rows EXCEPT ![e.cart].checkout = Greatest(@, e.at)]
      [] e.name = "order_completed" ->
           [rows EXCEPT ![e.cart].done = Least(@, e.at)]
      [] OTHER -> rows

\* What record_behavior upserts into a customer's carts for event e: an
\* order_completed resolves the cart of the FIRST facts of its order (the
\* SELECT from completed_orders), not the cart the event itself names.
RecordCarts(rows, e, facts) ==
    CASE e.name = "add_to_cart" ->
           [rows EXCEPT ![e.cart].add = Greatest(@, e.at)]
      [] e.name = "checkout_started" ->
           [rows EXCEPT ![e.cart].checkout = Greatest(@, e.at)]
      [] e.name = "order_completed" ->
           [rows EXCEPT ![facts[e.order].cart].done = Least(@, facts[e.order].at)]
      [] OTHER -> rows
=============================================================================
