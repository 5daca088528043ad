-------------------------- MODULE MCPaymentsPipeline --------------------------
(***************************************************************************)
(* A small instance of PaymentsPipeline: windows of two instants.          *)
(***************************************************************************)
EXTENDS PaymentsPipeline, TLC

CONSTANTS e1, e2, e3

\* Two payments at the first and the last instant of one window, and an event
\* of the next one that closes it.
Times == [e \in Events |-> CASE e = e1 -> 2 [] e = e2 -> 3 [] OTHER -> 5]
Kinds == [e \in Events |-> IF e = e3 THEN "food_order" ELSE "payment"]
=============================================================================
