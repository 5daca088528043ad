----------------------------- MODULE MCSegments -----------------------------
(***************************************************************************)
(* Small instances of Segments: windows and delays of two ticks, two views *)
(* for an active browser and two orders for a repeat customer.             *)
(***************************************************************************)
EXTENDS Segments, TLC

CONSTANTS u1, u2, k1, k2, o1, o2

Of(id, u, name, at, k, o) ==
    [id |-> id, user |-> u, name |-> name, at |-> at, cart |-> k, order |-> o]

OneVersion == [v \in Versions |-> 2]

\* Version 2 looks back and waits one tick longer than version 1.
TwoVersions == [v \in Versions |-> v + 1]

\* Late, current and future views; adds around a completion that comes before
\* or after them; a checkout; two orders on one cart.
JourneyEvents ==
    {Of(1, u1, "restaurant_view", 1, k1, o1), Of(2, u1, "restaurant_view", 2, k1, o1),
     Of(3, u1, "restaurant_view", 4, k1, o1), Of(4, u1, "add_to_cart", 1, k1, o1),
     Of(5, u1, "add_to_cart", 3, k1, o1), Of(6, u1, "order_completed", 2, k1, o1),
     Of(7, u1, "order_completed", 1, k2, o2), Of(8, u1, "order_completed", 3, k2, o1)}

TwoCustomers ==
    {Of(1, u1, "restaurant_view", 1, k1, o1), Of(2, u1, "restaurant_view", 2, k1, o1),
     Of(3, u2, "add_to_cart", 1, k1, o1)}

Browsing ==
    {Of(1, u1, "restaurant_view", 1, k1, o1), Of(2, u1, "restaurant_view", 2, k1, o1),
     Of(3, u1, "restaurant_view", 2, k1, o1)}
=============================================================================
