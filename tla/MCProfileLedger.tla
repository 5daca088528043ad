--------------------------- MODULE MCProfileLedger ---------------------------
(***************************************************************************)
(* Small instances of ProfileLedger.                                       *)
(***************************************************************************)
EXTENDS ProfileLedger, TLC

CONSTANTS p1, p2, u1, u2, s1, s2, s3, o1, k1, k2

Add(id, u, at, k) ==
    [id |-> id, user |-> u, name |-> "add_to_cart", at |-> at, cart |-> k, order |-> o1]
Completed(id, u, at, k) ==
    [id |-> id, user |-> u, name |-> "order_completed", at |-> at, cart |-> k, order |-> o1]
View(id, u, at) ==
    [id |-> id, user |-> u, name |-> "restaurant_view", at |-> at, cart |-> k1, order |-> o1]

\* Each user's key goes to a partition of its own.
KeyedPartition == [u \in Users |-> IF u = u1 THEN p1 ELSE p2]

\* One partition: an add, two notifications of one order that name different
\* carts, one under the id of the add.
OrderEvents == {Add("a", u1, 2, k1), Completed("b", u1, 1, k1), Completed("a", u1, 2, k2)}

\* Two partitions: an id shared by two users. What is published after the topic
\* is recreated may or may not equal what was there before.
SharedEvents == {View("a", u1, 1), Add("a", u2, 2, k1)}

Symmetry == Permutations(Sessions)
=============================================================================
