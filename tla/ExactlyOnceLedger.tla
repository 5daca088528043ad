-------------------------- MODULE ExactlyOnceLedger --------------------------
(***************************************************************************)
(* What the profile ledger promises to whoever reads a customer profile,   *)
(* with neither job, session, checkpoint nor failure in sight: the records *)
(* of a partition are settled one after the other, each exactly once, for  *)
(* a reason that exists, and a record that is applied adds exactly one     *)
(* contribution to its customer.                                           *)
(***************************************************************************)
EXTENDS Integers

CONSTANTS Partitions, Users, EventIds, Events, Invalid, MaxLog, None

VARIABLES
    settled,   \* the payload and the outcome of each settled coordinate
    effects,   \* contributions a customer's behaviour consists of
    retained   \* ids that cannot contribute again for now

vars == <<settled, effects, retained>>

Coordinates == Partitions \X (0 .. (MaxLog - 1))

Init ==
    /\ settled = [c \in Coordinates |-> [payload |-> Invalid, outcome |-> None]]
    /\ effects = [u \in Users |-> 0]
    /\ retained = [e \in EventIds |-> FALSE]

IsNext(p, n) ==
    /\ settled[<<p, n>>].outcome = None
    /\ \A m \in 0 .. (n - 1) : settled[<<p, m>>].outcome # None

Settle(p, n, r, outcome) ==
    /\ IsNext(p, n)
    /\ settled' = [settled EXCEPT ![<<p, n>>] = [payload |-> r, outcome |-> outcome]]

\* Some applied record has r's id and a body that is, or is not, r.
Witness(r, same) ==
    \E d \in Coordinates :
        /\ settled[d].outcome = "applied"
        /\ settled[d].payload.id = r.id
        /\ (settled[d].payload = r) = same

Refuse(p, n) ==
    /\ \/ Settle(p, n, Invalid, "invalid")
       \/ \E r \in Events : Settle(p, n, r, "duplicate") /\ Witness(r, TRUE)
       \/ \E r \in Events : Settle(p, n, r, "conflict") /\ Witness(r, FALSE)
    /\ UNCHANGED <<effects, retained>>

Contribute(p, n, r) ==
    /\ ~retained[r.id]
    /\ Settle(p, n, r, "applied")
    /\ effects' = [effects EXCEPT ![r.user] = @ + 1]
    /\ retained' = [retained EXCEPT ![r.id] = TRUE]

Forget(e) ==
    /\ retained[e]
    /\ retained' = [retained EXCEPT ![e] = FALSE]
    /\ UNCHANGED <<settled, effects>>

Next ==
    \/ \E p \in Partitions, n \in 0 .. (MaxLog - 1) : Refuse(p, n)
    \/ \E p \in Partitions, n \in 0 .. (MaxLog - 1), r \in Events : Contribute(p, n, r)
    \/ \E e \in EventIds : Forget(e)

Spec == Init /\ [][Next]_vars
=============================================================================
