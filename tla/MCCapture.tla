------------------------------ MODULE MCCapture ------------------------------
(***************************************************************************)
(* Small instances of Capture: batches of two, an event too large for an   *)
(* unload request.                                                         *)
(***************************************************************************)
EXTENDS Capture, TLC

CONSTANTS e1, e2, r1, r2

Weights == [i \in Ids |-> IF i = e2 THEN 3 ELSE 1]

Symmetry == Permutations(Requests)
=============================================================================
