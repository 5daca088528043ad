----------------------------- MODULE MCEvidence -----------------------------
(***************************************************************************)
(* Instance of the tools that keep and examine evidence of the payments    *)
(* pipeline, for model checking.  The assistant's investigations, the      *)
(* lakehouse reconciliation, the replay, the source observer and the       *)
(* recovery drill share no state in these models, so one run checks their  *)
(* disjoint sum: an initial state chooses one of them and the others stay  *)
(* as they are.                                                            *)
(***************************************************************************)
EXTENDS Investigation, Reconciliation, Replay, Observer, RecoveryDrill, TLC

CONSTANTS analyst, auditor, late, lost, first, second, id1, id2, good, bad

VARIABLE part

allVars == <<part, invVars, reconcileVars, replayVars, observerVars, drillVars>>

-----------------------------------------------------------------------------
(* Investigation.                                                          *)

\* Counts of the two windows: audited, stored in the length asked for, and
\* stored in another length, and quality results.
Tables(audited, asked, other, checks) ==
    [audit |-> audited,
     stored |-> [p \in Windows \X Lengths |-> IF p[2] = Asked THEN asked[p[1]] ELSE other[p[1]]],
     quality |-> checks]

\* Nothing, where the writes can make one row that agrees; two rows that differ;
\* one of every kind.
Tabled ==
    {Tables(<<0, 0>>, <<0, 0>>, <<0, 0>>, 0), Tables(<<2, 2>>, <<1, 1>>, <<0, 0>>, 0),
     Tables(<<2, 1>>, <<1, 0>>, <<1, 0>>, 1)}

Suspect(cause, refs) == [cause |-> cause, refs |-> refs, repeated |-> FALSE]
compared == <<"comparison">>
manual == <<"runbook", "book">>

\* What a model may answer: nothing, causes that are supported, and one that
\* is named twice, cites what was not retrieved, too little, or a ref twice.
Answers ==
    {<<>>,
     <<Suspect(late, {compared, manual}), Suspect(lost, {compared, manual, RowRef(1)})>>,
     <<Suspect(late, {compared, manual}), Suspect(late, {compared, manual, RowRef(1)})>>,
     <<Suspect(late, {compared, manual}), Suspect(lost, {compared, manual, RowRef(9)})>>,
     <<Suspect(late, {compared})>>, <<Suspect(lost, {<<"scope">>, manual})>>,
     <<[Suspect(lost, {compared, manual}) EXCEPT !.repeated = TRUE]>>}

-----------------------------------------------------------------------------
(* Reconciliation: two deliveries of one id conflict.                      *)

Payments == {[id |-> id1, at |-> 0], [id |-> id2, at |-> 1], [id |-> id2, at |-> 0]}

-----------------------------------------------------------------------------
(* Recovery drill: a record that is valid, the same again, and one that is *)
(* not.                                                                    *)

Fixtures == <<good, good, bad>>

-----------------------------------------------------------------------------
Init ==
    /\ part \in {"investigation", "reconciliation", "replay", "observer", "drill"}
    /\ InvInit /\ ReconcileInit /\ ReplayInit /\ ObserverInit /\ DrillInit
    /\ part # "investigation" => db = CHOOSE d \in Contents : TRUE

Next ==
    \/ /\ part = "investigation" /\ InvNext
       /\ UNCHANGED <<part, reconcileVars, replayVars, observerVars, drillVars>>
    \/ /\ part = "reconciliation" /\ ReconcileNext
       /\ UNCHANGED <<part, invVars, replayVars, observerVars, drillVars>>
    \/ /\ part = "replay" /\ ReplayNext
       /\ UNCHANGED <<part, invVars, reconcileVars, observerVars, drillVars>>
    \/ /\ part = "observer" /\ ObserverNext
       /\ UNCHANGED <<part, invVars, reconcileVars, replayVars, drillVars>>
    \/ /\ part = "drill" /\ DrillNext
       /\ UNCHANGED <<part, invVars, reconcileVars, replayVars, observerVars>>

Spec == Init /\ [][Next]_allVars /\ InvFairness
=============================================================================
