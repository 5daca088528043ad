---------------------------- MODULE Investigation ----------------------------
(***************************************************************************)
(* The DataLens assistant: investigations of payment revenue              *)
(* (datalens/workflow.py, investigation.py, evidence.py, retrieval.py,     *)
(* api.py).  A request takes one of a few slots or is turned away; it     *)
(* reads the database query by query in one REPEATABLE READ snapshot while *)
(* the pipeline goes on writing, asks the hosted model once, validates     *)
(* what it proposes against the evidence and gives the slot back.          *)
(***************************************************************************)
EXTENDS Integers, Sequences, FiniteSets, SequencesExt

CONSTANTS
    Clients,
    MaxSlots,      \* SLOTS
    Windows,       \* starts of windows in the range, integers
    Lengths,       \* window lengths found in the table, integers
    Asked,         \* window_seconds of the request
    MaxCount,      \* bound: payments of a window
    Causes,
    Runbooks,      \* excerpts that retrieval can find
    SampleLimit,   \* rows shown to the model
    QualityLimit,  \* quality results shown to the model
    RefLimit,      \* refs of one observation
    MaxRows,       \* rows a comparison may have
    Assessments,   \* what the model may come up with: sequences of hypotheses
    Contents,      \* what the tables may hold at first
    MaxWrites      \* bound: writes of the pipeline

ASSUME InvestigationAssumption ==
    /\ Windows \subseteq Int /\ Lengths \subseteq Int /\ IsFiniteSet(Windows) /\ IsFiniteSet(Lengths)
    /\ Asked \in Lengths
    /\ {MaxSlots, SampleLimit, RefLimit, MaxRows} \subseteq Nat \ {0}
    /\ {MaxCount, QualityLimit, MaxWrites} \subseteq Nat

Ref == {<<"scope">>, <<"metric_definition">>, <<"dependencies">>, <<"comparison">>,
        <<"current_payment_freshness">>, <<"historical_quality">>}
       \cup ({"row", "quality"} \X Nat) \cup ({"runbook"} \X Runbooks)

VARIABLES
    db,       \* the tables: audit, stored and quality
    past,     \* every content the tables have had
    slots,    \* permits left
    client    \* per client, its request

invVars == <<db, past, slots, client>>

\* audit: payments of a window in processed_events; stored: payment_count of a
\* row of payment_revenue_windows, 0 for no row; quality: results in the range.
Database == [audit : [Windows -> 0 .. MaxCount], stored : [Windows \X Lengths -> 0 .. MaxCount],
             quality : Nat]

\* A hypothesis of the model: refs it was shown or made up, one repeated or none.
Hypothesis == [cause : Causes, refs : (SUBSET Ref) \ {{}}, repeated : BOOLEAN]

ASSUME ContentsAssumption == Contents \subseteq Database /\ Assessments \subseteq Seq(Hypothesis)

-----------------------------------------------------------------------------
(* The comparison, its findings and what may be cited.                     *)

\* The full outer join of the audit's windows with the stored rows, in order of
\* start and end; size 0 is a window that has no stored row.
Joined(d) ==
    LET sizes(w) == {z \in Lengths : d.stored[w, z] > 0}
        rows == UNION {IF sizes(w) # {} THEN {w} \X sizes(w)
                       ELSE IF d.audit[w] > 0 THEN {<<w, 0>>} ELSE {} : w \in Windows}
    IN  SetToSortSeq(rows, LAMBDA r, s : r[1] < s[1] \/ (r[1] = s[1] /\ r[2] < s[2]))

FindingOf(d, row) ==
    CASE row[2] = 0 -> "missing_aggregate"
      [] row[2] \notin {0, Asked} -> "incompatible_window_configuration"
      [] row[2] = Asked /\ d.audit[row[1]] = 0 -> "aggregate_without_audit"
      [] row[2] = Asked /\ d.audit[row[1]] > 0 ->
            IF d.audit[row[1]] # d.stored[row] THEN "mismatch" ELSE "match"

\* compare_revenue: a finding per row.
Comparison(d) ==
    LET rows == Joined(d) IN [i \in DOMAIN rows |-> FindingOf(d, rows[i])]

Discrepancies(rows) == {i \in DOMAIN rows : rows[i] # "match"}

\* status of EvidenceService.investigate.
StatusOf(rows) ==
    IF rows = <<>> THEN "insufficient_evidence"
    ELSE IF Discrepancies(rows) = {} THEN "no_discrepancy_found" ELSE "discrepancy"

RowRef(i) == <<"row", i>>
First(set, n) == {i \in set : Cardinality({j \in set : j < i}) < n}
Min2(a, b) == IF a < b THEN a ELSE b

\* The rows shown in detail: of those that differ, or else of all, the first.
Sample(rows) ==
    First(IF Discrepancies(rows) # {} THEN Discrepancies(rows) ELSE DOMAIN rows, SampleLimit)

General == {<<"scope">>, <<"metric_definition">>, <<"dependencies">>, <<"comparison">>,
            <<"current_payment_freshness">>, <<"historical_quality">>}

\* retrieve: the refs put before the model.
Retrieved(rows, quality, found) ==
    General \cup {RowRef(i) : i \in Sample(rows)}
            \cup {<<"quality", i>> : i \in 1 .. Min2(quality, QualityLimit)}
            \cup {<<"runbook", b>> : b \in found}

\* The rows an observation of one finding cites: all of them, or the comparison
\* and the first of them when they are many.
RefsOf(rows, code) ==
    LET all == {i \in DOMAIN rows : rows[i] = code}
    IN  IF Cardinality(all) > RefLimit
        THEN {<<"comparison">>} \cup {RowRef(i) : i \in First(all, RefLimit - 1)}
        ELSE {RowRef(i) : i \in all}

\* findings of investigate, as the sets of refs of their observations.
Observations(rows, quality, truncated) ==
    {RefsOf(rows, rows[i]) : i \in Discrepancies(rows)}
    \cup (IF StatusOf(rows) # "discrepancy" THEN {{<<"comparison">>}} ELSE {})
    \cup (IF quality = 0 \/ truncated THEN {{<<"historical_quality">>}} ELSE {})

\* Mistake: only what the model was shown is in the report's citations.
Mistake_Citations(rows, quality, truncated, found) == Retrieved(rows, quality, found)

\* validate: rows cited by an observation that the sample left out are added.
Citations(rows, quality, truncated, found) ==
    Retrieved(rows, quality, found) \cup
    {ref \in UNION Observations(rows, quality, truncated) : ref[1] = "row"}

\* valid, observed and runbook of validate.
Supported(h, retrieved) ==
    /\ ~h.repeated /\ h.refs \subseteq retrieved
    /\ \E ref \in h.refs : ref[1] \in {"comparison", "row", "quality"}
    /\ \E ref \in h.refs : ref[1] = "runbook"

\* All hypotheses are accepted, or none.
Accepted(hypotheses, rows, retrieved) ==
    /\ \A k \in DOMAIN hypotheses : Supported(hypotheses[k], retrieved)
    /\ \A j, k \in DOMAIN hypotheses :
          j # k => hypotheses[j].cause # hypotheses[k].cause
    /\ hypotheses # <<>> => StatusOf(rows) = "discrepancy"

-----------------------------------------------------------------------------
Steps == {"idle", "collect", "compare", "measure", "assess", "answered", "refused"}
Idle == [pc |-> "idle"]

InvType ==
    /\ db \in Database /\ past \subseteq Database
    /\ slots \in 0 .. MaxSlots
    /\ \A c \in Clients : client[c].pc \in Steps

InvInit ==
    /\ db \in Contents
    /\ past = {db}
    /\ slots = MaxSlots
    /\ client = [c \in Clients |-> Idle]

\* The payments job and the observers write on: a payment is audited, a window
\* is upserted with one payment more, a quality result is written.
Write(d) ==
    /\ Cardinality(past) <= MaxWrites
    /\ db' = d
    /\ past' = past \cup {d}
    /\ UNCHANGED <<slots, client>>

MoreIn(table, key) == [table EXCEPT ![key] = @ + 1]

PipelineWrites ==
    \/ \E w \in Windows :
          \/ db.audit[w] < MaxCount /\ Write([db EXCEPT !.audit = MoreIn(@, w)])
          \/ /\ db.stored[w, Asked] < MaxCount
             /\ Write([db EXCEPT !.stored = MoreIn(@, <<w, Asked>>)])
    \/ Write([db EXCEPT !.quality = @ + 1])

\* SLOTS.acquire(blocking=False)
Arrive(c) ==
    /\ client[c].pc \in {"idle", "answered", "refused"}
    /\ IF slots = 0
       THEN client' = [client EXCEPT ![c] = [pc |-> "refused"]] /\ UNCHANGED slots
       ELSE client' = [client EXCEPT ![c] = [pc |-> "collect"]] /\ slots' = slots - 1
    /\ UNCHANGED <<db, past>>

\* The catalogue is the first query: it fixes the snapshot.
Collect(c) ==
    /\ client[c].pc = "collect"
    /\ client' = [client EXCEPT ![c] = [pc |-> "compare", snapshot |-> db]]
    /\ UNCHANGED <<db, past, slots>>

\* Mistake: each query reads what is committed by then.
Mistake_Seen(c) == db

\* What a later query of the transaction sees.
Seen(c) == client[c].snapshot

Compare(c) ==
    /\ client[c].pc = "compare"
    /\ Len(Joined(Seen(c))) <= MaxRows
    /\ client' = [client EXCEPT ![c] =
            [pc |-> "measure", snapshot |-> client[c].snapshot, rows |-> Comparison(Seen(c))]]
    /\ UNCHANGED <<db, past, slots>>

\* Freshness and quality history; the connection is closed after them.
Measure(c) ==
    /\ client[c].pc = "measure"
    /\ client' = [client EXCEPT ![c] =
            [pc |-> "assess", rows |-> client[c].rows, quality |-> Seen(c).quality]]
    /\ UNCHANGED <<db, past, slots>>

\* What validate makes of a completed assessment.
Outcome(proposed, rows, retrieved) ==
    IF Accepted(proposed, rows, retrieved)
    THEN [status |-> "completed",
          causes |-> {<<proposed[k].cause, proposed[k].refs>> : k \in DOMAIN proposed}]
    ELSE [status |-> "invalid_output", causes |-> {}]

\* No model, too long a payload, no answer or not one of the required form.
Unassessed == [status : {"unconfigured", "budget_exceeded", "unavailable", "invalid_output"},
               causes : {{}}]

\* Retrieval, at most one call of the model, validation; then the slot is free.
Assess(c) ==
    LET r == client[c]
        outcomes(found) ==
            LET retrieved == Retrieved(r.rows, r.quality, found)
            IN  Unassessed \cup {Outcome(p, r.rows, retrieved) : p \in Assessments}
    IN  /\ r.pc = "assess"
        /\ \E found \in SUBSET Runbooks, truncated \in {FALSE, r.quality > 0} :
              \E outcome \in outcomes(found) :
                 client' = [client EXCEPT ![c] =
                    [pc |-> "answered", rows |-> r.rows, quality |-> r.quality,
                     observations |-> Observations(r.rows, r.quality, truncated),
                     citations |-> Citations(r.rows, r.quality, truncated, found),
                     status |-> outcome.status, causes |-> outcome.causes]]
        /\ slots' = slots + 1
        /\ UNCHANGED <<db, past>>

\* Mistake: an error leaves the slot taken.
Mistake_Released == slots

\* finally: SLOTS.release()
Released == slots + 1

\* A database error, an unknown metric, a range that is refused or too wide; or
\* retrieval, the model or the validation raises an error of its own.
Fail(c) ==
    /\ client[c].pc \in {"collect", "compare", "measure", "assess"}
    /\ client' = [client EXCEPT ![c] = [pc |-> "refused"]]
    /\ slots' = Released
    /\ UNCHANGED <<db, past>>

InvestigateStep(c) == Collect(c) \/ Compare(c) \/ Measure(c) \/ Assess(c) \/ Fail(c)

InvNext == PipelineWrites \/ \E c \in Clients : Arrive(c) \/ InvestigateStep(c)

InvSpec == InvInit /\ [][InvNext]_invVars

\* Statements and the model's call have timeouts.
InvFairness == \A c \in Clients : WF_invVars(InvestigateStep(c))

-----------------------------------------------------------------------------
(* Properties.                                                             *)

\* A report's comparison and quality history are of one instant of the database,
\* although the pipeline wrote between the queries.
ReportIsOneInstant ==
    \A c \in Clients : client[c].pc = "answered" =>
        \E d \in past : client[c].rows = Comparison(d) /\ client[c].quality = d.quality

\* Every ref of every observation and of every suspected cause is a citation of
\* the report, however many rows the model's sample left out.
EveryRefResolves ==
    \A c \in Clients : client[c].pc = "answered" =>
        /\ UNION client[c].observations \subseteq client[c].citations
        /\ \A cause \in client[c].causes : cause[2] \subseteq client[c].citations

IsObservation(ref, rows) ==
    ref[1] \in {"comparison", "quality"} \/ (ref[1] = "row" /\ ref[2] \in DOMAIN rows)

Justified(outcome, rows) ==
    /\ outcome.causes # {} => outcome.status = "completed" /\ Discrepancies(rows) # {}
    /\ \A x \in outcome.causes :
          /\ \E ref \in x[2] : IsObservation(ref, rows)
          /\ \E b \in Runbooks : <<"runbook", b>> \in x[2]
          /\ \A y \in outcome.causes : x[1] = y[1] => x = y

\* A cause is suspected only where the data disagrees, once, and on an observation
\* and a runbook; otherwise the model's answer is not accepted at all.
CausesAreSupported ==
    \A c \in Clients : client[c].pc = "answered" => Justified(client[c], client[c].rows)

\* A request that was let in is answered or refused in the end, and so a slot is
\* free again and again.
SlotsComeBack == []<>(slots > 0)
=============================================================================
