--------------------------- MODULE EvidenceProofs ---------------------------
(***************************************************************************)
(* Proofs about the assistant's investigations, the lakehouse              *)
(* reconciliation and replay, the source observer and the recovery drill.  *)
(***************************************************************************)
EXTENDS Investigation, Reconciliation, Replay, Observer, RecoveryDrill,
        FiniteSetTheorems, SequenceTheorems, TLAPS

-----------------------------------------------------------------------------
(* The assistant.                                                          *)

\* client is a function of the clients: its records differ from step to step.
ClientsOnly == client = [c \in Clients |-> client[c]]

\* What a request has read is of its snapshot, and its snapshot is of the past.
ReadsOneInstant ==
    \A c \in Clients :
        /\ client[c].pc \in {"compare", "measure"} => client[c].snapshot \in past
        /\ client[c].pc = "measure" => client[c].rows = Comparison(client[c].snapshot)
        /\ client[c].pc \in {"assess", "answered"} =>
              \E d \in past : client[c].rows = Comparison(d) /\ client[c].quality = d.quality

InvInv ==
    ClientsOnly /\ db \in past /\ ReadsOneInstant /\ EveryRefResolves /\ CausesAreSupported

\* Whatever an observation cites and the model was not shown is a row.
LEMMA ObservedRefs ==
    ASSUME NEW lines, NEW quality, NEW truncated,
           NEW ref \in UNION Observations(lines, quality, truncated)
    PROVE  ref[1] = "row" \/ ref \in General
<1>1. PICK refs \in Observations(lines, quality, truncated) : ref \in refs
  OBVIOUS
<1>2. CASE \E i \in Discrepancies(lines) : refs = RefsOf(lines, lines[i])
  BY <1>1, <1>2 DEF RefsOf, RowRef, General
<1>3. CASE refs = {<<"comparison">>} \/ refs = {<<"historical_quality">>}
  BY <1>1, <1>3 DEF General
<1> QED
  BY <1>1, <1>2, <1>3 DEF Observations

\* What was observed can be cited.
LEMMA ObservationsResolve ==
    ASSUME NEW lines, NEW quality, NEW truncated, NEW found
    PROVE  UNION Observations(lines, quality, truncated)
             \subseteq Citations(lines, quality, truncated, found)
BY ObservedRefs DEF Citations, Retrieved

\* A row that was shown is a row of the comparison.
LEMMA RetrievedRows ==
    ASSUME NEW lines, NEW quality, NEW found, NEW ref \in Retrieved(lines, quality, found),
           ref[1] = "row"
    PROVE  ref[2] \in DOMAIN lines
<1>1. ref \notin General /\ ~(\E i \in 1 .. Min2(quality, QualityLimit) : ref = <<"quality", i>>)
      /\ ~(\E b \in found : ref = <<"runbook", b>>)
  BY DEF General
<1>2. PICK i \in Sample(lines) : ref = RowRef(i)
  BY <1>1 DEF Retrieved
<1>3. i \in DOMAIN lines
  BY DEF Sample, First, Discrepancies
<1> QED
  BY <1>2, <1>3 DEF RowRef

\* A runbook that was shown is one there is.
LEMMA RetrievedRunbooks ==
    ASSUME NEW lines, NEW quality, NEW found \in SUBSET Runbooks,
           NEW ref \in Retrieved(lines, quality, found), ref[1] = "runbook"
    PROVE  \E b \in Runbooks : ref = <<"runbook", b>>
<1>1. ref \notin General /\ ~(\E i \in 1 .. Min2(quality, QualityLimit) : ref = <<"quality", i>>)
      /\ ~(\E i \in Sample(lines) : ref = RowRef(i))
  BY DEF General, RowRef
<1> QED
  BY <1>1 DEF Retrieved

\* A ref of the comparison that was shown is one of its observations.
LEMMA ComparisonIsOneRef ==
    ASSUME NEW lines, NEW quality, NEW found, NEW ref \in Retrieved(lines, quality, found),
           ref[1] \in {"comparison", "row", "quality"}
    PROVE  IsObservation(ref, lines)
BY RetrievedRows DEF IsObservation

\* What validate accepts.
LEMMA AcceptedCauses ==
    ASSUME NEW lines, NEW quality, NEW found \in SUBSET Runbooks, NEW p \in Assessments,
           NEW outcome, outcome = Outcome(p, lines, Retrieved(lines, quality, found))
    PROVE  /\ Justified(outcome, lines)
           /\ \A x \in outcome.causes : x[2] \subseteq Retrieved(lines, quality, found)
<1> DEFINE shown == Retrieved(lines, quality, found)
           cause(k) == <<p[k].cause, p[k].refs>>
<1>1. CASE ~Accepted(p, lines, shown)
  BY <1>1 DEF Outcome, Justified
<1>2. CASE Accepted(p, lines, shown)
  <2>1. outcome.status = "completed" /\ outcome.causes = {cause(k) : k \in DOMAIN p}
    BY <1>2 DEF Outcome
  <2>2. ASSUME NEW k \in DOMAIN p
        PROVE  /\ p[k].refs \subseteq shown
               /\ \E ref \in p[k].refs : IsObservation(ref, lines)
               /\ \E b \in Runbooks : <<"runbook", b>> \in p[k].refs
    <3>1. Supported(p[k], shown)
      BY <1>2 DEF Accepted
    <3>2. p[k].refs \subseteq shown
      BY <3>1 DEF Supported
    <3>3. PICK ref \in p[k].refs : ref[1] \in {"comparison", "row", "quality"}
      BY <3>1 DEF Supported
    <3>4. PICK book \in p[k].refs : book[1] = "runbook"
      BY <3>1 DEF Supported
    <3> QED
      BY <3>2, <3>3, <3>4, ComparisonIsOneRef, RetrievedRunbooks
  <2>3. \A j, k \in DOMAIN p : cause(j)[1] = cause(k)[1] => cause(j) = cause(k)
    BY <1>2 DEF Accepted
  <2>4. outcome.causes # {} => Discrepancies(lines) # {}
    <3>1. outcome.causes # {} => DOMAIN p # {}
      BY <2>1
    <3>2. p # <<>> => StatusOf(lines) = "discrepancy"
      BY <1>2 DEF Accepted
    <3>3. p = <<>> => DOMAIN p = {}
      OBVIOUS
    <3> QED
      BY <3>1, <3>2, <3>3 DEF StatusOf
  <2>5. \A k \in DOMAIN p : cause(k)[1] = p[k].cause /\ cause(k)[2] = p[k].refs
    OBVIOUS
  <2> HIDE DEF cause
  <2>6. ASSUME NEW x \in outcome.causes
        PROVE  /\ \E ref \in x[2] : IsObservation(ref, lines)
               /\ \E b \in Runbooks : <<"runbook", b>> \in x[2]
               /\ x[2] \subseteq shown
    <3>1. PICK k \in DOMAIN p : x = cause(k)
      BY <2>1
    <3> QED
      BY <2>2, <2>5, <3>1
  <2>7. \A x, y \in outcome.causes : x[1] = y[1] => x = y
    BY <2>1, <2>3
  <2>8. Justified(outcome, lines)
    BY <2>1, <2>4, <2>6, <2>7 DEF Justified
  <2> QED
    BY <2>6, <2>8
<1> QED
  BY <1>1, <1>2

\* What holds of one request: the conjuncts of InvInv that are about clients.
Sound(r) ==
    /\ r.pc \in {"compare", "measure"} => r.snapshot \in past
    /\ r.pc = "measure" => r.rows = Comparison(r.snapshot)
    /\ r.pc \in {"assess", "answered"} =>
          \E d \in past : r.rows = Comparison(d) /\ r.quality = d.quality
    /\ r.pc = "answered" =>
          /\ UNION r.observations \subseteq r.citations
          /\ \A cause \in r.causes : cause[2] \subseteq r.citations
          /\ Justified(r, r.rows)

\* The invariant is about each request by itself.
LEMMA SoundClients ==
    InvInv <=> ClientsOnly /\ db \in past /\ \A c \in Clients : Sound(client[c])
BY DEF InvInv, ReadsOneInstant, EveryRefResolves, CausesAreSupported, Sound

\* No request has arrived.
LEMMA InvStart == InvInit => InvInv
BY DEF InvInit, InvInv, ClientsOnly, ReadsOneInstant, EveryRefResolves, CausesAreSupported, Idle

\* A step of a request replaces its record by one that is sound.
LEMMA SoundStep ==
    ASSUME InvInv, NEW c \in Clients, NEW r, Sound(r), client' = [client EXCEPT ![c] = r],
           UNCHANGED <<db, past>>
    PROVE  InvInv'
<1>1. ClientsOnly /\ db \in past /\ \A d \in Clients : Sound(client[d])
  BY SoundClients
<1>2. ClientsOnly' /\ \A d \in Clients : client'[d] = IF d = c THEN r ELSE client[d]
  BY <1>1 DEF ClientsOnly
<1>3. \A d \in Clients : Sound(client'[d])
  BY <1>1, <1>2
<1>4. \A d \in Clients : Sound(client[d])'
  BY <1>3 DEF Sound
<1> QED
  BY <1>1, <1>2, <1>4 DEF InvInv, ReadsOneInstant, EveryRefResolves, CausesAreSupported, Sound

\* The pipeline only adds to the past.
LEMMA WritesKeepSound ==
    ASSUME InvInv, PipelineWrites
    PROVE  InvInv'
<1>1. PICK d : db' = d /\ past' = past \cup {d} /\ UNCHANGED client
  BY DEF PipelineWrites, Write
<1> QED
  BY <1>1 DEF InvInv, ClientsOnly, ReadsOneInstant, EveryRefResolves, CausesAreSupported

\* The model is asked, and its answer validated.
LEMMA AssessKeepsSound ==
    ASSUME InvInv, NEW c \in Clients, Assess(c)
    PROVE  InvInv'
<1> DEFINE r == client[c]
<1>1. /\ r.pc = "assess" /\ UNCHANGED <<db, past>>
      /\ \E d \in past : r.rows = Comparison(d) /\ r.quality = d.quality
  BY DEF Assess, InvInv, ReadsOneInstant
<1> DEFINE answer(found, truncated, outcome) ==
        [pc |-> "answered", rows |-> r.rows, quality |-> r.quality,
         observations |-> Observations(r.rows, r.quality, truncated),
         citations |-> Citations(r.rows, r.quality, truncated, found),
         status |-> outcome.status, causes |-> outcome.causes]
<1>2. PICK found \in SUBSET Runbooks, truncated \in {FALSE, r.quality > 0} :
         \E outcome \in Unassessed \cup
                {Outcome(p, r.rows, Retrieved(r.rows, r.quality, found)) : p \in Assessments} :
            client' = [client EXCEPT ![c] = answer(found, truncated, outcome)]
  BY DEF Assess
<1>3. PICK outcome \in Unassessed \cup
                {Outcome(p, r.rows, Retrieved(r.rows, r.quality, found)) : p \in Assessments} :
         client' = [client EXCEPT ![c] = answer(found, truncated, outcome)]
  BY <1>2
<1>4. /\ Justified(outcome, r.rows)
      /\ \A x \in outcome.causes : x[2] \subseteq Retrieved(r.rows, r.quality, found)
  <2>1. CASE outcome \in Unassessed
    BY <2>1 DEF Unassessed, Justified
  <2>2. CASE \E p \in Assessments : outcome = Outcome(p, r.rows, Retrieved(r.rows, r.quality, found))
    BY <2>2, AcceptedCauses
  <2> QED
    BY <1>3, <2>1, <2>2
<1>5. /\ Retrieved(r.rows, r.quality, found) \subseteq Citations(r.rows, r.quality, truncated, found)
      /\ UNION Observations(r.rows, r.quality, truncated)
            \subseteq Citations(r.rows, r.quality, truncated, found)
  BY ObservationsResolve DEF Citations
<1>6. Sound(answer(found, truncated, outcome))
  <2> HIDE DEF r
  <2> QED
    BY <1>1, <1>4, <1>5 DEF Sound, Justified
<1> HIDE DEF answer
<1> QED
  BY <1>1, <1>3, <1>6, SoundStep

\* Every step of a request leaves it sound.
LEMMA RequestsStaySound ==
    ASSUME InvInv, NEW c \in Clients, Arrive(c) \/ InvestigateStep(c)
    PROVE  InvInv'
<1>0. Sound(client[c]) /\ db \in past
  BY SoundClients
<1>1. CASE Arrive(c)
  <2>1. PICK pc \in {"refused", "collect"} : client' = [client EXCEPT ![c] = [pc |-> pc]]
    BY <1>1 DEF Arrive
  <2>2. Sound([pc |-> pc])
    BY DEF Sound
  <2> QED
    BY <1>1, <2>1, <2>2, SoundStep DEF Arrive
<1>2. CASE Collect(c)
  <2>1. Sound([pc |-> "compare", snapshot |-> db])
    BY <1>0 DEF Sound
  <2> QED
    BY <1>2, <2>1, SoundStep DEF Collect
<1>3. CASE Compare(c)
  <2> DEFINE r == [pc |-> "measure", snapshot |-> client[c].snapshot,
                   rows |-> Comparison(client[c].snapshot)]
  <2>1. client[c].snapshot \in past
    BY <1>0, <1>3 DEF Sound, Compare
  <2>2. Sound(r)
    BY <2>1 DEF Sound
  <2>3. client' = [client EXCEPT ![c] = r] /\ UNCHANGED <<db, past>>
    BY <1>3 DEF Compare, Seen
  <2> HIDE DEF r
  <2> QED
    BY <2>2, <2>3, SoundStep
<1>4. CASE Measure(c)
  <2> DEFINE r == [pc |-> "assess", rows |-> client[c].rows, quality |-> client[c].snapshot.quality]
  <2>1. client[c].snapshot \in past /\ client[c].rows = Comparison(client[c].snapshot)
    BY <1>0, <1>4 DEF Sound, Measure
  <2>2. Sound(r)
    BY <2>1 DEF Sound
  <2>3. client' = [client EXCEPT ![c] = r] /\ UNCHANGED <<db, past>>
    BY <1>4 DEF Measure, Seen
  <2> HIDE DEF r
  <2> QED
    BY <2>2, <2>3, SoundStep
<1>5. CASE Assess(c)
  BY <1>5, AssessKeepsSound
<1>6. CASE Fail(c)
  <2>1. Sound([pc |-> "refused"])
    BY DEF Sound
  <2> QED
    BY <1>6, <2>1, SoundStep DEF Fail
<1> QED
  BY <1>1, <1>2, <1>3, <1>4, <1>5, <1>6 DEF InvestigateStep

\* The investigation's invariant.
LEMMA InvAlways == InvSpec => []InvInv
<1>1. InvInv /\ [InvNext]_invVars => InvInv'
  <2> SUFFICES ASSUME InvInv, [InvNext]_invVars
               PROVE  InvInv'
    OBVIOUS
  <2>1. CASE InvNext
    BY <2>1, WritesKeepSound, RequestsStaySound DEF InvNext
  <2>2. CASE UNCHANGED invVars
    BY <2>2 DEF invVars, InvInv, ClientsOnly, ReadsOneInstant, EveryRefResolves, CausesAreSupported
  <2> QED
    BY <2>1, <2>2
<1> QED
  BY <1>1, InvStart, PTL DEF InvSpec

\* A report's comparison and quality history are of one instant of the database,
\* for any number of requests, windows and writes in between.
THEOREM OneInstant == InvSpec => []ReportIsOneInstant
<1>1. InvInv => ReportIsOneInstant
  BY DEF InvInv, ReadsOneInstant, ReportIsOneInstant
<1> QED
  BY <1>1, InvAlways, PTL

\* Every ref of a report is one of its citations, for every sample limit.
THEOREM RefsResolve == InvSpec => []EveryRefResolves
<1>1. InvInv => EveryRefResolves
  BY DEF InvInv
<1> QED
  BY <1>1, InvAlways, PTL

\* Whatever the model answers, a suspected cause rests on an observation and a
\* runbook that were shown to it, and on a comparison that disagrees.
THEOREM CausesSupported == InvSpec => []CausesAreSupported
<1>1. InvInv => CausesAreSupported
  BY DEF InvInv
<1> QED
  BY <1>1, InvAlways, PTL

-----------------------------------------------------------------------------
(* The source observer.                                                    *)

Attending == observer.pc \notin {"down", "seated"}

\* The window is what was polled since coverage began, less what was ever ahead of
\* the clock and what is too old by now.
WindowIsPolled == Attending =>
    /\ observer.ahead \subseteq 1 .. observer.position
    /\ \A k \in observer.window :
          k \in DOMAIN source /\ observer.from < k /\ k <= observer.position /\ k \notin observer.ahead
    /\ \A k \in DOMAIN source :
          observer.from < k /\ k <= observer.position /\ k \notin observer.ahead
            /\ wall - Span < source[k].ts => k \in observer.window

\* Deliveries came in the past, those before the consumer's seat before coverage began.
SeatedInTime ==
    /\ \A k \in DOMAIN source : source[k].came <= wall
    /\ Attending =>
          /\ observer.start <= wall
          /\ \A k \in DOMAIN source : k <= observer.from => source[k].came <= observer.start

InTime(r) ==
    /\ r.from <= Len(source) /\ r.upto <= Len(source)
    /\ r.status # "partial" =>
          \A k \in DOMAIN source : k <= r.from => source[k].came <= r.at - Span

Counted(r, o) ==
    {k \in (r.from + 1) .. r.upto :
        /\ r.at - Span < source[k].ts /\ source[k].ts <= r.at
        /\ k \notin r.ahead
        /\ source[k].outcome = o}

Right(r) == InTime(r) /\ \A o \in Outcomes : r.counts[o] = Cardinality(Counted(r, o))

ObserverInv ==
    /\ ObserverType /\ WindowIsPolled /\ SeatedInTime
    /\ observer.pc = "seated" => observer.from = observer.position
    /\ \A i \in DOMAIN results : Right(results[i])

\* Nothing has been delivered or polled.
LEMMA ObserverStart == ObserverInit => ObserverInv
<1> SUFFICES ASSUME ObserverInit
             PROVE  ObserverInv
  OBVIOUS
<1>1. DOMAIN source = {} /\ DOMAIN results = {}
  BY DEF ObserverInit
<1>2. ObserverType
  BY ObserverAssumption DEF ObserverInit, ObserverType, Loop, Down, Delivery
<1>3. WindowIsPolled /\ SeatedInTime
  BY <1>1 DEF ObserverInit, Down, WindowIsPolled, SeatedInTime, Attending
<1> QED
  BY <1>1, <1>2, <1>3 DEF ObserverInv, ObserverInit, Down

\* A result stays right while its deliveries stay where they are.
LEMMA RightStays ==
    ASSUME ObserverInv, \/ UNCHANGED source
                        \/ \E d \in Delivery : source' = Append(source, d),
           UNCHANGED results
    PROVE  \A i \in DOMAIN results : Right(results[i])'
<1> SUFFICES ASSUME NEW i \in DOMAIN results
             PROVE  Right(results[i])'
  OBVIOUS
<1> DEFINE r == results[i]
<1>1. Right(r) /\ r.from \in Nat /\ r.upto \in Nat
  <2>1. r \in Result
    BY LenProperties DEF ObserverInv, ObserverType, Loop
  <2> QED
    BY <2>1 DEF ObserverInv, Result
<1>2. CASE UNCHANGED source
  BY <1>1, <1>2 DEF Right, InTime, Counted
<1>3. ASSUME NEW d \in Delivery, source' = Append(source, d)
      PROVE  Right(results[i])'
  <2>1. source \in Seq(Delivery) /\ Len(source) \in Nat
    BY DEF ObserverInv, ObserverType, Loop
  <2>2. /\ Len(source') = Len(source) + 1 /\ source' \in Seq(Delivery)
        /\ \A k \in 1 .. Len(source) : source'[k] = source[k]
    BY <1>3, <2>1, AppendProperties
  <2>3. DOMAIN source = 1 .. Len(source) /\ DOMAIN source' = 1 .. Len(source) + 1
    BY <2>1, <2>2, LenProperties
  <2>4. r.from <= Len(source) /\ r.upto <= Len(source)
    BY <1>1 DEF Right, InTime
  <2>5. \A o \in Outcomes : Counted(r, o)' = Counted(r, o)
    <3>1. r' = r
      OBVIOUS
    <3>2. \A k \in (r.from + 1) .. r.upto : source'[k] = source[k]
      BY <1>1, <2>1, <2>2, <2>4
    <3> HIDE DEF r
    <3> QED
      BY <3>1, <3>2 DEF Counted
  <2>6. InTime(r)'
    <3>1. r' = r
      OBVIOUS
    <3>2. \A k \in DOMAIN source' : k <= r.from => k \in DOMAIN source /\ source'[k] = source[k]
      BY <1>1, <2>1, <2>2, <2>3, <2>4
    <3>3. r.from <= Len(source') /\ r.upto <= Len(source')
      BY <1>1, <2>1, <2>2, <2>4
    <3> HIDE DEF r
    <3> QED
      BY <1>1, <3>1, <3>2, <3>3 DEF InTime, Right
  <2> QED
    BY <1>1, <2>5, <2>6 DEF Right
<1> QED
  BY <1>2, <1>3

\* The types of the deliveries in the source.
LEMMA SourceTypes ==
    ASSUME ObserverType
    PROVE  /\ source \in Seq(Delivery) /\ Len(source) \in Nat /\ DOMAIN source = 1 .. Len(source)
           /\ \A k \in DOMAIN source : source[k].ts \in Int /\ source[k].came \in Nat
<1>1. source \in Seq(Delivery)
  BY DEF ObserverType, Loop
<1>2. Len(source) \in Nat /\ DOMAIN source = 1 .. Len(source) /\ \A k \in DOMAIN source : source[k] \in Delivery
  BY <1>1, LenProperties
<1> QED
  BY <1>1, <1>2 DEF Delivery

\* Time passes, and deliveries come.
LEMMA ClockAndTopic ==
    ASSUME ObserverInv,
           WallTick \/ \E ts \in (wall - Behind) .. (wall + Ahead), o \in Outcomes : Deliver(ts, o)
    PROVE  ObserverInv'
<1>1. CASE WallTick
  <2>1. wall \in Nat /\ wall' = wall + 1 /\ UNCHANGED <<source, observer, results, resets>>
    BY <1>1 DEF WallTick, ObserverInv, ObserverType, Loop
  <2>2. ObserverType'
    BY <2>1 DEF ObserverInv, ObserverType, Loop
  <2>3. \A k \in DOMAIN source : source[k].ts \in Int /\ source[k].came \in Nat
    BY SourceTypes DEF ObserverInv
  <2>4. WindowIsPolled'
    BY <2>1, <2>3, ObserverAssumption DEF ObserverInv, WindowIsPolled, Attending
  <2>5. SeatedInTime'
    BY <2>1, <2>3 DEF ObserverInv, ObserverType, Loop, SeatedInTime, Attending
  <2> QED
    BY <2>1, <2>2, <2>4, <2>5, RightStays DEF ObserverInv
<1>2. ASSUME NEW ts \in (wall - Behind) .. (wall + Ahead), NEW o \in Outcomes, Deliver(ts, o)
      PROVE  ObserverInv'
  <2> DEFINE d == [ts |-> ts, outcome |-> o, came |-> wall]
  <2>1. /\ source' = Append(source, d) /\ UNCHANGED <<wall, observer, results, resets>>
        /\ wall \in Nat /\ d \in Delivery /\ d.came = wall
    BY <1>2, ObserverAssumption DEF Deliver, ObserverInv, ObserverType, Loop, Delivery
  <2> HIDE DEF d
  <2>2. /\ source \in Seq(Delivery) /\ Len(source) \in Nat
        /\ DOMAIN source = 1 .. Len(source)
    BY LenProperties DEF ObserverInv, ObserverType, Loop
  <2>3. /\ source' \in Seq(Delivery) /\ Len(source') = Len(source) + 1
        /\ DOMAIN source' = 1 .. Len(source) + 1
        /\ \A k \in 1 .. Len(source) : source'[k] = source[k]
        /\ source'[Len(source) + 1] = d
    BY <2>1, <2>2, AppendProperties, LenProperties
  <2>4. observer.position \in Nat /\ observer.from \in Nat /\ observer.position <= Len(source)
        /\ observer.from <= observer.position
    BY DEF ObserverInv, ObserverType, Loop
  <2>5. ObserverType'
    BY <2>1, <2>2, <2>3, <2>4 DEF ObserverInv, ObserverType, Loop
  <2>6. \A k \in DOMAIN source' :
           \/ k \in DOMAIN source /\ source'[k] = source[k]
           \/ k > observer.position /\ source'[k].came = wall
    BY <2>1, <2>2, <2>3, <2>4
  <2>7. \A k \in DOMAIN source' : k <= observer.position =>
           k \in DOMAIN source /\ source'[k] = source[k]
    BY <2>2, <2>3, <2>4
  <2>8. WindowIsPolled'
    <3>1. \A k \in DOMAIN source : k \in DOMAIN source'
      BY <2>2, <2>3
    <3> QED
      BY <2>1, <2>7, <3>1 DEF ObserverInv, WindowIsPolled, Attending
  <2>9. SeatedInTime'
    <3>1. \A k \in DOMAIN source' : source'[k].came <= wall
      BY <2>1, <2>6 DEF ObserverInv, SeatedInTime
    <3>2. \A k \in DOMAIN source' : k <= observer.from => k \in DOMAIN source /\ source'[k] = source[k]
      BY <2>2, <2>3, <2>4
    <3> QED
      BY <2>1, <3>1, <3>2 DEF ObserverInv, SeatedInTime, Attending
  <2>10. \A i \in DOMAIN results : Right(results[i])'
    BY <2>1, RightStays
  <2> QED
    BY <2>1, <2>5, <2>8, <2>9, <2>10 DEF ObserverInv
<1> QED
  BY <1>1, <1>2

\* Steps of the observer that write no result.
LEMMA ObserverMoves ==
    ASSUME ObserverInv,
           SeekToEnd \/ BeginCoverage \/ (\E n \in 0 .. MaxSent : PollSource(n))
             \/ Expose \/ SkipPersist \/ FailObserver
    PROVE  ObserverInv'
<1>0. /\ source \in Seq(Delivery) /\ Len(source) \in Nat /\ DOMAIN source = 1 .. Len(source)
      /\ wall \in Nat /\ UNCHANGED <<wall, source, results>>
      /\ \A k \in DOMAIN source : source[k].ts \in Int /\ source[k].came \in Nat
  <2>1. UNCHANGED <<wall, source, results>>
    BY DEF SeekToEnd, BeginCoverage, PollSource, Expose, SkipPersist, FailObserver
  <2> QED
    BY <2>1, SourceTypes DEF ObserverInv, ObserverType, Loop
<1>1. \A i \in DOMAIN results' : Right(results[i])'
  BY <1>0, RightStays
<1>2. CASE SeekToEnd
  <2>1. ObserverType' /\ (observer.pc = "seated" => observer.from = observer.position)'
    <3>1. observer' \in Loop /\ observer'.from = Len(source) /\ observer'.position = Len(source)
      BY <1>0, <1>2 DEF SeekToEnd, ObserverInv, ObserverType, Loop
    <3>2. UNCHANGED resets
      BY <1>2 DEF SeekToEnd
    <3> QED
      BY <1>0, <3>1, <3>2 DEF ObserverInv, ObserverType, Loop
  <2>2. WindowIsPolled' /\ SeatedInTime'
    BY <1>0, <1>2 DEF SeekToEnd, ObserverInv, ObserverType, Loop, WindowIsPolled, SeatedInTime, Attending
  <2> QED
    BY <1>1, <2>1, <2>2 DEF ObserverInv
<1>3. CASE BeginCoverage
  <2>1. ObserverType' /\ (observer.pc = "seated" => observer.from = observer.position)'
    BY <1>0, <1>3 DEF BeginCoverage, CoverageStart, ObserverInv, ObserverType, Loop
  <2>2. WindowIsPolled'
    BY <1>0, <1>3 DEF BeginCoverage, ObserverInv, ObserverType, Loop, WindowIsPolled
  <2>3. SeatedInTime'
    BY <1>0, <1>3 DEF BeginCoverage, CoverageStart, ObserverInv, ObserverType, Loop, SeatedInTime
  <2> QED
    BY <1>1, <2>1, <2>2, <2>3 DEF ObserverInv
<1>4. ASSUME NEW n \in 0 .. MaxSent, PollSource(n)
      PROVE  ObserverInv'
  <2>0. n \in observer.position .. Len(source) /\ n \in Nat /\ observer.position \in Nat
        /\ observer.from \in Nat /\ observer.from <= observer.position /\ Attending
    <3>1. n \in observer.position .. Len(source) /\ observer.pc = "poll"
      BY <1>4 DEF PollSource
    <3>2. observer.position \in Nat /\ observer.from \in Nat /\ observer.from <= observer.position
      BY DEF ObserverInv, ObserverType, Loop
    <3> QED
      BY <1>0, <3>1, <3>2 DEF Attending
  <2>4. /\ observer' = [observer EXCEPT !.pc = "expose", !.position = n,
                                !.window = @ \cup (observer.position + 1) .. n]
        /\ UNCHANGED resets
    BY <1>4 DEF PollSource
  <2>1. ObserverType' /\ (observer.pc = "seated" => observer.from = observer.position)'
    <3>1. (observer.position + 1) .. n \subseteq Nat
      BY <2>0
    <3> QED
      <4>1. /\ observer' \in Loop /\ observer'.from = observer.from /\ observer'.position = n
            /\ observer'.pc = "expose"
        BY <1>0, <2>4, <2>0, <3>1 DEF ObserverInv, ObserverType, Loop
      <4> QED
        BY <1>0, <2>0, <2>4, <4>1 DEF ObserverInv, ObserverType, Loop
  <2>2. WindowIsPolled'
    <3>1. /\ observer'.position = n /\ observer'.from = observer.from
          /\ observer'.ahead = observer.ahead /\ Attending'
          /\ observer'.window = observer.window \cup (observer.position + 1) .. n
      BY <2>4 DEF ObserverInv, ObserverType, Loop, Attending
    <3>2. observer.ahead \subseteq 1 .. observer.position /\ WindowIsPolled
      BY <2>0 DEF ObserverInv, WindowIsPolled
    <3>3. (observer.position + 1) .. n \cap observer.ahead = {} /\ (observer.position + 1) .. n \subseteq DOMAIN source
      BY <1>0, <2>0, <3>2
    <3> QED
      BY <1>0, <2>0, <3>1, <3>2, <3>3 DEF WindowIsPolled
  <2>3. SeatedInTime'
    BY <1>0, <1>4, <2>0 DEF PollSource, ObserverInv, ObserverType, Loop, SeatedInTime, Attending
  <2> QED
    BY <1>1, <2>1, <2>2, <2>3 DEF ObserverInv
<1>5. CASE Expose
  <2>1. ObserverType' /\ (observer.pc = "seated" => observer.from = observer.position)'
    BY <1>0, <1>5 DEF Expose, Kept, Unreached, ObserverInv, ObserverType, Loop
  <2>2. WindowIsPolled'
    BY <1>0, <1>5 DEF Expose, Kept, Unreached, ObserverInv, ObserverType, Loop, WindowIsPolled, Attending
  <2>3. SeatedInTime'
    BY <1>0, <1>5 DEF Expose, ObserverInv, ObserverType, Loop, SeatedInTime, Attending
  <2> QED
    BY <1>1, <2>1, <2>2, <2>3 DEF ObserverInv
<1>6. CASE SkipPersist
  BY <1>0, <1>1, <1>6 DEF SkipPersist, ObserverInv, ObserverType, Loop, WindowIsPolled, SeatedInTime, Attending
<1>7. CASE FailObserver
  <2>1. ObserverType' /\ (observer.pc = "seated" => observer.from = observer.position)'
    <3>1. /\ observer' \in Loop /\ observer'.pc = "down"
          /\ observer'.from = observer.from /\ observer'.position = observer.position
      BY <1>7 DEF FailObserver, ObserverInv, ObserverType, Loop
    <3>2. resets' \in 0 .. MaxResets
      BY <1>7, ObserverAssumption DEF FailObserver, ObserverInv, ObserverType, Loop
    <3> QED
      BY <1>0, <3>1, <3>2 DEF ObserverInv, ObserverType, Loop
  <2>2. WindowIsPolled' /\ SeatedInTime'
    BY <1>0, <1>7 DEF FailObserver, ObserverInv, ObserverType, Loop, WindowIsPolled, SeatedInTime, Attending
  <2> QED
    BY <1>1, <2>1, <2>2 DEF ObserverInv
<1> QED
  BY <1>2, <1>3, <1>4, <1>5, <1>6, <1>7

\* What a look at the clock leaves of the window.
LEMMA LookKeeps ==
    ASSUME ObserverInv, Attending, UNCHANGED <<wall, source, resets>>,
           observer' = [observer EXCEPT !.pc = "poll", !.window = Kept, !.ahead = @ \cup Unreached]
    PROVE  /\ observer' \in Loop /\ WindowIsPolled' /\ SeatedInTime'
           /\ observer'.pc = "poll" /\ (observer.from <= observer.position)'
           /\ (observer.position <= Len(source))'
<1>1. /\ observer' \in Loop /\ observer'.pc = "poll"
      /\ observer'.from = observer.from /\ observer'.position = observer.position
  BY DEF Kept, Unreached, ObserverInv, ObserverType, Loop
<1>2. WindowIsPolled'
  BY SourceTypes DEF Kept, Unreached, ObserverInv, ObserverType, Loop, WindowIsPolled, Attending
<1>3. SeatedInTime'
  BY DEF ObserverInv, ObserverType, Loop, SeatedInTime, Attending
<1> QED
  BY <1>1, <1>2, <1>3 DEF ObserverInv, ObserverType

\* A result of this moment counts what the window should hold.
LEMMA ResultNowIsRight ==
    ASSUME ObserverInv, Attending
    PROVE  ResultNow \in Result /\ Right(ResultNow)
<1> DEFINE of(o) == {k \in Kept : source[k].outcome = o}
<1>1. /\ wall \in Nat /\ Len(source) \in Nat /\ DOMAIN source = 1 .. Len(source)
      /\ observer.from \in Nat /\ observer.position \in Nat /\ observer.start \in Nat
      /\ observer.ahead \in SUBSET Nat
      /\ observer.from <= Len(source) /\ observer.position <= Len(source)
      /\ \A k \in DOMAIN source : source[k].ts \in Int /\ source[k].came \in Nat
  BY SourceTypes DEF ObserverInv, ObserverType, Loop
<1>2. \A o \in Outcomes : Cardinality(of(o)) \in Nat
  <2>1. observer.window \subseteq 1 .. Len(source)
    BY <1>1 DEF ObserverInv, WindowIsPolled
  <2>2. IsFiniteSet(1 .. Len(source))
    <3>1. 1 \in Int /\ Len(source) \in Int
      BY <1>1
    <3> QED
      BY <3>1, FS_Interval
  <2>3. \A o \in Outcomes : of(o) \subseteq 1 .. Len(source)
    BY <2>1 DEF Kept
  <2> QED
    BY <2>2, <2>3, FS_Subset, FS_CardinalityType
<1>3. CoverageStatus \in {"partial", "unknown", "observed"}
  BY DEF CoverageStatus
<1>4. ResultNow = [at |-> wall, status |-> CoverageStatus,
                   counts |-> [o \in Outcomes |-> Cardinality(of(o))],
                   from |-> observer.from, upto |-> observer.position, ahead |-> observer.ahead]
  BY DEF ResultNow
<1>5. [o \in Outcomes |-> Cardinality(of(o))] \in [Outcomes -> Nat]
  BY <1>2
<1>6. ResultNow \in Result
  BY <1>1, <1>3, <1>4, <1>5 DEF Result
<1>7. /\ ResultNow.at = wall /\ ResultNow.from = observer.from /\ ResultNow.upto = observer.position
      /\ ResultNow.ahead = observer.ahead /\ ResultNow.status = CoverageStatus
      /\ \A o \in Outcomes : ResultNow.counts[o] = Cardinality(of(o))
  BY <1>4
<1>8. \A o \in Outcomes : Counted(ResultNow, o) = of(o)
  <2>1. \A k \in Kept : /\ k \in (observer.from + 1) .. observer.position /\ k \notin observer.ahead
                        /\ wall - Span < source[k].ts /\ source[k].ts <= wall
    BY <1>1 DEF Kept, ObserverInv, WindowIsPolled
  <2>2. \A k \in (observer.from + 1) .. observer.position :
           wall - Span < source[k].ts /\ source[k].ts <= wall /\ k \notin observer.ahead => k \in Kept
    <3> SUFFICES ASSUME NEW k \in (observer.from + 1) .. observer.position,
                        wall - Span < source[k].ts, source[k].ts <= wall, k \notin observer.ahead
                 PROVE  k \in Kept
      OBVIOUS
    <3>1. k \in DOMAIN source /\ observer.from < k /\ k <= observer.position
      BY <1>1
    <3>2. k \in observer.window
      BY <3>1 DEF ObserverInv, WindowIsPolled
    <3> QED
      BY <3>2 DEF Kept
  <2> QED
    BY <1>7, <2>1, <2>2 DEF Counted
<1>9. InTime(ResultNow)
  <2>1. CoverageStatus # "partial" => observer.start <= wall - Span
    BY <1>1, ObserverAssumption DEF CoverageStatus
  <2>2. \A k \in DOMAIN source : k <= observer.from => source[k].came <= observer.start
    BY DEF ObserverInv, SeatedInTime
  <2>3. \A k \in DOMAIN source : CoverageStatus # "partial" /\ k <= observer.from =>
           source[k].came <= wall - Span
    BY <1>1, <2>1, <2>2, ObserverAssumption
  <2> QED
    BY <1>1, <1>7, <2>3 DEF InTime
<1>10. Right(ResultNow)
  BY <1>7, <1>8, <1>9 DEF Right
<1> QED
  BY <1>6, <1>10

\* A result is persisted.
LEMMA PersistIsRight ==
    ASSUME ObserverInv, Persist
    PROVE  ObserverInv'
<1>1. /\ Attending /\ UNCHANGED <<wall, source, resets>>
      /\ observer' = [observer EXCEPT !.pc = "poll", !.window = Kept, !.ahead = @ \cup Unreached]
      /\ UNCHANGED results \/ results' = Append(results, ResultNow)
  BY DEF Persist, Attending
<1>2. /\ observer' \in Loop /\ WindowIsPolled' /\ SeatedInTime'
      /\ observer'.pc = "poll" /\ (observer.from <= observer.position)'
      /\ (observer.position <= Len(source))'
  BY <1>1, LookKeeps
<1>3. results' \in Seq(Result) /\ \A i \in DOMAIN results' : Right(results'[i])
  <2>1. results \in Seq(Result) /\ \A i \in DOMAIN results : Right(results[i])
    BY DEF ObserverInv, ObserverType
  <2>2. CASE UNCHANGED results
    BY <2>1, <2>2
  <2>3. CASE results' = Append(results, ResultNow)
    <3>1. PICK r : r = ResultNow
      OBVIOUS
    <3>2. r \in Result /\ Right(r) /\ results' = Append(results, r)
      BY <1>1, <2>3, <3>1, ResultNowIsRight
    <3>3. results' \in Seq(Result) /\ Len(results') = Len(results) + 1 /\ Len(results) \in Nat
      BY <2>1, <3>2, AppendProperties, LenProperties
    <3>4. ASSUME NEW i \in DOMAIN results'
          PROVE  results'[i] = r \/ (i \in DOMAIN results /\ results'[i] = results[i])
      <4>1. i \in 1 .. Len(results) + 1 /\ DOMAIN results = 1 .. Len(results)
        BY <2>1, <3>3, LenProperties
      <4>2. CASE i \in 1 .. Len(results)
        BY <2>1, <3>2, <4>1, <4>2, AppendProperties
      <4>3. CASE i = Len(results) + 1
        BY <2>1, <3>2, <4>3, AppendProperties
      <4> QED
        BY <3>3, <4>1, <4>2, <4>3
    <3> QED
      BY <2>1, <3>2, <3>3, <3>4
  <2> QED
    BY <1>1, <2>2, <2>3
<1>4. \A i \in DOMAIN results' : Right(results[i])'
  BY <1>1, <1>3 DEF Right, InTime, Counted
<1>5. ObserverType'
  BY <1>1, <1>2, <1>3 DEF ObserverInv, ObserverType
<1> QED
  BY <1>2, <1>4, <1>5 DEF ObserverInv

\* The observer's invariant.
LEMMA ObserverAlways == ObserverSpec => []ObserverInv
<1>1. ObserverInv /\ [ObserverNext]_observerVars => ObserverInv'
  <2> SUFFICES ASSUME ObserverInv, [ObserverNext]_observerVars
               PROVE  ObserverInv'
    OBVIOUS
  <2>1. CASE ObserverNext
    BY <2>1, ClockAndTopic, ObserverMoves, PersistIsRight DEF ObserverNext
  <2>2. CASE UNCHANGED observerVars
    BY <2>2 DEF observerVars, ObserverInv, ObserverType, WindowIsPolled, SeatedInTime, Attending,
         Right, InTime, Counted
  <2> QED
    BY <2>1, <2>2
<1> QED
  BY <1>1, ObserverStart, PTL DEF ObserverSpec

\* What a result counts is what was polled since coverage began, in the window and
\* never ahead of the clock: for every window, clock and number of failures.
THEOREM CountsAreRight == ObserverSpec => []CountsAreTheWindow
<1>1. ObserverInv => CountsAreTheWindow
  BY DEF ObserverInv, Right, Counted, CountsAreTheWindow
<1> QED
  BY <1>1, ObserverAlways, PTL

\* A result that is not called partial has no gap, however often the observer failed.
THEOREM NoGapClaimed == ObserverSpec => []NoGapIsClaimed
<1>1. ASSUME ObserverInv
      PROVE  NoGapIsClaimed
  <2> SUFFICES ASSUME NEW i \in DOMAIN results, results[i].status # "partial",
                      NEW k \in DOMAIN source, source[k].came > results[i].at - Span
               PROVE  k > results[i].from
    BY DEF NoGapIsClaimed
  <2>1. results[i] \in Result /\ Right(results[i])
    BY <1>1, LenProperties DEF ObserverInv, ObserverType
  <2>2. results[i].from \in Nat /\ results[i].at \in Nat
    BY <2>1 DEF Result
  <2>3. k \in Nat /\ source[k].came \in Nat
    BY <1>1, SourceTypes DEF ObserverInv
  <2>4. k <= results[i].from => source[k].came <= results[i].at - Span
    BY <2>1 DEF Right, InTime
  <2> QED
    BY <2>2, <2>3, <2>4, ObserverAssumption
<1> QED
  BY <1>1, ObserverAlways, PTL

-----------------------------------------------------------------------------
(* The reconciliation.                                                     *)

Merge == [by : Commands, snapshot : Nat, range : Ranges]

ReconcileShape ==
    /\ archive \in Seq(Deliveries)
    /\ history \in Seq(Merge)
    /\ query = [c \in Commands |-> query[c]]
    /\ job \in [Commands -> Job]

\* What a command is about, from the pin on.
JobsArePinned ==
    \A c \in Commands :
        /\ job[c].pc # "idle" => job[c].snapshot \in 0 .. Len(archive) /\ job[c].range \in Ranges
        /\ job[c].pc \in {"submit", "wait", "result", "committed"} => Conflicts(job[c].snapshot) = {}
        /\ job[c].pc = "result" => \E k \in DOMAIN history :
              history[k] = [by |-> c, snapshot |-> job[c].snapshot, range |-> job[c].range]
        /\ job[c].pc = "committed" => job[c].result <= Len(history)

\* A MERGE on the server, whether its client still waits or not.
QueriesArePlanned ==
    \A c \in Commands : query[c] # None =>
        /\ job[c].pc \in {"wait", "unknown"}
        /\ query[c].snapshot = job[c].snapshot /\ query[c].range = job[c].range
        /\ Conflicts(query[c].snapshot) = {}
        /\ query[c].base \in 0 .. Len(history)
        /\ query[c].base = Len(history) => query[c].seen = table

RowsOf(lines, g) == {r \in lines : r.group = g}
IsLatest(k, g) == k \in Covering(g) /\ \A j \in Covering(g) : j <= k

\* GroupsHoldTheirMerge without its CHOOSE.
Holds(g) ==
    /\ Covering(g) = {} => RowsOf(table, g) = {}
    /\ Covering(g) # {} => \E k \in DOMAIN history : IsLatest(k, g)
    /\ \A k \in DOMAIN history : IsLatest(k, g) =>
          RowsOf(table, g) = RowsOf(Desired(history[k].snapshot, history[k].range), g)

MergedInTime == \A k \in DOMAIN history : history[k].snapshot <= Len(archive)

RecInv ==
    /\ ReconcileShape /\ JobsArePinned /\ QueriesArePlanned /\ MergedInTime
    /\ CommittedIsMerged /\ \A g \in Groups : Holds(g)

\* A snapshot does not change when the archive grows.
LEMMA SnapshotStands ==
    ASSUME NEW s, \A k \in 1 .. s : archive'[k] = archive[k]
    PROVE  /\ Conflicts(s)' = Conflicts(s)
           /\ \A g : Canonical(s, g)' = Canonical(s, g)
           /\ \A range : Desired(s, range)' = Desired(s, range)
<1>1. Conflicts(s)' = Conflicts(s)
  BY DEF Conflicts
<1>2. ASSUME NEW g
      PROVE  Canonical(s, g)' = Canonical(s, g)
  <2>1. {archive[k].id : k \in {j \in 1 .. s : archive[j].at \in g.start .. g.start + g.size - 1}}'
          = {archive[k].id : k \in {j \in 1 .. s : archive[j].at \in g.start .. g.start + g.size - 1}}
    OBVIOUS
  <2> QED
    BY <1>1, <2>1 DEF Canonical
<1>3. ASSUME NEW range
      PROVE  Desired(s, range)' = Desired(s, range)
  BY <1>2 DEF Desired
<1> QED
  BY <1>1, <1>2, <1>3

\* Nothing has been archived or merged.
LEMMA ReconcileStart == ReconcileInit => RecInv
BY DEF ReconcileInit, RecInv, ReconcileShape, JobsArePinned, QueriesArePlanned, MergedInTime,
       CommittedIsMerged, Holds, Covering, RowsOf, IsLatest, NoJob, Job, Phases

\* The job archives a row.
LEMMA Grows ==
    ASSUME RecInv, NEW d \in Deliveries, Archive(d)
    PROVE  RecInv'
<1>1. /\ archive' = Append(archive, d) /\ UNCHANGED <<table, history, query, job>>
      /\ archive \in Seq(Deliveries) /\ history \in Seq(Merge) /\ job \in [Commands -> Job]
  BY DEF Archive, RecInv, ReconcileShape
<1>2. /\ archive' \in Seq(Deliveries) /\ Len(archive') = Len(archive) + 1 /\ Len(archive) \in Nat
      /\ \A k \in 1 .. Len(archive) : archive'[k] = archive[k]
  BY <1>1, AppendProperties, LenProperties
<1>3. ASSUME NEW s \in 0 .. Len(archive)
      PROVE  Conflicts(s)' = Conflicts(s) /\ \A range : Desired(s, range)' = Desired(s, range)
  <2>1. \A k \in 1 .. s : archive'[k] = archive[k]
    BY <1>2
  <2> QED
    BY <2>1, SnapshotStands
<1>4. \A k \in DOMAIN history : history[k].snapshot \in 0 .. Len(archive)
  <2>1. \A k \in DOMAIN history : history[k] \in Merge
    BY <1>1, LenProperties
  <2> QED
    BY <1>2, <2>1 DEF Merge, RecInv, MergedInTime
<1>5. ReconcileShape'
  BY <1>1, <1>2 DEF RecInv, ReconcileShape
<1>6. JobsArePinned'
  <2>1. ASSUME NEW c \in Commands, job[c].pc # "idle"
        PROVE  /\ job[c].snapshot \in 0 .. Len(archive) /\ job[c].snapshot \in 0 .. Len(archive')
               /\ job[c].range \in Ranges /\ Conflicts(job[c].snapshot)' = Conflicts(job[c].snapshot)
    <3>1. job[c].snapshot \in 0 .. Len(archive) /\ job[c].range \in Ranges
      BY <2>1 DEF RecInv, JobsArePinned
    <3> QED
      BY <1>1, <1>2, <1>3, <3>1
  <2> QED
    BY <1>1, <2>1 DEF RecInv, JobsArePinned
<1>7. QueriesArePlanned'
  <2> SUFFICES ASSUME NEW c \in Commands, query[c] # None
               PROVE  Conflicts(query[c].snapshot)' = Conflicts(query[c].snapshot)
    BY <1>1 DEF RecInv, QueriesArePlanned
  <2>1. query[c].snapshot \in 0 .. Len(archive)
    BY DEF RecInv, QueriesArePlanned, JobsArePinned
  <2> QED
    BY <1>1, <1>3, <2>1
<1>8. MergedInTime'
  BY <1>1, <1>2, <1>4 DEF MergedInTime
<1>9. CommittedIsMerged'
  <2> SUFFICES ASSUME NEW c \in Commands, job[c].pc = "committed", NEW k \in 1 .. job[c].result,
                      history[k] = [by |-> c, snapshot |-> job[c].snapshot, range |-> job[c].range],
                      Conflicts(history[k].snapshot) = {}
               PROVE  Conflicts(history[k].snapshot)' = {}
    BY <1>1 DEF RecInv, CommittedIsMerged
  <2>1. history[k].snapshot \in 0 .. Len(archive)
    BY DEF RecInv, JobsArePinned
  <2> QED
    BY <1>1, <1>3, <2>1
<1>10. ASSUME NEW g \in Groups
       PROVE  Holds(g)'
  <2>1. Covering(g)' = Covering(g) /\ \A k : IsLatest(k, g)' = IsLatest(k, g)
    BY <1>1 DEF Covering, IsLatest
  <2>2. \A k \in DOMAIN history :
           Desired(history[k].snapshot, history[k].range)' = Desired(history[k].snapshot, history[k].range)
    BY <1>1, <1>3, <1>4
  <2> QED
    BY <1>1, <2>1, <2>2 DEF RecInv, Holds, RowsOf
<1> QED
  BY <1>5, <1>6, <1>7, <1>8, <1>9, <1>10 DEF RecInv

\* One job moves, on the terms of its own conjuncts, and its MERGE is there only if
\* it waits for it or has given up.
LEMMA JobMoves ==
    ASSUME RecInv, NEW c \in Commands, NEW r \in Job, NEW q,
           UNCHANGED <<archive, table, history>>,
           job' = [job EXCEPT ![c] = r], query' = [query EXCEPT ![c] = q],
           r.pc # "idle" => r.snapshot \in 0 .. Len(archive) /\ r.range \in Ranges,
           r.pc \in {"submit", "wait", "result", "committed"} => Conflicts(r.snapshot) = {},
           r.pc \in {"result", "committed"} => \E k \in DOMAIN history :
              history[k] = [by |-> c, snapshot |-> r.snapshot, range |-> r.range],
           r.pc = "committed" => r.result = Len(history),
           q # None => /\ r.pc \in {"wait", "unknown"}
                       /\ q.snapshot = r.snapshot /\ q.range = r.range
                       /\ Conflicts(q.snapshot) = {}
                       /\ q.base \in 0 .. Len(history)
                       /\ q.base = Len(history) => q.seen = table
    PROVE  RecInv'
<1>1. /\ archive \in Seq(Deliveries) /\ history \in Seq(Merge) /\ job \in [Commands -> Job]
      /\ query = [d \in Commands |-> query[d]] /\ Len(history) \in Nat
      /\ DOMAIN history = 1 .. Len(history)
  BY LenProperties DEF RecInv, ReconcileShape
<1>2. \A s : Conflicts(s)' = Conflicts(s) /\ \A range : Desired(s, range)' = Desired(s, range)
  BY SnapshotStands
<1>3. MergedInTime' /\ \A g \in Groups : Holds(g)'
  BY <1>2 DEF RecInv, MergedInTime, Holds, RowsOf, IsLatest, Covering
<1>4. \A s : Conflicts(s)' = Conflicts(s)
  BY <1>2
<1>5. /\ job' \in [Commands -> Job] /\ job'[c] = r /\ \A d \in Commands : d # c => job'[d] = job[d]
      /\ query' = [d \in Commands |-> query'[d]] /\ query'[c] = q
      /\ \A d \in Commands : d # c => query'[d] = query[d]
  BY <1>1
<1>6. ReconcileShape'
  BY <1>1, <1>5 DEF RecInv, ReconcileShape
<1>7. JobsArePinned'
  <2>1. r.pc = "committed" => r.result <= Len(history)
    BY <1>1
  <2>2. archive' = archive /\ history' = history
    OBVIOUS
  <2>3. ASSUME NEW d \in Commands
        PROVE  /\ job'[d].pc # "idle" => job'[d].snapshot \in 0 .. Len(archive) /\ job'[d].range \in Ranges
               /\ job'[d].pc \in {"submit", "wait", "result", "committed"} => Conflicts(job'[d].snapshot) = {}
               /\ job'[d].pc = "result" => \E k \in DOMAIN history :
                     history[k] = [by |-> d, snapshot |-> job'[d].snapshot, range |-> job'[d].range]
               /\ job'[d].pc = "committed" => job'[d].result <= Len(history)
    <3>1. CASE d = c
      <4>1. job'[d] = r
        BY <1>5, <3>1
      <4> QED
        BY <2>1, <3>1, <4>1
    <3>2. CASE d # c
      <4>1. job'[d] = job[d]
        BY <1>5, <3>2
      <4> QED
        BY <4>1 DEF RecInv, JobsArePinned
    <3> QED
      BY <3>1, <3>2
  <2>4. \A s : Conflicts(s)' = Conflicts(s)
    BY <1>4
  <2> QED
    BY <2>2, <2>3, <2>4 DEF JobsArePinned
<1>8. QueriesArePlanned'
  BY <1>1, <1>4, <1>5 DEF RecInv, QueriesArePlanned
<1>9. ASSUME NEW d \in Commands, job'[d].pc = "committed"
      PROVE  \E k \in 1 .. job'[d].result :
                /\ history[k] = [by |-> d, snapshot |-> job'[d].snapshot, range |-> job'[d].range]
                /\ Conflicts(history[k].snapshot) = {}
  <2>1. CASE d # c
    BY <1>5, <1>9, <2>1 DEF RecInv, CommittedIsMerged
  <2>2. CASE d = c
    <3>1. r.pc = "committed" /\ r.result = Len(history) /\ Conflicts(r.snapshot) = {}
      BY <1>5, <1>9, <2>2
    <3>2. PICK k \in DOMAIN history : history[k] = [by |-> c, snapshot |-> r.snapshot, range |-> r.range]
      BY <3>1
    <3>3. history[k].snapshot = r.snapshot
      BY <3>2
    <3>4. k \in 1 .. r.result /\ Conflicts(history[k].snapshot) = {}
      BY <1>1, <3>1, <3>3
    <3> QED
      BY <1>5, <2>2, <3>2, <3>4
  <2> QED
    BY <2>1, <2>2
<1>10. CommittedIsMerged'
  BY <1>4, <1>9 DEF CommittedIsMerged
<1> QED
  BY <1>3, <1>6, <1>7, <1>8, <1>10 DEF RecInv

\* Steps of a command's client, and a MERGE that fails.
LEMMA ClientSteps ==
    ASSUME RecInv, NEW c \in Commands,
           \/ \E s \in 1 .. Len(archive), range \in Ranges : Pin(c, s, range)
           \/ Check(c) \/ Submit(c) \/ AbortMerge(c) \/ GiveUp(c) \/ Report(c)
    PROVE  RecInv'
<1>11. /\ UNCHANGED <<archive, table, history>>
       /\ job \in [Commands -> Job] /\ query = [d \in Commands |-> query[d]]
       /\ Len(archive) \in Nat /\ Len(history) \in Nat
       /\ job[c] \in Job
       /\ job[c].pc # "idle" => job[c].snapshot \in 0 .. Len(archive) /\ job[c].range \in Ranges
  BY LenProperties DEF Pin, Check, Submit, AbortMerge, GiveUp, Report, RecInv, ReconcileShape, JobsArePinned
<1>12. query = [query EXCEPT ![c] = query[c]]
  BY <1>11
<1> DEFINE At(pc) == [job[c] EXCEPT !.pc = pc]
<1>13. \A pc \in Phases : /\ At(pc) \in Job /\ At(pc).pc = pc
                          /\ At(pc).snapshot = job[c].snapshot /\ At(pc).range = job[c].range
  BY <1>11 DEF Job
<1>14. query[c] # None =>
          /\ job[c].pc \in {"wait", "unknown"}
          /\ query[c].snapshot = job[c].snapshot /\ query[c].range = job[c].range
          /\ Conflicts(query[c].snapshot) = {}
          /\ query[c].base \in 0 .. Len(history)
          /\ query[c].base = Len(history) => query[c].seen = table
  BY DEF RecInv, QueriesArePlanned
<1>15. /\ job[c].pc \in {"submit", "wait", "result", "committed"} => Conflicts(job[c].snapshot) = {}
       /\ job[c].pc = "result" => \E k \in DOMAIN history :
             history[k] = [by |-> c, snapshot |-> job[c].snapshot, range |-> job[c].range]
  BY DEF RecInv, JobsArePinned
<1>16. \A pc \in {"idle", "check", "submit", "refused", "wait", "unknown", "result", "committed"} : pc \in Phases
  BY DEF Phases
<1>1. ASSUME NEW s \in 1 .. Len(archive), NEW range \in Ranges, Pin(c, s, range)
      PROVE  RecInv'
  <2> DEFINE r == [pc |-> "check", snapshot |-> s, range |-> range, result |-> 0]
  <2>1. r \in Job /\ r.pc = "check" /\ r.snapshot \in 0 .. Len(archive) /\ r.range \in Ranges
    BY <1>11, <1>16 DEF Job
  <2>2. job' = [job EXCEPT ![c] = r] /\ query' = [query EXCEPT ![c] = query[c]] /\ query[c] = None
    BY <1>12, <1>14, <1>1 DEF Pin
  <2> HIDE DEF r
  <2> QED
    BY <1>11, <2>1, <2>2, JobMoves
<1>2. CASE Check(c)
  <2>1. PICK pc \in {"submit", "refused"} : /\ job' = [job EXCEPT ![c] = At(pc)]
                                            /\ pc = "submit" => Conflicts(job[c].snapshot) = {}
    BY <1>2 DEF Check
  <2>2. query' = [query EXCEPT ![c] = query[c]] /\ query[c] = None /\ job[c].pc = "check"
    BY <1>12, <1>14, <1>2 DEF Check
  <2> HIDE DEF At
  <2> QED
    BY <1>11, <1>13, <1>16, <2>1, <2>2, JobMoves
<1>3. CASE Submit(c)
  <2> DEFINE q == [base |-> Len(history), seen |-> table, snapshot |-> job[c].snapshot, range |-> job[c].range]
  <2>1. job' = [job EXCEPT ![c] = At("wait")] /\ query' = [query EXCEPT ![c] = q] /\ job[c].pc = "submit"
    BY <1>3 DEF Submit
  <2>2. /\ q.base = Len(history) /\ q.seen = table
        /\ q.snapshot = job[c].snapshot /\ q.range = job[c].range
    OBVIOUS
  <2> HIDE DEF At, q
  <2>3. /\ At("wait") \in Job /\ At("wait").pc = "wait"
        /\ At("wait").snapshot = job[c].snapshot /\ At("wait").range = job[c].range
    BY <1>13, <1>16
  <2>4. Conflicts(q.snapshot) = {} /\ q.base \in 0 .. Len(history)
    BY <1>11, <1>15, <2>1, <2>2
  <2>5. Conflicts(job[c].snapshot) = {}
    BY <2>2, <2>4
  <2> QED
    BY <1>11, <2>1, <2>2, <2>3, <2>4, <2>5, JobMoves
<1>4. CASE AbortMerge(c)
  <2>1. PICK r \in {job[c], At("unknown")} : job' = [job EXCEPT ![c] = r] /\ r.pc = "unknown"
    <3>1. CASE job[c].pc = "wait"
      BY <1>13, <1>16, <1>4, <3>1 DEF AbortMerge
    <3>2. CASE job[c].pc # "wait"
      BY <1>11, <1>14, <1>4, <3>2 DEF AbortMerge
    <3> QED
      BY <3>1, <3>2
  <2>2. query' = [query EXCEPT ![c] = None] /\ job[c].pc # "idle"
    BY <1>14, <1>4 DEF AbortMerge
  <2>3. r \in Job /\ r.snapshot = job[c].snapshot /\ r.range = job[c].range
    BY <1>11, <1>13, <1>16
  <2> QED
    BY <1>11, <2>1, <2>2, <2>3, JobMoves
<1>5. CASE GiveUp(c)
  <2>1. /\ job' = [job EXCEPT ![c] = At("unknown")] /\ query' = [query EXCEPT ![c] = query[c]]
        /\ job[c].pc # "idle"
    BY <1>12, <1>5 DEF GiveUp
  <2> HIDE DEF At
  <2> QED
    BY <1>11, <1>13, <1>14, <1>16, <2>1, JobMoves
<1>6. CASE Report(c)
  <2> DEFINE r == [job[c] EXCEPT !.pc = "committed", !.result = Len(history)]
  <2>1. /\ job' = [job EXCEPT ![c] = r] /\ query' = [query EXCEPT ![c] = query[c]]
        /\ job[c].pc = "result" /\ query[c] = None
    BY <1>12, <1>14, <1>6 DEF Report
  <2>2. /\ r \in Job /\ r.pc = "committed" /\ r.result = Len(history)
        /\ r.snapshot = job[c].snapshot /\ r.range = job[c].range
    BY <1>11, <1>16 DEF Job
  <2> HIDE DEF r
  <2> QED
    BY <1>11, <1>15, <2>1, <2>2, JobMoves
<1> QED
  BY <1>1, <1>2, <1>3, <1>4, <1>5, <1>6

\* Only the current version of the table is replaced, so the rows the MERGE saw are
\* the rows there are.
LEMMA MergeHolds ==
    ASSUME RecInv, NEW c \in Commands, CommitMerge(c)
    PROVE  RecInv'
<1>15. PICK q, n : q = query[c] /\ n = Len(history)
  OBVIOUS
<1> DEFINE entry == [by |-> c, snapshot |-> q.snapshot, range |-> q.range]
<1>1. /\ q = query[c] /\ n = Len(history)
      /\ q # None /\ q.base = n /\ q.seen = table /\ job[c].pc \in {"wait", "unknown"}
      /\ q.snapshot = job[c].snapshot /\ q.range = job[c].range
      /\ Conflicts(q.snapshot) = {} /\ q.snapshot \in 0 .. Len(archive) /\ q.range \in Ranges
  <2>1. q # None /\ q.base = n
    BY <1>15 DEF CommitMerge, Current
  <2> QED
    BY <1>15, <2>1 DEF RecInv, QueriesArePlanned, JobsArePinned
<1>2. /\ history \in Seq(Merge) /\ n \in Nat /\ DOMAIN history = 1 .. n
      /\ job \in [Commands -> Job] /\ query = [d \in Commands |-> query[d]]
      /\ archive \in Seq(Deliveries) /\ Len(archive) \in Nat
  BY <1>1, LenProperties DEF RecInv, ReconcileShape
<1>3. /\ table' = (table \ Within(table, q.range)) \cup Desired(q.snapshot, q.range)
      /\ history' = Append(history, entry) /\ UNCHANGED archive
      /\ query' = [query EXCEPT ![c] = None]
      /\ job' = IF job[c].pc = "wait" THEN [job EXCEPT ![c].pc = "result"] ELSE job
  BY <1>1 DEF CommitMerge, Merged
<1>4. entry \in Merge /\ entry.snapshot = q.snapshot /\ entry.range = q.range
  BY <1>1, <1>2 DEF Merge
<1>5. /\ history' \in Seq(Merge) /\ Len(history') = n + 1 /\ DOMAIN history' = 1 .. n + 1
      /\ \A k \in 1 .. n : history'[k] = history[k]
      /\ history'[n + 1] = entry
  BY <1>1, <1>2, <1>3, <1>4, AppendProperties, LenProperties
<1> HIDE DEF entry
<1>6. \A s : Conflicts(s)' = Conflicts(s) /\ \A range : Desired(s, range)' = Desired(s, range)
  BY <1>3, SnapshotStands
<1>7. /\ job' \in [Commands -> Job]
      /\ \A d \in Commands : /\ job'[d].snapshot = job[d].snapshot /\ job'[d].range = job[d].range
                             /\ job'[d].result = job[d].result
                             /\ job'[d].pc = job[d].pc \/ (d = c /\ job[c].pc = "wait" /\ job'[d].pc = "result")
  BY <1>2, <1>3 DEF Job, Phases
<1>8. /\ query' = [d \in Commands |-> query'[d]] /\ query'[c] = None
      /\ \A d \in Commands : d # c => query'[d] = query[d]
  BY <1>2, <1>3
<1>9. ReconcileShape'
  BY <1>2, <1>3, <1>5, <1>7, <1>8 DEF ReconcileShape
<1>10. JobsArePinned'
  <2> SUFFICES ASSUME NEW d \in Commands
               PROVE  (/\ job[d].pc # "idle" => job[d].snapshot \in 0 .. Len(archive) /\ job[d].range \in Ranges
                       /\ job[d].pc \in {"submit", "wait", "result", "committed"} => Conflicts(job[d].snapshot) = {}
                       /\ job[d].pc = "result" => \E k \in DOMAIN history :
                            history[k] = [by |-> d, snapshot |-> job[d].snapshot, range |-> job[d].range]
                       /\ job[d].pc = "committed" => job[d].result <= Len(history))'
    BY DEF JobsArePinned
  <2>1. job'[d].pc # "idle" => job[d].pc # "idle"
    BY <1>7
  <2>2. job'[d].pc \in {"submit", "wait", "result", "committed"} => job[d].pc \in {"submit", "wait", "result", "committed"}
    BY <1>7
  <2>3. Conflicts(job[d].snapshot)' = Conflicts(job[d].snapshot)
    <3>1. PICK s : s = job[d].snapshot
      OBVIOUS
    <3>2. job'[d].snapshot = s /\ Conflicts(s)' = Conflicts(s)
      BY <1>6, <1>7, <3>1
    <3> QED
      BY <3>1, <3>2 DEF Conflicts
  <2>4. job'[d].pc = "result" => \E k \in DOMAIN history' :
            history'[k] = [by |-> d, snapshot |-> job'[d].snapshot, range |-> job'[d].range]
    <3>1. CASE d = c /\ job[c].pc = "wait"
      <4>1. n + 1 \in DOMAIN history' /\ entry = [by |-> d, snapshot |-> job'[d].snapshot, range |-> job'[d].range]
        BY <1>1, <1>2, <1>5, <1>7, <3>1 DEF entry
      <4> QED
        BY <1>5, <4>1
    <3>2. CASE job'[d].pc = job[d].pc /\ job'[d].pc = "result"
      <4>1. PICK k \in 1 .. n :
               history[k] = [by |-> d, snapshot |-> job[d].snapshot, range |-> job[d].range]
        BY <1>2, <3>2 DEF RecInv, JobsArePinned
      <4>2. k \in 1 .. n + 1 /\ history'[k] = history[k]
        BY <1>2, <1>5
      <4> QED
        BY <1>5, <1>7, <4>1, <4>2
    <3> QED
      BY <1>7, <3>1, <3>2
  <2>5. job'[d].pc = "committed" => job'[d].result <= n + 1
    <3>1. job'[d].pc = "committed" => job[d].result <= n /\ job'[d].result = job[d].result
      BY <1>1, <1>7 DEF RecInv, JobsArePinned
    <3>2. job[d].result \in Nat
      BY <1>2 DEF Job
    <3> QED
      BY <1>2, <3>1, <3>2
  <2> QED
    BY <1>3, <1>5, <1>7, <2>1, <2>2, <2>3, <2>4, <2>5 DEF RecInv, JobsArePinned
<1>11. QueriesArePlanned'
  <2> SUFFICES ASSUME NEW d \in Commands, query'[d] # None
               PROVE  (/\ job[d].pc \in {"wait", "unknown"}
                       /\ query[d].snapshot = job[d].snapshot /\ query[d].range = job[d].range
                       /\ Conflicts(query[d].snapshot) = {}
                       /\ query[d].base \in 0 .. Len(history)
                       /\ query[d].base = Len(history) => query[d].seen = table)'
    BY DEF QueriesArePlanned
  <2>1. d # c /\ query'[d] = query[d] /\ query[d] # None /\ job'[d].pc = job[d].pc
    BY <1>7, <1>8
  <2>2. query[d].base \in 0 .. n /\ query[d].base \in 0 .. n + 1 /\ query[d].base # n + 1
    BY <1>2, <2>1 DEF RecInv, QueriesArePlanned
  <2>3. Conflicts(query[d].snapshot)' = Conflicts(query[d].snapshot)
    <3>1. PICK s : s = query[d].snapshot
      OBVIOUS
    <3>2. query'[d].snapshot = s /\ Conflicts(s)' = Conflicts(s)
      BY <1>6, <2>1, <3>1
    <3> QED
      BY <3>1, <3>2 DEF Conflicts
  <2> QED
    BY <1>5, <1>7, <2>1, <2>2, <2>3 DEF RecInv, QueriesArePlanned
<1>12. MergedInTime'
  BY <1>1, <1>2, <1>3, <1>4, <1>5 DEF RecInv, MergedInTime
<1>13. CommittedIsMerged'
  <2> SUFFICES ASSUME NEW d \in Commands, job'[d].pc = "committed"
               PROVE  \E k \in 1 .. job'[d].result :
                         (/\ history[k] = [by |-> d, snapshot |-> job[d].snapshot, range |-> job[d].range]
                          /\ Conflicts(history[k].snapshot) = {})'
    BY DEF CommittedIsMerged
  <2>1. PICK k \in 1 .. job[d].result :
            /\ history[k] = [by |-> d, snapshot |-> job[d].snapshot, range |-> job[d].range]
            /\ Conflicts(history[k].snapshot) = {}
    BY <1>7 DEF RecInv, CommittedIsMerged
  <2>2. k \in 1 .. n
    <3>1. job[d].pc = "committed"
      BY <1>7
    <3>2. job[d].result \in Nat /\ job[d].result <= n
      BY <1>1, <1>2, <3>1 DEF RecInv, JobsArePinned, Job
    <3> QED
      BY <1>2, <3>2
  <2> QED
    BY <1>5, <1>6, <1>7, <2>1, <2>2
<1>14. ASSUME NEW g \in Groups
       PROVE  Holds(g)'
  <2> DEFINE desired == Desired(q.snapshot, q.range)
  <2>1. \A k \in 1 .. n : k \in Covering(g)' <=> k \in Covering(g)
    BY <1>2, <1>5 DEF Covering
  <2>2. n + 1 \in Covering(g)' <=> Covers(q.range, g)
    BY <1>2, <1>4, <1>5 DEF Covering, Covers
  <2>3. Covering(g) \subseteq 1 .. n /\ Covering(g)' \subseteq 1 .. n + 1
    BY <1>2, <1>5 DEF Covering
  <2>4. \A r \in desired : Covers(q.range, r.group)
    BY DEF Desired
  <2>5. table' = (table \ {r \in table : Covers(q.range, r.group)}) \cup desired
    BY <1>1, <1>3 DEF Within
  <2> HIDE DEF desired
  <2>6. CASE Covers(q.range, g)
    <3>1. RowsOf(table', g) = RowsOf(desired, g)
      BY <2>5, <2>6 DEF RowsOf
    <3>2. IsLatest(n + 1, g)'
      <4>1. \A j \in 1 .. n + 1 : j <= n + 1
        BY <1>2
      <4> QED
        BY <1>2, <1>5, <2>2, <2>3, <2>6, <4>1 DEF IsLatest
    <3>3. \A k \in DOMAIN history' : IsLatest(k, g)' => k = n + 1
      BY <1>2, <1>5, <2>2, <2>6 DEF IsLatest
    <3>4. Desired(q.snapshot, q.range)' = desired
      BY <1>6 DEF desired
    <3> QED
      <4>1. n + 1 \in DOMAIN history' /\ Covering(g)' # {}
        BY <1>2, <1>5, <2>2, <2>6
      <4>2. RowsOf(table, g)' = RowsOf(desired, g)
        BY <3>1 DEF RowsOf
      <4>3. \A k \in DOMAIN history' : IsLatest(k, g)' =>
               Desired(history[k].snapshot, history[k].range)' = desired
        <5>1. history'[n + 1].snapshot = q.snapshot /\ history'[n + 1].range = q.range
          BY <1>4, <1>5
        <5>2. Desired(history[n + 1].snapshot, history[n + 1].range)' = desired
          BY <3>4, <5>1 DEF Desired, Canonical, Conflicts
        <5> QED
          BY <3>3, <5>2 DEF Desired, Canonical, Conflicts
      <4>4. \A k \in DOMAIN history' : IsLatest(k, g)' =>
               RowsOf(table, g)' = RowsOf(Desired(history[k].snapshot, history[k].range), g)'
        BY <4>2, <4>3 DEF RowsOf
      <4> QED
        BY <3>2, <4>1, <4>4 DEF Holds
  <2>7. CASE ~Covers(q.range, g)
    <3>1. RowsOf(table', g) = RowsOf(table, g)
      BY <2>4, <2>5, <2>7 DEF RowsOf
    <3>2. Covering(g)' = Covering(g)
      <4>1. \A k \in 1 .. n + 1 : k \in 1 .. n \/ k = n + 1
        BY <1>2
      <4> QED
        BY <2>1, <2>2, <2>3, <2>7, <4>1
    <3>3. \A k : IsLatest(k, g)' <=> IsLatest(k, g)
      BY <3>2 DEF IsLatest
    <3>4. \A k \in DOMAIN history' : IsLatest(k, g) => k \in DOMAIN history /\ history'[k] = history[k]
      BY <1>2, <1>5, <2>3 DEF IsLatest
    <3> QED
      BY <1>2, <1>5, <1>6, <3>1, <3>2, <3>3, <3>4 DEF RecInv, Holds, RowsOf
  <2> QED
    BY <2>6, <2>7
<1> QED
  BY <1>9, <1>10, <1>11, <1>12, <1>13, <1>14 DEF RecInv

\* The reconciliation's invariant.
LEMMA ReconcileAlways == ReconcileSpec => []RecInv
<1>1. RecInv /\ [ReconcileNext]_reconcileVars => RecInv'
  <2> SUFFICES ASSUME RecInv, [ReconcileNext]_reconcileVars
               PROVE  RecInv'
    OBVIOUS
  <2>1. CASE ReconcileNext
    BY <2>1, Grows, ClientSteps, MergeHolds DEF ReconcileNext
  <2>2. CASE UNCHANGED reconcileVars
    <3>1. \A s : Conflicts(s)' = Conflicts(s) /\ \A range : Desired(s, range)' = Desired(s, range)
      BY <2>2, SnapshotStands DEF reconcileVars
    <3>2. \A s : Conflicts(s)' = Conflicts(s)
      BY <3>1
    <3>3. ReconcileShape' /\ JobsArePinned' /\ MergedInTime'
      BY <2>2, <3>2 DEF reconcileVars, RecInv, ReconcileShape, JobsArePinned, MergedInTime
    <3>4. QueriesArePlanned' /\ CommittedIsMerged'
      BY <2>2, <3>2 DEF reconcileVars, RecInv, QueriesArePlanned, CommittedIsMerged
    <3>5. \A g \in Groups : Holds(g)'
      BY <2>2, <3>1 DEF reconcileVars, RecInv, Holds, IsLatest, Covering, RowsOf
    <3> QED
      BY <3>3, <3>4, <3>5 DEF RecInv
  <2> QED
    BY <2>1, <2>2
<1> QED
  BY <1>1, ReconcileStart, PTL DEF ReconcileSpec

\* A group holds what the last MERGE over it said, for any number of commands, ranges,
\* sizes and deliveries.
THEOREM GroupsHold == ReconcileSpec => []GroupsHoldTheirMerge
<1>1. ASSUME RecInv
      PROVE  GroupsHoldTheirMerge
  <2> SUFFICES ASSUME NEW g \in Groups, Covering(g) # {}
               PROVE  LET k == CHOOSE k \in Covering(g) : \A j \in Covering(g) : j <= k
                      IN  RowsOf(table, g) = RowsOf(Desired(history[k].snapshot, history[k].range), g)
    BY <1>1 DEF RecInv, Holds, GroupsHoldTheirMerge, RowsOf
  <2> DEFINE latest == CHOOSE k \in Covering(g) : \A j \in Covering(g) : j <= k
  <2>1. \E k \in Covering(g) : \A j \in Covering(g) : j <= k
    BY <1>1 DEF RecInv, Holds, IsLatest
  <2>2. latest \in Covering(g) /\ \A j \in Covering(g) : j <= latest
    BY <2>1
  <2> HIDE DEF latest
  <2>3. latest \in DOMAIN history /\ IsLatest(latest, g)
    BY <2>2 DEF Covering, IsLatest
  <2> QED
    BY <1>1, <2>3 DEF RecInv, Holds, latest
<1> QED
  BY <1>1, ReconcileAlways, PTL

\* A command that reports committed has its MERGE in the table.
THEOREM CommittedMerged == ReconcileSpec => []CommittedIsMerged
<1>1. RecInv => CommittedIsMerged
  BY DEF RecInv
<1> QED
  BY <1>1, ReconcileAlways, PTL

-----------------------------------------------------------------------------
(* The recovery drill.                                                     *)

ProbeRecords == {Probe[k] : k \in 1 .. Len(Probe)}

\* What DrillType says of the offsets and the records, with the record to be sent.
DrillShape ==
    /\ topic \in Seq(ProbeRecords) /\ Len(topic) <= MaxTopic
    /\ flink \in FlinkJob /\ flink.position <= Len(topic)
    /\ completed \in Seq([id : Nat, position : Nat]) /\ begun \in Nat
    /\ dead \in [Offsets -> Nat] /\ reads \in [Offsets -> Nat]
    /\ drill \in Drill /\ drill.next >= 1
    /\ drill.pc \in {"start", "trigger", "publish"} => drill.next <= Len(Probe)

\* The source is never behind a checkpoint, nor a checkpoint behind an earlier one.
CheckpointsBehind ==
    /\ Latest.position <= flink.position /\ flink.pending.position <= flink.position
    /\ flink.pending # NoCheckpoint => Latest.position <= flink.pending.position

\* Nothing is in progress while the tasks are down, and a job that restarts has none.
DownIsIdle ==
    /\ flink.state = "RESTARTING" => ~flink.tasks
    /\ ~flink.tasks => flink.pending = NoCheckpoint

\* The baseline is of before the probe.
BaselineIsBefore ==
    /\ Latest.id <= begun /\ flink.pending.id <= begun /\ drill.baseline <= begun
    /\ Latest.id = drill.baseline => Latest.position = 0
    /\ flink.pending.id = drill.baseline => flink.pending.position = 0
    /\ drill.pc \in {"start", "trigger"} => Len(topic) = 0

\* While every restore goes back to the beginning, no record is read more often
\* than an earlier one, and one that is ahead of the source less often than one
\* that is not.
ReadFromZero ==
    Latest.position = 0 =>
        \A k, n \in Offsets : k <= n =>
            /\ reads[n] <= reads[k]
            /\ k <= flink.position /\ flink.position < n => reads[n] < reads[k]

\* What is delivered was read, once for each delivery.
EffectsAreRead ==
    \A k \in Offsets : dead[k] <= reads[k] /\ (k \in flink.buffer => dead[k] < reads[k])

\* A source at p that has records of the probe ahead reads the ones behind no more.
ReplayedUpTo(p) == \A n \in drill.noted : p < n => \A k \in 1 .. p : reads[k] >= 2

AfterCheck == {"kill", "revive", "restore", "restored", "second", "passed"}

ReplayProgress ==
    /\ drill.pc \in AfterCheck \cup {"check"} => \A n \in drill.noted : reads[n] >= 1
    /\ drill.pc \in AfterCheck =>
          /\ \A n \in drill.noted : \A k \in 1 .. n : reads[k] >= 1 /\ (reads[n] >= 2 => reads[k] >= 2)
          /\ ReplayedUpTo(flink.position) /\ ReplayedUpTo(Latest.position)
          /\ ReplayedUpTo(flink.pending.position)
    /\ drill.pc = "passed" => \A n \in drill.noted : dead[n] >= 2

\* Once the whole probe is sent, its last record, an invalid one, is also the last of
\* the partition: the copies of a lost answer come before the one acknowledged.
AfterPublish == AfterCheck \cup {"first", "check"}

NotedLast == drill.pc \in AfterPublish => Len(topic) \in drill.noted

DrillInv ==
    /\ DrillShape /\ CheckpointsBehind /\ DownIsIdle /\ BaselineIsBefore
    /\ ReadFromZero /\ EffectsAreRead /\ ReplayProgress /\ NotedLast

\* The drill starts with a job that has read nothing.
LEMMA DrillStart == DrillInit => DrillInv
<1> SUFFICES ASSUME DrillInit
             PROVE  DrillInv
  OBVIOUS
<1>1. MaxTopic \in Nat /\ Len(Probe) \in Nat /\ Len(Probe) >= 1
  BY DrillAssumption
<1>2. Latest = NoCheckpoint /\ flink.pending = NoCheckpoint /\ flink.position = 0 /\ flink.buffer = {}
  BY DEF DrillInit, Latest
<1>3. DrillShape
  BY <1>1 DEF DrillInit, DrillShape, FlinkJob, NoCheckpoint, Drill, DrillSteps
<1>4. CheckpointsBehind /\ BaselineIsBefore
  BY <1>2 DEF DrillInit, CheckpointsBehind, BaselineIsBefore, NoCheckpoint
<1>7. DownIsIdle
  BY DEF DrillInit, DownIsIdle
<1>5. ReadFromZero /\ EffectsAreRead
  BY <1>1, <1>2 DEF DrillInit, ReadFromZero, EffectsAreRead, Offsets
<1>6. ReplayProgress /\ NotedLast
  BY DEF DrillInit, ReplayProgress, NotedLast, AfterPublish, AfterCheck
<1> QED
  BY <1>3, <1>4, <1>5, <1>6, <1>7 DEF DrillInv

\* Checkpoints and offsets are numbers.
LEMMA DrillNumbers ==
    ASSUME DrillShape
    PROVE  /\ Len(topic) \in Nat /\ MaxTopic \in Nat /\ begun \in Nat
           /\ flink.position \in Nat /\ flink.pending \in [id : Nat, position : Nat]
           /\ Latest \in [id : Nat, position : Nat]
           /\ drill.baseline \in Nat /\ drill.noted \subseteq Offsets
           /\ \A k \in Offsets : k \in Nat /\ dead[k] \in Nat /\ reads[k] \in Nat
           /\ \A n \in Offsets : \A k \in 1 .. n : k \in Offsets
<1>1. MaxTopic \in Nat
  BY DrillAssumption
<1>2. Latest \in [id : Nat, position : Nat]
  <2>1. CASE completed = <<>>
    BY <2>1 DEF Latest, NoCheckpoint
  <2>2. CASE completed # <<>>
    <3>1. Len(completed) \in 1 .. Len(completed)
      BY <2>2, EmptySeq, LenProperties DEF DrillShape
    <3>2. completed[Len(completed)] \in [id : Nat, position : Nat]
      BY <3>1, LenProperties DEF DrillShape
    <3> QED
      BY <2>2, <3>2 DEF Latest
  <2> QED
    BY <2>1, <2>2
<1>3. Len(topic) \in Nat /\ begun \in Nat /\ flink.position \in Nat
      /\ flink.pending \in [id : Nat, position : Nat]
      /\ drill.baseline \in Nat /\ drill.noted \subseteq Offsets
  BY DEF DrillShape, FlinkJob, Drill
<1>4. \A k \in Offsets : k \in Nat /\ dead[k] \in Nat /\ reads[k] \in Nat
  BY <1>1 DEF DrillShape, Offsets
<1>5. \A n \in Offsets : \A k \in 1 .. n : k \in Offsets
  BY <1>1 DEF Offsets
<1> QED
  BY <1>1, <1>2, <1>3, <1>4, <1>5

\* The latest checkpoint is the one that was completed last.
LEMMA LatestCompleted ==
    ASSUME DrillShape, NEW c \in [id : Nat, position : Nat], completed' = Append(completed, c)
    PROVE  Latest' = c
<1>1. completed \in Seq([id : Nat, position : Nat]) /\ Len(completed) \in Nat
  BY DEF DrillShape
<1>2. Len(completed') = Len(completed) + 1 /\ completed'[Len(completed) + 1] = c
  BY <1>1
<1>3. completed' # <<>>
  BY <1>1, <1>2
<1> QED
  BY <1>2, <1>3 DEF Latest

\* Steps of the command that move nothing but its own record.
LEMMA CommandKeeps ==
    ASSUME DrillInv, DrillShape', UNCHANGED <<topic, jobVars>>,
           drill'.noted = drill.noted, drill'.baseline = drill.baseline,
           drill.pc \notin {"start", "trigger"} => drill'.pc \notin {"start", "trigger"},
           drill'.pc \in AfterPublish => drill.pc \in AfterPublish,
           ReplayProgress'
    PROVE  DrillInv'
<1>1. UNCHANGED <<topic, flink, completed, begun, dead, reads>> /\ Latest' = Latest
  BY DEF jobVars, Latest
<1>2. CheckpointsBehind' /\ DownIsIdle' /\ ReadFromZero' /\ EffectsAreRead'
  BY <1>1 DEF DrillInv, CheckpointsBehind, DownIsIdle, ReadFromZero, EffectsAreRead
<1>3. BaselineIsBefore' /\ NotedLast'
  BY <1>1 DEF DrillInv, BaselineIsBefore, NotedLast
<1> QED
  BY <1>2, <1>3 DEF DrillInv

\* The job's steps leave the command where it is; those that read nothing more keep
\* what its progress rests on.
LEMMA ReadingKeeps ==
    ASSUME DrillInv, DrillShape', UNCHANGED <<topic, drill, begun, completed>>,
           flink'.pending = flink.pending \/ flink'.pending = NoCheckpoint,
           flink'.position = flink.position, reads' = reads,
           DownIsIdle', EffectsAreRead', \A k \in Offsets : dead'[k] >= dead[k]
    PROVE  DrillInv'
<1>1. Latest' = Latest /\ NoCheckpoint.position = 0 /\ NoCheckpoint.id = 0
  BY DEF Latest, NoCheckpoint
<1>2. CheckpointsBehind'
  BY <1>1, DrillNumbers DEF DrillInv, CheckpointsBehind
<1>3. BaselineIsBefore'
  BY <1>1, DrillNumbers DEF DrillInv, BaselineIsBefore
<1>4. ReadFromZero'
  BY <1>1 DEF DrillInv, ReadFromZero
<1>5. ReplayProgress'
  <2>1. ReplayedUpTo(0)
    BY DEF ReplayedUpTo
  <2>2. drill.pc \in AfterCheck => ReplayedUpTo(flink.position) /\ ReplayedUpTo(Latest.position)
                                   /\ ReplayedUpTo(flink'.pending.position)
    BY <1>1, <2>1 DEF DrillInv, ReplayProgress
  <2>3. drill.pc \in AfterCheck => (ReplayedUpTo(flink.position) /\ ReplayedUpTo(Latest.position)
                                    /\ ReplayedUpTo(flink.pending.position))'
    BY <1>1, <2>2 DEF ReplayedUpTo
  <2>4. drill.pc = "passed" => \A n \in drill.noted : dead'[n] >= 2
    <3>1. \A n \in drill.noted : dead[n] \in Nat /\ dead'[n] \in Nat /\ dead'[n] >= dead[n]
      BY DrillNumbers DEF DrillInv, DrillShape
    <3> QED
      BY <3>1 DEF DrillInv, ReplayProgress
  <2> QED
    BY <1>1, <2>3, <2>4 DEF DrillInv, ReplayProgress
<1>6. NotedLast'
  BY DEF DrillInv, NotedLast
<1> QED
  BY <1>2, <1>3, <1>4, <1>5, <1>6 DEF DrillInv

\* A record is read once more.
LEMMA ReadProbeStep ==
    ASSUME DrillInv, ReadProbe
    PROVE  DrillInv'
<1> DEFINE p == flink.position
<1>0. DrillShape
  BY DEF DrillInv
<1>1. /\ p \in Nat /\ p < Len(topic) /\ Len(topic) \in Nat /\ MaxTopic \in Nat
      /\ p + 1 \in Offsets /\ Len(topic) <= MaxTopic
  BY <1>0, DrillNumbers DEF ReadProbe, DrillShape, Offsets
<1>2. /\ UNCHANGED <<topic, completed, begun, dead, drill>> /\ Latest' = Latest
      /\ flink'.position = p + 1 /\ flink'.pending = flink.pending
      /\ flink'.buffer = flink.buffer \cup {p + 1} /\ flink' \in FlinkJob
      /\ flink'.state = flink.state /\ flink'.tasks = flink.tasks
  <2>1. UNCHANGED <<topic, completed, begun, dead, drill>> /\ Latest' = Latest
    BY DEF ReadProbe, Latest
  <2>2. flink' = [flink EXCEPT !.position = @ + 1, !.buffer = @ \cup {flink.position + 1}]
    BY DEF ReadProbe
  <2>3. flink \in FlinkJob
    BY <1>0 DEF DrillShape
  <2>4. /\ flink'.position = p + 1 /\ flink'.pending = flink.pending
        /\ flink'.buffer = flink.buffer \cup {p + 1}
        /\ flink'.state = flink.state /\ flink'.tasks = flink.tasks
    BY <2>2, <2>3 DEF FlinkJob
  <2>5. flink' \in FlinkJob
    <3>1. flink.position + 1 \in Nat /\ flink.buffer \cup {flink.position + 1} \in SUBSET Offsets
      BY <1>1, <2>3 DEF FlinkJob
    <3> QED
      BY <2>2, <2>3, <3>1 DEF FlinkJob
  <2> QED
    BY <2>1, <2>4, <2>5
<1>3. /\ reads' \in [Offsets -> Nat]
      /\ \A k \in Offsets : reads'[k] = IF k = p + 1 THEN reads[k] + 1 ELSE reads[k]
  BY <1>0, <1>1 DEF ReadProbe, DrillShape
<1>4. \A k \in Offsets : k \in Nat /\ dead[k] \in Nat /\ reads[k] \in Nat
  BY <1>0, DrillNumbers
<1>5. flink.pending \in [id : Nat, position : Nat] /\ Latest \in [id : Nat, position : Nat]
  BY <1>0, DrillNumbers
<1> HIDE DEF p
<1>6. DrillShape'
  BY <1>0, <1>1, <1>2, <1>3 DEF DrillShape
<1>7. CheckpointsBehind' /\ DownIsIdle' /\ BaselineIsBefore'
  <2>1. CheckpointsBehind'
    BY <1>1, <1>2, <1>5 DEF DrillInv, CheckpointsBehind, p
  <2>2. DownIsIdle' /\ BaselineIsBefore'
    BY <1>2 DEF DrillInv, DownIsIdle, BaselineIsBefore
  <2> QED
    BY <2>1, <2>2
<1>8. EffectsAreRead'
  <2> SUFFICES ASSUME NEW k \in Offsets
               PROVE  dead[k] <= reads'[k] /\ (k \in flink'.buffer => dead[k] < reads'[k])
    BY <1>2 DEF EffectsAreRead
  <2>1. dead[k] <= reads[k] /\ (k \in flink.buffer => dead[k] < reads[k])
    BY DEF DrillInv, EffectsAreRead
  <2> QED
    BY <1>2, <1>3, <1>4, <2>1
<1>9. ReadFromZero'
  <2> SUFFICES ASSUME Latest.position = 0, NEW k \in Offsets, NEW n \in Offsets, k <= n
               PROVE  /\ reads'[n] <= reads'[k]
                      /\ k <= p + 1 /\ p + 1 < n => reads'[n] < reads'[k]
    BY <1>2 DEF ReadFromZero
  <2>1. /\ reads[n] <= reads[k]
        /\ k <= p /\ p < n => reads[n] < reads[k]
    BY DEF DrillInv, ReadFromZero, p
  <2> QED
    BY <1>1, <1>3, <1>4, <2>1
<1>10. ReplayProgress'
  <2>1. \A k \in Offsets : reads[k] <= reads'[k] /\ reads'[k] \in Nat
    BY <1>3, <1>4
  <2>2. drill.noted \subseteq Offsets /\ \A n \in Offsets : \A k \in 1 .. n : k \in Offsets
    BY <1>0, DrillNumbers
  <2>3. drill.pc \in AfterCheck \cup {"check"} => \A n \in drill.noted : reads'[n] >= 1
    BY <1>4, <2>1, <2>2 DEF DrillInv, ReplayProgress
  <2>4. ASSUME drill.pc \in AfterCheck
        PROVE  /\ \A n \in drill.noted : \A k \in 1 .. n :
                      reads'[k] >= 1 /\ (reads'[n] >= 2 => reads'[k] >= 2)
               /\ \A n \in drill.noted : p + 1 < n => \A k \in 1 .. (p + 1) : reads'[k] >= 2
    <3>1. ASSUME NEW n \in drill.noted, NEW k \in 1 .. n
          PROVE  reads[k] >= 1 /\ (reads[n] >= 2 => reads[k] >= 2)
      BY <2>4 DEF DrillInv, ReplayProgress
    <3>2. ASSUME NEW n \in drill.noted, p < n, NEW k \in 1 .. p
          PROVE  reads[k] >= 2
      BY <2>4, <3>2 DEF DrillInv, ReplayProgress, ReplayedUpTo, p
    <3>3. ASSUME NEW n \in drill.noted, p < n, NEW k \in 1 .. (p + 1)
          PROVE  reads'[k] >= 2
      <4>1. k \in 1 .. n /\ k \in Offsets /\ n \in Nat
        BY <1>1, <1>4, <2>2, <3>3
      <4>2. CASE k = p + 1
        BY <1>3, <1>4, <3>1, <4>1, <4>2
      <4>3. CASE k # p + 1
        <5>1. k \in 1 .. p
          BY <1>1, <3>3, <4>3
        <5> QED
          BY <1>3, <3>2, <3>3, <4>1, <4>3, <5>1
      <4> QED
        BY <4>2, <4>3
    <3>4. ASSUME NEW n \in drill.noted, NEW k \in 1 .. n
          PROVE  reads'[k] >= 1 /\ (reads'[n] >= 2 => reads'[k] >= 2)
      <4>1. n \in Offsets /\ k \in Offsets /\ n \in Nat
        BY <1>4, <2>2
      <4>2. CASE n = p + 1
        BY <1>1, <1>4, <2>1, <3>1, <3>3, <4>1, <4>2
      <4>3. CASE n # p + 1
        BY <1>3, <1>4, <2>1, <3>1, <4>1, <4>3
      <4> QED
        BY <4>2, <4>3
    <3>5. \A n \in drill.noted : n \in Nat
      BY <1>4, <2>2
    <3>6. ASSUME NEW n \in drill.noted, p + 1 < n, NEW k \in 1 .. (p + 1)
          PROVE  reads'[k] >= 2
      BY <1>1, <3>3, <3>5, <3>6
    <3> QED
      BY <3>4, <3>6
  <2>5. ASSUME NEW q \in Nat, ReplayedUpTo(q), drill.pc \in AfterCheck
        PROVE  \A n \in drill.noted : q < n => \A k \in 1 .. q : reads'[k] >= 2
    <3> SUFFICES ASSUME NEW n \in drill.noted, q < n, NEW k \in 1 .. q
                 PROVE  reads'[k] >= 2
      OBVIOUS
    <3>1. n \in Nat /\ k \in 1 .. n
      BY <1>4, <2>2, <2>5
    <3>2. reads[k] >= 2 /\ k \in Offsets
      BY <2>2, <2>5, <3>1 DEF ReplayedUpTo
    <3> QED
      BY <1>4, <2>1, <3>2
  <2>6. drill.pc \in AfterCheck => /\ ReplayedUpTo(Latest.position)
                                   /\ ReplayedUpTo(flink.pending.position)
    BY DEF DrillInv, ReplayProgress
  <2>7. drill.pc \in AfterCheck => (ReplayedUpTo(flink.position) /\ ReplayedUpTo(Latest.position)
                                   /\ ReplayedUpTo(flink.pending.position))'
    BY <1>2, <1>5, <2>4, <2>5, <2>6 DEF ReplayedUpTo
  <2>8. drill.pc = "passed" => \A n \in drill.noted : dead'[n] >= 2
    BY <1>2 DEF DrillInv, ReplayProgress
  <2> QED
    BY <1>2, <2>3, <2>4, <2>7, <2>8 DEF ReplayProgress
<1>11. NotedLast'
  BY <1>2 DEF DrillInv, NotedLast
<1> QED
  BY <1>6, <1>7, <1>8, <1>9, <1>10, <1>11 DEF DrillInv

\* Effects that are written were in the buffer; a loss empties it.
LEMMA JobStepsThatReadNothing ==
    ASSUME DrillInv, (\E k \in Offsets : WriteEffect(k)) \/ FailJob \/ NoticeLoss
    PROVE  DrillInv'
<1>0. DrillShape /\ flink \in FlinkJob /\ NoCheckpoint \in [id : Nat, position : Nat]
  BY DEF DrillInv, DrillShape, NoCheckpoint
<1>1. ASSUME NEW k \in Offsets, WriteEffect(k)
      PROVE  DrillInv'
  <2>1. /\ UNCHANGED <<topic, completed, begun, reads, drill>>
        /\ flink' = [flink EXCEPT !.buffer = @ \ {k}] /\ k \in flink.buffer
        /\ dead' \in {dead, [dead EXCEPT ![k] = @ + 1]}
    BY <1>1 DEF WriteEffect
  <2>2. /\ flink' \in FlinkJob /\ flink'.position = flink.position /\ flink'.pending = flink.pending
        /\ flink'.buffer = flink.buffer \ {k}
        /\ flink'.state = flink.state /\ flink'.tasks = flink.tasks
    BY <1>0, <2>1 DEF FlinkJob
  <2>3. /\ dead' \in [Offsets -> Nat] /\ dead'[k] \in {dead[k], dead[k] + 1}
        /\ \A j \in Offsets \ {k} : dead'[j] = dead[j]
    <3>1. dead \in [Offsets -> Nat]
      BY <1>0 DEF DrillShape
    <3>2. CASE dead' = dead
      BY <3>1, <3>2
    <3>3. CASE dead' = [dead EXCEPT ![k] = @ + 1]
      BY <3>1, <3>3
    <3> QED
      BY <2>1, <3>2, <3>3
  <2>4. DrillShape'
    BY <1>0, <2>1, <2>2, <2>3 DEF DrillShape
  <2>5. \A j \in Offsets : dead[j] \in Nat /\ reads[j] \in Nat
    BY <1>0, DrillNumbers
  <2>6. \A j \in Offsets : dead'[j] >= dead[j]
    BY <2>3, <2>5
  <2>7. EffectsAreRead'
    <3> SUFFICES ASSUME NEW j \in Offsets
                 PROVE  dead'[j] <= reads[j] /\ (j \in flink'.buffer => dead'[j] < reads[j])
      BY <2>1 DEF EffectsAreRead
    <3>1. dead[j] <= reads[j] /\ (j \in flink.buffer => dead[j] < reads[j])
      BY DEF DrillInv, EffectsAreRead
    <3> QED
      BY <2>1, <2>2, <2>3, <2>5, <3>1
  <2>8. DownIsIdle'
    BY <2>2 DEF DrillInv, DownIsIdle
  <2> QED
    BY <2>1, <2>2, <2>4, <2>6, <2>7, <2>8, ReadingKeeps
<1>2. CASE FailJob \/ NoticeLoss
  <2>1. UNCHANGED <<topic, completed, begun, dead, reads, drill>>
    BY <1>2 DEF FailJob, NoticeLoss
  <2>2. /\ flink' \in FlinkJob /\ flink'.position = flink.position
        /\ flink'.pending \in {flink.pending, NoCheckpoint} /\ flink'.buffer \subseteq flink.buffer
    BY <1>0, <1>2 DEF FailJob, NoticeLoss, Lost, FlinkJob
  <2>6. DownIsIdle'
    <3>1. CASE FailJob
      BY <1>0, <3>1 DEF FailJob, Lost, FlinkJob, DownIsIdle
    <3>2. CASE NoticeLoss
      BY <1>0, <3>2 DEF NoticeLoss, FlinkJob, DownIsIdle, DrillInv
    <3> QED
      BY <1>2, <3>1, <3>2
  <2>3. DrillShape'
    BY <1>0, <2>1, <2>2 DEF DrillShape
  <2>4. EffectsAreRead'
    BY <2>1, <2>2 DEF DrillInv, EffectsAreRead
  <2>5. \A j \in Offsets : dead'[j] >= dead[j]
    BY <1>0, <2>1, DrillNumbers
  <2> QED
    BY <2>1, <2>2, <2>3, <2>4, <2>5, <2>6, ReadingKeeps
<1> QED
  BY <1>1, <1>2

\* A checkpoint begins where the source is; the baseline before any record.
LEMMA BeginStep ==
    ASSUME DrillInv, Begin, UNCHANGED <<topic, completed, dead, reads>>,
           \/ UNCHANGED drill
           \/ /\ drill.pc = "start"
              /\ drill' = [drill EXCEPT !.pc = "trigger", !.baseline = begun + 1]
    PROVE  DrillInv'
<1>0. DrillShape
  BY DEF DrillInv
<1>1. /\ begun \in Nat /\ flink.position \in Nat /\ Latest \in [id : Nat, position : Nat]
      /\ drill.baseline \in Nat /\ flink \in FlinkJob /\ Len(topic) \in Nat
      /\ Latest' = Latest /\ drill \in Drill
  BY <1>0, DrillNumbers DEF DrillShape, Latest
<1>2. /\ begun' = begun + 1
      /\ flink' = [flink EXCEPT !.pending = [id |-> begun + 1, position |-> flink.position]]
  BY DEF Begin
<1>3. /\ flink' \in FlinkJob /\ flink'.position = flink.position /\ flink'.buffer = flink.buffer
      /\ flink'.pending.id = begun + 1 /\ flink'.pending.position = flink.position
      /\ flink'.state = flink.state /\ flink'.tasks /\ flink.tasks
  <2>1. [id |-> begun + 1, position |-> flink.position] \in [id : Nat, position : Nat] /\ flink.tasks
    BY <1>1 DEF Begin
  <2> QED
    BY <1>1, <1>2, <2>1 DEF FlinkJob
<1>4. /\ drill' \in Drill /\ drill'.next = drill.next /\ drill'.noted = drill.noted
      /\ \/ drill' = drill
         \/ drill.pc = "start" /\ drill'.pc = "trigger" /\ drill'.baseline = begun + 1
  <2>1. CASE UNCHANGED drill
    <3>1. drill' = drill /\ drill \in Drill
      BY <1>1, <2>1
    <3> QED
      BY <3>1
  <2>2. CASE drill.pc = "start" /\ drill' = [drill EXCEPT !.pc = "trigger", !.baseline = begun + 1]
    <3>1. begun + 1 \in Nat
      BY <1>1
    <3> QED
      BY <1>1, <2>2, <3>1 DEF Drill, DrillSteps
  <2> QED
    BY <2>1, <2>2
<1>5. DrillShape'
  BY <1>0, <1>1, <1>2, <1>3, <1>4 DEF DrillShape
<1>6. CheckpointsBehind'
  BY <1>1, <1>3 DEF DrillInv, CheckpointsBehind
<1>7. BaselineIsBefore'
  <2>1. /\ Latest.id <= begun /\ drill.baseline <= begun
        /\ Latest.id = drill.baseline => Latest.position = 0
        /\ drill.pc \in {"start", "trigger"} => Len(topic) = 0
    BY DEF DrillInv, BaselineIsBefore
  <2>2. Latest.id \in Nat /\ flink.position <= Len(topic)
    BY <1>0, <1>1 DEF DrillShape
  <2>3. CASE drill' = drill
    BY <1>1, <1>2, <1>3, <2>1, <2>2, <2>3 DEF BaselineIsBefore
  <2>4. CASE drill.pc = "start" /\ drill'.pc = "trigger" /\ drill'.baseline = begun + 1
    BY <1>1, <1>2, <1>3, <2>1, <2>2, <2>4 DEF BaselineIsBefore
  <2> QED
    BY <1>4, <2>3, <2>4
<1>8. DownIsIdle' /\ ReadFromZero' /\ EffectsAreRead'
  BY <1>1, <1>3 DEF DrillInv, DownIsIdle, ReadFromZero, EffectsAreRead
<1>9. ReplayProgress'
  <2>1. CASE drill' = drill
    <3>1. drill.pc \in AfterCheck => (ReplayedUpTo(flink.position) /\ ReplayedUpTo(Latest.position)
                                      /\ ReplayedUpTo(flink.pending.position))'
      BY <1>1, <1>3, <2>1 DEF DrillInv, ReplayProgress, ReplayedUpTo
    <3> QED
      BY <2>1, <3>1 DEF DrillInv, ReplayProgress
  <2>2. CASE drill'.pc = "trigger"
    BY <2>2 DEF ReplayProgress, AfterCheck
  <2> QED
    BY <1>4, <2>1, <2>2
<1>10. NotedLast'
  BY <1>4 DEF DrillInv, NotedLast, AfterPublish, AfterCheck
<1> QED
  BY <1>5, <1>6, <1>7, <1>8, <1>9, <1>10 DEF DrillInv

\* The checkpoint in progress becomes the latest.
LEMMA CompleteStep ==
    ASSUME DrillInv, CompleteCheckpoint
    PROVE  DrillInv'
<1>0. DrillShape
  BY DEF DrillInv
<1>1. /\ flink.pending \in [id : Nat, position : Nat] /\ flink.position \in Nat
      /\ flink \in FlinkJob /\ Latest \in [id : Nat, position : Nat] /\ begun \in Nat
      /\ completed \in Seq([id : Nat, position : Nat]) /\ drill.baseline \in Nat
      /\ NoCheckpoint \in [id : Nat, position : Nat] /\ NoCheckpoint.position = 0 /\ NoCheckpoint.id = 0
  BY <1>0, DrillNumbers DEF DrillShape, NoCheckpoint
<1>2. /\ UNCHANGED <<topic, begun, dead, reads, drill>> /\ flink.pending # NoCheckpoint
      /\ completed' = Append(completed, flink.pending)
      /\ flink' = [flink EXCEPT !.pending = NoCheckpoint]
  BY DEF CompleteCheckpoint
<1>3. /\ flink' \in FlinkJob /\ flink'.position = flink.position /\ flink'.buffer = flink.buffer
      /\ flink'.pending = NoCheckpoint /\ flink'.state = flink.state /\ flink'.tasks = flink.tasks
  BY <1>1, <1>2 DEF FlinkJob
<1>4. Latest' = flink.pending
  BY <1>0, <1>1, <1>2, LatestCompleted
<1>5. DrillShape'
  <2>1. completed' \in Seq([id : Nat, position : Nat])
    BY <1>1, <1>2
  <2> QED
    BY <1>0, <1>2, <1>3, <2>1 DEF DrillShape
<1>6. CheckpointsBehind' /\ BaselineIsBefore'
  <2>1. CheckpointsBehind'
    BY <1>1, <1>3, <1>4 DEF DrillInv, CheckpointsBehind
  <2>2. BaselineIsBefore'
    BY <1>1, <1>2, <1>3, <1>4 DEF DrillInv, BaselineIsBefore
  <2> QED
    BY <2>1, <2>2
<1>7. DownIsIdle' /\ ReadFromZero' /\ EffectsAreRead'
  <2>1. flink.pending.position = 0 => Latest.position = 0
    BY <1>1, <1>2 DEF DrillInv, CheckpointsBehind
  <2> QED
    BY <1>2, <1>3, <1>4, <2>1 DEF DrillInv, DownIsIdle, ReadFromZero, EffectsAreRead
<1>8. ReplayProgress'
  <2>1. ReplayedUpTo(0)
    BY DEF ReplayedUpTo
  <2>2. drill.pc \in AfterCheck => (ReplayedUpTo(flink.position) /\ ReplayedUpTo(Latest.position)
                                    /\ ReplayedUpTo(flink.pending.position))'
    BY <1>1, <1>2, <1>3, <1>4, <2>1 DEF DrillInv, ReplayProgress, ReplayedUpTo
  <2> QED
    BY <1>2, <2>2 DEF DrillInv, ReplayProgress
<1>9. NotedLast'
  BY <1>2 DEF DrillInv, NotedLast
<1> QED
  BY <1>5, <1>6, <1>7, <1>8, <1>9 DEF DrillInv

\* The source goes back to the latest checkpoint.
LEMMA RestoreStep ==
    ASSUME DrillInv, RestoreJob
    PROVE  DrillInv'
<1>0. DrillShape
  BY DEF DrillInv
<1>1. /\ flink.pending \in [id : Nat, position : Nat] /\ flink.position \in Nat
      /\ flink \in FlinkJob /\ Latest \in [id : Nat, position : Nat] /\ Len(topic) \in Nat
  BY <1>0, DrillNumbers DEF DrillShape
<1>2. /\ UNCHANGED <<topic, completed, begun, dead, reads, drill>> /\ Latest' = Latest
      /\ flink' = [flink EXCEPT !.state = "RUNNING", !.tasks = TRUE, !.position = Latest.position,
                                !.restored = Latest.id]
  BY DEF RestoreJob, Latest
<1>3. /\ flink' \in FlinkJob /\ flink'.position = Latest.position /\ flink'.buffer = flink.buffer
      /\ flink'.pending = flink.pending
  <2>1. Latest.position \in Nat /\ Latest.id \in Nat
    BY <1>1
  <2> QED
    BY <1>1, <1>2, <2>1 DEF FlinkJob
<1>4. flink.pending = NoCheckpoint /\ NoCheckpoint.position = 0
  BY DEF DrillInv, DownIsIdle, RestoreJob, NoCheckpoint
<1>5. DrillShape'
  BY <1>0, <1>1, <1>2, <1>3 DEF DrillInv, CheckpointsBehind, DrillShape
<1>6. CheckpointsBehind' /\ DownIsIdle' /\ BaselineIsBefore'
  <2>1. CheckpointsBehind'
    BY <1>1, <1>2, <1>3, <1>4 DEF CheckpointsBehind
  <2>2. DownIsIdle'
    BY <1>1, <1>2 DEF DownIsIdle, FlinkJob
  <2>3. BaselineIsBefore'
    BY <1>2, <1>3 DEF DrillInv, BaselineIsBefore
  <2> QED
    BY <2>1, <2>2, <2>3
<1>7. ReadFromZero' /\ EffectsAreRead'
  <2>1. \A k \in Offsets : k > 0
    BY DEF Offsets
  <2>2. ReadFromZero'
    <3> SUFFICES ASSUME Latest.position = 0, NEW k \in Offsets, NEW n \in Offsets, k <= n
                 PROVE  reads[n] <= reads[k] /\ ~(k <= 0)
      BY <1>2, <1>3 DEF ReadFromZero
    <3>1. k \in Nat
      BY <1>0, DrillNumbers
    <3> QED
      BY <2>1, <3>1 DEF DrillInv, ReadFromZero
  <2> QED
    BY <1>2, <1>3, <2>2 DEF DrillInv, EffectsAreRead
<1>8. ReplayProgress'
  <2>1. drill.pc \in AfterCheck => (ReplayedUpTo(flink.position) /\ ReplayedUpTo(Latest.position)
                                    /\ ReplayedUpTo(flink.pending.position))'
    BY <1>2, <1>3 DEF DrillInv, ReplayProgress, ReplayedUpTo
  <2> QED
    BY <1>2, <2>1 DEF DrillInv, ReplayProgress
<1>9. NotedLast'
  BY <1>2 DEF DrillInv, NotedLast
<1> QED
  BY <1>5, <1>6, <1>7, <1>8, <1>9 DEF DrillInv

\* A record is sent.
LEMMA PublishProbeStep ==
    ASSUME DrillInv, PublishProbe
    PROVE  DrillInv'
<1>0. DrillShape
  BY DEF DrillInv
<1>1. /\ Len(topic) \in Nat /\ MaxTopic \in Nat /\ Len(topic) + 1 \in Offsets
      /\ flink.position \in Nat /\ drill \in Drill
      /\ drill.pc = "publish" /\ Probe[drill.next] \in ProbeRecords
  <2>1. drill.pc = "publish" /\ Len(topic) < MaxTopic
    BY DEF PublishProbe
  <2>2. drill.next \in 1 .. Len(Probe)
    BY <1>0, <2>1, DrillAssumption DEF DrillShape, Drill
  <2> QED
    BY <1>0, <2>1, <2>2, DrillNumbers DEF DrillShape, Offsets, ProbeRecords
<1>2. /\ UNCHANGED <<flink, completed, begun, dead, reads>> /\ Latest' = Latest
      /\ topic' = Append(topic, Probe[drill.next])
  BY DEF PublishProbe, jobVars, Latest
<1>3. /\ topic' \in Seq(ProbeRecords) /\ Len(topic') = Len(topic) + 1 /\ Len(topic') <= MaxTopic
  BY <1>0, <1>1, <1>2 DEF DrillShape, PublishProbe
<1>4. /\ drill' \in Drill /\ drill'.next >= 1 /\ drill'.baseline = drill.baseline
      /\ drill'.pc \in {"publish", "first"}
      /\ drill'.pc = "first" => Len(topic) + 1 \in drill'.noted
      /\ drill'.pc = "publish" => drill'.next <= Len(Probe)
  <2>1. /\ drill.next \in Nat /\ drill.next >= 1 /\ drill.next <= Len(Probe) /\ Len(Probe) \in Nat
        /\ drill.noted \in SUBSET Offsets
    BY <1>0, <1>1, DrillAssumption DEF DrillShape, Drill
  <2>2. CASE UNCHANGED drill
    BY <1>1, <2>1, <2>2
  <2>3. CASE drill' = [drill EXCEPT
                    !.pc = IF drill.next = Len(Probe) THEN "first" ELSE "publish",
                    !.next = @ + 1,
                    !.noted = IF Probe[drill.next] \in Invalid THEN @ \cup {Len(topic) + 1} ELSE @]
    <3>1. PICK pc, noted : /\ pc = IF drill.next = Len(Probe) THEN "first" ELSE "publish"
                           /\ noted = IF Probe[drill.next] \in Invalid
                                      THEN drill.noted \cup {Len(topic) + 1} ELSE drill.noted
      OBVIOUS
    <3>2. drill' = [drill EXCEPT !.pc = pc, !.next = @ + 1, !.noted = noted]
      BY <2>3, <3>1
    <3>3. pc \in {"publish", "first"} /\ noted \in SUBSET Offsets /\ drill.next + 1 \in Nat
      BY <1>1, <2>1, <3>1
    <3>4. /\ drill'.pc = pc /\ drill'.next = drill.next + 1 /\ drill'.baseline = drill.baseline
          /\ drill' \in Drill /\ drill'.noted = noted
      BY <1>1, <3>2, <3>3 DEF Drill, DrillSteps
    <3>5. pc = "first" => Len(topic) + 1 \in noted
      BY <3>1, DrillAssumption
    <3> QED
      BY <2>1, <3>1, <3>3, <3>4, <3>5
  <2> QED
    BY <2>2, <2>3 DEF PublishProbe
<1>5. DrillShape'
  BY <1>0, <1>1, <1>2, <1>3, <1>4 DEF DrillShape
<1>6. CheckpointsBehind' /\ DownIsIdle' /\ BaselineIsBefore'
  BY <1>2, <1>4 DEF DrillInv, CheckpointsBehind, DownIsIdle, BaselineIsBefore
<1>7. ReadFromZero' /\ EffectsAreRead'
  BY <1>2 DEF DrillInv, ReadFromZero, EffectsAreRead
<1>8. ReplayProgress' /\ NotedLast'
  BY <1>3, <1>4 DEF ReplayProgress, NotedLast, AfterPublish, AfterCheck
<1> QED
  BY <1>5, <1>6, <1>7, <1>8 DEF DrillInv

\* The command's record when only its step changes.
LEMMA GoKeepsShape ==
    ASSUME DrillShape, NEW pc \in DrillSteps \ {"start", "trigger"}, Go(pc),
           UNCHANGED <<topic, flink, completed, begun, dead, reads>>,
           pc = "publish" => drill.pc = "trigger"
    PROVE  /\ DrillShape' /\ drill'.pc = pc /\ drill'.noted = drill.noted
           /\ drill'.baseline = drill.baseline
<1>1. drill \in Drill /\ drill' = [drill EXCEPT !.pc = pc]
  BY DEF DrillShape, Go
<1>2. /\ drill' \in Drill /\ drill'.pc = pc /\ drill'.noted = drill.noted
      /\ drill'.baseline = drill.baseline /\ drill'.next = drill.next
  BY <1>1 DEF Drill
<1> QED
  BY <1>2 DEF DrillShape

\* A step that is not checked yet, or that only looks at the job.
LEMMA LookingSteps ==
    ASSUME DrillInv, UNCHANGED <<topic, jobVars>>, NEW pc \in DrillSteps \ {"start", "trigger"}, Go(pc),
           \/ pc = "publish" /\ drill.pc = "trigger"
           \/ pc = "failed"
           \/ pc \in AfterCheck \ {"passed"} /\ drill.pc \in AfterCheck
    PROVE  DrillInv'
<1>1. UNCHANGED <<topic, flink, completed, begun, dead, reads>> /\ Latest' = Latest
  BY DEF jobVars, Latest
<1>2. pc = "publish" => drill.pc = "trigger"
  BY DEF AfterCheck
<1>3. /\ DrillShape' /\ drill'.pc = pc /\ drill'.noted = drill.noted /\ drill'.baseline = drill.baseline
  BY <1>1, <1>2, GoKeepsShape DEF DrillInv
<1>4. ReplayProgress'
  <2>1. CASE pc \in {"publish", "failed"}
    BY <1>3, <2>1 DEF ReplayProgress, AfterCheck
  <2>2. CASE pc \in AfterCheck \ {"passed"} /\ drill.pc \in AfterCheck
    <3>1. (ReplayedUpTo(flink.position) /\ ReplayedUpTo(Latest.position)
           /\ ReplayedUpTo(flink.pending.position))'
      BY <1>1, <1>3, <2>2 DEF DrillInv, ReplayProgress, ReplayedUpTo
    <3> QED
      BY <1>1, <1>3, <2>2, <3>1 DEF DrillInv, ReplayProgress, AfterCheck
  <2> QED
    BY <2>1, <2>2
<1>5. drill'.pc \in AfterPublish => drill.pc \in AfterPublish
  BY <1>3 DEF AfterPublish, AfterCheck
<1> QED
  BY <1>3, <1>4, <1>5, CommandKeeps

\* The first deliveries: every noted record has been read.
LEMMA VerifyFirstStep ==
    ASSUME DrillInv, VerifyFirst
    PROVE  DrillInv'
<1>1. UNCHANGED <<topic, jobVars>> /\ UNCHANGED <<topic, flink, completed, begun, dead, reads>> /\ Go("check")
  BY DEF VerifyFirst, jobVars
<1>2. /\ DrillShape' /\ drill'.pc = "check" /\ drill'.noted = drill.noted
      /\ drill'.baseline = drill.baseline
  BY <1>1, GoKeepsShape DEF DrillInv, DrillSteps
<1>3. \A n \in drill.noted : reads[n] >= 1
  <2> SUFFICES ASSUME NEW n \in drill.noted
               PROVE  reads[n] >= 1
    OBVIOUS
  <2>1. n \in Offsets /\ dead[n] \in Nat /\ reads[n] \in Nat
    BY DrillNumbers DEF DrillInv
  <2>2. dead[n] >= 1
    BY DEF VerifyFirst, Verified
  <2> QED
    BY <2>1, <2>2 DEF DrillInv, EffectsAreRead
<1>4. ReplayProgress'
  BY <1>1, <1>2, <1>3 DEF ReplayProgress, AfterCheck
<1>5. drill.pc \in AfterPublish
  BY DEF VerifyFirst, AfterPublish
<1> QED
  BY <1>1, <1>2, <1>4, <1>5, CommandKeeps

\* No checkpoint is newer than the baseline: whatever the job does from here on,
\* it has the whole probe behind it once.
LEMMA CheckStep ==
    ASSUME DrillInv, CheckNoNewer
    PROVE  DrillInv'
<1>0. DrillShape
  BY DEF DrillInv
<1>1. UNCHANGED <<topic, jobVars>> /\ UNCHANGED <<topic, flink, completed, begun, dead, reads>>
      /\ Latest' = Latest
  BY DEF CheckNoNewer, jobVars, Latest
<1>2. CASE ~(Latest.id = drill.baseline /\ flink.pending = NoCheckpoint)
  <2>1. Go("failed")
    BY <1>2 DEF CheckNoNewer
  <2> QED
    BY <1>1, <2>1, LookingSteps DEF DrillSteps
<1>3. CASE Latest.id = drill.baseline /\ flink.pending = NoCheckpoint
  <2>1. Go("kill") /\ drill.pc = "check"
    BY <1>3 DEF CheckNoNewer
  <2>2. /\ DrillShape' /\ drill'.pc = "kill" /\ drill'.noted = drill.noted
        /\ drill'.baseline = drill.baseline
    BY <1>0, <1>1, <2>1, GoKeepsShape DEF DrillSteps
  <2>3. Latest.position = 0 /\ flink.pending.position = 0
    BY <1>3 DEF DrillInv, BaselineIsBefore, NoCheckpoint
  <2>4. \A k, n \in Offsets : k <= n =>
            /\ reads[n] <= reads[k]
            /\ k <= flink.position /\ flink.position < n => reads[n] < reads[k]
    BY <2>3 DEF DrillInv, ReadFromZero
  <2>5. \A n \in drill.noted : n \in Offsets /\ n \in Nat /\ reads[n] \in Nat /\ reads[n] >= 1
    BY <1>0, <2>1, DrillNumbers DEF DrillInv, ReplayProgress
  <2>6. \A n \in drill.noted : \A k \in 1 .. n : k \in Offsets /\ k \in Nat /\ k <= n /\ reads[k] \in Nat
    BY <1>0, <2>5, DrillNumbers
  <2>7. \A n \in drill.noted : \A k \in 1 .. n : reads[k] >= 1 /\ (reads[n] >= 2 => reads[k] >= 2)
    BY <2>4, <2>5, <2>6
  <2>8. ReplayedUpTo(flink.position)
    <3> SUFFICES ASSUME NEW n \in drill.noted, flink.position < n, NEW k \in 1 .. flink.position
                 PROVE  reads[k] >= 2
      BY DEF ReplayedUpTo
    <3>1. flink.position \in Nat /\ n \in Nat
      BY <1>0, <2>5, DrillNumbers
    <3>2. k \in 1 .. n /\ k <= flink.position
      BY <3>1
    <3> QED
      BY <2>4, <2>5, <2>6, <3>2
  <2>9. ReplayedUpTo(0)
    BY DEF ReplayedUpTo
  <2>10. (ReplayedUpTo(flink.position) /\ ReplayedUpTo(Latest.position)
          /\ ReplayedUpTo(flink.pending.position))'
    BY <1>1, <2>2, <2>3, <2>8, <2>9 DEF ReplayedUpTo
  <2>11. ReplayProgress'
    BY <1>1, <2>2, <2>5, <2>7, <2>10 DEF ReplayProgress, AfterCheck
  <2>12. drill.pc \in AfterPublish
    BY <2>1 DEF AfterPublish
  <2> QED
    BY <1>1, <2>2, <2>11, <2>12, CommandKeeps
<1> QED
  BY <1>2, <1>3

\* The TaskManager is killed, or started again.
LEMMA ServerSteps ==
    ASSUME DrillInv, KillServer \/ StartServer
    PROVE  DrillInv'
<1>0. DrillShape /\ flink \in FlinkJob /\ NoCheckpoint \in [id : Nat, position : Nat]
      /\ NoCheckpoint.position = 0 /\ NoCheckpoint.id = 0
  BY DEF DrillInv, DrillShape, NoCheckpoint
<1>1. UNCHANGED <<topic, completed, begun, dead, reads>> /\ Latest' = Latest
  BY DEF KillServer, StartServer, Latest
<1>2. /\ flink' \in FlinkJob /\ flink'.position = flink.position
      /\ flink'.pending \in {flink.pending, NoCheckpoint} /\ flink'.buffer \subseteq flink.buffer
  BY <1>0 DEF KillServer, StartServer, Lost, FlinkJob
<1>3. DownIsIdle'
  <2>1. CASE KillServer
    BY <1>0, <2>1 DEF KillServer, Lost, FlinkJob, DownIsIdle
  <2>2. CASE StartServer
    BY <1>0, <2>2 DEF StartServer, FlinkJob, DownIsIdle, DrillInv
  <2> QED
    BY <2>1, <2>2
<1>4. PICK pc \in {"revive", "restore", "failed"} : Go(pc) /\ drill.pc \in AfterCheck
  BY DEF KillServer, StartServer, AfterCheck
<1>5. /\ drill' \in Drill /\ drill'.pc = pc /\ drill'.noted = drill.noted
      /\ drill'.baseline = drill.baseline /\ drill'.next = drill.next
  <2>1. drill \in Drill /\ drill' = [drill EXCEPT !.pc = pc] /\ pc \in DrillSteps
    BY <1>0, <1>4 DEF DrillShape, Go, DrillSteps
  <2> QED
    BY <2>1 DEF Drill
<1>6. DrillShape'
  BY <1>0, <1>1, <1>2, <1>5 DEF DrillShape
<1>7. CheckpointsBehind' /\ BaselineIsBefore'
  <2>1. CheckpointsBehind'
    BY <1>0, <1>1, <1>2, DrillNumbers DEF DrillInv, CheckpointsBehind
  <2>2. BaselineIsBefore'
    BY <1>0, <1>1, <1>2, <1>5, DrillNumbers DEF DrillInv, BaselineIsBefore
  <2> QED
    BY <2>1, <2>2
<1>8. ReadFromZero' /\ EffectsAreRead'
  BY <1>1, <1>2 DEF DrillInv, ReadFromZero, EffectsAreRead
<1>9. ReplayProgress'
  <2>1. ReplayedUpTo(0)
    BY DEF ReplayedUpTo
  <2>2. ReplayedUpTo(flink.position) /\ ReplayedUpTo(Latest.position) /\ ReplayedUpTo(flink'.pending.position)
    BY <1>0, <1>2, <1>4, <2>1 DEF DrillInv, ReplayProgress
  <2>3. (ReplayedUpTo(flink.position) /\ ReplayedUpTo(Latest.position)
         /\ ReplayedUpTo(flink.pending.position))'
    BY <1>1, <1>2, <1>5, <2>2 DEF ReplayedUpTo
  <2>4. drill'.pc # "passed"
    BY <1>4, <1>5
  <2> QED
    BY <1>1, <1>4, <1>5, <2>3, <2>4 DEF DrillInv, ReplayProgress
<1>10. NotedLast'
  BY <1>1, <1>4, <1>5 DEF DrillInv, NotedLast, AfterPublish
<1> QED
  BY <1>3, <1>6, <1>7, <1>8, <1>9, <1>10 DEF DrillInv

\* The second deliveries.
LEMMA VerifySecondStep ==
    ASSUME DrillInv, VerifySecond
    PROVE  DrillInv'
<1>1. UNCHANGED <<topic, jobVars>> /\ UNCHANGED <<topic, flink, completed, begun, dead, reads>>
      /\ Go("passed") /\ Latest' = Latest /\ drill.pc = "second"
  BY DEF VerifySecond, jobVars, Latest
<1>2. /\ DrillShape' /\ drill'.pc = "passed" /\ drill'.noted = drill.noted
      /\ drill'.baseline = drill.baseline
  BY <1>1, GoKeepsShape DEF DrillInv, DrillSteps
<1>3. \A n \in drill.noted : dead[n] >= 2
  BY DEF VerifySecond, Verified
<1>4. (ReplayedUpTo(flink.position) /\ ReplayedUpTo(Latest.position)
       /\ ReplayedUpTo(flink.pending.position))'
  BY <1>1, <1>2 DEF DrillInv, ReplayProgress, ReplayedUpTo, AfterCheck
<1>5. ReplayProgress'
  BY <1>1, <1>2, <1>3, <1>4 DEF DrillInv, ReplayProgress, AfterCheck
<1>6. drill.pc \in AfterPublish
  BY <1>1 DEF AfterPublish, AfterCheck
<1> QED
  BY <1>1, <1>2, <1>5, <1>6, CommandKeeps

\* The drill's invariant.
LEMMA DrillAlways == DrillSpec => []DrillInv
<1>1. DrillInv /\ [DrillNext]_drillVars => DrillInv'
  <2> SUFFICES ASSUME DrillInv, [DrillNext]_drillVars
               PROVE  DrillInv'
    OBVIOUS
  <2>1. CASE JobNext
    <3>1. CASE BeginCheckpoint
      BY <3>1, BeginStep DEF BeginCheckpoint
    <3> QED
      BY <2>1, <3>1, ReadProbeStep, JobStepsThatReadNothing, CompleteStep, RestoreStep DEF JobNext
  <2>2. CASE Trigger
    BY <2>2, BeginStep DEF Trigger
  <2>3. CASE AwaitBaseline
    BY <2>3, LookingSteps DEF AwaitBaseline, DrillSteps
  <2>4. CASE SeeRunning
    BY <2>4, LookingSteps DEF SeeRunning, DrillSteps, AfterCheck
  <2>5. CASE SeeRestored
    <3>1. PICK pc \in {"second", "restore"} : Go(pc)
      BY <2>5 DEF SeeRestored
    <3>2. pc \in DrillSteps \ {"start", "trigger"} /\ pc \in AfterCheck \ {"passed"}
          /\ drill.pc \in AfterCheck /\ UNCHANGED <<topic, jobVars>>
      BY <2>5 DEF SeeRestored, DrillSteps, AfterCheck
    <3> QED
      BY <3>1, <3>2, LookingSteps
  <2>6. CASE GiveUpDrill
    BY <2>6, LookingSteps DEF GiveUpDrill, DrillSteps
  <2>7. CASE UNCHANGED drillVars
    <3>1. UNCHANGED <<topic, jobVars, drill>>
      BY <2>7 DEF drillVars
    <3>2. UNCHANGED <<topic, flink, completed, begun, dead, reads, drill>> /\ Latest' = Latest
      BY <3>1 DEF jobVars, Latest
    <3>3. DrillShape'
      BY <3>2 DEF DrillInv, DrillShape
    <3>4. (ReplayedUpTo(flink.position) /\ ReplayedUpTo(Latest.position)
           /\ ReplayedUpTo(flink.pending.position))'
          <=> (ReplayedUpTo(flink.position) /\ ReplayedUpTo(Latest.position)
               /\ ReplayedUpTo(flink.pending.position))
      BY <3>2 DEF ReplayedUpTo
    <3>5. ReplayProgress'
      BY <3>2, <3>4 DEF DrillInv, ReplayProgress
    <3> QED
      BY <3>1, <3>2, <3>3, <3>5, CommandKeeps
  <2> QED
    BY <2>1, <2>2, <2>3, <2>4, <2>5, <2>6, <2>7, PublishProbeStep, VerifyFirstStep, CheckStep,
       ServerSteps, VerifySecondStep DEF DrillNext, CommandNext
<1> QED
  BY <1>1, DrillStart, PTL DEF DrillSpec

\* When a drill passes, every record the probe put in the partition, repeated ones
\* included, has been read at least twice since the baseline, for every probe that
\* ends with an invalid record and any number of checkpoints and of failures by the
\* job itself at any moment (recovery_drill.py, run; recovery_probe.py, publish).
THEOREM PassMeansReplayed == DrillSpec => []PassShowsReplay
<1>1. ASSUME DrillInv
      PROVE  PassShowsReplay
  <2> SUFFICES ASSUME drill.pc = "passed", NEW k \in DOMAIN topic
               PROVE  reads[k] >= 2
    BY DEF PassShowsReplay
  <2>1. DrillShape
    BY <1>1 DEF DrillInv
  <2>2. PICK n : n = Len(topic)
    OBVIOUS
  <2>3. n \in drill.noted
    BY <1>1, <2>2 DEF DrillInv, NotedLast, AfterPublish, AfterCheck
  <2>4. n \in Offsets /\ dead[n] \in Nat /\ reads[n] \in Nat
    BY <2>1, <2>3, DrillNumbers
  <2>5. k \in 1 .. n
    BY <2>1, <2>2, LenProperties DEF DrillShape
  <2>6. dead[n] >= 2 /\ dead[n] <= reads[n]
    BY <1>1, <2>3, <2>4 DEF DrillInv, ReplayProgress, EffectsAreRead
  <2>7. reads[n] >= 2
    BY <2>4, <2>6
  <2> QED
    BY <1>1, <2>3, <2>5, <2>7 DEF DrillInv, ReplayProgress, AfterCheck
<1> QED
  BY <1>1, DrillAlways, PTL

-----------------------------------------------------------------------------
(* The replay of archived records.                                         *)

\* Of two members of a finite set of numbers the smaller has fewer before it, and
\* each has fewer before it than there are members.
LEMMA BeforeIsStrict ==
    ASSUME NEW S, S \subseteq Nat, IsFiniteSet(S)
    PROVE  /\ \A x \in S : Before(S, x) \in 0 .. Cardinality(S) - 1
           /\ \A x, y \in S : x < y => Before(S, x) < Before(S, y)
<1> DEFINE below(x) == {y \in S : y < x}
<1>1. \A x \in S : /\ IsFiniteSet(below(x)) /\ Cardinality(below(x)) \in Nat
                   /\ Before(S, x) = Cardinality(below(x))
  BY FS_Subset, FS_CardinalityType DEF Before
<1>2. Cardinality(S) \in Nat
  BY FS_CardinalityType
<1>3. ASSUME NEW x \in S
      PROVE  Cardinality(below(x)) <= Cardinality(S) - 1
  <2>1. below(x) \in SUBSET S /\ x \notin below(x) /\ S # below(x)
    OBVIOUS
  <2> HIDE DEF below
  <2>2. Cardinality(below(x)) <= Cardinality(S) /\ Cardinality(S) # Cardinality(below(x))
    BY <2>1, FS_Subset
  <2> QED
    BY <1>1, <1>2, <2>2
<1>4. ASSUME NEW x \in S, NEW y \in S, x < y
      PROVE  Cardinality(below(x)) < Cardinality(below(y))
  <2>1. below(x) \in SUBSET below(y) /\ x \in below(y) /\ x \notin below(x)
    <3>1. S \subseteq Int /\ x \in Int /\ y \in Int
      OBVIOUS
    <3>2. \A z \in S : z < x => z < y
      BY <1>4, <3>1
    <3>3. ~(x < x)
      BY <3>1
    <3> QED
      BY <1>4, <3>2, <3>3
  <2>2. IsFiniteSet(below(y))
    BY <1>1
  <2>3. below(x) # below(y)
    BY <2>1
  <2> HIDE DEF below
  <2>4. Cardinality(below(x)) <= Cardinality(below(y)) /\ Cardinality(below(x)) # Cardinality(below(y))
    BY <2>1, <2>2, <2>3, FS_Subset
  <2> QED
    BY <1>1, <2>4
<1> HIDE DEF below
<1> QED
  BY <1>1, <1>2, <1>3, <1>4

\* The records of a plan are those it was made of, each once.
LEMMA InOrderIsComplete ==
    ASSUME NEW S, S \subseteq Nat, IsFiniteSet(S)
    PROVE  /\ InOrder(S) \in Seq(S)
           /\ Len(InOrder(S)) = Cardinality(S)
           /\ {InOrder(S)[i] : i \in 1 .. Cardinality(S)} = S
<1> DEFINE N == Cardinality(S)
           rank == [x \in S |-> Before(S, x)]
<1>1. N \in Nat
  BY FS_CardinalityType
<1>2. \A x \in S : Before(S, x) \in 0 .. N - 1
  BY BeforeIsStrict
<1>3. \A x, y \in S : Before(S, x) = Before(S, y) => x = y
  <2> SUFFICES ASSUME NEW x \in S, NEW y \in S, x # y
               PROVE  Before(S, x) # Before(S, y)
    OBVIOUS
  <2>1. x \in Nat /\ y \in Nat /\ Before(S, x) \in Int /\ Before(S, y) \in Int
    BY <1>2
  <2>2. x < y \/ y < x
    BY <2>1
  <2>3. Before(S, x) < Before(S, y) \/ Before(S, y) < Before(S, x)
    BY <2>2, BeforeIsStrict
  <2> QED
    BY <2>1, <2>3
<1>4. rank \in Injection(S, 0 .. N - 1)
  BY <1>2, <1>3 DEF Injection, IsInjective
<1>5. IsFiniteSet(0 .. N - 1) /\ Cardinality(0 .. N - 1) = N
  <2>1. 0 \in Int /\ N - 1 \in Int
    BY <1>1
  <2>2. Cardinality(0 .. N - 1) = IF 0 > N - 1 THEN 0 ELSE (N - 1) - 0 + 1
    BY <2>1, FS_Interval
  <2> QED
    BY <1>1, <2>1, <2>2, FS_Interval
<1>6. rank \in Surjection(S, 0 .. N - 1)
  <2> HIDE DEF rank, N
  <2>1. Cardinality(S) = Cardinality(0 .. N - 1)
    BY <1>5 DEF N
  <2> QED
    BY <1>4, <1>5, <2>1, FS_Injection
<1>7. \A i \in 1 .. N : \E x \in S : Before(S, x) = i - 1
  <2> TAKE i \in 1 .. N
  <2>1. i - 1 \in 0 .. N - 1
    BY <1>1
  <2>2. \E x \in S : rank[x] = i - 1
    BY <1>6, <2>1 DEF Surjection
  <2> QED
    BY <2>2
<1>8. \A i \in 1 .. N : InOrder(S)[i] \in S /\ Before(S, InOrder(S)[i]) = i - 1
  BY <1>7 DEF InOrder
<1>9. InOrder(S) \in [1 .. N -> S]
  BY <1>7 DEF InOrder
<1>10. InOrder(S) \in Seq(S) /\ Len(InOrder(S)) = N
  BY <1>1, <1>9
<1>11. \A x \in S : \E i \in 1 .. N : InOrder(S)[i] = x
  <2> TAKE x \in S
  <2> DEFINE i == Before(S, x) + 1
  <2>1. i \in 1 .. N /\ i - 1 = Before(S, x)
    BY <1>1, <1>2
  <2>2. InOrder(S)[i] \in S /\ Before(S, InOrder(S)[i]) = Before(S, x)
    BY <1>8, <2>1
  <2>3. InOrder(S)[i] = x
    BY <1>3, <2>2
  <2> QED
    BY <2>1, <2>3
<1> QED
  BY <1>8, <1>10, <1>11

\* The file, whole or not.
Reports ==
    [entries : Seq([record : Records, offset : Nat]),
     status : {"empty", "torn", "publishing", "acknowledged", "partial_or_unknown"}]

\* The types of the rows, the topic and the runs.
ReplayShape ==
    /\ rows \in Seq(Records)
    /\ target \in Seq([record : Records, by : Replays \cup {Nil}])
    /\ replay \in [Replays -> Process]
    /\ manifest = [r \in Replays |-> manifest[r]]

\* The plan is made of the rows that were archived when the run was planned.
PlanIsPinned(r) ==
    replay[r].snapshot \in 0 .. Len(rows) /\ replay[r].plan = Planned(replay[r].snapshot)

\* What is acknowledged is the beginning of the plan, and in the topic.
AckedArePublished(r) ==
    /\ Len(replay[r].acked) <= Len(replay[r].plan)
    /\ \A k \in DOMAIN replay[r].acked :
          /\ replay[r].acked[k].record = replay[r].plan[k]
          /\ replay[r].acked[k].offset \in DOMAIN target
          /\ target[replay[r].acked[k].offset] = [record |-> replay[r].plan[k], by |-> r]

\* How far a run has come, by its phase.
PhaseFits(r) ==
    /\ replay[r].pc = "send" => Len(replay[r].acked) < Len(replay[r].plan)
    /\ replay[r].pc = "closing" => Len(replay[r].acked) = Len(replay[r].plan)
    /\ replay[r].tries > 0 => Len(replay[r].acked) < Len(replay[r].plan)
    /\ replay[r].pc \in {"idle", "planned", "refused"} =>
          /\ replay[r].acked = <<>> /\ manifest[r] = Nil /\ replay[r].tries = 0
          /\ \A i \in DOMAIN target : target[i].by # r
    /\ replay[r].pc \in {"send", "write", "flush", "closing", "failing"} => manifest[r] \in Reports
    /\ manifest[r] # Nil => manifest[r] \in Reports

\* A whole manifest is behind the acknowledgements, and while a record is being sent,
\* or may still be appended, it is not.
ReportFollows(r) ==
    /\ replay[r].pc = "send" =>
          manifest[r].status # "torn" /\ manifest[r].entries = replay[r].acked
    /\ manifest[r] # Nil /\ manifest[r].status # "torn" =>
          /\ Len(manifest[r].entries) <= Len(replay[r].acked)
          /\ \A k \in DOMAIN manifest[r].entries : manifest[r].entries[k] = replay[r].acked[k]
          /\ replay[r].tries > 0 => manifest[r].entries = replay[r].acked
          /\ BeginsPlan(r, Len(manifest[r].entries) + 1)
          /\ manifest[r].status = "acknowledged" =>
                Len(manifest[r].entries) = Len(replay[r].plan)

RunInv(r) ==
    /\ PlanIsPinned(r) /\ AckedArePublished(r) /\ PhaseFits(r)
    /\ BeginsPlan(r, Len(replay[r].acked) + 1) /\ ReportFollows(r)

ReplayInv == ReplayShape /\ \A r \in Replays : RunInv(r)

\* A run's plan is of the records archived by then, each once.
LEMMA PlannedIsComplete ==
    ASSUME ReplayAssumption, ReplayShape, NEW s \in 0 .. Len(rows)
    PROVE  /\ Planned(s) \in Seq(Records)
           /\ Len(Planned(s)) = Cardinality(Pinned(s))
           /\ {Planned(s)[i] : i \in 1 .. Len(Planned(s))} = Pinned(s)
<1>1. Pinned(s) \subseteq Records
  <2>1. \A k \in 1 .. s : rows[k] \in Records
    BY DEF ReplayShape
  <2> QED
    BY <2>1 DEF Pinned
<1>2. Pinned(s) \subseteq Nat /\ IsFiniteSet(Pinned(s))
  BY <1>1, FS_Subset DEF ReplayAssumption
<1>3. InOrder(Pinned(s)) \in Seq(Pinned(s))
  BY <1>2, InOrderIsComplete
<1>4. InOrder(Pinned(s)) \in Seq(Records)
  BY <1>1, <1>3
<1> QED
  BY <1>2, <1>4, InOrderIsComplete DEF Planned

\* What a plan has begun stays so with a larger bound.
LEMMA BeginsMore ==
    ASSUME ReplayShape, NEW r \in Replays, NEW a \in Nat, NEW b \in Nat, a <= b, BeginsPlan(r, a)
    PROVE  BeginsPlan(r, b)
<1>1. \A k \in DOMAIN replay[r].plan : k \in Int
  BY DEF ReplayShape, Process
<1> QED
  BY <1>1 DEF BeginsPlan

\* Rows of others and messages of others leave a run as it was.
LEMMA OthersKeep ==
    ASSUME ReplayAssumption, ReplayShape, NEW r \in Replays, RunInv(r),
           replay'[r] = replay[r], manifest'[r] = manifest[r],
           rows' = rows \/ \E record \in Records : rows' = Append(rows, record),
           target' = target \/ \E m \in [record : Records, by : Replays \cup {Nil}] :
                                  m.by # r /\ target' = Append(target, m)
    PROVE  RunInv(r)'
<1>1. /\ Len(rows) \in Nat /\ Len(rows') \in Nat /\ Len(rows) <= Len(rows')
      /\ \A k \in 1 .. Len(rows) : rows'[k] = rows[k]
  BY DEF ReplayShape
<1>2. /\ DOMAIN target = 1 .. Len(target) /\ DOMAIN target' = 1 .. Len(target')
      /\ Len(target) \in Nat /\ Len(target') \in Nat /\ Len(target) <= Len(target')
      /\ \A i \in 1 .. Len(target) : target'[i] = target[i]
      /\ \A i \in 1 .. Len(target') : i > Len(target) => target'[i].by # r
  BY DEF ReplayShape
<1>11. PICK a \in Nat, b \in Nat : a = Len(target) /\ b = Len(target')
  BY <1>2
<1>3. \A i \in DOMAIN target : i \in DOMAIN target'
  <2>1. \A i \in 1 .. a : i \in 1 .. b
    <3>1. a <= b
      BY <1>2, <1>11
    <3> QED
      BY <3>1
  <2> QED
    BY <1>2, <1>11, <2>1
<1>4. \A i \in DOMAIN target' : target'[i].by = r => i \in DOMAIN target
  <2>1. \A i \in 1 .. b : i \in 1 .. a \/ i > a
    OBVIOUS
  <2> QED
    BY <1>2, <1>11, <2>1
<1>5. PlanIsPinned(r)'
  <2>1. replay[r].snapshot \in 0 .. Len(rows) /\ replay[r].plan = Planned(replay[r].snapshot)
    BY DEF RunInv, PlanIsPinned
  <2>2. \A k \in 1 .. replay[r].snapshot : rows'[k] = rows[k]
    BY <1>1, <2>1
  <2>3. Pinned(replay[r].snapshot)' = Pinned(replay[r].snapshot)
    BY <2>2 DEF Pinned
  <2>4. Planned(replay[r].snapshot)' = Planned(replay[r].snapshot)
    BY <2>3 DEF Planned
  <2>5. replay'[r].snapshot \in 0 .. Len(rows')
    BY <1>1, <2>1
  <2> QED
    BY <2>1, <2>4, <2>5 DEF PlanIsPinned
<1>6. AckedArePublished(r)'
  <2>1. AckedArePublished(r)
    BY DEF RunInv
  <2> QED
    BY <1>2, <1>3, <2>1 DEF AckedArePublished
<1>7. PhaseFits(r)'
  <2>1. PhaseFits(r)
    BY DEF RunInv
  <2>2. (\A i \in DOMAIN target : target[i].by # r) => (\A i \in DOMAIN target' : target'[i].by # r)
    BY <1>2, <1>4
  <2> QED
    BY <2>1, <2>2 DEF PhaseFits, Reports
<1>8. ASSUME NEW n, BeginsPlan(r, n)
      PROVE  BeginsPlan(r, n)'
  <2> SUFFICES ASSUME NEW i \in DOMAIN target', target'[i].by = r
               PROVE  \E k \in DOMAIN replay'[r].plan :
                         /\ k <= n /\ target'[i].record = replay'[r].plan[k]
                         /\ \A j \in 1 .. k - 1 : \E h \in 1 .. i - 1 :
                               target'[h] = [record |-> replay'[r].plan[j], by |-> r]
    BY DEF BeginsPlan
  <2>1. i \in DOMAIN target /\ target'[i] = target[i]
    BY <1>2, <1>4
  <2>2. PICK k \in DOMAIN replay[r].plan :
           /\ k <= n /\ target[i].record = replay[r].plan[k]
           /\ \A j \in 1 .. k - 1 : \E h \in 1 .. i - 1 :
                 target[h] = [record |-> replay[r].plan[j], by |-> r]
    BY <1>8, <2>1 DEF BeginsPlan
  <2>3. \A h \in 1 .. i - 1 : h \in 1 .. Len(target)
    <3>1. i \in 1 .. a
      BY <1>2, <1>11, <2>1
    <3>2. \A h \in 1 .. i - 1 : h \in 1 .. a
      BY <3>1
    <3> QED
      BY <1>11, <3>2
  <2>4. \A h \in 1 .. i - 1 : target'[h] = target[h]
    BY <1>2, <2>3
  <2> QED
    BY <2>1, <2>2, <2>4 DEF BeginsPlan
<1>9. BeginsPlan(r, Len(replay[r].acked) + 1)'
  <2>1. PICK n : n = Len(replay[r].acked) + 1
    OBVIOUS
  <2>2. BeginsPlan(r, n)'
    BY <1>8, <2>1 DEF RunInv
  <2>3. Len(replay'[r].acked) + 1 = n
    BY <2>1
  <2> QED
    BY <2>2, <2>3 DEF BeginsPlan
<1>10. ReportFollows(r)'
  <2>1. ReportFollows(r)
    BY DEF RunInv
  <2>2. CASE manifest[r] # Nil /\ manifest[r].status # "torn"
    <3>1. BeginsPlan(r, Len(manifest[r].entries) + 1)'
      <4>1. PICK n : n = Len(manifest[r].entries) + 1
        OBVIOUS
      <4>2. BeginsPlan(r, n)'
        BY <1>8, <2>1, <2>2, <4>1 DEF ReportFollows
      <4>3. Len(manifest'[r].entries) + 1 = n
        BY <4>1
      <4> QED
        BY <4>2, <4>3 DEF BeginsPlan
    <3> QED
      BY <2>1, <2>2, <3>1 DEF ReportFollows
  <2>3. CASE ~(manifest[r] # Nil /\ manifest[r].status # "torn")
    BY <2>1, <2>3 DEF ReportFollows
  <2> QED
    BY <2>2, <2>3
<1> QED
  BY <1>5, <1>6, <1>7, <1>9, <1>10 DEF RunInv

\* A step that leaves topic, rows, plan and acknowledgements alone leaves what is
\* said of them alone.
LEMMA ProgressStays ==
    ASSUME NEW r \in Replays, RunInv(r), rows' = rows, target' = target,
           replay'[r].snapshot = replay[r].snapshot, replay'[r].plan = replay[r].plan,
           replay'[r].acked = replay[r].acked
    PROVE  /\ PlanIsPinned(r)' /\ AckedArePublished(r)'
           /\ BeginsPlan(r, Len(replay[r].acked) + 1)'
           /\ \A n : BeginsPlan(r, n) => BeginsPlan(r, n)'
<1>1. PlanIsPinned(r)'
  BY DEF RunInv, PlanIsPinned, Planned, Pinned
<1>2. AckedArePublished(r)'
  BY DEF RunInv, AckedArePublished
<1>3. ASSUME NEW n, BeginsPlan(r, n)
      PROVE  BeginsPlan(r, n)'
  BY <1>3 DEF BeginsPlan
<1>4. BeginsPlan(r, Len(replay[r].acked) + 1)'
  <2>1. PICK n : n = Len(replay[r].acked) + 1
    OBVIOUS
  <2>2. BeginsPlan(r, n)'
    BY <1>3, <2>1 DEF RunInv
  <2>3. Len(replay'[r].acked) + 1 = n
    BY <2>1
  <2> QED
    BY <2>2, <2>3 DEF BeginsPlan
<1> QED
  BY <1>1, <1>2, <1>3, <1>4

\* What was said of a whole manifest stays so, whatever phase follows but sending.
LEMMA ReportStays ==
    ASSUME NEW r \in Replays, RunInv(r), rows' = rows, target' = target,
           replay'[r].snapshot = replay[r].snapshot, replay'[r].plan = replay[r].plan,
           replay'[r].acked = replay[r].acked, replay'[r].tries = replay[r].tries,
           replay'[r].pc # "send",
           \/ manifest'[r] = manifest[r]
           \/ manifest'[r].status = "torn"
    PROVE  ReportFollows(r)'
<1>1. CASE manifest'[r].status = "torn"
  BY <1>1 DEF ReportFollows
<1>2. CASE manifest'[r] = manifest[r] /\ manifest[r] # Nil /\ manifest[r].status # "torn"
  <2>1. PICK n : n = Len(manifest[r].entries) + 1
    OBVIOUS
  <2>2. BeginsPlan(r, n)'
    BY <1>2, <2>1, ProgressStays DEF RunInv, ReportFollows
  <2>3. Len(manifest'[r].entries) + 1 = n
    BY <1>2, <2>1
  <2>4. BeginsPlan(r, Len(manifest[r].entries) + 1)'
    BY <2>2, <2>3 DEF BeginsPlan
  <2> QED
    BY <1>2, <2>4 DEF RunInv, ReportFollows
<1>3. CASE manifest'[r] = manifest[r] /\ ~(manifest[r] # Nil /\ manifest[r].status # "torn")
  BY <1>3 DEF ReportFollows
<1> QED
  BY <1>1, <1>2, <1>3

\* A plan is pinned before anything is published.
LEMMA PlanKeeps ==
    ASSUME ReplayAssumption, ReplayInv, NEW r \in Replays, NEW s \in 1 .. Len(rows), Plan(r, s)
    PROVE  RunInv(r)'
<1> DEFINE refused == Len(Planned(s)) > MaxRecords \/ \E k \in DOMAIN Planned(s) : Planned(s)[k] \in Damaged
<1>0. Len(rows) \in Nat
  BY DEF ReplayInv, ReplayShape
<1>1. s \in 0 .. Len(rows)
  BY <1>0
<1>2. /\ replay'[r].snapshot = s /\ replay'[r].plan = Planned(s) /\ replay'[r].acked = replay[r].acked
      /\ replay'[r].pc \in {"planned", "refused"} /\ rows' = rows /\ target' = target
      /\ replay'[r].tries = replay[r].tries
      /\ manifest' = manifest
  BY DEF Plan, ReplayInv, ReplayShape, Process
<1>3. PhaseFits(r) /\ replay[r].pc = "idle"
  BY DEF ReplayInv, RunInv, Plan
<1>4. /\ replay[r].acked = <<>> /\ manifest[r] = Nil /\ replay[r].tries = 0
      /\ \A i \in DOMAIN target : target[i].by # r
  BY <1>3 DEF PhaseFits
<1>5. Len(Planned(s)) \in Nat
  BY <1>1, PlannedIsComplete DEF ReplayInv
<1>6. PlanIsPinned(r)'
  BY <1>1, <1>2 DEF PlanIsPinned, Planned, Pinned
<1>7. AckedArePublished(r)'
  BY <1>2, <1>4, <1>5 DEF AckedArePublished
<1>8. PhaseFits(r)'
  BY <1>2, <1>4 DEF PhaseFits
<1>9. BeginsPlan(r, Len(replay[r].acked) + 1)'
  BY <1>2, <1>4 DEF BeginsPlan
<1>10. ReportFollows(r)'
  BY <1>2, <1>4 DEF ReportFollows
<1> QED
  BY <1>6, <1>7, <1>8, <1>9, <1>10 DEF RunInv

\* A run starts with an empty manifest, or with none if it cannot.
LEMMA OpenKeeps ==
    ASSUME ReplayAssumption, ReplayInv, NEW r \in Replays, Open(r)
    PROVE  RunInv(r)'
<1>1. replay[r].pc = "planned" /\ PhaseFits(r) /\ RunInv(r) /\ replay[r] \in Process
  BY DEF ReplayInv, ReplayShape, RunInv, Open
<1>2. /\ replay[r].acked = <<>> /\ manifest[r] = Nil /\ replay[r].tries = 0
      /\ \A i \in DOMAIN target : target[i].by # r
  BY <1>1 DEF PhaseFits
<1>3. /\ replay'[r].snapshot = replay[r].snapshot /\ replay'[r].plan = replay[r].plan
      /\ replay'[r].acked = replay[r].acked /\ replay'[r].tries = replay[r].tries
      /\ rows' = rows /\ target' = target
  BY <1>1 DEF Open, ReplayInv, ReplayShape, Process
<1>4. /\ PlanIsPinned(r)' /\ AckedArePublished(r)'
      /\ BeginsPlan(r, Len(replay[r].acked) + 1)'
  BY <1>1, <1>3, ProgressStays
<1>5. CASE replay'[r].pc = "refused" /\ manifest' = manifest
  <2>1. PhaseFits(r)'
    BY <1>2, <1>3, <1>5 DEF PhaseFits
  <2>2. ReportFollows(r)'
    BY <1>2, <1>5 DEF ReportFollows
  <2> QED
    BY <1>4, <2>1, <2>2 DEF RunInv
<1>6. CASE /\ manifest'[r] = [entries |-> <<>>, status |-> "empty"]
           /\ replay'[r].pc \in IF replay[r].plan = <<>> THEN {"closing", "failing"} ELSE {"send"}
  <2>1. manifest'[r] \in Reports
    BY <1>6 DEF Reports
  <2>2. replay[r].plan \in Seq(Records)
    BY <1>1 DEF Process
  <2>3. Len(replay[r].acked) = 0 /\ (replay[r].plan # <<>> => 0 < Len(replay[r].plan))
        /\ (replay[r].plan = <<>> => Len(replay[r].plan) = 0)
    BY <1>2, <2>2
  <2>4. PhaseFits(r)'
    BY <1>2, <1>3, <1>6, <2>1, <2>3 DEF PhaseFits
  <2>5. BeginsPlan(r, Len(manifest[r].entries) + 1)'
    BY <1>2, <1>3 DEF BeginsPlan
  <2>6. ReportFollows(r)'
    BY <1>2, <1>3, <1>6, <2>5 DEF ReportFollows
  <2> QED
    BY <1>4, <2>4, <2>6 DEF RunInv
<1> QED
  <2>1. replay \in [Replays -> Process] /\ r \in DOMAIN manifest
    BY DEF ReplayInv, ReplayShape
  <2>2. CASE replay' = [replay EXCEPT ![r].pc = "refused"] /\ UNCHANGED manifest
    BY <1>5, <2>1, <2>2
  <2>3. CASE /\ manifest' = [manifest EXCEPT ![r] = [entries |-> <<>>, status |-> "empty"]]
             /\ \E pc \in IF replay[r].plan = <<>> THEN {"closing", "failing"} ELSE {"send"} :
                   replay' = [replay EXCEPT ![r].pc = pc]
    <3>1. manifest'[r] = [entries |-> <<>>, status |-> "empty"]
      BY <2>1, <2>3
    <3>2. replay'[r].pc \in IF replay[r].plan = <<>> THEN {"closing", "failing"} ELSE {"send"}
      BY <2>1, <2>3 DEF Process
    <3> QED
      BY <1>6, <3>1, <3>2
  <2> QED
    BY <2>2, <2>3 DEF Open

\* The next record of the plan may be appended, behind all that is acknowledged.
LEMMA NextAppended ==
    ASSUME ReplayInv, NEW r \in Replays, Len(replay[r].acked) < Len(replay[r].plan),
           replay'[r].plan = replay[r].plan,
           target' = target \/ target' = Append(target, [record |-> NextRecord(r), by |-> r])
    PROVE  \E plan \in Seq(Records), acked \in Seq([record : Records, offset : Nat]), n \in Nat, len \in Nat :
              /\ plan = replay[r].plan /\ acked = replay[r].acked /\ n = Len(acked) /\ len = Len(target)
              /\ n < Len(plan) /\ NextRecord(r) = plan[n + 1]
              /\ \A i \in 1 .. len : target'[i] = target[i] /\ i \in DOMAIN target'
              /\ target' # target =>
                    /\ Len(target') = len + 1 /\ len + 1 \in DOMAIN target'
                    /\ target'[len + 1] = [record |-> plan[n + 1], by |-> r]
              /\ \A k \in 1 .. n :
                    /\ acked[k].record = plan[k] /\ acked[k].offset \in 1 .. len
                    /\ target[acked[k].offset] = [record |-> plan[k], by |-> r]
              /\ \A b \in Nat : n + 1 <= b => BeginsPlan(r, b)'
<1>1. /\ replay[r] \in Process /\ RunInv(r)
      /\ target \in Seq([record : Records, by : Replays \cup {Nil}])
  BY DEF ReplayInv, ReplayShape
<1>0. PICK n \in Nat, len \in Nat : n = Len(replay[r].acked) /\ len = Len(target)
  <2>1. Len(replay[r].acked) \in Nat
    BY <1>1 DEF Process
  <2>2. Len(target) \in Nat
    BY <1>1
  <2> QED
    BY <2>1, <2>2
<1>2. PICK plan, acked :
         /\ plan = replay[r].plan /\ acked = replay[r].acked /\ n = Len(acked) /\ len = Len(target)
  BY <1>0
<1>3. /\ plan \in Seq(Records) /\ acked \in Seq([record : Records, offset : Nat])
      /\ DOMAIN acked = 1 .. n /\ DOMAIN target = 1 .. len /\ n < Len(plan) /\ Len(plan) \in Nat
      /\ DOMAIN plan = 1 .. Len(plan)
  BY <1>1, <1>2 DEF Process
<1>4. n + 1 \in DOMAIN plan /\ NextRecord(r) = plan[n + 1] /\ plan[n + 1] \in Records
  <2>1. n + 1 \in 1 .. Len(plan)
    BY <1>3
  <2> QED
    BY <1>2, <1>3, <2>1 DEF NextRecord
<1>5. PICK sent : sent = [record |-> plan[n + 1], by |-> r]
  OBVIOUS
<1>6. target' = target \/ target' = Append(target, sent)
  BY <1>4, <1>5
<1>8. /\ \A i \in 1 .. len : target'[i] = target[i] /\ i \in DOMAIN target'
      /\ \A i \in DOMAIN target' : i \in 1 .. len \/ (i = len + 1 /\ target'[i] = sent)
      /\ target' # target => /\ Len(target') = len + 1 /\ len + 1 \in DOMAIN target'
                             /\ target'[len + 1] = sent
  <2>1. CASE target' = target
    BY <1>3, <2>1
  <2>2. CASE target' = Append(target, sent)
    <3>1. /\ DOMAIN target' = 1 .. len + 1 /\ Len(target') = len + 1
          /\ target'[len + 1] = sent /\ \A i \in 1 .. len : target'[i] = target[i]
      BY <1>1, <1>2, <2>2
    <3>2. \A i \in 1 .. len + 1 : i \in 1 .. len \/ i = len + 1
      OBVIOUS
    <3>3. \A i \in 1 .. len : i \in 1 .. len + 1
      OBVIOUS
    <3>4. len + 1 \in 1 .. len + 1
      OBVIOUS
    <3> QED
      BY <3>1, <3>2, <3>3, <3>4
  <2> QED
    BY <1>6, <2>1, <2>2
<1>9. /\ \A k \in 1 .. n : /\ acked[k].record = plan[k] /\ acked[k].offset \in 1 .. len
                           /\ target[acked[k].offset] = [record |-> plan[k], by |-> r]
  BY <1>1, <1>2, <1>3 DEF RunInv, AckedArePublished
<1>10. ASSUME NEW b \in Nat, n + 1 <= b
       PROVE  BeginsPlan(r, b)'
  <2> SUFFICES ASSUME NEW i \in DOMAIN target', target'[i].by = r
               PROVE  \E k \in DOMAIN plan :
                         /\ k <= b /\ target'[i].record = plan[k]
                         /\ \A j \in 1 .. k - 1 : \E h \in 1 .. i - 1 :
                               target'[h] = [record |-> plan[j], by |-> r]
    BY <1>2 DEF BeginsPlan
  <2>1. CASE i \in 1 .. len
    <3>1. PICK k \in DOMAIN plan :
             /\ k <= n + 1 /\ target[i].record = plan[k]
             /\ \A j \in 1 .. k - 1 : \E h \in 1 .. i - 1 :
                   target[h] = [record |-> plan[j], by |-> r]
      BY <1>1, <1>2, <1>3, <1>8, <2>1 DEF RunInv, BeginsPlan
    <3>2. k <= b
      BY <1>3, <1>10, <3>1
    <3>3. \A h \in 1 .. i - 1 : target'[h] = target[h]
      <4>1. \A h \in 1 .. i - 1 : h \in 1 .. len
        BY <2>1
      <4> QED
        BY <1>8, <4>1
    <3> QED
      BY <1>8, <2>1, <3>1, <3>2, <3>3
  <2>2. CASE i = len + 1 /\ target'[i] = sent
    <3>1. \A j \in 1 .. n : \E h \in 1 .. len : target'[h] = [record |-> plan[j], by |-> r]
      BY <1>8, <1>9
    <3>2. n + 1 - 1 = n /\ i - 1 = len
      BY <2>2
    <3> QED
      BY <1>4, <1>5, <1>10, <2>2, <3>1, <3>2
  <2> QED
    BY <1>8, <2>1, <2>2
<1> QED
  BY <1>2, <1>3, <1>4, <1>5, <1>8, <1>9, <1>10

\* A send adds the next record of the plan.
LEMMA SendKeeps ==
    ASSUME ReplayAssumption, ReplayInv, NEW r \in Replays, Send(r)
    PROVE  RunInv(r)'
<1>1. /\ replay[r].pc = "send" /\ replay[r] \in Process /\ RunInv(r)
      /\ rows' = rows /\ manifest' = manifest
  BY DEF ReplayInv, ReplayShape, Send
<1>6. /\ Len(replay[r].acked) < Len(replay[r].plan)
      /\ target' = target \/ target' = Append(target, [record |-> NextRecord(r), by |-> r])
  BY <1>1 DEF Send, RunInv, PhaseFits
<1>7. /\ replay'[r].snapshot = replay[r].snapshot /\ replay'[r].plan = replay[r].plan
      /\ \/ /\ target' # target /\ replay'[r].pc = "write" /\ replay'[r].tries = 0
            /\ replay'[r].acked
                  = Append(replay[r].acked, [record |-> NextRecord(r), offset |-> Len(target')])
         \/ replay'[r].pc \in {"send", "failing"} /\ replay'[r].acked = replay[r].acked
  <2>1. replay \in [Replays -> Process]
    BY DEF ReplayInv, ReplayShape
  <2>2. CASE /\ target' # target
             /\ replay' = [replay EXCEPT ![r] = [@ EXCEPT !.pc = "write", !.tries = 0,
                   !.acked = Append(replay[r].acked, [record |-> NextRecord(r), offset |-> Len(target')])]]
    BY <2>1, <2>2 DEF Process
  <2>3. CASE replay' = [replay EXCEPT ![r].tries = @ + 1]
    BY <1>1, <2>1, <2>3 DEF Process
  <2>4. CASE replay' = [replay EXCEPT ![r] = [@ EXCEPT !.pc = "failing", !.tries = Retries + 1]]
    BY <2>1, <2>4 DEF Process
  <2> QED
    BY <2>2, <2>3, <2>4 DEF Send
<1>2. PICK plan \in Seq(Records), acked \in Seq([record : Records, offset : Nat]), n \in Nat, len \in Nat :
         /\ plan = replay[r].plan /\ acked = replay[r].acked /\ n = Len(acked) /\ len = Len(target)
         /\ n < Len(plan) /\ NextRecord(r) = plan[n + 1]
         /\ \A i \in 1 .. len : target'[i] = target[i] /\ i \in DOMAIN target'
         /\ target' # target =>
               /\ Len(target') = len + 1 /\ len + 1 \in DOMAIN target'
               /\ target'[len + 1] = [record |-> plan[n + 1], by |-> r]
         /\ \A k \in 1 .. n :
               /\ acked[k].record = plan[k] /\ acked[k].offset \in 1 .. len
               /\ target[acked[k].offset] = [record |-> plan[k], by |-> r]
         /\ \A b \in Nat : n + 1 <= b => BeginsPlan(r, b)'
  BY <1>6, <1>7, NextAppended
<1>3. DOMAIN acked = 1 .. n /\ DOMAIN target = 1 .. len /\ Len(plan) \in Nat
  <2>1. target \in Seq([record : Records, by : Replays \cup {Nil}])
    BY DEF ReplayInv, ReplayShape
  <2> QED
    BY <1>2, <2>1
<1>9. \A k \in 1 .. n : /\ acked[k].record = plan[k] /\ acked[k].offset \in DOMAIN target'
                        /\ target'[acked[k].offset] = [record |-> plan[k], by |-> r]
  BY <1>2
<1>11. PlanIsPinned(r)'
  BY <1>1, <1>2, <1>7 DEF RunInv, PlanIsPinned, Planned, Pinned
<1>12. CASE replay'[r].pc \in {"send", "failing"} /\ replay'[r].acked = acked
  <2>1. AckedArePublished(r)'
    <3>1. n <= Len(plan) /\ Len(replay'[r].acked) = n
      BY <1>2, <1>3, <1>12
    <3> QED
      BY <1>2, <1>3, <1>7, <1>9, <1>12, <3>1 DEF AckedArePublished
  <2>2. PhaseFits(r)'
    BY <1>1, <1>2, <1>3, <1>7, <1>12 DEF RunInv, PhaseFits
  <2>3. BeginsPlan(r, Len(replay[r].acked) + 1)'
    <3>1. BeginsPlan(r, n + 1)'
      BY <1>2
    <3>2. Len(replay'[r].acked) + 1 = n + 1
      BY <1>2, <1>12
    <3> QED
      BY <3>1, <3>2 DEF BeginsPlan
  <2>4. ReportFollows(r)'
    <3>1. /\ manifest'[r].status # "torn" /\ manifest'[r].entries = acked
          /\ manifest[r] # Nil => (manifest[r].status = "acknowledged" => n = Len(plan))
      BY <1>1, <1>2 DEF RunInv, ReportFollows
    <3>2. BeginsPlan(r, n + 1)' /\ Len(manifest'[r].entries) + 1 = n + 1
      BY <1>2, <3>1
    <3>3. BeginsPlan(r, Len(manifest[r].entries) + 1)'
      BY <3>2 DEF BeginsPlan
    <3> QED
      BY <1>1, <1>2, <1>3, <1>7, <1>12, <3>1, <3>3 DEF ReportFollows
  <2> QED
    BY <1>11, <2>1, <2>2, <2>3, <2>4 DEF RunInv
<1>13. CASE /\ target' # target /\ replay'[r].pc = "write" /\ replay'[r].tries = 0
            /\ replay'[r].acked = Append(acked, [record |-> plan[n + 1], offset |-> Len(target')])
  <2>1. /\ Len(replay'[r].acked) = n + 1 /\ DOMAIN replay'[r].acked = 1 .. n + 1
        /\ \A k \in 1 .. n : replay'[r].acked[k] = acked[k]
        /\ replay'[r].acked[n + 1] = [record |-> plan[n + 1], offset |-> len + 1]
    BY <1>2, <1>3, <1>13
  <2>2. \A k \in 1 .. n + 1 : k \in 1 .. n \/ k = n + 1
    OBVIOUS
  <2>3. AckedArePublished(r)'
    <3>1. Len(replay'[r].acked) <= Len(replay'[r].plan)
      BY <1>2, <1>3, <1>7, <2>1
    <3>2. replay'[r].plan = plan
      BY <1>2, <1>7
    <3>3. len + 1 \in DOMAIN target' /\ target'[len + 1] = [record |-> plan[n + 1], by |-> r]
      BY <1>2, <1>13
    <3> QED
      BY <1>9, <2>1, <2>2, <3>1, <3>2, <3>3 DEF AckedArePublished
  <2>4. PhaseFits(r)'
    BY <1>1, <1>13 DEF RunInv, PhaseFits
  <2>5. BeginsPlan(r, Len(replay[r].acked) + 1)'
    <3>1. BeginsPlan(r, n + 2)'
      BY <1>2
    <3>2. Len(replay'[r].acked) + 1 = n + 2
      BY <2>1
    <3> QED
      BY <3>1, <3>2 DEF BeginsPlan
  <2>6. ReportFollows(r)'
    <3>1. /\ manifest'[r].status # "torn" /\ manifest'[r].entries = acked
          /\ manifest[r] # Nil => (manifest[r].status = "acknowledged" => n = Len(plan))
      BY <1>1, <1>2 DEF RunInv, ReportFollows
    <3>2. BeginsPlan(r, n + 1)' /\ Len(manifest'[r].entries) + 1 = n + 1
      BY <1>2, <3>1
    <3>3. BeginsPlan(r, Len(manifest[r].entries) + 1)'
      BY <3>2 DEF BeginsPlan
    <3>4. n <= n + 1
      OBVIOUS
    <3> QED
      BY <1>1, <1>2, <1>3, <1>7, <1>13, <2>1, <3>1, <3>3, <3>4 DEF ReportFollows
  <2> QED
    BY <1>11, <2>3, <2>4, <2>5, <2>6 DEF RunInv
<1> QED
  BY <1>2, <1>7, <1>12, <1>13

\* So does a send that was given up, when it is appended after all.
LEMMA AppendLateKeeps ==
    ASSUME ReplayInv, NEW r \in Replays, AppendLate(r)
    PROVE  RunInv(r)'
<1>1. /\ replay[r] \in Process /\ RunInv(r) /\ rows' = rows /\ manifest' = manifest
      /\ replay[r].pc \in {"failing", "done", "dead"} /\ replay[r].tries > 0
      /\ Len(replay[r].acked) < Len(replay[r].plan)
  BY DEF ReplayInv, ReplayShape, AppendLate, RunInv, PhaseFits
<1>4. /\ replay'[r].snapshot = replay[r].snapshot /\ replay'[r].plan = replay[r].plan
      /\ replay'[r].acked = replay[r].acked /\ replay'[r].pc = replay[r].pc /\ replay'[r].tries = 0
      /\ target' = Append(target, [record |-> NextRecord(r), by |-> r])
  BY DEF AppendLate, ReplayInv, ReplayShape, Process
<1>2. PICK plan \in Seq(Records), acked \in Seq([record : Records, offset : Nat]), n \in Nat, len \in Nat :
         /\ plan = replay[r].plan /\ acked = replay[r].acked /\ n = Len(acked) /\ len = Len(target)
         /\ n < Len(plan) /\ NextRecord(r) = plan[n + 1]
         /\ \A i \in 1 .. len : target'[i] = target[i] /\ i \in DOMAIN target'
         /\ target' # target =>
               /\ Len(target') = len + 1 /\ len + 1 \in DOMAIN target'
               /\ target'[len + 1] = [record |-> plan[n + 1], by |-> r]
         /\ \A k \in 1 .. n :
               /\ acked[k].record = plan[k] /\ acked[k].offset \in 1 .. len
               /\ target[acked[k].offset] = [record |-> plan[k], by |-> r]
         /\ \A b \in Nat : n + 1 <= b => BeginsPlan(r, b)'
  BY <1>1, <1>4, NextAppended
<1>3. DOMAIN acked = 1 .. n /\ DOMAIN target = 1 .. len /\ Len(plan) \in Nat
  <2>1. target \in Seq([record : Records, by : Replays \cup {Nil}])
    BY DEF ReplayInv, ReplayShape
  <2> QED
    BY <1>2, <2>1
<1>5. \A k \in 1 .. n : /\ acked[k].record = plan[k] /\ acked[k].offset \in DOMAIN target'
                        /\ target'[acked[k].offset] = [record |-> plan[k], by |-> r]
  BY <1>2
<1>6. BeginsPlan(r, n + 1)'
  BY <1>2
<1>7. PlanIsPinned(r)'
  BY <1>1, <1>2, <1>4 DEF RunInv, PlanIsPinned, Planned, Pinned
<1>8. AckedArePublished(r)'
  <2>1. n <= Len(plan) /\ Len(replay'[r].acked) = n
    BY <1>2, <1>3, <1>4
  <2> QED
    BY <1>2, <1>3, <1>4, <1>5, <2>1 DEF AckedArePublished
<1>9. PhaseFits(r)'
  BY <1>1, <1>4 DEF RunInv, PhaseFits
<1>10. BeginsPlan(r, Len(replay[r].acked) + 1)'
  <2>1. Len(replay'[r].acked) + 1 = n + 1
    BY <1>2, <1>4
  <2> QED
    BY <1>6, <2>1 DEF BeginsPlan
<1>11. ReportFollows(r)'
  <2>1. CASE manifest[r] # Nil /\ manifest[r].status # "torn"
    <3>1. manifest[r].entries = acked /\ (manifest[r].status = "acknowledged" => n = Len(plan))
      BY <1>1, <1>2, <2>1 DEF RunInv, ReportFollows
    <3>2. Len(manifest'[r].entries) + 1 = n + 1
      BY <1>1, <1>2, <3>1
    <3>3. BeginsPlan(r, Len(manifest[r].entries) + 1)'
      BY <1>6, <3>2 DEF BeginsPlan
    <3>4. Len(manifest[r].entries) <= Len(acked)
      BY <1>2, <1>3, <3>1
    <3> QED
      BY <1>1, <1>2, <1>4, <3>1, <3>3, <3>4 DEF ReportFollows
  <2>2. CASE ~(manifest[r] # Nil /\ manifest[r].status # "torn")
    BY <1>1, <1>4, <2>2 DEF ReportFollows
  <2> QED
    BY <2>1, <2>2
<1> QED
  BY <1>7, <1>8, <1>9, <1>10, <1>11 DEF RunInv

\* The rewriting of a manifest puts all acknowledgements in it.
LEMMA WrittenFollows ==
    ASSUME ReplayInv, NEW r \in Replays, rows' = rows, target' = target,
           replay'[r].snapshot = replay[r].snapshot, replay'[r].plan = replay[r].plan,
           replay'[r].acked = replay[r].acked,
           manifest'[r].entries = replay[r].acked, manifest'[r].status # "torn",
           manifest'[r].status = "acknowledged" => Len(replay[r].acked) = Len(replay[r].plan)
    PROVE  ReportFollows(r)'
<1>1. replay[r] \in Process /\ RunInv(r)
  BY DEF ReplayInv, ReplayShape
<1>2. Len(replay[r].acked) \in Nat
  BY <1>1 DEF Process
<1>3. BeginsPlan(r, Len(manifest[r].entries) + 1)'
  <2>1. PICK n : n = Len(replay[r].acked) + 1
    OBVIOUS
  <2>2. BeginsPlan(r, n)'
    BY <1>1, <2>1, ProgressStays DEF RunInv
  <2>3. Len(manifest'[r].entries) + 1 = n
    BY <2>1
  <2> QED
    BY <2>2, <2>3 DEF BeginsPlan
<1> QED
  BY <1>2, <1>3 DEF ReportFollows

\* A manifest that is being rewritten promises nothing.
LEMMA RewriteKeeps ==
    ASSUME ReplayInv, NEW r \in Replays, Rewrite(r)
    PROVE  RunInv(r)'
<1>1. replay[r].pc = "write" /\ replay[r] \in Process /\ RunInv(r) /\ manifest[r] \in Reports
  BY DEF ReplayInv, ReplayShape, RunInv, PhaseFits, Rewrite
<1>2. /\ rows' = rows /\ target' = target /\ replay'[r].pc = "flush"
      /\ replay'[r].snapshot = replay[r].snapshot /\ replay'[r].plan = replay[r].plan
      /\ replay'[r].acked = replay[r].acked /\ replay'[r].tries = replay[r].tries
  BY <1>1 DEF Rewrite, ReplayInv, ReplayShape, Process
<1>3. manifest'[r] = [manifest[r] EXCEPT !.status = "torn"]
  BY DEF Rewrite, ReplayInv, ReplayShape
<1>4. manifest'[r] \in Reports /\ manifest'[r].status = "torn"
  BY <1>1, <1>3 DEF Reports
<1>5. PhaseFits(r)'
  BY <1>1, <1>2, <1>4 DEF RunInv, PhaseFits
<1>6. ReportFollows(r)'
  BY <1>1, <1>2, <1>4, ReportStays
<1>7. /\ PlanIsPinned(r)' /\ AckedArePublished(r)'
      /\ BeginsPlan(r, Len(replay[r].acked) + 1)'
  BY <1>1, <1>2, ProgressStays
<1> QED
  BY <1>5, <1>6, <1>7 DEF RunInv

\* Flushed, it lists all acknowledgements.
LEMMA FlushKeeps ==
    ASSUME ReplayInv, NEW r \in Replays, Flush(r)
    PROVE  RunInv(r)'
<1>1. replay[r].pc = "flush" /\ replay[r] \in Process /\ RunInv(r)
  BY DEF ReplayInv, ReplayShape, Flush
<1>2. /\ rows' = rows /\ target' = target
      /\ replay'[r].pc = IF Len(replay[r].acked) = Len(replay[r].plan) THEN "closing" ELSE "send"
      /\ replay'[r].snapshot = replay[r].snapshot /\ replay'[r].plan = replay[r].plan
      /\ replay'[r].acked = replay[r].acked /\ replay'[r].tries = replay[r].tries
  BY <1>1 DEF Flush, ReplayInv, ReplayShape, Process
<1>3. manifest'[r] = [entries |-> replay[r].acked, status |-> "publishing"]
  BY DEF Flush, ReplayInv, ReplayShape
<1>4. manifest'[r] \in Reports
  BY <1>1, <1>3 DEF Reports, Process
<1>5. Len(replay[r].acked) \in Nat /\ Len(replay[r].plan) \in Nat
      /\ Len(replay[r].acked) <= Len(replay[r].plan)
  BY <1>1 DEF Process, RunInv, AckedArePublished
<1>6. PhaseFits(r)'
  BY <1>1, <1>2, <1>4, <1>5 DEF RunInv, PhaseFits
<1>7. ReportFollows(r)'
  BY <1>2, <1>3, WrittenFollows
<1>8. /\ PlanIsPinned(r)' /\ AckedArePublished(r)'
      /\ BeginsPlan(r, Len(replay[r].acked) + 1)'
  BY <1>1, <1>2, ProgressStays
<1> QED
  BY <1>6, <1>7, <1>8 DEF RunInv

\* So does the last one, which says acknowledged only at the end of the plan.
LEMMA CloseKeeps ==
    ASSUME ReplayInv, NEW r \in Replays, Close(r)
    PROVE  RunInv(r)'
<1>1. replay[r].pc \in {"closing", "failing"} /\ replay[r] \in Process /\ RunInv(r)
  BY DEF ReplayInv, ReplayShape, Close
<1>2. /\ rows' = rows /\ target' = target /\ replay'[r].pc = "done"
      /\ replay'[r].snapshot = replay[r].snapshot /\ replay'[r].plan = replay[r].plan
      /\ replay'[r].acked = replay[r].acked /\ replay'[r].tries = replay[r].tries
  BY <1>1 DEF Close, ReplayInv, ReplayShape, Process
<1>3. manifest'[r] = [entries |-> replay[r].acked, status |-> FinalStatus(r)]
  BY DEF Close, ReplayInv, ReplayShape
<1>4. manifest'[r] \in Reports
  BY <1>1, <1>3 DEF Reports, Process, FinalStatus
<1>5. PhaseFits(r)'
  BY <1>1, <1>2, <1>4 DEF RunInv, PhaseFits
<1>6. FinalStatus(r) = "acknowledged" => Len(replay[r].acked) = Len(replay[r].plan)
  BY <1>1 DEF FinalStatus, RunInv, PhaseFits
<1>7. ReportFollows(r)'
  BY <1>2, <1>3, <1>6, WrittenFollows DEF FinalStatus
<1>8. /\ PlanIsPinned(r)' /\ AckedArePublished(r)'
      /\ BeginsPlan(r, Len(replay[r].acked) + 1)'
  BY <1>1, <1>2, ProgressStays
<1> QED
  BY <1>5, <1>7, <1>8 DEF RunInv

\* An interrupt or a kill leaves the file, or half of it.
LEMMA StopKeeps ==
    ASSUME ReplayInv, NEW r \in Replays, Interrupt(r) \/ Kill(r)
    PROVE  RunInv(r)'
<1>1. replay[r] \in Process /\ RunInv(r)
  BY DEF ReplayInv, ReplayShape
<1>2. /\ rows' = rows /\ target' = target
      /\ \/ replay'[r].pc = "failing" /\ replay[r].pc \in {"send", "write", "flush"}
         \/ replay'[r].pc = "dead"
      /\ replay'[r].snapshot = replay[r].snapshot /\ replay'[r].plan = replay[r].plan
      /\ replay'[r].acked = replay[r].acked /\ replay'[r].tries = replay[r].tries
  BY <1>1 DEF Interrupt, Kill, ReplayInv, ReplayShape, Process
<1>3. \/ manifest'[r] = manifest[r]
      \/ /\ replay[r].pc \in {"closing", "failing"}
         /\ manifest'[r] = [manifest[r] EXCEPT !.status = "torn"]
  BY DEF Interrupt, Kill, ReplayInv, ReplayShape
<1>4. CASE manifest'[r] = manifest[r]
  <2>1. PhaseFits(r)'
    BY <1>1, <1>2, <1>4 DEF PhaseFits, RunInv, Reports
  <2>2. ReportFollows(r)'
    BY <1>1, <1>2, <1>4, ReportStays
  <2> QED
    BY <1>1, <1>2, <2>1, <2>2, ProgressStays DEF RunInv
<1>5. CASE /\ replay[r].pc \in {"closing", "failing"}
           /\ manifest'[r] = [manifest[r] EXCEPT !.status = "torn"]
  <2>1. manifest[r] \in Reports
    BY <1>1, <1>5 DEF RunInv, PhaseFits
  <2>2. manifest'[r] \in Reports /\ manifest'[r].status = "torn"
    BY <1>5, <2>1 DEF Reports
  <2>3. PhaseFits(r)'
    BY <1>1, <1>2, <1>5, <2>2 DEF RunInv, PhaseFits
  <2>4. ReportFollows(r)'
    BY <1>1, <1>2, <2>2, ReportStays
  <2> QED
    BY <1>1, <1>2, <2>3, <2>4, ProgressStays DEF RunInv
<1> QED
  BY <1>3, <1>4, <1>5

\* The shape of the state is kept by every step.
LEMMA ReplayShapeKept ==
    ASSUME ReplayAssumption, ReplayInv, ReplayNext
    PROVE  ReplayShape'
<1> USE DEF ReplayShape
<1>1. ReplayShape
  BY DEF ReplayInv
<1>2. ASSUME NEW record \in Records, ArchiveRow(record) \/ Foreign(record)
      PROVE  ReplayShape'
  <2>1. CASE ArchiveRow(record)
    BY <1>1, <2>1 DEF ArchiveRow
  <2>2. CASE Foreign(record)
    <3>1. [record |-> record, by |-> Nil] \in [record : Records, by : Replays \cup {Nil}]
      OBVIOUS
    <3> QED
      BY <1>1, <2>2, <3>1 DEF Foreign
  <2> QED
    BY <1>2, <2>1, <2>2
<1>3. ASSUME NEW r \in Replays, NEW s \in 1 .. Len(rows), Plan(r, s)
      PROVE  ReplayShape'
  <2>1. Len(rows) \in Nat
    BY <1>1
  <2>2. s \in 0 .. Len(rows) /\ s \in Nat
    BY <2>1
  <2>3. Planned(s) \in Seq(Records)
    BY <1>1, <2>2, PlannedIsComplete
  <2>4. PICK pc \in {"refused", "planned"} :
           replay' = [replay EXCEPT ![r] = [@ EXCEPT !.snapshot = s, !.plan = Planned(s), !.pc = pc]]
    BY <1>3 DEF Plan
  <2>5. [replay[r] EXCEPT !.snapshot = s, !.plan = Planned(s), !.pc = pc] \in Process
    BY <1>1, <2>2, <2>3 DEF Process, ReplayPhases
  <2> QED
    BY <1>1, <1>3, <2>4, <2>5 DEF Plan
<1>4. ASSUME NEW r \in Replays, Open(r)
      PROVE  ReplayShape'
  <2>1. PICK pc \in {"closing", "failing", "send", "refused"} : replay' = [replay EXCEPT ![r].pc = pc]
    BY <1>4 DEF Open
  <2>2. replay' \in [Replays -> Process]
    BY <1>1, <2>1 DEF Process, ReplayPhases
  <2>3. manifest' = [q \in Replays |-> manifest'[q]]
    BY <1>1, <1>4 DEF Open
  <2> QED
    BY <1>1, <1>4, <2>2, <2>3 DEF Open
<1>5. ASSUME NEW r \in Replays, Send(r) \/ AppendLate(r)
      PROVE  ReplayShape'
  <2>1. replay[r] \in Process /\ Len(replay[r].acked) < Len(replay[r].plan)
    BY <1>1, <1>5 DEF ReplayInv, RunInv, PhaseFits, Send, AppendLate
  <2>2. NextRecord(r) \in Records
    <3>1. Len(replay[r].acked) \in Nat /\ Len(replay[r].plan) \in Nat /\ replay[r].plan \in Seq(Records)
      BY <2>1 DEF Process
    <3>2. Len(replay[r].acked) + 1 \in 1 .. Len(replay[r].plan)
      BY <2>1, <3>1
    <3> QED
      BY <3>1, <3>2 DEF NextRecord
  <2>3. target' \in Seq([record : Records, by : Replays \cup {Nil}])
    <3>1. [record |-> NextRecord(r), by |-> r] \in [record : Records, by : Replays \cup {Nil}]
      BY <2>2
    <3>2. PICK m : m = [record |-> NextRecord(r), by |-> r]
      OBVIOUS
    <3>3. target' = target \/ target' = Append(target, m)
      BY <1>5, <3>2 DEF Send, AppendLate
    <3>4. PICK T : T = [record : Records, by : Replays \cup {Nil}]
      OBVIOUS
    <3>5. m \in T /\ target \in Seq(T)
      BY <1>1, <3>1, <3>2, <3>4
    <3>6. target' \in Seq(T)
      BY <3>3, <3>5
    <3> QED
      BY <3>4, <3>6
  <2>4. replay' \in [Replays -> Process]
    <3>1. CASE replay' = [replay EXCEPT ![r] = [@ EXCEPT !.pc = "write", !.tries = 0,
                  !.acked = Append(replay[r].acked, [record |-> NextRecord(r), offset |-> Len(target')])]]
      <4>1. Len(target') \in Nat
        BY <2>3
      <4>2. Append(replay[r].acked, [record |-> NextRecord(r), offset |-> Len(target')])
              \in Seq([record : Records, offset : Nat])
        BY <2>1, <2>2, <4>1 DEF Process
      <4>3. 0 \in 0 .. Retries + 1
        BY DEF ReplayAssumption
      <4>4. [replay[r] EXCEPT !.pc = "write", !.tries = 0,
               !.acked = Append(replay[r].acked, [record |-> NextRecord(r), offset |-> Len(target')])]
              \in Process
        BY <2>1, <4>2, <4>3 DEF Process, ReplayPhases
      <4> QED
        BY <1>1, <3>1, <4>4
    <3>2. CASE replay[r].tries < Retries /\ replay' = [replay EXCEPT ![r].tries = @ + 1]
      <4>1. replay[r].tries + 1 \in 0 .. Retries + 1
        BY <2>1, <3>2 DEF Process, ReplayAssumption
      <4> QED
        BY <1>1, <2>1, <3>2, <4>1 DEF Process
    <3>3. CASE replay' = [replay EXCEPT ![r] = [@ EXCEPT !.pc = "failing", !.tries = Retries + 1]]
      <4>1. Retries + 1 \in 0 .. Retries + 1
        BY DEF ReplayAssumption
      <4>2. [replay[r] EXCEPT !.pc = "failing", !.tries = Retries + 1] \in Process
        BY <2>1, <4>1 DEF Process, ReplayPhases
      <4> QED
        BY <1>1, <3>3, <4>2
    <3>4. CASE replay' = [replay EXCEPT ![r].tries = 0]
      <4>1. 0 \in 0 .. Retries + 1
        BY DEF ReplayAssumption
      <4> QED
        BY <1>1, <2>1, <3>4, <4>1 DEF Process
    <3> QED
      BY <1>5, <3>1, <3>2, <3>3, <3>4 DEF Send, AppendLate
  <2> QED
    BY <1>1, <1>5, <2>3, <2>4 DEF Send, AppendLate
<1>6. ASSUME NEW r \in Replays, Rewrite(r) \/ Flush(r) \/ Close(r) \/ Interrupt(r) \/ Kill(r)
      PROVE  ReplayShape'
  <2>1. PICK pc \in ReplayPhases : replay' = [replay EXCEPT ![r].pc = pc]
    BY <1>6 DEF Rewrite, Flush, Close, Interrupt, Kill, ReplayPhases
  <2>2. replay' \in [Replays -> Process]
    BY <1>1, <2>1 DEF Process
  <2>3. manifest' = [q \in Replays |-> manifest'[q]]
    BY <1>1, <1>6 DEF Rewrite, Flush, Close, Interrupt, Kill
  <2>4. rows' = rows /\ target' = target
    BY <1>6 DEF Rewrite, Flush, Close, Interrupt, Kill
  <2> QED
    BY <1>1, <2>2, <2>3, <2>4
<1> QED
  BY <1>2, <1>3, <1>4, <1>5, <1>6 DEF ReplayNext

\* Before a run there is no plan, no message and no manifest.
LEMMA ReplayStarts ==
    ASSUME ReplayAssumption, ReplayInit
    PROVE  ReplayInv
<1>1. ReplayShape
  <2>1. 0 \in 0 .. Retries + 1
    BY DEF ReplayAssumption
  <2>2. [pc |-> "idle", snapshot |-> 0, plan |-> <<>>, tries |-> 0, acked |-> <<>>] \in Process
    BY <2>1 DEF Process, ReplayPhases
  <2> QED
    BY <2>2 DEF ReplayInit, ReplayShape
<1>2. Planned(0) = <<>>
  <2>1. Len(rows) = 0 /\ 0 \in 0 .. Len(rows)
    BY DEF ReplayInit
  <2>2. Pinned(0) = {}
    BY DEF Pinned
  <2>3. Planned(0) \in Seq(Records) /\ Len(Planned(0)) = 0
    BY <1>1, <2>1, <2>2, PlannedIsComplete, FS_EmptySet
  <2> QED
    BY <2>3
<1>3. ASSUME NEW r \in Replays
      PROVE  RunInv(r)
  <2>1. /\ replay[r].pc = "idle" /\ replay[r].snapshot = 0 /\ replay[r].plan = <<>>
        /\ replay[r].acked = <<>> /\ replay[r].tries = 0
        /\ manifest[r] = Nil /\ target = <<>> /\ rows = <<>>
    BY DEF ReplayInit
  <2>2. PlanIsPinned(r)
    BY <1>2, <2>1 DEF PlanIsPinned
  <2>3. AckedArePublished(r)
    BY <2>1 DEF AckedArePublished
  <2>4. PhaseFits(r) /\ ReportFollows(r)
    BY <2>1 DEF PhaseFits, ReportFollows
  <2>5. BeginsPlan(r, Len(replay[r].acked) + 1)
    BY <2>1 DEF BeginsPlan
  <2> QED
    BY <2>2, <2>3, <2>4, <2>5 DEF RunInv
<1> QED
  BY <1>1, <1>3 DEF ReplayInv

\* Each step moves one run, or adds a row or a foreign message.
LEMMA ReplayStep ==
    ASSUME ReplayAssumption, ReplayInv, [ReplayNext]_replayVars
    PROVE  ReplayInv'
<1>1. ReplayShape /\ \A r \in Replays : RunInv(r)
  BY DEF ReplayInv
<1>2. CASE UNCHANGED replayVars
  <2>1. rows' = rows /\ target' = target /\ replay' = replay /\ manifest' = manifest
    BY <1>2 DEF replayVars
  <2>2. ReplayShape'
    BY <1>1, <2>1 DEF ReplayShape
  <2>3. \A r \in Replays : RunInv(r)'
    BY <1>1, <2>1, OthersKeep
  <2> QED
    BY <2>2, <2>3 DEF ReplayInv
<1>3. CASE \E record \in Records : ArchiveRow(record) \/ Foreign(record)
  <2>1. ReplayShape'
    BY <1>3, ReplayShapeKept DEF ReplayNext
  <2>2. PICK record \in Records : ArchiveRow(record) \/ Foreign(record)
    BY <1>3
  <2>3. ASSUME NEW r \in Replays
        PROVE  RunInv(r)'
    <3>1. replay'[r] = replay[r] /\ manifest'[r] = manifest[r]
      BY <2>2 DEF ArchiveRow, Foreign
    <3>2. CASE ArchiveRow(record)
      BY <1>1, <3>1, <3>2, OthersKeep DEF ArchiveRow
    <3>3. CASE Foreign(record)
      <4>1. PICK m : m = [record |-> record, by |-> Nil]
        OBVIOUS
      <4>2. m \in [record : Records, by : Replays \cup {Nil}] /\ m.by # r
        BY <4>1 DEF ReplayAssumption
      <4>3. target' = Append(target, m) /\ rows' = rows
        BY <3>3, <4>1 DEF Foreign
      <4> QED
        BY <1>1, <3>1, <4>2, <4>3, OthersKeep
    <3> QED
      BY <2>2, <3>2, <3>3
  <2> QED
    BY <2>1, <2>3 DEF ReplayInv
<1>4. ASSUME NEW r \in Replays,
             \/ \E s \in 1 .. Len(rows) : Plan(r, s)
             \/ Open(r) \/ Send(r) \/ AppendLate(r) \/ Rewrite(r) \/ Flush(r)
             \/ Close(r) \/ Interrupt(r) \/ Kill(r)
      PROVE  ReplayInv'
  <2>1. ReplayShape'
    BY <1>4, ReplayShapeKept DEF ReplayNext
  <2>2. RunInv(r)'
    BY <1>4, PlanKeeps, OpenKeeps, SendKeeps, AppendLateKeeps, RewriteKeeps, FlushKeeps,
       CloseKeeps, StopKeeps
  <2>3. ASSUME NEW q \in Replays, q # r
        PROVE  RunInv(q)'
    <3>1. replay'[q] = replay[q] /\ manifest'[q] = manifest[q] /\ rows' = rows
      BY <1>1, <1>4, <2>3 DEF ReplayShape, Plan, Open, Send, AppendLate, Rewrite, Flush,
         Close, Interrupt, Kill
    <3>2. target' = target \/ \E m \in [record : Records, by : Replays \cup {Nil}] :
                                  m.by # q /\ target' = Append(target, m)
      <4>1. CASE Send(r) \/ AppendLate(r)
        <5>1. PICK m : m = [record |-> NextRecord(r), by |-> r]
          OBVIOUS
        <5>2. target' = target \/ target' = Append(target, m)
          BY <4>1, <5>1 DEF Send, AppendLate
        <5>3. replay[r] \in Process /\ Len(replay[r].acked) < Len(replay[r].plan)
          BY <1>1, <4>1 DEF ReplayShape, RunInv, PhaseFits, Send, AppendLate
        <5>4. Len(replay[r].acked) \in Nat /\ Len(replay[r].plan) \in Nat /\ replay[r].plan \in Seq(Records)
          BY <5>3 DEF Process
        <5>5. Len(replay[r].acked) + 1 \in 1 .. Len(replay[r].plan)
          BY <5>3, <5>4
        <5>6. m \in [record : Records, by : Replays \cup {Nil}] /\ m.by # q
          BY <2>3, <5>1, <5>4, <5>5 DEF NextRecord
        <5> QED
          BY <5>2, <5>6
      <4>2. CASE ~Send(r) /\ ~AppendLate(r)
        BY <1>4, <4>2 DEF Plan, Open, Rewrite, Flush, Close, Interrupt, Kill
      <4> QED
        BY <4>1, <4>2
    <3> QED
      BY <1>1, <3>1, <3>2, OthersKeep
  <2> QED
    BY <2>1, <2>2, <2>3 DEF ReplayInv
<1> QED
  BY <1>2, <1>3, <1>4 DEF ReplayNext

\* After any failure a manifest that is whole lists the beginning of the plan, at the
\* offsets where it is, and the topic holds one record more at most; one that says
\* acknowledged has all of the pinned snapshot, once (scripts/lakehouse.py, replay).
THEOREM ManifestsAreTrue == ReplaySpec => []ManifestIsTrue
<1>1. ReplayInit => ReplayInv
  BY ReplayStarts, ReplayAssumption
<1>2. ReplayInv /\ [ReplayNext]_replayVars => ReplayInv'
  BY ReplayStep, ReplayAssumption
<1>3. ReplayInv => ManifestIsTrue
  <2> SUFFICES ASSUME ReplayInv, NEW r \in Replays, manifest[r] # Nil, manifest[r].status # "torn"
               PROVE  /\ Len(manifest[r].entries) <= Len(replay[r].plan)
                      /\ \A k \in DOMAIN manifest[r].entries :
                            /\ manifest[r].entries[k].record = replay[r].plan[k]
                            /\ manifest[r].entries[k].offset \in DOMAIN target
                            /\ target[manifest[r].entries[k].offset]
                                  = [record |-> replay[r].plan[k], by |-> r]
                      /\ BeginsPlan(r, Len(manifest[r].entries) + 1)
                      /\ manifest[r].status = "acknowledged" =>
                            /\ {manifest[r].entries[k].record : k \in DOMAIN manifest[r].entries}
                                 = Pinned(replay[r].snapshot)
                            /\ Len(manifest[r].entries) = Cardinality(Pinned(replay[r].snapshot))
    BY DEF ManifestIsTrue
  <2>1. ReplayShape /\ RunInv(r) /\ replay[r] \in Process
    BY DEF ReplayInv, ReplayShape
  <2>2. PICK entries, acked, plan :
           /\ entries = manifest[r].entries /\ acked = replay[r].acked /\ plan = replay[r].plan
    OBVIOUS
  <2>3. /\ entries \in Seq([record : Records, offset : Nat])
        /\ acked \in Seq([record : Records, offset : Nat]) /\ plan \in Seq(Records)
    BY <2>1, <2>2 DEF RunInv, PhaseFits, Reports, Process
  <2>4. /\ Len(entries) <= Len(acked) /\ Len(acked) <= Len(plan)
        /\ \A k \in DOMAIN entries : entries[k] = acked[k]
        /\ BeginsPlan(r, Len(entries) + 1)
        /\ manifest[r].status = "acknowledged" => Len(entries) = Len(plan)
    BY <2>1, <2>2 DEF RunInv, ReportFollows, AckedArePublished
  <2>5. \A k \in DOMAIN entries : k \in DOMAIN acked
    <3>1. PICK a \in Nat, b \in Nat : a = Len(entries) /\ b = Len(acked)
      BY <2>3
    <3>2. \A k \in 1 .. a : k \in 1 .. b
      BY <2>4, <3>1
    <3> QED
      BY <2>3, <3>1, <3>2
  <2>6. \A k \in DOMAIN entries :
           /\ entries[k].record = plan[k] /\ entries[k].offset \in DOMAIN target
           /\ target[entries[k].offset] = [record |-> plan[k], by |-> r]
    BY <2>1, <2>2, <2>4, <2>5 DEF RunInv, AckedArePublished
  <2>7. Len(entries) <= Len(plan)
    BY <2>3, <2>4
  <2>8. ASSUME manifest[r].status = "acknowledged"
        PROVE  /\ {entries[k].record : k \in DOMAIN entries} = Pinned(replay[r].snapshot)
               /\ Len(entries) = Cardinality(Pinned(replay[r].snapshot))
    <3>1. /\ Len(plan) = Cardinality(Pinned(replay[r].snapshot))
          /\ {plan[i] : i \in 1 .. Len(plan)} = Pinned(replay[r].snapshot)
      BY <2>1, <2>2, PlannedIsComplete, ReplayAssumption DEF RunInv, PlanIsPinned
    <3>2. DOMAIN entries = 1 .. Len(plan) /\ Len(entries) = Len(plan)
      BY <2>3, <2>4, <2>8
    <3>3. {entries[k].record : k \in DOMAIN entries} = {plan[i] : i \in 1 .. Len(plan)}
      <4>1. \A k \in 1 .. Len(plan) : entries[k].record = plan[k]
        BY <2>6, <3>2
      <4> QED
        BY <3>2, <4>1
    <3> QED
      BY <3>1, <3>2, <3>3
  <2>9. \A k \in DOMAIN manifest[r].entries :
           /\ manifest[r].entries[k].record = replay[r].plan[k]
           /\ manifest[r].entries[k].offset \in DOMAIN target
           /\ target[manifest[r].entries[k].offset] = [record |-> replay[r].plan[k], by |-> r]
    BY <2>2, <2>6
  <2>10. manifest[r].status = "acknowledged" =>
           /\ {manifest[r].entries[k].record : k \in DOMAIN manifest[r].entries}
                = Pinned(replay[r].snapshot)
           /\ Len(manifest[r].entries) = Cardinality(Pinned(replay[r].snapshot))
    BY <2>2, <2>8
  <2>11. BeginsPlan(r, Len(manifest[r].entries) + 1)
    BY <2>2, <2>4
  <2> QED
    BY <2>2, <2>7, <2>9, <2>10, <2>11
<1> QED
  BY <1>1, <1>2, <1>3, PTL DEF ReplaySpec
=============================================================================
