------------------------------ MODULE Observer ------------------------------
(***************************************************************************)
(* The source observer (kafka_loop of monitoring/metrics.py) and the       *)
(* results it persists (record_source_quality of datalens/evidence.py): it *)
(* follows the source topic from its end, keeps the deliveries of the last *)
(* minutes by their broker timestamps, and writes what it counted with a   *)
(* statement of how far that covers the window.  A failure of anything but *)
(* the writing makes it start over at the end of the topic.                *)
(***************************************************************************)
EXTENDS Integers, Sequences, FiniteSets

CONSTANTS
    Outcomes,      \* what decode_event finds: a reason, or that it is valid
    Span,          \* WINDOW_SECONDS
    Ahead,         \* bound: how far a broker timestamp is ahead of the observer
    Behind,        \* bound: how far it is behind
    Horizon,       \* bound: the last instant of the clock
    MaxSent,       \* bound: deliveries to the topic
    MaxResults,    \* bound: results written
    MaxResets      \* bound: failures of the observer

ASSUME ObserverAssumption ==
    /\ Span \in Nat \ {0}
    /\ {Ahead, Behind, Horizon, MaxSent, MaxResults, MaxResets} \subseteq Nat

VARIABLES
    wall,      \* time.time() of the observer
    source,    \* the topic: timestamp, outcome and the instant it arrived
    observer,  \* the loop
    results,   \* datalens.quality_results of the check source_validation_window
    resets     \* failures so far

observerVars == <<wall, source, observer, results, resets>>

Delivery == [ts : Int, outcome : Outcomes, came : Nat]

Result == [at : Nat, status : {"partial", "unknown", "observed"}, counts : [Outcomes -> Nat],
           from : Nat, upto : Nat, ahead : SUBSET Nat]

\* from: where the consumer sat down; position: polled up to there; start:
\* observer_start; window: QualityWindow.records, as positions; ahead: those whose
\* timestamp a look at the clock did not reach.
Loop == [pc : {"down", "seated", "poll", "expose", "persist"}, from : Nat, position : Nat,
         start : Nat, window : SUBSET Nat, ahead : SUBSET Nat]
Down == [pc |-> "down", from |-> 0, position |-> 0, start |-> 0,
         window |-> {}, ahead |-> {}]

ObserverType ==
    /\ wall \in Nat /\ resets \in 0 .. MaxResets
    /\ source \in Seq(Delivery)
    /\ observer \in Loop
    /\ observer.from <= observer.position /\ observer.position <= Len(source)
    /\ results \in Seq(Result)

ObserverInit ==
    /\ wall = 0 /\ resets = 0
    /\ source = <<>>
    /\ observer = Down
    /\ results = <<>>

-----------------------------------------------------------------------------
WallTick ==
    /\ wall < Horizon
    /\ wall' = wall + 1
    /\ UNCHANGED <<source, observer, results, resets>>

\* A producer's event arrives, in whichever partition, with its own timestamp.
Deliver(ts, outcome) ==
    /\ Len(source) < MaxSent
    /\ source' = Append(source, [ts |-> ts, outcome |-> outcome, came |-> wall])
    /\ UNCHANGED <<wall, observer, results, resets>>

\* A new consumer: assigned, at the end, its positions resolved.
SeekToEnd ==
    /\ observer.pc = "down"
    /\ observer' = [observer EXCEPT !.pc = "seated", !.from = Len(source), !.position = Len(source)]
    /\ UNCHANGED <<wall, source, results, resets>>

\* Mistake: coverage goes on where the consumer before left off.
Mistake_CoverageStart == IF resets = 0 THEN wall ELSE observer.start

\* observer_start = time.time()
CoverageStart == wall

\* Mistake: what the consumer before had polled stays in the window.
Mistake_BeginCoverage ==
    /\ observer.pc = "seated"
    /\ observer' = [observer EXCEPT !.pc = "poll", !.start = CoverageStart, !.ahead = {}]
    /\ UNCHANGED <<wall, source, results, resets>>

BeginCoverage ==
    /\ observer.pc = "seated"
    /\ observer' = [observer EXCEPT !.pc = "poll", !.start = CoverageStart,
                                    !.window = {}, !.ahead = {}]
    /\ UNCHANGED <<wall, source, results, resets>>

\* consumer.poll: some of what is there, all of it added to the window.
PollSource(upto) ==
    /\ observer.pc = "poll" /\ upto \in observer.position .. Len(source)
    /\ observer' = [observer EXCEPT !.pc = "expose", !.position = upto,
                        !.window = @ \cup (observer.position + 1) .. upto]
    /\ UNCHANGED <<wall, source, results, resets>>

\* QualityWindow.snapshot: what is outside of the window is dropped for good, on
\* either side.
Kept == {k \in observer.window : wall - Span < source[k].ts /\ source[k].ts <= wall}

Unreached == {k \in observer.window : source[k].ts > wall}

\* quality.expose(time.time())
Expose ==
    /\ observer.pc = "expose"
    /\ observer' = [observer EXCEPT !.pc = "persist", !.window = Kept, !.ahead = @ \cup Unreached]
    /\ UNCHANGED <<wall, source, results, resets>>

\* status of record_source_quality
CoverageStatus ==
    IF observer.start > wall - Span THEN "partial"
    ELSE IF Kept = {} THEN "unknown" ELSE "observed"

ResultNow ==
    [at |-> wall, status |-> CoverageStatus,
     counts |-> [o \in Outcomes |-> Cardinality({k \in Kept : source[k].outcome = o})],
     from |-> observer.from, upto |-> observer.position, ahead |-> observer.ahead]

\* Every ten seconds, at another look at the clock: the result is written, unless
\* that fails or coverage seems to begin in the future, which the loop passes over.
Persist ==
    /\ observer.pc = "persist"
    /\ \/ /\ observer.start <= wall /\ Len(results) < MaxResults
          /\ results' = Append(results, ResultNow)
       \/ UNCHANGED results
    /\ observer' = [observer EXCEPT !.pc = "poll", !.window = Kept, !.ahead = @ \cup Unreached]
    /\ UNCHANGED <<wall, source, resets>>

\* It is not ten seconds yet, or results are not to be written.
SkipPersist ==
    /\ observer.pc = "persist"
    /\ observer' = [observer EXCEPT !.pc = "poll"]
    /\ UNCHANGED <<wall, source, results, resets>>

\* Anything else that is raised: the consumer is closed.
FailObserver ==
    /\ observer.pc \in {"seated", "poll"} /\ resets < MaxResets
    /\ observer' = [observer EXCEPT !.pc = "down"]
    /\ resets' = resets + 1
    /\ UNCHANGED <<wall, source, results>>

ObserverNext ==
    \/ WallTick
    \/ \E ts \in (wall - Behind) .. (wall + Ahead), o \in Outcomes : Deliver(ts, o)
    \/ SeekToEnd \/ BeginCoverage \/ (\E n \in 0 .. MaxSent : PollSource(n))
    \/ Expose \/ Persist \/ SkipPersist \/ FailObserver

ObserverSpec == ObserverInit /\ [][ObserverNext]_observerVars

-----------------------------------------------------------------------------
(* Properties.                                                             *)

\* What a result of the window counted, by outcome, is what the observer polled
\* since its coverage began and carries a timestamp in the window: dropping what is
\* too old at every look at the clock loses nothing else, but a record that was ever
\* ahead of the clock is lost for good.
CountsAreTheWindow ==
    \A i \in DOMAIN results : \A o \in Outcomes :
        results[i].counts[o] =
            Cardinality({k \in (results[i].from + 1) .. results[i].upto :
                /\ results[i].at - Span < source[k].ts /\ source[k].ts <= results[i].at
                /\ k \notin results[i].ahead
                /\ source[k].outcome = o})

\* "recent windows are partial for 300 seconds afterward": a result that is not
\* called partial has no gap, every delivery that came in its window was polled or is
\* still to be polled, however often the observer failed before.
NoGapIsClaimed ==
    \A i \in DOMAIN results : results[i].status # "partial" =>
        \A k \in DOMAIN source :
            source[k].came > results[i].at - Span =>
                k > results[i].from
=============================================================================
