------------------------------- MODULE Tracker -------------------------------
(***************************************************************************)
(* One JourneyPulseTracker of journeypulse/sdk/journeypulse.mjs in a       *)
(* browser page.  JavaScript runs to the next await: an action is the code *)
(* between two awaits of _drain and _request, or one call of the host page *)
(* in between.                                                             *)
(***************************************************************************)
EXTENDS Exchange

CONSTANTS
    Weight,       \* bytes of an event's JSON
    BodyLimit,    \* maxBodyBytes
    UnloadLimit,  \* the 60000 bytes of a keepalive request
    BatchSize,    \* batchSize
    MaxBuffer,    \* maxBufferSize
    MaxAttempts,  \* maxAttempts
    MaxHung       \* bound: getToken calls that outlive their request

ASSUME TrackerAssumption ==
    /\ Weight \in [Ids -> Nat \ {0}]
    /\ BodyLimit \in Nat /\ UnloadLimit \in Nat
    /\ MaxAttempts \in Nat \ {0}
    /\ BatchSize \in Nat \ {0} /\ MaxBuffer \in Nat /\ MaxBuffer >= BatchSize
    /\ MaxHung \in Nat

VARIABLES
    page,          \* "open", or "gone" with everything in its memory
    queue,         \* this.queue: entries in the order of track
    drain,         \* the running _drain: this.inflight
    forceRefresh,  \* this.forceRefresh
    hung,          \* getToken calls whose request has timed out
    closed,        \* this.closed
    closing,       \* close({flush: true}) was called
    totals,        \* this.totals
    tracked,       \* events track has taken
    outcome,       \* what onResult was told of each event
    refused        \* the last answer was a 401 and no token was fetched since

trackerVars == <<page, queue, drain, forceRefresh, hung, closed, closing, totals,
                 tracked, outcome, refused>>

Statuses == {"accepted", "rejected", "dropped"}
Entry == [id: Ids, attempts: 0 .. MaxAttempts]

NoDrain == [pc |-> "none", keepalive |-> FALSE, eligible |-> {}, batch |-> {},
            refresh |-> FALSE, request |-> {}]

TrackerType ==
    /\ page \in {"open", "gone"}
    /\ queue \in Seq(Entry) /\ Len(queue) <= MaxBuffer
    /\ drain \in [pc: {"none", "token", "response", "sleep"}, keepalive: BOOLEAN,
                  eligible: SUBSET Ids, batch: SUBSET Ids, refresh: BOOLEAN,
                  request: SUBSET Requests]
    /\ forceRefresh \in BOOLEAN /\ closed \in BOOLEAN /\ closing \in BOOLEAN
    /\ refused \in BOOLEAN
    /\ hung \in 0 .. MaxHung
    /\ totals \in [Statuses -> Nat]
    /\ tracked \in SUBSET Ids
    /\ outcome \in [Ids -> Statuses \cup {"none"}]

TrackerInit ==
    /\ page = "open"
    /\ queue = <<>>
    /\ drain = NoDrain
    /\ forceRefresh = FALSE /\ closed = FALSE /\ closing = FALSE /\ refused = FALSE
    /\ hung = 0
    /\ totals = [s \in Statuses |-> 0]
    /\ tracked = {}
    /\ outcome = [i \in Ids |-> "none"]

-----------------------------------------------------------------------------
Queued(q) == {q[k].id : k \in DOMAIN q}
AttemptsOf(i) == LET k == CHOOSE k \in DOMAIN queue : queue[k].id = i IN queue[k].attempts

\* The entries of some events, in order: the j-th of them is the one that is
\* the j-th to be kept.
Among(q, ids) ==
    LET kept == {k \in DOMAIN q : q[k].id \in ids}
    IN  [j \in 1 .. Cardinality(kept) |->
            q[CHOOSE k \in kept : Cardinality(kept \cap (1 .. k)) = j]]

\* Bytes of the first n entries.
Bytes(q, n) == LET sum[k \in 0 .. n] == IF k = 0 THEN 0 ELSE sum[k - 1] + Weight[q[k].id] IN sum[n]

\* _batch: eligible entries from the front, as long as both limits hold.
Batch(q, eligible, limit) ==
    LET candidates == Among(q, eligible)
    IN  {candidates[n].id : n \in {m \in DOMAIN candidates :
            m <= BatchSize /\ Bytes(candidates, m) <= limit}}

\* Mistake: an attempt is charged only to a request that is answered.
Mistake_Charged(q, batch) == q

Charged(q, batch) ==
    [k \in DOMAIN q |-> IF q[k].id \in batch THEN [q[k] EXCEPT !.attempts = @ + 1] ELSE q[k]]

\* The head of the loop in _drain: the next batch and the getToken call of its
\* request, or the end of the pass.
Proceed(q, eligible, keepalive, refresh) ==
    LET limit == IF keepalive /\ UnloadLimit < BodyLimit THEN UnloadLimit ELSE BodyLimit
        batch == Batch(q, eligible, limit)
    IN  IF batch = {} THEN queue' = q /\ drain' = NoDrain
        ELSE /\ queue' = Charged(q, batch)
             /\ drain' = [pc |-> "token", keepalive |-> keepalive, eligible |-> eligible,
                          batch |-> batch, refresh |-> refresh, request |-> {}]

\* Mistake: what this very answer has finished is exhausted once more.
Mistake_Exhausted(settled) == {i \in drain.batch : AttemptsOf(i) >= MaxAttempts}

\* Mistake: an event gets one attempt too many.
Mistake_OneMore(settled) == {i \in drain.batch \ settled : AttemptsOf(i) > MaxAttempts}

Exhausted(settled) == {i \in drain.batch \ settled : AttemptsOf(i) >= MaxAttempts}

\* What _drain does with a reply: settled maps the events it finishes to their
\* statuses, the exhausted ones are dropped, and the others wait for a retry.
Handle(settled, refresh) ==
    LET exhausted == Exhausted(DOMAIN settled)
        over == DOMAIN settled \cup exhausted
        rest == Among(queue, Ids \ over)
        told(s) == Cardinality({i \in DOMAIN settled : settled[i] = s})
    IN  /\ outcome' = [i \in Ids |->
               CASE i \in exhausted -> "dropped"
                 [] i \in DOMAIN settled \ exhausted -> settled[i]
                 [] OTHER -> outcome[i]]
        /\ totals' = [s \in Statuses |->
               totals[s] + told(s) + (IF s = "dropped" THEN Cardinality(exhausted) ELSE 0)]
        /\ \/ /\ drain.keepalive
              /\ queue' = rest
              /\ drain' = NoDrain
           \/ /\ ~drain.keepalive /\ drain.batch \ over # {}
              /\ queue' = rest
              /\ drain' = [drain EXCEPT !.pc = "sleep", !.request = {}]
           \/ /\ ~drain.keepalive /\ drain.batch \ over = {}
              /\ Proceed(rest, drain.eligible, FALSE, refresh)

Nothing == [i \in {} |-> "accepted"]

\* The request of the running pass has been heard, or given up.
StopListening ==
    exchange' = [n \in Requests |->
        IF n \in drain.request THEN GivenUp(exchange[n]) ELSE exchange[n]]

-----------------------------------------------------------------------------
(* The host page.                                                          *)

\* track: a fresh id, within the buffer and the request size.
Track(i) ==
    /\ page = "open" /\ ~closed
    /\ i \notin tracked
    /\ Len(queue) < MaxBuffer
    /\ Weight[i] <= BodyLimit
    /\ queue' = Append(queue, [id |-> i, attempts |-> 0])
    /\ tracked' = tracked \cup {i}
    /\ UNCHANGED <<page, drain, forceRefresh, hung, closed, closing, totals, outcome, refused, exchange>>

\* flush starts a pass over what is queued now, unless one is running.
Flush(keepalive) ==
    /\ page = "open"
    /\ drain = NoDrain
    /\ queue # <<>>
    /\ Proceed(queue, Queued(queue), keepalive, forceRefresh)
    /\ UNCHANGED <<page, forceRefresh, hung, closed, closing, totals, tracked, outcome, refused, exchange>>

\* The flush timer, which close stops.
TimerFlush == ~closed /\ Flush(FALSE)

\* close: with flush it joins the pass that is running, or starts one.
Close(flush) ==
    /\ page = "open" /\ ~closed
    /\ closed' = TRUE
    /\ closing' = flush
    /\ \/ /\ flush /\ drain = NoDrain
          /\ Proceed(queue, Queued(queue), FALSE, forceRefresh)
       \/ /\ ~flush \/ drain # NoDrain
          /\ UNCHANGED <<queue, drain>>
    /\ UNCHANGED <<page, forceRefresh, hung, totals, tracked, outcome, refused, exchange>>

\* The page goes, and all that is buffered with it.
Leave ==
    /\ page = "open"
    /\ page' = "gone"
    /\ queue' = <<>>
    /\ drain' = NoDrain
    /\ hung' = 0
    /\ StopListening
    /\ UNCHANGED <<forceRefresh, closed, closing, totals, tracked, outcome, refused>>

-----------------------------------------------------------------------------
(* _request and the rest of _drain.                                        *)

\* getToken resolves in time: the request goes out.
SendRequest ==
    /\ drain.pc = "token"
    /\ \E n \in Requests :
          /\ exchange[n] = NoRequest
          /\ exchange' = [exchange EXCEPT ![n] =
                 [NoRequest EXCEPT !.pc = "sent", !.awaited = TRUE, !.events = drain.batch]]
          /\ drain' = [drain EXCEPT !.pc = "response", !.request = {n}]
    /\ forceRefresh' = FALSE
    /\ refused' = FALSE
    /\ UNCHANGED <<page, queue, hung, closed, closing, totals, tracked, outcome>>

\* getToken fails, or the request times out while it is pending: the call may
\* then still come back.
NoToken ==
    /\ drain.pc = "token"
    /\ hung' \in {hung, hung + 1} /\ hung' <= MaxHung
    /\ Handle(Nothing, forceRefresh)
    /\ UNCHANGED <<page, forceRefresh, closed, closing, tracked, refused, exchange>>

\* It does come back: its continuation clears forceRefresh; the fetch that
\* follows is aborted at once.
LateToken ==
    /\ hung > 0
    /\ hung' = hung - 1
    /\ forceRefresh' = FALSE
    /\ UNCHANGED <<page, queue, drain, closed, closing, totals, tracked, outcome, refused, exchange>>

\* The connection fails or requestTimeoutMs passes: delivery is unknown, and
\* the request may be on its way all the same.
NoReply ==
    /\ drain.pc = "response"
    /\ StopListening
    /\ Handle(Nothing, forceRefresh)
    /\ UNCHANGED <<page, forceRefresh, hung, closed, closing, tracked, refused>>

\* Mistake: a 2xx answer settles the whole batch.
Mistake_Settled(answer) == [i \in drain.batch |-> "accepted"]

\* How the events of the batch end that the answer is final for.
Settled(answer) ==
    CASE answer.kind = "results" ->
           [i \in answer.accepted \cup answer.rejected |->
               IF i \in answer.accepted THEN "accepted" ELSE "rejected"]
      [] answer.kind = "permanent" -> [i \in drain.batch |-> "dropped"]
      [] OTHER -> Nothing

\* A response arrives for the request that is waited for.
Reply ==
    /\ drain.pc = "response"
    /\ \E n \in drain.request :
          LET answer == exchange[n].answer
              again == answer.kind = "unauthorized"
          IN  /\ exchange[n].pc = "answered"
              /\ forceRefresh' = (forceRefresh \/ again)
              /\ refused' = again
              /\ Handle(Settled(answer), forceRefresh \/ again)
    /\ StopListening
    /\ UNCHANGED <<page, hung, closed, closing, tracked>>

\* The backoff is over.
Wake ==
    /\ drain.pc = "sleep"
    /\ Proceed(queue, drain.eligible, FALSE, forceRefresh)
    /\ UNCHANGED <<page, forceRefresh, hung, closed, closing, totals, tracked, outcome, refused, exchange>>

TrackerNext ==
    \/ \E i \in Ids : Track(i)
    \/ \E keepalive \in BOOLEAN : Flush(keepalive)
    \/ \E flush \in BOOLEAN : Close(flush)
    \/ Leave
    \/ SendRequest
    \/ NoToken
    \/ LateToken
    \/ NoReply
    \/ Reply
    \/ Wake

(* The timer ticks, and every request ends by its timeout at the latest.   *)
TrackerFairness ==
    /\ WF_trackerVars(TimerFlush)
    /\ WF_trackerVars(SendRequest \/ NoToken)
    /\ WF_trackerVars(Reply \/ NoReply)
    /\ WF_trackerVars(Wake)
=============================================================================
