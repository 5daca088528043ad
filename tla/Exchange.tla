------------------------------- MODULE Exchange -------------------------------
(***************************************************************************)
(* What a tracker and the event gateway share: the POST /v1/events         *)
(* requests of one tracker and the answers to them.  An event is known by  *)
(* its event_id; the gateway's results are matched by index and event_id,  *)
(* so an answer is the set of events it accepts, the set it rejects, and   *)
(* the rest of the request, which is retryable.                            *)
(***************************************************************************)
EXTENDS Integers, Sequences, FiniteSets

CONSTANTS
    Ids,       \* events, by event_id
    Requests   \* bound: requests that can be under way at a time

ASSUME ExchangeAssumption == IsFiniteSet(Ids)

VARIABLE exchange  \* the requests under way

Kinds == {"results", "unauthorized", "permanent", "retry"}

Answer == [kind: Kinds, accepted: SUBSET Ids, rejected: SUBSET Ids, persisted: SUBSET Ids]

\* 401; 403, 413, 415; 408, 429, 503 with detail.
Refused(kind) == [kind |-> kind, accepted |-> {}, rejected |-> {}, persisted |-> {}]

\* No request, or one whose sender is done with it; on its way; read by the
\* gateway; being published; answered.
RequestPCs == {"none", "sent", "open", "publishing", "answered"}

Request ==
    [pc: RequestPCs,
     awaited: BOOLEAN,      \* the tracker still waits for the answer
     events: SUBSET Ids,
     rejected: SUBSET Ids,  \* found invalid: their records go to the quarantine topic
     pending: SUBSET Ids,   \* records the producer still tries to deliver
     stored: SUBSET Ids,    \* records Kafka has appended for this request
     answer: Answer]

NoRequest ==
    [pc |-> "none", awaited |-> FALSE, events |-> {}, rejected |-> {}, pending |-> {},
     stored |-> {}, answer |-> Refused("retry")]

\* The handler is gone; what the producer has taken remains.
Over(r) == [NoRequest EXCEPT !.pending = r.pending, !.rejected = r.rejected \cap r.pending]

\* The tracker hears the answer, or stops listening.
GivenUp(r) == IF r.pc \in {"none", "answered"} THEN Over(r) ELSE [r EXCEPT !.awaited = FALSE]

ExchangeType == exchange \in [Requests -> Request]
ExchangeInit == exchange = [n \in Requests |-> NoRequest]
=============================================================================
