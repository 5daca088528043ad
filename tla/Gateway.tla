------------------------------- MODULE Gateway -------------------------------
(***************************************************************************)
(* POST /v1/events of journeypulse/gateway.py and the Kafka publisher      *)
(* behind it (journeypulse/publisher.py): admission, validation, publish   *)
(* and answer are steps of one request's handler, and the producer goes on *)
(* delivering after the handler has given up on it.                        *)
(***************************************************************************)
EXTENDS Exchange

CONSTANTS
    Malformed,   \* events that fail the schema or the identity check
    Ahead,       \* events whose time is too far ahead of the gateway's clock
    MaxInflight, \* max_inflight_requests
    MaxCrashes   \* bound: restarts of the gateway

ASSUME GatewayAssumption ==
    /\ Malformed \subseteq Ids /\ Ahead \subseteq Ids
    /\ MaxInflight \in Nat \ {0} /\ MaxCrashes \in Nat

VARIABLES
    ahead,       \* events that are still too far in the future
    topic,       \* journeypulse-events: events it holds a record of, or several
    quarantine,  \* journeypulse-quarantine: events it holds a record for
    crashes

gatewayVars == <<ahead, topic, quarantine, crashes>>

GatewayType ==
    /\ ahead \in SUBSET Ahead
    /\ topic \in SUBSET Ids
    /\ quarantine \in SUBSET Ids
    /\ crashes \in 0 .. MaxCrashes

GatewayInit ==
    /\ ahead = Ahead
    /\ topic = {}
    /\ quarantine = {}
    /\ crashes = 0

-----------------------------------------------------------------------------
Open == {n \in Requests : exchange[n].pc \in {"open", "publishing"}}

\* The response is sent; without a listener it goes nowhere.
AnswerWith(n, answer) ==
    exchange' = [exchange EXCEPT ![n] =
        IF exchange[n].awaited
        THEN [Over(@) EXCEPT !.pc = "answered", !.awaited = TRUE, !.answer = answer]
        ELSE Over(@)]

\* The network loses the request.
Lose(n) ==
    /\ exchange[n].pc = "sent"
    /\ exchange' = [exchange EXCEPT ![n] = NoRequest]
    /\ UNCHANGED gatewayVars

\* authenticate, rate_limit and inflight.locked(): 401, 403 or 429 before the
\* body is read.  The limits and the tokens' lifetime are left open.
TurnAway(n, kind) ==
    /\ exchange[n].pc = "sent"
    /\ AnswerWith(n, Refused(kind))
    /\ UNCHANGED gatewayVars

\* async with inflight.
Admit(n) ==
    /\ exchange[n].pc = "sent"
    /\ Cardinality(Open) < MaxInflight
    /\ exchange' = [exchange EXCEPT ![n].pc = "open"]
    /\ UNCHANGED gatewayVars

\* body(): 408 on a slow body, 413 and 415 on one that is not acceptable.
RefuseBody(n, kind) ==
    /\ exchange[n].pc = "open"
    /\ AnswerWith(n, Refused(kind))
    /\ UNCHANGED gatewayVars

\* The events are validated one by one, then the publisher's thread hands the
\* records to the producer: those for which there is time and buffer.
Validate(n) ==
    /\ exchange[n].pc = "open"
    /\ \E pending \in SUBSET exchange[n].events :
          exchange' = [exchange EXCEPT
              ![n].pc = "publishing",
              ![n].rejected = exchange[n].events \cap (Malformed \cup ahead),
              ![n].pending = pending]
    /\ UNCHANGED gatewayVars

\* What the producer has done with a record is off its hands.
Without(r, i) ==
    IF r.pc \in {"none", "answered"}
    THEN [r EXCEPT !.pending = @ \ {i}, !.rejected = @ \ {i}]
    ELSE [r EXCEPT !.pending = @ \ {i}]

\* Kafka appends a record, once or, after a lost acknowledgement and a retry of
\* the producer's, several times.
Store(n, i) ==
    /\ i \in exchange[n].pending
    /\ exchange' = [exchange EXCEPT ![n] =
           IF @.pc = "publishing" THEN [Without(@, i) EXCEPT !.stored = exchange[n].stored \cup {i}]
           ELSE Without(@, i)]
    /\ \/ /\ i \in exchange[n].rejected
          /\ quarantine' = quarantine \cup {i}
          /\ UNCHANGED topic
       \/ /\ i \notin exchange[n].rejected
          /\ topic' = topic \cup {i}
          /\ UNCHANGED quarantine
    /\ UNCHANGED <<ahead, crashes>>

\* The producer gives a record up.
GiveUp(n, i) ==
    /\ i \in exchange[n].pending
    /\ exchange' = [exchange EXCEPT ![n] = Without(@, i)]
    /\ UNCHANGED gatewayVars

\* Mistake: a record the producer has taken counts as delivered.
Mistake_Acknowledged(n) == SUBSET (exchange[n].stored \cup exchange[n].pending)

\* Acknowledgements that can have arrived when the futures are read; none if
\* publish ran into its deadline.
Acknowledged(n) == SUBSET exchange[n].stored

Respond(n) ==
    /\ exchange[n].pc = "publishing"
    /\ \E acks \in Acknowledged(n) :
          AnswerWith(n, [kind |-> "results",
                         accepted |-> acks \ exchange[n].rejected,
                         rejected |-> exchange[n].rejected,
                         persisted |-> acks \cap exchange[n].rejected])
    /\ UNCHANGED gatewayVars

\* The gateway is restarted: its requests and its producer's buffer are lost.
Crash ==
    /\ crashes < MaxCrashes
    /\ crashes' = crashes + 1
    /\ exchange' = [n \in Requests |->
           IF n \in Open THEN NoRequest
           ELSE [exchange[n] EXCEPT !.pending = {}, !.rejected = {}]]
    /\ UNCHANGED <<ahead, topic, quarantine>>

\* The clock reaches an event's time.
CatchUp(i) ==
    /\ i \in ahead
    /\ ahead' = ahead \ {i}
    /\ UNCHANGED <<topic, quarantine, crashes, exchange>>

GatewayNext ==
    \/ \E n \in Requests, kind \in {"unauthorized", "permanent", "retry"} : TurnAway(n, kind)
    \/ \E n \in Requests : Lose(n)
    \/ \E n \in Requests : Admit(n)
    \/ \E n \in Requests, kind \in {"permanent", "retry"} : RefuseBody(n, kind)
    \/ \E n \in Requests : Validate(n)
    \/ \E n \in Requests, i \in Ids : Store(n, i)
    \/ \E n \in Requests, i \in Ids : GiveUp(n, i)
    \/ \E n \in Requests : Respond(n)
    \/ Crash
    \/ \E i \in Ids : CatchUp(i)
=============================================================================
