------------------------------- MODULE Capture -------------------------------
(***************************************************************************)
(* The capture path: a tracker and the gateway over the requests they      *)
(* exchange.  A request the tracker has given up on may still reach the    *)
(* gateway, and a gateway that has answered may still deliver.             *)
(***************************************************************************)
EXTENDS Tracker, Gateway

vars == <<exchange, trackerVars, gatewayVars>>

Init == ExchangeInit /\ TrackerInit /\ GatewayInit

Next ==
    \/ TrackerNext /\ UNCHANGED gatewayVars
    \/ GatewayNext /\ UNCHANGED trackerVars

Spec == Init /\ [][Next]_vars
FairSpec == Spec /\ TrackerFairness

TypeOK == ExchangeType /\ TrackerType /\ GatewayType

-----------------------------------------------------------------------------
(* Properties.                                                             *)

\* Every event track took is in exactly one place while the page lives: still
\* queued, or reported once with one status, and the totals count just that.
EachEventOnce ==
    /\ \A k, l \in DOMAIN queue : queue[k].id = queue[l].id => k = l
    /\ \A i \in Queued(queue) : outcome[i] = "none"
    /\ page = "open" => \A i \in tracked : outcome[i] = "none" => i \in Queued(queue)
    /\ \A s \in Statuses : totals[s] = Cardinality({i \in Ids : outcome[i] = s})

\* "A queued record is never returned as accepted": what the tracker reports as
\* accepted is in the topic, and what an answer calls quarantined is quarantined,
\* whichever requests were lost, late or repeated.
AcceptedIsDelivered ==
    /\ \A i \in Ids : outcome[i] = "accepted" => i \in topic
    /\ \A n \in Requests :
          /\ exchange[n].answer.accepted \subseteq topic
          /\ exchange[n].answer.persisted \subseteq quarantine

\* "Partial retries ... exclude accepted/rejected entries": a request that is
\* sent carries queued events only, each with an attempt charged for it.
ReportedIsNotResent ==
    [][\A n \in Requests :
         exchange'[n].pc = "sent" /\ exchange[n].pc # "sent" =>
            \A i \in exchange'[n].events :
                /\ outcome[i] = "none"
                /\ \E k \in DOMAIN queue : queue[k].id = i /\ queue[k].attempts > 0]_vars

\* "close({ flush: true }) ... flushes": when it has returned, no event is left
\* that was never tried.
CloseFlushes ==
    closing /\ page = "open" /\ drain = NoDrain =>
        \A k \in DOMAIN queue : queue[k].attempts > 0

\* "A 401 requests token refresh": the token fetched next is a refreshed one.
RefusalRefreshes == drain.pc = "token" /\ refused => drain.refresh

\* Every tracked event is reported, unless the page is closed or goes.
EveryEventIsReported ==
    \A i \in Ids : i \in tracked ~> outcome[i] # "none" \/ closed \/ page = "gone"
=============================================================================
