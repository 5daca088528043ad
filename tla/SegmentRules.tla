---------------------------- MODULE SegmentRules ----------------------------
(***************************************************************************)
(* The versioned behaviour rules of journeypulse/segments.py as pure       *)
(* operators: which memberships hold at a time, when the next of them can  *)
(* change, and what the targeting API makes of the stored ones.  A rule    *)
(* version fixes the view window and the abandonment delay.                *)
(***************************************************************************)
EXTENDS BehaviorRows, FiniteSets

CONSTANTS
    Versions,      \* rule versions
    Window,        \* window_seconds of each version
    AbandonDelay,  \* abandon_seconds of each version
    Poll,          \* poll_seconds
    Stale,         \* stale_seconds
    MinViews,      \* views an active_browser needs: 5 in the code
    MinOrders      \* orders a repeat_customer needs: 3 in the code

\* SegmentSettings.__post_init__
ASSUME SettingsAssumption ==
    /\ Window \in [Versions -> Nat \ {0}]
    /\ AbandonDelay \in [Versions -> Nat \ {0}]
    /\ Poll \in Nat \ {0}
    /\ Stale \in Nat /\ Stale >= 2 * Poll
    /\ MinViews \in Nat \ {0} /\ MinOrders \in Nat \ {0}

Segments == {"active_browser", "abandoned_cart", "repeat_customer"}

-----------------------------------------------------------------------------
(* evaluate: views are records with an occurrence time, rows a function    *)
(* from carts to cart rows, completed the distinct-order total.            *)

\* Mistake: the window is closed at its lower end.
Mistake_Current(v, now, views) == {x \in views : now - Window[v] <= x.at /\ x.at <= now}

Current(v, now, views) == {x \in views : now - Window[v] < x.at /\ x.at <= now}

Unresolved(rows) == {k \in DOMAIN rows : rows[k].done = NoTime /\ rows[k].add # NoTime}

Abandoned(v, now, rows) == {k \in Unresolved(rows) : rows[k].add + AbandonDelay[v] <= now}

\* Mistake: views that have yet to occur set no deadline.
Mistake_Deadlines(v, now, views, rows) ==
    {now + Poll}
    \cup {x.at + Window[v] : x \in Current(v, now, views)}
    \cup {rows[k].add + AbandonDelay[v] : k \in Unresolved(rows) \ Abandoned(v, now, rows)}

Deadlines(v, now, views, rows) ==
    {now + Poll}
    \cup {x.at + Window[v] : x \in Current(v, now, views)}
    \cup {x.at : x \in {y \in views : y.at > now}}
    \cup {rows[k].add + AbandonDelay[v] : k \in Unresolved(rows) \ Abandoned(v, now, rows)}

Member(segment, v, now, views, rows, completed) ==
    CASE segment = "active_browser" -> Cardinality(Current(v, now, views)) >= MinViews
      [] segment = "abandoned_cart" -> Abandoned(v, now, rows) # {}
      [] segment = "repeat_customer" -> completed >= MinOrders

\* current[-5]: the times a view occurred at that has fewer than MinViews
\* newer ones and makes MinViews with them.
PivotTimes(current) ==
    {x.at : x \in {y \in current :
                     /\ Cardinality({z \in current : z.at > y.at}) < MinViews
                     /\ Cardinality({z \in current : z.at >= y.at}) >= MinViews}}

\* Mistake: the membership expires with its newest view.
Mistake_Expiries(v, current) ==
    IF Cardinality(current) >= MinViews
    THEN {x.at + Window[v] : x \in {y \in current : \A z \in current : z.at <= y.at}}
    ELSE {NoTime}

\* valid_until, as the set of its one value.
Expiries(v, current) ==
    IF Cardinality(current) >= MinViews THEN {t + Window[v] : t \in PivotTimes(current)}
    ELSE {NoTime}

Earliest(times) == {t \in times : \A x \in times : t <= x}

\* What evaluate returns, as the set of its one value.
Evaluations(v, now, views, rows, completed) ==
    [member: {[s \in Segments |-> Member(s, v, now, views, rows, completed)]},
     validUntil: Expiries(v, Current(v, now, views)),
     at: {now},
     next: Earliest(Deadlines(v, now, views, rows))]

-----------------------------------------------------------------------------
(* targeting_response.                                                     *)

NoMembership == [member |-> [s \in Segments |-> FALSE], validUntil |-> NoTime, at |-> NoTime]
NoEvaluation == [version |-> NoTime, at |-> NoTime, next |-> NoTime]

\* complete: there is a row for each segment under the configured version.
Status(v, now, evaluation, membership) ==
    IF evaluation.at = NoTime \/ evaluation.version # v \/ membership.at = NoTime
    THEN "unevaluated"
    ELSE IF now - evaluation.at > Stale THEN "stale" ELSE "current"

Expired(segment, now, membership) ==
    /\ segment = "active_browser"
    /\ membership.validUntil # NoTime
    /\ membership.validUntil <= now

\* Mistake: the gate looks at consent but not at onboarding.
Mistake_Consents(customer) == customer.consent

Consents(customer) == customer.consent /\ customer.onboarded

Eligible(segment, v, now, customer, evaluation, membership) ==
    /\ Consents(customer)
    /\ Status(v, now, evaluation, membership) = "current"
    /\ membership.member[segment]
    /\ ~Expired(segment, now, membership)
=============================================================================
