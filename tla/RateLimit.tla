------------------------------ MODULE RateLimit ------------------------------
(***************************************************************************)
(* RateLimit.allow of journeypulse/gateway.py: a sliding window of grant   *)
(* times per source.  The gateway calls it from its event loop, where no   *)
(* two calls overlap; the customer API calls it from the threads that its  *)
(* synchronous dependencies run in, where another thread may come between  *)
(* any two operations on the deque.                                        *)
(***************************************************************************)
EXTENDS Integers, Sequences

CONSTANTS
    Callers,  \* threads that call allow: one in the gateway
    Sources,  \* registered sources
    Limit,    \* requests_per_minute
    Span,     \* the minute
    LastTick   \* bound: the last instant of the clock

ASSUME RateAssumption ==
    Limit \in Nat \ {0} /\ Span \in Nat \ {0} /\ LastTick \in Nat

VARIABLES
    clock,    \* time.monotonic()
    history,  \* per source, the deque
    call,     \* per caller, the call it is in
    granted   \* per source, when requests were let through: in the order of append

rateVars == <<clock, history, call, granted>>

AllowSteps == {"clear", "pop", "check", "append", "allowed", "refused", "raised"}
AllowCall == [pc: AllowSteps, source: Sources, now: Nat]
NoCall == [pc |-> "idle"]

RateType ==
    /\ clock \in Nat
    /\ history \in [Sources -> Seq(Nat)]
    /\ call \in [Callers -> AllowCall \cup {NoCall}]
    /\ granted \in [Sources -> Seq(Nat)]

RateInit ==
    /\ clock = 0
    /\ history = [s \in Sources |-> <<>>]
    /\ call = [t \in Callers |-> NoCall]
    /\ granted = [s \in Sources |-> <<>>]

-----------------------------------------------------------------------------
ClockTick ==
    /\ clock < LastTick
    /\ clock' = clock + 1
    /\ UNCHANGED <<history, call, granted>>

\* now = self.clock()
EnterAllow(t, s) ==
    /\ call[t] = NoCall
    /\ call' = [call EXCEPT ![t] = [pc |-> "clear", source |-> s, now |-> clock]]
    /\ UNCHANGED <<clock, history, granted>>

GoTo(t, pc) == call' = [call EXCEPT ![t].pc = pc]

\* while history and history[0] <= now - 60
Stale(t) ==
    LET h == history[call[t].source]
    IN  h # <<>> /\ Head(h) <= call[t].now - Span

DropStale(t) ==
    /\ call[t].pc = "clear"
    /\ GoTo(t, IF Stale(t) THEN "pop" ELSE "check")
    /\ UNCHANGED <<clock, history, granted>>

\* popleft(), which raises when the deque has been emptied meanwhile.
PopOldest(t) ==
    /\ call[t].pc = "pop"
    /\ LET s == call[t].source
       IN  IF history[s] = <<>>
           THEN GoTo(t, "raised") /\ UNCHANGED history
           ELSE GoTo(t, "clear") /\ history' = [history EXCEPT ![s] = Tail(@)]
    /\ UNCHANGED <<clock, granted>>

\* Mistake: one request more than the budget passes.
Mistake_Spent(s) == Len(history[s]) > Limit

Spent(s) == Len(history[s]) >= Limit

CheckBudget(t) ==
    /\ call[t].pc = "check"
    /\ GoTo(t, IF Spent(call[t].source) THEN "refused" ELSE "append")
    /\ UNCHANGED <<clock, history, granted>>

\* history.append(now); return True
Grant(t) ==
    /\ call[t].pc = "append"
    /\ LET s == call[t].source
       IN  /\ history' = [history EXCEPT ![s] = Append(@, call[t].now)]
           /\ granted' = [granted EXCEPT ![s] = Append(@, call[t].now)]
    /\ GoTo(t, "allowed")
    /\ UNCHANGED clock

AllowStep(t) == DropStale(t) \/ PopOldest(t) \/ CheckBudget(t) \/ Grant(t)

\* The request the caller serves is over.
LeaveAllow(t) ==
    /\ call[t].pc \in {"allowed", "refused", "raised"}
    /\ call' = [call EXCEPT ![t] = NoCall]
    /\ UNCHANGED <<clock, history, granted>>

RateNext ==
    \/ ClockTick
    \/ \E t \in Callers, s \in Sources : EnterAllow(t, s)
    \/ \E t \in Callers : AllowStep(t) \/ LeaveAllow(t)

RateSpec == RateInit /\ [][RateNext]_rateVars

-----------------------------------------------------------------------------
(* Properties.                                                             *)

\* "Source request budget: 120 requests/minute": of any Limit + 1 requests of
\* a source that were let through one after the other, the last came at least a
\* minute after the first.
BudgetHolds ==
    \A s \in Sources : \A k \in 1 .. Len(granted[s]) :
        k + Limit \in 1 .. Len(granted[s]) => granted[s][k + Limit] - granted[s][k] >= Span

=============================================================================
