--------------------------- MODULE ServicesProofs ---------------------------
(***************************************************************************)
(* Proofs about the rate limiter, the bootstrap and the customer API.      *)
(***************************************************************************)
EXTENDS RateLimit, Bootstrap, CustomerApi, SequenceTheorems, TLAPS

-----------------------------------------------------------------------------
(* The rate limiter, called by one thread.                                 *)

OneCaller == \A t, u \in Callers : t = u

Active(t) == call[t].pc \in {"clear", "pop", "check", "append"}

Dropped(s) == Len(granted[s]) - Len(history[s])

\* What the deque still holds is the end of what was granted; what it dropped is a
\* minute old, for the call in progress too.
WindowInv ==
    \A s \in Sources :
        /\ Dropped(s) >= 0
        /\ \A k \in 1 .. Len(history[s]) : history[s][k] = granted[s][k + Dropped(s)]
        /\ \A k \in 1 .. Len(granted[s]) : k <= Dropped(s) =>
              /\ granted[s][k] + Span <= clock
              /\ \A t \in Callers : Active(t) => granted[s][k] + Span <= call[t].now

\* Grants are in order of time, and none is later than the call in progress.
OrderInv ==
    \A s \in Sources :
        /\ \A k \in 1 .. Len(granted[s]) :
              /\ granted[s][k] <= clock
              /\ \A t \in Callers : Active(t) => granted[s][k] <= call[t].now
        /\ \A j, k \in 1 .. Len(granted[s]) : j <= k => granted[s][j] <= granted[s][k]

\* What a call knows at each of its steps.
Knows(c, h) ==
    /\ c.now <= clock
    /\ c.pc = "pop" => h # <<>> /\ h[1] <= c.now - Span
    /\ c.pc \in {"check", "append", "refused"} /\ h # <<>> => h[1] > c.now - Span
    /\ c.pc = "append" => Len(h) < Limit
    /\ c.pc = "refused" => Len(h) >= Limit

CallInv ==
    \A t \in Callers : call[t] # NoCall => Knows(call[t], history[call[t].source])

RateInv == RateType /\ WindowInv /\ OrderInv /\ CallInv /\ BudgetHolds

\* No grant has been given and no call is in progress.
LEMMA RateStart == RateInit => RateInv
BY RateAssumption DEF RateInit, RateInv, RateType, WindowInv, OrderInv, CallInv, Knows, BudgetHolds,
       NoCall, Active, Dropped, AllowCall

\* A call in progress is well typed, and so are its source's deque and grants.
LEMMA CallShape ==
    ASSUME RateType, NEW t \in Callers, call[t] # NoCall
    PROVE  /\ call[t].pc \in AllowSteps /\ call[t].source \in Sources /\ call[t].now \in Nat
           /\ history[call[t].source] \in Seq(Nat) /\ granted[call[t].source] \in Seq(Nat)
BY DEF RateType, AllowCall

\* The clock and the ends of calls leave deque and grants alone.
LEMMA QuietSteps ==
    ASSUME RateInv, ClockTick \/ (\E t \in Callers, s \in Sources : EnterAllow(t, s))
                    \/ (\E t \in Callers : LeaveAllow(t))
    PROVE  RateInv'
<1> DEFINE Left(t) ==
        \/ call'[t] = call[t]
        \/ call'[t] = NoCall
        \/ \E s \in Sources : call'[t] = [pc |-> "clear", source |-> s, now |-> clock]
<1>1. /\ history' = history /\ granted' = granted
      /\ clock' \in Nat /\ clock <= clock'
      /\ call' \in [Callers -> AllowCall \cup {NoCall}]
      /\ \A t \in Callers : Left(t)
  <2>1. CASE ClockTick
    BY <2>1 DEF ClockTick, RateInv, RateType
  <2>2. ASSUME NEW t \in Callers, NEW s \in Sources, EnterAllow(t, s)
        PROVE  /\ history' = history /\ granted' = granted /\ clock' = clock
               /\ call' \in [Callers -> AllowCall \cup {NoCall}]
               /\ \A u \in Callers : Left(u)
    <3>1. [pc |-> "clear", source |-> s, now |-> clock] \in AllowCall
      BY DEF RateInv, RateType, AllowCall, AllowSteps
    <3> QED
      BY <2>2, <3>1 DEF EnterAllow, RateInv, RateType
  <2>3. ASSUME NEW t \in Callers, LeaveAllow(t)
        PROVE  /\ history' = history /\ granted' = granted /\ clock' = clock
               /\ call' \in [Callers -> AllowCall \cup {NoCall}]
               /\ \A u \in Callers : Left(u)
    BY <2>3 DEF LeaveAllow, RateInv, RateType
  <2> HIDE DEF Left
  <2> QED
    BY <2>1, <2>2, <2>3 DEF RateInv, RateType
<1>2. RateType'
  BY <1>1 DEF RateInv, RateType
<1>3. ASSUME NEW t \in Callers, Active(t)'
      PROVE  \/ call'[t] = call[t] /\ Active(t)
             \/ call'[t].now = clock
  <2>1. Left(t) /\ call'[t] # NoCall
    BY <1>1, <1>3 DEF Active, NoCall
  <2>2. CASE call'[t] = call[t]
    BY <1>3, <2>2 DEF Active
  <2>3. CASE \E s \in Sources : call'[t] = [pc |-> "clear", source |-> s, now |-> clock]
    BY <2>3
  <2> QED
    BY <2>1, <2>2, <2>3
<1> HIDE DEF Left
<1>4. WindowInv'
  <2> SUFFICES ASSUME NEW s \in Sources, NEW k \in 1 .. Len(granted[s]), k <= Dropped(s)
               PROVE  /\ granted[s][k] + Span <= clock'
                      /\ \A t \in Callers : Active(t)' => granted[s][k] + Span <= call'[t].now
    BY <1>1 DEF RateInv, WindowInv, Dropped
  <2>1. granted[s][k] + Span <= clock /\ granted[s][k] + Span \in Int
    BY RateAssumption DEF RateInv, WindowInv, RateType
  <2>2. ASSUME NEW t \in Callers, Active(t)'
        PROVE  granted[s][k] + Span <= call'[t].now
    <3>1. CASE call'[t] = call[t] /\ Active(t)
      BY <3>1 DEF RateInv, WindowInv
    <3>2. CASE call'[t].now = clock
      BY <2>1, <3>2
    <3> QED
      BY <1>3, <2>2, <3>1, <3>2
  <2> QED
    BY <1>1, <2>1, <2>2 DEF RateInv, RateType
<1>5. OrderInv'
  <2> SUFFICES ASSUME NEW s \in Sources, NEW k \in 1 .. Len(granted[s])
               PROVE  /\ granted[s][k] <= clock'
                      /\ \A t \in Callers : Active(t)' => granted[s][k] <= call'[t].now
    BY <1>1 DEF RateInv, OrderInv
  <2>1. granted[s][k] <= clock /\ granted[s][k] \in Nat
    BY DEF RateInv, OrderInv, RateType
  <2> QED
    BY <1>1, <1>3, <2>1 DEF RateInv, OrderInv, RateType
<1>6. CallInv'
  <2> SUFFICES ASSUME NEW t \in Callers, call'[t] # NoCall
               PROVE  Knows(call[t], history[call[t].source])'
    BY DEF CallInv
  <2>1. CASE call'[t] = call[t]
    BY <1>1, <2>1, CallShape DEF RateInv, CallInv, Knows, RateType
  <2>2. CASE call'[t] # call[t]
    <3>1. call'[t].pc = "clear" /\ call'[t].now = clock
      BY <1>1, <2>2 DEF Left
    <3> QED
      BY <1>1, <3>1 DEF Knows, RateInv, RateType
  <2> QED
    BY <2>1, <2>2
<1>7. BudgetHolds'
  BY <1>1 DEF RateInv, BudgetHolds
<1> QED
  BY <1>2, <1>4, <1>5, <1>6, <1>7 DEF RateInv

\* Inside a call only its caller is active, and it has no other step in progress.
LEMMA Alone ==
    ASSUME OneCaller, NEW t \in Callers
    PROVE  \A u \in Callers : u = t
BY DEF OneCaller

\* Looking at the deque: whether its head is stale, whether the budget is spent.
LEMMA LookSteps ==
    ASSUME RateInv, NEW t \in Callers, DropStale(t) \/ CheckBudget(t)
    PROVE  RateInv'
<1>0. /\ call[t] # NoCall /\ UNCHANGED <<clock, history, granted>>
      /\ Active(t)
  BY DEF DropStale, CheckBudget, NoCall, Active
<1> DEFINE h == history[call[t].source]
           Goes(pc) == /\ call' = [call EXCEPT ![t].pc = pc]
                       /\ Knows([call[t] EXCEPT !.pc = pc], h)
<1>1. /\ call[t] \in AllowCall /\ h \in Seq(Nat) /\ Knows(call[t], h)
      /\ h # <<>> => Head(h) = h[1] /\ h[1] \in Nat
  BY <1>0, CallShape DEF RateInv, CallInv, RateType
<1>2. \E pc \in {"pop", "check", "append", "refused"} : Goes(pc)
  <2>1. CASE DropStale(t) /\ Stale(t)
    <3>1. Goes("pop")
      BY <1>1, <2>1, RateAssumption DEF DropStale, GoTo, Stale, Knows, AllowCall
    <3> QED
      BY <3>1
  <2>2. CASE DropStale(t) /\ ~Stale(t)
    <3>1. h # <<>> => h[1] > call[t].now - Span
      BY <1>1, <2>2, RateAssumption DEF Stale, AllowCall
    <3>2. Knows([call[t] EXCEPT !.pc = "check"], h)
      BY <1>1, <3>1 DEF Knows, AllowCall
    <3>3. Goes("check")
      BY <1>0, <2>2, <3>2 DEF DropStale, GoTo
    <3> QED
      BY <3>3
  <2>3. CASE CheckBudget(t) /\ Spent(call[t].source)
    <3>1. Goes("refused")
      BY <1>1, <2>3, RateAssumption DEF CheckBudget, GoTo, Spent, Knows, AllowCall
    <3> QED
      BY <3>1
  <2>4. CASE CheckBudget(t) /\ ~Spent(call[t].source)
    <3>1. Len(h) < Limit /\ call[t].pc = "check"
      BY <1>1, <2>4, RateAssumption DEF CheckBudget, Spent
    <3>2. h # <<>> => h[1] > call[t].now - Span
      BY <1>1, <3>1 DEF Knows
    <3>3. Knows([call[t] EXCEPT !.pc = "append"], h)
      BY <1>1, <3>1, <3>2 DEF Knows, AllowCall
    <3>4. Goes("append")
      BY <2>4, <3>3 DEF CheckBudget, GoTo
    <3> QED
      BY <3>4
  <2> HIDE DEF Goes
  <2> QED
    BY <2>1, <2>2, <2>3, <2>4
<1>3. PICK pc \in {"pop", "check", "append", "refused"} : Goes(pc)
  BY <1>2
<1>4. /\ [call[t] EXCEPT !.pc = pc] \in AllowCall
      /\ call'[t] = [call[t] EXCEPT !.pc = pc]
      /\ \A u \in Callers : u # t => call'[u] = call[u]
      /\ call' \in [Callers -> AllowCall \cup {NoCall}]
      /\ call'[t].now = call[t].now /\ call'[t].source = call[t].source
  BY <1>1, <1>3 DEF AllowCall, AllowSteps, RateInv, RateType
<1>5. \A u \in Callers : Active(u)' => Active(u) /\ call'[u].now = call[u].now
  BY <1>0, <1>4 DEF Active
<1>6. RateType'
  BY <1>0, <1>4 DEF RateInv, RateType
<1>7. WindowInv'
  BY <1>0, <1>5 DEF RateInv, WindowInv, Dropped
<1>8. OrderInv'
  BY <1>0, <1>5 DEF RateInv, OrderInv
<1>9. CallInv'
  BY <1>0, <1>3, <1>4 DEF RateInv, CallInv, Knows
<1> QED
  BY <1>0, <1>6, <1>7, <1>8, <1>9 DEF RateInv, BudgetHolds

\* What is a minute before a call is a minute before everything later.
LEMMA Later ==
    ASSUME NEW a \in Nat, NEW b \in Nat, NEW c \in Nat, b <= c, a <= b - Span
    PROVE  a + Span <= b /\ a + Span <= c
BY RateAssumption

\* The head that is dropped is a minute old for the only call there is.
LEMMA DropsTheOldest ==
    ASSUME RateInv, OneCaller, NEW t \in Callers, PopOldest(t)
    PROVE  RateInv'
<1>0. PICK s, h, g : s = call[t].source /\ h = history[s] /\ g = granted[s]
  OBVIOUS
<1>1. /\ call[t] # NoCall /\ call[t].pc = "pop" /\ s = call[t].source /\ h = history[s] /\ g = granted[s]
      /\ call[t] \in AllowCall /\ s \in Sources /\ h \in Seq(Nat) /\ g \in Seq(Nat)
      /\ h # <<>> /\ h[1] <= call[t].now - Span /\ call[t].now <= clock
  <2>1. call[t] # NoCall /\ call[t].pc = "pop"
    BY DEF PopOldest, NoCall
  <2> QED
    BY <1>0, <2>1, CallShape DEF RateInv, RateType, CallInv, Knows
<1>2. /\ history' = [history EXCEPT ![s] = Tail(h)] /\ UNCHANGED <<clock, granted>>
      /\ call' = [call EXCEPT ![t].pc = "clear"]
  BY <1>1 DEF PopOldest, GoTo
<1>3. /\ [call[t] EXCEPT !.pc = "clear"] \in AllowCall
      /\ call'[t] = [call[t] EXCEPT !.pc = "clear"]
      /\ call'[t].now = call[t].now /\ call'[t].source = s /\ call'[t].pc = "clear"
      /\ \A u \in Callers : u = t
      /\ Active(t) /\ Active(t)'
  BY <1>1, <1>2, Alone DEF AllowCall, AllowSteps, RateInv, RateType, Active
<1>4. /\ Tail(h) \in Seq(Nat) /\ Len(Tail(h)) = Len(h) - 1
      /\ \A k \in 1 .. Len(Tail(h)) : Tail(h)[k] = h[k + 1]
      /\ Len(h) \in Nat \ {0} /\ Len(g) \in Nat
  BY <1>1, HeadTailProperties, EmptySeq, LenProperties
<1>5. RateType'
  BY <1>1, <1>2, <1>3, <1>4 DEF RateInv, RateType
<1>6. WindowInv'
  <2>1. ASSUME NEW r \in Sources, r # s
        PROVE  history'[r] = history[r] /\ Dropped(r)' = Dropped(r)
    BY <1>2, <2>1 DEF RateInv, RateType, Dropped
  <2>2. history'[s] = Tail(h) /\ Dropped(s)' = Dropped(s) + 1 /\ Dropped(s) \in Int
    <3>1. history'[s] = Tail(h) /\ granted'[s] = g
      BY <1>1, <1>2 DEF RateInv, RateType
    <3>2. Len(g) - (Len(h) - 1) = Len(g) - Len(h) + 1 /\ Len(g) - Len(h) \in Int
      BY <1>4
    <3>3. Dropped(s) = Len(g) - Len(h) /\ Dropped(s)' = Len(g) - Len(Tail(h))
      BY <1>1, <3>1 DEF Dropped
    <3>4. Len(Tail(h)) = Len(h) - 1
      BY <1>4
    <3> QED
      BY <3>1, <3>2, <3>3, <3>4
  <2>3. g[Dropped(s) + 1] + Span <= call[t].now /\ g[Dropped(s) + 1] + Span <= clock
    <3>1. Dropped(s) >= 0 /\ 1 \in 1 .. Len(h)
      BY <1>1, <1>4 DEF RateInv, WindowInv
    <3>2. h[1] = g[1 + Dropped(s)]
      BY <1>1, <3>1 DEF RateInv, WindowInv
    <3>3. Dropped(s) + 1 \in 1 .. Len(g)
      <4>1. Dropped(s) = Len(g) - Len(h)
        BY <1>1 DEF Dropped
      <4> QED
        BY <1>4, <3>1, <4>1
    <3>4. g[Dropped(s) + 1] \in Nat /\ 1 + Dropped(s) = Dropped(s) + 1
      BY <1>1, <2>2, <3>3
    <3>5. clock \in Nat /\ call[t].now \in Nat
      BY <1>1 DEF RateInv, RateType, AllowCall
    <3> QED
      <4>1. h[1] \in Nat /\ h[1] = g[Dropped(s) + 1]
        BY <3>2, <3>4
      <4> QED
        BY <1>1, <3>5, <4>1, Later
  <2>4. ASSUME NEW r \in Sources
        PROVE  /\ (Dropped(r) >= 0)'
               /\ \A k \in 1 .. Len(history'[r]) : history'[r][k] = granted[r][k + Dropped(r)']
    <3>1. CASE r = s
      <4>1. Dropped(s) >= 0 /\ \A k \in 1 .. Len(h) : h[k] = g[k + Dropped(s)]
        BY <1>1 DEF RateInv, WindowInv
      <4>2. ASSUME NEW k \in 1 .. Len(h) - 1
            PROVE  Tail(h)[k] = g[k + (Dropped(s) + 1)]
        <5>1. k + 1 \in 1 .. Len(h) /\ (k + 1) + Dropped(s) = k + (Dropped(s) + 1)
          BY <1>4, <2>2
        <5>2. Tail(h)[k] = h[k + 1] /\ h[k + 1] = g[(k + 1) + Dropped(s)]
          BY <1>4, <4>1, <5>1
        <5> QED
          BY <5>1, <5>2
      <4>3. Dropped(s) + 1 >= 0
        BY <2>2, <4>1
      <4>4. history'[s] = Tail(h) /\ granted'[s] = g
        BY <1>1, <1>2, <2>2
      <4>5. Len(Tail(h)) = Len(h) - 1
        BY <1>4
      <4>6. (Dropped(s) >= 0)'
        BY <2>2, <4>3
      <4> QED
        BY <1>2, <2>2, <3>1, <4>2, <4>4, <4>5, <4>6
    <3>2. CASE r # s
      BY <2>1, <3>2 DEF RateInv, WindowInv
    <3> QED
      BY <3>1, <3>2
  <2>5. ASSUME NEW r \in Sources, NEW k \in 1 .. Len(granted[r]), k <= Dropped(r)'
        PROVE  granted[r][k] + Span <= clock /\ granted[r][k] + Span <= call[t].now
    <3>1. CASE k <= Dropped(r)
      BY <1>3, <3>1 DEF RateInv, WindowInv
    <3>2. CASE r = s /\ k = Dropped(s) + 1
      BY <1>1, <2>3, <3>2
    <3>3. r = s \/ Dropped(r)' = Dropped(r)
      BY <2>1
    <3>4. k \in Int
      OBVIOUS
    <3> QED
      BY <2>2, <2>5, <3>1, <3>2, <3>3, <3>4
  <2>6. ASSUME NEW r \in Sources, NEW k \in 1 .. Len(granted[r])', (k <= Dropped(r))'
        PROVE  (/\ granted[r][k] + Span <= clock
                /\ \A u \in Callers : Active(u) => granted[r][k] + Span <= call[u].now)'
    BY <1>2, <1>3, <2>5, <2>6
  <2> QED
    BY <1>2, <2>4, <2>6 DEF WindowInv
<1>7. OrderInv'
  BY <1>2, <1>3 DEF RateInv, OrderInv
<1>8. CallInv'
  BY <1>1, <1>2, <1>3 DEF CallInv, Knows
<1> QED
  BY <1>2, <1>5, <1>6, <1>7, <1>8 DEF RateInv, BudgetHolds

\* The grant Limit before the new one has left the deque, so it is a minute old.
LEMMA GrantsInBudget ==
    ASSUME RateInv, OneCaller, NEW t \in Callers, Grant(t)
    PROVE  RateInv'
<1>0. PICK s, h, g, start :
        s = call[t].source /\ h = history[s] /\ g = granted[s] /\ start = call[t].now
  OBVIOUS
<1>1. /\ call[t] # NoCall /\ call[t].pc = "append" /\ Active(t)
      /\ s = call[t].source /\ h = history[s] /\ g = granted[s] /\ start = call[t].now
      /\ call[t] \in AllowCall /\ s \in Sources /\ h \in Seq(Nat) /\ g \in Seq(Nat) /\ start \in Nat
      /\ Len(h) < Limit /\ start <= clock
  <2>1. call[t] # NoCall /\ call[t].pc = "append"
    BY DEF Grant, NoCall
  <2> QED
    BY <1>0, <2>1, CallShape DEF RateInv, RateType, CallInv, Knows, Active
<1>2. /\ history' = [history EXCEPT ![s] = Append(h, start)]
      /\ granted' = [granted EXCEPT ![s] = Append(g, start)]
      /\ call' = [call EXCEPT ![t].pc = "allowed"] /\ UNCHANGED clock
  BY <1>1 DEF Grant, GoTo
<1>3. /\ [call[t] EXCEPT !.pc = "allowed"] \in AllowCall
      /\ call'[t] = [call[t] EXCEPT !.pc = "allowed"]
      /\ \A u \in Callers : u = t
      /\ ~Active(t)'
  BY <1>1, <1>2, Alone DEF AllowCall, AllowSteps, RateInv, RateType, Active
<1>4. /\ Append(h, start) \in Seq(Nat) /\ Append(g, start) \in Seq(Nat)
      /\ Len(Append(h, start)) = Len(h) + 1 /\ Len(Append(g, start)) = Len(g) + 1
      /\ \A k \in 1 .. Len(h) : Append(h, start)[k] = h[k]
      /\ \A k \in 1 .. Len(g) : Append(g, start)[k] = g[k]
      /\ Append(h, start)[Len(h) + 1] = start /\ Append(g, start)[Len(g) + 1] = start
  <2>1. /\ Append(h, start) \in Seq(Nat) /\ Len(Append(h, start)) = Len(h) + 1
        /\ \A k \in 1 .. Len(h) : Append(h, start)[k] = h[k]
        /\ Append(h, start)[Len(h) + 1] = start
    BY <1>1, AppendProperties
  <2>2. /\ Append(g, start) \in Seq(Nat) /\ Len(Append(g, start)) = Len(g) + 1
        /\ \A k \in 1 .. Len(g) : Append(g, start)[k] = g[k]
        /\ Append(g, start)[Len(g) + 1] = start
    BY <1>1, AppendProperties
  <2> QED
    BY <2>1, <2>2
<1>11. /\ Len(h) \in Nat /\ Len(g) \in Nat
       /\ \A k \in 1 .. Len(g) : g[k] \in Nat
  BY <1>1, LenProperties
<1>5. /\ history'[s] = Append(h, start) /\ granted'[s] = Append(g, start)
      /\ Dropped(s)' = Dropped(s) /\ Dropped(s) = Len(g) - Len(h) /\ Dropped(s) >= 0
      /\ \A r \in Sources : r # s =>
            history'[r] = history[r] /\ granted'[r] = granted[r] /\ Dropped(r)' = Dropped(r)
  <2>1. history'[s] = Append(h, start) /\ granted'[s] = Append(g, start)
    BY <1>1, <1>2 DEF RateInv, RateType
  <2>2. Dropped(s) = Len(g) - Len(h) /\ Dropped(s)' = Len(granted'[s]) - Len(history'[s])
    BY <1>1 DEF Dropped
  <2>3. Dropped(s)' = (Len(g) + 1) - (Len(h) + 1)
    BY <1>4, <2>1, <2>2
  <2>4. Dropped(s)' = Dropped(s)
    <3>1. \A m, n \in Nat : (n + 1) - (m + 1) = n - m
      OBVIOUS
    <3>2. (Len(g) + 1) - (Len(h) + 1) = Len(g) - Len(h)
      BY <1>11, <3>1
    <3> QED
      BY <2>2, <2>3, <3>2
  <2>5. Dropped(s) >= 0
    BY <1>1 DEF RateInv, WindowInv
  <2>6. \A r \in Sources : r # s => history'[r] = history[r] /\ granted'[r] = granted[r]
    BY <1>2 DEF RateInv, RateType
  <2>7. \A r \in Sources : r # s => Dropped(r)' = Dropped(r)
    BY <2>6 DEF Dropped
  <2> QED
    BY <2>1, <2>2, <2>4, <2>5, <2>6, <2>7
<1>6. RateType'
  BY <1>1, <1>2, <1>3, <1>4 DEF RateInv, RateType
<1>7. WindowInv'
  <2>1. ASSUME NEW r \in Sources
        PROVE  (/\ Dropped(r) >= 0
                /\ \A k \in 1 .. Len(history[r]) : history[r][k] = granted[r][k + Dropped(r)])'
    <3>1. CASE r = s
      <4>1. ASSUME NEW k \in 1 .. Len(h) + 1
            PROVE  Append(h, start)[k] = Append(g, start)[k + Dropped(s)]
        <5>1. CASE k = Len(h) + 1
          <6>1. k + Dropped(s) = Len(g) + 1
            BY <1>4, <1>11, <1>5, <5>1
          <6> QED
            BY <1>4, <1>11, <5>1, <6>1
        <5>2. CASE k \in 1 .. Len(h)
          <6>1. k + Dropped(s) \in 1 .. Len(g) /\ h[k] = g[k + Dropped(s)]
            <7>1. k + Dropped(s) \in 1 .. Len(g)
              BY <1>4, <1>11, <1>5, <5>2
            <7> QED
              BY <1>1, <5>2, <7>1 DEF RateInv, WindowInv
          <6> QED
            BY <1>4, <1>11, <5>2, <6>1
        <5> QED
          <6>1. k \in 1 .. Len(h) \/ k = Len(h) + 1
            BY <1>11
          <6> QED
            BY <5>1, <5>2, <6>1
      <4>2. Len(Append(h, start)) = Len(h) + 1
        BY <1>4, <1>11
      <4> QED
        BY <1>5, <3>1, <4>1, <4>2
    <3>2. CASE r # s
      BY <1>5, <3>2 DEF RateInv, WindowInv
    <3> QED
      BY <3>1, <3>2
  <2>2. ASSUME NEW r \in Sources, NEW k \in 1 .. Len(granted'[r]), k <= Dropped(r)'
        PROVE  granted'[r][k] + Span <= clock'
    <3>1. CASE r = s
      <4>1. k \in 1 .. Len(g) /\ k <= Dropped(s)
        BY <1>4, <1>11, <1>5, <2>2, <3>1
      <4> QED
        <5>1. g[k] + Span <= clock
          BY <1>1, <4>1 DEF RateInv, WindowInv
        <5> QED
          BY <1>2, <1>4, <1>11, <1>5, <3>1, <4>1, <5>1
    <3>2. CASE r # s
      BY <1>2, <1>5, <2>2, <3>2 DEF RateInv, WindowInv
    <3> QED
      BY <3>1, <3>2
  <2> QED
    BY <1>3, <2>1, <2>2 DEF WindowInv
<1>8. OrderInv'
  <2>1. ASSUME NEW k \in 1 .. Len(g)
        PROVE  g[k] <= start
    BY <1>1 DEF RateInv, OrderInv
  <2>2. ASSUME NEW r \in Sources, NEW k \in 1 .. Len(granted'[r])
        PROVE  granted'[r][k] <= clock'
    <3>1. CASE r = s /\ k = Len(g) + 1
      <4>1. granted'[r][k] = start
        BY <1>4, <1>5, <3>1
      <4> QED
        BY <1>1, <1>2, <4>1
    <3>2. CASE r = s /\ k \in 1 .. Len(g)
      <4>1. granted'[r][k] = g[k] /\ g[k] <= clock
        BY <1>1, <1>4, <1>5, <3>2 DEF RateInv, OrderInv
      <4> QED
        BY <1>2, <4>1
    <3>3. CASE r # s
      BY <1>2, <1>5, <3>3 DEF RateInv, OrderInv
    <3>4. r = s => k \in 1 .. Len(g) + 1
      BY <1>4, <1>5
    <3>5. r = s => k = Len(g) + 1 \/ k \in 1 .. Len(g)
      BY <1>11, <3>4
    <3> QED
      BY <3>1, <3>2, <3>3, <3>5
  <2>3. ASSUME NEW r \in Sources, NEW j \in 1 .. Len(granted'[r]), NEW k \in 1 .. Len(granted'[r]),
               j <= k
        PROVE  granted'[r][j] <= granted'[r][k]
    <3>1. CASE r = s /\ k = Len(g) + 1
      <4>1. CASE j = k
        <5>1. granted'[r][k] = start
          BY <1>4, <1>5, <3>1
        <5> QED
          BY <1>1, <4>1, <5>1
      <4>2. CASE j # k
        <5>1. j \in 1 .. Len(g)
          BY <1>4, <1>11, <1>5, <2>3, <3>1, <4>2
        <5> QED
          BY <1>4, <1>11, <1>5, <2>1, <3>1, <5>1
      <4> QED
        BY <4>1, <4>2
    <3>2. CASE r = s /\ k \in 1 .. Len(g)
      <4>1. j \in 1 .. Len(g)
        BY <1>4, <1>11, <2>3, <3>2
      <4> QED
        <5>1. g[j] <= g[k]
          BY <1>1, <2>3, <3>2, <4>1 DEF RateInv, OrderInv
        <5> QED
          BY <1>4, <1>5, <3>2, <4>1, <5>1
    <3>3. CASE r # s
      BY <1>5, <2>3, <3>3 DEF RateInv, OrderInv
    <3>4. r = s => k \in 1 .. Len(g) + 1
      BY <1>4, <1>5
    <3>5. r = s => k = Len(g) + 1 \/ k \in 1 .. Len(g)
      BY <1>11, <3>4
    <3> QED
      BY <3>1, <3>2, <3>3, <3>5
  <2> QED
    BY <1>3, <2>2, <2>3 DEF OrderInv
<1>9. CallInv'
  <2>1. call'[t].pc = "allowed" /\ call'[t].now = start
    BY <1>1, <1>3 DEF AllowCall
  <2> QED
    BY <1>1, <1>2, <1>3, <2>1 DEF CallInv, Knows
<1>10. BudgetHolds'
  <2> SUFFICES ASSUME NEW r \in Sources, NEW k \in 1 .. Len(granted'[r]),
                      k + Limit \in 1 .. Len(granted'[r])
               PROVE  granted'[r][k + Limit] - granted'[r][k] >= Span
    BY DEF BudgetHolds
  <2>1. CASE r = s /\ k + Limit = Len(g) + 1
    <3>1. k \in 1 .. Len(g) /\ k <= Dropped(s)
      <4>1. k = Len(g) + 1 - Limit /\ k \in Nat \ {0} /\ Dropped(s) = Len(g) - Len(h)
        BY <1>5, <1>11, <2>1, RateAssumption
      <4> QED
        <5>1. Limit \in Nat /\ Limit # 0 /\ Len(h) \in Nat /\ Len(g) \in Nat /\ Len(h) < Limit
          BY <1>1, <1>11, RateAssumption
        <5>2. Len(g) + 1 - Limit <= Len(g) - Len(h) /\ Len(g) + 1 - Limit <= Len(g)
          BY <5>1
        <5> QED
          BY <1>11, <4>1, <5>2
    <3>2. g[k] + Span <= start /\ g[k] \in Nat
      <4>1. k \in 1 .. Len(granted[s]) /\ k <= Dropped(s)
        BY <1>1, <3>1
      <4>2. granted[s][k] + Span <= call[t].now
        BY <1>1, <4>1 DEF RateInv, WindowInv
      <4> QED
        BY <1>1, <1>11, <3>1, <4>2
    <3> QED
      <4>1. granted'[r][k + Limit] = start /\ granted'[r][k] = g[k]
        BY <1>4, <1>11, <1>5, <2>1, <3>1
      <4> DEFINE before == g[k]
      <4> HIDE DEF before
      <4>2. before \in Nat /\ before + Span <= start
        BY <3>2 DEF before
      <4>3. start - before >= Span
        BY <1>1, <4>2, RateAssumption
      <4> QED
        BY <4>1, <4>3 DEF before
  <2>2. CASE r = s /\ k + Limit \in 1 .. Len(g)
    <3>1. k \in 1 .. Len(g)
      BY <1>1, <2>2, RateAssumption
    <3> QED
      <4>1. g[k + Limit] - g[k] >= Span
        BY <1>1, <2>2, <3>1 DEF RateInv, BudgetHolds
      <4> QED
        BY <1>4, <1>5, <2>2, <3>1, <4>1
  <2>3. CASE r # s
    BY <1>5, <2>3 DEF RateInv, BudgetHolds
  <2>4. r = s => k + Limit \in 1 .. Len(g) + 1
    BY <1>4, <1>5, <1>11
  <2>5. r = s => k + Limit = Len(g) + 1 \/ k + Limit \in 1 .. Len(g)
    BY <1>4, <1>11, <2>4
  <2> QED
    BY <2>1, <2>2, <2>3, <2>5
<1> QED
  BY <1>6, <1>7, <1>8, <1>9, <1>10 DEF RateInv

\* Every step of one thread preserves the rate limiter's invariant.
LEMMA RateSteps == OneCaller /\ RateInv /\ [RateNext]_rateVars => RateInv'
<1> SUFFICES ASSUME OneCaller, RateInv, [RateNext]_rateVars
             PROVE  RateInv'
  OBVIOUS
<1>1. CASE UNCHANGED rateVars
  BY <1>1 DEF rateVars, RateInv, RateType, WindowInv, OrderInv, CallInv, Knows, BudgetHolds,
       Dropped, Active
<1>2. CASE RateNext
  BY <1>2, QuietSteps, LookSteps, DropsTheOldest, GrantsInBudget DEF RateNext, AllowStep
<1> QED
  BY <1>1, <1>2

\* "Source request budget: 120 requests/minute", for every limit, every length of the
\* minute and every number of sources, where one thread calls allow: the gateway.
THEOREM BudgetIsKept ==
    ASSUME OneCaller
    PROVE  RateSpec => []BudgetHolds
<1>1. RateInit => RateInv
  BY RateStart
<1>2. RateInv /\ [RateNext]_rateVars => RateInv'
  BY RateSteps
<1>3. RateInv => BudgetHolds
  BY DEF RateInv
<1> QED
  BY <1>1, <1>2, <1>3, PTL DEF RateSpec

-----------------------------------------------------------------------------
(* The bootstrap.                                                          *)

\* What a command relies on at each of its steps, whatever others did since.
BootInv ==
    /\ BootType
    /\ applied \in {{}, Migrations}
    /\ \A c \in Commands :
          /\ At(c, "commit") => c \in Creators
          /\ command[c].pc \in {"database", "commit", "compare", "ready"} => AsConfigured
          /\ command[c].pc \in {"compare", "ready"} => applied = Migrations
          /\ At(c, "ready") => Agrees(c, registered)
    /\ CatalogueIsWhole

\* What a step of another command, or of this one, never takes back.
Kept ==
    /\ \A t \in Topics : topics[t] # "absent" => topics'[t] = topics[t]
    /\ applied = Migrations => applied' = Migrations
    /\ \A n \in DOMAIN registered : n \in DOMAIN registered' /\ registered'[n] = registered[n]

\* No topic exists and nothing is registered.
LEMMA BootStart == BootInit => BootInv
BY BootstrapAssumption DEF BootInit, BootInv, BootType, At, CatalogueIsWhole, BootSteps

\* A step moves at most one command, to one of its next places.
Moves(c, pc) ==
    /\ c \in Commands /\ pc \in BootSteps
    /\ command'[c].pc = pc
    /\ command' \in [Commands -> [pc : BootSteps, missing : SUBSET Topics]]
    /\ \A d \in Commands : d # c => command'[d] = command[d]

\* Moving on changes one command alone.
LEMMA MoveToMoves ==
    ASSUME BootType, NEW c \in Commands, NEW pc \in BootSteps, MoveTo(c, pc)
    PROVE  Moves(c, pc)
BY DEF BootType, MoveTo, Moves

\* Steps that leave the catalogue alone.
LEMMA TopicSteps ==
    ASSUME BootInv, NEW c \in Commands, NEW pc \in BootSteps, Moves(c, pc), Kept,
           topics' \in [Topics -> {"absent", "right", "wrong"}],
           UNCHANGED <<applied, registered>>,
           lock' \in Creators \cup {Nobody}, faults' \in 0 .. MaxFaults,
           pc = "commit" => c \in Creators,
           pc \in {"database", "commit", "compare", "ready"} => AsConfigured,
           pc \in {"compare", "ready"} => applied = Migrations,
           pc = "ready" => Agrees(c, registered)
    PROVE  BootInv'
<1>1. BootType'
  BY DEF BootInv, BootType, Moves
<1>2. AsConfigured => AsConfigured'
  BY DEF Kept, AsConfigured, BootInv, BootType
<1>3. \A d \in Commands : Agrees(d, registered) => Agrees(d, registered)'
  BY DEF Agrees
<1>4. CatalogueIsWhole'
  BY DEF BootInv, CatalogueIsWhole, Agrees
<1>5. ASSUME NEW d \in Commands
      PROVE  (/\ At(d, "commit") => d \in Creators
              /\ command[d].pc \in {"database", "commit", "compare", "ready"} => AsConfigured
              /\ command[d].pc \in {"compare", "ready"} => applied = Migrations
              /\ At(d, "ready") => Agrees(d, registered))'
  <2>1. CASE d = c
    BY <1>2, <1>3, <2>1 DEF Moves, At
  <2>2. CASE d # c
    BY <1>2, <1>3, <2>2 DEF BootInv, Moves, At
  <2> QED
    BY <2>1, <2>2
<1> QED
  BY <1>1, <1>4, <1>5 DEF BootInv

\* Committing the catalogue registers every migration the build wants and alters none.
LEMMA Registered ==
    ASSUME BootInv, NEW c \in Commands, CommitCatalogue(c)
    PROVE  BootInv' /\ Kept
<1>1. CASE Agrees(c, Registering(c))
  <2>1. /\ applied' = Migrations /\ registered' = Registering(c) /\ MoveTo(c, "ready")
        /\ lock' = Nobody /\ UNCHANGED <<topics, faults>> /\ At(c, "commit")
    BY <1>1 DEF CommitCatalogue
  <2>2. Moves(c, "ready")
    BY <2>1, MoveToMoves DEF BootInv, BootSteps
  <2>3. /\ DOMAIN registered' = DOMAIN registered \cup DOMAIN Wanted[c]
        /\ \A n \in DOMAIN registered : registered'[n] = registered[n]
    BY <2>1 DEF Registering
  <2>4. Kept
    BY <2>1, <2>3 DEF Kept
  <2>5. BootType'
    BY <2>1, <2>2, <2>3, BootstrapAssumption DEF BootInv, BootType, Moves
  <2>6. \A d \in Commands : Agrees(d, registered) => Agrees(d, registered)'
    BY <2>3 DEF Agrees
  <2>7. Agrees(c, registered)' /\ c \in Creators
    BY <1>1, <2>1 DEF Agrees, BootInv
  <2>8. AsConfigured' = AsConfigured /\ AsConfigured
    BY <2>1 DEF AsConfigured, BootInv, At
  <2>9. CatalogueIsWhole'
    BY <2>1, <2>3, <2>6, <2>7 DEF BootInv, CatalogueIsWhole, Commands
  <2>10. \A d \in Commands :
            (/\ At(d, "commit") => d \in Creators
             /\ command[d].pc \in {"database", "commit", "compare", "ready"} => AsConfigured
             /\ command[d].pc \in {"compare", "ready"} => applied = Migrations
             /\ At(d, "ready") => Agrees(d, registered))'
    BY <2>1, <2>2, <2>6, <2>7, <2>8 DEF BootInv, Moves, At
  <2> QED
    BY <2>1, <2>4, <2>5, <2>9, <2>10 DEF BootInv
<1>2. CASE ~Agrees(c, Registering(c))
  <2>1. /\ UNCHANGED <<applied, registered, topics, faults>> /\ MoveTo(c, "failed")
        /\ lock' = Nobody
    BY <1>2 DEF CommitCatalogue
  <2>2. Moves(c, "failed") /\ Kept
    BY <2>1, MoveToMoves DEF BootInv, BootSteps, Kept
  <2> QED
    BY <2>1, <2>2, TopicSteps DEF BootInv, BootType, BootSteps
<1> QED
  BY <1>1, <1>2

\* A step of a command keeps what is registered and the invariant.
LEMMA CommandSteps ==
    ASSUME BootInv, NEW c \in Commands, BootStep(c) \/ InterruptCommand(c) \/ RunCommand(c)
    PROVE  BootInv' /\ Kept
<1>1. CASE ListTopics(c)
  <2> DEFINE missing == {t \in Topics : topics[t] = "absent"}
             next == IF missing = {} THEN "verify" ELSE IF c \in Creators THEN "create" ELSE "failed"
  <2>1. /\ command' = [command EXCEPT ![c] = [pc |-> next, missing |-> missing]]
        /\ UNCHANGED <<topics, applied, registered, lock, faults>>
    BY <1>1 DEF ListTopics
  <2>2. next \in {"verify", "create", "failed"} /\ missing \in SUBSET Topics
    OBVIOUS
  <2> HIDE DEF missing, next
  <2>3. Moves(c, next) /\ Kept
    BY <2>1, <2>2 DEF Moves, Kept, BootInv, BootType, BootSteps
  <2> QED
    BY <2>1, <2>2, <2>3, TopicSteps DEF BootInv, BootType, BootSteps
<1>2. ASSUME NEW t \in Topics, CreateTopic(c, t)
      PROVE  BootInv' /\ Kept
  <2> DEFINE left == command[c].missing \ {t}
             next == IF left = {} THEN "verify" ELSE "create"
  <2>1. /\ command' = [command EXCEPT ![c] = [pc |-> next, missing |-> left]]
        /\ topics' = [topics EXCEPT ![t] = IF @ = "absent" THEN "right" ELSE @]
        /\ UNCHANGED <<applied, registered, lock, faults>>
    BY <1>2 DEF CreateTopic
  <2>2. next \in {"verify", "create"} /\ left \in SUBSET Topics
    BY DEF BootInv, BootType
  <2> HIDE DEF left, next
  <2>3. Moves(c, next)
    BY <2>1, <2>2 DEF Moves, BootInv, BootType, BootSteps
  <2>4. topics' \in [Topics -> {"absent", "right", "wrong"}] /\ Kept
    BY <2>1 DEF Kept, BootInv, BootType
  <2> QED
    BY <2>1, <2>2, <2>3, <2>4, TopicSteps DEF BootInv, BootType, BootSteps
<1>3. CASE VerifyTopics(c)
  <2> DEFINE next == IF AsConfigured THEN "database" ELSE "failed"
  <2>1. MoveTo(c, next) /\ UNCHANGED <<topics, applied, registered, lock, faults>>
    BY <1>3 DEF VerifyTopics
  <2>2. next \in {"database", "failed"} /\ (next = "database" => AsConfigured)
    OBVIOUS
  <2> HIDE DEF next
  <2>3. Moves(c, next) /\ Kept
    BY <2>1, <2>2, MoveToMoves DEF Kept, BootInv, BootSteps
  <2> QED
    BY <2>1, <2>2, <2>3, TopicSteps DEF BootInv, BootType, BootSteps
<1>4. CASE BeginRegistration(c)
  <2>1. /\ MoveTo(c, "commit") /\ UNCHANGED <<topics, applied, registered, faults>> /\ lock' = c
        /\ c \in Creators /\ AsConfigured
    BY <1>4 DEF BeginRegistration, BootInv, At
  <2>2. Moves(c, "commit") /\ Kept
    BY <2>1, MoveToMoves DEF Kept, BootInv, BootSteps
  <2> QED
    BY <2>1, <2>2, TopicSteps DEF BootInv, BootType, BootSteps
<1>5. CASE CommitCatalogue(c)
  BY <1>5, Registered
<1>6. CASE CheckMigrations(c)
  <2> DEFINE next == IF applied = Migrations THEN "compare" ELSE "failed"
  <2>1. /\ MoveTo(c, next) /\ UNCHANGED <<topics, applied, registered, lock, faults>>
        /\ AsConfigured
    BY <1>6 DEF CheckMigrations, BootInv, At
  <2>2. next \in {"compare", "failed"} /\ (next = "compare" => applied = Migrations)
    OBVIOUS
  <2> HIDE DEF next
  <2>3. Moves(c, next) /\ Kept
    BY <2>1, <2>2, MoveToMoves DEF Kept, BootInv, BootSteps
  <2> QED
    BY <2>1, <2>2, <2>3, TopicSteps DEF BootInv, BootType, BootSteps
<1>7. CASE CheckDefinitions(c)
  <2> DEFINE next == IF Agrees(c, registered) THEN "ready" ELSE "failed"
  <2>1. /\ MoveTo(c, next) /\ UNCHANGED <<topics, applied, registered, lock, faults>>
        /\ AsConfigured /\ applied = Migrations
    BY <1>7 DEF CheckDefinitions, BootInv, At
  <2>2. next \in {"ready", "failed"} /\ (next = "ready" => Agrees(c, registered))
    OBVIOUS
  <2> HIDE DEF next
  <2>3. Moves(c, next) /\ Kept
    BY <2>1, <2>2, MoveToMoves DEF Kept, BootInv, BootSteps
  <2> QED
    BY <2>1, <2>2, <2>3, TopicSteps DEF BootInv, BootType, BootSteps
<1>8. CASE InterruptCommand(c)
  <2>1. /\ MoveTo(c, "failed") /\ UNCHANGED <<topics, applied, registered>>
        /\ lock' \in {lock, Nobody} /\ faults' = faults + 1 /\ faults < MaxFaults
    BY <1>8 DEF InterruptCommand
  <2>2. Moves(c, "failed") /\ Kept
    BY <2>1, MoveToMoves DEF Kept, BootInv, BootSteps
  <2>3. faults' \in 0 .. MaxFaults /\ lock' \in Creators \cup {Nobody}
    BY <2>1, BootstrapAssumption DEF BootInv, BootType
  <2> QED
    BY <2>1, <2>2, <2>3, TopicSteps DEF BootInv, BootType, BootSteps
<1>9. CASE RunCommand(c)
  <2>1. MoveTo(c, "start") /\ UNCHANGED <<topics, applied, registered, lock, faults>>
    BY <1>9 DEF RunCommand
  <2>2. Moves(c, "start") /\ Kept
    BY <2>1, MoveToMoves DEF Kept, BootInv, BootSteps
  <2> QED
    BY <2>1, <2>2, TopicSteps DEF BootInv, BootType, BootSteps
<1> QED
  BY <1>1, <1>2, <1>3, <1>4, <1>5, <1>6, <1>7, <1>8, <1>9 DEF BootStep

\* So does a topic the broker creates by itself.
LEMMA BrokerSteps ==
    ASSUME BootInv, NEW t \in Topics, AutoCreate(t)
    PROVE  BootInv' /\ Kept
<1>1. /\ topics' = [topics EXCEPT ![t] = "wrong"] /\ topics[t] = "absent"
      /\ faults' \in 0 .. MaxFaults
      /\ UNCHANGED <<applied, registered, lock, command>>
  BY BootstrapAssumption DEF AutoCreate, BootInv, BootType
<1>2. BootType' /\ Kept /\ (AsConfigured => AsConfigured')
  BY <1>1 DEF BootInv, BootType, Kept, AsConfigured
<1> QED
  BY <1>1, <1>2 DEF BootInv, At, Agrees, CatalogueIsWhole

\* Every step of the bootstrap preserves its invariant and alters nothing registered.
LEMMA BootSafe == BootInv /\ [BootNext]_bootVars => BootInv' /\ (BootNext => Kept)
<1> SUFFICES ASSUME BootInv, [BootNext]_bootVars
             PROVE  BootInv' /\ (BootNext => Kept)
  OBVIOUS
<1>1. CASE BootNext
  BY <1>1, CommandSteps, BrokerSteps DEF BootNext
<1>2. CASE UNCHANGED bootVars /\ ~BootNext
  BY <1>2 DEF bootVars, BootInv, BootType, At, AsConfigured, Agrees, CatalogueIsWhole
<1> QED
  BY <1>1, <1>2

\* The bootstrap's invariant holds throughout.
LEMMA BootAlways == BootSpec => []BootInv
<1>1. BootInv /\ [BootNext]_bootVars => BootInv'
  BY BootSafe
<1> QED
  BY <1>1, BootStart, PTL DEF BootSpec

\* A command that reported ready can be relied on from then on, for any number of
\* commands, topics and builds.
THEOREM ReadyStands == BootSpec => []ReadyIsRegistered
<1>1. BootInv => ReadyIsRegistered
  BY DEF BootInv, ReadyIsRegistered, At
<1> QED
  BY <1>1, BootAlways, PTL

\* The catalogue has whole registrations only, on the whole schema.
THEOREM CatalogueStaysWhole == BootSpec => []CatalogueIsWhole
<1>1. BootInv => CatalogueIsWhole
  BY DEF BootInv
<1> QED
  BY <1>1, BootAlways, PTL

\* No command changes a registered definition or an existing topic.
THEOREM NothingChanges == BootSpec => NothingIsAltered
<1>1. BootInv /\ [BootNext]_bootVars =>
        [/\ \A n \in DOMAIN registered : n \in DOMAIN registered' /\ registered'[n] = registered[n]
         /\ \A t \in Topics : topics[t] # "absent" => topics'[t] = topics[t]]_bootVars
  BY BootSafe DEF Kept
<1> QED
  BY <1>1, BootAlways, PTL DEF BootSpec, NothingIsAltered

-----------------------------------------------------------------------------
(* The customer API.                                                       *)

\* Without a row there was no write.
AbsentIsUnwritten == \A u \in Users : customers[u] = None => Writes(u) = {}

ApiInv == ApiType /\ AbsentIsUnwritten /\ CustomersHoldTheirWrites

\* A row that is what the writes to it amount to.
HoldsAttribute(row, u, a) ==
    IF Naming(u, a) = {} THEN row.attributes[a] = None
    ELSE \E k \in Naming(u, a) :
            /\ IsLast(k, Naming(u, a))
            /\ row.attributes[a] = writes[k].body[a]
            /\ (a = "marketing_consent" => row.consented = writes[k].at)

HoldsOnboarding(row, u) ==
    IF Onboardings(u) = {} THEN row.onboarded = None
    ELSE \E k \in Onboardings(u) : IsFirst(k, Onboardings(u)) /\ row.onboarded = writes[k].at

Holds(row, u) == (\A a \in Attributes : HoldsAttribute(row, u, a)) /\ HoldsOnboarding(row, u)

\* The invariant, row by row.
LEMMA HoldsSplit ==
    CustomersHoldTheirWrites <=> \A u \in Users : customers[u] # None => Holds(customers[u], u)
BY DEF CustomersHoldTheirWrites, Holds, HoldsAttribute, HoldsOnboarding

\* The write a request of user u commits.
Written(u, body, op) == [user |-> u, body |-> body, at |-> now, onboarding |-> op = "onboard"]

\* The n-th write is one of user u: its place is after all others, and it counts
\* for its own customer alone.
AddsWrite(u, body, op, n) ==
    /\ n \in Nat /\ writes'[n].body = body /\ writes'[n].at = now
    /\ writes' \in Seq([user : Users, body : Bodies, at : Nat, onboarding : BOOLEAN])
    /\ \A v : \A k \in Writes(v) : k \in Nat /\ k < n /\ writes'[k] = writes[k]
    /\ Writes(u)' = Writes(u) \cup {n}
    /\ \A a : /\ a \in DOMAIN body => IsLast(n, Naming(u, a)')
              /\ a \notin DOMAIN body => Naming(u, a)' = Naming(u, a)
    /\ op = "onboard" => Onboardings(u)' = Onboardings(u) \cup {n}
    /\ op # "onboard" => Onboardings(u)' = Onboardings(u)
    /\ \A v : v # u => /\ Writes(v)' = Writes(v) /\ Onboardings(v)' = Onboardings(v)
                       /\ \A a : Naming(v, a)' = Naming(v, a)

\* A committed write is one more.
LEMMA OneMoreWrite ==
    ASSUME ApiType, NEW u \in Users, NEW body \in Bodies, NEW op \in Ops,
           writes' = Append(writes, Written(u, body, op))
    PROVE  \E n : AddsWrite(u, body, op, n)
<1>0. PICK n : n = Len(writes) + 1
  OBVIOUS
<1> DEFINE W == [user : Users, body : Bodies, at : Nat, onboarding : BOOLEAN]
<1>1. Written(u, body, op) \in W /\ writes \in Seq(W)
  BY DEF ApiType, Written
<1>2. PICK w : w = Written(u, body, op)
  OBVIOUS
<1>3. w.user = u /\ w.body = body /\ w.at = now /\ (w.onboarding <=> op = "onboard")
  BY <1>2 DEF Written
<1> HIDE DEF W
<1>4. /\ writes' \in Seq(W) /\ Len(writes') = n /\ n \in Nat /\ Len(writes) \in Nat
      /\ \A k \in 1 .. Len(writes) : writes'[k] = writes[k]
      /\ writes'[n] = w
  BY <1>0, <1>1, <1>2, AppendProperties, LenProperties
<1>5. /\ DOMAIN writes = 1 .. Len(writes) /\ DOMAIN writes' = (1 .. Len(writes)) \cup {n}
      /\ \A k \in 1 .. Len(writes) : k \in Nat /\ k < n
  <2>1. 1 .. n = (1 .. Len(writes)) \cup {n}
    BY <1>0, <1>4
  <2> QED
    BY <1>0, <1>1, <1>4, <2>1, LenProperties
<1>6. \A v : \A k \in Writes(v) : k \in DOMAIN writes /\ k \in Nat /\ k < n /\ writes'[k] = writes[k]
  BY <1>4, <1>5 DEF Writes
<1>7. /\ Writes(u)' = Writes(u) \cup {n}
      /\ \A v : v # u => Writes(v)' = Writes(v)
  BY <1>3, <1>4, <1>5 DEF Writes
<1>8. /\ \A v, a : v # u => Naming(v, a)' = Naming(v, a)
      /\ \A a : a \notin DOMAIN body => Naming(u, a)' = Naming(u, a)
  BY <1>3, <1>4, <1>6, <1>7 DEF Naming
<1>12. \A a \in DOMAIN body : IsLast(n, Naming(u, a)')
  <2>1. \A k \in Writes(u)' : k <= n
    BY <1>4, <1>6, <1>7
  <2> QED
    BY <1>3, <1>4, <1>7, <2>1 DEF Naming, IsLast
<1>9. /\ \A v : v # u => Onboardings(v)' = Onboardings(v)
      /\ op = "onboard" => Onboardings(u)' = Onboardings(u) \cup {n}
      /\ op # "onboard" => Onboardings(u)' = Onboardings(u)
  BY <1>3, <1>4, <1>6, <1>7 DEF Onboardings
<1>10. writes' \in Seq([user : Users, body : Bodies, at : Nat, onboarding : BOOLEAN])
  BY <1>4 DEF W
<1>11. AddsWrite(u, body, op, n)
  BY <1>3, <1>4, <1>6, <1>7, <1>8, <1>9, <1>10, <1>12 DEF AddsWrite
<1> QED
  BY <1>11

\* A row before a write is what the earlier writes amount to, a new one too.
LEMMA AssignedHolds ==
    ASSUME ApiType, NEW u \in Users, NEW body \in Bodies, NEW op \in Ops,
           writes' = Append(writes, Written(u, body, op)),
           NEW row \in Row, Holds(row, u)
    PROVE  /\ Assigned(row, body, op = "onboard") \in Row
           /\ \A r : r = Assigned(row, body, op = "onboard") => Holds(r, u)'
<1>0. SUFFICES ASSUME NEW r, r = Assigned(row, body, op = "onboard")
               PROVE  r \in Row /\ Holds(r, u)'
  OBVIOUS
<1>9. PICK n : AddsWrite(u, body, op, n)
  BY OneMoreWrite
<1>1. /\ n \in Nat /\ writes'[n].body = body /\ writes'[n].at = now
      /\ \A k \in Writes(u) : k \in Nat /\ k < n /\ writes'[k] = writes[k]
      /\ \A a : /\ a \in DOMAIN body => IsLast(n, Naming(u, a)')
                /\ a \notin DOMAIN body => Naming(u, a)' = Naming(u, a)
      /\ op = "onboard" => Onboardings(u)' = Onboardings(u) \cup {n}
      /\ op # "onboard" => Onboardings(u)' = Onboardings(u)
  BY <1>9 DEF AddsWrite
<1>2. /\ \A a : Naming(u, a) \subseteq Writes(u)
      /\ Onboardings(u) \subseteq Writes(u)
  BY DEF Naming, Onboardings
<1>3. /\ row.attributes \in [Attributes -> Values \cup {None}]
      /\ row.onboarded \in Nat \cup {None} /\ row.consented \in Nat \cup {None} /\ now \in Nat
  BY DEF Row, ApiType
<1>4. \A a \in DOMAIN body : body[a] \in Values \cup {None}
  BY ApiAssumption
<1>5. r \in Row
  BY <1>0, <1>3, <1>4 DEF Assigned, Row
<1>6. ASSUME NEW a \in Attributes
      PROVE  HoldsAttribute(r, u, a)'
  <2>1. CASE a \in DOMAIN body
    <3>1. r.attributes[a] = body[a] /\ (a = "marketing_consent" => r.consented = now)
      BY <1>0, <2>1 DEF Assigned
    <3>2. IsLast(n, Naming(u, a)')
      BY <1>1, <2>1
    <3> QED
      BY <1>1, <3>1, <3>2 DEF HoldsAttribute, IsLast
  <2>2. CASE a \notin DOMAIN body
    <3>1. r.attributes[a] = row.attributes[a] /\ (a = "marketing_consent" => r.consented = row.consented)
      BY <1>0, <2>2 DEF Assigned
    <3>2. Naming(u, a)' = Naming(u, a) /\ \A k \in Naming(u, a) : writes'[k] = writes[k]
      BY <1>1, <1>2, <2>2
    <3>3. HoldsAttribute(row, u, a)
      BY DEF Holds
    <3> QED
      BY <3>1, <3>2, <3>3 DEF HoldsAttribute, IsLast
  <2> QED
    BY <2>1, <2>2
<1>7. HoldsOnboarding(r, u)'
  <2>0. HoldsOnboarding(row, u)
    BY DEF Holds
  <2>1. CASE op # "onboard"
    <3>1. r.onboarded = row.onboarded
      BY <1>0, <2>1 DEF Assigned
    <3>2. Onboardings(u)' = Onboardings(u) /\ \A k \in Onboardings(u) : writes'[k] = writes[k]
      BY <1>1, <1>2, <2>1
    <3> QED
      BY <2>0, <3>1, <3>2 DEF HoldsOnboarding, IsFirst
  <2>2. CASE op = "onboard" /\ Onboardings(u) = {}
    <3>1. r.onboarded = now
      BY <1>0, <2>0, <2>2 DEF Assigned, HoldsOnboarding
    <3>2. n \in Onboardings(u)' /\ \A j \in Onboardings(u)' : n <= j
      BY <1>1, <2>2
    <3> QED
      BY <1>1, <3>1, <3>2 DEF HoldsOnboarding, IsFirst
  <2>3. CASE op = "onboard" /\ Onboardings(u) # {}
    <3>1. PICK k \in Onboardings(u) : IsFirst(k, Onboardings(u)) /\ row.onboarded = writes[k].at
      BY <2>0, <2>3 DEF HoldsOnboarding
    <3>2. writes[k].at \in Nat
      <4>1. k \in DOMAIN writes
        BY DEF Onboardings, Writes
      <4> QED
        <5> DEFINE W == [user : Users, body : Bodies, at : Nat, onboarding : BOOLEAN]
        <5>1. writes \in Seq(W)
          BY DEF ApiType
        <5> HIDE DEF W
        <5>2. writes[k] \in W
          BY <4>1, <5>1, ElementOfSeq, LenProperties
        <5> QED
          BY <5>2 DEF W
    <3>3. row.onboarded # None
      BY <3>1, <3>2, ApiAssumption
    <3>4. r.onboarded = row.onboarded
      BY <1>0, <3>3 DEF Assigned
    <3>5. /\ k \in Onboardings(u)' /\ writes'[k] = writes[k]
          /\ \A j \in Onboardings(u)' : k <= j
      <4>1. k \in Nat /\ k < n /\ writes'[k] = writes[k]
        BY <1>1, <1>2
      <4>2. \A j \in Onboardings(u) : k <= j
        BY <3>1 DEF IsFirst
      <4>3. Onboardings(u)' = Onboardings(u) \cup {n}
        BY <1>1, <2>3
      <4>4. k <= n
        BY <1>1, <4>1
      <4> QED
        BY <4>1, <4>2, <4>3, <4>4
    <3> QED
      BY <3>1, <3>4, <3>5 DEF HoldsOnboarding, IsFirst
  <2> QED
    BY <2>1, <2>2, <2>3
<1>8. Holds(r, u)'
  BY <1>6, <1>7 DEF Holds
<1> QED
  BY <1>5, <1>8

\* An answered request is well typed.
LEMMA AnswerType ==
    ASSUME ApiType, NEW q \in Requests, NEW status \in Answered, NEW row \in Row \cup {None},
           requests[q] # None, Answer(q, status, row)
    PROVE  requests' \in [Requests -> Request \cup {None}]
<1>1. requests[q] \in Request
  BY DEF ApiType
<1>2. [requests[q] EXCEPT !.pc = "done", !.status = status, !.row = row] \in Request
  BY <1>1 DEF Request
<1>3. requests' = [requests EXCEPT ![q] =
          [requests[q] EXCEPT !.pc = "done", !.status = status, !.row = row]]
  BY DEF Answer, ApiType
<1> QED
  BY <1>2, <1>3 DEF ApiType

\* So is one whose write is committed.
LEMMA WroteType ==
    ASSUME ApiType, NEW q \in Requests, NEW n \in Nat, NEW failed \in Answered, requests[q] # None,
           \/ requests' = [requests EXCEPT ![q] = [@ EXCEPT !.pc = "read", !.wrote = n]]
           \/ requests' = [requests EXCEPT ![q] =
                      [@ EXCEPT !.pc = "done", !.status = failed, !.wrote = n]]
    PROVE  requests' \in [Requests -> Request \cup {None}]
<1>1. requests[q] \in Request
  BY DEF ApiType
<1>2. [requests[q] EXCEPT !.pc = "read", !.wrote = n] \in Request
  BY <1>1 DEF Request
<1>3. [requests[q] EXCEPT !.pc = "done", !.status = failed, !.wrote = n] \in Request
  BY <1>1 DEF Request
<1> QED
  BY <1>2, <1>3 DEF ApiType

\* A step writes once for one customer, or creates an empty row, or changes no row
\* and no write.
LEMMA CommitHolds ==
    ASSUME ApiInv, NEW q \in Requests, CommitWrite(q)
    PROVE  ApiInv'
<1> USE DEF ApiInv
<1> DEFINE r == requests[q]
           onboarding == r.op = "onboard"
           row == IF customers[r.user] = None /\ onboarding THEN NewRow ELSE customers[r.user]
           w == [user |-> r.user, body |-> r.body, at |-> now, onboarding |-> onboarding]
<1>1. r \in Request /\ r.user \in Users /\ r.body \in Bodies /\ r.op \in Ops /\ now \in Nat
  BY DEF CommitWrite, ApiType, Request
<1>2. CASE row = None
  <2>1. UNCHANGED <<now, tokens, customers, writes>> /\ Answer(q, 404, None)
    BY <1>2 DEF CommitWrite
  <2>2. ApiType'
    <3>1. 404 \in Answered /\ requests[q] # None
      BY DEF Answered, CommitWrite
    <3>3. requests' \in [Requests -> Request \cup {None}]
      BY <2>1, <3>1, AnswerType
    <3> QED
      BY <2>1, <3>3 DEF ApiType
  <2> QED
    BY <2>1, <2>2 DEF AbsentIsUnwritten, CustomersHoldTheirWrites, Writes, Naming, Onboardings,
                      IsLast, IsFirst
<1>3. CASE row # None
  <2>1. /\ customers' = [customers EXCEPT ![r.user] = Assigned(row, r.body, onboarding)]
        /\ writes' = Append(writes, w) /\ UNCHANGED <<now, tokens>>
        /\ \/ requests' = [requests EXCEPT ![q] = [@ EXCEPT !.pc = "read", !.wrote = Len(writes')]]
           \/ requests' = [requests EXCEPT ![q] =
                      [@ EXCEPT !.pc = "done", !.status = 503, !.wrote = Len(writes')]]
    BY <1>3 DEF CommitWrite
  <2>2. row \in Row /\ Holds(row, r.user)
    <3>1. CASE customers[r.user] = None
      <4>1. row = NewRow /\ Writes(r.user) = {}
        BY <1>1, <1>3, <3>1 DEF AbsentIsUnwritten
      <4>2. /\ Onboardings(r.user) = {} /\ \A a : Naming(r.user, a) = {}
        BY <4>1 DEF Onboardings, Naming
      <4> QED
        BY <4>1, <4>2 DEF Holds, HoldsAttribute, HoldsOnboarding, NewRow, Row
    <3>2. CASE customers[r.user] # None
      BY <1>1, <3>2, HoldsSplit DEF ApiType
    <3> QED
      BY <3>1, <3>2
  <2>6. PICK u \in Users, body \in Bodies, op \in Ops, old \in Row :
            u = r.user /\ body = r.body /\ op = r.op /\ old = row
    BY <1>1, <2>2
  <2>14. /\ customers' = [customers EXCEPT ![u] = Assigned(old, body, op = "onboard")]
         /\ writes' = Append(writes, Written(u, body, op))
         /\ Holds(old, u)
    BY <2>1, <2>2, <2>6 DEF Written
  <2> HIDE DEF r, onboarding, row, w
  <2>3. /\ writes' \in Seq([user : Users, body : Bodies, at : Nat, onboarding : BOOLEAN])
        /\ \A v : \A k \in Writes(v) : writes'[k] = writes[k]
        /\ \A v : v # u => /\ Writes(v)' = Writes(v) /\ Onboardings(v)' = Onboardings(v)
                                /\ \A a : Naming(v, a)' = Naming(v, a)
    <3>1. PICK n : AddsWrite(u, body, op, n)
      BY <2>6, <2>14, OneMoreWrite
    <3> QED
      BY <3>1 DEF AddsWrite
  <2>4. PICK new : new = Assigned(old, body, op = "onboard")
    OBVIOUS
  <2>5. new \in Row /\ Holds(new, u)'
    BY <2>4, <2>6, <2>14, AssignedHolds
  <2>7. customers' = [customers EXCEPT ![u] = new] /\ Holds(new, u)' /\ new # None
    BY <2>4, <2>5, <2>14, ApiAssumption
  <2>8. requests' \in [Requests -> Request \cup {None}]
    <3>1. Len(writes') \in Nat
      BY <2>3, LenProperties
    <3>2. requests[q] # None /\ 503 \in Answered
      BY DEF CommitWrite, Answered
    <3>3. PICK n \in Nat : n = Len(writes')
      BY <3>1
    <3>4. \/ requests' = [requests EXCEPT ![q] = [@ EXCEPT !.pc = "read", !.wrote = n]]
          \/ requests' = [requests EXCEPT ![q] = [@ EXCEPT !.pc = "done", !.status = 503, !.wrote = n]]
      BY <2>1, <3>3
    <3> QED
      BY <3>2, <3>4, WroteType
  <2>9. ApiType'
    <3>1. customers' \in [Users -> Row \cup {None}]
      BY <2>5, <2>6, <2>7 DEF ApiType
    <3> QED
      BY <2>1, <2>3, <2>8, <3>1 DEF ApiType
  <2>10. \A v \in Users \ {u} : Holds(customers[v], v)' <=> Holds(customers[v], v)
    <3> SUFFICES ASSUME NEW v \in Users \ {u} PROVE Holds(customers[v], v)' <=> Holds(customers[v], v)
      OBVIOUS
    <3>1. /\ customers'[v] = customers[v] /\ Writes(v)' = Writes(v) /\ Onboardings(v)' = Onboardings(v)
          /\ \A a : Naming(v, a)' = Naming(v, a)
          /\ \A k \in Writes(v) : writes'[k] = writes[k]
      BY <2>3, <2>6, <2>7 DEF ApiType
    <3>2. (\A a : Naming(v, a) \subseteq Writes(v)) /\ Onboardings(v) \subseteq Writes(v)
      BY DEF Naming, Onboardings
    <3>3. ASSUME NEW a \in Attributes
          PROVE  HoldsAttribute(customers[v], v, a)' <=> HoldsAttribute(customers[v], v, a)
      BY <3>1, <3>2 DEF HoldsAttribute, IsLast
    <3>4. HoldsOnboarding(customers[v], v)' <=> HoldsOnboarding(customers[v], v)
      BY <3>1, <3>2 DEF HoldsOnboarding, IsFirst
    <3> QED
      BY <3>3, <3>4 DEF Holds
  <2>11. AbsentIsUnwritten'
    BY <2>3, <2>6, <2>7 DEF AbsentIsUnwritten, ApiType
  <2>12. \A v \in Users : customers'[v] # None => Holds(customers[v], v)'
    <3>1. \A v \in Users \ {u} : customers'[v] = customers[v]
      BY <2>7 DEF ApiType
    <3>2. customers'[u] = new
      BY <2>7 DEF ApiType
    <3>3. Holds(customers[u], u)'
      BY <2>7, <3>2 DEF Holds, HoldsAttribute, HoldsOnboarding
    <3>4. \A v \in Users \ {u} : customers[v] # None => Holds(customers[v], v)
      BY HoldsSplit
    <3> QED
      BY <2>10, <3>1, <3>3, <3>4
  <2>13. CustomersHoldTheirWrites'
    BY <2>12 DEF CustomersHoldTheirWrites, Holds, HoldsAttribute, HoldsOnboarding
  <2> QED
    BY <2>9, <2>11, <2>13
<1> QED
  BY <1>2, <1>3

\* The steps that commit no write: of them only a customer's first event makes
\* a row, and that row is empty.
LEMMA OtherApiSteps ==
    ASSUME ApiInv, [ApiNext]_apiVars, \A q \in Requests : ~CommitWrite(q)
    PROVE  ApiInv'
<1> USE DEF ApiInv
<1>1. writes' = writes
  BY DEF ApiNext, apiVars, Pass, FirstEvent, Issue, Receive, CheckRequest, FailRequest, ReadProfile
<1>2. \/ customers' = customers
      \/ \E u \in Users : customers[u] = None /\ customers' = [customers EXCEPT ![u] = NewRow]
  BY DEF ApiNext, apiVars, Pass, FirstEvent, Issue, Receive, CheckRequest, FailRequest, ReadProfile
<1>3. now' \in Nat /\ tokens' \subseteq Token
  <2>1. CASE \E u \in Users, aud \in Audiences : Issue(aud, u)
    BY <2>1, ApiAssumption DEF Issue, Token, ApiType
  <2>2. CASE ~\E u \in Users, aud \in Audiences : Issue(aud, u)
    <3>1. tokens' = tokens /\ now' \in {now, now + 1}
      BY <2>2 DEF ApiNext, apiVars, Pass, FirstEvent, Receive, CheckRequest, FailRequest, ReadProfile
    <3> QED
      BY <3>1 DEF ApiType
  <2> QED
    BY <2>1, <2>2
<1>4. requests' \in [Requests -> Request \cup {None}]
  <2>1. ASSUME NEW q \in Requests, NEW status \in Answered, NEW row \in Row \cup {None},
               requests[q] # None, Answer(q, status, row)
        PROVE  requests' \in [Requests -> Request \cup {None}]
    BY <2>1, AnswerType
  <2>2. ASSUME NEW q \in Requests, CheckRequest(q)
        PROVE  requests' \in [Requests -> Request \cup {None}]
    <3>1. requests[q] # None /\ requests[q] \in Request
      BY <2>2 DEF CheckRequest, ApiType
    <3>2. CASE \E status \in {401, 403, 429, 422} : Answer(q, status, None)
      BY <2>1, <3>1, <3>2 DEF Answered
    <3>3. CASE \E pc \in {"write", "read"} : requests' = [requests EXCEPT ![q].pc = pc]
      <4>1. PICK pc \in {"write", "read"} : requests' = [requests EXCEPT ![q].pc = pc]
        BY <3>3
      <4>2. [requests[q] EXCEPT !.pc = pc] \in Request
        BY <3>1 DEF Request
      <4>3. requests' = [requests EXCEPT ![q] = [requests[q] EXCEPT !.pc = pc]]
        BY <4>1 DEF ApiType
      <4> QED
        BY <4>2, <4>3 DEF ApiType
    <3> QED
      BY <2>2, <3>2, <3>3 DEF CheckRequest
  <2>3. ASSUME NEW q \in Requests, ReadProfile(q)
        PROVE  requests' \in [Requests -> Request \cup {None}]
    <3>1. requests[q] # None /\ requests[q].user \in Users
      BY <2>3 DEF ReadProfile, ApiType, Request
    <3>2. customers[requests[q].user] \in Row \cup {None}
      BY <3>1 DEF ApiType
    <3> QED
      BY <2>1, <2>3, <3>1, <3>2 DEF ReadProfile, Answered
  <2>4. ASSUME NEW q \in Requests, FailRequest(q)
        PROVE  requests' \in [Requests -> Request \cup {None}]
    BY <2>1, <2>4 DEF FailRequest, Answered
  <2>5. ASSUME NEW q \in Requests, NEW op \in Ops, NEW u \in Users, NEW t \in tokens \cup {NoToken},
               NEW b \in Bodies, Receive(q, op, u, t, b)
        PROVE  requests' \in [Requests -> Request \cup {None}]
    <3>1. [pc |-> "received", op |-> op, user |-> u, token |-> t, body |-> b,
           status |-> 0, wrote |-> 0, row |-> None] \in Request
      BY <2>5 DEF Request, ApiType
    <3> QED
      BY <2>5, <3>1 DEF Receive, ApiType
  <2>6. CASE requests' = requests
    BY <2>6 DEF ApiType
  <2> QED
    BY <2>2, <2>3, <2>4, <2>5, <2>6 DEF ApiNext, apiVars, Pass, FirstEvent, Issue
<1>5. customers' \in [Users -> Row \cup {None}]
  <2>1. NewRow \in Row
    BY DEF NewRow, Row
  <2> QED
    BY <1>2, <2>1 DEF ApiType
<1>6. ApiType'
  BY <1>1, <1>3, <1>4, <1>5 DEF ApiType
<1>7. AbsentIsUnwritten'
  BY <1>1, <1>2 DEF AbsentIsUnwritten, Writes, ApiType
<1>8. \A u \in Users : customers'[u] # None => Holds(customers'[u], u)
  <2> SUFFICES ASSUME NEW u \in Users, customers'[u] # None PROVE Holds(customers'[u], u)
    OBVIOUS
  <2>1. CASE customers'[u] = customers[u]
    BY <2>1, HoldsSplit
  <2>2. CASE customers'[u] # customers[u]
    <3>1. customers'[u] = NewRow /\ Writes(u) = {}
      BY <1>2, <2>2 DEF ApiType, AbsentIsUnwritten
    <3>2. Onboardings(u) = {} /\ \A a : Naming(u, a) = {}
      BY <3>1 DEF Onboardings, Naming
    <3> QED
      BY <3>1, <3>2 DEF Holds, HoldsAttribute, HoldsOnboarding, NewRow
  <2> QED
    BY <2>1, <2>2
<1>9. CustomersHoldTheirWrites'
  BY <1>1, <1>8 DEF CustomersHoldTheirWrites, Holds, HoldsAttribute, HoldsOnboarding, Naming,
                    Onboardings, Writes, IsLast, IsFirst
<1> QED
  BY <1>6, <1>7, <1>9

\* Concurrent partial updates never undo one another and a repeated one does no
\* harm, for any number of requests, customers and attribute values: a customer
\* holds what the last committed write that named each attribute said, and the
\* first onboarding's instant.
THEOREM WritesAreHeld == ApiSpec => []CustomersHoldTheirWrites
<1>1. ApiInit => ApiInv
  BY DEF ApiInit, ApiInv, ApiType, AbsentIsUnwritten, CustomersHoldTheirWrites, Writes
<1>2. ApiInv /\ [ApiNext]_apiVars => ApiInv'
  BY CommitHolds, OtherApiSteps
<1>3. ApiInv => CustomersHoldTheirWrites
  BY DEF ApiInv
<1> QED
  BY <1>1, <1>2, <1>3, PTL DEF ApiSpec
=============================================================================
