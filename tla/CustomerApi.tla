----------------------------- MODULE CustomerApi -----------------------------
(***************************************************************************)
(* The customer API (journeypulse/customer_api.py), its session tokens     *)
(* (auth.py) and the attribute writes of ProfileStore.update.  Requests    *)
(* run in threads of their own; a write is one transaction and the profile *)
(* it is answered with is read by a second one.  Whether the rate limiter  *)
(* lets a request pass is a free choice here: RateLimit says when it does. *)
(***************************************************************************)
EXTENDS Integers, Sequences, FiniteSets

CONSTANTS
    Requests,    \* requests that may be made, one thread each
    Users,
    Values,      \* of an attribute; the column default is None
    None,
    Bodies,      \* what a request body may name, an explicit null included
    TTL,         \* token_ttl_seconds
    Horizon,     \* bound: the last instant of the clock
    MaxTokens    \* bound: tokens issued

Attributes == {"preferred_language", "marketing_consent"}

Audiences == {"events", "customers"}
Ops == {"onboard", "get", "patch"}  \* get stands for the targeting read too

Token == [aud : Audiences, user : Users, iat : Nat, exp : Nat]
NoToken == [aud |-> "none"]

Answered == {200, 401, 403, 404, 422, 429, 503}

VARIABLES
    now,        \* the clock of both services
    tokens,     \* tokens signed with the shared key
    customers,  \* journeypulse.customers: a row or None
    writes,     \* the committed attribute writes, in order
    requests    \* per request, how far it is

apiVars == <<now, tokens, customers, writes, requests>>

Row == [attributes : [Attributes -> Values \cup {None}],
        onboarded : Nat \cup {None}, consented : Nat \cup {None}]

NewRow == [attributes |-> [a \in Attributes |-> None], onboarded |-> None, consented |-> None]

ASSUME ApiAssumption ==
    /\ TTL \in Nat \ {0} /\ Horizon \in Nat /\ MaxTokens \in Nat
    /\ None \notin Values \cup Nat /\ None \notin Row
    /\ Bodies \subseteq UNION {[names -> Values \cup {None}] : names \in SUBSET Attributes}

\* pc: where the thread is; wrote: its write's place in writes, 0 for none.
Request == [pc : {"received", "write", "read", "done"}, op : Ops, user : Users,
            token : Token \cup {NoToken}, body : Bodies, status : Answered \cup {0},
            wrote : Nat, row : Row \cup {None}]

ApiType ==
    /\ now \in Nat
    /\ tokens \subseteq Token
    /\ customers \in [Users -> Row \cup {None}]
    /\ writes \in Seq([user : Users, body : Bodies, at : Nat, onboarding : BOOLEAN])
    /\ requests \in [Requests -> Request \cup {None}]

ApiInit ==
    /\ now = 0
    /\ tokens = {}
    /\ customers = [u \in Users |-> None]
    /\ writes = <<>>
    /\ requests = [q \in Requests |-> None]

-----------------------------------------------------------------------------
Pass ==
    /\ now < Horizon
    /\ now' = now + 1
    /\ UNCHANGED <<tokens, customers, writes, requests>>

\* Tokens.issue by POST /v1/sessions of this service, or by the gateway's
\* endpoint of the same name under its own audience.
Issue(aud, user) ==
    /\ Cardinality(tokens) < MaxTokens
    /\ tokens' = tokens \cup {[aud |-> aud, user |-> user, iat |-> now, exp |-> now + TTL]}
    /\ UNCHANGED <<now, customers, writes, requests>>

\* The processor creates the row of a customer it has an event of.
FirstEvent(user) ==
    /\ customers[user] = None
    /\ customers' = [customers EXCEPT ![user] = NewRow]
    /\ UNCHANGED <<now, tokens, writes, requests>>

Receive(q, op, user, token, body) ==
    /\ requests[q] = None
    /\ op = "get" => body = <<>>
    /\ op = "onboard" /\ token # NoToken => user = token.user
    /\ requests' = [requests EXCEPT ![q] =
            [pc |-> "received", op |-> op, user |-> user, token |-> token, body |-> body,
             status |-> 0, wrote |-> 0, row |-> None]]
    /\ UNCHANGED <<now, tokens, customers, writes>>

\* Tokens.verify: signed here, for this audience, and not expired.
Verified(token) ==
    token \in tokens /\ token.aud = "customers" /\ token.iat <= now /\ now < token.exp

\* attributes(body), after the body's own validation: some, and none of them
\* null; a new customer names a language.
Usable(op, body) ==
    /\ body # <<>>
    /\ \A a \in DOMAIN body : body[a] # None
    /\ op = "onboard" => "preferred_language" \in DOMAIN body

Answer(q, status, row) ==
    requests' = [requests EXCEPT ![q].pc = "done", ![q].status = status, ![q].row = row]

\* authenticate, authorize and attributes, in the order FastAPI runs them; the
\* origin is refused or not, and so is the request by the rate limiter.
CheckRequest(q) ==
    LET r == requests[q]
        refusal(originOk, rateOk) ==
            IF ~Verified(r.token) THEN 401
            ELSE IF ~originOk THEN 403
            ELSE IF ~rateOk THEN 429
            ELSE IF r.user # r.token.user THEN 403
            ELSE IF r.op \in {"onboard", "patch"} /\ ~Usable(r.op, r.body) THEN 422
            ELSE 0
    IN  /\ r # None /\ r.pc = "received"
        /\ \E originOk, rateOk \in BOOLEAN :
              IF refusal(originOk, rateOk) # 0
              THEN Answer(q, refusal(originOk, rateOk), None)
              ELSE requests' = [requests EXCEPT ![q].pc =
                                    IF r.op \in {"onboard", "patch"} THEN "write" ELSE "read"]
        /\ UNCHANGED <<now, tokens, customers, writes>>

\* Mistake: what the body leaves out is written too, as null.
Mistake_Assigned(row, body, onboarding) ==
    [attributes |-> [a \in Attributes |-> IF a \in DOMAIN body THEN body[a] ELSE None],
     onboarded |-> IF onboarding /\ row.onboarded = None THEN now ELSE row.onboarded,
     consented |-> IF "marketing_consent" \in DOMAIN body THEN now ELSE row.consented]

\* The UPDATE: the columns that are named, the instant of a consent and of the
\* first onboarding.
Assigned(row, body, onboarding) ==
    [attributes |-> [a \in Attributes |-> IF a \in DOMAIN body THEN body[a] ELSE row.attributes[a]],
     onboarded |-> IF onboarding /\ row.onboarded = None THEN now ELSE row.onboarded,
     consented |-> IF "marketing_consent" \in DOMAIN body THEN now ELSE row.consented]

\* store.update commits, and its acknowledgement arrives or is lost.
CommitWrite(q) ==
    LET r == requests[q]
        onboarding == r.op = "onboard"
        row == IF customers[r.user] = None /\ onboarding THEN NewRow ELSE customers[r.user]
    IN  /\ r # None /\ r.pc = "write"
        /\ IF row = None
           THEN Answer(q, 404, None) /\ UNCHANGED <<customers, writes>>
           ELSE /\ customers' = [customers EXCEPT ![r.user] = Assigned(row, r.body, onboarding)]
                /\ writes' = Append(writes, [user |-> r.user, body |-> r.body, at |-> now,
                                             onboarding |-> onboarding])
                /\ \/ requests' = [requests EXCEPT ![q] =
                           [@ EXCEPT !.pc = "read", !.wrote = Len(writes')]]
                   \/ requests' = [requests EXCEPT ![q] =
                           [@ EXCEPT !.pc = "done", !.status = 503, !.wrote = Len(writes')]]
        /\ UNCHANGED <<now, tokens>>

\* psycopg2.Error before anything is committed, or from the read.
FailRequest(q) ==
    /\ requests[q] # None /\ requests[q].pc \in {"write", "read"}
    /\ Answer(q, 503, None)
    /\ UNCHANGED <<now, tokens, customers, writes>>

\* store.get, or the customer's row of store.targeting.
ReadProfile(q) ==
    /\ requests[q] # None /\ requests[q].pc = "read"
    /\ LET row == customers[requests[q].user]
       IN  Answer(q, IF row = None THEN 404 ELSE 200, row)
    /\ UNCHANGED <<now, tokens, customers, writes>>

ApiNext ==
    \/ Pass
    \/ \E u \in Users : FirstEvent(u) \/ \E aud \in Audiences : Issue(aud, u)
    \/ \E q \in Requests :
          \/ \E op \in Ops, u \in Users, t \in tokens \cup {NoToken}, b \in Bodies :
                Receive(q, op, u, t, b)
          \/ CheckRequest(q) \/ CommitWrite(q) \/ FailRequest(q) \/ ReadProfile(q)

ApiSpec == ApiInit /\ [][ApiNext]_apiVars

-----------------------------------------------------------------------------
(* Properties.                                                             *)

Writes(user) == {k \in DOMAIN writes : writes[k].user = user}
Naming(user, a) == {k \in Writes(user) : a \in DOMAIN writes[k].body}
Onboardings(user) == {k \in Writes(user) : writes[k].onboarding}

IsLast(k, set) == k \in set /\ \A j \in set : j <= k
IsFirst(k, set) == k \in set /\ \A j \in set : k <= j

\* Concurrent partial updates never undo one another, and a request repeated
\* after a lost acknowledgement does no harm: every attribute is what the last
\* committed write that named it said, the consent's instant is that write's,
\* and a customer is onboarded as of the first onboarding that committed.
CustomersHoldTheirWrites ==
    \A u \in Users : customers[u] # None =>
        /\ \A a \in Attributes :
              IF Naming(u, a) = {} THEN customers[u].attributes[a] = None
              ELSE \E k \in Naming(u, a) :
                      /\ IsLast(k, Naming(u, a))
                      /\ customers[u].attributes[a] = writes[k].body[a]
                      /\ (a = "marketing_consent" => customers[u].consented = writes[k].at)
        /\ IF Onboardings(u) = {} THEN customers[u].onboarded = None
           ELSE \E k \in Onboardings(u) :
                   IsFirst(k, Onboardings(u)) /\ customers[u].onboarded = writes[k].at

=============================================================================
