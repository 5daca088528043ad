----------------------------- MODULE MCServices -----------------------------
(***************************************************************************)
(* Instance of JourneyPulse's request services and setup for model         *)
(* checking.  The customer API, the rate limiter and the bootstrap share   *)
(* no state in these models, so one run checks their disjoint sum: an      *)
(* initial state chooses one of them and the others stay as they are.      *)
(***************************************************************************)
EXTENDS CustomerApi, RateLimit, Bootstrap, TLC

CONSTANTS alice, bob, en, ms, older, newer, checker

VARIABLE part

allVars == <<part, apiVars, rateVars, bootVars>>

\* Bodies of a request: nothing, the language, both attributes, an explicit null.
Language(v) == "preferred_language" :> v
Consent(v) == "marketing_consent" :> v
RequestBodies == {<<>>, Language(en), Language(ms) @@ Consent(ms), Consent(None)}

\* Two builds that agree on "b" and not on "a"; the check is of the newer build.
Older == "b" :> 1 @@ "a" :> 1
Newer == "b" :> 1 @@ "a" :> 2 @@ "c" :> 1
Builds == older :> Older @@ newer :> Newer @@ checker :> Newer

Init == part \in {"api", "rate", "boot"} /\ ApiInit /\ RateInit /\ BootInit

Next ==
    \/ part = "api" /\ ApiNext /\ UNCHANGED <<part, rateVars, bootVars>>
    \/ part = "rate" /\ RateNext /\ UNCHANGED <<part, apiVars, bootVars>>
    \/ part = "boot" /\ BootNext /\ UNCHANGED <<part, apiVars, rateVars>>

Spec == Init /\ [][Next]_allVars /\ BootFairness
=============================================================================
