----------------------------- MODULE ModelRouter -----------------------------
(***************************************************************************)
(* The health that ModelRouter keeps of models and of their providers      *)
(* (app/intelligence/ai/model_router/router.py), as operators on it.       *)
(***************************************************************************)
EXTENDS Naturals, Sequences, FiniteSets, SequencesExt

CONSTANTS
    Models,
    Providers,
    ProviderOf,     \* [Models -> Providers]
    MaxAttempts     \* llm_max_fallbacks + 1

ASSUME RouterAssumption ==
    /\ IsFiniteSet(Models)
    /\ ProviderOf \in [Models -> Providers]
    /\ Models \cap Providers = {}
    /\ MaxAttempts \in Nat \ {0}

Keys == Models \cup Providers

\* "none": no entry; "elapsed": COOLDOWN whose cooldown_until is past.
States == {"none", "unknown", "healthy", "cooling", "elapsed", "degraded", "unavailable"}

\* What an attempt fails with: rate limit, timeout, network ("cooling"), a refused
\* or missing key ("authentication"), an unknown model ("model_unavailable"), a
\* refused prompt ("invalid_request"), or what classify_failure does not know.
Failures == {"cooling", "authentication", "model_unavailable", "invalid_request", "unknown"}

\* Defect: only retryable errors.
RetryableOnly(failure) == failure \in {"cooling", "unknown"}

\* allows_provider_fallback: the error is retryable, or the model is gone.
AllowsFallback(failure) == failure \notin {"authentication", "invalid_request"}

HealthKeys(model) == {model, ProviderOf[model]}

\* record_success
Recovered(health, model) ==
    [k \in Keys |-> IF k \in HealthKeys(model) THEN "healthy" ELSE health[k]]

\* The state of a key after a failure; _state makes the entry of a new key.
After(state, failure) ==
    CASE failure = "cooling"        -> "cooling"
      [] failure = "authentication" -> "unavailable"
      [] OTHER                      -> IF state = "none" THEN "unknown" ELSE state

\* record_failure
Marked(health, model, failure) ==
    [k \in Keys |-> IF k \in HealthKeys(model) THEN After(health[k], failure) ELSE health[k]]

\* The entry that _eligible looks at: the model's own, else its provider's.
Consulted(health, model) == IF health[model] # "none" THEN model ELSE ProviderOf[model]

Eligible(health, model) == health[Consulted(health, model)] \notin {"unavailable", "cooling"}

\* _eligible has ended the cooldowns it has found elapsed.
Looked(health, asked) ==
    [k \in Keys |->
        IF health[k] = "elapsed" /\ \E m \in asked : Consulted(health, m) = k
        THEN "degraded" ELSE health[k]]

\* selections: the eligible models of those that can do the work, in some order
\* (of the score), cut to the number of attempts.
Selections(health, fit) ==
    LET eligible == {m \in fit : Eligible(health, m)}
        Cut(order) == SubSeq(order, 1, IF Len(order) < MaxAttempts THEN Len(order) ELSE MaxAttempts)
    IN  {Cut(order) : order \in SetToSeqs(eligible)}
=============================================================================
