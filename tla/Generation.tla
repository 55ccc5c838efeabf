------------------------------ MODULE Generation ------------------------------
(***************************************************************************)
(* How a text is generated: stream_text and generate_text_sync             *)
(* (app/intelligence/ai/sync.py), which try one model after the other, and *)
(* ResponsePipeline.stream (app/services/orchestrator), which has an       *)
(* answer that was cut off continued by further calls of stream_text.      *)
(*                                                                         *)
(* An answer consists of segments; each is the text of one call of         *)
(* stream_text, which selects its models anew.                             *)
(***************************************************************************)
EXTENDS ModelRouter

CONSTANTS
    Requests,
    NoModel,
    TakesTools,         \* providers whose adapter has the parameter "tools"
    MaxContinuations    \* MAX_CODE_CONTINUATIONS = MAX_CHAT_CONTINUATIONS

ASSUME GenerationAssumption ==
    /\ NoModel \notin Models
    /\ TakesTools \subseteq Providers
    /\ MaxContinuations \in Nat

VARIABLES
    health,         \* ModelRouter._health
    kind,           \* of a request: an explanation, a chat, code, one complete
                    \*   HTML page, or a synchronous generation
    at,
    fit,            \* models that can do the work
    attempts,       \* of the segment: what is left of them, the current one first
    yielded,        \* yielded_text
    reason,         \* trace["finish_reason"] of the segment
    count,          \* continuation_count
    complete,       \* the page has all its parts
    blocked,        \* structural_completion_blocked
    voice,          \* history: who has yielded text of this segment,
    said,           \*   why the last one to end a segment stopped,
    added,          \*   whether the last segment has added text,
    last,           \*   the last failure,
    fallback        \*   and, of the segment: whether a model has been called, and
                    \*   whether the adapter of one that is to replace it refused

segment == <<attempts, yielded, reason, voice>>
answer == <<count, complete, blocked, said, added>>
vars == <<health, kind, at, fit, segment, answer, last, fallback>>

Kinds == {"explain", "chat", "code", "page", "sync"}

Reasons == {"none", "stop", "length"}

Steps == {"new", "selecting", "calling", "waiting", "late", "cancelled", "failed", "done"}

Init ==
    /\ health = [k \in Keys |-> "none"]
    /\ kind = [r \in Requests |-> "chat"]
    /\ at = [r \in Requests |-> "new"]
    /\ fit = [r \in Requests |-> {}]
    /\ attempts = [r \in Requests |-> <<>>]
    /\ yielded = [r \in Requests |-> FALSE]
    /\ reason = [r \in Requests |-> "none"]
    /\ count = [r \in Requests |-> 0]
    /\ complete = [r \in Requests |-> FALSE]
    /\ blocked = [r \in Requests |-> FALSE]
    /\ voice = [r \in Requests |-> NoModel]
    /\ said = [r \in Requests |-> "none"]
    /\ added = [r \in Requests |-> FALSE]
    /\ last = [r \in Requests |-> "none"]
    /\ fallback = [r \in Requests |-> "none"]

-----------------------------------------------------------------------------
(* A segment: stream_text, or the whole of generate_text_sync              *)

Ask(r, k, f) ==
    /\ at[r] = "new"
    /\ at' = [at EXCEPT ![r] = "selecting"]
    /\ kind' = [kind EXCEPT ![r] = k]
    /\ fit' = [fit EXCEPT ![r] = f]
    /\ UNCHANGED <<health, segment, answer, last, fallback>>

\* model_candidates; without a candidate the request fails.
Select(r) ==
    /\ at[r] = "selecting"
    /\ \E chosen \in Selections(health, fit[r]) :
          /\ attempts' = [attempts EXCEPT ![r] = chosen]
          /\ at' = [at EXCEPT ![r] = IF chosen = <<>> THEN "failed" ELSE "calling"]
    /\ health' = Looked(health, fit[r])
    /\ fallback' = [fallback EXCEPT ![r] = "none"]
    /\ UNCHANGED <<kind, fit, yielded, reason, voice, answer, last>>

Current(r) == Head(attempts[r])

\* The call reaches the provider.
Call(r) ==
    /\ at[r] = "calling"
    /\ ProviderOf[Current(r)] \in TakesTools
    /\ at' = [at EXCEPT ![r] = "waiting"]
    /\ fallback' = [fallback EXCEPT ![r] = "called"]
    /\ UNCHANGED <<health, kind, fit, segment, answer, last>>

\* A chunk with text is passed on.
Yield(r) ==
    /\ at[r] = "waiting"
    /\ kind[r] # "sync"
    /\ yielded' = [yielded EXCEPT ![r] = TRUE]
    /\ voice' = [voice EXCEPT ![r] = Current(r)]
    /\ UNCHANGED <<health, kind, at, fit, attempts, reason, answer, last, fallback>>

\* Defect: another provider goes on where one was cut off.
EndsAtLast(r, failure) == ~AllowsFallback(failure) \/ Len(attempts[r]) = 1

\* Whether the call is over for good: after text nobody else may speak.
Ends(r, failure) == yielded[r] \/ ~AllowsFallback(failure) \/ Len(attempts[r]) = 1

\* The current attempt has failed; "why" is what the provider said of its end.
Fails(r, failure, why) ==
    /\ health' = Marked(health, Current(r), failure)
    /\ last' = [last EXCEPT ![r] = failure]
    /\ IF Ends(r, failure)
       THEN /\ at' = [at EXCEPT ![r] = "failed"]
            /\ reason' = [reason EXCEPT ![r] = "none"]
            /\ fit' = [fit EXCEPT ![r] = {}]
            /\ UNCHANGED <<attempts, yielded>>
       ELSE /\ at' = [at EXCEPT ![r] = "calling"]
            /\ reason' = [reason EXCEPT ![r] = IF why = "none" THEN @ ELSE why]
            /\ UNCHANGED fit
            /\ attempts' = [attempts EXCEPT ![r] = Tail(@)]
            /\ yielded' = [yielded EXCEPT ![r] = FALSE]
    /\ UNCHANGED <<kind, voice, answer>>

\* The adapter has no parameter "tools": the call itself raises TypeError.
Refuse(r) ==
    /\ at[r] = "calling"
    /\ ProviderOf[Current(r)] \notin TakesTools
    /\ fallback' = [fallback EXCEPT ![r] = IF @ = "called" THEN "refused" ELSE @]
    /\ Fails(r, "unknown", "none")

\* The provider answers with an error, is too slow, or the connection breaks.
Break(r, failure, why) ==
    /\ at[r] = "waiting"
    /\ Fails(r, failure, why)
    /\ UNCHANGED fallback

\* The stream ends without any text: an empty answer counts as a failure.
EndEmpty(r, why) ==
    /\ at[r] = "waiting"
    /\ ~yielded[r]
    /\ Fails(r, "unknown", why)
    /\ UNCHANGED fallback

\* The locals of the call are gone.
Leave(r) ==
    /\ attempts' = [attempts EXCEPT ![r] = <<>>]
    /\ yielded' = [yielded EXCEPT ![r] = FALSE]
    /\ reason' = [reason EXCEPT ![r] = "none"]
    /\ voice' = [voice EXCEPT ![r] = NoModel]
    /\ fit' = [fit EXCEPT ![r] = {}]

\* The budget of a synchronous generation is used up before the next attempt.
OutOfTime(r) ==
    /\ at[r] = "calling"
    /\ kind[r] = "sync"
    /\ last[r] # "none"
    /\ at' = [at EXCEPT ![r] = "late"]
    /\ Leave(r)
    /\ UNCHANGED <<health, kind, answer, last, fallback>>

\* The client has gone, or the runner's deadline has passed: nothing is recorded.
Cancel(r) ==
    /\ at[r] \in {"selecting", "calling", "waiting"}
    /\ at' = [at EXCEPT ![r] = "cancelled"]
    /\ Leave(r)
    /\ count' = [count EXCEPT ![r] = 0]
    /\ complete' = [complete EXCEPT ![r] = FALSE]
    /\ said' = [said EXCEPT ![r] = "none"]
    /\ added' = [added EXCEPT ![r] = FALSE]
    /\ last' = [last EXCEPT ![r] = "none"]
    /\ UNCHANGED <<health, kind, blocked, fallback>>

\* A synchronous generation returns its text.
Return(r) ==
    /\ at[r] = "waiting"
    /\ kind[r] = "sync"
    /\ health' = Recovered(health, Current(r))
    /\ at' = [at EXCEPT ![r] = "done"]
    /\ Leave(r)
    /\ UNCHANGED <<kind, answer, last, fallback>>

-----------------------------------------------------------------------------
(* The answer: ResponsePipeline.stream                                     *)

Incomplete(k, whole) == k = "page" /\ ~whole

Wanted(k, why, whole) ==
    k \in {"chat", "code", "page"} /\ (why = "length" \/ Incomplete(k, whole))

\* Defect: one continuation more than the limit allows.
OneMore(k, why, whole, grown, used) ==
    Wanted(k, why, whole) /\ used <= MaxContinuations /\ grown

\* Whether one more segment is asked for.
More(k, why, whole, grown, used) ==
    Wanted(k, why, whole) /\ used < MaxContinuations /\ grown

\* Defect: the verdict is of the answer before its last segment.
BlockedBefore(k, whole, before) == Incomplete(k, before)

Blocked(k, whole, before) == Incomplete(k, whole)

\* Defect: the segments share one trace.
SameReason(old) == old

\* A continuation has a trace of its own, which has no finish_reason at first.
NextReason(old) == "none"

\* A segment has ended with text.  Of a continuation of code the wrappers are
\* stripped, so that nothing may be left of it; "grown" says that something is.
\* A page may be complete with it, and then remains so.  The CompletenessValidator
\* may find that a chat answer lacks what was asked for.
End(r, why, grown, whole, lacking) ==
    LET told == IF why = "none" THEN reason[r] ELSE why
        again == More(kind[r], told, whole, grown, count[r])
    IN
    /\ at[r] = "waiting"
    /\ yielded[r]
    /\ grown \/ (count[r] > 0 /\ kind[r] \in {"code", "page"})
    /\ complete[r] => whole
    /\ whole # complete[r] => grown /\ kind[r] = "page"
    /\ lacking => kind[r] = "chat" /\ ~again
    /\ health' = Recovered(health, Current(r))
    /\ said' = [said EXCEPT ![r] = why]
    /\ added' = [added EXCEPT ![r] = grown]
    /\ complete' = [complete EXCEPT ![r] = whole]
    /\ count' = [count EXCEPT ![r] = IF again THEN @ + 1 ELSE @]
    /\ at' = [at EXCEPT ![r] = IF again THEN "selecting" ELSE "done"]
    /\ blocked' = [blocked EXCEPT ![r] = lacking \/ (~again /\ Blocked(kind[r], whole, complete[r]))]
    /\ attempts' = [attempts EXCEPT ![r] = <<>>]
    /\ yielded' = [yielded EXCEPT ![r] = FALSE]
    /\ voice' = [voice EXCEPT ![r] = NoModel]
    /\ reason' = [reason EXCEPT ![r] = IF again THEN NextReason(told) ELSE "none"]
    /\ fit' = [fit EXCEPT ![r] = IF again THEN @ ELSE {}]
    /\ UNCHANGED <<kind, last, fallback>>

-----------------------------------------------------------------------------
\* provider_circuit_breaker_seconds are over.
Elapse(k) ==
    /\ health[k] = "cooling"
    /\ health' = [health EXCEPT ![k] = "elapsed"]
    /\ UNCHANGED <<kind, at, fit, segment, answer, last, fallback>>

Next ==
    \/ \E r \in Requests :
          \/ \E k \in Kinds, f \in SUBSET Models : Ask(r, k, f)
          \/ Select(r) \/ Call(r) \/ Yield(r) \/ Refuse(r)
          \/ OutOfTime(r) \/ Cancel(r) \/ Return(r)
          \/ \E failure \in Failures, why \in Reasons : Break(r, failure, why)
          \/ \E why \in Reasons : EndEmpty(r, why)
          \/ \E why \in Reasons, grown, whole, lacking \in BOOLEAN : End(r, why, grown, whole, lacking)
    \/ \E k \in Keys : Elapse(k)

Spec == Init /\ [][Next]_vars

-----------------------------------------------------------------------------
(* Properties                                                              *)

TypeOK ==
    /\ health \in [Keys -> States]
    /\ kind \in [Requests -> Kinds]
    /\ at \in [Requests -> Steps]
    /\ fit \in [Requests -> SUBSET Models]
    /\ attempts \in [Requests -> Seq(Models)]
    /\ \A r \in Requests : Len(attempts[r]) <= MaxAttempts
    /\ yielded \in [Requests -> BOOLEAN]
    /\ reason \in [Requests -> Reasons]
    /\ count \in [Requests -> 0..MaxContinuations]
    /\ complete \in [Requests -> BOOLEAN]
    /\ blocked \in [Requests -> BOOLEAN]
    /\ voice \in [Requests -> Models \cup {NoModel}]
    /\ said \in [Requests -> Reasons]
    /\ added \in [Requests -> BOOLEAN]
    /\ last \in [Requests -> Failures \cup {"none"}]
    /\ fallback \in [Requests -> {"none", "called", "refused"}]

\* No segment of an answer is of two models: one that has spoken is neither
\* followed by another one nor by an attempt to call it.
OneVoice ==
    \A r \in Requests :
        at[r] \in {"calling", "waiting"} /\ voice[r] # NoModel => voice[r] = Current(r)

\* A request that fails has nobody left to ask: it had no candidates, the last of
\* them failed, it was cut off in its text, or the error forbids another attempt.
FailureIsFinal ==
    \A r \in Requests :
        at[r] = "failed" =>
            \/ Len(attempts[r]) <= 1
            \/ voice[r] # NoModel
            \/ last[r] \in {"authentication", "invalid_request"}

\* The client is told that a page is not complete if, and only if, it is not.
IncompleteIsTold ==
    \A r \in Requests :
        at[r] = "done" /\ kind[r] # "chat" => (blocked[r] <=> kind[r] = "page" /\ ~complete[r])

\* An answer is continued when, and only when, who has spoken last says that it
\* was cut, or the page lacks a part; until nothing comes any more or the limit.
ContinuedWhenCut ==
    \A r \in Requests :
        LET cut == said[r] = "length" \/ Incomplete(kind[r], complete[r]) IN
        /\ at[r] = "selecting" /\ count[r] > 0 => cut
        /\ at[r] = "done" /\ kind[r] \in {"chat", "code", "page"} /\ cut
              => count[r] = MaxContinuations \/ ~added[r]

\* "assert trace["final_provider"] == "gemini"" (test_ai_model_unavailable_fallback.py:166):
\* a request whose first model was called and gave nothing is served by the next one;
\* it does not fail with the adapter of the next one refusing the call.
FallbackServes ==
    \A r \in Requests : at[r] = "failed" => fallback[r] # "refused"
=============================================================================
