-------------------------- MODULE Generation_proofs --------------------------
(***************************************************************************)
(* Proofs about Generation, for every number of models, providers,         *)
(* attempts, continuations and concurrent requests.                        *)
(***************************************************************************)
EXTENDS Generation, FiniteSetTheorems, SequenceTheorems, TLAPS

\* A call that runs has an attempt to make; its text is of that attempt's model.
Spoken ==
    \A r \in Requests :
        /\ at[r] \in {"calling", "waiting"} => attempts[r] # <<>>
        /\ at[r] \in {"new", "selecting", "calling"} => voice[r] = NoModel /\ ~yielded[r]
        /\ at[r] = "waiting" => voice[r] = IF yielded[r] THEN Current(r) ELSE NoModel

\* Nothing is said of the completeness of an answer that is not over.
Unjudged ==
    \A r \in Requests : at[r] \in {"new", "selecting", "calling", "waiting"} => ~blocked[r]

\* No model is asked twice for a segment.
Distinct(s) == \A i, j \in 1..Len(s) : s[i] = s[j] => i = j

Kept == Spoken /\ Unjudged /\ FailureIsFinal /\ IncompleteIsTold

IInv == TypeOK /\ Kept

USE RouterAssumption, GenerationAssumption

-----------------------------------------------------------------------------
(* What the operators return.                                              *)

\* A key's state stays a state, whatever is recorded of an attempt.
LEMMA HealthTyped ==
    ASSUME NEW h \in [Keys -> States], NEW m \in Models, NEW failure \in Failures,
           NEW asked
    PROVE  /\ Recovered(h, m) \in [Keys -> States]
           /\ Marked(h, m, failure) \in [Keys -> States]
           /\ Looked(h, asked) \in [Keys -> States]
<1>1. \A k \in Keys : After(h[k], failure) \in States
  BY DEF After, States, Failures
<1>2. "healthy" \in States /\ "degraded" \in States
  BY DEF States
<1> QED
  BY <1>1, <1>2 DEF Recovered, Marked, Looked

\* model_candidates cuts its list to the number of attempts.
LEMMA SelectionsTyped ==
    ASSUME NEW h, NEW f \in SUBSET Models, NEW chosen \in Selections(h, f)
    PROVE  /\ chosen \in Seq(Models) /\ Len(chosen) \in 0..MaxAttempts
           /\ Distinct(chosen)
<1> DEFINE eligible == {m \in f : Eligible(h, m)}
           n == Cardinality(eligible)
<1>1. eligible \in SUBSET Models /\ IsFiniteSet(eligible)
  BY FS_Subset
<1>2. n \in Nat
  BY <1>1, FS_CardinalityType
<1>3. PICK order \in SetToSeqs(eligible) :
        chosen = SubSeq(order, 1, IF Len(order) < MaxAttempts THEN Len(order) ELSE MaxAttempts)
  BY DEF Selections
<1>4. order \in [1..n -> eligible]
  BY <1>3 DEF SetToSeqs
<1> HIDE DEF n
<1>5. order \in Seq(Models) /\ Len(order) = n
  <2>1. order \in [1..n -> Models]
    BY <1>1, <1>4
  <2>2. order \in Seq(Models)
    BY <2>1, <1>2, SeqDef
  <2>3. Len(order) \in Nat /\ 1..n = 1..Len(order)
    BY <2>1, <2>2, LenProperties
  <2>4. Len(order) = n
    BY <2>3, <1>2
  <2> QED
    BY <2>2, <2>4
<1> DEFINE k == IF Len(order) < MaxAttempts THEN Len(order) ELSE MaxAttempts
<1>6. k \in Int /\ k \in Nat /\ k <= MaxAttempts /\ k <= Len(order)
  BY <1>2, <1>5
<1>7. \A i \in 1..k : order[i] \in Models
  BY <1>5, <1>6, LenProperties
<1>8. chosen = SubSeq(order, 1, k)
  BY <1>3
<1> HIDE DEF k
<1>9. /\ chosen \in Seq(Models) /\ Len(chosen) = IF 1 <= k THEN k - 1 + 1 ELSE 0
      /\ \A i \in 1..k - 1 + 1 : chosen[i] = order[1 + i - 1]
  BY <1>6, <1>7, <1>8, SubSeqProperties
<1>10. \A i, j \in 1..n : order[i] = order[j] => i = j
  BY <1>3 DEF SetToSeqs, n
<1>11. Len(chosen) = k /\ \A i \in 1..k : chosen[i] = order[i] /\ i \in 1..n
  BY <1>2, <1>5, <1>6, <1>9
<1> QED
  BY <1>6, <1>9, <1>10, <1>11 DEF Distinct

\* The model that a running call asks, and what is left after it.
LEMMA CurrentTyped ==
    ASSUME TypeOK, Spoken, NEW r \in Requests, at[r] \in {"calling", "waiting"}
    PROVE  /\ Current(r) \in Models
           /\ Current(r) # NoModel
           /\ Tail(attempts[r]) \in Seq(Models)
           /\ Len(Tail(attempts[r])) = Len(attempts[r]) - 1
           /\ Len(attempts[r]) \in Nat \ {0}
<1>1. attempts[r] \in Seq(Models) /\ attempts[r] # <<>>
  BY DEF TypeOK, Spoken
<1>2. Head(attempts[r]) \in Models /\ Tail(attempts[r]) \in Seq(Models)
      /\ Len(Tail(attempts[r])) = Len(attempts[r]) - 1
  BY <1>1, HeadTailProperties
<1>3. Len(attempts[r]) \in Nat /\ Len(attempts[r]) # 0
  BY <1>1, EmptySeq, LenProperties
<1> QED
  BY <1>2, <1>3 DEF Current

-----------------------------------------------------------------------------
(* The fields of the state that a step may disturb.                        *)

\* Every step keeps the types.
LEMMA SpecTypeOK ==
    ASSUME TypeOK, Spoken, [Next]_vars
    PROVE  TypeOK'
<1> USE DEF TypeOK
<1>1. ASSUME NEW r \in Requests, NEW k \in Kinds, NEW f \in SUBSET Models, Ask(r, k, f)
      PROVE  TypeOK'
  BY <1>1 DEF Steps, Ask, segment, answer
<1>2. ASSUME NEW r \in Requests, Select(r)
      PROVE  TypeOK'
  <2>1. PICK chosen \in Selections(health, fit[r]) :
           /\ attempts' = [attempts EXCEPT ![r] = chosen]
           /\ at' = [at EXCEPT ![r] = IF chosen = <<>> THEN "failed" ELSE "calling"]
    BY <1>2 DEF Select
  <2>2. chosen \in Seq(Models) /\ Len(chosen) \in 0..MaxAttempts
    BY SelectionsTyped
  <2>3. health' \in [Keys -> States]
    <3>1. health' = Looked(health, fit[r])
      BY <1>2 DEF Select
    <3>2. CASE Models = {}
      BY <3>1, <3>2 DEF Looked, States
    <3>3. CASE Models # {}
      BY <3>1, <3>3, HealthTyped DEF Failures
    <3> QED
      BY <3>2, <3>3
  <2>4. /\ attempts' \in [Requests -> Seq(Models)]
        /\ \A q \in Requests : Len(attempts'[q]) <= MaxAttempts
    BY <2>1, <2>2
  <2>5. at' \in [Requests -> Steps]
    BY <2>1 DEF Steps
  <2> QED
    BY <1>2, <2>3, <2>4, <2>5 DEF Select, answer
<1>3. ASSUME NEW r \in Requests, Call(r)
      PROVE  TypeOK'
  BY <1>3 DEF Steps, Call, segment, answer
<1>4. ASSUME NEW r \in Requests, Yield(r)
      PROVE  TypeOK'
  BY <1>4, CurrentTyped DEF Yield, answer
<1>5. ASSUME NEW r \in Requests, NEW failure \in Failures, NEW why \in Reasons,
             at[r] \in {"calling", "waiting"}, Fails(r, failure, why),
             fallback' \in [Requests -> {"none", "called", "refused"}]
      PROVE  TypeOK'
  <2>1. health' \in [Keys -> States] /\ last' \in [Requests -> Failures \cup {"none"}]
    BY <1>5, CurrentTyped, HealthTyped DEF Fails
  <2>2. CASE Ends(r, failure)
    <3>1. /\ at' = [at EXCEPT ![r] = "failed"]
          /\ reason' = [reason EXCEPT ![r] = "none"]
          /\ fit' = [fit EXCEPT ![r] = {}]
          /\ UNCHANGED <<attempts, yielded>>
      BY <1>5, <2>2 DEF Fails
    <3>2. at' \in [Requests -> Steps] /\ reason' \in [Requests -> Reasons]
      BY <3>1 DEF Steps, Reasons
    <3> QED
      BY <1>5, <2>1, <3>1, <3>2 DEF Fails, answer
  <2>3. CASE ~Ends(r, failure)
    <3>1. attempts' = [attempts EXCEPT ![r] = Tail(@)]
      BY <1>5, <2>3 DEF Fails
    <3>2. /\ attempts' \in [Requests -> Seq(Models)]
          /\ \A q \in Requests : Len(attempts'[q]) <= MaxAttempts
      BY <1>5, <3>1, CurrentTyped
    <3>3. /\ at' = [at EXCEPT ![r] = "calling"]
          /\ reason' = [reason EXCEPT ![r] = IF why = "none" THEN @ ELSE why]
          /\ yielded' = [yielded EXCEPT ![r] = FALSE]
          /\ fit' = fit
      BY <1>5, <2>3 DEF Fails
    <3>4. at' \in [Requests -> Steps] /\ reason' \in [Requests -> Reasons]
      BY <3>3 DEF Steps
    <3> QED
      BY <1>5, <2>1, <3>2, <3>3, <3>4 DEF Fails, answer
  <2> QED
    BY <2>2, <2>3
<1>6. ASSUME NEW r \in Requests, Refuse(r)
      PROVE  TypeOK'
  <2>1. fallback' \in [Requests -> {"none", "called", "refused"}]
    BY <1>6 DEF Refuse
  <2> QED
    BY <1>5, <1>6, <2>1 DEF Refuse, Failures, Reasons
<1>7. ASSUME NEW r \in Requests, NEW failure \in Failures, NEW why \in Reasons,
             Break(r, failure, why)
      PROVE  TypeOK'
  BY <1>5, <1>7 DEF Break
<1>8. ASSUME NEW r \in Requests, NEW why \in Reasons, EndEmpty(r, why)
      PROVE  TypeOK'
  BY <1>5, <1>8 DEF EndEmpty, Failures
<1>9. ASSUME NEW r \in Requests, OutOfTime(r)
      PROVE  TypeOK'
  BY <1>9, EmptySeq DEF Steps, OutOfTime, Leave, answer, Reasons
<1>10. ASSUME NEW r \in Requests, Cancel(r)
       PROVE  TypeOK'
  BY <1>10, EmptySeq DEF Steps, Cancel, Leave, Reasons
<1>11. ASSUME NEW r \in Requests, Return(r)
       PROVE  TypeOK'
  <2>1. health' \in [Keys -> States]
    BY <1>11, CurrentTyped, HealthTyped DEF Return, Failures
  <2> QED
    BY <1>11, <2>1, EmptySeq DEF Steps, Return, Leave, answer, Reasons
<1>12. ASSUME NEW r \in Requests, NEW why \in Reasons,
              NEW grown \in BOOLEAN, NEW whole \in BOOLEAN, NEW lacking \in BOOLEAN,
              End(r, why, grown, whole, lacking)
       PROVE  TypeOK'
  <2>1. health' \in [Keys -> States]
    BY <1>12, CurrentTyped, HealthTyped DEF End, Failures
  <2>2. /\ attempts' \in [Requests -> Seq(Models)]
        /\ \A q \in Requests : Len(attempts'[q]) <= MaxAttempts
    BY <1>12, EmptySeq DEF End
  <2>3. count' \in [Requests -> 0..MaxContinuations]
    BY <1>12 DEF End, More
  <2>4. blocked' \in [Requests -> BOOLEAN]
    BY <1>12 DEF End, Blocked, Incomplete
  <2>5. /\ reason' \in [Requests -> Reasons]
        /\ fit' \in [Requests -> SUBSET Models]
        /\ at' \in [Requests -> Steps]
    BY <1>12 DEF End, NextReason, Reasons, Steps
  <2> QED
    BY <1>12, <2>1, <2>2, <2>3, <2>4, <2>5 DEF End
<1>13. ASSUME NEW k \in Keys, Elapse(k)
       PROVE  TypeOK'
  BY <1>13 DEF Elapse, segment, answer, States
<1>14. CASE UNCHANGED vars
  BY <1>14 DEF vars, segment, answer
<1> HIDE DEF TypeOK
<1> QED
  BY <1>1, <1>2, <1>3, <1>4, <1>6, <1>7, <1>8, <1>9, <1>10, <1>11, <1>12, <1>13, <1>14 DEF Next

-----------------------------------------------------------------------------
(* What the steps keep besides the types.                                  *)

\* Every step keeps who has spoken, what failure means and what the client is told.
LEMMA SpecKept ==
    ASSUME IInv, [Next]_vars
    PROVE  Kept'
<1> USE DEF IInv, TypeOK, Kept, Spoken, Unjudged, FailureIsFinal, IncompleteIsTold, Current
<1>1. ASSUME NEW r \in Requests, NEW k \in Kinds, NEW f \in SUBSET Models, Ask(r, k, f)
      PROVE  Kept'
  BY <1>1 DEF Ask, segment, answer
<1>2. ASSUME NEW r \in Requests, Select(r)
      PROVE  Kept'
  <2>1. PICK chosen \in Selections(health, fit[r]) :
           /\ attempts' = [attempts EXCEPT ![r] = chosen]
           /\ at' = [at EXCEPT ![r] = IF chosen = <<>> THEN "failed" ELSE "calling"]
    BY <1>2 DEF Select
  <2>2. chosen = <<>> => Len(chosen) = 0
    BY EmptySeq
  <2> QED
    BY <1>2, <2>1, <2>2 DEF Select, answer
<1>3. ASSUME NEW r \in Requests, Call(r)
      PROVE  Kept'
  BY <1>3 DEF Call, segment, answer
<1>4. ASSUME NEW r \in Requests, Yield(r)
      PROVE  Kept'
  BY <1>4 DEF Yield, answer
<1>5. ASSUME NEW r \in Requests, NEW failure \in Failures, NEW why \in Reasons,
             at[r] \in {"calling", "waiting"}, Fails(r, failure, why)
      PROVE  Kept'
  <2> DEFINE n == Len(attempts[r])
             rest == Tail(attempts[r])
  <2>1. /\ Head(attempts[r]) # NoModel
        /\ Len(rest) = n - 1
        /\ n \in Nat \ {0}
    BY <1>5, CurrentTyped
  <2>2. /\ last' = [last EXCEPT ![r] = failure]
        /\ UNCHANGED <<kind, voice, complete, blocked>>
    BY <1>5 DEF Fails, answer
  <2>3. CASE Ends(r, failure)
    <3>1. yielded[r] \/ failure \in {"authentication", "invalid_request"} \/ n = 1
      BY <2>3 DEF Ends, AllowsFallback
    <3>2. at' = [at EXCEPT ![r] = "failed"] /\ UNCHANGED <<attempts, yielded>>
      BY <1>5, <2>3 DEF Fails
    <3>3. yielded[r] => voice[r] # NoModel
      BY <1>5, <2>1
    <3>4. FailureIsFinal'
      <4>1. ASSUME NEW q \in Requests, at'[q] = "failed"
            PROVE  \/ Len(attempts'[q]) <= 1
                   \/ voice'[q] # NoModel
                   \/ last'[q] \in {"authentication", "invalid_request"}
        <5>1. attempts'[q] = attempts[q] /\ voice'[q] = voice[q]
          BY <2>2, <3>2
        <5>2. CASE q = r
          <6>1. CASE yielded[r]
            BY <3>3, <5>1, <5>2, <6>1
          <6>2. CASE failure \in {"authentication", "invalid_request"}
            <7>1. last'[r] = failure
              BY <2>2
            <7> QED
              BY <5>2, <6>2, <7>1
          <6>3. CASE n = 1
            BY <5>1, <5>2, <6>3
          <6> QED
            BY <3>1, <6>1, <6>2, <6>3
        <5>3. CASE q # r
          BY <2>2, <3>2, <4>1, <5>1, <5>3
        <5> QED
          BY <5>2, <5>3
      <4> QED
        BY <4>1
    <3>5. Spoken' /\ Unjudged' /\ IncompleteIsTold'
      BY <1>5, <2>2, <3>2
    <3> QED
      BY <3>4, <3>5
  <2>4. CASE ~Ends(r, failure)
    <3>1. ~yielded[r] /\ n # 1
      BY <2>4 DEF Ends
    <3>2. rest # <<>>
      <4>1. Len(rest) # 0
        BY <2>1, <3>1
      <4> HIDE DEF rest
      <4> QED
        BY <4>1, EmptySeq
    <3>3. /\ at' = [at EXCEPT ![r] = "calling"]
          /\ attempts' = [attempts EXCEPT ![r] = rest]
          /\ yielded' = [yielded EXCEPT ![r] = FALSE]
      BY <1>5, <2>4 DEF Fails
    <3>4. voice[r] = NoModel
      BY <1>5, <3>1
    <3> HIDE DEF rest
    <3> QED
      BY <1>5, <2>2, <3>1, <3>2, <3>3, <3>4
  <2> QED
    BY <2>3, <2>4
<1>6. ASSUME NEW r \in Requests, Refuse(r)
      PROVE  Kept'
  BY <1>5, <1>6 DEF Refuse, Failures, Reasons
<1>7. ASSUME NEW r \in Requests, NEW failure \in Failures, NEW why \in Reasons,
             Break(r, failure, why)
      PROVE  Kept'
  BY <1>5, <1>7 DEF Break
<1>8. ASSUME NEW r \in Requests, NEW why \in Reasons, EndEmpty(r, why)
      PROVE  Kept'
  BY <1>5, <1>8 DEF EndEmpty, Failures
<1>9. ASSUME NEW r \in Requests, OutOfTime(r)
      PROVE  Kept'
  BY <1>9 DEF OutOfTime, Leave, answer
<1>10. ASSUME NEW r \in Requests, Cancel(r)
       PROVE  Kept'
  BY <1>10 DEF Cancel, Leave
<1>11. ASSUME NEW r \in Requests, Return(r)
       PROVE  Kept'
  BY <1>11 DEF Return, Leave, answer
<1>12. ASSUME NEW r \in Requests, NEW why \in Reasons,
              NEW grown \in BOOLEAN, NEW whole \in BOOLEAN, NEW lacking \in BOOLEAN,
              End(r, why, grown, whole, lacking)
       PROVE  Kept'
  BY <1>12 DEF End, Blocked, Incomplete
<1>13. ASSUME NEW k \in Keys, Elapse(k)
       PROVE  Kept'
  BY <1>13 DEF Elapse, segment, answer
<1>14. CASE UNCHANGED vars
  BY <1>14 DEF vars, segment, answer
<1> HIDE DEF Kept
<1> QED
  BY <1>1, <1>2, <1>3, <1>4, <1>6, <1>7, <1>8, <1>9, <1>10, <1>11, <1>12, <1>13, <1>14 DEF Next

-----------------------------------------------------------------------------

\* The invariant of all that follows: types, and of each request which models have
\* spoken, what their failures were and what its client was told.
THEOREM GenerationInvariance == Spec => []IInv
<1>1. Init => IInv
  BY EmptySeq DEF Init, IInv, Kept, TypeOK, Spoken, Unjudged, FailureIsFinal, IncompleteIsTold,
     Keys, States, Kinds, Steps, Reasons
<1>2. IInv /\ [Next]_vars => IInv'
  BY SpecTypeOK, SpecKept DEF IInv, Kept
<1> QED
  BY <1>1, <1>2, PTL DEF Spec

\* The state of the router and of every request stays what the code can hold: at
\* most llm_max_fallbacks + 1 attempts, at most the continuations allowed.
THEOREM GenerationTypes == Spec => []TypeOK
<1>1. IInv => TypeOK
  BY DEF IInv
<1> QED
  BY <1>1, GenerationInvariance, PTL

\* No segment of an answer is of two models (stream_text: yielded_text).
THEOREM SegmentsHaveOneVoice == Spec => []OneVoice
<1>1. IInv => OneVoice
  BY DEF IInv, Kept, Spoken, OneVoice
<1> QED
  BY <1>1, GenerationInvariance, PTL

\* A request fails only with nobody left to ask.
THEOREM FailuresAreFinal == Spec => []FailureIsFinal
<1>1. IInv => FailureIsFinal
  BY DEF IInv, Kept
<1> QED
  BY <1>1, GenerationInvariance, PTL

\* The client is told of exactly the pages that are not complete.
THEOREM IncompletePagesAreTold == Spec => []IncompleteIsTold
<1>1. IInv => IncompleteIsTold
  BY DEF IInv, Kept
<1> QED
  BY <1>1, GenerationInvariance, PTL
-----------------------------------------------------------------------------
(* Whose reason it is.  A provider's word for its end stays in the trace   *)
(* when its attempt fails, until another provider says one.  No two models *)
(* ever say one for the same segment, because the adapter of one model     *)
(* alone takes "tools": the Groq model of configured_models                *)
(* (model_router/registry.py:81).                                          *)

OneAdapter ==
    \A m, n \in Models :
        ProviderOf[m] \in TakesTools /\ ProviderOf[n] \in TakesTools => m = n

\* None of these models can be called.
Mute(s) == \A i \in 1..Len(s) : ProviderOf[s[i]] \notin TakesTools

\* No reason is left from an attempt before, where one could be taken for another.
OwnReason ==
    \A r \in Requests :
        /\ at[r] \in {"new", "selecting", "waiting"} => reason[r] = "none"
        /\ at[r] = "new" => count[r] = 0
        /\ at[r] \in {"calling", "waiting"} => Distinct(attempts[r])
        /\ at[r] = "calling" /\ reason[r] # "none" => Mute(attempts[r])
        /\ at[r] = "waiting" => ProviderOf[Current(r)] \in TakesTools

CutIInv == OwnReason /\ ContinuedWhenCut

\* What is left of the attempts when one of them has failed.
LEMMA RestOf ==
    ASSUME TypeOK, Spoken, OwnReason,
           NEW r \in Requests, at[r] \in {"calling", "waiting"}
    PROVE  /\ Distinct(Tail(attempts[r]))
           /\ Mute(attempts[r]) => Mute(Tail(attempts[r]))
           /\ OneAdapter /\ ProviderOf[Current(r)] \in TakesTools
                => Mute(Tail(attempts[r])) /\ ~Mute(attempts[r])
<1> DEFINE s == attempts[r]
           rest == Tail(s)
<1>1. s \in Seq(Models) /\ s # <<>> /\ Distinct(s)
  BY DEF TypeOK, Spoken, OwnReason
<1>2. /\ rest \in Seq(Models) /\ Len(rest) = Len(s) - 1
      /\ \A i \in 1..Len(rest) : rest[i] = s[i + 1]
  BY <1>1, HeadTailProperties
<1>3. Len(s) \in Nat /\ Len(s) # 0 /\ Current(r) = s[1]
  BY <1>1, EmptySeq, LenProperties DEF Current
<1> HIDE DEF rest
<1>4. \A i \in 1..Len(rest) : i + 1 \in 1..Len(s) /\ i + 1 # 1 /\ s[i + 1] \in Models
  BY <1>1, <1>2, <1>3, ElementOfSeq
<1>5. 1 \in 1..Len(s) /\ s[1] \in Models
  BY <1>1, <1>3, ElementOfSeq
<1>6. Distinct(rest)
  <2>1. ASSUME NEW i \in 1..Len(rest), NEW j \in 1..Len(rest), rest[i] = rest[j]
        PROVE  i = j
    <3>1. s[i + 1] = s[j + 1]
      BY <1>2, <2>1
    <3>2. i + 1 = j + 1
      BY <1>1, <1>4, <3>1 DEF Distinct
    <3> QED
      BY <3>2
  <2> QED
    BY <2>1 DEF Distinct
<1>7. Mute(s) => Mute(rest)
  BY <1>2, <1>4 DEF Mute
<1>8. ASSUME OneAdapter, ProviderOf[Current(r)] \in TakesTools
      PROVE  Mute(rest) /\ ~Mute(s)
  <2>1. \A i \in 1..Len(rest) : s[i + 1] # s[1]
    BY <1>1, <1>4, <1>5 DEF Distinct
  <2>2. \A i \in 1..Len(rest) : ProviderOf[s[i + 1]] \notin TakesTools
    BY <1>3, <1>4, <1>5, <1>8, <2>1 DEF OneAdapter
  <2> QED
    BY <1>2, <1>3, <1>5, <1>8, <2>2 DEF Mute
<1> QED
  BY <1>6, <1>7, <1>8 DEF rest

\* Every step keeps whose reason it is, and therefore whether an answer goes on.
LEMMA NextOwnReason ==
    ASSUME OneAdapter, IInv, CutIInv, [Next]_vars
    PROVE  CutIInv'
<1> USE DEF IInv, TypeOK, CutIInv, OwnReason, ContinuedWhenCut, Current
<1>1. ASSUME NEW r \in Requests, NEW k \in Kinds, NEW f \in SUBSET Models, Ask(r, k, f)
      PROVE  CutIInv'
  BY <1>1 DEF Ask, segment, answer, Incomplete
<1>2. ASSUME NEW r \in Requests, Select(r)
      PROVE  CutIInv'
  <2>1. PICK chosen \in Selections(health, fit[r]) :
           /\ attempts' = [attempts EXCEPT ![r] = chosen]
           /\ at' = [at EXCEPT ![r] = IF chosen = <<>> THEN "failed" ELSE "calling"]
    BY <1>2 DEF Select
  <2>2. Distinct(chosen)
    BY SelectionsTyped
  <2> QED
    BY <1>2, <2>1, <2>2 DEF Select, answer
<1>3. ASSUME NEW r \in Requests, Call(r)
      PROVE  CutIInv'
  <2>1. ~Mute(attempts[r])
    BY <1>3, RestOf DEF Call, Kept
  <2> QED
    BY <1>3, <2>1 DEF Call, segment, answer
<1>4. ASSUME NEW r \in Requests, Yield(r)
      PROVE  CutIInv'
  BY <1>4 DEF Yield, answer
<1>5. ASSUME NEW r \in Requests, NEW failure \in Failures, NEW why \in Reasons,
             at[r] \in {"calling", "waiting"}, Fails(r, failure, why),
             at[r] = "calling" => why = "none"
      PROVE  CutIInv'
  <2>1. CASE Ends(r, failure)
    <3>1. at' = [at EXCEPT ![r] = "failed"] /\ reason' = [reason EXCEPT ![r] = "none"]
          /\ UNCHANGED <<attempts, kind, answer>>
      BY <1>5, <2>1 DEF Fails
    <3> QED
      BY <3>1 DEF answer
  <2>2. CASE ~Ends(r, failure)
    <3> DEFINE rest == Tail(attempts[r])
    <3>1. /\ at' = [at EXCEPT ![r] = "calling"]
          /\ attempts' = [attempts EXCEPT ![r] = rest]
          /\ reason' = [reason EXCEPT ![r] = IF why = "none" THEN @ ELSE why]
          /\ UNCHANGED <<kind, answer>>
      BY <1>5, <2>2 DEF Fails
    <3>2. Distinct(rest) /\ (reason'[r] # "none" => Mute(rest))
      BY <1>5, <3>1, RestOf DEF Kept
    <3> HIDE DEF rest
    <3> QED
      BY <3>1, <3>2 DEF answer
  <2> QED
    BY <2>1, <2>2
<1>6. ASSUME NEW r \in Requests, Refuse(r)
      PROVE  CutIInv'
  BY <1>5, <1>6 DEF Refuse, Failures, Reasons
<1>7. ASSUME NEW r \in Requests, NEW failure \in Failures, NEW why \in Reasons,
             Break(r, failure, why)
      PROVE  CutIInv'
  BY <1>5, <1>7 DEF Break
<1>8. ASSUME NEW r \in Requests, NEW why \in Reasons, EndEmpty(r, why)
      PROVE  CutIInv'
  BY <1>5, <1>8 DEF EndEmpty, Failures
<1>9. ASSUME NEW r \in Requests, OutOfTime(r)
      PROVE  CutIInv'
  BY <1>9 DEF OutOfTime, Leave, answer
<1>10. ASSUME NEW r \in Requests, Cancel(r)
       PROVE  CutIInv'
  BY <1>10 DEF Cancel, Leave
<1>11. ASSUME NEW r \in Requests, Return(r)
       PROVE  CutIInv'
  BY <1>11 DEF Return, Leave, answer
<1>12. ASSUME NEW r \in Requests, NEW why \in Reasons,
              NEW grown \in BOOLEAN, NEW whole \in BOOLEAN, NEW lacking \in BOOLEAN,
              End(r, why, grown, whole, lacking)
       PROVE  CutIInv'
  BY <1>12 DEF End, More, Wanted, NextReason
<1>13. ASSUME NEW k \in Keys, Elapse(k)
       PROVE  CutIInv'
  BY <1>13 DEF Elapse, segment, answer
<1>14. CASE UNCHANGED vars
  BY <1>14 DEF vars, segment, answer
<1> HIDE DEF CutIInv
<1> QED
  BY <1>1, <1>2, <1>3, <1>4, <1>6, <1>7, <1>8, <1>9, <1>10, <1>11, <1>12, <1>13, <1>14 DEF Next

\* An answer is continued exactly when the model that has spoken last was cut off or
\* the page lacks a part, as long as only one model's adapter accepts the call.
THEOREM AnswersContinueWhenCut ==
    ASSUME OneAdapter
    PROVE  Spec => []ContinuedWhenCut
<1>1. Init => CutIInv
  BY DEF Init, CutIInv, OwnReason, ContinuedWhenCut
<1>2. IInv /\ CutIInv /\ [Next]_vars => CutIInv'
  BY NextOwnReason
<1>3. CutIInv => ContinuedWhenCut
  BY DEF CutIInv
<1> QED
  BY <1>1, <1>2, <1>3, GenerationInvariance, PTL DEF Spec
=============================================================================
