------------------------ MODULE SocialPublishing_proofs ------------------------
(***************************************************************************)
(* Proofs about SocialPublishing, for every number of requests, commands   *)
(* and steps of the browser.                                               *)
(***************************************************************************)
EXTENDS SocialPublishing, FiniteSetTheorems, TLAPS

\* A row has a kind from its insertion on; nothing happens before the task is
\* prepared; the report that is handled is of a command.
Rows ==
    /\ \A c \in Commands : outcome[c] = "none" <=> kind[c] = "none"
    /\ task.status = "none" =>
          /\ \A c \in Commands : outcome[c] = "none"
          /\ \A m \in Chats : chat[m] = "idle"
    /\ report.at # "none" => report.of \in Commands /\ outcome[report.of] # "none"

Published  == {c \in Commands : kind[c] = "publish"}
Confirming == {m \in Chats : chat[m] = "confirming"}

\* A yes that is being confirmed has not been spent yet.
Consented == Cardinality(Published) + Cardinality(Confirming) <= consents

IInv ==
    TypeOK /\ Rows /\ PublishedWasVerified /\ AskedIsUnpublished /\ Consented

USE PublishingAssumption DEF Browser!Verdicts, Browser!Outcomes, Kinds, Places, browser

-----------------------------------------------------------------------------
(* Helpers.                                                                *)

\* The number of clicks and of confirmations is finite.
LEMMA Counts ==
    ASSUME NEW S, NEW T \in SUBSET S, IsFiniteSet(S)
    PROVE  IsFiniteSet(T) /\ Cardinality(T) \in Nat
BY FS_Subset, FS_CardinalityType

LEMMA InsertedRow ==
    ASSUME IInv, NEW d \in Commands, NEW what \in Kinds \ {"none"},
           NEW number \in 0..MaxSteps, Insert(d, what, number)
    PROVE  /\ outcome' \in [Commands -> Browser!Outcomes]
           /\ kind' \in [Commands -> Kinds]
           /\ step' \in [Commands -> 0..MaxSteps]
           /\ \A e \in Commands \ {d} : outcome'[e] = outcome[e] /\ kind'[e] = kind[e]
           /\ outcome[d] = "none" /\ kind[d] = "none"
           /\ outcome'[d] = "open" /\ kind'[d] = what
<1>1. /\ outcome[d] = "none"
      /\ outcome' = [outcome EXCEPT ![d] = "open"]
      /\ kind' = [kind EXCEPT ![d] = what]
      /\ step' = [step EXCEPT ![d] = number]
  BY DEF Insert, Browser!IsNext, Browser!Submitted
<1>2. kind[d] = "none"
  BY <1>1 DEF IInv, Rows
<1> QED
  BY <1>1, <1>2 DEF IInv, TypeOK

\* A new command is not verified, so what is said of verified ones stays.
LEMMA InsertKeeps ==
    ASSUME IInv, NEW d \in Commands, NEW what \in Kinds \ {"none"},
           NEW number \in 0..MaxSteps, Insert(d, what, number),
           UNCHANGED task, task.status # "none", report'.of = report.of,
           report'.at # "none" => report.at # "none", UNCHANGED lost
    PROVE  Rows' /\ PublishedWasVerified' /\ AskedIsUnpublished'
<1>1. /\ \A e \in Commands \ {d} : outcome'[e] = outcome[e] /\ kind'[e] = kind[e]
      /\ outcome[d] = "none" /\ kind[d] = "none"
      /\ outcome'[d] = "open" /\ kind'[d] = what
  BY InsertedRow
<1>2. Rows'
  BY <1>1 DEF IInv, Rows
<1>3. PublishedWasVerified'
  BY <1>1 DEF IInv, PublishedWasVerified, Clicks
<1>4. AskedIsUnpublished'
  BY <1>1 DEF IInv, AskedIsUnpublished
<1> QED
  BY <1>2, <1>3, <1>4

LEMMA ConsentedKept ==
    ASSUME IInv, Published' \subseteq Published, Confirming' \subseteq Confirming,
           consents' = consents
    PROVE  Consented'
<1>1. IsFiniteSet(Published) /\ IsFiniteSet(Confirming)
  BY Counts DEF Published, Confirming
<1>2. /\ Cardinality(Published') <= Cardinality(Published)
      /\ Cardinality(Confirming') <= Cardinality(Confirming)
      /\ Cardinality(Published) \in Nat /\ Cardinality(Confirming) \in Nat
      /\ Cardinality(Published') \in Nat /\ Cardinality(Confirming') \in Nat
  BY <1>1, FS_Subset, FS_CardinalityType
<1> QED
  BY <1>2 DEF IInv, TypeOK, Consented

-----------------------------------------------------------------------------
(* A report, from its first commit to its last.                            *)

LEMMA CompleteKeeps ==
    ASSUME IInv, NEW c \in Commands, NEW verdict \in Browser!Verdicts,
           Complete(c, verdict)
    PROVE  IInv'
<1>t. TypeOK /\ Rows
  BY DEF IInv
<1>1. /\ outcome[c] # "none"
      /\ outcome' = Browser!Reported(c, verdict, outcome)
      /\ report' = [at |-> "continuing", of |-> c]
      /\ UNCHANGED <<kind, step, task, chat, consents, lost>>
      /\ \A d \in Commands : d # report.of
  BY DEF Complete, Browser!Report, NoReport
<1>2. /\ outcome' \in [Commands -> Browser!Outcomes]
      /\ \A d \in Commands : outcome'[d] = "none" <=> outcome[d] = "none"
      /\ \A d \in Commands : d # c => outcome'[d] = outcome[d]
      /\ outcome[c] = "VERIFIED" => outcome'[c] = "VERIFIED"
  BY <1>1, <1>t DEF TypeOK, Browser!Reported
<1>3. TypeOK'
  BY <1>1, <1>2, <1>t DEF TypeOK, Report
<1>4. Rows'
  BY <1>1, <1>2, <1>t DEF Rows
<1>5. PublishedWasVerified'
  <2>1. \A e \in Commands : outcome[e] = "VERIFIED" => outcome'[e] = "VERIFIED"
    BY <1>2
  <2> QED
    BY <1>1, <2>1 DEF IInv, PublishedWasVerified, Clicks
<1>6. AskedIsUnpublished'
  BY <1>1, <1>2 DEF IInv, AskedIsUnpublished
<1>7. Consented'
  BY <1>1, ConsentedKept DEF Published, Confirming
<1> QED
  BY <1>3, <1>4, <1>5, <1>6, <1>7 DEF IInv

\* Nothing but the row of the task and the place of the report.
LEMMA HandleKeeps ==
    ASSUME IInv, Stop \/ Stage \/ ContinueFails
    PROVE  IInv'
<1>t. TypeOK /\ Rows
  BY DEF IInv
<1>1. /\ UNCHANGED <<outcome, kind, step, chat, consents, lost>>
      /\ task' \in Task /\ task'.status = task.status
  BY <1>t DEF Stop, Stage, ContinueFails, TypeOK, Task
<1>2. \/ report' = NoReport /\ kind[report.of] # "publish"
      \/ report' \in Report /\ report'.of = report.of /\ report.at # "none"
  BY <1>t DEF Stop, Stage, ContinueFails, GoesOn, TypeOK, Report
<1>3. TypeOK'
  BY <1>1, <1>2, <1>t DEF TypeOK, Report, NoReport
<1>4. Rows' /\ PublishedWasVerified'
  BY <1>1, <1>2 DEF IInv, Rows, PublishedWasVerified, Clicks, NoReport
<1>5. AskedIsUnpublished'
  BY <1>1, <1>2 DEF IInv, AskedIsUnpublished, NoReport
<1>6. Consented'
  BY <1>1, ConsentedKept DEF Published, Confirming
<1> QED
  BY <1>3, <1>4, <1>5, <1>6 DEF IInv

LEMMA ContinueKeeps ==
    ASSUME IInv, Continue
    PROVE  IInv'
<1>t. TypeOK /\ Rows
  BY DEF IInv
<1>1. /\ report.of \in Commands /\ outcome[report.of] # "none"
      /\ task.status # "none"
      /\ step[report.of] + 1 \in 0..MaxSteps
  BY <1>t DEF Continue, GoesOn, TypeOK, Rows
<1>2. PICK d \in Commands, what \in Proposed : Insert(d, what, step[report.of] + 1)
  BY DEF Continue
<1>3. what \in {"click", "look"}
  BY DEF Proposed
<1>4. /\ report' = [report EXCEPT !.at = "concluding"]
      /\ UNCHANGED <<task, chat, consents, lost>>
      /\ report.at = "continuing"
  BY DEF Continue
<1>5. report' \in Report /\ report'.of = report.of
  BY <1>4, <1>t DEF TypeOK, Report
<1>6. /\ outcome' \in [Commands -> Browser!Outcomes]
      /\ kind' \in [Commands -> Kinds]
      /\ step' \in [Commands -> 0..MaxSteps]
      /\ \A e \in Commands \ {d} : kind'[e] = kind[e]
      /\ kind'[d] = what
  BY <1>1, <1>2, <1>3, InsertedRow
<1>7. TypeOK'
  BY <1>4, <1>5, <1>6, <1>t DEF TypeOK
<1>8. Rows' /\ PublishedWasVerified' /\ AskedIsUnpublished'
  BY <1>1, <1>2, <1>3, <1>4, <1>5, InsertKeeps
<1>9. Consented'
  <2>1. Published' \subseteq Published
    BY <1>3, <1>6 DEF Published
  <2> QED
    BY <1>4, <2>1, ConsentedKept DEF Confirming
<1> QED
  BY <1>7, <1>8, <1>9 DEF IInv

LEMMA ConcludeKeeps ==
    ASSUME IInv, Conclude
    PROVE  IInv'
<1> DEFINE c == report.of
<1>t. TypeOK /\ Rows /\ task \in Task
  BY DEF IInv, TypeOK
<1>1. /\ c \in Commands /\ outcome[c] # "none"
      /\ report' = NoReport
      /\ UNCHANGED <<outcome, kind, step, chat, consents, lost>>
      /\ task.status # "none"
  BY <1>t DEF Conclude, Rows
<1>2. /\ task' \in Task
      /\ c \notin Clicks => task' = task
      /\ c \in Clicks => task'.status
             = IF outcome[c] = "VERIFIED" THEN "PUBLISHED" ELSE "FAILED"
  BY <1>t DEF Conclude, Concluded, Task
<1> HIDE DEF c
<1>3. TypeOK'
  BY <1>1, <1>2, <1>t DEF TypeOK, Report, NoReport
<1>4. Rows'
  BY <1>1, <1>2, <1>t DEF Rows, NoReport
<1>5. PublishedWasVerified'
  BY <1>1, <1>2 DEF IInv, PublishedWasVerified, Clicks
<1>6. AskedIsUnpublished'
  <2> SUFFICES ASSUME task'.status = "WAITING_FOR_CONFIRMATION",
                      NEW e \in Commands, kind[e] = "publish", outcome[e] = "VERIFIED"
               PROVE  e \in lost
    BY <1>1 DEF AskedIsUnpublished
  <2>1. c \notin Clicks /\ task' = task
    BY <1>2
  <2>2. e # c
    BY <2>1 DEF Clicks
  <2> QED
    BY <2>1, <2>2 DEF IInv, AskedIsUnpublished, c
<1>7. Consented'
  BY <1>1, ConsentedKept DEF Published, Confirming
<1> QED
  BY <1>3, <1>4, <1>5, <1>6, <1>7 DEF IInv

-----------------------------------------------------------------------------
(* The other steps that insert a command.                                  *)

LEMMA BrowseKeeps ==
    ASSUME IInv, Browse
    PROVE  IInv'
<1>1. PICK d \in Commands, what \in {"click", "look"} : Insert(d, what, 1)
  BY DEF Browse
<1>2. /\ UNCHANGED <<task, report, chat, consents, lost>>
      /\ task.status # "none" /\ 1 \in 0..MaxSteps
  BY DEF Browse
<1>3. /\ outcome' \in [Commands -> Browser!Outcomes]
      /\ kind' \in [Commands -> Kinds]
      /\ step' \in [Commands -> 0..MaxSteps]
      /\ \A e \in Commands \ {d} : kind'[e] = kind[e]
      /\ kind'[d] = what
  BY <1>1, <1>2, InsertedRow
<1>4. Rows' /\ PublishedWasVerified' /\ AskedIsUnpublished'
  BY <1>1, <1>2, InsertKeeps
<1>5. TypeOK'
  BY <1>2, <1>3 DEF IInv, TypeOK
<1>6. Consented'
  BY <1>2, <1>3, ConsentedKept, Published' \subseteq Published
     DEF Published, Confirming
<1> QED
  BY <1>4, <1>5, <1>6 DEF IInv

LEMMA DispatchKeeps ==
    ASSUME IInv, NEW m \in Chats, Dispatch(m)
    PROVE  IInv'
<1>t. TypeOK
  BY DEF IInv
<1>1. PICK d \in Commands : Insert(d, "publish", 1)
  BY DEF Dispatch
<1>2. /\ chat[m] = "confirming"
      /\ chat' = [chat EXCEPT ![m] = "dispatched"]
      /\ UNCHANGED <<task, report, consents, lost>>
      /\ 1 \in 0..MaxSteps
  BY DEF Dispatch
<1>3. task.status # "none"
  BY <1>2 DEF IInv, Rows
<1>4. /\ outcome' \in [Commands -> Browser!Outcomes]
      /\ kind' \in [Commands -> Kinds]
      /\ step' \in [Commands -> 0..MaxSteps]
      /\ \A e \in Commands \ {d} : kind'[e] = kind[e]
      /\ kind[d] = "none" /\ kind'[d] = "publish"
  BY <1>1, <1>2, InsertedRow
<1>5. Rows' /\ PublishedWasVerified' /\ AskedIsUnpublished'
  BY <1>1, <1>2, <1>3, InsertKeeps
<1>6. TypeOK'
  BY <1>2, <1>4, <1>t DEF TypeOK
<1>7. Consented'
  <2>1. /\ Published' = Published \cup {d} /\ d \notin Published
        /\ Confirming' = Confirming \ {m} /\ m \in Confirming
    BY <1>2, <1>4, <1>t DEF Published, Confirming, TypeOK
  <2>2. IsFiniteSet(Published) /\ IsFiniteSet(Confirming)
    BY Counts DEF Published, Confirming
  <2>3. /\ Cardinality(Published') = Cardinality(Published) + 1
        /\ Cardinality(Confirming') = Cardinality(Confirming) - 1
        /\ Cardinality(Published) \in Nat /\ Cardinality(Confirming) \in Nat
    BY <2>1, <2>2, FS_AddElement, FS_RemoveElement, FS_CardinalityType
  <2> QED
    BY <2>3, <1>2 DEF IInv, TypeOK, Consented
<1> QED
  BY <1>5, <1>6, <1>7 DEF IInv

-----------------------------------------------------------------------------
(* The steps of the user, and the rest.                                    *)

LEMMA YesKeeps ==
    ASSUME IInv, NEW m \in Chats, Yes(m)
    PROVE  IInv'
<1>t. TypeOK
  BY DEF IInv
<1>1. /\ chat' \in [Chats -> Places]
      /\ consents' = consents + 1 /\ consents' \in 0..MaxMessages
      /\ UNCHANGED <<outcome, kind, step, task, report, lost>>
      /\ task.status # "none"
      /\ Confirming' \subseteq Confirming \cup {m}
  BY <1>t DEF Yes, TypeOK, Confirming
<1>2. TypeOK' /\ Rows' /\ PublishedWasVerified' /\ AskedIsUnpublished'
  BY <1>1 DEF IInv, TypeOK, Rows, PublishedWasVerified, AskedIsUnpublished, Clicks
<1>3. Consented'
  <2>1. IsFiniteSet(Confirming) /\ IsFiniteSet(Confirming \cup {m})
    BY Counts, FS_AddElement DEF Confirming
  <2>2. Cardinality(Confirming') <= Cardinality(Confirming \cup {m})
    BY <1>1, <2>1, FS_Subset
  <2>3. Cardinality(Confirming \cup {m}) <= Cardinality(Confirming) + 1
    <3>1. Cardinality(Confirming \cup {m}) =
             IF m \in Confirming THEN Cardinality(Confirming)
                                 ELSE Cardinality(Confirming) + 1
      BY <2>1, FS_AddElement
    <3>2. Cardinality(Confirming) \in Nat
      BY <2>1, FS_CardinalityType
    <3> QED
      BY <3>1, <3>2
  <2>4. IsFiniteSet(Confirming')
    BY <1>1, <2>1, FS_Subset
  <2>5. /\ Cardinality(Confirming) \in Nat /\ Cardinality(Confirming') \in Nat
        /\ Cardinality(Confirming \cup {m}) \in Nat
    BY <2>1, <2>4, FS_CardinalityType
  <2>6. Published' = Published /\ Cardinality(Published) \in Nat
    BY <1>1, Counts DEF Published
  <2> QED
    BY <1>1, <2>2, <2>3, <2>5, <2>6, <1>t DEF IInv, TypeOK, Consented
<1> QED
  BY <1>2, <1>3 DEF IInv

\* The steps that neither insert a command nor report one nor consent.
LEMMA OthersKeep ==
    ASSUME IInv,
           \/ Prepare \/ Expire \/ TimeOut \/ Crash \/ UNCHANGED vars
           \/ \E m \in Chats : \/ DispatchFails(m) \/ Publishing(m)
                               \/ No(m) \/ Withdraw(m)
    PROVE  IInv'
<1>t. TypeOK /\ Rows
  BY DEF IInv
<1>1. CASE Prepare \/ Expire
  <2>1. /\ UNCHANGED <<outcome, kind, step, report, chat, consents, lost>>
        /\ task' \in Task /\ task'.status # "none"
        /\ \/ task'.status = task.status
           \/ /\ task'.status = "WAITING_FOR_CONFIRMATION"
              /\ \A c \in Commands : outcome[c] = "none"
    BY <1>1, <1>t DEF Prepare, Expire, TypeOK, Task, Rows
  <2>2. /\ TypeOK' /\ Rows' /\ PublishedWasVerified' /\ AskedIsUnpublished'
    BY <2>1 DEF IInv, TypeOK, Rows, PublishedWasVerified, AskedIsUnpublished, Clicks
  <2>3. Consented'
    BY <2>1, ConsentedKept DEF Published, Confirming
  <2> QED
    BY <2>2, <2>3 DEF IInv
<1>2. CASE TimeOut
  <2>1. PICK S \in SUBSET Commands :
          /\ \A c \in S : outcome[c] = "open"
          /\ outcome' = [c \in Commands |-> IF c \in S THEN "TIMEOUT" ELSE outcome[c]]
    BY <1>2 DEF TimeOut, Browser!TimeOut
  <2>2. UNCHANGED <<kind, step, task, report, chat, consents, lost>>
    BY <1>2 DEF TimeOut
  <2>3. /\ outcome' \in [Commands -> Browser!Outcomes]
        /\ \A c \in Commands : outcome'[c] = "none" <=> outcome[c] = "none"
        /\ \A c \in Commands : outcome'[c] = "VERIFIED" <=> outcome[c] = "VERIFIED"
    BY <2>1, <1>t DEF TypeOK
  <2>4. /\ TypeOK' /\ Rows' /\ PublishedWasVerified' /\ AskedIsUnpublished'
    BY <2>2, <2>3 DEF IInv, TypeOK, Rows, PublishedWasVerified, AskedIsUnpublished, Clicks
  <2>5. Consented'
    BY <2>2, ConsentedKept DEF Published, Confirming
  <2> QED
    BY <2>4, <2>5 DEF IInv
<1>3. CASE Crash \/ UNCHANGED vars
  <2>1. /\ UNCHANGED <<outcome, kind, step, task, consents>>
        /\ chat' \in [Chats -> Places]
        /\ \A m \in Chats : chat'[m] \in {"idle", chat[m]}
        /\ report' \in {report, NoReport} /\ report' \in Report
        /\ lost \subseteq lost' /\ lost' \subseteq Commands
        /\ \A c \in Commands : c = report.of /\ kind[c] = "publish"
                                => c = report'.of \/ c \in lost'
    <3>1. CASE UNCHANGED vars
      BY <3>1, <1>t DEF vars, TypeOK
    <3>2. CASE Crash
      <4>1. /\ UNCHANGED <<outcome, kind, step, task, consents>>
            /\ report' = NoReport
            /\ lost' = lost \cup {c \in Commands : c = report.of /\ kind[c] = "publish"}
            /\ chat' = [m \in Chats |-> "idle"]
        BY <3>2 DEF Crash
      <4>2. NoReport \in Report
        BY DEF NoReport, Report
      <4>3. lost' \subseteq Commands
        BY <4>1, <1>t DEF TypeOK
      <4> QED
        BY <4>1, <4>2, <4>3
    <3> QED
      BY <1>3, <3>1, <3>2
  <2>2. /\ TypeOK' /\ Rows' /\ PublishedWasVerified' /\ AskedIsUnpublished'
    BY <2>1 DEF IInv, TypeOK, Rows, PublishedWasVerified, AskedIsUnpublished, Clicks,
                NoReport
  <2>3. Consented'
    BY <2>1, ConsentedKept DEF Published, Confirming
  <2> QED
    BY <2>2, <2>3 DEF IInv
<1>4. ASSUME NEW m \in Chats,
             DispatchFails(m) \/ Publishing(m) \/ No(m) \/ Withdraw(m)
      PROVE  IInv'
  <2>1. /\ UNCHANGED <<outcome, kind, step, report, consents, lost>>
        /\ task' \in Task
        /\ task'.status \in {task.status, "PUBLISHING", "CANCELLED", "EXPIRED"}
        /\ task.status # "none"
    BY <1>4, <1>t DEF DispatchFails, Publishing, No, Withdraw, TypeOK, Task, Rows
  <2>2. /\ chat' \in [Chats -> Places]
        /\ Confirming' \subseteq Confirming
    BY <1>4, <1>t DEF DispatchFails, Publishing, No, Withdraw, TypeOK, Confirming
  <2>3. /\ TypeOK' /\ Rows' /\ PublishedWasVerified' /\ AskedIsUnpublished'
    BY <2>1, <2>2 DEF IInv, TypeOK, Rows, PublishedWasVerified, AskedIsUnpublished, Clicks
  <2>4. Consented'
    BY <2>1, <2>2, ConsentedKept DEF Published
  <2> QED
    BY <2>3, <2>4 DEF IInv
<1> QED
  BY <1>1, <1>2, <1>3, <1>4

-----------------------------------------------------------------------------
\* The invariant that the other results rest on.
THEOREM PublishingInvariance == Spec => []IInv
<1>1. Init => IInv
  <2> SUFFICES ASSUME Init
               PROVE  IInv
    OBVIOUS
  <2>1. TypeOK /\ Rows /\ PublishedWasVerified /\ AskedIsUnpublished
    BY DEF Init, TypeOK, Rows, PublishedWasVerified, AskedIsUnpublished, Task,
           Report, NoReport
  <2>2. Published = {} /\ Confirming = {} /\ consents = 0
    BY DEF Init, Published, Confirming
  <2> QED
    BY <2>1, <2>2, FS_EmptySet DEF IInv, Consented
<1>2. IInv /\ [Next]_vars => IInv'
  <2> SUFFICES ASSUME IInv, [Next]_vars
               PROVE  IInv'
    OBVIOUS
  <2>1. CASE Prepare \/ Expire \/ TimeOut \/ Crash \/ UNCHANGED vars
    BY <2>1, OthersKeep
  <2>2. CASE Browse
    BY <2>2, BrowseKeeps
  <2>3. CASE Stop \/ Stage \/ Continue \/ ContinueFails \/ Conclude
    BY <2>3, HandleKeeps, ContinueKeeps, ConcludeKeeps
  <2>4. ASSUME NEW c \in Commands, NEW verdict \in Browser!Verdicts,
               Complete(c, verdict)
        PROVE  IInv'
    BY <2>4, CompleteKeeps
  <2>5. ASSUME NEW m \in Chats,
               \/ Yes(m) \/ Dispatch(m) \/ DispatchFails(m)
               \/ Publishing(m) \/ No(m) \/ Withdraw(m)
        PROVE  IInv'
    BY <2>5, YesKeeps, DispatchKeeps, OthersKeep
  <2> QED
    BY <2>1, <2>2, <2>3, <2>4, <2>5 DEF Next
<1> QED
  BY <1>1, <1>2, PTL DEF Spec

\* Every column and every request has its type: no chain of browser actions is
\* longer than settings.browser_max_steps.
THEOREM PublishingTypes == Spec => []TypeOK
<1>1. IInv => TypeOK
  BY DEF IInv
<1> QED
  BY <1>1, PublishingInvariance, PTL

\* Each click that publishes was asked for by a yes of its own.
THEOREM ClicksNeedConsent == Spec => []PublishNeedsConsent
<1>1. IInv => PublishNeedsConsent
  <2> SUFFICES ASSUME IInv
               PROVE  Cardinality(Published) <= consents
    BY DEF PublishNeedsConsent, Published
  <2>1. Cardinality(Published) \in Nat /\ Cardinality(Confirming) \in Nat
    BY Counts DEF Published, Confirming
  <2> QED
    BY <2>1 DEF IInv, TypeOK, Consented
<1> QED
  BY <1>1, PublishingInvariance, PTL

\* A task that is PUBLISHED has a click that was verified.
THEOREM PublishedTasksWereVerified == Spec => []PublishedWasVerified
<1>1. IInv => PublishedWasVerified
  BY DEF IInv
<1> QED
  BY <1>1, PublishingInvariance, PTL

\* A task that asks for confirmation has not been published, unless a crash cut
\* off the report.
THEOREM AskedTasksAreUnpublished == Spec => []AskedIsUnpublished
<1>1. IInv => AskedIsUnpublished
  BY DEF IInv
<1> QED
  BY <1>1, PublishingInvariance, PTL
=============================================================================
