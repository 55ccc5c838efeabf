--------------------------- MODULE SocialPublishing ---------------------------
(***************************************************************************)
(* A post that is published through the browser of the user's device: the  *)
(* row of social_publish_tasks, app/services/social_publishing_service.py, *)
(* the commands that prepare and publish it, which                         *)
(* browser_automation_coordinator.py continues, and the user's messages,   *)
(* orchestrator.py.  Commands are as in CommandOutcomes, which             *)
(* DeviceGateway implements: a device may report any of them repeatedly.   *)
(*                                                                         *)
(* Reports are handled one after the other, by the event loop; the user's  *)
(* requests have threads of their own.  Each commit is a step.             *)
(***************************************************************************)
EXTENDS Naturals, FiniteSets

CONSTANTS
    Chats,          \* requests of the user that are served at the same time
    Commands,       \* commands of this task in the order of created_at
    MaxSteps,       \* settings.browser_max_steps
    MaxMessages     \* a bound: how often the user says yes

ASSUME PublishingAssumption ==
    /\ Commands \subseteq Nat \ {0}
    /\ IsFiniteSet(Commands)
    /\ IsFiniteSet(Chats)
    /\ MaxSteps \in Nat \ {0}
    /\ MaxMessages \in Nat

VARIABLES
    outcome,    \* the commands, as in CommandOutcomes
    kind,       \* click, another step, or the click that publishes
    step,       \* metadata.browser_step
    task,       \* the row of social_publish_tasks
    report,     \* the report that is handled: its command, and how far it is
    chat,       \* where each request of the user is
    consents,   \* history: how often the user said yes
    lost        \* history: clicks that publish with a report that a crash cut off

browser == <<outcome, kind, step>>
vars == <<browser, task, report, chat, consents, lost>>

Browser == INSTANCE CommandOutcomes

Kinds == {"none", "click", "look", "publish"}

\* The commands whose capability is browser.click.
Clicks == {c \in Commands : kind[c] \in {"click", "publish"}}

Task == [status : {"none", "WAITING_FOR_CONFIRMATION", "PUBLISHING", "PUBLISHED",
                   "FAILED", "CANCELLED", "EXPIRED"},
         staged : BOOLEAN,      \* the draft has a pending_action
         expired : BOOLEAN]     \* expires_at is past

Report == [at : {"none", "continuing", "concluding"}, of : Commands \cup {0}]

NoReport == [at |-> "none", of |-> 0]

Places == {"idle", "confirming", "dispatched", "cancelling", "expiring"}

Init ==
    /\ outcome = [c \in Commands |-> "none"]
    /\ kind = [c \in Commands |-> "none"]
    /\ step = [c \in Commands |-> 0]
    /\ task = [status |-> "none", staged |-> FALSE, expired |-> FALSE]
    /\ report = NoReport
    /\ chat = [m \in Chats |-> "idle"]
    /\ consents = 0
    /\ lost = {}

\* A command that DeviceGatewayService.submit inserts after table.
Insert(d, what, number) ==
    /\ Browser!IsNext(d, outcome)
    /\ outcome' = Browser!Submitted(d, outcome)
    /\ kind' = [kind EXCEPT ![d] = what]
    /\ step' = [step EXCEPT ![d] = number]

-----------------------------------------------------------------------------
(* The task and the commands that prepare it.                              *)

\* prepare
Prepare ==
    /\ task.status = "none"
    /\ task' = [task EXCEPT !.status = "WAITING_FOR_CONFIRMATION"]
    /\ UNCHANGED <<browser, report, chat, consents, lost>>

\* External: the desktop client starts to drive the browser for this task.
Browse ==
    /\ task.status # "none"
    /\ \E d \in Commands, what \in {"click", "look"} : Insert(d, what, 1)
    /\ UNCHANGED <<task, report, chat, consents, lost>>

TimeOut ==
    /\ Browser!TimeOut
    /\ UNCHANGED <<kind, step, task, report, chat, consents, lost>>

Expire ==
    /\ task.status # "none"
    /\ ~task.expired
    /\ task' = [task EXCEPT !.expired = TRUE]
    /\ UNCHANGED <<browser, report, chat, consents, lost>>

-----------------------------------------------------------------------------
(* A report: DeviceGatewayService.complete, then the coordinator's handle, *)
(* then SocialPublishingService.complete.                                  *)

Complete(c, verdict) ==
    /\ report = NoReport
    /\ Browser!Report(c, verdict)
    /\ report' = [at |-> "continuing", of |-> c]
    /\ UNCHANGED <<kind, step, task, chat, consents, lost>>

\* Defect: a step beyond the last.
GoesOnOnce(c) ==
    /\ kind[c] # "publish"
    /\ outcome[c] \notin {"FAILED", "TIMEOUT"}
    /\ step[c] <= MaxSteps

\* Whether handle asks the model for another action.  The click that publishes
\* has no browser_goal.
GoesOn(c) ==
    /\ kind[c] # "publish"
    /\ outcome[c] \notin {"FAILED", "TIMEOUT"}
    /\ step[c] < MaxSteps

\* Defect: protected actions are not held back.
ProposedAny == {"click", "look", "publish"}

\* What handle may submit: an action that the model calls protected is not.
Proposed == {"click", "look"}

\* handle ends there: a goal that is reached, or nothing usable of the model.
Stop ==
    /\ report.at = "continuing"
    /\ report' = [report EXCEPT !.at = "concluding"]
    /\ UNCHANGED <<browser, task, chat, consents, lost>>

\* The model proposes the click that publishes: stage_publish_action.
Stage ==
    /\ report.at = "continuing"
    /\ GoesOn(report.of)
    /\ task.status = "WAITING_FOR_CONFIRMATION"
    /\ task' = [task EXCEPT !.staged = TRUE]
    /\ report' = [report EXCEPT !.at = "concluding"]
    /\ UNCHANGED <<browser, chat, consents, lost>>

\* The model proposes another step.
Continue ==
    /\ report.at = "continuing"
    /\ GoesOn(report.of)
    /\ \E d \in Commands, what \in Proposed : Insert(d, what, step[report.of] + 1)
    /\ report' = [report EXCEPT !.at = "concluding"]
    /\ UNCHANGED <<task, chat, consents, lost>>

\* submit raises, and SocialPublishingService.complete is not reached.
ContinueFails ==
    /\ report.at = "continuing"
    /\ GoesOn(report.of)
    /\ report' = NoReport
    /\ UNCHANGED <<browser, task, chat, consents, lost>>

\* Defect: a click that completed counts as verified.
ConcludedUnverified(c) ==
    IF c \in Clicks
    THEN [task EXCEPT !.status =
             IF outcome[c] \in {"VERIFIED", "COMPLETED"} THEN "PUBLISHED" ELSE "FAILED"]
    ELSE task

\* Defect: only a task that is PUBLISHING is concluded.
ConcludedPublishing(c) ==
    IF c \in Clicks /\ task.status = "PUBLISHING"
    THEN [task EXCEPT !.status =
             IF outcome[c] = "VERIFIED" THEN "PUBLISHED" ELSE "FAILED"]
    ELSE task

\* What SocialPublishingService.complete makes of the task
Concluded(c) ==
    IF c \in Clicks
    THEN [task EXCEPT !.status =
             IF outcome[c] = "VERIFIED" THEN "PUBLISHED" ELSE "FAILED"]
    ELSE task

Conclude ==
    /\ report.at = "concluding"
    /\ task' = Concluded(report.of)
    /\ report' = NoReport
    /\ UNCHANGED <<browser, chat, consents, lost>>

-----------------------------------------------------------------------------
(* The user's answer: _maybe_social_publish and confirm.                   *)

\* confirm finds that the newest click of the task was verified.
AlreadyClicked ==
    \E c \in Clicks :
        /\ outcome[c] = "VERIFIED"
        /\ \A d \in Clicks : d <= c

\* The user says yes: what confirm reads before it dispatches.
Yes(m) ==
    /\ chat[m] = "idle"
    /\ consents < MaxMessages
    /\ task.status = "WAITING_FOR_CONFIRMATION"
    /\ consents' = consents + 1
    /\ \/ /\ task.expired
          /\ chat' = [chat EXCEPT ![m] = "expiring"]
       \/ /\ ~task.expired
          /\ chat' = IF task.staged /\ ~AlreadyClicked
                     THEN [chat EXCEPT ![m] = "confirming"] ELSE chat
    /\ UNCHANGED <<browser, task, report, lost>>

\* browser.dispatch submits the click.
Dispatch(m) ==
    /\ chat[m] = "confirming"
    /\ \E d \in Commands : Insert(d, "publish", 1)
    /\ chat' = [chat EXCEPT ![m] = "dispatched"]
    /\ UNCHANGED <<task, report, consents, lost>>

\* The device is not online.
DispatchFails(m) ==
    /\ chat[m] = "confirming"
    /\ chat' = [chat EXCEPT ![m] = "idle"]
    /\ UNCHANGED <<browser, task, report, consents, lost>>

\* The commit of the submit expired the row, so the assignment is written
\* whatever the row has become.
Publishing(m) ==
    /\ chat[m] = "dispatched"
    /\ task' = [task EXCEPT !.status = "PUBLISHING"]
    /\ chat' = [chat EXCEPT ![m] = "idle"]
    /\ UNCHANGED <<browser, report, consents, lost>>

\* The user says no to the row that was found.
No(m) ==
    /\ chat[m] = "idle"
    /\ task.status = "WAITING_FOR_CONFIRMATION"
    /\ chat' = [chat EXCEPT ![m] = "cancelling"]
    /\ UNCHANGED <<browser, task, report, consents, lost>>

\* The commit of a status that ends the task, from the row as it was read.
Withdraw(m) ==
    /\ \/ /\ chat[m] = "cancelling"
          /\ task' = [task EXCEPT !.status = "CANCELLED"]
       \/ /\ chat[m] = "expiring"
          /\ task' = [task EXCEPT !.status = "EXPIRED"]
    /\ chat' = [chat EXCEPT ![m] = "idle"]
    /\ UNCHANGED <<browser, report, consents, lost>>

\* The process ends, with its requests and the report that it handled.
Crash ==
    /\ report # NoReport \/ \E m \in Chats : chat[m] # "idle"
    /\ report' = NoReport
    /\ lost' = lost \cup {c \in Commands : c = report.of /\ kind[c] = "publish"}
    /\ chat' = [m \in Chats |-> "idle"]
    /\ UNCHANGED <<browser, task, consents>>

Next ==
    \/ Prepare \/ Browse \/ TimeOut \/ Expire \/ Crash
    \/ \E c \in Commands, verdict \in Browser!Verdicts : Complete(c, verdict)
    \/ Stop \/ Stage \/ Continue \/ ContinueFails \/ Conclude
    \/ \E m \in Chats :
          \/ Yes(m) \/ Dispatch(m) \/ DispatchFails(m) \/ Publishing(m)
          \/ No(m) \/ Withdraw(m)

Spec == Init /\ [][Next]_vars

-----------------------------------------------------------------------------
TypeOK ==
    /\ outcome \in [Commands -> Browser!Outcomes]
    /\ kind \in [Commands -> Kinds]
    /\ step \in [Commands -> 0..MaxSteps]
    /\ task \in Task
    /\ report \in Report
    /\ chat \in [Chats -> Places]
    /\ consents \in 0..MaxMessages
    /\ lost \subseteq Commands

\* The coordinator never publishes by itself: each click that publishes was
\* asked for by a yes of its own, over crashes and repeated reports.
PublishNeedsConsent ==
    Cardinality({c \in Commands : kind[c] = "publish"}) <= consents

\* PUBLISHED is never shown of a task of which no click was verified.
PublishedWasVerified ==
    task.status = "PUBLISHED" => \E c \in Clicks : outcome[c] = "VERIFIED"

\* A post that was published does not ask for confirmation again, also when
\* the request that confirmed it died after it had dispatched the click.  Only
\* a crash between the two commits of its report leaves it asking.
AskedIsUnpublished ==
    task.status = "WAITING_FOR_CONFIRMATION" =>
        \A c \in Commands :
            kind[c] = "publish" /\ outcome[c] = "VERIFIED"
                => c = report.of \/ c \in lost

\* Violated.  orchestrator.py:3372: "I will report success only after the
\* website verifies the post."  A verified click that prepares it does as well.
PublishedIsThePost ==
    task.status = "PUBLISHED" =>
        \E c \in Commands : kind[c] = "publish" /\ outcome[c] = "VERIFIED"

\* Violated.  confirm calls its answer to a second yes "duplicate_prevented".
\* Two that come together both find the task waiting.
PostedOnce ==
    \A c, d \in Commands :
        kind[c] = "publish" /\ kind[d] = "publish"
            /\ outcome[c] = "VERIFIED" /\ outcome[d] = "VERIFIED" => c = d
=============================================================================
