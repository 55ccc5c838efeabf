------------------------------- MODULE Billing -------------------------------
(***************************************************************************)
(* One provider subscription of a user, app/services/billing_service.py:   *)
(* the row in subscriptions, the events table that makes a webhook         *)
(* idempotent, and the requests that change the row, each in a transaction *)
(* of its own: create-subscription, verify-payment, cancel, resume and the *)
(* webhooks of the provider, which repeats one until it is answered 200.   *)
(*                                                                         *)
(* No request locks the row.  A session writes at its commit the columns   *)
(* whose value differs from the one that it has loaded, and no others.     *)
(***************************************************************************)
EXTENDS Naturals, FiniteSets

CONSTANTS
    Requests,       \* requests and webhook deliveries in flight, at most
    NoRow,          \* the row is not in the table, or nothing is read yet
    Statuses,       \* what the provider says of the subscription
    Created,        \*   and what it says of a new one
    MaxCycle,       \* a bound: renewals by the provider
    MaxSent,        \* a bound: webhooks that wait for their 200
    MaxManaged,     \* a bound: cancel and resume requests
    MaxAborts       \* a bound: requests that die, provider calls that fail

VARIABLES
    remote,         \* the provider's subscription
    sent,           \* the provider's webhooks that were not answered 200
    row,            \* subscriptions: status, current period, cancel_at_period_end
    events,         \* billing_events: the committed provider_event_ids
    inserted,       \* the provider_event_id that a request has flushed
    work,           \* requests: what each does, how far it is, what it has read
    applied,        \* history: how often an event's transaction has committed
    aborts,         \* faults so far
    managed         \* cancel and resume requests so far

vars == <<remote, sent, row, events, inserted, work, applied, aborts, managed>>

Row == [status : Statuses, period : 0..MaxCycle, ending : BOOLEAN]
Payload == [status : Statuses, period : 0..MaxCycle, told : BOOLEAN]

Keys == Statuses \cup {"charged"}
NoKey == "no key"

ASSUME BillingAssumption ==
    /\ Created \in Statuses
    /\ NoKey \notin Keys
    /\ NoRow \notin Row \cup Payload
    /\ MaxCycle \in Nat
    /\ MaxSent \in Nat \ {0}
    /\ MaxManaged \in Nat
    /\ MaxAborts \in Nat

Idle == [op |-> "none", at |-> "idle", payload |-> NoRow, view |-> NoRow, key |-> NoKey]

(***************************************************************************)
(* The provider.  What it answers and what a webhook carries is its state  *)
(* at that moment; has_scheduled_changes may or may not tell that the      *)
(* subscription ends with its period.                                      *)
(***************************************************************************)

PayloadsOf(r) ==
    {[status |-> r.status, period |-> r.period, told |-> t] : t \in {FALSE, r.ending}}

(* f"{event_type}:{entity_id}": the subscription's id is the same in every *)
(* event of it, so the events of a type share a key.                       *)
EventId(type) == type

Emits(type, r) ==
    /\ Cardinality(sent) < MaxSent
    /\ \E p \in PayloadsOf(r) :
          sent' = sent \cup {[key |-> EventId(type), payload |-> p]}

RemoteChanges(status) ==
    /\ remote.exists
    /\ status \notin {remote.status, Created}
    /\ remote' = [remote EXCEPT !.status = status]
    /\ Emits(status, remote')
    /\ UNCHANGED <<row, events, inserted, work, applied, aborts, managed>>

RemoteRenews ==
    /\ remote.exists
    /\ remote.period < MaxCycle
    /\ ~ remote.ending
    /\ remote' = [remote EXCEPT !.period = @ + 1]
    /\ Emits("charged", remote')
    /\ UNCHANGED <<row, events, inserted, work, applied, aborts, managed>>

(***************************************************************************)
(* What a transaction does to the row.                                     *)
(***************************************************************************)

(* status, current_period_* and cancel_at_period_end of the loaded row,    *)
(* after _apply_subscription_payload.                                      *)
OnlyTold(view, payload) ==
    [status |-> payload.status, period |-> payload.period, ending |-> payload.told]

ApplySubscriptionPayload(view, payload) ==
    [status |-> payload.status,
     period |-> payload.period,
     ending |-> payload.told \/ view.ending]

(* The commit of a session that has loaded view and assigned new to it.    *)
WholeRow(view, new) == new

Written(view, new) ==
    [c \in DOMAIN new |-> IF new[c] # view[c] THEN new[c] ELSE row[c]]

Assigned(w) ==
    LET applies == ApplySubscriptionPayload(w.view, w.payload)
    IN  CASE w.op = "cancel" -> [applies EXCEPT !.ending = TRUE]
          [] w.op = "resume" -> [applies EXCEPT !.ending = FALSE]
          [] OTHER -> applies

(***************************************************************************)
(* create-subscription: the provider's first, then the row.                *)
(***************************************************************************)

CreateRemote(q) ==
    /\ work[q] = Idle
    /\ ~ remote.exists
    /\ remote' = [remote EXCEPT !.exists = TRUE]
    /\ work' = [work EXCEPT ![q] = [Idle EXCEPT !.op = "create", !.at = "commit"]]
    /\ UNCHANGED <<sent, row, events, inserted, applied, aborts, managed>>

CreateCommit(q) ==
    /\ work[q].op = "create"
    /\ row' = [status |-> Created, period |-> 0, ending |-> FALSE]
    /\ work' = [work EXCEPT ![q] = Idle]
    /\ UNCHANGED <<remote, sent, events, inserted, applied, aborts, managed>>

(***************************************************************************)
(* verify-payment reads the provider's subscription, then the row, which   *)
(* it raises ValueError without.  cancel and resume read the row first.    *)
(***************************************************************************)

VerifyFetch(q) ==
    /\ work[q] = Idle
    /\ remote.exists
    /\ \E p \in PayloadsOf(remote) :
          work' = [work EXCEPT ![q] =
                      [Idle EXCEPT !.op = "verify", !.at = "load", !.payload = p]]
    /\ UNCHANGED <<remote, sent, row, events, inserted, applied, aborts, managed>>

VerifyLoad(q) ==
    /\ work[q].op = "verify"
    /\ work[q].at = "load"
    /\ work' = [work EXCEPT ![q] = IF row = NoRow THEN Idle
                                   ELSE [@ EXCEPT !.at = "commit", !.view = row]]
    /\ UNCHANGED <<remote, sent, row, events, inserted, applied, aborts, managed>>

ManageLoad(q) ==
    /\ work[q] = Idle
    /\ row # NoRow
    /\ managed < MaxManaged
    /\ managed' = managed + 1
    /\ \E op \in {"cancel", "resume"} :
          work' = [work EXCEPT ![q] =
                      [Idle EXCEPT !.op = op, !.at = "call", !.view = row]]
    /\ UNCHANGED <<remote, sent, row, events, inserted, applied, aborts>>

(* BillingProviderError without a call's success: Dies. *)
ManageCall(q) ==
    /\ work[q].at = "call"
    /\ remote' = [remote EXCEPT !.ending = work[q].op = "cancel"]
    /\ \E p \in PayloadsOf(remote') :
          work' = [work EXCEPT ![q] = [@ EXCEPT !.at = "commit", !.payload = p]]
    /\ UNCHANGED <<sent, row, events, inserted, applied, aborts, managed>>

RequestCommit(q) ==
    /\ work[q].op \in {"verify", "cancel", "resume"}
    /\ work[q].at = "commit"
    /\ row' = Written(work[q].view, Assigned(work[q]))
    /\ work' = [work EXCEPT ![q] = Idle]
    /\ UNCHANGED <<remote, sent, events, inserted, applied, aborts, managed>>

(***************************************************************************)
(* process_webhook.  The look-up sees what is committed; the flush of the  *)
(* insertion waits for a transaction that has flushed the same             *)
(* provider_event_id and fails once that has committed.  A webhook whose   *)
(* key is there is answered 200 without effect; one that fails is repeated. *)
(***************************************************************************)

WebhookLook(q) ==
    /\ work[q] = Idle
    /\ \E e \in sent :
          IF e.key \in events
          THEN sent' = sent \ {e} /\ UNCHANGED work
          ELSE /\ work' = [work EXCEPT ![q] =
                    [Idle EXCEPT !.op = "webhook", !.at = "flush",
                                 !.payload = e.payload, !.key = e.key]]
               /\ UNCHANGED sent
    /\ UNCHANGED <<remote, row, events, inserted, applied, aborts, managed>>

(* uq_billing_provider_event *)
Unguarded(key) == TRUE

MayInsert(key) == key \notin events /\ \A q \in Requests : inserted[q] # key

(* The flush, and the load of the row that _apply_webhook_payload changes. *)
WebhookFlush(q) ==
    /\ work[q].at = "flush"
    /\ MayInsert(work[q].key)
    /\ inserted' = [inserted EXCEPT ![q] = work[q].key]
    /\ work' = [work EXCEPT ![q] = [@ EXCEPT !.at = "commit", !.view = row]]
    /\ UNCHANGED <<remote, sent, row, events, applied, aborts, managed>>

WebhookRefused(q) ==
    /\ work[q].at = "flush"
    /\ work[q].key \in events
    /\ work' = [work EXCEPT ![q] = Idle]
    /\ UNCHANGED <<remote, sent, row, events, inserted, applied, aborts, managed>>

(* Without a row to apply the payload to, the event is processed as well. *)
WebhookCommit(q) ==
    LET w == work[q]
    IN  /\ w.op = "webhook"
        /\ w.at = "commit"
        /\ row' = IF w.view = NoRow THEN row ELSE Written(w.view, Assigned(w))
        /\ events' = events \cup {w.key}
        /\ applied' = [applied EXCEPT ![w.key] = @ + 1]
        /\ inserted' = [inserted EXCEPT ![q] = NoKey]
        /\ sent' = sent \ {[key |-> w.key, payload |-> w.payload]}
        /\ work' = [work EXCEPT ![q] = Idle]
        /\ UNCHANGED <<remote, aborts, managed>>

(* A request that dies, or whose call of the provider fails, rolls back.   *)
Dies(q) ==
    /\ work[q] # Idle
    /\ aborts < MaxAborts
    /\ aborts' = aborts + 1
    /\ work' = [work EXCEPT ![q] = Idle]
    /\ inserted' = [inserted EXCEPT ![q] = NoKey]
    /\ UNCHANGED <<remote, sent, row, events, applied, managed>>

(* The 200 of a webhook is lost: the provider sends the webhook again.     *)
Redelivered ==
    /\ aborts < MaxAborts
    /\ aborts' = aborts + 1
    /\ \E key \in events : Emits(key, remote)
    /\ UNCHANGED <<remote, row, events, inserted, work, applied, managed>>

-----------------------------------------------------------------------------

Init ==
    /\ remote = [exists |-> FALSE, status |-> Created, period |-> 0, ending |-> FALSE]
    /\ sent = {}
    /\ row = NoRow
    /\ events = {}
    /\ inserted = [q \in Requests |-> NoKey]
    /\ work = [q \in Requests |-> Idle]
    /\ applied = [k \in Keys |-> 0]
    /\ aborts = 0
    /\ managed = 0

Next ==
    \/ \E status \in Statuses : RemoteChanges(status)
    \/ RemoteRenews
    \/ Redelivered
    \/ \E q \in Requests :
          \/ CreateRemote(q) \/ CreateCommit(q)
          \/ VerifyFetch(q) \/ VerifyLoad(q)
          \/ ManageLoad(q) \/ ManageCall(q)
          \/ RequestCommit(q)
          \/ WebhookLook(q) \/ WebhookFlush(q) \/ WebhookRefused(q) \/ WebhookCommit(q)
          \/ Dies(q)

Spec == Init /\ [][Next]_vars

-----------------------------------------------------------------------------

(* However a webhook is repeated, and whichever of its deliveries overlap, *)
(* the transaction that applies its payload commits once                   *)
(* (process_webhook, uq_billing_provider_event).                           *)
AppliedOnce == \A k \in Keys : applied[k] <= 1

TakesBack ==
    row # NoRow /\ row.ending /\ ~ row'.ending

Resumes(q) ==
    work[q].op = "resume" /\ work[q].at = "commit" /\ work'[q] = Idle

(* A cancellation that the user has asked for stays in the row until a     *)
(* resume: no webhook and no verification that has read the row or the     *)
(* provider before the cancellation takes it back when it commits after.   *)
CancelSticks == [][TakesBack => \E q \in Requests : Resumes(q)]_vars
=============================================================================
