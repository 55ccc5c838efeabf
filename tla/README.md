# Verification of the Ceaser backend

TLA+ models of the parts of the backend in `src/app` whose correctness depends
on the order in which processes, sessions, devices and payment providers act,
TLC runs that check them on small instances, and TLAPS proofs for every size.
Paths are relative to `src/`.

## The system

A FastAPI application (`app/main.py`, `app/api`) serves chat, workflows,
drafts, integrations, billing and desktop clients. Beside it run two kinds of
worker processes: cloud workers (`app/services/cloud_runtime/worker.py`) and
automation workers (`app/services/automations/automation_worker.py`). All of
them share one PostgreSQL database through SQLAlchemy sessions
(`app/core/database/session.py`).

What every model here takes from that base:

- `SessionLocal` has `autoflush=False` and the default isolation level READ
  COMMITTED. A query sees what others committed before it; a pending change of
  the own session is invisible to its queries until a flush.
- No mapped class has a version column. A commit writes an UPDATE that names the
  columns whose value differs from the one loaded, by primary key. So two
  sessions that loaded the same row merge their columns, and the later one wins
  each column that both changed (`Flush` in `CloudQueue`).
- A commit expires the session's objects: the next access loads the row again.
  `refresh` loads it at once and discards what was pending.

### Inventory

Each component: its state; its operations; how it interacts; what is hard; what
makes it correct.

1. **Cloud runtime** (`app/services/cloud_runtime`). Rows of `cloud_jobs`
   (status, owner, lease, attempts, confirmation), artifacts, checkpoints,
   events. create, cancel, resume by requests; release_stale, claim_next,
   heartbeat, acknowledge, retry by workers. Hard: leases that expire under a
   live worker, stale copies of a row, crashes. Correct if attempts are exclusive
   and counted, a completed job has its result, a failed one used its attempts,
   a cancelled one is left alone, and every job settles.
2. **Bolt cloud runner** (`app/services/sandbox/bolt_runner.py`). A sandbox,
   durable milestones, a verification and a bounded repair loop under a deadline,
   cancellation polled while commands run. Hard: failures after the result was
   acknowledged, heartbeats in the name of another owner.
3. **Device gateway** (`app/services/device_gateway*.py`). Sessions of devices and
   commands (QUEUED, DELIVERED, WAITING_FOR_DEVICE, COMPLETED, FAILED, TIMEOUT,
   CANCELLED). submit, connect, pending, complete, cancel. Hard: re-delivery on
   reconnect, late and duplicated results, expiry. Correct if a command's outcome
   is final and its effects happen once.
4. **Bolt repair, browser coordinator, social publishing**
   (`app/services/bolt_repair_service.py`, `browser_automation_coordinator.py`,
   `social_publishing_service.py`). React to command results by dispatching
   further commands. Hard: the same result twice, a failure after a success.
5. **Credits** (`app/services/credit_service.py`). Wallet, reservations, ledger,
   purchases. reserve, settle, release, renew, purchase, refund. Hard: concurrent
   sessions on one wallet, replays of payment events. Correct if no credit is
   created or lost and the ledger explains the balance.
6. **Compute wallet** (`app/services/compute_wallet_service.py`). A month's
   allowance with reservations. Hard: settle and release racing, the turn of a
   month.
7. **Billing** (`app/services/billing_service.py`, `commercial_service.py`).
   Subscriptions, orders, webhook events, usage counters. Hard: duplicated and
   reordered webhooks, a cancellation written over by who read before it, lost
   updates of counters. Correct if a webhook is applied once and a cancellation
   stays.
8. **Automations** (`app/services/automations`). Rows with next_run_at; scheduler,
   executor, worker. Hard: two workers finding the same due row, a failure
   between running and recording, stale rows written minutes later. Correct if what
   is active keeps a schedule, scans exclude each other, and what is due is run.
9. **Bolt coding graph** (`app/agents/bolt/langgraph`). A graph of nodes with a
   repair loop. Only tests run it: the orchestrator takes the other path.
10. **Chat streaming** (`app/api/ceaser/routes.py`, `orchestrator.py`,
    `app/core/database/execution.py`). A coroutine per request with its database
    work in threads: slot, reservation, prompt, tokens, checkpoints, final answer,
    cleanup. Hard: cancellation at every await, a retry with the same id, failures
    between two commits. Correct if a turn is inserted once and kept, and the bill
    follows the answer.
11. **Model router and response pipeline** (`app/intelligence/ai/model_router`,
    `ai/sync.py`, `orchestrator/response_pipeline.py`). Choice and fallback of
    models, their health; the continuation of answers that were cut. Hard: failing
    providers, an end that is read from the wrong call. Correct if one model speaks
    at a time, failure means that nobody is left, and what is missing is told.
12. **Rate limiter** (`app/core/rate_limiter.py`). Windows and concurrency per key
    with eviction. Hard: evicting a key that is in use.
13. **Workflows** (`app/services/workflows`). Steps with dependencies and retries.
14. **Placement** (`app/execution/placement/engine.py`). A pure decision.
15. **Desktop sign-in** (`app/services/desktop_auth_service.py`). One-time codes and
    refresh tokens.
16. Everything else: text generation, retrieval, integrations, voice, rows owned
    by one user. `PROJECT.json` lists each with the reason it is left out.

### Plan

In order of what a failure would cost:

| # | modules | abstract specification | to prove |
|---|---------|------------------------|----------|
| 1 | `CloudQueue`, `CloudRuntime`, `CloudJobLifecycle` | the life cycle of a job | type, exclusive attempts, unique and backed results, earned failure, bounded tries, the life cycle (done) |
| 2 | `Credits` | - | balances, bound on what is held, credits held for open reservations, final charges, covered purchases (done); referrals next |
| 3 | `DeviceGateway` (with repair), `SocialPublishing`, `CommandOutcomes` | outcome decided once | final outcomes, waiting, earned repairs, consent, verified publication (done) |
| 4 | `ChatStream` on `ConcurrencyLimiter` | - | types, slots, one turn, durable turns, kept reservations, bills (done) |
| 5 | `Automations` | - | types, schedules, exclusion of scans (done) |
| 6 | `Generation` on `ModelRouter` | - | types, one voice, final failures, told pages, continued answers (done) |
| 7 | `Billing` | - | events applied once, lasting cancellations (done) |
| 8 | desktop sign-in, `ComputeWallet`, usage counters | - | left |
| 9 | the runner's repair loop, workflow steps, state merging | bounded repair, reference definitions | left |

The runs are kept to what can be repeated on every change: ten that pass and two
that show a defect. Every invariant, action property and refinement of the passing runs is
also a theorem, for every value of the constants that the modules' assumptions admit; one
of them (`AnswersContinueWhenCut`) has a hypothesis, given with it. What stays with TLC is
liveness (`JobSettles`, `QueuedIsServed`, `DueIsRun`), which the prover cannot handle, and
the properties that are violated. Eight further configurations show defects; they are
listed under "Further configurations".

## Cloud runtime

### Modules

`CloudQueue` has the operations of `queue.py` as operators from the row in the
table (`db`), the row as the session loaded it (`loaded`) and, where they differ,
the row as edited (`edited`) to the row that a commit leaves. `CloudRuntime` is the
system: workers, requests, the clock. A worker stands at one of `Locations`,
between two of its database operations:

    idle -Scan-> release -ReleaseStale-> claim -Claim-> claimed -Refresh-> admit
    agent:  admit -Plan-> planned -Refresh-> start -Start-> generating -Refresh->
            storing -StoreResult-> stored -LoadForAck-> acking -Ack-> idle
    build:  admit -Build-> building (-Poll-> beating -Beat-> building)*
            -Verified-> stored -LoadForAck-> acking -Ack-> closing -Destroyed-> idle
    errors: any -Raise-> failing -Refresh-> retrying -RetryJob-> idle

`unowned` is where a worker goes on after a heartbeat that was refused: its
RUNNING stays pending and is flushed later (`StoreUnowned`, `FailUnowned`).

| state | code |
|-------|------|
| `row` | `cloud_jobs`; times are kept as what the queries ask of them (`lease`, `ready`) |
| `results` | the artifacts that an attempt committed with its checkpoint |
| `pc`, `job`, `attempt` | the worker's place in `run_once`, its job, `attempt_count` as its claim set it |
| `view` | the identity map of its session |
| `request` | a cancel or resume request between its read and its commit |
| `crashes` | how often a process died (a bound) |

Row locks appear where they decide something: `claim_next` passes over rows that
others have locked (`Locked`). The event log is left out; a collision on its
sequence number ends a turn like `Crash`.

`CloudJobLifecycle` is the promise to a caller, without rows and sessions. A job is
submitted, started a bounded number of times, and settles; requests are opened (`Ask`) and
answered later (`Answer`), to whatever has become of the job. `CloudRuntime` maps to it:
`Standing` is where each job stands, `Tries` its `attempt_count`, `Asked` the open
requests. A job runs as long as anybody minds it (`Minds`: a worker has it, or is about to
release it on the copy it has scanned), whatever was written meanwhile; so a COMPLETED row
counts as running until its worker has returned, since a failure on the way may still
retry it, and a cancel of a job that runs shows only when the run ends. What is promised
then is that no session does anything to a job which it does not mind: once nobody does,
it is done, failed, cancelled or parked for good, but for the requests that are open.

### Runs

| run | instance | shows |
|-----|----------|-------|
| `cloud_races` | 2 workers, 1 request handler, 1 job of either kind, at most 4 claims, 2 attempts | the invariants, the bound on tries and the refinement of `CloudJobLifecycle` under every interleaving |
| `cloud_live` | 1 worker, 2 jobs, 1 crash, at most 3 claims, 2 attempts | liveness |
| `cloud_cancelled` | as `cloud_races`, at most 3 claims | a cancelled job can be claimed |

Bounds: the races are between sessions on one row, so one job and two workers with
one more session (the request) give every pair and a third party; four claims
are two more than the two attempts allowed, and one more than `MaxTries`.
With two jobs one worker suffices for what one turn does to several rows. No
crash is needed in `cloud_races`: a lease may expire at any time, which leaves the
table as a crash does, and the worker lives on as a zombie as well.

Fairness (`Fairness`): `serve_forever` keeps calling `run_once`, so a worker that
can act does (weak). A build ends because every command and the run have a
deadline; polling goes on between, so this is strong fairness of its end. Time
passes. Requests that have begun are finished by the server. Nobody has to make a
request and no worker has to survive. `JobSettles` excepts a row left PLANNING by
a dead worker (`Abandoned`): no query of the code finds it again.

The tests say that a job is tried at most `max_attempts` times
(`app/tests/test_cloud_runtime_stage24.py:87`). With two workers it is not so
(`MCCloudRetryBound.cfg`, `RetriedAtMost`): a session that has read the row before the last
regular attempt was claimed gives the job back on what it has read. But it does so once, and
so does an approval, which queues a row without a look at its attempts. Hence
`BoundedRetry`: never more than `MaxTries`, which is `MaxAttempts` and one for every
worker and every request but one. With the one worker of `render.yaml:49`, and requests
that do not overlap each other, this is `MaxAttempts` itself.

### Finding

A cancel that commits between the query and the commit of `release_stale` is
overwritten with RETRYING, and the job is claimed (`queue.py:98`,
`app/tests/test_cloud_runtime_stage24.py:114`).

### Proofs (`CloudRuntime_proofs`)

For any number of jobs, workers, requests, attempts, claims and crashes, from
`CloudQueueAssumption` and `CloudRuntimeAssumption` alone:

    THEOREM Invariance           Spec => []IInv
    THEOREM TypeCorrect          Spec => []TypeOK
    THEOREM AttemptsAreExclusive Spec => []ExclusiveAttempt
    THEOREM ResultsAreUnique     Spec => []OneResultPerAttempt
    THEOREM CompletionIsBacked   Spec => []CompletedHasResult
    THEOREM FailureIsExhaustion  Spec => []FailedExhausted
    THEOREM ExecutionIsApproved  Spec => []ApprovedBeforeExecution

None of the invariants is inductive. `IInv` adds

- `HeldAttempt`: a worker's attempt has been counted in the row, so a claim, which
  takes the next number, differs from every attempt under way;
- `StoredWhenAcknowledged`: before "stored" the attempt has no result, after it
  has, so storing happens once and COMPLETED is backed;
- `SeenAttempts`: no session has seen more attempts than the row counts (the count
  only grows), so a stale copy can delay FAILED but never write it early;
- `PendingKept`: a pending confirmation goes with a row that was never claimed, and
  a resume under way has read one.

One lemma per queue operation says what it leaves of a row (`Keeps`), one lemma per
kind of step (stay, leave, commit, persist, claim, scan, release, answer) preserves
`IInv`, and `WorkStep` and `IInvNext` go through the actions.

The steps of a worker fall into four kinds (`Kinds`: it reads, leaves its job, goes on
with it, or settles a row) beside `ReleaseStale` and `Claim`, so that what follows is
proved per kind and not per action:

    THEOREM RetriesAreBounded           Spec => []BoundedRetry
    THEOREM RuntimeImplementsLifecycle  Spec => Lifecycle
    THEOREM FinishedJobsStay            Spec => [][what is over stays so]_vars

`BoundedRetry` is not inductive. `Bounded` adds up, for a row whose regular attempts are
used, the tries that were made and those that may still be (`Spent`): one if the row is
queued, one for every worker that is about to judge the attempts on a copy which counts too
few (`Lows`), and one for every approval under way (`Approvals`). This sum never grows:
who writes RETRYING on such a copy gives up the copy, and any copy read from now on counts
enough; an approval begins only for a row that was never claimed. When the last regular
attempt is claimed, the worker that claims has no copy, and one request at least is not an
approval, because an approved row has no confirmation pending (`BoundedClaim`); that gives
the bound.

The refinement rests on both invariants and on `Asking` (a request that cancels has read a
row that was not cancelled). `TurnSettles` is its heart: a turn of one worker that claims
nothing moves only jobs which the worker minds, and where it leaves them is, by the
invariants, an outcome that the life cycle allows. `Claim` is `Start`, `Create` is
`Submit`, `AskCancel` and `AskResume` are `Ask`, `Answer` is `Answer`, and the clock is a
stutter. `FinishedJobsStay` is drawn from the refinement, not from the code again.

Only model-checked: `JobSettles`, which is liveness.

## Credits

`Credits` is the wallet of one user under the sessions that serve its calls.
`reserve`, `settle`, `release` and the purchase operations lock the wallet's row
until they commit, so from the lock on each is one step. What a session read
before without a lock is kept in its call:

    idle -Find-> reserving -Reserve-> working -Settle-> idle
      -Find (a retry)---------------> working -Fail-> releasing -Release-> idle
                                      working -Settle fails-> releasing | idle
    idle -OverviewRead-> renewing -OverviewCommit-> idle

| state | code |
|-------|------|
| `wallet` | `credit_wallets`; `due` says that `cycle_end` has passed |
| `plan` | what `plan_code()` returns |
| `reservation` | `credit_reservations`; "overdue" is reserved with `expires_at` past |
| `purchase`, `payment`, `handled` | `credit_purchases`, the provider's payment, the events with a row in `billing_events` |
| `call` | the place of each session; `found`: it settles from the object it loaded before |
| `charges`, `lost` | history: charges per request; credits that renewals and refunds took |
| `late` | history: purchases granted after a refund of theirs was handled |

A route is kept by what it does differently: whether it accepts a retry, whether it
commits between finding and settling, whether it rolls back and releases when
`settle` raises. `reserve` compares with the stored balances while the renewal is
pending, because sessions do not autoflush. Of the ledger only the row that the
unique key allows for a request's charge is kept (`Split`).

`complete_purchase` returns early for a purchase that is "completed" only
(`credit_service.py:273-279`). A refund makes it "refunded", and an authorized or captured
event that comes later grants the pack again. `PurchasedIsPaid` counts a purchase that is
completed although its refund was handled only when such an event came (`late`): whatever
the order of events, no pack is granted twice for it and every refund takes the pack back.
That the user keeps a refunded pack is shown by `MCCreditsRefund.cfg`.

| run | instance | shows |
|-----|----------|-------|
| `credits` | 2 sessions, 2 requests of 2 credits, balances of 1 to 2, one pack, one renewal or change of plan | the five invariants |

The bounds let the two requests compete (neither plan affords both), a charge span
two balances, a renewal or a downgrade fall between any two steps, and every order
of verification, webhooks and refund; two sessions are enough for one to act
between any two steps of the other. A system where nobody calls may stop, hence no
check for deadlock.

Proved in `Credits_proofs`, from `CreditsAssumption`, for any number of sessions,
requests, purchases, plans and amounts: `CreditsInvariance`, `BalancesAreNatural`,
`ReserveNeverOverspends`, `ChargesAreFinal`, `PurchasesCoverCredits`,
`CreditsAreHeldForOpen`. All but `HeldForOpen` are inductive together: `TakenAmounts` and `SettledBalances` say that a
settlement takes at most what it frees, `RenewedWallet` that a renewal takes at
most what `lost` counts, `CompletedCount` that completing or refunding a purchase
moves the number of completed ones by one. `PurchasedIsPaid` is drawn from two parts:
`Covered`, that every pack in the wallet is that of a completed purchase, and
`RefundsReverse`, that none is completed after its refund but by a late grant. Steps that
touch no purchase keep the latter (`RefundsStay`); `Regrants` is the one step of a purchase
that makes it true anew.

`HeldForOpen` compares the wallet with a sum over the open reservations, and a fold has no
induction principle here. Its proof shows first that a recursion over the subsets of a
finite set has one solution only (`FoldsOnce`: a smallest set on which two solutions
differ cannot exist, by the library's `WFMin`), then that `Units`, the number of pairs of a
reservation and one of its credits, solves the recursion of the sum. With cardinalities,
`SumAdd` and `SumRemove` follow, and the invariant `Held` from them.

Left out: referrals, the first creation of the wallet, payments of another amount
than the order's.

## Device gateway

`DeviceGateway` is one device: its connections, the coroutines that serve them, and
its commands. `app/main.py` runs as one process (`render.yaml`), and `handle` uses
its database synchronously, so what lies between two awaits on the socket is one
step of the model; the coroutines of two connections interleave at those awaits. An
HTTP request runs in a thread, and so does the submission of a command: it has a
step for the checks (`Ask`) and one for the insert (`Submit`).

    new -Accept-> accepted -Hello-> turning -Turn-> sending (-Sent-> sending)* -> receiving
    receiving -Quiet | Heartbeat | Result | Repair-> turning
    accepted | turning | sending | receiving -End-> closed,  receiving -RepairRefused-> closed

| state | code |
|-------|------|
| `device` | `desktop_devices`: `gateway_session_id`, `revoked_at`, whether the heartbeat is recent |
| `status`, `overdue` | `desktop_commands.status`, and whether `expires_at` is past |
| `attempt`, `parent` | `repair_attempt` and `parent_request_id` in the metadata of a command |
| `loop` | where `handle` of a connection awaits, with the batch that `_dispatch` still sends |
| `asked` | an HTTP request that has seen the device online |
| `live`, `copies` | external: sockets held open by the device, requests it has not answered |

VERIFIED is COMPLETED with the verification that the handlers look for; failed,
timeout and cancelled results are FAILED, since no handler tells them apart. A
result is `complete` with `BoltRepairService.handle`: `Result` when no repair
follows, for whatever reason, `Repair` when one is submitted, `RepairRefused` when
`submit` raises. The code calls `requeue` after a failed send; no such method exists,
and the AttributeError ends the connection as any other failure does (`End`).
Capabilities always match here, and a request id is never submitted twice.

`CommandOutcomes` is what a submitter may rely on: a command is open until it gets
one outcome. `DeviceGateway` implements it (`OutcomesAreFinal`), and
`SocialPublishing` is built on it.

| run | instance | shows |
|-----|----------|-------|
| `device_gateway` | 2 connections, 2 commands, 1 repair attempt, 2 copies | the invariants, the refinement and that queued commands are served |

Two connections let one supersede the other at every point of either. A copy of a
request may be lost, and two copies are what a re-delivery and a second result need.
Two commands are two tasks, or a task and its repair.

Fairness: a receive ends after `device_gateway_poll_ms`, the loop then takes its next
turn, and a send on a dead connection fails when the server's pings are not answered
(`Turn`, `Sent`, `Quiet`, weak). No device has to connect or to answer.
`QueuedIsServed` is about sessions that stay registered and served.

Proved in `DeviceGateway_proofs`, from `GatewayAssumption`, for any number of
connections, commands, attempts and copies: `GatewayInvariance`, `GatewayTypes`,
`NothingWaitsOnASession`, `RepairsAreEarned` and, as a refinement,
`GatewayImplementsOutcomes`. The invariant adds `Descent` (rows that do not exist are
blank, and a repair's parent exists) and `Known` (batches and copies are of commands
that exist), without which an answer could decide a command before it is submitted.
The lemmas say how each method of the service moves a status (`Moves`); all steps but
`Submit` and `Repair` only move statuses (`Kept`), which preserves what is said of
rows. From the refinement follows `OutcomesStay`: a command that has come to an outcome
keeps it. `QueuedIsServed`, a liveness property, is only model-checked.

## Social publishing

`SocialPublishing` is one row of `social_publish_tasks`, the browser commands of that
task, the handling of reports, which the event loop does one at a time, and the
user's messages, each in a thread. Every commit is a step, so requests and crashes
fall between `complete`, the coordinator's follow-up and the conclusion of the task:

    report: none -Complete-> continuing -Stop | Stage | Continue-> concluding -Conclude-> none
    yes:    idle -Yes-> confirming -Dispatch-> dispatched -Publishing-> idle
                 -Yes-> expiring -Withdraw-> idle
    no:     idle -No-> cancelling -Withdraw-> idle

| state | code |
|-------|------|
| `outcome` | `desktop_commands`, as in `CommandOutcomes` |
| `kind` | the capability: `browser.click`, another, or the click that `confirm` dispatches |
| `step` | `browser_step` in the metadata |
| `task` | `social_publish_tasks`: `status`, whether `pending_action` is staged, whether `expires_at` is past |
| `report`, `chat` | how far the report under way and each request are |
| `consents`, `lost` | history: confirmations; publishing clicks whose report a crash cut off |

What the model answers to the coordinator is a choice among an end, a staged publish
action and a next step. The desktop client starts the browser itself (`Browse`).

| run | instance | shows |
|-----|----------|-------|
| `social_publishing` | 2 requests, 3 commands, 2 steps, 2 confirmations | the four invariants |

Three commands are a preparing one with its follow-up and a publishing click, or two
publishing clicks; two requests let a yes meet a yes or a no.

Proved in `SocialPublishing_proofs`, from `PublishingAssumption`, for any number of
requests, commands, steps and confirmations: `PublishingInvariance`,
`PublishingTypes`, `ClicksNeedConsent`, `PublishedTasksWereVerified`,
`AskedTasksAreUnpublished`. The invariant adds `Rows` (nothing happens before the task
exists; the report under way is of a command) and strengthens `PublishNeedsConsent`
to `Consented`: publishing clicks and confirmations under way together are covered by
the yeses, since a confirmation that is dispatched turns from one into the other.

Left out of both: desktop sign-in and its tokens (their end is one of the ways out of
the loop), the choice among several devices, waiting for a result in
`POST /commands`, which only reads, and `edit_caption`, which no route calls.

## Chat streaming

`ChatStream` is `POST /chat/stream`, on `ConcurrencyLimiter` (the concurrency half of
`app/core/rate_limiter.py`: an ordered store of counts, with eviction). A request is a
coroutine of the one event loop; its database work runs in a thread on its own session
(`run_serial_db`, which is left by no way before the thread has returned). What lies
between two suspensions is one step, and so is what a thread commits. A cancellation
(`Go`) may come at every await that is not shielded, and takes effect there.

    new -Admit-> creating -> reserving -> reading -Start-> opened -> preparing
    preparing -> direct -> finalizing -> reporting
    preparing -> pulling (-Chunk-> first -> beginning -> keeping -> pulling, once)
                         (-Chunk-> token | saving -> token -> pulling)
                 -ProviderEnds-> finalizing -> auditing -> reporting
    any of them -Raise-> failing | rolling_back -> failing,  -Leave-> closing
    reporting | failing -Report-> closing -Closed-> ended
    before the stream: -GiveUp-> undoing -GivenUp-> ended

| state | code |
|-------|------|
| `slots`, `limit` | `rate_limiter._active`, the limit of `acquire` |
| `at`, `thread`, `result`, `gone` | where the coroutine awaits, the operations of its thread, how the last one ended, whether it is cancelled |
| `mode`, `text`, `known`, `charged`, `owned` | locals: the kind of answer, the text received, `assistant_message_id`, `completed_meaningfully`, `reservation_owned` |
| `reservation` | `credit_reservations` of a billing id, as `Credits` decides it |
| `message`, `turns` | the assistant's message, and how many were inserted |
| `dropped`, `unsettled`, `told` | history: evicted users, cleanups whose database work failed, the last event |

| run | instance | shows |
|-----|----------|-------|
| `chat_stream` | 2 requests of 1 or 2 users with 1 or 2 ids, a limiter of one key, limits 1 and 2, one piece of text, 1 crash | slots, turns, reservations and bills stay matched |

Two requests give one user's retry beside the first request (limit 2), a refusal
(limit 1), and two users who evict each other (one key). One piece of text is what
"some text was received" needs: blank chunks come as well, before and after it.
There is no liveness here: the provider, the client and the user may each stop.

Proved in `ChatStream_proofs`, for any number of users, ids, requests, texts and
crashes, every limit and size of the limiter: `StreamInvariance`, `TurnsAreSingle`,
`EndedTurnsAreDurable`, `ReservationsAreKept`, `BillsFollowAnswers`. The invariant has a
part for each request alone (`Local`: which operation can run at a place, what is known
of the turn there, when nothing was inserted yet, what the message holds once it has
been dealt with) and one for requests with one id (`Accounts`: who owns a reservation
owns it alone, it is reserved until the cleanup has dealt with it, and is then what the
cleanup decided). A step moves one request (`ActsTyped`), so that its `Local` part is
one case per action, and only three actions write a reservation.

`SlotsInvariance`, `StreamTypes` and `SlotsAreGivenBack` are about the limiter. `SlotsInv`
has `Store` (a key has at most one entry, and none counts nothing) and `Taken`: no user's
count exceeds the streams in flight, and unless it was evicted it equals them and they
keep to the limit. The equality is what `SlotsMatchStreams` needs to be inductive: a count
that were too low would admit one stream too many, later. The lemmas about the limiter say
what `acquire` and `release` do to the count of each key, in a store that is ordered by use
and evicts its oldest entry; a step of a request admits it, ends it, or leaves the slots
alone.

Left out: the sliding window of `check`, which refuses requests before they have any
state; `refresh` after the commit of `begin_stream_response`; a cancellation between the
return of the response and the start of its generator; what retrieval puts into the
prompt; suggestions; a client that reads slowly. A constructor of the orchestrator that
fails counts as "preparing" failing.

## Automations

`Automations` has the rows of `automations`, the sessions that run them (the worker of
every server process, `POST worker/run-due`, `run-now`) and the requests that edit them.
`AutomationScheduler.due` locks a batch with FOR UPDATE SKIP LOCKED; the lock ends with
the session's next commit. It is there "to prevent duplicate execution across concurrent
workers" (the comment at `automation_scheduler.py:29`); but the orchestrator may commit
during a run (`MemoryCapture._store_candidates`, `CommitWithin`), and the end of each run
commits, so later rows of the batch, which are not looked at again, may run twice.

| state | code |
|-------|------|
| `row` | status, `frequency == "once"`, `failure_count`, and which kind of `next_run_at` there is: none, a retry, a slot of the schedule |
| `due` | the rows with a past `next_run_at`, in its order |
| `batch`, `run`, `view`, `expired` | what a session has still to run, what it runs, the row as loaded, whether a commit has expired it |
| `locked`, `shared` | row locks: of the scan, and the key share of the run's foreign key |
| `editing`, `copy` | the row that a request edits, and the row as the request has loaded it |
| `overtaken` | history: rows committed on an outdated copy, and not put right by an edit since |

A request loads its row (`Open`, `AutomationManager.get`), and its commit is a later step:
`Pause`, `Resume` and `Update` (all of them `Save`), `Delete`, or `Leave` when it changes
nothing. So is the end of a run (`Succeed`, `Fail`), minutes after a session has loaded its
row (`Scan`, `RunNow`, or `Load` after a commit has expired it). A commit writes the columns
that differ from the loaded row (`Columns`, `Written`), over whatever others have committed
in between.

That loses schedules. A pause that has loaded a paused row with a next run writes no
status, only that there is no next run; over a resume committed in between, it leaves an
active automation that repeats and is never run again. An edit that makes a "once" row
repeat writes no next run when the time that it computes is the one that it has loaded, and
the end of a run has cleared it. `MCAutomationsLost.cfg` has the trace of the first
(`AlwaysScheduled`). `ActiveIsScheduled` says that nothing else loses one: it exempts the
rows in `overtaken`, where an edit was committed whose row had changed in its status, its
frequency or its having a next run, or where a run ended that knew a row as "once" which
has been made to repeat. An edit that builds on what is there takes the row out again.

| run | instance | shows |
|-----|----------|-------|
| `automations` | 2 sessions, 1 row, 2 requests that overlap, 2 edits, 1 retry | a scan's lock excludes uncommitted runs; only a commit on an outdated copy loses a schedule |
| `automations_live` | 2 sessions, 2 rows, batches of 1, no edit, 1 abort | what is due is run |

A commit meets a row, so one row shows what two runs and two edits do to each other in any
order, between loading and committing; two edits and a run are enough for an edit to heal
what a run has lost. A second row matters for the order in which rows are run
(`automations_live`, where a scan can also be cut off), and as the later row of a batch,
which is loaded again after the first run's commit: that case no run reaches, the proofs
cover it. Fairness: `_loop` scans again and again, however the last scan ended (`Scan`); a
run ends, because model calls have deadlines, and a transaction that waits for a lock
gets it in turn (`Begin`, `Succeed` or `Fail`): the locks and the runs of others switch
these steps off and on, hence strong fairness. Nobody has to edit or to call run-now.
`DueIsRun` needs the order by `next_run_at`: with a batch of one row, another order
starves the other row.

Proved in `Automations_proofs`, from `AutomationAssumption`: `AutomationInvariance`,
`AutomationTypes`, `SchedulesSurvive`, `ScansExclude`, for any number of rows, sessions,
requests that overlap, edits and retries, with loading and committing apart. Schedules
need no strengthening beyond the types: what a commit writes is compared with the row as it
is then (`SchedulesStep`, by `CloseStep` for the end of a run and `SaveStep` for an edit,
whose three kinds `EditIsSave` reduces to it). `ScansExclude` needs `Sharing` (a run that no
commit was made in holds its key share), which is what a scan passes over.
Model-checked only: `DueIsRun`.

Left out: templates, the text of prompts and results, and the calendar arithmetic of
`next_run_at`, which is a new time or none.

## Model router and response pipeline

`ModelRouter` has the health of models and providers as operators; `Generation` the
requests that use it: `stream_text` and `generate_text_sync` try one model after the
other, and `ResponsePipeline.stream` has an answer continued that was cut off. An answer
is a sequence of segments, each one call of `stream_text` with models selected anew.

    new -Ask-> selecting -Select-> calling -Call-> waiting (-Yield-> waiting)* -End-> selecting | done
    calling -Refuse | waiting -Break | EndEmpty-> calling (the next attempt) | failed
    calling -OutOfTime-> late,  waiting -Return-> done,  any -Cancel-> cancelled

| state | code |
|-------|------|
| `health` | `ModelRouter._health`, where "elapsed" is a cooldown that is over and not looked at yet |
| `attempts`, `yielded`, `reason` | the rest of `model_candidates`, `yielded_text`, `trace["finish_reason"]` |
| `count`, `complete`, `blocked` | `continuation_count`, the page's parts, `structural_completion_blocked` |
| `voice`, `said`, `added`, `last` | history: who spoke in the segment, how the last one ended, whether it added text, the last failure |
| `fallback` | history: whether an adapter was called and gave nothing, and whether that of a model tried after it refused the call |

The score of a model is any order. The verdict of `CompletenessValidator` on a chat
answer is a choice. A 5xx of a provider has the category "generation", which
`classify_failure` does not know: no cooldown follows.

| run | instance | shows |
|-----|----------|-------|
| `generation` | 2 requests, 2 models of 2 providers, 2 attempts, 2 continuations | one voice per segment, final failures, told pages, continuations |
| `generation_fallback` | the same | a model that is to replace one which was called and gave nothing cannot be called, and the request fails |

One model's adapter takes the call and the other's does not, as in the code, and either
may come first; two continuations are the code's limit. Two requests share the health,
so a model cools down between another's selection and its call. No liveness: providers
may stay away for ever, and the client decides how long it waits.

Finding: `stream_text` and `generate_text_sync` pass `tools=` to every adapter, and only
Groq's has the parameter (`sync.py:253`, `app/tests/test_ai_model_unavailable_fallback.py:166`).
`ContinuedWhenCut` relies on a consequence of it: a failed attempt that had reported a
finish reason leaves it in the trace, and would be believed of the next attempt if that
attempt could answer. With one Groq model (`registry.py:81`) none can.

Proved in `Generation_proofs`, from `RouterAssumption` and `GenerationAssumption`, for any
number of models, providers, attempts, continuations and requests:
`GenerationInvariance`, `GenerationTypes`, `SegmentsHaveOneVoice`, `FailuresAreFinal`,
`IncompletePagesAreTold`. The invariant adds `Spoken` (a call that runs has an attempt;
who has spoken is the current model) and `Unjudged` (nothing is said of the completeness
of an answer before its end).

`AnswersContinueWhenCut` proves `ContinuedWhenCut` under `OneAdapter`, that the adapter of
one model alone takes `tools` (`registry.py:81`), which it depends on as said above.
`CutIInv` adds `OwnReason`: a reason that an earlier attempt has left is there only while
none of the attempts still to come can be called.

What the model shows and no property states: cut answers of code other than a page, and
chats that are still cut after the last continuation, end without a word to the client.
`ModelRouter.generate` and `ai/llm/router.py` have no caller and are left out.

## Billing

`Billing` is one subscription at the provider and its row: create-subscription,
verify-payment, cancel, resume and the webhooks, each request with a session of its own
and no lock. The provider repeats a webhook until it is answered.

    create:  CreateRemote, CreateCommit        verify: VerifyFetch, VerifyLoad, RequestCommit
    cancel, resume: ManageLoad, ManageCall, RequestCommit
    webhook: WebhookLook, WebhookFlush | WebhookRefused, WebhookCommit

| state | code |
|-------|------|
| `remote`, `sent` | external: the provider's subscription, and its webhooks without a 200 |
| `row` | `subscriptions`: status, current period, `cancel_at_period_end` |
| `events`, `inserted` | `billing_events`: committed ids, and ids flushed and not committed |
| `work` | what each request does, what it has read and from whom |
| `applied` | history: transactions that applied an event |

| run | instance | shows |
|-----|----------|-------|
| `billing` | 2 requests in flight, 1 renewal, 2 waiting webhooks, 3 cancels or resumes, 2 faults | a webhook is applied once, a cancellation stays until a resume |

Two requests are one to read and one to commit in between; three managements are a
cancel, a resume and a cancel; faults are dead requests, failed provider calls and lost
answers.

Proved in `Billing_proofs`, from `BillingAssumption`, for any number of requests,
statuses, renewals and faults: `BillingInvariance`, `EventsApplyOnce`,
`CancellationsStick`. The invariant adds `Flushed` and `Recorded` (an id that a
transaction has flushed is nobody else's, and what was applied is recorded) and
`CreatedOnce` and `Read` (the row is born once and never deleted, so that a stale view
has a row to be compared with).

What the model shows and no property states: every renewal of a subscription has the same
event id, so only the first has an effect; a webhook that comes before
`create_subscription` commits is recorded without effect; a crash between the provider's
call and the commit leaves a subscription at the provider that no row knows; an older
webhook that commits late writes its status over a newer one; a resume that has read the
row before the cancellation writes nothing and so does not take it back.

Left out: one-time orders, payments, invoices, plans and the usage counters.

## Further configurations

Each shows a defect in a trace that is worth reading when the code is changed. TLC finds
the named property violated:

| configuration | property | shows |
|---------------|----------|-------|
| `MCCloudRetryBound.cfg` (`MCCloudRaces`) | `RetriedAtMost` | with two workers `retry` and `release_stale` judge the attempts on a stale copy, and a job is run more often than its attempts allow; the bound that does hold is `BoundedRetry` (`RetriesAreBounded`) (`queue.py:75,100`, `app/tests/test_cloud_runtime_stage24.py:87`) |
| `MCCreditsRetry.cfg` (`MCCredits`) | `ChargedOnce` | a locking SELECT does not refresh an object that the session holds: a retry is charged twice (`credit_service.py:123`, `app/tests/test_stage29_7_final_closure.py:168`) |
| `MCCreditsSplit.cfg` (`MCCredits`) | `StreamsClose` | a charge over two balances violates the ledger's unique key, and a stream's credits stay held (`credit_service.py:136`, `app/tests/test_chat_preproduction_safety.py:240`) |
| `MCCreditsRefund.cfg` (`MCCredits`) | `RefundsStick` | an authorized or captured event that comes after the refund grants the pack again (`credit_service.py:274`) |
| `MCDeviceRepairs.cfg` (`MCDeviceGateway`) | `RepairsBounded` | repairs are bounded per chain of results, not per task (`device_gateway.py:70`, `app/tests/test_stage25_final_completion.py:82`) |
| `MCSocialVerified.cfg` (`MCSocialPublishing`) | `PublishedIsThePost` | any click of the task concludes it (`social_publishing_service.py:101`, `orchestrator.py:3372`) |
| `MCSocialTwice.cfg` (`MCSocialPublishing`) | `PostedOnce` | two confirmations can both publish (`social_publishing_service.py:87`, `app/tests/test_social_publishing_stage26.py:42`) |
| `MCAutomationsLost.cfg` (`MCAutomations`) | `AlwaysScheduled` | a pause that was loaded before a resume, and commits after it, leaves an active automation without a next run (`automation_manager.py:101`, `api/automations/routes.py:71`) |

## Seen on the way

Not modelled, or shown without a property of its own:

- `event()` of the cloud runtime reads the largest sequence number and inserts the next;
  two that overlap collide (`service.py:120`).
- A job parked in WAITING_FOR_RESOURCE is queued again by no code (`worker.py:86`).
- `reserve` compares with the balances of the old cycle while the renewal is pending
  (`credit_service.py:92`); `apply_referral` reads without a lock (`credit_service.py:179`).
- A fast device may report the click before PUBLISHING is committed
  (`social_publishing_service.py:92`), and a no may overlap a yes (`orchestrator.py:3376`).
- `POST /chat/background` uses `settings`, which `api/ceaser/routes.py` does not import.
- A usage counter is authorized in one request and written in another from a value read
  before (`api/commercial/routes.py:112`, `commercial_service.py:254`).
- `active_subscription` does not look at `current_period_end` (`commercial_service.py:182`).

## Not modelled

- Text: prompts, plans, suggestions, drafts, documents, retrieval, voice. By far the
  largest part of the code (the orchestrator alone has 3,500 lines) decides on wording by
  rules and model calls, within one request and without shared state. Where its outcome
  matters to a protocol it is a choice there (`Prepared`, `End`, the coordinator's step).
- Reading and editing of rows that belong to one user: conversations, memories,
  projects, files, cloud resources, administration.
- Outside services: their calls appear as steps that answer, fail or are cut off.
- Desktop sign-in, the compute wallet, usage counters, the runner's repair loop inside a
  build, workflow steps and state merging: protocols of their own that are left for
  later, in the order of the plan.
- `app/agents/bolt/langgraph`, which only its tests run.

`PROJECT.json` has the reason for each component.
