---------------------------- MODULE CloudRuntime ----------------------------
(***************************************************************************)
(* Cloud jobs from creation to their last status: the worker processes of  *)
(* app/services/cloud_runtime/worker.py, the agent path of _execute and    *)
(* the sandbox path of app/services/sandbox/bolt_runner.py, beside the     *)
(* cancel and resume requests of app/services/cloud_runtime/service.py.    *)
(*                                                                         *)
(* Every read of a row (refresh, query) and every commit is a step of its  *)
(* own: between them a session holds what it read in view, and others      *)
(* move on.                                                                *)
(***************************************************************************)
EXTENDS CloudQueue, FiniteSets

CONSTANTS
    Jobs,       \* rows of cloud_jobs, in the order of created_at
    Workers,    \* worker processes
    WorkerId,   \* the cloud_worker_id each process was given
    Unequipped, \* pairs <<w, c>>: w lacks the sandbox or the storage c needs
    Requests,   \* handlers of cancel and resume requests that may overlap
    NoJob,
    MaxClaims,  \* bound: how often a row is claimed
    MaxCrashes  \* bound: how often worker processes die

ASSUME CloudRuntimeAssumption ==
    /\ Jobs \subseteq Nat
    /\ NoJob \notin Jobs
    /\ IsFiniteSet(Workers)
    /\ WorkerId \in [Workers -> WorkerIds]
    /\ IsFiniteSet(Requests)
    /\ MaxClaims \in Nat
    /\ MaxCrashes \in Nat

VARIABLES
    row,        \* the table cloud_jobs
    results,    \* results[j][n]: results that attempt n of j has persisted
    pc,         \* where a worker stands in run_once
    job,        \* the job it claimed
    attempt,    \* attempt_count as that claim set it
    view,       \* the rows in its session's identity map
    request,    \* a request handler: what it is about to write, from what
    crashes

vars == <<row, results, pc, job, attempt, view, request, crashes>>
workerVars == <<pc, job, attempt, view>>

Blank  == [j \in Jobs |-> Absent]
Idle   == [op |-> "none", job |-> NoJob, seen |-> Absent]
Ops    == {"none", "cancel", "resume"}
Locations == {"idle", "release", "claim", "claimed", "admit", "planned",
              "start", "generating", "unowned", "storing", "building",
              "beating", "stored", "acking", "closing", "failing", "retrying"}

Init ==
    /\ row = [j \in Jobs |-> Absent]
    /\ results = [j \in Jobs |-> [n \in 1..MaxClaims |-> 0]]
    /\ pc = [w \in Workers |-> "idle"]
    /\ job = [w \in Workers |-> NoJob]
    /\ attempt = [w \in Workers |-> 0]
    /\ view = [w \in Workers |-> Blank]
    /\ request = [r \in Requests |-> Idle]
    /\ crashes = 0

-----------------------------------------------------------------------------
(* The queue half of run_once.                                             *)

Become(w, l) == pc' = [pc EXCEPT ![w] = l]

\* run_once returns and the session is closed.
Return(w) ==
    /\ Become(w, "idle")
    /\ job' = [job EXCEPT ![w] = NoJob]
    /\ attempt' = [attempt EXCEPT ![w] = 0]
    /\ view' = [view EXCEPT ![w] = Blank]

\* release_stale, the query: RUNNING rows whose lease has expired.
Scan(w) ==
    /\ pc[w] = "idle"
    /\ view' = [view EXCEPT ![w] =
                   [j \in Jobs |-> IF Stale(row[j]) THEN row[j] ELSE Absent]]
    /\ Become(w, "release")
    /\ UNCHANGED <<row, results, job, attempt, request, crashes>>

\* release_stale, the commit: every row of the scan, as it was scanned.
ReleaseStale(w) ==
    /\ pc[w] = "release"
    /\ row' = [j \in Jobs |-> IF Stale(view[w][j])
                              THEN Release(row[j], view[w][j]) ELSE row[j]]
    /\ view' = [view EXCEPT ![w] = Blank]
    /\ Become(w, "claim")
    /\ UNCHANGED <<results, job, attempt, request, crashes>>

\* SKIP LOCKED passes over a row that another session has locked: one that
\* is claiming as well, or that has flushed a write and not yet committed.
Locked(w, j) ==
    \/ \E v \in Workers \ {w} :
          \/ pc[v] = "claim"
          \/ pc[v] = "release" /\ Stale(view[v][j])
          \/ job[v] = j /\ pc[v] \in {"admit", "start", "unowned", "acking",
                                     "beating", "retrying"}
    \/ \E r \in Requests : request[r].job = j

\* What the query of claim_next selects from; MaxClaims bounds the model.
Visible(j) == Claimable(row[j]) /\ row[j].attempt_count < MaxClaims

Claim(w, j) ==
    /\ pc[w] = "claim"
    /\ Visible(j)
    /\ \A k \in Jobs : k < j /\ Visible(k) => Locked(w, k)
    /\ row' = [row EXCEPT ![j] = ClaimNext(row[j], WorkerId[w])]
    /\ job' = [job EXCEPT ![w] = j]
    /\ attempt' = [attempt EXCEPT ![w] = row[j].attempt_count + 1]
    /\ Become(w, "claimed")
    /\ UNCHANGED <<results, view, request, crashes>>

NothingToClaim(w) ==
    /\ pc[w] = "claim"
    /\ \A j \in Jobs : Visible(j) => Locked(w, j)
    /\ Return(w)
    /\ UNCHANGED <<row, results, request, crashes>>

-----------------------------------------------------------------------------
(* _execute.                                                               *)

\* db.refresh(job) at label from; a cancelled job is left alone, the next
\* label is reached with the fresh row in view.
Refresh(w, from, next) ==
    /\ pc[w] = from
    /\ IF row[job[w]].status = "CANCELLED"
       THEN Return(w)
       ELSE /\ view' = [view EXCEPT ![w][job[w]] = row[job[w]]]
            /\ Become(w, next)
            /\ UNCHANGED <<job, attempt>>
    /\ UNCHANGED <<row, results, request, crashes>>

\* A step that fails raises to run_once with nothing of it committed.
Raise(w, from) ==
    /\ pc[w] = from
    /\ Become(w, "failing")
    /\ view' = [view EXCEPT ![w] = Blank]
    /\ UNCHANGED <<row, results, job, attempt, request, crashes>>

\* The session commits new for the claimed job and forgets what it loaded.
Commit(w, new, next) ==
    /\ row' = [row EXCEPT ![job[w]] = new]
    /\ view' = [view EXCEPT ![w] = Blank]
    /\ Become(w, next)
    /\ UNCHANGED <<results, job, attempt, request, crashes>>

Loaded(w) == view[w][job[w]]

\* No sandbox for a build, or no durable object storage.
Park(w) ==
    /\ pc[w] = "admit"
    /\ <<w, Loaded(w).capability>> \in Unequipped
    /\ row' = [row EXCEPT ![job[w]] = WaitForResource(row[job[w]], Loaded(w))]
    /\ Return(w)
    /\ UNCHANGED <<results, request, crashes>>

\* The agent path: PLANNING is committed with the first checkpoint.
Plan(w) ==
    /\ pc[w] = "admit"
    /\ <<w, Loaded(w).capability>> \notin Unequipped
    /\ Loaded(w).capability = "agent"
    /\ Commit(w, Flush(row[job[w]], Loaded(w),
                       [Loaded(w) EXCEPT !.status = "PLANNING"], {}), "planned")

\* RUNNING again, committed by the one heartbeat before the model call.  A
\* worker that no longer owns the row is refused and commits nothing: its
\* RUNNING stays pending in the session.
Start(w) ==
    LET edited == [Loaded(w) EXCEPT !.status = "RUNNING"]
    IN /\ pc[w] = "start"
       /\ \/ /\ HeartbeatAccepted(edited, WorkerId[w])
             /\ Commit(w, Heartbeat(row[job[w]], Loaded(w), edited),
                       "generating")
          \/ /\ ~HeartbeatAccepted(edited, WorkerId[w])
             /\ Become(w, "unowned")
             /\ UNCHANGED <<row, results, job, attempt, view, request, crashes>>

\* The attempt's result, with its checkpoint.
Persist(w) ==
    results' = [results EXCEPT ![job[w]][attempt[w]] = @ + 1]

StoreResult(w) ==
    /\ pc[w] = "storing"
    /\ Persist(w)
    /\ view' = [view EXCEPT ![w] = Blank]
    /\ Become(w, "stored")
    /\ UNCHANGED <<row, job, attempt, request, crashes>>

\* After a refused heartbeat the event model.selected flushes the pending
\* RUNNING; the row stays locked until the result, or the failure, commits.
PendingRunning(w) ==
    Flush(row[job[w]], Loaded(w), [Loaded(w) EXCEPT !.status = "RUNNING"], {})

StoreUnowned(w) ==
    /\ pc[w] = "unowned"
    /\ PendingRunning(w).status # "CANCELLED"
    /\ row' = [row EXCEPT ![job[w]] = PendingRunning(w)]
    /\ Persist(w)
    /\ view' = [view EXCEPT ![w] = Blank]
    /\ Become(w, "stored")
    /\ UNCHANGED <<job, attempt, request, crashes>>

FailUnowned(w) ==
    /\ pc[w] = "unowned"
    /\ PendingRunning(w).status # "CANCELLED"
    /\ row' = [row EXCEPT ![job[w]] = Retry(PendingRunning(w), PendingRunning(w))]
    /\ Return(w)
    /\ UNCHANGED <<results, request, crashes>>

\* Defect: acknowledged before the result is stored.
LoadForAckEarly(w) ==
    /\ pc[w] \in {"storing", "stored"}
    /\ view' = [view EXCEPT ![w][job[w]] = row[job[w]]]
    /\ Become(w, "acking")
    /\ UNCHANGED <<row, results, job, attempt, request, crashes>>

\* acknowledge: the row is loaded again for the event before it ...
LoadForAck(w) ==
    /\ pc[w] = "stored"
    /\ view' = [view EXCEPT ![w][job[w]] = row[job[w]]]
    /\ Become(w, "acking")
    /\ UNCHANGED <<row, results, job, attempt, request, crashes>>

\* ... and COMPLETED is committed whatever the load has found.
Ack(w) ==
    /\ pc[w] = "acking"
    /\ row' = [row EXCEPT ![job[w]] = Acknowledge(row[job[w]], Loaded(w))]
    /\ IF Loaded(w).capability = "build"
       THEN /\ Become(w, "closing")
            /\ view' = [view EXCEPT ![w] = Blank]
            /\ UNCHANGED <<job, attempt>>
       ELSE Return(w)
    /\ UNCHANGED <<results, request, crashes>>

AgentPath(w) ==
    \/ Refresh(w, "claimed", "admit")
    \/ Park(w)
    \/ Plan(w)
    \/ Raise(w, "admit")                         \* unknown_agent
    \/ Refresh(w, "planned", "start")
    \/ Start(w)
    \/ Raise(w, "generating")                    \* the model call failed
    \/ Refresh(w, "generating", "storing")
    \/ Raise(w, "unowned")
    \/ Refresh(w, "unowned", "storing")          \* no model.selected event
    \/ StoreUnowned(w)
    \/ FailUnowned(w)
    \/ Raise(w, "storing")                       \* artifact_too_large, storage
    \/ StoreResult(w)
    \/ LoadForAck(w)
    \/ Ack(w)

-----------------------------------------------------------------------------
(* BoltCloudCodingRunner.run, as far as it touches the job's row.          *)

Build(w) ==
    /\ pc[w] = "admit"
    /\ <<w, Loaded(w).capability>> \notin Unequipped
    /\ Loaded(w).capability = "build"
    /\ view' = [view EXCEPT ![w] = Blank]
    /\ Become(w, "building")
    /\ UNCHANGED <<row, results, job, attempt, request, crashes>>

\* _cancelled, polled while a command runs: the fresh row decides.  The
\* heartbeat is sent in the name of whoever owns the row now.
Poll(w) ==
    /\ pc[w] = "building"
    /\ IF row[job[w]].status = "CANCELLED"
       THEN Become(w, "failing") /\ UNCHANGED view
       ELSE /\ view' = [view EXCEPT ![w][job[w]] = row[job[w]]]
            /\ Become(w, "beating")
    /\ UNCHANGED <<row, results, job, attempt, request, crashes>>

Beat(w) ==
    /\ pc[w] = "beating"
    /\ Commit(w, IF HeartbeatAccepted(Loaded(w), Loaded(w).claimed_by)
                 THEN Heartbeat(row[job[w]], Loaded(w), Loaded(w))
                 ELSE row[job[w]], "building")

\* The workspace is exported and verified: the same two steps to COMPLETED.
Verified(w) ==
    /\ pc[w] = "building"
    /\ Persist(w)
    /\ Become(w, "stored")
    /\ UNCHANGED <<row, job, attempt, view, request, crashes>>

\* finally: the sandbox is destroyed, or "docker rm" times out and raises.
Destroyed(w) ==
    /\ pc[w] = "closing"
    /\ Return(w)
    /\ UNCHANGED <<row, results, request, crashes>>

BuildPath(w) ==
    \/ Build(w)
    \/ Poll(w)
    \/ Beat(w)
    \/ Verified(w)
    \/ Raise(w, "building")
    \/ Destroyed(w)
    \/ Raise(w, "closing")

-----------------------------------------------------------------------------
(* The except branch of run_once, and the death of a worker process.       *)

RetryJob(w) ==
    /\ pc[w] = "retrying"
    /\ row' = [row EXCEPT ![job[w]] = Retry(row[job[w]], Loaded(w))]
    /\ Return(w)
    /\ UNCHANGED <<results, request, crashes>>

Crash(w) ==
    /\ pc[w] # "idle"
    /\ crashes < MaxCrashes
    /\ crashes' = crashes + 1
    /\ Return(w)
    /\ UNCHANGED <<row, results, request>>

Work(w) ==
    \/ Scan(w)
    \/ ReleaseStale(w)
    \/ \E j \in Jobs : Claim(w, j)
    \/ NothingToClaim(w)
    \/ AgentPath(w)
    \/ BuildPath(w)
    \/ Refresh(w, "failing", "retrying")
    \/ RetryJob(w)

-----------------------------------------------------------------------------
(* Requests, and the passing of time.                                      *)

\* Rows are numbered in the order of their creation.
Create(j, confirm, capability) ==
    /\ row[j] = Absent
    /\ \A k \in Jobs : k < j => row[k] # Absent
    /\ row' = [row EXCEPT ![j] = Created(confirm, capability)]
    /\ UNCHANGED <<results, workerVars, request, crashes>>

Ask(r, op, j) ==
    /\ request[r] = Idle
    /\ request' = [request EXCEPT ![r] = [op |-> op, job |-> j, seen |-> row[j]]]
    /\ UNCHANGED <<row, results, workerVars, crashes>>

AskCancel(r, j) ==
    /\ row[j].status \notin TERMINAL \cup {"NONE"}
    /\ Ask(r, "cancel", j)

\* resume with approved = FALSE is a cancel of the row already in memory.
AskResume(r, j, approved) ==
    /\ row[j].status = "WAITING_FOR_USER"
    /\ Ask(r, IF approved THEN "resume" ELSE "cancel", j)

Answer(r) ==
    LET j == request[r].job
        seen == request[r].seen
    IN /\ \/ /\ request[r].op = "cancel"
             /\ row' = [row EXCEPT ![j] = Cancel(row[j], seen)]
          \/ /\ request[r].op = "resume"
             /\ row' = [row EXCEPT ![j] = Resume(row[j], seen)]
       /\ request' = [request EXCEPT ![r] = Idle]
       /\ UNCHANGED <<results, workerVars, crashes>>

LeaseExpires(j) ==
    /\ row[j].lease = "live"
    /\ row' = [row EXCEPT ![j].lease = "expired"]
    /\ UNCHANGED <<results, workerVars, request, crashes>>

BecomesAvailable(j) ==
    /\ ~row[j].ready
    /\ row' = [row EXCEPT ![j].ready = TRUE]
    /\ UNCHANGED <<results, workerVars, request, crashes>>

Next ==
    \/ \E w \in Workers : Work(w) \/ Crash(w)
    \/ \E j \in Jobs :
          \/ \E confirm \in BOOLEAN, capability \in Capabilities :
                Create(j, confirm, capability)
          \/ LeaseExpires(j)
          \/ BecomesAvailable(j)
    \/ \E r \in Requests :
          \/ Answer(r)
          \/ \E j \in Jobs :
                \/ AskCancel(r, j)
                \/ \E approved \in BOOLEAN : AskResume(r, j, approved)

Spec == Init /\ [][Next]_vars

(***************************************************************************)
(* Fairness: serve_forever keeps a worker going, a build ends because each *)
(* command and the whole run have a deadline, the clock moves, and a       *)
(* request that has begun is carried through.  Nobody has to make a        *)
(* request, and a worker need not survive.                                 *)
(***************************************************************************)
EndBuild(w) == Verified(w) \/ Raise(w, "building")

Fairness ==
    /\ \A w \in Workers : WF_vars(Work(w)) /\ SF_vars(EndBuild(w))
    /\ \A j \in Jobs : WF_vars(LeaseExpires(j)) /\ WF_vars(BecomesAvailable(j))
    /\ \A r \in Requests : WF_vars(Answer(r))

FairSpec == Spec /\ Fairness

-----------------------------------------------------------------------------
(* Properties.                                                             *)

TypeOK ==
    /\ row \in [Jobs -> CloudJob]
    /\ results \in [Jobs -> [1..MaxClaims -> Nat]]
    /\ pc \in [Workers -> Locations]
    /\ job \in [Workers -> Jobs \cup {NoJob}]
    /\ attempt \in [Workers -> 0..MaxClaims]
    /\ view \in [Workers -> [Jobs -> CloudJob]]
    /\ request \in [Requests -> [op : Ops, job : Jobs \cup {NoJob}, seen : CloudJob]]
    /\ crashes \in 0..MaxCrashes

\* A worker holds a job from its claim until run_once returns.
Holds(w) == pc[w] \notin {"idle", "release", "claim"}

\* Whatever workers lose their lease, die or are overtaken: no two of them
\* ever carry out the same attempt of the same job.  A job whose lease ran
\* out under a live worker runs twice, but as two attempts (claim_next counts
\* under the row lock, and no other write touches attempt_count).
ExclusiveAttempt ==
    \A v, w \in Workers :
        Holds(v) /\ Holds(w) /\ job[v] = job[w] /\ attempt[v] = attempt[w]
            => v = w

\* An attempt leaves at most one result behind, and results belong to
\* attempts that were counted: a job has never more results than attempts
\* (_execute stores once per claim, also when the worker is a zombie).
OneResultPerAttempt ==
    \A j \in Jobs : \A n \in 1..MaxClaims :
        results[j][n] <= IF n <= row[j].attempt_count THEN 1 ELSE 0

\* COMPLETED is never without a durable result, even when acknowledge is the
\* work of a zombie, overwrites another status or follows a crash: the
\* artifact is committed before the row (worker.py, bolt_runner.py).
CompletedHasResult ==
    \A j \in Jobs :
        row[j].status = "COMPLETED" => \E n \in 1..MaxClaims : results[j][n] > 0

\* FAILED means that the attempts are used up: no race of retry and
\* release_stale gives a job up early.
FailedExhausted ==
    \A j \in Jobs :
        row[j].status = "FAILED" => row[j].attempt_count >= MaxAttempts

\* A job that waits for the user's confirmation is not executed before a
\* resume request approved it, whatever cancel and resume overlap.
ApprovedBeforeExecution ==
    \A j \in Jobs : row[j].attempt_count > 0 => ~row[j].pending

\* A worker died while the row was PLANNING: neither claim_next nor
\* release_stale ever selects such a row again.
Abandoned(j) == row[j].status = "PLANNING" /\ \A w \in Workers : job[w] # j

\* An available job ends, or is parked for a missing resource, unless it is
\* abandoned.  A RUNNING row whose lease ran out does not stay so, then: a turn
\* of run_once releases it.
JobSettles ==
    \A j \in Jobs :
        row[j].status \in ACTIVE ~>
            \/ row[j].status \in TERMINAL \cup {"WAITING_FOR_RESOURCE"}
            \/ Abandoned(j)

\* How many tries of a job races may add: each of the other workers may hold
\* one copy of the row, read before the last attempt was claimed, and give the
\* job back on it; and each of the other requests may hold one approval.
Others(S) == IF S = {} THEN 0 ELSE Cardinality(S) - 1

MaxTries == MaxAttempts + Others(Workers) + Others(Requests)

\* Tries stay bounded through crashes, expired leases, cancels and approvals,
\* and the bound is MaxAttempts but for as many as may overlap: retry and
\* release_stale judge the attempts on copies of the row (queue.py), of which
\* no session can get a second one that is so old.
BoundedRetry == \A j \in Jobs : row[j].attempt_count <= MaxTries

\* w has the job, or is about to release it on the copy it has scanned.
Minds(w, j) == job[w] = j \/ (pc[w] = "release" /\ Stale(view[w][j]))

Busy(j) == \E w \in Workers : Minds(w, j)

\* The lifecycle row j stands in: it runs as long as anybody minds it, whatever
\* was written meanwhile.
LifecycleState(j) ==
    LET s == row[j].status
    IN
    CASE Busy(j) \/ s \in {"RUNNING", "PLANNING"} -> "running"
      [] ~Busy(j) /\ s = "NONE" -> "none"
      [] ~Busy(j) /\ s = "WAITING_FOR_USER" -> "waiting"
      [] ~Busy(j) /\ s \in ACTIVE -> "ready"
      [] ~Busy(j) /\ s = "WAITING_FOR_RESOURCE" -> "parked"
      [] ~Busy(j) /\ s = "COMPLETED" -> "done"
      [] ~Busy(j) /\ s = "FAILED" -> "failed"
      [] ~Busy(j) /\ s = "CANCELLED" -> "cancelled"

Standing == [j \in Jobs |-> LifecycleState(j)]
Tries    == [j \in Jobs |-> row[j].attempt_count]
Asked    == [r \in Requests |-> [op |-> request[r].op, job |-> request[r].job]]

Promise == INSTANCE CloudJobLifecycle
    WITH state <- Standing, tries <- Tries, asked <- Asked

\* The queue, its workers and its requests implement the lifecycle (queue.py,
\* worker.py, service.py): through crashes, expired leases, retries and races
\* a job is tried a bounded number of times, and once nobody minds it, only a
\* request that was begun before can move it from where it ended.
Lifecycle == Promise!Spec

\* test_cloud_runtime_stage24.py, test_cancelled_job_is_not_claimed.
CancelledIsNotClaimed ==
    [][\A j \in Jobs :
          row[j].cancelled_at => row'[j].attempt_count = row[j].attempt_count]_vars

\* test_cloud_runtime_stage24.py, test_stale_lease_recovery_and_bounded_retry:
\* not true of workers that overlap.
RetriedAtMost == \A j \in Jobs : row[j].attempt_count <= MaxAttempts
=============================================================================
