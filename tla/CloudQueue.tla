----------------------------- MODULE CloudQueue -----------------------------
(***************************************************************************)
(* The durable cloud queue of app/services/cloud_runtime/queue.py, as      *)
(* operators on one row of the table cloud_jobs.                           *)
(*                                                                         *)
(* The columns the queue decides on are kept.  Times are kept as what the  *)
(* code asks of them:                                                      *)
(*   lease  -- lease_expires_at is NULL ("none"), in the future ("live")   *)
(*             or in the past ("expired");                                 *)
(*   ready  -- available_at is NULL or not later than now;                 *)
(*   cancelled_at, pending -- whether cancelled_at, pending_action_json    *)
(*             are set;                                                    *)
(*   capability -- "build" for those of UNSAFE_BUILD_CAPABILITIES.         *)
(* A row that was never inserted has the status "NONE".                    *)
(***************************************************************************)
EXTENDS Naturals

CONSTANTS
    MaxAttempts,    \* settings.cloud_job_max_attempts, job.max_attempts
    WorkerIds,      \* values of settings.cloud_worker_id
    NoWorker        \* claimed_by IS NULL

ASSUME CloudQueueAssumption ==
    /\ MaxAttempts \in Nat \ {0}
    /\ NoWorker \notin WorkerIds

ACTIVE   == {"QUEUED", "RETRYING"}
TERMINAL == {"COMPLETED", "FAILED", "CANCELLED"}
Statuses == ACTIVE \cup TERMINAL \cup
    {"NONE", "RUNNING", "PLANNING", "WAITING_FOR_USER", "WAITING_FOR_RESOURCE"}

Capabilities == {"agent", "build"}

CloudJob == [capability    : Capabilities,
             status        : Statuses,
             claimed_by    : WorkerIds \cup {NoWorker},
             lease         : {"none", "live", "expired"},
             ready         : BOOLEAN,
             attempt_count : Nat,
             cancelled_at  : BOOLEAN,
             pending       : BOOLEAN]

Absent == [capability |-> "agent", status |-> "NONE", claimed_by |-> NoWorker,
           lease |-> "none", ready |-> TRUE, attempt_count |-> 0,
           cancelled_at |-> FALSE, pending |-> FALSE]

\* Defect: the UPDATE names every column, as it was loaded.
FlushWholeRow(db, loaded, edited, stamped) == edited

(***************************************************************************)
(* What a commit of an SQLAlchemy session writes: the UPDATE names only    *)
(* the columns whose value differs from the one that was loaded, and the   *)
(* columns in stamped, which receive a new time.  The rows carry no        *)
(* version, so every other column keeps what other sessions wrote.         *)
(***************************************************************************)
Flush(db, loaded, edited, stamped) ==
    LET Col(name, old, was, new) ==
            IF name \in stamped \/ new # was THEN new ELSE old
    IN [capability |-> db.capability,
        status |-> Col("status", db.status, loaded.status, edited.status),
        claimed_by |-> Col("claimed_by", db.claimed_by,
                           loaded.claimed_by, edited.claimed_by),
        lease |-> Col("lease", db.lease, loaded.lease, edited.lease),
        ready |-> Col("ready", db.ready, loaded.ready, edited.ready),
        attempt_count |-> Col("attempt_count", db.attempt_count,
                              loaded.attempt_count, edited.attempt_count),
        cancelled_at |-> Col("cancelled_at", db.cancelled_at,
                             loaded.cancelled_at, edited.cancelled_at),
        pending |-> Col("pending", db.pending, loaded.pending, edited.pending)]

-----------------------------------------------------------------------------
\* Defect: a status that no query of the queue asks for.
CreatedPending(confirm, capability) ==
    [Absent EXCEPT !.capability = capability, !.status = "PENDING"]

\* CloudExecutionService.create: the row that a create request commits.
Created(confirm, capability) ==
    [Absent EXCEPT !.capability = capability,
                   !.status = IF confirm THEN "WAITING_FOR_USER" ELSE "QUEUED",
                   !.pending = confirm]

\* CloudExecutionService.resume, approved: the pending action is cleared and
\* enqueue makes the job QUEUED and available at once.
Resume(db, loaded) ==
    Flush(db, loaded,
          [loaded EXCEPT !.pending = FALSE, !.status = "QUEUED", !.ready = TRUE],
          {"ready"})

\* Defects: a parked job is taken up again; whatever is not finished may be
\* claimed.
ClaimableParked(db) ==
    db.status \in ACTIVE \cup {"WAITING_FOR_RESOURCE"} /\ db.ready /\ db.lease # "live"

ClaimableUnfinished(db) ==
    db.status \notin TERMINAL \cup {"NONE"} /\ db.ready /\ db.lease # "live"

\* claim_next: the WHERE clause, re-evaluated under the row lock ...
Claimable(db) == db.status \in ACTIVE /\ db.ready /\ db.lease # "live"

\* Defect: the claim does not count as an attempt.
ClaimUncounted(db, id) ==
    [db EXCEPT !.status = "RUNNING", !.claimed_by = id, !.lease = "live"]

\* ... and the update made while the lock is held.
ClaimNext(db, id) ==
    [db EXCEPT !.status = "RUNNING", !.claimed_by = id, !.lease = "live",
               !.attempt_count = @ + 1]

\* heartbeat: accepted only from the owner of a job in memory RUNNING.
HeartbeatAccepted(edited, id) ==
    edited.claimed_by = id /\ edited.status = "RUNNING"

Heartbeat(db, loaded, edited) ==
    Flush(db, loaded, [edited EXCEPT !.lease = "live"], {"lease"})

\* acknowledge: no guard on the owner, the lease or the status.
Acknowledge(db, loaded) ==
    Flush(db, loaded, [loaded EXCEPT !.status = "COMPLETED", !.lease = "none"],
          {})

\* Defects: the last attempt is never made; the attempts are never used up.
RetryEarly(db, loaded) ==
    LET freed == [loaded EXCEPT !.claimed_by = NoWorker, !.lease = "none"]
    IN Flush(db, loaded,
             [freed EXCEPT !.status =
                 IF loaded.attempt_count + 1 >= MaxAttempts THEN "FAILED"
                 ELSE "RETRYING"], {})

RetryForever(db, loaded) ==
    Flush(db, loaded,
          [loaded EXCEPT !.claimed_by = NoWorker, !.lease = "none",
                         !.status = "RETRYING", !.ready = FALSE], {"ready"})

\* retry: FAILED once the attempts are used up, RETRYING after a delay before.
Retry(db, loaded) ==
    LET freed == [loaded EXCEPT !.claimed_by = NoWorker, !.lease = "none"]
    IN IF loaded.attempt_count >= MaxAttempts
       THEN Flush(db, loaded, [freed EXCEPT !.status = "FAILED"], {})
       ELSE Flush(db, loaded,
                  [freed EXCEPT !.status = "RETRYING", !.ready = FALSE],
                  {"ready"})

\* cancel: CANCELLED, the lease dropped, the owner left in claimed_by.
Cancel(db, loaded) ==
    Flush(db, loaded,
          [loaded EXCEPT !.status = "CANCELLED", !.lease = "none",
                         !.cancelled_at = TRUE],
          {"cancelled_at"})

\* release_stale: which rows the scan returns ...
Stale(db) == db.status = "RUNNING" /\ db.lease = "expired"

\* Defects: only the lease is taken back; a job on its last attempt is retried.
ReleaseLeaseOnly(db, loaded) ==
    Flush(db, loaded,
          [loaded EXCEPT !.claimed_by = NoWorker, !.lease = "none"], {})

ReleaseForever(db, loaded) ==
    Flush(db, loaded,
          [loaded EXCEPT !.claimed_by = NoWorker, !.lease = "none",
                         !.status = "RETRYING", !.ready = TRUE], {"ready"})

\* ... and what the commit writes to each of them.
Release(db, loaded) ==
    LET freed == [loaded EXCEPT !.claimed_by = NoWorker, !.lease = "none"]
    IN IF loaded.attempt_count >= MaxAttempts
       THEN Flush(db, loaded, [freed EXCEPT !.status = "FAILED"], {})
       ELSE Flush(db, loaded,
                  [freed EXCEPT !.status = "RETRYING", !.ready = TRUE],
                  {"ready"})

\* CloudWorker._execute: a missing sandbox or object store parks the job.
WaitForResource(db, loaded) ==
    Flush(db, loaded,
          [loaded EXCEPT !.status = "WAITING_FOR_RESOURCE",
                         !.claimed_by = NoWorker, !.lease = "none"],
          {})
=============================================================================
