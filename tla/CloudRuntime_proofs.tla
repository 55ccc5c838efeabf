------------------------ MODULE CloudRuntime_proofs -------------------------
(***************************************************************************)
(* Proofs about CloudRuntime, for every number of jobs, workers, requests, *)
(* attempts and crashes: its invariants, the bound on the tries of a job,  *)
(* and the refinement of CloudJobLifecycle.                                *)
(***************************************************************************)
EXTENDS CloudRuntime, FiniteSetTheorems, TLAPS

-----------------------------------------------------------------------------
(* What the operations of the queue make of a row.                         *)

USE DEF ACTIVE, TERMINAL, Statuses, Capabilities, CloudJob

\* The facts the invariants need of an operation that takes the row db of the
\* table to new: only the status matters.
Keeps(db, new) ==
    /\ new \in CloudJob
    /\ new.attempt_count = db.attempt_count
    /\ new.pending = db.pending

LEMMA RetryRow ==
    ASSUME NEW db \in CloudJob, NEW loaded \in CloudJob
    PROVE  /\ Keeps(db, Retry(db, loaded))
           /\ \/ Retry(db, loaded).status \in {db.status, "RETRYING"}
              \/ /\ Retry(db, loaded).status = "FAILED"
                 /\ loaded.attempt_count >= MaxAttempts
BY CloudQueueAssumption DEF Retry, Flush, Keeps

LEMMA ReleaseRow ==
    ASSUME NEW db \in CloudJob, NEW loaded \in CloudJob
    PROVE  /\ Keeps(db, Release(db, loaded))
           /\ \/ Release(db, loaded).status \in {db.status, "RETRYING"}
              \/ /\ Release(db, loaded).status = "FAILED"
                 /\ loaded.attempt_count >= MaxAttempts
BY CloudQueueAssumption DEF Release, Flush, Keeps

LEMMA AcknowledgeRow ==
    ASSUME NEW db \in CloudJob, NEW loaded \in CloudJob
    PROVE  /\ Keeps(db, Acknowledge(db, loaded))
           /\ Acknowledge(db, loaded).status \in {db.status, "COMPLETED"}
BY DEF Acknowledge, Flush, Keeps

LEMMA CancelRow ==
    ASSUME NEW db \in CloudJob, NEW loaded \in CloudJob
    PROVE  /\ Keeps(db, Cancel(db, loaded))
           /\ Cancel(db, loaded).status \in {db.status, "CANCELLED"}
BY DEF Cancel, Flush, Keeps

LEMMA ParkRow ==
    ASSUME NEW db \in CloudJob, NEW loaded \in CloudJob
    PROVE  /\ Keeps(db, WaitForResource(db, loaded))
           /\ WaitForResource(db, loaded).status \in {db.status, "WAITING_FOR_RESOURCE"}
BY CloudQueueAssumption DEF WaitForResource, Flush, Keeps

LEMMA HeartbeatRow ==
    ASSUME NEW db \in CloudJob, NEW loaded \in CloudJob, NEW s \in Statuses
    PROVE  LET new == Heartbeat(db, loaded, [loaded EXCEPT !.status = s])
           IN Keeps(db, new) /\ new.status \in {db.status, s}
BY DEF Heartbeat, Flush, Keeps

LEMMA StatusRow ==
    ASSUME NEW db \in CloudJob, NEW loaded \in CloudJob, NEW s \in Statuses
    PROVE  LET new == Flush(db, loaded, [loaded EXCEPT !.status = s], {})
           IN Keeps(db, new) /\ new.status \in {db.status, s}
BY DEF Flush, Keeps

LEMMA ResumeRow ==
    ASSUME NEW db \in CloudJob, NEW loaded \in CloudJob, loaded.pending,
           loaded.status = "WAITING_FOR_USER"
    PROVE  LET new == Resume(db, loaded)
           IN /\ new \in CloudJob
              /\ new.attempt_count = db.attempt_count
              /\ ~new.pending
              /\ new.status = "QUEUED"
BY DEF Resume, Flush

LEMMA ClaimRow ==
    ASSUME NEW db \in CloudJob, NEW id \in WorkerIds
    PROVE  /\ ClaimNext(db, id) \in CloudJob
           /\ ClaimNext(db, id).attempt_count = db.attempt_count + 1
           /\ ClaimNext(db, id).status = "RUNNING"
           /\ ClaimNext(db, id).pending = db.pending
<1> DEFINE n == db.attempt_count + 1
<1>1. n \in Nat
  OBVIOUS
<1> HIDE DEF n
<1>2. [db EXCEPT !.status = "RUNNING", !.claimed_by = id, !.lease = "live",
                 !.attempt_count = n] \in CloudJob
  BY <1>1
<1>3. ClaimNext(db, id) =
         [db EXCEPT !.status = "RUNNING", !.claimed_by = id, !.lease = "live",
                    !.attempt_count = n]
  BY DEF ClaimNext, n
<1>4. /\ ClaimNext(db, id).attempt_count = db.attempt_count + 1
      /\ ClaimNext(db, id).status = "RUNNING"
      /\ ClaimNext(db, id).pending = db.pending
  BY DEF ClaimNext
<1> QED
  BY <1>2, <1>3, <1>4

LEMMA ReadyRow ==
    ASSUME NEW db \in CloudJob
    PROVE  LET new == [db EXCEPT !.ready = TRUE]
           IN Keeps(db, new) /\ new.status = db.status
BY DEF Keeps

LEMMA AbsentRow == Absent \in CloudJob
BY CloudQueueAssumption DEF Absent
-----------------------------------------------------------------------------
(* The inductive invariant.                                                *)

\* Where a claimed job has not had its result stored by this worker yet.
Unstored == {"claimed", "admit", "planned", "start", "generating", "unowned",
             "storing", "building", "beating"}

\* A worker holds a job exactly between its claim and its return, and the
\* attempt it carries out has been counted.
HeldAttempt ==
    \A w \in Workers :
        IF Holds(w)
        THEN /\ job[w] \in Jobs
             /\ attempt[w] \in 1..MaxClaims
             /\ attempt[w] <= row[job[w]].attempt_count
        ELSE job[w] = NoJob

\* What a worker has still to store is not there, what it acknowledges is.
StoredWhenAcknowledged ==
    \A w \in Workers :
        /\ pc[w] \in Unstored => results[job[w]][attempt[w]] = 0
        /\ pc[w] \in {"stored", "acking"} => results[job[w]][attempt[w]] > 0

\* No session has read more attempts than the table counts, and only rows
\* that were claimed have been seen RUNNING.
SeenAttempts ==
    \A w \in Workers, j \in Jobs :
        /\ view[w][j].attempt_count <= row[j].attempt_count
        /\ view[w][j].status = "RUNNING" => view[w][j].attempt_count > 0

\* A pending confirmation keeps a row out of the queue, and a resume is only
\* under way for a row that was read with it.
PendingKept ==
    /\ \A j \in Jobs :
          /\ row[j].pending => row[j].attempt_count = 0 /\ row[j].status \notin ACTIVE
          /\ row[j].status = "WAITING_FOR_USER" => row[j].pending
          /\ row[j].status = "RUNNING" => row[j].attempt_count > 0
          /\ row[j].status = "NONE" => row[j].attempt_count = 0
    /\ \A r \in Requests :
          /\ request[r].op # "none" => request[r].job \in Jobs
          /\ request[r].op = "resume" => /\ request[r].seen.pending
                                         /\ request[r].seen.status = "WAITING_FOR_USER"

IInv ==
    /\ TypeOK
    /\ HeldAttempt
    /\ ExclusiveAttempt
    /\ OneResultPerAttempt
    /\ StoredWhenAcknowledged
    /\ CompletedHasResult
    /\ SeenAttempts
    /\ FailedExhausted
    /\ PendingKept
-----------------------------------------------------------------------------
(* Most steps move one worker and write rows on the way.  What they do to  *)
(* the rows, to the worker and to the sessions is all the invariant needs. *)

RowsMove ==
    /\ row' \in [Jobs -> CloudJob]
    /\ \A j \in Jobs :
          LET old == row[j]
              new == row'[j]
          IN /\ Keeps(old, new)
             /\ new.status = "COMPLETED" =>
                   \/ old.status = "COMPLETED"
                   \/ \E n \in 1..MaxClaims : results[j][n] > 0
             /\ new.status = "FAILED" =>
                   old.status = "FAILED" \/ old.attempt_count >= MaxAttempts
             /\ new.status \in ACTIVE \cup {"RUNNING"} =>
                   new.status = old.status \/ old.attempt_count > 0
             /\ new.status \in {"WAITING_FOR_USER", "NONE"} => new.status = old.status

WorkersMove ==
    /\ pc' \in [Workers -> Locations]
    /\ job' \in [Workers -> Jobs \cup {NoJob}]
    /\ attempt' \in [Workers -> 0..MaxClaims]
    /\ \A w \in Workers :
          /\ IF pc'[w] \in {"idle", "release", "claim"}
             THEN job'[w] = NoJob
             ELSE Holds(w) /\ job'[w] = job[w] /\ attempt'[w] = attempt[w]
          /\ pc'[w] \in Unstored => pc[w] \in Unstored
          /\ pc'[w] \in {"stored", "acking"} => pc[w] \in {"stored", "acking"}

SessionsMove ==
    /\ view' \in [Workers -> [Jobs -> CloudJob]]
    /\ \A w \in Workers, j \in Jobs : view'[w][j] \in {view[w][j], row[j], Absent}

\* A request is answered, or none is.
RequestsMove ==
    /\ request' \in [Requests -> [op : Ops, job : Jobs \cup {NoJob},
                                  seen : CloudJob]]
    /\ \A r \in Requests : request'[r] \in {request[r], Idle}

LEMMA RequestsIdle == ASSUME IInv, UNCHANGED request PROVE RequestsMove
BY DEF IInv, TypeOK, RequestsMove

LEMMA RowsKeep ==
    ASSUME IInv, RowsMove, SessionsMove, RequestsMove
    PROVE  SeenAttempts' /\ FailedExhausted' /\ PendingKept'
<1>1. SeenAttempts'
  <2> SUFFICES ASSUME NEW v \in Workers, NEW j \in Jobs
               PROVE  /\ view'[v][j].attempt_count <= row'[j].attempt_count
                      /\ view'[v][j].status = "RUNNING" =>
                            view'[v][j].attempt_count > 0
    BY DEF SeenAttempts
  <2>1. view'[v][j] \in {view[v][j], row[j], Absent}
    BY DEF SessionsMove
  <2>2. row'[j].attempt_count = row[j].attempt_count /\ row[j] \in CloudJob
    BY DEF IInv, TypeOK, RowsMove, Keeps
  <2>3. /\ view[v][j].attempt_count <= row[j].attempt_count
        /\ view[v][j].status = "RUNNING" => view[v][j].attempt_count > 0
    BY DEF IInv, SeenAttempts
  <2>4. row[j].status = "RUNNING" => row[j].attempt_count > 0
    BY DEF IInv, PendingKept
  <2> QED
    BY <2>1, <2>2, <2>3, <2>4 DEF Absent
<1>2. FailedExhausted'
  BY DEF IInv, FailedExhausted, RowsMove, Keeps
<1>3. PendingKept'
  <2>0. \A r \in Requests :
           /\ request'[r].op # "none" => request'[r].job \in Jobs
           /\ request'[r].op = "resume" =>
                 /\ request'[r].seen.pending
                 /\ request'[r].seen.status = "WAITING_FOR_USER"
    BY DEF IInv, PendingKept, RequestsMove, Idle
  <2> SUFFICES ASSUME NEW j \in Jobs
               PROVE  /\ row'[j].pending => /\ row'[j].attempt_count = 0
                                            /\ row'[j].status \notin ACTIVE
                      /\ row'[j].status = "WAITING_FOR_USER" => row'[j].pending
                      /\ row'[j].status = "RUNNING" => row'[j].attempt_count > 0
                      /\ row'[j].status = "NONE" => row'[j].attempt_count = 0
    BY <2>0 DEF PendingKept
  <2>1. /\ Keeps(row[j], row'[j])
        /\ row'[j].status \in ACTIVE \cup {"RUNNING"} =>
              row'[j].status = row[j].status \/ row[j].attempt_count > 0
        /\ row'[j].status \in {"WAITING_FOR_USER", "NONE"} =>
              row'[j].status = row[j].status
    BY DEF RowsMove
  <2> QED
    BY <2>1 DEF IInv, TypeOK, PendingKept, Keeps
<1> QED
  BY <1>1, <1>2, <1>3

LEMMA AllMove ==
    ASSUME IInv, RowsMove, WorkersMove, SessionsMove, RequestsMove,
           UNCHANGED results, crashes' \in 0..MaxCrashes
    PROVE  IInv'
<1> USE CloudQueueAssumption, CloudRuntimeAssumption
<1>1. TypeOK'
  BY DEF IInv, TypeOK, RowsMove, WorkersMove, SessionsMove, RequestsMove
<1>2. HeldAttempt'
  <2> SUFFICES ASSUME NEW v \in Workers
               PROVE  IF Holds(v)'
                      THEN /\ job'[v] \in Jobs
                           /\ attempt'[v] \in 1..MaxClaims
                           /\ attempt'[v] <= row'[job'[v]].attempt_count
                      ELSE job'[v] = NoJob
    BY DEF HeldAttempt
  <2>1. IF Holds(v)
        THEN /\ job[v] \in Jobs
             /\ attempt[v] \in 1..MaxClaims
             /\ attempt[v] <= row[job[v]].attempt_count
        ELSE job[v] = NoJob
    BY DEF IInv, HeldAttempt
  <2>2. \A j \in Jobs : row'[j].attempt_count = row[j].attempt_count
    BY DEF RowsMove, Keeps
  <2> QED
    BY <2>1, <2>2 DEF Holds, WorkersMove
<1>3. ExclusiveAttempt'
  BY DEF IInv, ExclusiveAttempt, Holds, WorkersMove
<1>4. OneResultPerAttempt'
  BY DEF IInv, OneResultPerAttempt, RowsMove, Keeps
<1>5. StoredWhenAcknowledged'
  BY DEF IInv, StoredWhenAcknowledged, WorkersMove, Unstored, Holds
<1>6. CompletedHasResult'
  BY DEF IInv, CompletedHasResult, RowsMove
<1>7. SeenAttempts' /\ FailedExhausted' /\ PendingKept'
  BY RowsKeep
<1> QED
  BY <1>1, <1>2, <1>3, <1>4, <1>5, <1>6, <1>7 DEF IInv

LEMMA Moves ==
    ASSUME IInv, RowsMove, WorkersMove, SessionsMove,
           UNCHANGED <<results, request>>, crashes' \in 0..MaxCrashes
    PROVE  IInv'
BY AllMove, RequestsIdle
-----------------------------------------------------------------------------
(* How the steps of one worker look to the rows, the worker, the sessions. *)

LEMMA QuietRows == ASSUME IInv, UNCHANGED row PROVE RowsMove
BY DEF IInv, TypeOK, RowsMove, Keeps

\* A commit of the job that w holds.
LEMMA WriteRow ==
    ASSUME IInv, NEW w \in Workers, Holds(w), NEW new,
           Keeps(row[job[w]], new),
           \/ new.status \in {row[job[w]].status, "PLANNING", "RUNNING",
                              "RETRYING", "WAITING_FOR_RESOURCE"}
           \/ new.status = "FAILED" /\ row[job[w]].attempt_count >= MaxAttempts
           \/ new.status = "COMPLETED" /\ pc[w] = "acking",
           row' = [row EXCEPT ![job[w]] = new]
    PROVE  RowsMove
<1>1. job[w] \in Jobs /\ attempt[w] \in 1..MaxClaims
      /\ attempt[w] <= row[job[w]].attempt_count
  BY DEF IInv, HeldAttempt
<1>2. pc[w] = "acking" => \E n \in 1..MaxClaims : results[job[w]][n] > 0
  BY <1>1 DEF IInv, StoredWhenAcknowledged
<1>3. row \in [Jobs -> CloudJob]
  BY DEF IInv, TypeOK
<1>4. row[job[w]].attempt_count > 0
  <2>1. row[job[w]].attempt_count \in Nat
    BY <1>1, <1>3
  <2>2. attempt[w] \in Nat \ {0}
    BY <1>1, CloudRuntimeAssumption
  <2> HIDE DEF CloudJob
  <2> QED
    BY <1>1, <2>1, <2>2
<1>5. row' \in [Jobs -> CloudJob]
  BY <1>1, <1>3 DEF Keeps
<1>6. ASSUME NEW j \in Jobs, j # job[w] PROVE row'[j] = row[j]
  BY <1>3, <1>6
<1>7. row'[job[w]] = new
  BY <1>1, <1>3
<1>8. ASSUME NEW j \in Jobs
      PROVE  /\ Keeps(row[j], row'[j])
             /\ row'[j].status = "COMPLETED" =>
                   \/ row[j].status = "COMPLETED"
                   \/ \E n \in 1..MaxClaims : results[j][n] > 0
             /\ row'[j].status = "FAILED" =>
                   \/ row[j].status = "FAILED"
                   \/ row[j].attempt_count >= MaxAttempts
             /\ row'[j].status \in ACTIVE \cup {"RUNNING"} =>
                   row'[j].status = row[j].status \/ row[j].attempt_count > 0
             /\ row'[j].status \in {"WAITING_FOR_USER", "NONE"} =>
                   row'[j].status = row[j].status
  <2>1. CASE j = job[w]
    BY <1>2, <1>4, <1>7, <2>1
  <2>2. CASE j # job[w]
    BY <1>3, <1>6, <2>2 DEF Keeps
  <2> QED
    BY <2>1, <2>2
<1>9. QED
  BY <1>5, <1>8 DEF RowsMove

\* A session closes, keeps its objects or loads the row of its job again.
LEMMA Views ==
    ASSUME IInv, NEW w \in Workers
    PROVE  /\ UNCHANGED view => SessionsMove
           /\ view' = [view EXCEPT ![w] = Blank] => SessionsMove
           /\ Holds(w) /\ view' = [view EXCEPT ![w][job[w]] = row[job[w]]]
                 => SessionsMove
<1>1. view \in [Workers -> [Jobs -> CloudJob]] /\ row \in [Jobs -> CloudJob]
  BY DEF IInv, TypeOK
<1>2. Blank \in [Jobs -> CloudJob] /\ \A j \in Jobs : Blank[j] = Absent
  BY AbsentRow DEF Blank
<1>3. UNCHANGED view => SessionsMove
  BY <1>1 DEF SessionsMove
<1>4. view' = [view EXCEPT ![w] = Blank] => SessionsMove
  BY <1>1, <1>2 DEF SessionsMove
<1>5. ASSUME Holds(w), view' = [view EXCEPT ![w][job[w]] = row[job[w]]]
      PROVE  SessionsMove
  <2>1. job[w] \in Jobs
    BY <1>5 DEF IInv, HeldAttempt
  <2>2. view' \in [Workers -> [Jobs -> CloudJob]]
    BY <1>1, <1>5, <2>1
  <2>3. ASSUME NEW v \in Workers, NEW j \in Jobs
        PROVE  view'[v][j] \in {view[v][j], row[j]}
    BY <1>1, <1>5, <2>1
  <2> QED
    BY <2>2, <2>3 DEF SessionsMove
<1> QED
  BY <1>3, <1>4, <1>5

LEMMA ReturnMoves ==
    ASSUME IInv, NEW w \in Workers, Return(w)
    PROVE  WorkersMove /\ SessionsMove
<1>1. WorkersMove
  BY CloudRuntimeAssumption
  DEF IInv, TypeOK, HeldAttempt, Holds, Return, Become, WorkersMove, Locations,
      Unstored
<1>2. SessionsMove
  BY Views DEF Return
<1> QED
  BY <1>1, <1>2

\* From one label of _execute to another one before the same result.
LEMMA BecomeMoves ==
    ASSUME IInv, NEW w \in Workers, Holds(w), NEW l \in Locations, Become(w, l),
           l \notin {"idle", "release", "claim"},
           l \in Unstored => pc[w] \in Unstored,
           l \in {"stored", "acking"} => pc[w] \in {"stored", "acking"},
           UNCHANGED <<job, attempt>>
    PROVE  WorkersMove
BY DEF IInv, TypeOK, Become, WorkersMove, HeldAttempt, Holds, Unstored

LEMMA WorkersIdle ==
    ASSUME IInv, UNCHANGED <<pc, job, attempt>>
    PROVE  WorkersMove
BY DEF IInv, TypeOK, WorkersMove, HeldAttempt, Holds


\* What a worker loaded of its job.
LEMMA LoadedRow ==
    ASSUME IInv, NEW w \in Workers, Holds(w)
    PROVE  /\ job[w] \in Jobs
           /\ row[job[w]] \in CloudJob
           /\ Loaded(w) \in CloudJob
           /\ Loaded(w).attempt_count <= row[job[w]].attempt_count
BY DEF IInv, TypeOK, HeldAttempt, SeenAttempts, Loaded
-----------------------------------------------------------------------------
(* One lemma for each kind of step.                                        *)

LEMMA CrashesKept == IInv => crashes \in 0..MaxCrashes
BY DEF IInv, TypeOK

\* release_stale writes rows that were seen RUNNING, so they were claimed.
LEMMA ReleaseStaleStep ==
    ASSUME IInv, NEW w \in Workers, ReleaseStale(w)
    PROVE  IInv'
<1>1. /\ row \in [Jobs -> CloudJob]
      /\ view[w] \in [Jobs -> CloudJob]
  BY DEF IInv, TypeOK
<1>2. row' = [j \in Jobs |-> IF Stale(view[w][j])
                             THEN Release(row[j], view[w][j]) ELSE row[j]]
  BY DEF ReleaseStale
<1>3. ASSUME NEW j \in Jobs
      PROVE  /\ Keeps(row[j], row'[j])
             /\ \/ row'[j].status = row[j].status
                \/ row'[j].status = "RETRYING" /\ row[j].attempt_count > 0
                \/ row'[j].status = "FAILED" /\ row[j].attempt_count >= MaxAttempts
  <2>1. CASE ~Stale(view[w][j])
    BY <1>1, <1>2, <2>1 DEF Keeps
  <2>2. CASE Stale(view[w][j])
    <3>1. /\ Keeps(row[j], row'[j])
          /\ \/ row'[j].status \in {row[j].status, "RETRYING"}
             \/ /\ row'[j].status = "FAILED"
                /\ view[w][j].attempt_count >= MaxAttempts
      BY <1>1, <1>2, <2>2, ReleaseRow
    <3>2. /\ view[w][j].attempt_count <= row[j].attempt_count
          /\ view[w][j].attempt_count > 0
      BY <2>2 DEF IInv, SeenAttempts, Stale
    <3>3. /\ view[w][j].attempt_count \in Nat
          /\ row[j].attempt_count \in Nat
      BY <1>1
    <3> HIDE DEF CloudJob
    <3> QED
      BY <3>1, <3>2, <3>3, CloudQueueAssumption
  <2> QED
    BY <2>1, <2>2
<1>4. row' \in [Jobs -> CloudJob]
  <2>1. \A j \in Jobs : row'[j] \in CloudJob
    BY <1>3 DEF Keeps
  <2> QED
    BY <1>2, <2>1
<1>5. RowsMove
  BY <1>3, <1>4 DEF RowsMove
<1>6. WorkersMove
  BY CloudRuntimeAssumption DEF ReleaseStale, Become, IInv, TypeOK, HeldAttempt,
    Holds, WorkersMove, Locations, Unstored
<1>7. SessionsMove
  BY Views DEF ReleaseStale
<1> QED
  BY <1>5, <1>6, <1>7, Moves, CrashesKept DEF ReleaseStale

LEMMA ScanStep ==
    ASSUME IInv, NEW w \in Workers, Scan(w)
    PROVE  IInv'
<1>1. RowsMove
  BY QuietRows DEF Scan
<1>2. WorkersMove
  BY DEF Scan, Become, IInv, TypeOK, HeldAttempt, Holds, WorkersMove, Locations,
    Unstored
<1>3. SessionsMove
  <2>1. [j \in Jobs |-> IF Stale(row[j]) THEN row[j] ELSE Absent]
           \in [Jobs -> CloudJob]
    BY AbsentRow DEF IInv, TypeOK
  <2> QED
    BY <2>1 DEF IInv, TypeOK, Scan, SessionsMove
<1> QED
  BY <1>1, <1>2, <1>3, Moves, CrashesKept DEF Scan

\* The session closes and no row is written.
LEMMA LeaveStep ==
    ASSUME IInv, NEW w \in Workers, Return(w), UNCHANGED <<row, results, request>>,
           crashes' \in 0..MaxCrashes
    PROVE  IInv'
BY QuietRows, ReturnMoves, Moves

\* From label to label of _execute or of the sandbox runner, with a refreshed
\* row, an emptied session or neither.
LEMMA StayStep ==
    ASSUME IInv, NEW w \in Workers, Holds(w), NEW l \in Locations, Become(w, l),
           l \notin {"idle", "release", "claim"},
           l \in Unstored => pc[w] \in Unstored,
           l \in {"stored", "acking"} => pc[w] \in {"stored", "acking"},
           \/ UNCHANGED view
           \/ view' = [view EXCEPT ![w] = Blank]
           \/ view' = [view EXCEPT ![w][job[w]] = row[job[w]]],
           UNCHANGED <<row, results, job, attempt, request, crashes>>
    PROVE  IInv'
BY QuietRows, BecomeMoves, Views, Moves, CrashesKept

\* A commit of the claimed job, after which the session closes or goes on.
LEMMA CommitStep ==
    ASSUME IInv, NEW w \in Workers, Holds(w), NEW new,
           Keeps(row[job[w]], new),
           \/ new.status \in {row[job[w]].status, "PLANNING", "RUNNING",
                              "RETRYING", "WAITING_FOR_RESOURCE"}
           \/ new.status = "FAILED" /\ row[job[w]].attempt_count >= MaxAttempts
           \/ new.status = "COMPLETED" /\ pc[w] = "acking",
           row' = [row EXCEPT ![job[w]] = new],
           UNCHANGED <<results, request, crashes>>,
           \/ Return(w)
           \/ /\ view' = [view EXCEPT ![w] = Blank]
              /\ UNCHANGED <<job, attempt>>
              /\ \E l \in {"planned", "generating", "closing", "building"} :
                    Become(w, l) /\ (l \in Unstored => pc[w] \in Unstored)
    PROVE  IInv'
<1>1. RowsMove
  BY WriteRow
<1>2. CASE Return(w)
  BY <1>1, <1>2, ReturnMoves, Moves, CrashesKept
<1>3. CASE /\ view' = [view EXCEPT ![w] = Blank]
           /\ UNCHANGED <<job, attempt>>
           /\ \E l \in {"planned", "generating", "closing", "building"} :
                 Become(w, l) /\ (l \in Unstored => pc[w] \in Unstored)
  <2>1. WorkersMove
    BY <1>3, BecomeMoves DEF Locations
  <2> QED
    BY <1>1, <1>3, <2>1, Views, Moves, CrashesKept
<1> QED
  BY <1>2, <1>3
\* The result of the attempt is committed: by this worker only, and once.
LEMMA PersistStep ==
    ASSUME IInv, NEW w \in Workers, pc[w] \in Unstored, Persist(w),
           Become(w, "stored"), UNCHANGED <<job, attempt, request, crashes>>,
           RowsMove, SessionsMove
    PROVE  IInv'
<1> DEFINE j0 == job[w]
           n0 == attempt[w]
<1>1. /\ j0 \in Jobs
      /\ n0 \in 1..MaxClaims
      /\ n0 <= row[j0].attempt_count
      /\ results[j0][n0] = 0
      /\ Holds(w)
  BY DEF IInv, HeldAttempt, Holds, Unstored, StoredWhenAcknowledged
<1>2. /\ results \in [Jobs -> [1..MaxClaims -> Nat]]
      /\ results' = [results EXCEPT ![j0][n0] = 1]
  BY <1>1 DEF IInv, TypeOK, Persist
<1>3. /\ results'[j0][n0] = 1
      /\ \A j \in Jobs, n \in 1..MaxClaims :
            j # j0 \/ n # n0 => results'[j][n] = results[j][n]
      /\ results' \in [Jobs -> [1..MaxClaims -> Nat]]
  BY <1>1, <1>2
<1>4. pc' = [pc EXCEPT ![w] = "stored"] /\ pc \in [Workers -> Locations]
  BY DEF Become, IInv, TypeOK
<1>5. \A j \in Jobs : row'[j].attempt_count = row[j].attempt_count
  BY DEF RowsMove, Keeps
<1>6. \A v \in Workers : Holds(v)' <=> Holds(v)
  BY <1>1, <1>4 DEF Holds
<1>7. TypeOK'
  BY <1>3, <1>4 DEF IInv, TypeOK, RowsMove, SessionsMove, Locations
<1>8. HeldAttempt'
  BY <1>5, <1>6 DEF IInv, HeldAttempt
<1>9. ExclusiveAttempt'
  BY <1>6 DEF IInv, ExclusiveAttempt
<1>10. OneResultPerAttempt'
  <2> SUFFICES ASSUME NEW j \in Jobs, NEW n \in 1..MaxClaims
               PROVE  results'[j][n] <= IF n <= row'[j].attempt_count THEN 1 ELSE 0
    BY DEF OneResultPerAttempt
  <2>1. CASE j = j0 /\ n = n0
    BY <1>1, <1>3, <1>5, <2>1
  <2>2. CASE j # j0 \/ n # n0
    BY <1>3, <1>5, <2>2 DEF IInv, OneResultPerAttempt
  <2> QED
    BY <2>1, <2>2
<1>11. StoredWhenAcknowledged'
  <2> SUFFICES ASSUME NEW v \in Workers
               PROVE  /\ pc'[v] \in Unstored => results'[job[v]][attempt[v]] = 0
                      /\ pc'[v] \in {"stored", "acking"} =>
                            results'[job[v]][attempt[v]] > 0
    BY DEF StoredWhenAcknowledged
  <2>1. CASE v = w
    BY <1>3, <1>4, <2>1 DEF Unstored
  <2>2. CASE v # w
    <3>1. pc'[v] = pc[v]
      BY <1>4, <2>2
    <3>2. Holds(v) => /\ job[v] \in Jobs
                      /\ attempt[v] \in 1..MaxClaims
                      /\ job[v] # j0 \/ attempt[v] # n0
      BY <1>1, <2>2 DEF IInv, HeldAttempt, ExclusiveAttempt
    <3>3. pc[v] \in Unstored \cup {"stored", "acking"} => Holds(v)
      BY DEF Holds, Unstored
    <3> QED
      BY <1>3, <3>1, <3>2, <3>3 DEF IInv, StoredWhenAcknowledged
  <2> QED
    BY <2>1, <2>2
<1>12. CompletedHasResult'
  <2> SUFFICES ASSUME NEW j \in Jobs, row'[j].status = "COMPLETED"
               PROVE  \E n \in 1..MaxClaims : results'[j][n] > 0
    BY DEF CompletedHasResult
  <2>1. PICK n \in 1..MaxClaims : results[j][n] > 0
    BY DEF RowsMove, IInv, CompletedHasResult
  <2> QED
    BY <1>3, <2>1
<1>13. SeenAttempts' /\ FailedExhausted' /\ PendingKept'
  BY RowsKeep, RequestsIdle
<1> QED
  BY <1>7, <1>8, <1>9, <1>10, <1>11, <1>12, <1>13 DEF IInv
\* claim_next takes a row that is not pending and counts the attempt, so no
\* other worker carries it out.
LEMMA ClaimStep ==
    ASSUME IInv, NEW w \in Workers, NEW j \in Jobs, Claim(w, j)
    PROVE  IInv'
<1> DEFINE n0 == row[j].attempt_count + 1
           new == ClaimNext(row[j], WorkerId[w])
<1>1. /\ row \in [Jobs -> CloudJob]
      /\ row[j].attempt_count \in Nat
      /\ row[j].attempt_count < MaxClaims
      /\ row[j].status \in ACTIVE
      /\ ~row[j].pending
  BY DEF IInv, TypeOK, PendingKept, Claim, Visible, Claimable
<1>2. /\ new \in CloudJob
      /\ new.attempt_count = n0
      /\ new.status = "RUNNING"
      /\ ~new.pending
  BY <1>1, ClaimRow, CloudRuntimeAssumption
<1>3. /\ row' = [row EXCEPT ![j] = new]
      /\ job' = [job EXCEPT ![w] = j]
      /\ attempt' = [attempt EXCEPT ![w] = n0]
      /\ pc' = [pc EXCEPT ![w] = "claimed"]
      /\ UNCHANGED <<results, view, request, crashes>>
  BY DEF Claim, Become
<1> HIDE DEF new
<1>4. /\ n0 \in 1..MaxClaims
      /\ \A v \in Workers : Holds(v) /\ job[v] = j => attempt[v] < n0
  <2>1. n0 \in 1..MaxClaims
    BY <1>1, CloudRuntimeAssumption
  <2>2. ASSUME NEW v \in Workers, Holds(v), job[v] = j
        PROVE  attempt[v] < n0
    <3>1. attempt[v] <= row[j].attempt_count /\ attempt[v] \in Nat
      BY <2>2, CloudRuntimeAssumption DEF IInv, HeldAttempt
    <3> QED
      BY <1>1, <3>1
  <2> QED
    BY <2>1, <2>2
<1>5. TypeOK'
  <2>1. row' \in [Jobs -> CloudJob]
    BY <1>1, <1>2, <1>3
  <2>2. attempt' \in [Workers -> 0..MaxClaims]
    BY <1>3, <1>4, CloudRuntimeAssumption DEF IInv, TypeOK
  <2>3. pc' \in [Workers -> Locations] /\ job' \in [Workers -> Jobs \cup {NoJob}]
    BY <1>3 DEF IInv, TypeOK, Locations
  <2> QED
    BY <1>3, <2>1, <2>2, <2>3 DEF IInv, TypeOK
<1>6. \A k \in Jobs : k # j => row'[k] = row[k]
  BY <1>1, <1>3
<1>7. row'[j] = new
  BY <1>1, <1>3
<1>8. \A v \in Workers : v # w => /\ Holds(v)' = Holds(v)
                                  /\ pc'[v] = pc[v]
                                  /\ job'[v] = job[v]
                                  /\ attempt'[v] = attempt[v]
  BY <1>3 DEF Holds, IInv, TypeOK
<1>9. Holds(w)' /\ job'[w] = j /\ attempt'[w] = n0 /\ pc'[w] = "claimed"
  BY <1>3 DEF Holds, IInv, TypeOK
<1>10. \A k \in Jobs : row[k].attempt_count <= row'[k].attempt_count
  <2>1. row'[j].attempt_count = row[j].attempt_count + 1
    BY <1>2, <1>7
  <2>2. \A k \in Jobs : row[k].attempt_count \in Nat
    BY <1>1
  <2> QED
    BY <1>6, <2>1, <2>2
<1>11. HeldAttempt'
  <2> SUFFICES ASSUME NEW v \in Workers
               PROVE  IF Holds(v)'
                      THEN /\ job'[v] \in Jobs
                           /\ attempt'[v] \in 1..MaxClaims
                           /\ attempt'[v] <= row'[job'[v]].attempt_count
                      ELSE job'[v] = NoJob
    BY DEF HeldAttempt
  <2>1. CASE v = w
    BY <1>1, <1>2, <1>4, <1>7, <1>9, <2>1
  <2>2. CASE v # w
    <3>1. IF Holds(v)
          THEN /\ job[v] \in Jobs
               /\ attempt[v] \in 1..MaxClaims
               /\ attempt[v] <= row[job[v]].attempt_count
          ELSE job[v] = NoJob
      BY DEF IInv, HeldAttempt
    <3>2. /\ \A k \in Jobs : row[k].attempt_count \in Nat
          /\ \A k \in Jobs : row'[k].attempt_count \in Nat
      BY <1>1, <1>5 DEF TypeOK
    <3>3. /\ Holds(v)' = Holds(v)
          /\ job'[v] = job[v]
          /\ attempt'[v] = attempt[v]
      BY <1>8, <2>2
    <3>4. MaxClaims \in Nat
      BY CloudRuntimeAssumption
    <3> HIDE DEF CloudJob
    <3>5. Holds(v) => attempt[v] <= row'[job[v]].attempt_count
      BY <1>10, <3>1, <3>2, <3>4
    <3> QED
      BY <3>1, <3>3, <3>5
  <2> QED
    BY <2>1, <2>2
<1>12. ExclusiveAttempt'
  BY <1>4, <1>8, <1>9 DEF IInv, ExclusiveAttempt
<1>13. OneResultPerAttempt'
  <2> SUFFICES ASSUME NEW k \in Jobs, NEW n \in 1..MaxClaims
               PROVE  results[k][n] <= IF n <= row'[k].attempt_count THEN 1 ELSE 0
    BY <1>3 DEF OneResultPerAttempt
  <2>1. results[k][n] <= IF n <= row[k].attempt_count THEN 1 ELSE 0
    BY DEF IInv, OneResultPerAttempt
  <2>2. /\ row[k].attempt_count \in Nat
        /\ row'[k].attempt_count \in Nat
        /\ results[k][n] \in Nat
        /\ n \in Nat
    BY <1>1, <1>5, CloudRuntimeAssumption DEF IInv, TypeOK
  <2> HIDE DEF CloudJob
  <2> QED
    BY <1>10, <2>1, <2>2
<1>14. StoredWhenAcknowledged'
  <2>1. results[j][n0] = 0
    <3>1. results[j][n0] <= 0
      <4>1. results[j][n0] <= IF n0 <= row[j].attempt_count THEN 1 ELSE 0
        BY <1>4 DEF IInv, OneResultPerAttempt
      <4>2. ~(n0 <= row[j].attempt_count)
        BY <1>1
      <4> QED
        BY <4>1, <4>2
    <3>2. results[j][n0] \in Nat
      <4>1. results \in [Jobs -> [1..MaxClaims -> Nat]]
        BY DEF IInv, TypeOK
      <4> HIDE DEF n0
      <4> QED
        BY <1>4, <4>1
    <3> QED
      BY <3>1, <3>2
  <2> QED
    BY <1>3, <1>8, <1>9, <2>1 DEF IInv, StoredWhenAcknowledged
<1>15. CompletedHasResult'
  BY <1>2, <1>3, <1>6, <1>7 DEF IInv, CompletedHasResult
<1>16. SeenAttempts'
  <2> SUFFICES ASSUME NEW v \in Workers, NEW k \in Jobs
               PROVE  view[v][k].attempt_count <= row'[k].attempt_count
    BY <1>3 DEF SeenAttempts, IInv
  <2>1. view[v][k].attempt_count <= row[k].attempt_count
    BY DEF IInv, SeenAttempts
  <2>2. /\ row[k].attempt_count \in Nat
        /\ row'[k].attempt_count \in Nat
        /\ view[v][k].attempt_count \in Nat
    BY <1>1, <1>5 DEF IInv, TypeOK
  <2> HIDE DEF CloudJob
  <2> QED
    BY <1>10, <2>1, <2>2
<1>17. FailedExhausted'
  BY <1>2, <1>6, <1>7 DEF IInv, FailedExhausted
<1>18. PendingKept'
  BY <1>1, <1>2, <1>3, <1>6, <1>7 DEF IInv, PendingKept
<1> QED
  BY <1>5, <1>11, <1>12, <1>13, <1>14, <1>15, <1>16, <1>17, <1>18 DEF IInv
-----------------------------------------------------------------------------
(* Requests, and the passing of time.                                      *)

\* A step of the table alone that counts no attempt and keeps confirmations.
LEMMA RowStep ==
    ASSUME IInv, RowsMove, UNCHANGED <<results, workerVars, request, crashes>>
    PROVE  IInv'
BY WorkersIdle, Moves, CrashesKept DEF IInv, TypeOK, SessionsMove, workerVars

\* The clock touches the lease or the availability of one row.
LEMMA ClockStep ==
    ASSUME IInv, NEW j \in Jobs, LeaseExpires(j) \/ BecomesAvailable(j)
    PROVE  IInv'
<1>1. row \in [Jobs -> CloudJob]
  BY DEF IInv, TypeOK
<1>2. CASE LeaseExpires(j)
  <2>1. RowsMove
    BY <1>1, <1>2 DEF LeaseExpires, RowsMove, Keeps
  <2> QED
    BY <1>2, <2>1, RowStep DEF LeaseExpires
<1>3. CASE BecomesAvailable(j)
  <2>1. row' = [row EXCEPT ![j] = [row[j] EXCEPT !.ready = TRUE]]
    BY <1>3 DEF BecomesAvailable
  <2>2. RowsMove
    BY <1>1, <2>1, ReadyRow DEF RowsMove, Keeps
  <2> QED
    BY <1>3, <2>2, RowStep DEF BecomesAvailable
<1> QED
  BY <1>2, <1>3

LEMMA CreatedRow ==
    ASSUME NEW confirm \in BOOLEAN, NEW capability \in Capabilities
    PROVE  /\ Created(confirm, capability) \in CloudJob
           /\ Created(confirm, capability).attempt_count = 0
           /\ Created(confirm, capability).pending = confirm
           /\ Created(confirm, capability).status =
                 IF confirm THEN "WAITING_FOR_USER" ELSE "QUEUED"
BY CloudQueueAssumption DEF Created, Absent

\* Create and an approved resume change what RowsMove keeps: a confirmation
\* comes or goes with a row that no worker has claimed.
LEMMA ConfirmationStep ==
    ASSUME IInv, NEW j \in Jobs, NEW new \in CloudJob,
           row' = [row EXCEPT ![j] = new],
           new.attempt_count = row[j].attempt_count,
           new.status \in {"QUEUED", "WAITING_FOR_USER"},
           new.status = "WAITING_FOR_USER" <=> new.pending,
           new.pending => new.attempt_count = 0,
           UNCHANGED <<results, workerVars, crashes>>, RequestsMove
    PROVE  IInv'
<1>1. /\ row \in [Jobs -> CloudJob]
      /\ row' \in [Jobs -> CloudJob]
      /\ row'[j] = new
      /\ \A k \in Jobs : k # j => row'[k] = row[k]
      /\ \A k \in Jobs : row'[k].attempt_count = row[k].attempt_count
  BY DEF IInv, TypeOK
<1>2. UNCHANGED <<results, pc, job, attempt, view, crashes>>
  BY DEF workerVars
<1>3. TypeOK'
  BY <1>1, <1>2 DEF IInv, TypeOK, RequestsMove
<1>4. HeldAttempt'
  BY <1>1, <1>2 DEF IInv, HeldAttempt, Holds
<1>5. ExclusiveAttempt'
  BY <1>2 DEF IInv, ExclusiveAttempt, Holds
<1>6. OneResultPerAttempt'
  BY <1>1, <1>2 DEF IInv, OneResultPerAttempt
<1>7. StoredWhenAcknowledged'
  BY <1>2 DEF IInv, StoredWhenAcknowledged
<1>8. CompletedHasResult'
  BY <1>1, <1>2 DEF IInv, CompletedHasResult
<1>9. SeenAttempts'
  BY <1>1, <1>2 DEF IInv, SeenAttempts
<1>10. FailedExhausted'
  BY <1>1 DEF IInv, FailedExhausted
<1>11. PendingKept'
  BY <1>1 DEF IInv, PendingKept, Idle, RequestsMove
<1> QED
  BY <1>3, <1>4, <1>5, <1>6, <1>7, <1>8, <1>9, <1>10, <1>11 DEF IInv

LEMMA CreateStep ==
    ASSUME IInv, NEW j \in Jobs, NEW confirm \in BOOLEAN,
           NEW capability \in Capabilities, Create(j, confirm, capability)
    PROVE  IInv'
<1>1. row[j] = Absent /\ Absent.attempt_count = 0
  BY DEF Create, Absent
<1>2. RequestsMove
  BY RequestsIdle DEF Create
<1> DEFINE new == Created(confirm, capability)
<1>3. /\ new \in CloudJob
      /\ new.attempt_count = row[j].attempt_count
      /\ new.status \in {"QUEUED", "WAITING_FOR_USER"}
      /\ new.status = "WAITING_FOR_USER" <=> new.pending
      /\ new.pending => new.attempt_count = 0
  BY <1>1, CreatedRow
<1>4. row' = [row EXCEPT ![j] = new] /\ UNCHANGED <<results, workerVars, crashes>>
  BY DEF Create
<1> HIDE DEF new
<1> QED
  BY <1>2, <1>3, <1>4, ConfirmationStep

\* A request reads the row as it is; nothing else changes.
LEMMA AskStep ==
    ASSUME IInv, NEW r \in Requests, NEW op \in {"cancel", "resume"},
           NEW j \in Jobs, Ask(r, op, j),
           op = "resume" => row[j].status = "WAITING_FOR_USER"
    PROVE  IInv'
<1>1. /\ request' = [request EXCEPT ![r] = [op |-> op, job |-> j, seen |-> row[j]]]
      /\ UNCHANGED <<row, results, pc, job, attempt, view, crashes>>
  BY DEF Ask, workerVars
<1>2. /\ row[j] \in CloudJob
      /\ row[j].status = "WAITING_FOR_USER" => row[j].pending
  BY DEF IInv, TypeOK, PendingKept
<1>3. TypeOK'
  BY <1>1, <1>2 DEF IInv, TypeOK, Ops
<1>4. PendingKept'
  BY <1>1, <1>2 DEF IInv, TypeOK, PendingKept
<1>5. HeldAttempt' /\ ExclusiveAttempt' /\ StoredWhenAcknowledged'
  BY <1>1 DEF IInv, HeldAttempt, ExclusiveAttempt, StoredWhenAcknowledged, Holds
<1>6. OneResultPerAttempt' /\ CompletedHasResult' /\ SeenAttempts' /\ FailedExhausted'
  BY <1>1 DEF IInv, OneResultPerAttempt, CompletedHasResult, SeenAttempts,
    FailedExhausted
<1> QED
  BY <1>3, <1>4, <1>5, <1>6 DEF IInv

LEMMA AnswerStep ==
    ASSUME IInv, NEW r \in Requests, Answer(r)
    PROVE  IInv'
<1> DEFINE j == request[r].job
           seen == request[r].seen
<1>1. /\ row \in [Jobs -> CloudJob]
      /\ j \in Jobs
      /\ seen \in CloudJob
      /\ request[r].op = "resume" =>
            seen.pending /\ seen.status = "WAITING_FOR_USER"
  BY DEF Answer, IInv, TypeOK, PendingKept
<1>2. UNCHANGED <<results, workerVars, crashes>> /\ RequestsMove
  BY AbsentRow DEF Answer, IInv, TypeOK, Idle, Ops, RequestsMove
<1>3. CASE request[r].op = "cancel" /\ row' = [row EXCEPT ![j] = Cancel(row[j], seen)]
  <2> DEFINE new == Cancel(row[j], seen)
  <2>1. Keeps(row[j], new) /\ new.status \in {row[j].status, "CANCELLED"}
    BY <1>1, CancelRow
  <2>2. row' = [row EXCEPT ![j] = new]
    BY <1>3
  <2> HIDE DEF new, j
  <2>3. RowsMove
    BY <1>1, <2>1, <2>2 DEF RowsMove, Keeps
  <2>4. WorkersMove /\ SessionsMove /\ crashes' \in 0..MaxCrashes
    BY <1>2, WorkersIdle, CrashesKept DEF IInv, TypeOK, SessionsMove, workerVars
  <2> QED
    BY <1>2, <2>3, <2>4, AllMove
<1>4. CASE request[r].op = "resume" /\ row' = [row EXCEPT ![j] = Resume(row[j], seen)]
  <2> DEFINE new == Resume(row[j], seen)
  <2>1. /\ new \in CloudJob
        /\ new.attempt_count = row[j].attempt_count
        /\ ~new.pending
        /\ new.status = "QUEUED"
    BY <1>1, <1>4, ResumeRow
  <2>2. row' = [row EXCEPT ![j] = new]
    BY <1>4
  <2> HIDE DEF new, j
  <2> QED
    BY <1>1, <1>2, <2>1, <2>2, ConfirmationStep
<1> QED
  BY <1>3, <1>4 DEF Answer
-----------------------------------------------------------------------------
(* The steps of _execute, of the sandbox runner and of run_once.           *)

LEMMA RefreshStep ==
    ASSUME IInv, NEW w \in Workers, NEW from, NEW next, Refresh(w, from, next),
           <<from, next>> \in {<<"claimed", "admit">>, <<"planned", "start">>,
                              <<"generating", "storing">>,
                              <<"unowned", "storing">>, <<"failing", "retrying">>}
    PROVE  IInv'
<1>1. Holds(w) /\ pc[w] = from
  BY DEF Refresh, Holds
<1>2. CASE Return(w)
  BY <1>2, LeaveStep, CrashesKept DEF Refresh
<1>3. CASE ~Return(w)
  <2>1. /\ view' = [view EXCEPT ![w][job[w]] = row[job[w]]]
        /\ Become(w, next)
        /\ UNCHANGED <<row, results, job, attempt, request, crashes>>
    BY <1>3 DEF Refresh
  <2> QED
    BY <1>1, <2>1, StayStep DEF Locations, Unstored
<1> QED
  BY <1>2, <1>3

LEMMA RaiseStep ==
    ASSUME IInv, NEW w \in Workers, NEW from, Raise(w, from),
           from \in {"admit", "generating", "unowned", "storing", "building",
                     "closing"}
    PROVE  IInv'
<1>1. Holds(w)
  BY DEF Raise, Holds
<1> QED
  BY <1>1, StayStep DEF Raise, Locations, Unstored

LEMMA ParkStep ==
    ASSUME IInv, NEW w \in Workers, Park(w)
    PROVE  IInv'
<1>1. Holds(w)
  BY DEF Park, Holds
<1>2. /\ Keeps(row[job[w]], WaitForResource(row[job[w]], Loaded(w)))
      /\ WaitForResource(row[job[w]], Loaded(w)).status
            \in {row[job[w]].status, "WAITING_FOR_RESOURCE"}
  BY <1>1, LoadedRow, ParkRow
<1> QED
  BY <1>1, <1>2, CommitStep DEF Park

LEMMA PlanStep ==
    ASSUME IInv, NEW w \in Workers, Plan(w)
    PROVE  IInv'
<1> DEFINE new == Flush(row[job[w]], Loaded(w),
                        [Loaded(w) EXCEPT !.status = "PLANNING"], {})
<1>1. Holds(w) /\ pc[w] \in Unstored
  BY DEF Plan, Holds, Unstored
<1>2. Keeps(row[job[w]], new) /\ new.status \in {row[job[w]].status, "PLANNING"}
  BY <1>1, LoadedRow, StatusRow
<1>3. Commit(w, new, "planned")
  BY DEF Plan
<1> HIDE DEF new
<1> QED
  BY <1>1, <1>2, <1>3, CommitStep DEF Commit

LEMMA StartStep ==
    ASSUME IInv, NEW w \in Workers, Start(w)
    PROVE  IInv'
<1> DEFINE edited == [Loaded(w) EXCEPT !.status = "RUNNING"]
           new == Heartbeat(row[job[w]], Loaded(w), edited)
<1>1. Holds(w) /\ pc[w] \in Unstored
  BY DEF Start, Holds, Unstored
<1>2. Keeps(row[job[w]], new) /\ new.status \in {row[job[w]].status, "RUNNING"}
  BY <1>1, LoadedRow, HeartbeatRow
<1>3. \/ Commit(w, new, "generating")
      \/ /\ Become(w, "unowned")
         /\ UNCHANGED <<row, results, job, attempt, view, request, crashes>>
  BY DEF Start
<1> HIDE DEF new
<1>4. CASE Commit(w, new, "generating")
  BY <1>1, <1>2, <1>4, CommitStep DEF Commit
<1>5. CASE /\ Become(w, "unowned")
           /\ UNCHANGED <<row, results, job, attempt, view, request, crashes>>
  BY <1>1, <1>5, StayStep DEF Locations, Unstored
<1> QED
  BY <1>3, <1>4, <1>5

LEMMA StoreResultStep ==
    ASSUME IInv, NEW w \in Workers, StoreResult(w)
    PROVE  IInv'
BY QuietRows, Views, PersistStep DEF StoreResult, Unstored

\* What the pending RUNNING of a refused worker makes of the row.
LEMMA PendingRow ==
    ASSUME IInv, NEW w \in Workers, pc[w] = "unowned"
    PROVE  /\ Holds(w)
           /\ Keeps(row[job[w]], PendingRunning(w))
           /\ PendingRunning(w).status \in {row[job[w]].status, "RUNNING"}
<1>1. Holds(w)
  BY DEF Holds
<1> QED
  BY <1>1, LoadedRow, StatusRow DEF PendingRunning

LEMMA StoreUnownedStep ==
    ASSUME IInv, NEW w \in Workers, StoreUnowned(w)
    PROVE  IInv'
<1>1. pc[w] = "unowned" /\ pc[w] \in Unstored
  BY DEF StoreUnowned, Unstored
<1>2. RowsMove
  BY <1>1, PendingRow, WriteRow DEF StoreUnowned
<1>3. SessionsMove
  BY Views DEF StoreUnowned
<1> QED
  BY <1>1, <1>2, <1>3, PersistStep DEF StoreUnowned

LEMMA FailUnownedStep ==
    ASSUME IInv, NEW w \in Workers, FailUnowned(w)
    PROVE  IInv'
<1> DEFINE old == row[job[w]]
           mid == PendingRunning(w)
           new == Retry(mid, mid)
<1>1. /\ Holds(w)
      /\ Keeps(old, mid)
      /\ mid.status \in {old.status, "RUNNING"}
  BY PendingRow DEF FailUnowned
<1>2. /\ Keeps(mid, new)
      /\ \/ new.status \in {mid.status, "RETRYING"}
         \/ new.status = "FAILED" /\ mid.attempt_count >= MaxAttempts
  BY <1>1, RetryRow DEF Keeps
<1>3. row' = [row EXCEPT ![job[w]] = new] /\ Return(w)
      /\ UNCHANGED <<results, request, crashes>>
  BY DEF FailUnowned
<1> HIDE DEF mid, new
<1>4. /\ Keeps(old, new)
      /\ \/ new.status \in {old.status, "RUNNING", "RETRYING"}
         \/ new.status = "FAILED" /\ old.attempt_count >= MaxAttempts
  BY <1>1, <1>2 DEF Keeps
<1> QED
  BY <1>1, <1>3, <1>4, CommitStep

LEMMA LoadForAckStep ==
    ASSUME IInv, NEW w \in Workers, LoadForAck(w)
    PROVE  IInv'
<1>1. Holds(w)
  BY DEF LoadForAck, Holds
<1> QED
  BY <1>1, StayStep DEF LoadForAck, Locations, Unstored

LEMMA AckStep ==
    ASSUME IInv, NEW w \in Workers, Ack(w)
    PROVE  IInv'
<1>1. Holds(w)
  BY DEF Ack, Holds
<1>2. /\ Keeps(row[job[w]], Acknowledge(row[job[w]], Loaded(w)))
      /\ Acknowledge(row[job[w]], Loaded(w)).status
            \in {row[job[w]].status, "COMPLETED"}
  BY <1>1, LoadedRow, AcknowledgeRow
<1>3. \/ Return(w)
      \/ /\ view' = [view EXCEPT ![w] = Blank]
         /\ UNCHANGED <<job, attempt>>
         /\ Become(w, "closing")
  BY DEF Ack
<1> QED
  BY <1>1, <1>2, <1>3, CommitStep DEF Ack, Unstored

LEMMA BuildStep ==
    ASSUME IInv, NEW w \in Workers, Build(w) \/ Poll(w) \/ Verified(w)
    PROVE  IInv'
<1>1. Holds(w)
  BY DEF Build, Poll, Verified, Holds
<1>2. CASE Build(w)
  BY <1>1, <1>2, StayStep DEF Build, Locations, Unstored
<1>3. CASE Poll(w)
  BY <1>1, <1>3, StayStep DEF Poll, Locations, Unstored
<1>4. CASE Verified(w)
  BY <1>4, QuietRows, Views, PersistStep DEF Verified, Unstored
<1> QED
  BY <1>2, <1>3, <1>4

LEMMA BeatStep ==
    ASSUME IInv, NEW w \in Workers, Beat(w)
    PROVE  IInv'
<1> DEFINE new == IF HeartbeatAccepted(Loaded(w), Loaded(w).claimed_by)
                  THEN Heartbeat(row[job[w]], Loaded(w), Loaded(w))
                  ELSE row[job[w]]
<1>1. Holds(w) /\ pc[w] \in Unstored
  BY DEF Beat, Holds, Unstored
<1>2. Keeps(row[job[w]], new) /\ new.status = row[job[w]].status
  BY <1>1, LoadedRow DEF Keeps, Heartbeat, Flush
<1>3. Commit(w, new, "building")
  BY DEF Beat
<1> HIDE DEF new
<1> QED
  BY <1>1, <1>2, <1>3, CommitStep DEF Commit

LEMMA RetryJobStep ==
    ASSUME IInv, NEW w \in Workers, RetryJob(w)
    PROVE  IInv'
<1> DEFINE new == Retry(row[job[w]], Loaded(w))
<1>1. Holds(w)
  BY DEF RetryJob, Holds
<1>2. /\ Keeps(row[job[w]], new)
      /\ \/ new.status \in {row[job[w]].status, "RETRYING"}
         \/ new.status = "FAILED" /\ Loaded(w).attempt_count >= MaxAttempts
  BY <1>1, LoadedRow, RetryRow
<1>3. new.status = "FAILED" =>
         \/ new.status = row[job[w]].status
         \/ row[job[w]].attempt_count >= MaxAttempts
  <2>1. /\ Loaded(w).attempt_count \in Nat
        /\ row[job[w]].attempt_count \in Nat
        /\ Loaded(w).attempt_count <= row[job[w]].attempt_count
    BY <1>1, LoadedRow
  <2> HIDE DEF new, CloudJob
  <2> QED
    BY <1>2, <2>1, CloudQueueAssumption
<1>4. row' = [row EXCEPT ![job[w]] = new] /\ Return(w)
      /\ UNCHANGED <<results, request, crashes>>
  BY DEF RetryJob
<1> HIDE DEF new
<1> QED
  BY <1>1, <1>2, <1>3, <1>4, CommitStep
-----------------------------------------------------------------------------
(* The theorems.                                                           *)

LEMMA WorkStep ==
    ASSUME IInv, NEW w \in Workers, Work(w) \/ Crash(w)
    PROVE  IInv'
<1>1. CASE Scan(w)
  BY <1>1, ScanStep
<1>2. CASE ReleaseStale(w)
  BY <1>2, ReleaseStaleStep
<1>3. CASE \E j \in Jobs : Claim(w, j)
  BY <1>3, ClaimStep
<1>4. CASE NothingToClaim(w)
  BY <1>4, LeaveStep, CrashesKept DEF NothingToClaim
<1>5. CASE AgentPath(w)
  <2>1. CASE \/ Refresh(w, "claimed", "admit")
             \/ Refresh(w, "planned", "start")
             \/ Refresh(w, "generating", "storing")
             \/ Refresh(w, "unowned", "storing")
    BY <2>1, RefreshStep
  <2>2. CASE \/ Raise(w, "admit")
             \/ Raise(w, "generating")
             \/ Raise(w, "unowned")
             \/ Raise(w, "storing")
    BY <2>2, RaiseStep
  <2>3. CASE Park(w) \/ Plan(w) \/ Start(w)
    BY <2>3, ParkStep, PlanStep, StartStep
  <2>4. CASE StoreResult(w) \/ StoreUnowned(w) \/ FailUnowned(w)
    BY <2>4, StoreResultStep, StoreUnownedStep, FailUnownedStep
  <2>5. CASE LoadForAck(w) \/ Ack(w)
    BY <2>5, LoadForAckStep, AckStep
  <2> QED
    BY <1>5, <2>1, <2>2, <2>3, <2>4, <2>5 DEF AgentPath
<1>6. CASE BuildPath(w)
  <2>1. CASE Build(w) \/ Poll(w) \/ Verified(w)
    BY <2>1, BuildStep
  <2>2. CASE Beat(w)
    BY <2>2, BeatStep
  <2>3. CASE Raise(w, "building") \/ Raise(w, "closing")
    BY <2>3, RaiseStep
  <2>4. CASE Destroyed(w)
    BY <2>4, LeaveStep, CrashesKept DEF Destroyed
  <2> QED
    BY <1>6, <2>1, <2>2, <2>3, <2>4 DEF BuildPath
<1>7. CASE Refresh(w, "failing", "retrying")
  BY <1>7, RefreshStep
<1>8. CASE RetryJob(w)
  BY <1>8, RetryJobStep
<1>9. CASE Crash(w)
  <2>1. crashes' \in 0..MaxCrashes
    BY <1>9, CrashesKept, CloudRuntimeAssumption DEF Crash
  <2> QED
    BY <1>9, <2>1, LeaveStep DEF Crash
<1> QED
  BY <1>1, <1>2, <1>3, <1>4, <1>5, <1>6, <1>7, <1>8, <1>9 DEF Work

LEMMA StutterStep == ASSUME IInv, UNCHANGED vars PROVE IInv'
BY RowStep, QuietRows DEF vars, workerVars

LEMMA IInvInit == ASSUME Init PROVE IInv
<1> USE CloudQueueAssumption, CloudRuntimeAssumption DEF Init
<1>1. TypeOK
  BY AbsentRow DEF TypeOK, Blank, Idle, Ops, Locations
<1>2. HeldAttempt /\ ExclusiveAttempt
  BY DEF HeldAttempt, ExclusiveAttempt, Holds
<1>3. OneResultPerAttempt /\ StoredWhenAcknowledged
  BY DEF OneResultPerAttempt, StoredWhenAcknowledged, Unstored
<1>4. CompletedHasResult /\ SeenAttempts /\ FailedExhausted /\ PendingKept
  BY DEF CompletedHasResult, SeenAttempts, FailedExhausted, PendingKept, Blank,
    Absent, Idle
<1> QED
  BY <1>1, <1>2, <1>3, <1>4 DEF IInv

LEMMA IInvNext == ASSUME IInv, [Next]_vars PROVE IInv'
<1>1. CASE \E w \in Workers : Work(w) \/ Crash(w)
  BY <1>1, WorkStep
<1>2. CASE \E j \in Jobs : \/ \E confirm \in BOOLEAN, capability \in Capabilities :
                                Create(j, confirm, capability)
                          \/ LeaseExpires(j)
                          \/ BecomesAvailable(j)
  BY <1>2, CreateStep, ClockStep
<1>3. CASE \E r \in Requests : Answer(r)
  BY <1>3, AnswerStep
<1>4. CASE \E r \in Requests, j \in Jobs :
             \/ AskCancel(r, j)
             \/ \E approved \in BOOLEAN : AskResume(r, j, approved)
  BY <1>4, AskStep DEF AskCancel, AskResume
<1>5. CASE UNCHANGED vars
  BY <1>5, StutterStep
<1> QED
  BY <1>1, <1>2, <1>3, <1>4, <1>5 DEF Next

\* The invariant that carries all the others (worker.py, queue.py).
THEOREM Invariance == Spec => []IInv
BY IInvInit, IInvNext, PTL DEF Spec

\* Every row, session and worker keeps to the values the code gives them.
THEOREM TypeCorrect == Spec => []TypeOK
<1>1. IInv => TypeOK
  BY DEF IInv
<1> QED
  BY <1>1, Invariance, PTL

\* No two workers ever carry out the same attempt of the same job, however
\* leases expire and workers crash: claim_next counts under the row lock.
THEOREM AttemptsAreExclusive == Spec => []ExclusiveAttempt
<1>1. IInv => ExclusiveAttempt
  BY DEF IInv
<1> QED
  BY <1>1, Invariance, PTL

\* An attempt stores its result at most once, and only counted attempts have
\* stored one, even if a worker that lost its lease goes on (_execute).
THEOREM ResultsAreUnique == Spec => []OneResultPerAttempt
<1>1. IInv => OneResultPerAttempt
  BY DEF IInv
<1> QED
  BY <1>1, Invariance, PTL

\* A COMPLETED row has a durable result, whoever acknowledged it, and
\* whatever it was overwritten by since (acknowledge has no guard).
THEOREM CompletionIsBacked == Spec => []CompletedHasResult
<1>1. IInv => CompletedHasResult
  BY DEF IInv
<1> QED
  BY <1>1, Invariance, PTL

\* A row is FAILED only when its attempts are used up, whichever of retry and
\* release_stale, on whatever stale copy of the row, wrote it.
THEOREM FailureIsExhaustion == Spec => []FailedExhausted
<1>1. IInv => FailedExhausted
  BY DEF IInv
<1> QED
  BY <1>1, Invariance, PTL

\* No job is executed whose confirmation is still pending, whatever cancel
\* and resume requests overlap (service.py, claim_next).
THEOREM ExecutionIsApproved == Spec => []ApprovedBeforeExecution
<1>1. IInv => ApprovedBeforeExecution
  BY DEF IInv, TypeOK, PendingKept, ApprovedBeforeExecution
<1> QED
  BY <1>1, Invariance, PTL
-----------------------------------------------------------------------------
(* The kinds of step a worker takes.                                       *)

\* What a failed try of n makes of a job.
Verdict(n) == IF n >= MaxAttempts THEN "FAILED" ELSE "RETRYING"

\* A session that loaded the status of the row writes s over it.
Says(old, loaded, new, s) ==
    /\ new.status \in {old.status, s}
    /\ loaded.status = old.status => new.status = s

LEMMA RetrySays ==
    ASSUME NEW db \in CloudJob, NEW loaded \in CloudJob
    PROVE  Says(db, loaded, Retry(db, loaded), Verdict(loaded.attempt_count))
BY CloudQueueAssumption DEF Retry, Flush, Says, Verdict

LEMMA ReleaseSays ==
    ASSUME NEW db \in CloudJob, NEW loaded \in CloudJob
    PROVE  Says(db, loaded, Release(db, loaded), Verdict(loaded.attempt_count))
BY CloudQueueAssumption DEF Release, Flush, Says, Verdict

LEMMA AcknowledgeSays ==
    ASSUME NEW db \in CloudJob, NEW loaded \in CloudJob
    PROVE  Says(db, loaded, Acknowledge(db, loaded), "COMPLETED")
BY DEF Acknowledge, Flush, Says

LEMMA ParkSays ==
    ASSUME NEW db \in CloudJob, NEW loaded \in CloudJob
    PROVE  Says(db, loaded, WaitForResource(db, loaded), "WAITING_FOR_RESOURCE")
BY DEF WaitForResource, Flush, Says

\* The four kinds of step a worker takes after its claim and before the next.
\* It reads: no row changes and it goes on with what it held.
Reads(w) ==
    /\ UNCHANGED <<row, job, request>>
    /\ Holds(w) <=> Holds(w)'
    /\ pc'[w] = "release" =>
          view'[w] = [j \in Jobs |-> IF Stale(row[j]) THEN row[j] ELSE Absent]
    /\ pc'[w] \in {"admit", "acking", "retrying"} =>
          Holds(w) /\ Loaded(w)' = row[job[w]]

\* It leaves without a word, the claimed job as it is.
Leaves(w) == UNCHANGED <<row, request>> /\ Return(w)

\* It writes its job's row, of which the queue keeps the count.
Writes(w, new) ==
    /\ Holds(w)
    /\ row' = [row EXCEPT ![job[w]] = new]
    /\ Keeps(row[job[w]], new)
    /\ UNCHANGED request

\* It writes and goes on with the job, ...
Proceeds(w, new) ==
    /\ Writes(w, new)
    /\ UNCHANGED job
    /\ \/ /\ pc'[w] \in {"planned", "generating", "building", "stored"}
          /\ new.status \in {row[job[w]].status, "PLANNING", "RUNNING"}
       \/ /\ pc[w] = "acking"
          /\ pc'[w] = "closing"
          /\ Says(row[job[w]], Loaded(w), new, "COMPLETED")

\* ... or it writes and returns.
Settles(w, new) ==
    /\ Writes(w, new)
    /\ Return(w)
    /\ \/ pc[w] = "admit" /\ Says(row[job[w]], Loaded(w), new, "WAITING_FOR_RESOURCE")
       \/ pc[w] = "acking" /\ Says(row[job[w]], Loaded(w), new, "COMPLETED")
       \/ /\ pc[w] = "retrying"
          /\ Says(row[job[w]], Loaded(w), new, Verdict(Loaded(w).attempt_count))
       \/ pc[w] = "unowned" /\ new.status = Verdict(row[job[w]].attempt_count)

Kinds(w) ==
    \/ ReleaseStale(w)
    \/ \E j \in Jobs : Claim(w, j)
    \/ Reads(w)
    \/ Leaves(w)
    \/ \E new \in CloudJob : Proceeds(w, new) \/ Settles(w, new)

LEMMA WrittenIn ==
    ASSUME NEW w \in Workers, NEW new,
           Proceeds(w, new) \/ Settles(w, new)
    PROVE  Kinds(w)
<1>1. new \in CloudJob
  BY DEF Proceeds, Settles, Writes, Keeps
<1> QED
  BY <1>1 DEF Kinds

LEMMA ReadsKinds ==
    ASSUME IInv, NEW w \in Workers,
           \/ Scan(w)
           \/ StoreResult(w) \/ LoadForAck(w)
           \/ Build(w) \/ Poll(w) \/ Verified(w)
    PROVE  Reads(w)
<1>t. /\ pc \in [Workers -> Locations]
      /\ view \in [Workers -> [Jobs -> CloudJob]]
      /\ Holds(w) => job[w] \in Jobs
  BY DEF IInv, TypeOK, HeldAttempt
<1>1. CASE Scan(w)
  BY <1>1, <1>t DEF Scan, Become, Reads, Holds
<1>2. CASE StoreResult(w)
  BY <1>2, <1>t DEF StoreResult, Become, Reads, Holds
<1>3. CASE LoadForAck(w)
  BY <1>3, <1>t DEF LoadForAck, Become, Reads, Holds, Loaded
<1>4. CASE Build(w) \/ Poll(w) \/ Verified(w)
  BY <1>4, <1>t DEF Build, Poll, Verified, Become, Reads, Holds
<1> QED
  BY <1>1, <1>2, <1>3, <1>4

LEMMA RaiseKinds ==
    ASSUME IInv, NEW w \in Workers, NEW from, Raise(w, from),
           from \in {"admit", "generating", "unowned", "storing", "building",
                     "closing"}
    PROVE  Reads(w)
BY DEF IInv, TypeOK, Raise, Become, Reads, Holds

LEMMA RefreshKinds ==
    ASSUME IInv, NEW w \in Workers, NEW from, NEW next, Refresh(w, from, next),
           <<from, next>> \in {<<"claimed", "admit">>, <<"planned", "start">>,
                              <<"generating", "storing">>,
                              <<"unowned", "storing">>, <<"failing", "retrying">>}
    PROVE  Reads(w) \/ Leaves(w)
<1>t. /\ pc \in [Workers -> Locations]
      /\ view \in [Workers -> [Jobs -> CloudJob]]
      /\ Holds(w) => job[w] \in Jobs
  BY DEF IInv, TypeOK, HeldAttempt
<1>1. CASE Return(w)
  BY <1>1 DEF Refresh, Leaves
<1>2. CASE ~Return(w)
  <2>1. /\ view' = [view EXCEPT ![w][job[w]] = row[job[w]]]
        /\ Become(w, next)
        /\ UNCHANGED <<row, results, job, attempt, request, crashes>>
    BY <1>2 DEF Refresh
  <2>2. Holds(w)
    BY DEF Refresh, Holds
  <2>3. Loaded(w)' = row[job[w]]
    BY <1>t, <2>1, <2>2 DEF Loaded
  <2> QED
    BY <1>t, <2>1, <2>2, <2>3 DEF Become, Reads, Holds
<1> QED
  BY <1>1, <1>2

LEMMA PlanKinds ==
    ASSUME IInv, NEW w \in Workers, Plan(w)
    PROVE  Kinds(w)
<1> DEFINE new == Flush(row[job[w]], Loaded(w),
                        [Loaded(w) EXCEPT !.status = "PLANNING"], {})
<1>1. Holds(w)
  BY DEF Plan, Holds
<1>2. Keeps(row[job[w]], new) /\ new.status \in {row[job[w]].status, "PLANNING"}
  BY <1>1, LoadedRow, StatusRow
<1>3. Commit(w, new, "planned")
  BY DEF Plan
<1> HIDE DEF new
<1>4. pc'[w] = "planned"
  BY <1>3 DEF IInv, TypeOK, Commit, Become
<1>5. Proceeds(w, new)
  BY <1>1, <1>2, <1>3, <1>4 DEF Commit, Proceeds, Writes
<1> QED
  BY <1>5, WrittenIn

LEMMA StartKinds ==
    ASSUME IInv, NEW w \in Workers, Start(w)
    PROVE  Kinds(w)
<1> DEFINE edited == [Loaded(w) EXCEPT !.status = "RUNNING"]
           new == Heartbeat(row[job[w]], Loaded(w), edited)
<1>1. Holds(w)
  BY DEF Start, Holds
<1>2. Keeps(row[job[w]], new) /\ new.status \in {row[job[w]].status, "RUNNING"}
  BY <1>1, LoadedRow, HeartbeatRow
<1>3. \/ Commit(w, new, "generating")
      \/ /\ Become(w, "unowned")
         /\ UNCHANGED <<row, results, job, attempt, view, request, crashes>>
  BY DEF Start
<1> HIDE DEF new
<1>4. CASE Commit(w, new, "generating")
  <2>1. pc'[w] = "generating"
    BY <1>4 DEF IInv, TypeOK, Commit, Become
  <2>2. Proceeds(w, new)
    BY <1>1, <1>2, <1>4, <2>1 DEF Commit, Proceeds, Writes
  <2> QED
    BY <2>2, WrittenIn
<1>5. CASE /\ Become(w, "unowned")
           /\ UNCHANGED <<row, results, job, attempt, view, request, crashes>>
  BY <1>1, <1>5 DEF IInv, TypeOK, Become, Kinds, Reads, Holds
<1> QED
  BY <1>3, <1>4, <1>5

LEMMA BeatKinds ==
    ASSUME IInv, NEW w \in Workers, Beat(w)
    PROVE  Kinds(w)
<1> DEFINE new == IF HeartbeatAccepted(Loaded(w), Loaded(w).claimed_by)
                  THEN Heartbeat(row[job[w]], Loaded(w), Loaded(w))
                  ELSE row[job[w]]
<1>1. Holds(w)
  BY DEF Beat, Holds
<1>2. Keeps(row[job[w]], new) /\ new.status = row[job[w]].status
  BY <1>1, LoadedRow DEF Keeps, Heartbeat, Flush
<1>3. Commit(w, new, "building")
  BY DEF Beat
<1> HIDE DEF new
<1>4. pc'[w] = "building"
  BY <1>3 DEF IInv, TypeOK, Commit, Become
<1>5. Proceeds(w, new)
  BY <1>1, <1>2, <1>3, <1>4 DEF Commit, Proceeds, Writes
<1> QED
  BY <1>5, WrittenIn

LEMMA StoreUnownedKinds ==
    ASSUME IInv, NEW w \in Workers, StoreUnowned(w)
    PROVE  Kinds(w)
<1> DEFINE new == PendingRunning(w)
<1>1. /\ Holds(w)
      /\ Keeps(row[job[w]], new)
      /\ new.status \in {row[job[w]].status, "RUNNING"}
  BY PendingRow DEF StoreUnowned
<1>2. /\ row' = [row EXCEPT ![job[w]] = new]
      /\ Become(w, "stored")
      /\ UNCHANGED <<job, request>>
  BY DEF StoreUnowned
<1> HIDE DEF new
<1>3. pc'[w] = "stored"
  BY <1>2 DEF IInv, TypeOK, Become
<1>4. Proceeds(w, new)
  BY <1>1, <1>2, <1>3 DEF Proceeds, Writes
<1> QED
  BY <1>4, WrittenIn

LEMMA AckKinds ==
    ASSUME IInv, NEW w \in Workers, Ack(w)
    PROVE  Kinds(w)
<1> DEFINE new == Acknowledge(row[job[w]], Loaded(w))
<1>1. Holds(w) /\ pc[w] = "acking"
  BY DEF Ack, Holds
<1>2. Keeps(row[job[w]], new) /\ Says(row[job[w]], Loaded(w), new, "COMPLETED")
  BY <1>1, LoadedRow, AcknowledgeRow, AcknowledgeSays
<1>3. /\ row' = [row EXCEPT ![job[w]] = new]
      /\ UNCHANGED request
      /\ Return(w) \/ (Become(w, "closing") /\ UNCHANGED job)
  BY DEF Ack
<1> HIDE DEF new
<1>4. CASE Return(w)
  BY <1>1, <1>2, <1>3, <1>4, WrittenIn DEF Settles, Writes
<1>5. CASE Become(w, "closing") /\ UNCHANGED job
  <2>1. pc'[w] = "closing"
    BY <1>5 DEF IInv, TypeOK, Become
  <2> QED
    BY <1>1, <1>2, <1>3, <1>5, <2>1, WrittenIn DEF Proceeds, Writes
<1> QED
  BY <1>3, <1>4, <1>5

LEMMA SettlesKinds ==
    ASSUME IInv, NEW w \in Workers, Park(w) \/ RetryJob(w) \/ FailUnowned(w)
    PROVE  Kinds(w)
<1>1. CASE Park(w)
  <2>1. Holds(w)
    BY <1>1 DEF Park, Holds
  <2>2. /\ Keeps(row[job[w]], WaitForResource(row[job[w]], Loaded(w)))
        /\ Says(row[job[w]], Loaded(w), WaitForResource(row[job[w]], Loaded(w)),
                "WAITING_FOR_RESOURCE")
    BY <2>1, LoadedRow, ParkRow, ParkSays
  <2> QED
    BY <1>1, <2>1, <2>2, WrittenIn DEF Park, Settles, Writes
<1>2. CASE RetryJob(w)
  <2>1. Holds(w)
    BY <1>2 DEF RetryJob, Holds
  <2>2. /\ Keeps(row[job[w]], Retry(row[job[w]], Loaded(w)))
        /\ Says(row[job[w]], Loaded(w), Retry(row[job[w]], Loaded(w)),
                Verdict(Loaded(w).attempt_count))
    BY <2>1, LoadedRow, RetryRow, RetrySays
  <2> QED
    BY <1>2, <2>1, <2>2, WrittenIn DEF RetryJob, Settles, Writes
<1>3. CASE FailUnowned(w)
  <2> DEFINE mid == PendingRunning(w)
             new == Retry(mid, mid)
  <2>1. Holds(w) /\ Keeps(row[job[w]], mid)
    BY <1>3, PendingRow DEF FailUnowned
  <2>2. /\ Keeps(mid, new)
        /\ new.status = Verdict(mid.attempt_count)
    BY <2>1, RetryRow, RetrySays DEF Keeps, Says
  <2>3. row' = [row EXCEPT ![job[w]] = new] /\ Return(w) /\ UNCHANGED request
        /\ pc[w] = "unowned"
    BY <1>3 DEF FailUnowned
  <2> HIDE DEF mid, new
  <2>4. Keeps(row[job[w]], new) /\ new.status = Verdict(row[job[w]].attempt_count)
    BY <2>1, <2>2 DEF Keeps
  <2> QED
    BY <2>1, <2>3, <2>4, WrittenIn DEF Settles, Writes
<1> QED
  BY <1>1, <1>2, <1>3

LEMMA WorkKinds ==
    ASSUME IInv, NEW w \in Workers, Work(w) \/ Crash(w)
    PROVE  Kinds(w)
<1>1. CASE ReleaseStale(w) \/ \E j \in Jobs : Claim(w, j)
  BY <1>1 DEF Kinds
<1>2. CASE NothingToClaim(w) \/ Destroyed(w) \/ Crash(w)
  BY <1>2 DEF NothingToClaim, Destroyed, Crash, Kinds, Leaves
<1>3. CASE \/ Scan(w)
           \/ StoreResult(w) \/ LoadForAck(w)
           \/ Build(w) \/ Poll(w) \/ Verified(w)
  BY <1>3, ReadsKinds DEF Kinds
<1>4. CASE \/ Raise(w, "admit")
           \/ Raise(w, "generating")
           \/ Raise(w, "unowned")
           \/ Raise(w, "storing")
           \/ Raise(w, "building")
           \/ Raise(w, "closing")
  BY <1>4, RaiseKinds DEF Kinds
<1>5. CASE \/ Refresh(w, "claimed", "admit")
           \/ Refresh(w, "planned", "start")
           \/ Refresh(w, "generating", "storing")
           \/ Refresh(w, "unowned", "storing")
           \/ Refresh(w, "failing", "retrying")
  BY <1>5, RefreshKinds DEF Kinds
<1>6. CASE Plan(w) \/ Start(w) \/ Beat(w) \/ StoreUnowned(w) \/ Ack(w)
  BY <1>6, PlanKinds, StartKinds, BeatKinds, StoreUnownedKinds, AckKinds
<1>7. CASE Park(w) \/ RetryJob(w) \/ FailUnowned(w)
  BY <1>7, SettlesKinds
<1> QED
  BY <1>1, <1>2, <1>3, <1>4, <1>5, <1>6, <1>7 DEF Work, AgentPath, BuildPath
-----------------------------------------------------------------------------
(* What a step of a worker leaves alone.                                   *)

OthersStay(w) ==
    \A v \in Workers \ {w} : /\ pc'[v] = pc[v]
                             /\ job'[v] = job[v]
                             /\ view'[v] = view[v]

LEMMA TypedRows ==
    IInv => /\ row \in [Jobs -> CloudJob]
            /\ \A j \in Jobs : row[j] \in CloudJob /\ row[j].attempt_count \in Nat
BY DEF IInv, TypeOK

LEMMA ReturnStays ==
    ASSUME IInv, NEW w \in Workers, Return(w)
    PROVE  OthersStay(w)
BY DEF IInv, TypeOK, Return, Become, OthersStay

LEMMA BecomeStays ==
    ASSUME IInv, NEW w \in Workers, NEW l, Become(w, l),
           UNCHANGED job \/ \E j \in Jobs : job' = [job EXCEPT ![w] = j],
           \/ UNCHANGED view
           \/ \E x : view' = [view EXCEPT ![w] = x]
    PROVE  OthersStay(w)
BY DEF IInv, TypeOK, Become, OthersStay

LEMMA LoadStays ==
    ASSUME NEW w \in Workers, view' = [view EXCEPT ![w][job[w]] = row[job[w]]]
    PROVE  \E x : view' = [view EXCEPT ![w] = x]
<1>1. view' = [view EXCEPT ![w] = [view[w] EXCEPT ![job[w]] = row[job[w]]]]
  OBVIOUS
<1> QED
  BY <1>1

LEMMA WorkStays ==
    ASSUME IInv, NEW w \in Workers, Work(w) \/ Crash(w)
    PROVE  OthersStay(w)
<1>1. CASE Scan(w) \/ ReleaseStale(w) \/ \E j \in Jobs : Claim(w, j)
  BY <1>1, BecomeStays DEF Scan, ReleaseStale, Claim
<1>2. CASE \/ NothingToClaim(w) \/ Destroyed(w) \/ Crash(w)
           \/ Park(w) \/ RetryJob(w) \/ FailUnowned(w)
  BY <1>2, ReturnStays
  DEF NothingToClaim, Destroyed, Crash, Park, RetryJob, FailUnowned
<1>3. ASSUME NEW from, NEW next, Refresh(w, from, next)
      PROVE  OthersStay(w)
  BY <1>3, ReturnStays, BecomeStays, LoadStays DEF Refresh
<1>4. ASSUME NEW from, Raise(w, from)
      PROVE  OthersStay(w)
  BY <1>4, BecomeStays DEF Raise
<1>5. CASE Plan(w) \/ Start(w) \/ Beat(w)
  BY <1>5, BecomeStays DEF Plan, Start, Beat, Commit
<1>6. CASE StoreResult(w) \/ StoreUnowned(w) \/ Build(w) \/ Verified(w)
  BY <1>6, BecomeStays DEF StoreResult, StoreUnowned, Build, Verified
<1>7. CASE LoadForAck(w) \/ Poll(w)
  BY <1>7, BecomeStays, LoadStays DEF LoadForAck, Poll
<1>8. CASE Ack(w)
  BY <1>8, BecomeStays, ReturnStays DEF Ack
<1> QED
  BY <1>1, <1>2, <1>3, <1>4, <1>5, <1>6, <1>7, <1>8 DEF Work, AgentPath, BuildPath

-----------------------------------------------------------------------------
(* The tries of a job are bounded.  Once its last regular attempt has been *)
(* claimed, every copy that counts less and every approval under way may   *)
(* bring it back once, and none of them is replaced.                       *)

\* w is about to judge the attempts of j on a copy that counts too few.
Low(w, j) ==
    \/ /\ pc[w] = "release"
       /\ Stale(view[w][j])
       /\ view[w][j].attempt_count < MaxAttempts
    \/ /\ pc[w] = "retrying"
       /\ job[w] = j
       /\ Loaded(w).attempt_count < MaxAttempts

Approving(r, j) == request[r].op = "resume" /\ request[r].job = j

Lows(j)      == {w \in Workers : Low(w, j)}
Approvals(j) == {r \in Requests : Approving(r, j)}
Queued(j)    == IF row[j].status \in ACTIVE THEN 1 ELSE 0

\* The tries that were made, and those that may still be.
Spent(j) ==
    row[j].attempt_count + Queued(j)
        + Cardinality(Lows(j)) + Cardinality(Approvals(j))

\* A row without a confirmation pending owes that to a request that is over,
\* or to none.
Bounded ==
    \A j \in Jobs :
        /\ row[j].attempt_count >= MaxAttempts => Spent(j) <= MaxTries
        /\ ~row[j].pending => Requests = {} \/ \E r \in Requests : ~Approving(r, j)

LEMMA OthersCount ==
    ASSUME NEW S, IsFiniteSet(S)
    PROVE  /\ Others(S) \in Nat
           /\ \A T \in SUBSET S : T # S \/ S = {} => Cardinality(T) <= Others(S)
<1>1. CASE S = {}
  BY <1>1, FS_EmptySet DEF Others
<1>2. CASE S # {}
  <2>1. Cardinality(S) \in Nat /\ Cardinality(S) # 0
    BY <1>2, FS_EmptySet, FS_CardinalityType
  <2>2. Others(S) = Cardinality(S) - 1
    BY <1>2 DEF Others
  <2>3. ASSUME NEW T \in SUBSET S, T # S
        PROVE  Cardinality(T) <= Others(S)
    <3>1. /\ IsFiniteSet(T)
          /\ Cardinality(T) <= Cardinality(S)
          /\ Cardinality(T) # Cardinality(S)
      BY <2>3, FS_Subset
    <3>2. Cardinality(T) \in Nat
      BY <3>1, FS_CardinalityType
    <3> QED
      BY <2>1, <2>2, <3>1, <3>2
  <2> QED
    BY <1>2, <2>1, <2>2, <2>3
<1> QED
  BY <1>1, <1>2

LEMMA MaxTriesCount == MaxTries \in Nat /\ MaxAttempts <= MaxTries
<1>1. IsFiniteSet(Workers) /\ IsFiniteSet(Requests)
  BY CloudRuntimeAssumption
<1>2. Others(Workers) \in Nat /\ Others(Requests) \in Nat
  BY <1>1, OthersCount
<1> HIDE DEF Others
<1> QED
  BY <1>2, CloudQueueAssumption DEF MaxTries

LEMMA Counted ==
    \A j : /\ IsFiniteSet(Lows(j)) /\ Cardinality(Lows(j)) \in Nat
           /\ IsFiniteSet(Approvals(j)) /\ Cardinality(Approvals(j)) \in Nat
           /\ Queued(j) \in {0, 1}
<1> TAKE j
<1>1. Lows(j) \in SUBSET Workers /\ Approvals(j) \in SUBSET Requests
  BY DEF Lows, Approvals
<1> QED
  BY <1>1, FS_Subset, FS_CardinalityType, CloudRuntimeAssumption DEF Queued

\* A step that claims nothing: what brings the job back is spent by it.
LEMMA Fading ==
    ASSUME NEW j, row[j].attempt_count \in Nat,
           row'[j].attempt_count = row[j].attempt_count,
           Lows(j)' \subseteq Lows(j),
           Approvals(j)' \subseteq Approvals(j),
           row'[j].status \in ACTIVE => \/ row[j].status \in ACTIVE
                                        \/ Lows(j)' # Lows(j)
                                        \/ Approvals(j)' # Approvals(j),
           Spent(j) <= MaxTries
    PROVE  Spent(j)' <= MaxTries
<1> DEFINE l  == Cardinality(Lows(j))
           a  == Cardinality(Approvals(j))
           lp == Cardinality(Lows(j)')
           ap == Cardinality(Approvals(j)')
<1>1. /\ IsFiniteSet(Lows(j)) /\ IsFiniteSet(Approvals(j))
      /\ l \in Nat /\ a \in Nat /\ Queued(j) \in {0, 1}
  BY Counted
<1>2. /\ IsFiniteSet(Lows(j)') /\ lp <= l /\ (Lows(j)' # Lows(j) => lp # l)
  BY <1>1, FS_Subset
<1>3. /\ IsFiniteSet(Approvals(j)') /\ ap <= a
      /\ (Approvals(j)' # Approvals(j) => ap # a)
  BY <1>1, FS_Subset
<1>4. lp \in Nat /\ ap \in Nat
  BY <1>2, <1>3, FS_CardinalityType
<1>5. Queued(j)' \in {0, 1}
  BY DEF Queued
<1>6. Queued(j)' = 1 => Queued(j) = 1 \/ lp # l \/ ap # a
  BY <1>2, <1>3 DEF Queued
<1>7. Spent(j) = row[j].attempt_count + Queued(j) + l + a
  BY DEF Spent
<1>8. Spent(j)' = row[j].attempt_count + Queued(j)' + lp + ap
  BY DEF Spent
<1>9. MaxTries \in Nat
  BY MaxTriesCount
<1> HIDE DEF l, a, lp, ap
<1> QED
  BY <1>1, <1>2, <1>3, <1>4, <1>5, <1>6, <1>7, <1>8, <1>9

\* An active row comes from a try that failed and was not the last.
LEMMA VerdictLeaves ==
    ASSUME NEW n \in Nat, Verdict(n) \in ACTIVE
    PROVE  n < MaxAttempts
BY CloudQueueAssumption DEF Verdict

\* A step of a worker, or of nobody, that claims nothing and answers nothing.
LEMMA BoundedFades ==
    ASSUME IInv, Bounded, UNCHANGED request,
           \A j \in Jobs : Keeps(row[j], row'[j]),
           \A j \in Jobs : row[j].attempt_count >= MaxAttempts =>
              /\ Lows(j)' \subseteq Lows(j)
              /\ row'[j].status \in ACTIVE => \/ row[j].status \in ACTIVE
                                              \/ Lows(j)' # Lows(j)
    PROVE  Bounded'
<1> SUFFICES ASSUME NEW j \in Jobs
             PROVE  /\ row'[j].attempt_count >= MaxAttempts => Spent(j)' <= MaxTries
                    /\ ~row'[j].pending =>
                          Requests = {} \/ \E r \in Requests : ~Approving(r, j)'
  BY DEF Bounded
<1>1. /\ row[j].attempt_count \in Nat
      /\ row'[j].attempt_count = row[j].attempt_count
      /\ row'[j].pending = row[j].pending
  BY TypedRows DEF Keeps
<1>2. Approvals(j)' = Approvals(j)
  BY DEF Approvals, Approving
<1>3. row'[j].attempt_count >= MaxAttempts => Spent(j)' <= MaxTries
  BY <1>1, <1>2, Fading DEF Bounded
<1> QED
  BY <1>1, <1>3 DEF Bounded, Approving

LEMMA BoundedTurn ==
    ASSUME IInv, Bounded, NEW w \in Workers, OthersStay(w),
           \/ Reads(w)
           \/ Leaves(w)
           \/ \E new \in CloudJob : Proceeds(w, new) \/ Settles(w, new)
    PROVE  Bounded'
<1>t. /\ pc \in [Workers -> Locations]
      /\ job \in [Workers -> Jobs \cup {NoJob}]
      /\ row \in [Jobs -> CloudJob]
      /\ Holds(w) => job[w] \in Jobs
  BY DEF IInv, TypeOK, HeldAttempt
<1>o. ASSUME NEW j, NEW v \in Workers \ {w}
      PROVE  Low(v, j)' <=> Low(v, j)
  BY <1>o DEF OthersStay, Low, Loaded
<1>1. CASE Reads(w)
  <2>1. \A j \in Jobs : Keeps(row[j], row'[j])
    BY <1>1, <1>t DEF Reads, Keeps
  <2>2. ASSUME NEW j \in Jobs, row[j].attempt_count >= MaxAttempts
        PROVE  ~Low(w, j)'
    <3>1. pc'[w] = "release" => view'[w][j] \in {row[j], Absent}
      BY <1>1 DEF Reads
    <3>2. pc'[w] = "retrying" => Loaded(w)' = row[job[w]] /\ job'[w] = job[w]
      BY <1>1 DEF Reads
    <3>3. row[j].attempt_count \in Nat /\ ~Stale(Absent)
      BY TypedRows DEF Stale, Absent
    <3>4. ~(row[j].attempt_count < MaxAttempts)
      BY <2>2, <3>3, CloudQueueAssumption
    <3> QED
      BY <3>1, <3>2, <3>3, <3>4 DEF Low
  <2>3. \A j \in Jobs : row[j].attempt_count >= MaxAttempts => Lows(j)' \subseteq Lows(j)
    BY <1>o, <2>2 DEF Lows
  <2> QED
    BY <1>1, <2>1, <2>3, BoundedFades DEF Reads
<1>2. CASE Leaves(w)
  <2>1. \A j \in Jobs : Keeps(row[j], row'[j])
    BY <1>2, <1>t DEF Leaves, Keeps
  <2>2. pc'[w] = "idle"
    BY <1>2, <1>t DEF Leaves, Return, Become
  <2>3. \A j \in Jobs : Lows(j)' \subseteq Lows(j)
    BY <1>o, <2>2 DEF Lows, Low
  <2> QED
    BY <1>2, <2>1, <2>3, BoundedFades DEF Leaves
<1>3. ASSUME NEW new \in CloudJob, Proceeds(w, new) \/ Settles(w, new)
      PROVE  Bounded'
  <2>1. /\ job[w] \in Jobs
        /\ row' = [row EXCEPT ![job[w]] = new]
        /\ Keeps(row[job[w]], new)
        /\ UNCHANGED request
    BY <1>3, <1>t DEF Proceeds, Settles, Writes
  <2>2. pc'[w] \notin {"release", "retrying"}
    BY <1>3, <1>t DEF Proceeds, Settles, Return, Become
  <2>3. \A j \in Jobs : Lows(j)' \subseteq Lows(j) /\ w \notin Lows(j)'
    BY <1>o, <2>2 DEF Lows, Low
  <2>4. \A j \in Jobs : Keeps(row[j], row'[j])
    BY <1>t, <2>1 DEF Keeps
  <2>5. ASSUME row[job[w]].attempt_count >= MaxAttempts, new.status \in ACTIVE
        PROVE  row[job[w]].status \in ACTIVE \/ Low(w, job[w])
    <3>1. row[job[w]].attempt_count \in Nat /\ ~(row[job[w]].attempt_count < MaxAttempts)
      BY <2>1, <2>5, TypedRows, CloudQueueAssumption
    <3>2. Loaded(w).attempt_count \in Nat
      BY <1>3, LoadedRow DEF Proceeds, Settles, Writes
    <3>3. CASE new.status \in {row[job[w]].status, "PLANNING", "RUNNING", "COMPLETED",
                               "WAITING_FOR_RESOURCE"}
      BY <2>5, <3>3
    <3>4. CASE new.status = Verdict(row[job[w]].attempt_count)
      BY <2>5, <3>1, <3>4, VerdictLeaves
    <3>5. CASE pc[w] = "retrying" /\ new.status = Verdict(Loaded(w).attempt_count)
      <4>1. Loaded(w).attempt_count < MaxAttempts
        BY <2>5, <3>2, <3>5, VerdictLeaves
      <4> QED
        BY <3>5, <4>1 DEF Low
    <3> QED
      BY <1>3, <3>3, <3>4, <3>5 DEF Proceeds, Settles, Says
  <2>6. ASSUME NEW j \in Jobs, row[j].attempt_count >= MaxAttempts,
               row'[j].status \in ACTIVE
        PROVE  row[j].status \in ACTIVE \/ Lows(j)' # Lows(j)
    <3>1. CASE j = job[w]
      BY <1>t, <2>1, <2>3, <2>5, <2>6, <3>1 DEF Lows
    <3>2. CASE j # job[w]
      BY <1>t, <2>1, <2>6, <3>2
    <3> QED
      BY <3>1, <3>2
  <2> QED
    BY <2>1, <2>3, <2>4, <2>6, BoundedFades
<1> QED
  BY <1>1, <1>2, <1>3

LEMMA BoundedRelease ==
    ASSUME IInv, Bounded, NEW w \in Workers, OthersStay(w), ReleaseStale(w)
    PROVE  Bounded'
<1>t. /\ pc \in [Workers -> Locations]
      /\ row \in [Jobs -> CloudJob]
      /\ view[w] \in [Jobs -> CloudJob]
  BY DEF IInv, TypeOK
<1>1. pc[w] = "release" /\ pc'[w] = "claim" /\ UNCHANGED request
  BY <1>t DEF ReleaseStale, Become
<1>2. ASSUME NEW j, NEW v \in Workers \ {w}
      PROVE  Low(v, j)' <=> Low(v, j)
  BY <1>2 DEF OthersStay, Low, Loaded
<1>3. \A j \in Jobs : Lows(j)' \subseteq Lows(j) /\ w \notin Lows(j)'
  BY <1>1, <1>2 DEF Lows, Low
<1>4. ASSUME NEW j \in Jobs
      PROVE  /\ Keeps(row[j], row'[j])
             /\ row'[j].status \in ACTIVE => row[j].status \in ACTIVE \/ Low(w, j)
  <2>1. CASE Stale(view[w][j])
    <3>1. row'[j] = Release(row[j], view[w][j])
      BY <2>1 DEF ReleaseStale
    <3>2. /\ Keeps(row[j], row'[j])
          /\ Says(row[j], view[w][j], row'[j], Verdict(view[w][j].attempt_count))
      BY <1>t, <3>1, ReleaseRow, ReleaseSays
    <3>3. view[w][j].attempt_count \in Nat
      BY <1>t
    <3> QED
      BY <1>1, <2>1, <3>2, <3>3, VerdictLeaves DEF Says, Low
  <2>2. CASE ~Stale(view[w][j])
    BY <1>t, <2>2 DEF ReleaseStale, Keeps
  <2> QED
    BY <2>1, <2>2
<1>5. \A j \in Jobs : row'[j].status \in ACTIVE =>
                          row[j].status \in ACTIVE \/ Lows(j)' # Lows(j)
  BY <1>3, <1>4 DEF Lows
<1> QED
  BY <1>1, <1>3, <1>4, <1>5, BoundedFades

\* The claim of the last regular attempt: every other worker and every other
\* request may hold what brings the job back, and nobody else.
LEMMA BoundedClaim ==
    ASSUME IInv, Bounded, NEW w \in Workers, NEW j \in Jobs, OthersStay(w),
           Claim(w, j)
    PROVE  Bounded'
<1> DEFINE new == ClaimNext(row[j], WorkerId[w])
<1>t. /\ pc \in [Workers -> Locations]
      /\ row \in [Jobs -> CloudJob]
      /\ row[j].attempt_count \in Nat
  BY TypedRows DEF IInv, TypeOK
<1>1. /\ row' = [row EXCEPT ![j] = new]
      /\ UNCHANGED request
      /\ pc[w] = "claim" /\ pc'[w] = "claimed"
      /\ row[j].status \in ACTIVE /\ ~row[j].pending
  BY <1>t DEF Claim, Become, Visible, Claimable, IInv, PendingKept
<1>2. /\ new.attempt_count = row[j].attempt_count + 1
      /\ new.status = "RUNNING"
      /\ new.pending = row[j].pending
  BY TypedRows, ClaimRow, CloudRuntimeAssumption
<1> HIDE DEF new
<1>3. ASSUME NEW k, NEW v \in Workers \ {w}
      PROVE  Low(v, k)' <=> Low(v, k)
  BY <1>3 DEF OthersStay, Low, Loaded
<1>4. \A k : Lows(k)' \subseteq Lows(k) /\ w \notin Lows(k)' /\ w \notin Lows(k)
  BY <1>1, <1>3 DEF Lows, Low
<1>5. \A k : Approvals(k)' = Approvals(k)
  BY <1>1 DEF Approvals, Approving
<1>6. row'[j] = new /\ \A k \in Jobs : k # j => row'[k] = row[k]
  BY <1>t, <1>1
<1>7. ASSUME NEW k \in Jobs, ~row'[k].pending
      PROVE  Requests = {} \/ \E r \in Requests : ~Approving(r, k)'
  BY <1>1, <1>2, <1>6, <1>7 DEF Bounded, Approving
<1>8. ASSUME NEW k \in Jobs, k # j, row'[k].attempt_count >= MaxAttempts
      PROVE  Spent(k)' <= MaxTries
  <2>1. row[k].attempt_count \in Nat /\ row'[k] = row[k]
    BY <1>6, <1>8, TypedRows
  <2> QED
    BY <1>4, <1>5, <1>8, <2>1, Fading DEF Bounded
<1>9. Spent(j)' = row[j].attempt_count + 1 + 0 + Cardinality(Lows(j)')
                      + Cardinality(Approvals(j)')
  BY <1>2, <1>6 DEF Spent, Queued
<1>10. ASSUME row'[j].attempt_count >= MaxAttempts
       PROVE  Spent(j)' <= MaxTries
  <2>1. CASE row[j].attempt_count >= MaxAttempts
    <3>1. Spent(j) <= MaxTries
      BY <2>1 DEF Bounded
    <3>2. Spent(j) = row[j].attempt_count + 1 + Cardinality(Lows(j))
                        + Cardinality(Approvals(j))
      BY <1>1 DEF Spent, Queued
    <3>3. /\ IsFiniteSet(Lows(j)) /\ Cardinality(Lows(j)) \in Nat
          /\ Cardinality(Approvals(j)) \in Nat
      BY Counted
    <3>4. Cardinality(Lows(j)') <= Cardinality(Lows(j)) /\ IsFiniteSet(Lows(j)')
      BY <1>4, <3>3, FS_Subset
    <3>5. Cardinality(Lows(j)') \in Nat
      BY <3>4, FS_CardinalityType
    <3>6. Cardinality(Approvals(j)') = Cardinality(Approvals(j))
      BY <1>5
    <3>7. MaxTries \in Nat
      BY MaxTriesCount
    <3> QED
      BY <1>t, <1>9, <3>1, <3>2, <3>3, <3>4, <3>5, <3>6, <3>7
  <2>2. CASE ~(row[j].attempt_count >= MaxAttempts)
    <3>0. row'[j].attempt_count = row[j].attempt_count + 1 /\ MaxAttempts \in Nat
      BY <1>2, <1>6, CloudQueueAssumption
    <3>1. row[j].attempt_count + 1 = MaxAttempts
      <4> DEFINE n == row[j].attempt_count
      <4>1. n \in Nat /\ MaxAttempts \in Nat
        BY <1>t, <3>0
      <4>2. n + 1 >= MaxAttempts /\ ~(n >= MaxAttempts)
        BY <1>10, <2>2, <3>0
      <4> HIDE DEF n
      <4>3. n + 1 = MaxAttempts
        BY <4>1, <4>2
      <4> QED
        BY <4>3 DEF n
    <3>2. Lows(j)' \in SUBSET Workers /\ Lows(j)' # Workers
      BY <1>4 DEF Lows
    <3>3. Cardinality(Lows(j)') <= Others(Workers) /\ Others(Workers) \in Nat
      BY <3>2, OthersCount, CloudRuntimeAssumption
    <3>4. Approvals(j)' \in SUBSET Requests
      BY DEF Approvals
    <3>5. Requests = {} \/ Approvals(j)' # Requests
      BY <1>1, <1>5 DEF Bounded, Approvals
    <3>6. Cardinality(Approvals(j)') <= Others(Requests) /\ Others(Requests) \in Nat
      BY <3>4, <3>5, OthersCount, CloudRuntimeAssumption
    <3>7. Cardinality(Lows(j)') \in Nat /\ Cardinality(Approvals(j)') \in Nat
      BY <3>2, <3>4, FS_Subset, FS_CardinalityType, CloudRuntimeAssumption
    <3> HIDE DEF Others
    <3> QED
      BY <1>9, <3>1, <3>3, <3>6, <3>7, CloudQueueAssumption DEF MaxTries
  <2> QED
    BY <2>1, <2>2
<1> QED
  BY <1>7, <1>8, <1>10 DEF Bounded

\* Nobody has an approval under way for a row that does not exist, and a new
\* one has used no attempt.
LEMMA BoundedCreate ==
    ASSUME IInv, Bounded, NEW j \in Jobs, NEW confirm \in BOOLEAN,
           NEW capability \in Capabilities, Create(j, confirm, capability)
    PROVE  Bounded'
<1>1. /\ row[j] = Absent
      /\ row' = [row EXCEPT ![j] = Created(confirm, capability)]
      /\ UNCHANGED <<pc, job, view, request>>
  BY DEF Create, workerVars
<1>2. Absent.attempt_count = 0 /\ ~Absent.pending
  BY DEF Absent
<1>3. /\ row'[j].attempt_count = 0 /\ ~(0 >= MaxAttempts)
      /\ \A k \in Jobs : k # j => row'[k] = row[k]
  <2> DEFINE new == Created(confirm, capability)
  <2>1. new.attempt_count = 0
    BY DEF Created, Absent
  <2> HIDE DEF new
  <2>2. row' = [row EXCEPT ![j] = new]
    BY <1>1 DEF new
  <2>3. row'[j] = new /\ \A k \in Jobs : k # j => row'[k] = row[k]
    BY <2>2, TypedRows
  <2>4. ~(0 >= MaxAttempts)
    BY CloudQueueAssumption
  <2> QED
    BY <2>1, <2>3, <2>4
<1>4. \A k : Lows(k)' = Lows(k) /\ Approvals(k)' = Approvals(k)
  BY <1>1 DEF Lows, Low, Loaded, Approvals, Approving
<1>5. ASSUME NEW k \in Jobs, row'[k].attempt_count >= MaxAttempts
      PROVE  Spent(k)' <= MaxTries
  <2>1. k # j /\ row'[k] = row[k] /\ row[k].attempt_count \in Nat
    BY <1>3, <1>5, TypedRows
  <2> QED
    BY <1>4, <1>5, <2>1, Fading DEF Bounded
<1>6. ASSUME NEW k \in Jobs, ~row'[k].pending
      PROVE  Requests = {} \/ \E r \in Requests : ~Approving(r, k)'
  <2>1. ~row[k].pending
    BY <1>1, <1>2, <1>3, <1>6
  <2> QED
    BY <1>1, <2>1 DEF Bounded, Approving
<1> QED
  BY <1>5, <1>6 DEF Bounded

LEMMA ClockRow ==
    ASSUME IInv, NEW j \in Jobs, LeaseExpires(j) \/ BecomesAvailable(j)
    PROVE  /\ \A k \in Jobs : Keeps(row[k], row'[k]) /\ row'[k].status = row[k].status
           /\ UNCHANGED <<pc, job, view, request>>
<1>1. UNCHANGED <<pc, job, view, request>>
  BY DEF LeaseExpires, BecomesAvailable, workerVars
<1>k. \A k \in Jobs : Keeps(row[k], row[k])
  BY TypedRows DEF Keeps
<1>2. CASE LeaseExpires(j)
  <2> DEFINE new == [row[j] EXCEPT !.lease = "expired"]
  <2>1. Keeps(row[j], new) /\ new.status = row[j].status
    BY TypedRows DEF Keeps
  <2>2. row' = [row EXCEPT ![j] = new]
    BY <1>2 DEF LeaseExpires
  <2> HIDE DEF new
  <2>3. row'[j] = new /\ \A k \in Jobs : k # j => row'[k] = row[k]
    BY <2>2, TypedRows
  <2> QED
    BY <1>1, <1>k, <2>1, <2>3
<1>3. CASE BecomesAvailable(j)
  <2> DEFINE new == [row[j] EXCEPT !.ready = TRUE]
  <2>1. Keeps(row[j], new) /\ new.status = row[j].status
    BY TypedRows, ReadyRow
  <2>2. row' = [row EXCEPT ![j] = new]
    BY <1>3 DEF BecomesAvailable
  <2> HIDE DEF new
  <2>3. row'[j] = new /\ \A k \in Jobs : k # j => row'[k] = row[k]
    BY <2>2, TypedRows
  <2> QED
    BY <1>1, <1>k, <2>1, <2>3
<1> QED
  BY <1>1, <1>2, <1>3

LEMMA BoundedClock ==
    ASSUME IInv, Bounded, NEW j \in Jobs, LeaseExpires(j) \/ BecomesAvailable(j)
    PROVE  Bounded'
<1>1. \A k : Lows(k)' = Lows(k)
  BY ClockRow DEF Lows, Low, Loaded
<1> QED
  BY <1>1, ClockRow, BoundedFades

\* An approval begins only for a row that waits for it.
LEMMA BoundedAsk ==
    ASSUME IInv, Bounded, NEW r \in Requests, NEW op \in {"cancel", "resume"},
           NEW j \in Jobs, Ask(r, op, j),
           op = "resume" => row[j].status = "WAITING_FOR_USER"
    PROVE  Bounded'
<1>1. /\ request' = [request EXCEPT ![r] = [op |-> op, job |-> j, seen |-> row[j]]]
      /\ request \in [Requests -> [op : Ops, job : Jobs \cup {NoJob}, seen : CloudJob]]
      /\ UNCHANGED <<row, pc, job, view>>
  BY DEF Ask, workerVars, IInv, TypeOK
<1>2. op = "resume" => row[j].pending /\ row[j].attempt_count = 0
  BY DEF IInv, PendingKept
<1>3. ASSUME NEW k \in Jobs, op = "cancel" \/ k # j, NEW q \in Requests, Approving(q, k)'
      PROVE  Approving(q, k)
  BY <1>1, <1>3 DEF Approving
<1>4. ASSUME NEW k \in Jobs, row'[k].attempt_count >= MaxAttempts
      PROVE  Spent(k)' <= MaxTries
  <2>1. ~(0 >= MaxAttempts)
    BY CloudQueueAssumption
  <2>2. op = "cancel" \/ k # j
    BY <1>1, <1>2, <1>4, <2>1
  <2>3. Approvals(k)' \subseteq Approvals(k)
    BY <1>3, <2>2 DEF Approvals
  <2>4. Lows(k)' = Lows(k)
    BY <1>1 DEF Lows, Low, Loaded
  <2> QED
    BY <1>1, <1>4, <2>3, <2>4, TypedRows, Fading DEF Bounded
<1>5. ASSUME NEW k \in Jobs, ~row'[k].pending
      PROVE  Requests = {} \/ \E q \in Requests : ~Approving(q, k)'
  <2>1. op = "cancel" \/ k # j
    BY <1>1, <1>2, <1>5
  <2> QED
    BY <1>1, <1>3, <1>5, <2>1 DEF Bounded
<1> QED
  BY <1>4, <1>5 DEF Bounded

\* The row that a request is answered on.
LEMMA AnsweredRow ==
    ASSUME IInv, NEW r \in Requests, Answer(r)
    PROVE  LET j == request[r].job
           IN /\ j \in Jobs
              /\ row'[j].attempt_count = row[j].attempt_count
              /\ \A k \in Jobs : k # j => row'[k] = row[k]
              /\ \/ /\ request[r].op = "cancel"
                    /\ row'[j].status \in {row[j].status, "CANCELLED"}
                    /\ row'[j].pending = row[j].pending
                 \/ /\ request[r].op = "resume"
                    /\ row'[j].status = "QUEUED"
              /\ request' = [request EXCEPT ![r] = Idle]
              /\ UNCHANGED <<pc, job, view>>
<1> DEFINE j == request[r].job
           seen == request[r].seen
<1>1. /\ row \in [Jobs -> CloudJob]
      /\ j \in Jobs
      /\ seen \in CloudJob
      /\ request[r].op = "resume" =>
            seen.pending /\ seen.status = "WAITING_FOR_USER"
      /\ request' = [request EXCEPT ![r] = Idle]
      /\ UNCHANGED <<pc, job, view>>
  BY DEF Answer, IInv, TypeOK, PendingKept, workerVars
<1>2. CASE request[r].op = "cancel" /\ row' = [row EXCEPT ![j] = Cancel(row[j], seen)]
  <2>1. /\ Keeps(row[j], Cancel(row[j], seen))
        /\ Cancel(row[j], seen).status \in {row[j].status, "CANCELLED"}
    BY <1>1, CancelRow
  <2> QED
    BY <1>1, <1>2, <2>1 DEF Keeps
<1>3. CASE request[r].op = "resume" /\ row' = [row EXCEPT ![j] = Resume(row[j], seen)]
  <2>1. /\ Resume(row[j], seen).attempt_count = row[j].attempt_count
        /\ Resume(row[j], seen).status = "QUEUED"
    BY <1>1, <1>3, ResumeRow
  <2> QED
    BY <1>1, <1>3, <2>1
<1> QED
  BY <1>2, <1>3 DEF Answer

LEMMA BoundedAnswer ==
    ASSUME IInv, Bounded, NEW r \in Requests, Answer(r)
    PROVE  Bounded'
<1> DEFINE j == request[r].job
<1>1. /\ j \in Jobs
      /\ row'[j].attempt_count = row[j].attempt_count
      /\ \A k \in Jobs : k # j => row'[k] = row[k]
      /\ \/ /\ request[r].op = "cancel"
            /\ row'[j].status \in {row[j].status, "CANCELLED"}
            /\ row'[j].pending = row[j].pending
         \/ /\ request[r].op = "resume"
            /\ row'[j].status = "QUEUED"
      /\ request' = [request EXCEPT ![r] = Idle]
      /\ request \in [Requests -> [op : Ops, job : Jobs \cup {NoJob}, seen : CloudJob]]
      /\ UNCHANGED <<pc, job, view>>
  BY AnsweredRow DEF IInv, TypeOK
<1> HIDE DEF j
<1>2. \A k : Lows(k)' = Lows(k)
  BY <1>1 DEF Lows, Low, Loaded
<1>3. \A k : ~Approving(r, k)'
  BY <1>1 DEF Approving, Idle
<1>4. \A k, q : q \in Requests /\ Approving(q, k)' => Approving(q, k)
  BY <1>1 DEF Approving, Idle
<1>5. \A k : Approvals(k)' \subseteq Approvals(k)
  BY <1>4 DEF Approvals
<1>6. ASSUME NEW k \in Jobs, row'[k].attempt_count >= MaxAttempts
      PROVE  Spent(k)' <= MaxTries
  <2>1. row'[k].attempt_count = row[k].attempt_count /\ row[k].attempt_count \in Nat
    BY <1>1, TypedRows
  <2>2. row'[k].status \in ACTIVE =>
           row[k].status \in ACTIVE \/ Approvals(k)' # Approvals(k)
    <3>1. CASE request[r].op = "resume" /\ k = j
      BY <1>3, <3>1 DEF Approvals, Approving, j
    <3>2. CASE request[r].op = "cancel" \/ k # j
      BY <1>1, <3>2
    <3> QED
      BY <1>1, <3>1, <3>2
  <2> QED
    BY <1>2, <1>5, <1>6, <2>1, <2>2, Fading DEF Bounded
<1>7. \A k \in Jobs : \E q \in Requests : ~Approving(q, k)'
  BY <1>3
<1> QED
  BY <1>6, <1>7 DEF Bounded

LEMMA BoundedInit == ASSUME Init PROVE Bounded
<1>1. \A j \in Jobs : row[j].attempt_count = 0 /\ ~(0 >= MaxAttempts)
  BY CloudQueueAssumption DEF Init, Absent
<1>2. \A r \in Requests : \A j : ~Approving(r, j)
  BY DEF Init, Idle, Approving
<1> QED
  BY <1>1, <1>2 DEF Bounded

LEMMA BoundedNext == ASSUME IInv, Bounded, [Next]_vars PROVE Bounded'
<1>1. ASSUME NEW w \in Workers, Work(w) \/ Crash(w)
      PROVE  Bounded'
  BY <1>1, WorkKinds, WorkStays, BoundedTurn, BoundedRelease, BoundedClaim DEF Kinds
<1>2. CASE \E j \in Jobs : \/ \E confirm \in BOOLEAN, capability \in Capabilities :
                                Create(j, confirm, capability)
                          \/ LeaseExpires(j)
                          \/ BecomesAvailable(j)
  BY <1>2, BoundedCreate, BoundedClock
<1>3. CASE \E r \in Requests : Answer(r)
  BY <1>3, BoundedAnswer
<1>4. CASE \E r \in Requests, j \in Jobs :
             \/ AskCancel(r, j)
             \/ \E approved \in BOOLEAN : AskResume(r, j, approved)
  BY <1>4, BoundedAsk DEF AskCancel, AskResume
<1>5. CASE UNCHANGED vars
  <2>1. \A j \in Jobs : Keeps(row[j], row'[j])
    BY <1>5, TypedRows DEF vars, Keeps
  <2>2. \A j : Lows(j)' = Lows(j)
    BY <1>5 DEF vars, Lows, Low, Loaded
  <2> QED
    BY <1>5, <2>1, <2>2, BoundedFades DEF vars
<1> QED
  BY <1>1, <1>2, <1>3, <1>4, <1>5 DEF Next

\* What the bound on the spent tries says of the rows.
LEMMA BoundedRows ==
    ASSUME IInv, Bounded, NEW j \in Jobs
    PROVE  /\ row[j].attempt_count <= MaxTries
           /\ row[j].status \in ACTIVE => row[j].attempt_count < MaxTries
<1>1. /\ row[j].attempt_count \in Nat
      /\ Cardinality(Lows(j)) \in Nat
      /\ Cardinality(Approvals(j)) \in Nat
      /\ Queued(j) \in {0, 1}
  BY TypedRows, Counted
<1>2. MaxTries \in Nat /\ MaxAttempts <= MaxTries
  BY MaxTriesCount
<1>3. CASE row[j].attempt_count >= MaxAttempts
  <2>1. Spent(j) <= MaxTries
    BY <1>3 DEF Bounded
  <2>2. row[j].status \in ACTIVE => Queued(j) = 1
    BY DEF Queued
  <2> QED
    BY <1>1, <1>2, <2>1, <2>2 DEF Spent
<1>4. CASE ~(row[j].attempt_count >= MaxAttempts)
  BY <1>1, <1>2, <1>4, CloudQueueAssumption
<1> QED
  BY <1>3, <1>4

\* The whole invariant.
LEMMA BothInvariants == Spec => [](IInv /\ Bounded)
<1>1. Init => IInv /\ Bounded
  BY IInvInit, BoundedInit
<1>2. (IInv /\ Bounded) /\ [Next]_vars => (IInv /\ Bounded)'
  BY IInvNext, BoundedNext
<1> QED
  BY <1>1, <1>2, PTL DEF Spec

\* No job is tried more often than MaxAttempts and once for every other worker
\* and every other request: whatever crashes, expired leases, stale scans,
\* cancels and approvals come together (retry and release_stale judge the
\* attempts on copies of the row, and only copies read before the last attempt
\* was claimed judge wrongly).  With the one worker of the deployment
\* (render.yaml) and requests that do not overlap it is MaxAttempts itself.
THEOREM RetriesAreBounded == Spec => []BoundedRetry
<1>1. IInv /\ Bounded => BoundedRetry
  BY BoundedRows DEF BoundedRetry
<1> QED
  BY <1>1, BothInvariants, PTL
-----------------------------------------------------------------------------
(* The runtime implements the lifecycle of its jobs.                       *)

\* Where a row of status s stands once nobody minds it.
Rest(s) ==
    CASE s \in {"RUNNING", "PLANNING"} -> "running"
      [] s = "NONE" -> "none"
      [] s = "WAITING_FOR_USER" -> "waiting"
      [] s \in ACTIVE -> "ready"
      [] s = "WAITING_FOR_RESOURCE" -> "parked"
      [] s = "COMPLETED" -> "done"
      [] s = "FAILED" -> "failed"
      [] s = "CANCELLED" -> "cancelled"

\* How a job may stand after it has been tried n times.
Ends(n, s) ==
    \/ s \in {"running", "done", "parked", "cancelled"}
    \/ s = "ready" /\ n < MaxTries
    \/ s = "failed" /\ n >= MaxAttempts

Tried == \A j \in Jobs :
            row[j].attempt_count > 0 => Ends(row[j].attempt_count, Rest(row[j].status))

\* A row that is cancelled is not asked to be cancelled again.
Asking == \A r \in Requests :
            request[r].op = "cancel" => request[r].seen.status # "CANCELLED"

Whole == IInv /\ Bounded /\ Asking

LEMMA StandsAs ==
    IInv => \A j \in Jobs :
               /\ Standing[j] = IF Busy(j) THEN "running" ELSE Rest(row[j].status)
               /\ Standing[j] \in Promise!States
               /\ Tries[j] = row[j].attempt_count
<1> SUFFICES ASSUME IInv, NEW j \in Jobs
             PROVE  /\ Standing[j] = IF Busy(j) THEN "running" ELSE Rest(row[j].status)
                    /\ Standing[j] \in Promise!States
                    /\ Tries[j] = row[j].attempt_count
  OBVIOUS
<1>1. row[j].status \in Statuses
  BY TypedRows
<1>2. LifecycleState(j) = IF Busy(j) THEN "running" ELSE Rest(row[j].status)
  BY <1>1 DEF LifecycleState, Rest
<1>3. Rest(row[j].status) \in Promise!States
  BY <1>1 DEF Rest, Promise!States
<1>4. "running" \in Promise!States
  BY DEF Promise!States
<1> QED
  BY <1>2, <1>3, <1>4 DEF Standing, Tries

\* Whoever minds a job minds one that was tried.
LEMMA MindedIsTried ==
    ASSUME IInv, NEW w \in Workers, NEW j \in Jobs, Minds(w, j)
    PROVE  row[j].attempt_count > 0
<1>1. row[j].attempt_count \in Nat /\ view[w][j].attempt_count \in Nat
  BY TypedRows DEF IInv, TypeOK
<1>2. CASE job[w] = j
  <2>1. attempt[w] \in 1..MaxClaims /\ attempt[w] <= row[j].attempt_count
    BY <1>2, CloudRuntimeAssumption DEF IInv, HeldAttempt
  <2> QED
    BY <1>1, <2>1, CloudRuntimeAssumption
<1>3. CASE Stale(view[w][j])
  <2>1. /\ view[w][j].attempt_count > 0
        /\ view[w][j].attempt_count <= row[j].attempt_count
    BY <1>3 DEF Stale, IInv, SeenAttempts
  <2> QED
    BY <1>1, <2>1
<1> QED
  BY <1>2, <1>3 DEF Minds

LEMMA TriedRows == IInv /\ Bounded => Tried
<1> SUFFICES ASSUME IInv, Bounded, NEW j \in Jobs, row[j].attempt_count > 0
             PROVE  Ends(row[j].attempt_count, Rest(row[j].status))
  BY DEF Tried
<1>1. row[j].status \in Statuses \ {"NONE", "WAITING_FOR_USER"}
  BY TypedRows DEF IInv, PendingKept
<1>2. row[j].status \in ACTIVE => row[j].attempt_count < MaxTries
  BY BoundedRows
<1>3. row[j].status = "FAILED" => row[j].attempt_count >= MaxAttempts
  BY DEF IInv, FailedExhausted
<1> QED
  BY <1>1, <1>2, <1>3 DEF Ends, Rest

\* A turn of one worker that claims nothing: it moves only jobs it minds.
LEMMA TurnSettles ==
    ASSUME Whole, Whole', NEW w \in Workers, OthersStay(w), UNCHANGED request,
           \A j \in Jobs :
              /\ row'[j].attempt_count = row[j].attempt_count
              /\ ~Minds(w, j) => row'[j].status = row[j].status
              /\ Minds(w, j)' => Minds(w, j) \/ row[j].status = "RUNNING"
    PROVE  Promise!Settle
<1>1. Asked' = Asked
  BY DEF Asked
<1>2. Tries' = Tries
  BY DEF Tries
<1>3. Tried'
  BY TriedRows, PTL DEF Whole
<1>4. \A j \in Jobs :
         /\ Standing[j] = IF Busy(j) THEN "running" ELSE Rest(row[j].status)
         /\ Tries[j] = row[j].attempt_count
  BY StandsAs DEF Whole
<1>5. \A j \in Jobs :
         /\ Standing'[j] = IF Busy(j)' THEN "running" ELSE Rest(row'[j].status)
         /\ Standing'[j] \in Promise!States
  <2>1. (\A j \in Jobs :
           /\ Standing[j] = IF Busy(j) THEN "running" ELSE Rest(row[j].status)
           /\ Standing[j] \in Promise!States
           /\ Tries[j] = row[j].attempt_count)'
    BY StandsAs, PTL DEF Whole
  <2> QED
    BY <2>1
<1>6. Standing' \in [Jobs -> Promise!States]
  BY <1>5 DEF Standing
<1>7. ASSUME NEW j \in Jobs, Standing'[j] # Standing[j]
      PROVE  Standing[j] = "running" /\ Promise!Outcome(j, Standing'[j])
  <2>1. \A v \in Workers \ {w} : Minds(v, j)' <=> Minds(v, j)
    BY DEF OthersStay, Minds
  <2>2. CASE Minds(w, j)
    <3>1. Standing[j] = "running"
      BY <1>4, <2>2 DEF Busy
    <3>2. Standing'[j] = Rest(row'[j].status)
      BY <1>5, <1>7, <3>1
    <3>3. row[j].attempt_count > 0
      BY <2>2, MindedIsTried DEF Whole
    <3>4. Ends(row[j].attempt_count, Rest(row'[j].status))
      BY <1>3, <3>3 DEF Tried
    <3> QED
      BY <1>4, <1>7, <3>1, <3>2, <3>4 DEF Ends, Promise!Outcome
  <2>3. CASE ~Minds(w, j)
    <3>1. row'[j].status = row[j].status
      BY <2>3
    <3>2. CASE row[j].status = "RUNNING"
      <4>1. Rest("RUNNING") = "running"
        BY DEF Rest
      <4> QED
        BY <1>4, <1>5, <1>7, <3>1, <3>2, <4>1
    <3>3. CASE row[j].status # "RUNNING"
      <4>1. Busy(j)' <=> Busy(j)
        BY <2>1, <2>3, <3>3 DEF Busy
      <4> QED
        BY <1>4, <1>5, <1>7, <3>1, <4>1
    <3> QED
      BY <3>2, <3>3
  <2> QED
    BY <2>2, <2>3
<1> QED
  BY <1>1, <1>2, <1>6, <1>7 DEF Promise!Settle

LEMMA WorkSettles ==
    ASSUME Whole, Whole', NEW w \in Workers, OthersStay(w),
           \/ ReleaseStale(w)
           \/ Reads(w)
           \/ Leaves(w)
           \/ \E new \in CloudJob : Proceeds(w, new) \/ Settles(w, new)
    PROVE  Promise!Settle
<1>t. /\ IInv
      /\ pc \in [Workers -> Locations]
      /\ job \in [Workers -> Jobs \cup {NoJob}]
      /\ row \in [Jobs -> CloudJob]
      /\ view \in [Workers -> [Jobs -> CloudJob]]
      /\ NoJob \notin Jobs
  BY CloudRuntimeAssumption DEF Whole, IInv, TypeOK
<1>0. ASSUME Return(w), NEW j \in Jobs PROVE ~Minds(w, j)'
  BY <1>0, <1>t DEF Return, Become, Minds
<1>1. CASE ReleaseStale(w)
  <2>1. /\ pc[w] = "release" /\ pc'[w] = "claim"
        /\ UNCHANGED <<job, request>>
    BY <1>1, <1>t DEF ReleaseStale, Become
  <2>2. ASSUME NEW j \in Jobs
        PROVE  /\ row'[j].attempt_count = row[j].attempt_count
               /\ ~Minds(w, j) => row'[j].status = row[j].status
    <3>1. CASE Stale(view[w][j])
      <4>1. row'[j] = Release(row[j], view[w][j])
        BY <1>1, <3>1 DEF ReleaseStale
      <4>2. row[j] \in CloudJob /\ view[w][j] \in CloudJob
        BY <1>t
      <4>3. Keeps(row[j], Release(row[j], view[w][j]))
        BY <4>2, ReleaseRow
      <4> QED
        BY <2>1, <3>1, <4>1, <4>3 DEF Keeps, Minds
    <3>2. CASE ~Stale(view[w][j])
      BY <1>1, <3>2 DEF ReleaseStale
    <3> QED
      BY <3>1, <3>2
  <2>3. \A j \in Jobs : Minds(w, j)' => Minds(w, j)
    BY <2>1 DEF Minds
  <2> QED
    BY <2>1, <2>2, <2>3, TurnSettles
<1>2. CASE Reads(w)
  <2>1. UNCHANGED <<row, job, request>>
    BY <1>2 DEF Reads
  <2>2. ASSUME NEW j \in Jobs, Minds(w, j)'
        PROVE  Minds(w, j) \/ row[j].status = "RUNNING"
    BY <1>2, <2>2 DEF Reads, Minds, Stale, Absent
  <2> QED
    BY <2>1, <2>2, TurnSettles
<1>3. CASE Leaves(w)
  BY <1>0, <1>3, TurnSettles DEF Leaves
<1>4. ASSUME NEW new \in CloudJob, Writes(w, new),
             \A j \in Jobs : Minds(w, j)' => Minds(w, j)
      PROVE  Promise!Settle
  <2>1. /\ job[w] \in Jobs
        /\ row' = [row EXCEPT ![job[w]] = new]
        /\ new.attempt_count = row[job[w]].attempt_count
        /\ UNCHANGED request
    BY <1>4, <1>t, LoadedRow DEF Writes, Keeps
  <2>2. \A j \in Jobs : /\ row'[j].attempt_count = row[j].attempt_count
                        /\ j # job[w] => row'[j] = row[j]
    BY <1>t, <2>1
  <2>3. \A j \in Jobs : ~Minds(w, j) => row'[j].status = row[j].status
    BY <2>2 DEF Minds
  <2> QED
    BY <1>4, <2>1, <2>2, <2>3, TurnSettles
<1>5. ASSUME NEW new \in CloudJob, Proceeds(w, new)
      PROVE  Promise!Settle
  <2>1. \A j \in Jobs : Minds(w, j)' => Minds(w, j)
    BY <1>5 DEF Proceeds, Minds
  <2> QED
    BY <1>4, <1>5, <2>1 DEF Proceeds
<1>6. ASSUME NEW new \in CloudJob, Settles(w, new)
      PROVE  Promise!Settle
  BY <1>0, <1>4, <1>6 DEF Settles
<1> QED
  BY <1>1, <1>2, <1>3, <1>5, <1>6

\* The same before and after a step.
LEMMA StandsThen ==
    ASSUME IInv, IInv', NEW k \in Jobs
    PROVE  /\ Standing[k] = IF Busy(k) THEN "running" ELSE Rest(row[k].status)
           /\ Standing'[k] = IF Busy(k)' THEN "running" ELSE Rest(row'[k].status)
           /\ Tries[k] = row[k].attempt_count
           /\ Tries'[k] = row'[k].attempt_count
<1>1. (\A j \in Jobs :
         /\ Standing[j] = IF Busy(j) THEN "running" ELSE Rest(row[j].status)
         /\ Standing[j] \in Promise!States
         /\ Tries[j] = row[j].attempt_count)'
  <2>1. IInv'
    OBVIOUS
  <2> QED
    BY <2>1, StandsAs, PTL
<1> QED
  BY <1>1, StandsAs

LEMMA ActiveRows ==
    IInv /\ Bounded =>
       \A j \in Jobs : row[j].status \in ACTIVE => row[j].attempt_count < MaxTries
BY BoundedRows

\* The functions that the refinement maps to, one job at a time.
LEMMA MappedTo ==
    ASSUME NEW j \in Jobs, NEW s
    PROVE  /\ Standing' = [Standing EXCEPT ![j] = s] <=>
                 /\ Standing'[j] = s
                 /\ \A k \in Jobs : k # j => Standing'[k] = Standing[k]
           /\ Tries' = [Tries EXCEPT ![j] = s] <=>
                 /\ Tries'[j] = s
                 /\ \A k \in Jobs : k # j => Tries'[k] = Tries[k]
<1> DEFINE F == [k \in Jobs |-> LifecycleState(k)]
           G == [k \in Jobs |-> LifecycleState(k)']
           M == [k \in Jobs |-> row[k].attempt_count]
           N == [k \in Jobs |-> row'[k].attempt_count]
<1>1. /\ DOMAIN F = Jobs /\ F = [k \in Jobs |-> F[k]]
      /\ DOMAIN G = Jobs /\ G = [k \in Jobs |-> G[k]]
      /\ DOMAIN M = Jobs /\ M = [k \in Jobs |-> M[k]]
      /\ DOMAIN N = Jobs /\ N = [k \in Jobs |-> N[k]]
  OBVIOUS
<1>2. Standing = F /\ Standing' = G /\ Tries = M /\ Tries' = N
  BY DEF Standing, Tries
<1> HIDE DEF F, G, M, N
<1>3. G = [F EXCEPT ![j] = s] <=> G[j] = s /\ \A k \in Jobs : k # j => G[k] = F[k]
  BY <1>1
<1>4. N = [M EXCEPT ![j] = s] <=> N[j] = s /\ \A k \in Jobs : k # j => N[k] = M[k]
  BY <1>1
<1> QED
  BY <1>2, <1>3, <1>4

LEMMA ClaimStarts ==
    ASSUME Whole, Whole', NEW w \in Workers, OthersStay(w),
           NEW j \in Jobs, Claim(w, j)
    PROVE  Promise!Start(j)
<1> DEFINE new == ClaimNext(row[j], WorkerId[w])
<1>t. /\ IInv /\ IInv'
      /\ pc \in [Workers -> Locations]
      /\ job \in [Workers -> Jobs \cup {NoJob}]
      /\ row \in [Jobs -> CloudJob]
      /\ NoJob \notin Jobs
  BY CloudRuntimeAssumption DEF Whole, IInv, TypeOK
<1>1. /\ row' = [row EXCEPT ![j] = new]
      /\ job' = [job EXCEPT ![w] = j]
      /\ UNCHANGED request
      /\ pc[w] = "claim" /\ pc'[w] = "claimed"
      /\ row[j].status \in ACTIVE
  BY <1>t DEF Claim, Become, Visible, Claimable
<1>2. new.attempt_count = row[j].attempt_count + 1
  BY TypedRows, <1>t, ClaimRow, CloudRuntimeAssumption
<1> HIDE DEF new
<1>3. row'[j] = new /\ \A k \in Jobs : k # j => row'[k] = row[k]
  BY <1>t, <1>1
<1>4. job[w] = NoJob
  BY <1>t, <1>1 DEF IInv, HeldAttempt, Holds
<1>5. ASSUME NEW k \in Jobs, k # j
      PROVE  Standing'[k] = Standing[k] /\ Tries'[k] = Tries[k]
  <2>1. \A v \in Workers \ {w} : Minds(v, k)' <=> Minds(v, k)
    BY DEF OthersStay, Minds
  <2>2. ~Minds(w, k) /\ ~Minds(w, k)'
    BY <1>t, <1>1, <1>4, <1>5 DEF Minds
  <2>3. Busy(k)' <=> Busy(k)
    BY <2>1, <2>2 DEF Busy
  <2> QED
    BY <1>t, <1>3, <1>5, <2>3, StandsThen
<1>6. Standing'[j] = "running"
  <2>1. Busy(j)'
    BY <1>t, <1>1 DEF Busy, Minds
  <2> QED
    BY <1>t, <2>1, StandsThen
<1>7. Standing[j] \in {"ready", "running"}
  BY <1>t, <1>1, StandsThen DEF Rest
<1>8. Tries'[j] = Tries[j] + 1 /\ Tries[j] < MaxTries
  BY <1>t, <1>1, <1>2, <1>3, StandsThen, BoundedRows DEF Whole
<1>9. /\ Standing' = [Standing EXCEPT ![j] = "running"]
      /\ Tries' = [Tries EXCEPT ![j] = Tries[j] + 1]
  BY <1>5, <1>6, <1>8, MappedTo
<1>10. Asked' = Asked
  BY <1>1 DEF Asked
<1> QED
  BY <1>7, <1>8, <1>9, <1>10 DEF Promise!Start

\* No worker moves when a row is created, the clock ticks or a request writes.
LEMMA BusyStays ==
    ASSUME UNCHANGED <<pc, job, view>>, NEW j
    PROVE  Busy(j)' <=> Busy(j)
BY DEF Busy, Minds

LEMMA CreateSubmits ==
    ASSUME Whole, Whole', NEW j \in Jobs, NEW confirm \in BOOLEAN,
           NEW capability \in Capabilities, Create(j, confirm, capability)
    PROVE  Promise!Submit(j)
<1> DEFINE new == Created(confirm, capability)
<1>1. /\ IInv /\ IInv'
      /\ row[j] = Absent
      /\ row' = [row EXCEPT ![j] = new]
      /\ UNCHANGED <<pc, job, view, request>>
  BY DEF Whole, Create, workerVars
<1>2. /\ new.attempt_count = 0
      /\ new.status \in {"QUEUED", "WAITING_FOR_USER"}
      /\ Absent.attempt_count = 0
      /\ Absent.status = "NONE"
  BY DEF Created, Absent
<1> HIDE DEF new
<1>3. row'[j] = new /\ \A k \in Jobs : k # j => row'[k] = row[k]
  BY <1>1, TypedRows
<1>4. ~Busy(j) /\ ~Busy(j)'
  <2>1. ~Busy(j)
    BY <1>1, <1>2, MindedIsTried DEF Busy
  <2> QED
    BY <1>1, <2>1, BusyStays
<1>5. Standing[j] = "none" /\ Standing'[j] \in {"ready", "waiting"}
  BY <1>1, <1>2, <1>3, <1>4, StandsThen DEF Rest
<1>6. \A k \in Jobs : k # j => Standing'[k] = Standing[k]
  BY <1>1, <1>3, StandsThen, BusyStays
<1>7. Tries' = Tries
  BY <1>1, <1>2, <1>3 DEF Tries
<1>8. Asked' = Asked
  BY <1>1 DEF Asked
<1>9. Standing' = [Standing EXCEPT ![j] = Standing'[j]]
  BY <1>6, MappedTo
<1> QED
  BY <1>5, <1>7, <1>8, <1>9 DEF Promise!Submit

LEMMA ClockStutters ==
    ASSUME Whole, Whole', NEW j \in Jobs, LeaseExpires(j) \/ BecomesAvailable(j)
    PROVE  UNCHANGED <<Standing, Tries, Asked>>
<1>1. /\ IInv /\ IInv'
      /\ UNCHANGED <<pc, job, view, request>>
      /\ \A k \in Jobs : /\ row'[k].status = row[k].status
                         /\ row'[k].attempt_count = row[k].attempt_count
  BY ClockRow DEF Whole, Keeps
<1>2. Standing' = Standing
  <2>1. \A k \in Jobs : LifecycleState(k)' = LifecycleState(k)
    BY <1>1, StandsThen, BusyStays DEF Standing
  <2> QED
    BY <2>1 DEF Standing
<1>3. Tries' = Tries /\ Asked' = Asked
  BY <1>1 DEF Tries, Asked
<1> QED
  BY <1>2, <1>3

LEMMA AskAsks ==
    ASSUME Whole, Whole', NEW r \in Requests, NEW j \in Jobs,
           AskCancel(r, j) \/ \E approved \in BOOLEAN : AskResume(r, j, approved)
    PROVE  \E op \in {"cancel", "resume"} : Promise!Ask(r, j, op)
<1>1. PICK op \in {"cancel", "resume"} :
         /\ Ask(r, op, j)
         /\ IF op = "resume" THEN row[j].status = "WAITING_FOR_USER"
            ELSE row[j].status \notin TERMINAL \cup {"NONE"}
  BY DEF AskCancel, AskResume
<1>2. /\ IInv
      /\ request \in [Requests -> [op : Ops, job : Jobs \cup {NoJob}, seen : CloudJob]]
      /\ request[r] = Idle
      /\ request' = [request EXCEPT ![r] = [op |-> op, job |-> j, seen |-> row[j]]]
      /\ UNCHANGED <<row, pc, job, view>>
  BY <1>1 DEF Ask, workerVars, Whole, IInv, TypeOK
<1>3. Standing[j] = IF Busy(j) THEN "running" ELSE Rest(row[j].status)
  BY <1>2, StandsAs
<1>4. op = "resume" => Standing[j] = "waiting"
  <2>1. op = "resume" => row[j].attempt_count = 0
    BY <1>1, <1>2 DEF IInv, PendingKept
  <2>2. op = "resume" => ~Busy(j)
    BY <1>2, <2>1, MindedIsTried DEF Busy
  <2> QED
    BY <1>1, <1>3, <2>2 DEF Rest
<1>5. op = "cancel" => Standing[j] \notin {"none", "done", "failed", "cancelled"}
  <2>1. row[j].status \in Statuses
    BY <1>2, TypedRows
  <2> QED
    BY <1>1, <1>3, <2>1 DEF Rest
<1>6. Asked[r] = Promise!Nothing
  BY <1>2 DEF Asked, Idle, Promise!Nothing
<1>7. Asked' = [Asked EXCEPT ![r] = [op |-> op, job |-> j]]
  BY <1>2 DEF Asked
<1>8. Tries' = Tries
  BY <1>2 DEF Tries
<1>9. Standing' = Standing
  BY <1>2 DEF Standing, LifecycleState, Busy, Minds
<1> QED
  BY <1>4, <1>5, <1>6, <1>7, <1>8, <1>9 DEF Promise!Ask

\* A cancel that was read of a row not cancelled writes CANCELLED.
LEMMA CancelWrites ==
    ASSUME NEW db \in CloudJob, NEW loaded \in CloudJob, loaded.status # "CANCELLED"
    PROVE  Cancel(db, loaded).status = "CANCELLED"
BY DEF Cancel, Flush

LEMMA AnswerAnswers ==
    ASSUME Whole, Whole', NEW r \in Requests, Answer(r)
    PROVE  Promise!Answer(r)
<1> DEFINE i == request[r].job
           s == IF request[r].op = "cancel" THEN "cancelled" ELSE "ready"
<1>1. /\ IInv /\ IInv' /\ Bounded'
      /\ request \in [Requests -> [op : Ops, job : Jobs \cup {NoJob}, seen : CloudJob]]
      /\ request' = [request EXCEPT ![r] = Idle]
      /\ request[r].op \in {"cancel", "resume"}
      /\ UNCHANGED <<pc, job, view>>
  BY AnsweredRow DEF Whole, IInv, TypeOK
<1>2. /\ i \in Jobs
      /\ row'[i].attempt_count = row[i].attempt_count
      /\ \A k \in Jobs : k # i => row'[k] = row[k]
      /\ request[r].op = "resume" => row'[i].status = "QUEUED"
  BY <1>1, AnsweredRow
<1>3. request[r].op = "cancel" => row'[i].status = "CANCELLED"
  <2> SUFFICES ASSUME request[r].op = "cancel" PROVE row'[i].status = "CANCELLED"
    OBVIOUS
  <2>1. row' = [row EXCEPT ![i] = Cancel(row[i], request[r].seen)]
    BY DEF Answer
  <2>2. request[r].seen.status # "CANCELLED" /\ request[r].seen \in CloudJob
    BY <1>1 DEF Whole, Asking
  <2>3. row[i] \in CloudJob
    BY <1>1, <1>2, TypedRows
  <2>4. Cancel(row[i], request[r].seen).status = "CANCELLED"
    BY <2>2, <2>3, CancelWrites
  <2>5. row'[i] = Cancel(row[i], request[r].seen)
    BY <1>1, <1>2, <2>1, TypedRows
  <2> QED
    BY <2>4, <2>5
<1>4. Asked[r] # Promise!Nothing /\ Asked[r].job = i /\ Asked[r].op = request[r].op
  BY <1>1 DEF Asked, Promise!Nothing
<1>5. Asked' = [Asked EXCEPT ![r] = Promise!Nothing]
  BY <1>1 DEF Asked, Idle, Promise!Nothing
<1> HIDE DEF i
<1>6. \A k \in Jobs : k # i => Standing'[k] = Standing[k]
  BY <1>1, <1>2, StandsThen, BusyStays
<1>7. Tries' = Tries
  BY <1>2 DEF Tries
<1>8. CASE Busy(i)
  <2>1. Standing[i] = "running" /\ Standing'[i] = "running"
    BY <1>1, <1>2, <1>8, StandsThen, BusyStays
  <2>2. Standing' = Standing
    <3>1. \A k \in Jobs : LifecycleState(k)' = LifecycleState(k)
      BY <1>6, <2>1 DEF Standing
    <3> QED
      BY <3>1 DEF Standing
  <2> QED
    BY <1>4, <1>5, <1>7, <2>1, <2>2 DEF Promise!Answer
<1>9. CASE ~Busy(i)
  <2>1. Standing'[i] = s
    <3>1. Standing'[i] = Rest(row'[i].status)
      BY <1>1, <1>2, <1>9, StandsThen, BusyStays
    <3>2. row'[i].status = IF request[r].op = "cancel" THEN "CANCELLED" ELSE "QUEUED"
      BY <1>1, <1>2, <1>3
    <3> QED
      BY <3>1, <3>2 DEF Rest
  <2>2. s = "ready" => Tries[i] < MaxTries
    <3>1. (\A j \in Jobs : row[j].status \in ACTIVE => row[j].attempt_count < MaxTries)'
      BY <1>1, ActiveRows, PTL
    <3> QED
      BY <1>1, <1>2, <3>1, StandsThen
  <2>3. Standing' = [Standing EXCEPT ![i] = s]
    BY <1>2, <1>6, <2>1, MappedTo
  <2> QED
    BY <1>4, <1>5, <1>7, <2>2, <2>3 DEF Promise!Answer
<1> QED
  BY <1>8, <1>9

LEMMA WorkMaps ==
    ASSUME Whole, Whole', NEW w \in Workers, Work(w) \/ Crash(w)
    PROVE  [Promise!Next]_(Promise!lifecycle)
<1>1. Kinds(w) /\ OthersStay(w)
  BY WorkKinds, WorkStays DEF Whole
<1>2. CASE \E j \in Jobs : Claim(w, j)
  BY <1>1, <1>2, ClaimStarts DEF Promise!Next
<1>3. CASE ~\E j \in Jobs : Claim(w, j)
  <2>1. Promise!Settle
    BY <1>1, <1>3, WorkSettles DEF Kinds
  <2> QED
    BY <2>1 DEF Promise!Next
<1> QED
  BY <1>2, <1>3

LEMMA AskingNext ==
    ASSUME Whole, [Next]_vars
    PROVE  Asking'
<1>1. CASE UNCHANGED request
  BY <1>1 DEF Whole, Asking
<1>2. ASSUME NEW r \in Requests, Answer(r)
      PROVE  Asking'
  BY <1>2 DEF Whole, IInv, TypeOK, Answer, Asking, Idle
<1>3. ASSUME NEW r \in Requests, NEW j \in Jobs,
             AskCancel(r, j) \/ \E approved \in BOOLEAN : AskResume(r, j, approved)
      PROVE  Asking'
  <2>1. /\ \E op : request' =
               [request EXCEPT ![r] = [op |-> op, job |-> j, seen |-> row[j]]]
        /\ row[j].status # "CANCELLED"
    BY <1>3 DEF AskCancel, AskResume, Ask
  <2>2. request \in [Requests -> [op : Ops, job : Jobs \cup {NoJob}, seen : CloudJob]]
    BY DEF Whole, IInv, TypeOK
  <2>3. \A q \in Requests : \/ request'[q] = request[q]
                            \/ request'[q].seen.status # "CANCELLED"
    BY <2>1, <2>2
  <2> QED
    BY <2>3 DEF Whole, Asking
<1>4. ASSUME NEW w \in Workers, Work(w) \/ Crash(w)
      PROVE  UNCHANGED request
  <2>1. Kinds(w)
    BY <1>4, WorkKinds DEF Whole
  <2> QED
    BY <2>1
    DEF Kinds, ReleaseStale, Claim, Reads, Leaves, Proceeds, Settles, Writes
<1>5. ASSUME NEW j \in Jobs,
             \/ \E confirm \in BOOLEAN, capability \in Capabilities :
                   Create(j, confirm, capability)
             \/ LeaseExpires(j)
             \/ BecomesAvailable(j)
      PROVE  UNCHANGED request
  BY <1>5 DEF Create, LeaseExpires, BecomesAvailable
<1> QED
  BY <1>1, <1>2, <1>3, <1>4, <1>5 DEF Next, vars

LEMMA WholeInvariance == Spec => []Whole
<1>1. Init => Whole
  BY IInvInit, BoundedInit DEF Init, Idle, Asking, Whole
<1>2. Whole /\ [Next]_vars => Whole'
  BY IInvNext, BoundedNext, AskingNext DEF Whole
<1> QED
  BY <1>1, <1>2, PTL DEF Spec

LEMMA InitMaps == Init => Promise!Init
<1> SUFFICES ASSUME Init PROVE Promise!Init
  OBVIOUS
<1>1. \A j \in Jobs : ~Busy(j)
  BY CloudRuntimeAssumption DEF Init, Busy, Minds
<1>2. \A j \in Jobs : row[j].status = "NONE" /\ row[j].attempt_count = 0
  BY DEF Init, Absent
<1>3. \A j \in Jobs : LifecycleState(j) = "none"
  BY <1>1, <1>2 DEF LifecycleState
<1>4. \A r \in Requests : Asked[r] = Promise!Nothing
  BY DEF Init, Asked, Idle, Promise!Nothing
<1> QED
  BY <1>2, <1>3, <1>4 DEF Promise!Init, Standing, Tries, Asked

LEMMA StepMaps ==
    ASSUME Whole, Whole', [Next]_vars
    PROVE  [Promise!Next]_(Promise!lifecycle)
<1>1. CASE \E w \in Workers : Work(w) \/ Crash(w)
  BY <1>1, WorkMaps
<1>2. ASSUME NEW j \in Jobs, NEW confirm \in BOOLEAN, NEW capability \in Capabilities,
             Create(j, confirm, capability)
      PROVE  [Promise!Next]_(Promise!lifecycle)
  BY <1>2, CreateSubmits DEF Promise!Next
<1>3. CASE \E j \in Jobs : LeaseExpires(j) \/ BecomesAvailable(j)
  BY <1>3, ClockStutters DEF Promise!lifecycle
<1>4. CASE \E r \in Requests : Answer(r)
  BY <1>4, AnswerAnswers DEF Promise!Next
<1>5. CASE \E r \in Requests, j \in Jobs :
             \/ AskCancel(r, j)
             \/ \E approved \in BOOLEAN : AskResume(r, j, approved)
  BY <1>5, AskAsks DEF Promise!Next
<1>6. CASE UNCHANGED vars
  BY <1>6
  DEF vars, Promise!lifecycle, Standing, LifecycleState, Busy, Minds, Tries, Asked
<1> QED
  BY <1>1, <1>2, <1>3, <1>4, <1>5, <1>6 DEF Next

\* The rows, the workers, their sessions and the requests (queue.py, worker.py,
\* bolt_runner.py, service.py) implement the lifecycle CloudJobLifecycle
\* promises, with cancels and approvals answered on old copies, workers that
\* die or lose their lease, and stale scans: a job is tried at most MaxTries
\* times, comes back for another try only while that bound allows it, is given
\* up only after MaxAttempts tries, and never moves of itself once it ended.
THEOREM RuntimeImplementsLifecycle == Spec => Lifecycle
<1>1. Whole /\ Whole' /\ [Next]_vars => [Promise!Next]_(Promise!lifecycle)
  BY StepMaps
<1> QED
  BY <1>1, InitMaps, WholeInvariance, PTL DEF Spec, Lifecycle, Promise!Spec

LEMMA FinalKept ==
    ASSUME [Promise!Next]_(Promise!lifecycle), NEW j \in Jobs,
           Standing[j] \in Promise!Final, \A r \in Requests : request[r].job # j
    PROVE  Standing'[j] = Standing[j]
<1>1. CASE UNCHANGED Promise!lifecycle
  BY <1>1 DEF Promise!lifecycle
<1>2. ASSUME NEW k \in Jobs, Promise!Submit(k) \/ Promise!Start(k)
      PROVE  Standing'[j] = Standing[j]
  <2>1. k # j
    BY <1>2 DEF Promise!Submit, Promise!Start, Promise!Final
  <2>2. PICK s : Standing' = [Standing EXCEPT ![k] = s]
    BY <1>2 DEF Promise!Submit, Promise!Start
  <2> QED
    BY <2>1, <2>2, MappedTo
<1>3. CASE Promise!Settle
  BY <1>3 DEF Promise!Settle, Promise!Final
<1>4. ASSUME NEW r \in Requests, Promise!Answer(r)
      PROVE  Standing'[j] = Standing[j]
  <2>1. Asked[r].job # j
    BY DEF Asked
  <2>2. CASE UNCHANGED Standing
    BY <2>2
  <2>3. ASSUME NEW s, Standing' = [Standing EXCEPT ![Asked[r].job] = s]
        PROVE  Standing'[j] = Standing[j]
    <3>1. Standing'[j] = [Standing EXCEPT ![Asked[r].job] = s][j]
      BY <2>3
    <3>2. DOMAIN Standing = Jobs
      BY DEF Standing
    <3> QED
      BY <2>1, <3>1, <3>2
  <2> QED
    BY <1>4, <2>2, <2>3 DEF Promise!Answer
<1>5. ASSUME NEW r \in Requests, NEW k \in Jobs, NEW op, Promise!Ask(r, k, op)
      PROVE  Standing'[j] = Standing[j]
  BY <1>5 DEF Promise!Ask
<1> QED
  BY <1>1, <1>2, <1>3, <1>4, <1>5 DEF Promise!Next

\* A job that nobody minds and that is done, failed, cancelled or parked stays
\* where it is, unless a request is open that was begun before: no later turn
\* of a worker, no clock and no crash moves it (claim_next, release_stale).
THEOREM FinishedJobsStay ==
    Spec => [][\A j \in Jobs :
                  /\ Standing[j] \in Promise!Final
                  /\ \A r \in Requests : request[r].job # j
                  => Standing'[j] = Standing[j]]_vars
<1>1. Whole /\ Whole' /\ [Next]_vars =>
         [\A j \in Jobs :
             /\ Standing[j] \in Promise!Final
             /\ \A r \in Requests : request[r].job # j
             => Standing'[j] = Standing[j]]_vars
  BY StepMaps, FinalKept
<1> QED
  BY <1>1, WholeInvariance, PTL DEF Spec
=============================================================================
