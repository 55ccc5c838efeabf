----------------------------- MODULE Automations -----------------------------
(***************************************************************************)
(* Scheduled automations, app/services/automations: the rows, the sessions *)
(* that run them (a worker in every server process, POST worker/run-due,   *)
(* POST run-now) and the requests that edit them.                          *)
(*                                                                         *)
(* A session locks the rows it has found due, FOR UPDATE SKIP LOCKED, and  *)
(* runs them one after the other.  The lock ends with its next commit: the *)
(* one at the end of a run, or one that the orchestrator makes during it   *)
(* (MemoryCapture._store_candidates).  The insertion of a run's row holds a *)
(* key share of the automation's row, for which it waits, until a commit.  *)
(*                                                                         *)
(* Whoever changes a row, a run or a request, has loaded it before, and    *)
(* its commit writes the columns whose value is another than the one       *)
(* loaded, over whatever was committed in between.                         *)
(***************************************************************************)
EXTENDS Naturals, FiniteSets, SequencesExt

CONSTANTS
    Rows,           \* automations
    Sessions,       \* that scan, or serve a run-now
    Editors,        \* the requests that edit rows, as many as overlap
    NoRow,
    BatchSize,      \* automation_worker_batch_size
    MaxRetries,     \* automation_worker_max_retries
    MaxEdits,       \* a bound: requests that edit rows
    MaxAborts       \* a bound: scans that fail or die

ASSUME AutomationAssumption ==
    /\ NoRow \notin Rows
    /\ BatchSize \in Nat \ {0}
    /\ MaxRetries \in Nat \ {0}
    /\ MaxEdits \in Nat
    /\ MaxAborts \in Nat

VARIABLES
    row,            \* automations: status, frequency, failure_count, and what
                    \*   next_run_at is: none, a retry, or a slot of the schedule
    due,            \* rows whose next_run_at is past, in the order of next_run_at
    batch,          \* what a session has still to run
    run,            \* the automation that it runs
    view,           \* the automation's row as the session has loaded it
    expired,        \* a commit has been made during the run
    locked,         \* rows of which a session holds the lock of its scan,
    shared,         \*   and the key share of the run it has inserted
    editing,        \* the automation that a request edits
    copy,           \*   and its row as the request has loaded it
    edits, aborts,
    overtaken       \* history: rows that a commit has written on a copy which
                    \*   others had outdated, and no edit has put right since

sessions == <<batch, run, view, expired, locked, shared>>
requests == <<editing, copy>>
vars == <<row, due, sessions, requests, edits, aborts, overtaken>>

Row == [status : {"active", "paused", "deleted"}, once : BOOLEAN,
        fails : 0..(MaxRetries - 1), next : {"none", "retry", "slot"}]

\* A row as loaded: whether its next run was past then is known too.
Copy == [status : {"active", "paused"}, once : BOOLEAN,
         fails : 0..(MaxRetries - 1), next : {"none", "retry", "slot", "past"}]

Unloaded == [status |-> "unloaded", once |-> FALSE, fails |-> 0, next |-> "none"]

\* Rows as requests and runs have left them; a run that was going on when its row
\* was paused has set a next run nevertheless.
Init ==
    /\ \E single, paused \in SUBSET Rows :
          row = [a \in Rows |-> [status |-> IF a \in paused THEN "paused" ELSE "active",
                                 once |-> a \in single, fails |-> 0, next |-> "slot"]]
    /\ due = <<>>
    /\ batch = [s \in Sessions |-> <<>>]
    /\ run = [s \in Sessions |-> NoRow]
    /\ view = [s \in Sessions |-> Unloaded]
    /\ expired = [s \in Sessions |-> FALSE]
    /\ locked = [s \in Sessions |-> {}]
    /\ shared = [s \in Sessions |-> {}]
    /\ editing = [e \in Editors |-> NoRow]
    /\ copy = [e \in Editors |-> Unloaded]
    /\ edits = 0
    /\ aborts = 0
    /\ overtaken = {}

-----------------------------------------------------------------------------
(* Time                                                                    *)

Place(a) == CHOOSE i \in DOMAIN due : due[i] = a

Undue(a) == IF a \in ToSet(due) THEN RemoveAt(due, Place(a)) ELSE due

\* Defect: the rows found due last come first.
TickedFirst(a) == <<a>> \o due

Ticked(a) == Append(due, a)

Tick(a) ==
    /\ row[a].next # "none"
    /\ a \notin ToSet(due)
    /\ due' = Ticked(a)
    /\ UNCHANGED <<row, sessions, requests, edits, aborts, overtaken>>

-----------------------------------------------------------------------------
(* Loading a row, and committing changes of it                             *)

Loaded(a) == IF a \in ToSet(due) THEN [row[a] EXCEPT !.next = "past"] ELSE row[a]

\* The columns that a commit writes.  The time computed for the next run may be
\* the one loaded, `same`; config_json may differ from the one loaded in more than
\* its failure_count, `config`.
Columns(known, new, same, config) ==
    {c \in {"status", "once"} : new[c] # known[c]}
      \cup (IF config \/ new.fails # known.fails THEN {"fails"} ELSE {})
      \cup (IF same \/ (new.next = "none" /\ known.next = "none") THEN {} ELSE {"next"})

\* A time that has been loaded as past, or that a retry has set, is not computed again.
MaySame(known, new) == new.next = "slot" /\ known.next = "slot"

Written(a, new, columns) ==
    [status |-> IF "status" \in columns THEN new.status ELSE row[a].status,
     once   |-> IF "once" \in columns THEN new.once ELSE row[a].once,
     fails  |-> IF "fails" \in columns THEN new.fails ELSE row[a].fails,
     next   |-> IF "next" \in columns THEN new.next ELSE row[a].next]

Commit(a, new, columns) ==
    /\ row' = [row EXCEPT ![a] = Written(a, new, columns)]
    /\ due' = IF "next" \in columns THEN Undue(a) ELSE due

-----------------------------------------------------------------------------
(* The sessions                                                            *)

Idle(s) == batch[s] = <<>> /\ run[s] = NoRow

Others(s) == Sessions \ {s}

\* A row that nobody else holds FOR UPDATE.
Unlocked(a, s) == \A t \in Others(s) : a \notin locked[t]

\* Defect: rows that somebody else has locked are not passed over.
FreeOfLocks(a, s) == TRUE

\* A row that SKIP LOCKED does not pass over.
Free(a, s) == Unlocked(a, s) /\ \A t \in Others(s) : a \notin shared[t]

Scannable(s) == {a \in Rows : a \in ToSet(due) /\ row[a].status = "active" /\ Free(a, s)}

\* ORDER BY next_run_at LIMIT n
IsOldest(taken, from) ==
    LET n == Len(taken) IN
    /\ \A i, j \in 1..n : i < j => Place(taken[i]) < Place(taken[j])
    /\ \A a \in from \ ToSet(taken) :
          n = BatchSize /\ \A i \in 1..n : Place(taken[i]) < Place(a)

\* AutomationScheduler.due
Scan(s) ==
    /\ Idle(s)
    /\ \E n \in 1..BatchSize : \E taken \in [1..n -> Scannable(s)] :
          /\ IsOldest(taken, Scannable(s))
          /\ batch' = [batch EXCEPT ![s] = taken]
          /\ locked' = [locked EXCEPT ![s] = ToSet(taken)]
          /\ view' = [view EXCEPT ![s] = Loaded(taken[1])]
    /\ UNCHANGED <<row, due, run, expired, shared, requests, edits, aborts, overtaken>>

\* run_automation_now, up to the executor
RunNow(s, a) ==
    /\ Idle(s)
    /\ row[a].status # "deleted"
    /\ batch' = [batch EXCEPT ![s] = <<a>>]
    /\ view' = [view EXCEPT ![s] = Loaded(a)]
    /\ UNCHANGED <<row, due, run, expired, locked, shared, requests, edits, aborts, overtaken>>

\* The session has nothing left of the transaction it was in.
Forget(s) ==
    /\ locked' = [locked EXCEPT ![s] = {}]
    /\ shared' = [shared EXCEPT ![s] = {}]
    /\ view' = [view EXCEPT ![s] = Unloaded]

\* The row that the session runs, or runs next.
Target(s) == IF run[s] = NoRow THEN Head(batch[s]) ELSE run[s]

\* A commit has expired the row, which is loaded again; nobody looks whether it is
\* still due.
Load(s) ==
    /\ ~Idle(s)
    /\ view[s] = Unloaded
    /\ row[Target(s)].status # "deleted"
    /\ view' = [view EXCEPT ![s] = Loaded(Target(s))]
    /\ UNCHANGED <<row, due, batch, run, expired, locked, shared, requests, edits, aborts, overtaken>>

\* AutomationExecutor.run, up to the flush.
Begin(s) ==
    /\ run[s] = NoRow
    /\ batch[s] # <<>>
    /\ view[s] # Unloaded
    /\ LET a == Head(batch[s]) IN
          /\ row[a].status # "deleted"
          /\ Unlocked(a, s)
          /\ run' = [run EXCEPT ![s] = a]
          /\ shared' = [shared EXCEPT ![s] = {a}]
    /\ batch' = [batch EXCEPT ![s] = Tail(@)]
    /\ UNCHANGED <<row, due, view, expired, locked, requests, edits, aborts, overtaken>>

\* A commit of the orchestrator during the run.
CommitWithin(s) ==
    /\ run[s] # NoRow
    /\ ~expired[s]
    /\ expired' = [expired EXCEPT ![s] = TRUE]
    /\ Forget(s)
    /\ UNCHANGED <<row, due, batch, run, requests, edits, aborts, overtaken>>

Regular(known) == IF known.once THEN "none" ELSE "slot"

\* Defect: one retry more than the limit allows.
OneMore(known) ==
    IF known.fails < MaxRetries
    THEN [known EXCEPT !.fails = @ + 1, !.next = "retry"]
    ELSE [known EXCEPT !.fails = 0, !.next = Regular(known)]

\* Defect: after the last retry the automation is not scheduled any more.
GivenUp(known) ==
    IF known.fails + 1 < MaxRetries
    THEN [known EXCEPT !.fails = @ + 1, !.next = "retry"]
    ELSE [known EXCEPT !.fails = 0, !.next = "none"]

Failed(known) ==
    IF known.fails + 1 < MaxRetries
    THEN [known EXCEPT !.fails = @ + 1, !.next = "retry"]
    ELSE [known EXCEPT !.fails = 0, !.next = Regular(known)]

Completed(known) == [known EXCEPT !.fails = 0, !.next = Regular(known)]

\* The run is over: it is recorded, and the next one is set.
Close(s, a, new) ==
    /\ row[a].status # "deleted"
    /\ view[s] # Unloaded
    /\ Unlocked(a, s)
    /\ \E same, config \in BOOLEAN :
          /\ same => MaySame(view[s], new)
          /\ Commit(a, new, Columns(view[s], new, same, config))
    /\ overtaken' = IF view[s].once /\ ~row[a].once THEN overtaken \cup {a} ELSE overtaken
    /\ run' = [run EXCEPT ![s] = NoRow]
    /\ expired' = [expired EXCEPT ![s] = FALSE]
    /\ Forget(s)
    /\ UNCHANGED <<batch, requests, edits, aborts>>

Succeed(s) == run[s] # NoRow /\ Close(s, run[s], Completed(view[s]))

Fail(s) == run[s] # NoRow /\ Close(s, run[s], Failed(view[s]))

\* An exception ends the scan with the rest of its batch.
Stop(s) ==
    /\ batch' = [batch EXCEPT ![s] = <<>>]
    /\ run' = [run EXCEPT ![s] = NoRow]
    /\ expired' = [expired EXCEPT ![s] = FALSE]
    /\ Forget(s)
    /\ UNCHANGED <<row, due, requests, edits, overtaken>>

\* The row is gone when it is loaded or written, or the foreign key of the run has
\* no target.
StopAtDeleted(s) ==
    /\ ~Idle(s)
    /\ row[Target(s)].status = "deleted"
    /\ Stop(s)
    /\ UNCHANGED aborts

\* The database fails, or the process dies.
Abort(s) ==
    /\ ~Idle(s)
    /\ aborts < MaxAborts
    /\ aborts' = aborts + 1
    /\ Stop(s)

-----------------------------------------------------------------------------
(* The requests that edit a row                                            *)

\* AutomationManager.get
Open(e, a) ==
    /\ editing[e] = NoRow
    /\ edits < MaxEdits
    /\ edits' = edits + 1
    /\ row[a].status # "deleted"
    /\ editing' = [editing EXCEPT ![e] = a]
    /\ copy' = [copy EXCEPT ![e] = Loaded(a)]
    /\ UNCHANGED <<row, due, sessions, aborts, overtaken>>

Shut(e) ==
    /\ editing' = [editing EXCEPT ![e] = NoRow]
    /\ copy' = [copy EXCEPT ![e] = Unloaded]

\* The request fails, finds the row deleted, or changes nothing that it has loaded.
Leave(e) ==
    /\ editing[e] # NoRow
    /\ Shut(e)
    /\ UNCHANGED <<row, due, sessions, edits, aborts, overtaken>>

\* Somebody else's commit has changed what this edit builds upon.
Outdated(known, a) ==
    \/ known.status # row[a].status
    \/ known.once # row[a].once
    \/ (known.next = "none") # (row[a].next = "none")

\* The commit of an edit waits for the lock of a scan.
Save(e, a, new, config) ==
    /\ editing[e] = a
    /\ row[a].status # "deleted"
    /\ \A s \in Sessions : a \notin locked[s]
    /\ \E same \in BOOLEAN :
          LET columns == Columns(copy[e], new, same, config) IN
          /\ same => MaySame(copy[e], new)
          /\ columns # {}
          /\ Commit(a, new, columns)
    /\ overtaken' = IF Outdated(copy[e], a) THEN overtaken \cup {a} ELSE overtaken \ {a}
    /\ Shut(e)
    /\ UNCHANGED <<sessions, edits, aborts>>

Pause(e, a) == Save(e, a, [copy[e] EXCEPT !.status = "paused", !.next = "none"], FALSE)

Resume(e, a) == Save(e, a, [copy[e] EXCEPT !.status = "active", !.next = "slot"], FALSE)

\* The client may send a status, a frequency and a config_json with a failure_count.
Update(e, a, status, once, fails, config) ==
    /\ config \/ fails = copy[e].fails
    /\ Save(e, a, [status |-> status, once |-> once, fails |-> fails,
                   next |-> IF status = "active" THEN "slot" ELSE "none"], config)

\* A deletion waits for the key shares as well.
Delete(e, a) ==
    /\ editing[e] = a
    /\ row[a].status # "deleted"
    /\ \A s \in Sessions : a \notin locked[s] \cup shared[s]
    /\ row' = [row EXCEPT ![a].status = "deleted", ![a].next = "none"]
    /\ due' = Undue(a)
    /\ Shut(e)
    /\ UNCHANGED <<sessions, edits, aborts, overtaken>>

Work(s) == Scan(s) \/ Load(s) \/ Begin(s) \/ Succeed(s) \/ Fail(s) \/ StopAtDeleted(s)

Request(e) ==
    \/ Leave(e)
    \/ \E a \in Rows : Open(e, a) \/ Pause(e, a) \/ Resume(e, a) \/ Delete(e, a)
    \/ \E a \in Rows, status \in {"active", "paused"}, once \in BOOLEAN,
          fails \in 0..(MaxRetries - 1), config \in BOOLEAN :
          Update(e, a, status, once, fails, config)

Next ==
    \/ \E s \in Sessions : Work(s) \/ CommitWithin(s) \/ Abort(s)
    \/ \E s \in Sessions, a \in Rows : RunNow(s, a)
    \/ \E a \in Rows : Tick(a)
    \/ \E e \in Editors : Request(e)

Spec == Init /\ [][Next]_vars

\* Workers scan again and again; a run ends, as its model calls have deadlines; a
\* transaction that waits for a row gets its lock in turn.
Fairness ==
    \A s \in Sessions :
        /\ SF_vars(Scan(s))
        /\ WF_vars(Load(s))
        /\ SF_vars(Begin(s))
        /\ SF_vars(Succeed(s) \/ Fail(s))
        /\ WF_vars(StopAtDeleted(s))

FairSpec == Spec /\ Fairness

-----------------------------------------------------------------------------
(* Properties                                                              *)

TypeOK ==
    /\ row \in [Rows -> Row]
    /\ due \in Seq(Rows)
    /\ batch \in [Sessions -> Seq(Rows)]
    /\ run \in [Sessions -> Rows \cup {NoRow}]
    /\ view \in [Sessions -> Copy \cup {Unloaded}]
    /\ expired \in [Sessions -> BOOLEAN]
    /\ locked \in [Sessions -> SUBSET Rows]
    /\ shared \in [Sessions -> SUBSET Rows]
    /\ editing \in [Editors -> Rows \cup {NoRow}]
    /\ copy \in [Editors -> Copy \cup {Unloaded}]
    /\ edits \in 0..MaxEdits
    /\ aborts \in 0..MaxAborts
    /\ overtaken \subseteq Rows

\* An active automation that repeats has a next run, unless a commit was made on a
\* copy that others had outdated: an edit of a row whose status, frequency or want of
\* a next run had changed since the request loaded it, or the end of a run that knows
\* as "once" what has been made to repeat.  So neither a run, a retry, a scan that is
\* cut off nor an edit loses a schedule by itself, and a later edit heals the loss.
ActiveIsScheduled ==
    \A a \in Rows :
        row[a].status = "active" /\ ~row[a].once /\ a \notin overtaken => row[a].next # "none"

\* An active automation that repeats always has a next run.  It is not so: a pause
\* that has loaded a paused row with a next run writes no status, only that there is
\* no next run, over a resume committed in between.
AlwaysScheduled ==
    \A a \in Rows : row[a].status = "active" /\ ~row[a].once => row[a].next # "none"

\* While a scan holds the lock of a row, nobody else has an uncommitted run of it.
ScanExcludes ==
    \A s, t \in Sessions :
        s # t /\ run[t] # NoRow /\ run[t] \in locked[s] => expired[t]

\* An automation that is due is run, or edited by its owner, also when scans fail
\* and other automations become due again and again.
DueIsRun ==
    \A a \in Rows :
        (a \in ToSet(due) /\ row[a].status = "active")
            ~> (a \notin ToSet(due) \/ row[a].status # "active")
=============================================================================
