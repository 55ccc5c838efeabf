------------------------- MODULE CloudJobLifecycle --------------------------
(***************************************************************************)
(* What the cloud runtime promises of a job, said without rows, leases,    *)
(* sessions and workers.  A job runs from its first start until nobody     *)
(* works on it any more, whatever is started or asked meanwhile; it is     *)
(* started a bounded number of times, and it is given up only when its     *)
(* attempts are used up.  Once it is done, failed, cancelled or parked,    *)
(* nothing but a request that somebody has open moves it again.            *)
(***************************************************************************)
EXTENDS Naturals

CONSTANTS
    Jobs, Requests, NoJob,
    MaxAttempts,    \* a job is not given up before it was started so often
    MaxTries        \* nor is it ever started more often than this

VARIABLES
    state,          \* where the job stands
    tries,          \* how often it has been started
    asked           \* what each open request asks, of which job

lifecycle == <<state, tries, asked>>

States == {"none", "waiting", "ready", "running",
           "done", "failed", "parked", "cancelled"}

Final  == {"done", "failed", "parked", "cancelled"}

Nothing == [op |-> "none", job |-> NoJob]

Init ==
    /\ state = [j \in Jobs |-> "none"]
    /\ tries = [j \in Jobs |-> 0]
    /\ asked = [r \in Requests |-> Nothing]

Submit(j) ==
    /\ state[j] = "none"
    /\ \E s \in {"ready", "waiting"} : state' = [state EXCEPT ![j] = s]
    /\ UNCHANGED <<tries, asked>>

\* Also a job that still runs may be started again, by somebody who could not
\* know; that is a try like the others.
Start(j) ==
    /\ state[j] \in {"ready", "running"}
    /\ tries[j] < MaxTries
    /\ state' = [state EXCEPT ![j] = "running"]
    /\ tries' = [tries EXCEPT ![j] = @ + 1]
    /\ UNCHANGED asked

\* How a run may end: with the result, set aside, cancelled, given back for
\* another try or given up.
Outcome(j, s) ==
    \/ s \in {"done", "parked", "cancelled"}
    \/ s = "ready" /\ tries[j] < MaxTries
    \/ s = "failed" /\ tries[j] >= MaxAttempts

\* Runs end, several at once when leases are taken back.
Settle ==
    /\ state' \in [Jobs -> States]
    /\ \A j \in Jobs :
          state'[j] # state[j] => state[j] = "running" /\ Outcome(j, state'[j])
    /\ UNCHANGED <<tries, asked>>

\* What may be asked: to approve a job that waits, to cancel one that is not
\* over, or whose run might not be.
Ask(r, j, op) ==
    /\ asked[r] = Nothing
    /\ \/ op = "resume" /\ state[j] = "waiting"
       \/ op = "cancel" /\ state[j] \notin {"none", "done", "failed", "cancelled"}
    /\ asked' = [asked EXCEPT ![r] = [op |-> op, job |-> j]]
    /\ UNCHANGED <<state, tries>>

\* The answer comes later, to whatever has become of the job; while the job
\* runs it does not show before the run ends.
Answer(r) ==
    LET j == asked[r].job
        s == IF asked[r].op = "cancel" THEN "cancelled" ELSE "ready"
    IN /\ asked[r] # Nothing
       /\ \/ /\ s = "ready" => tries[j] < MaxTries
             /\ state' = [state EXCEPT ![j] = s]
          \/ state[j] = "running" /\ UNCHANGED state
       /\ asked' = [asked EXCEPT ![r] = Nothing]
       /\ UNCHANGED tries

Next ==
    \/ \E j \in Jobs : Submit(j) \/ Start(j)
    \/ Settle
    \/ \E r \in Requests :
          \/ \E j \in Jobs, op \in {"cancel", "resume"} : Ask(r, j, op)
          \/ Answer(r)

Spec == Init /\ [][Next]_lifecycle
=============================================================================
