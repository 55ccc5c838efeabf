---------------------------- MODULE DeviceGateway ----------------------------
(***************************************************************************)
(* The connections of one device, app/services/device_gateway.py, and its  *)
(* rows of desktop_commands, app/services/device_gateway_service.py, with  *)
(* the repairs that BoltRepairService submits when a build failed.         *)
(*                                                                         *)
(* One process serves all connections (render.yaml), each in a coroutine   *)
(* handle() that lets go of its thread only where it awaits the socket.    *)
(* What lies between two awaits is one step.  HTTP requests have threads   *)
(* of their own; one that submits a command has a step for what it reads   *)
(* and one for what it writes.                                             *)
(***************************************************************************)
EXTENDS Naturals, FiniteSets

CONSTANTS
    Sessions,       \* connections: gateway session ids, one for each handle()
    NoSession,
    Commands,       \* rows of desktop_commands in the order of created_at
    MaxAttempts,    \* settings.bolt_max_repair_attempts
    MaxCopies       \* a bound: requests of a command that a device keeps

ASSUME GatewayAssumption ==
    /\ NoSession \notin Sessions
    /\ Commands \subseteq Nat \ {0}
    /\ MaxAttempts \in Nat
    /\ MaxCopies \in Nat

VARIABLES
    device,     \* the row of desktop_devices
    status,     \* the columns of desktop_commands: status,
    overdue,    \*   the commands whose expires_at is past,
    attempt,    \*   request_json.metadata.repair_attempt,
    parent,     \*   request_json.metadata.parent_request_id, 0 when absent
    loop,       \* where handle() awaits its socket, and what it still sends
    asked,      \* an HTTP request is in submit, and has seen the device online
    live,       \* external: the sockets that the device holds open
    copies      \* external: requests that the device has not answered

rows == <<status, overdue, attempt, parent>>
vars == <<device, rows, loop, asked, live, copies>>

Device == [session : Sessions \cup {NoSession}, revoked : BOOLEAN,
           fresh : BOOLEAN]     \* fresh: the heartbeat is recent enough

Verdicts == {"VERIFIED", "COMPLETED", "FAILED"}
Terminal == Verdicts \cup {"TIMEOUT"}
Unended  == {"QUEUED", "DELIVERED", "WAITING_FOR_DEVICE"}
Statuses == {"none"} \cup Unended \cup Terminal

\* turning: before the next round of the while loop.
Places == {"new", "accepted", "turning", "sending", "receiving", "closed"}
At(place) == [at |-> place, batch |-> {}]

Init ==
    /\ device = [session |-> NoSession, revoked |-> FALSE, fresh |-> FALSE]
    /\ status = [c \in Commands |-> "none"]
    /\ overdue = {}
    /\ attempt = [c \in Commands |-> 0]
    /\ parent = [c \in Commands |-> 0]
    /\ loop = [s \in Sessions |-> At("new")]
    /\ asked = FALSE
    /\ live = {}
    /\ copies = [c \in Commands |-> 0]

-----------------------------------------------------------------------------
(* DeviceGatewayService: what each method makes of the column status.      *)

IsOnline == ~device.revoked /\ device.session # NoSession /\ device.fresh

Authorized(s) == ~device.revoked /\ device.session = s

IsNext(d) ==
    /\ status[d] = "none"
    /\ \A e \in Commands : status[e] = "none" => d <= e

\* Defect: connect forgets what disconnect set aside.
RequeuedDelivered ==
    [c \in Commands |->
        IF status[c] = "DELIVERED" /\ c \notin overdue
        THEN "QUEUED" ELSE status[c]]

\* connect
Requeued ==
    [c \in Commands |->
        IF status[c] \in {"DELIVERED", "WAITING_FOR_DEVICE"} /\ c \notin overdue
        THEN "QUEUED" ELSE status[c]]

\* disconnect, for the session that the device is registered with
SetAside(table) ==
    [c \in Commands |->
        IF table[c] = "DELIVERED" /\ c \notin overdue
        THEN "WAITING_FOR_DEVICE" ELSE table[c]]

\* Defect: only commands that wait for the device time out.
TimedOutWaiting ==
    [c \in Commands |->
        IF status[c] = "WAITING_FOR_DEVICE" /\ c \in overdue
        THEN "TIMEOUT" ELSE status[c]]

\* pending, its first half
TimedOut ==
    [c \in Commands |->
        IF status[c] \in {"QUEUED", "WAITING_FOR_DEVICE"} /\ c \in overdue
        THEN "TIMEOUT" ELSE status[c]]

Pending == {c \in Commands : status[c] = "QUEUED" /\ c \notin overdue}

Delivered(table, c) ==
    IF table[c] = "QUEUED" THEN [table EXCEPT ![c] = "DELIVERED"] ELSE table

\* Defect: the last result counts.
CompletedAgain(c, verdict) == [status EXCEPT ![c] = verdict]

\* Defect: the status as the device writes it, without upper().
CompletedAsWritten(c, verdict) ==
    IF status[c] \in Terminal THEN status
    ELSE [status EXCEPT ![c] = IF verdict = "FAILED" THEN "failed" ELSE "completed"]

\* complete: a terminal command is returned as it is.
Completed(c, verdict) ==
    IF status[c] \in Terminal THEN status ELSE [status EXCEPT ![c] = verdict]

-----------------------------------------------------------------------------
(* submit, for a request id that is new.  A known one returns its row.     *)

Ask ==
    /\ IsOnline
    /\ ~asked
    /\ \E d \in Commands : IsNext(d)
    /\ asked' = TRUE
    /\ UNCHANGED <<device, rows, loop, live, copies>>

\* The row is inserted, for a device that may have gone meanwhile.
Submit ==
    /\ asked
    /\ asked' = FALSE
    /\ \E d \in Commands :
          /\ IsNext(d)
          /\ status' = [status EXCEPT ![d] = "QUEUED"]
    /\ UNCHANGED <<device, overdue, attempt, parent, loop, live, copies>>

-----------------------------------------------------------------------------
(* DeviceGateway.handle                                                    *)

Accept(s) ==
    /\ loop[s].at = "new"
    /\ ~device.revoked
    /\ loop' = [loop EXCEPT ![s] = At("accepted")]
    /\ live' = live \cup {s}
    /\ UNCHANGED <<device, rows, asked, copies>>

\* device.hello arrives; connect refuses a device that was revoked meanwhile.
Hello(s) ==
    /\ loop[s].at = "accepted"
    /\ s \in live
    /\ ~device.revoked
    /\ device' = [device EXCEPT !.session = s, !.fresh = TRUE]
    /\ status' = Requeued
    /\ loop' = [loop EXCEPT ![s] = At("turning")]
    /\ UNCHANGED <<overdue, attempt, parent, asked, live, copies>>

\* _dispatch goes on with a batch: its oldest command is marked, then sent.
Dispatch(s, batch, table) ==
    \/ /\ batch = {}
       /\ status' = table
       /\ loop' = [loop EXCEPT ![s] = At("receiving")]
    \/ \E c \in batch :
          /\ \A d \in batch : c <= d
          /\ status' = Delivered(table, c)
          /\ loop' = [loop EXCEPT ![s] = [at |-> "sending", batch |-> batch]]

Turn(s) ==
    /\ loop[s].at = "turning"
    /\ Authorized(s)
    /\ Dispatch(s, Pending, TimedOut)
    /\ UNCHANGED <<device, overdue, attempt, parent, asked, live, copies>>

\* send_json returns.  On a connection that is gone the request is lost: the
\* server does not know yet.
Sent(s) ==
    /\ loop[s].at = "sending"
    /\ \E c \in loop[s].batch :
          /\ \A d \in loop[s].batch : c <= d
          /\ copies' = IF s \in live /\ copies[c] < MaxCopies
                       THEN [copies EXCEPT ![c] = @ + 1] ELSE copies
          /\ Dispatch(s, loop[s].batch \ {c}, status)
    /\ UNCHANGED <<device, overdue, attempt, parent, asked, live>>

\* Nothing arrives before the timeout of the receive.
Quiet(s) ==
    /\ loop[s].at = "receiving"
    /\ loop' = [loop EXCEPT ![s] = At("turning")]
    /\ UNCHANGED <<device, rows, asked, live, copies>>

Heartbeat(s) ==
    /\ loop[s].at = "receiving"
    /\ s \in live
    /\ Authorized(s)
    /\ device' = [device EXCEPT !.fresh = TRUE]
    /\ loop' = [loop EXCEPT ![s] = At("turning")]
    /\ UNCHANGED <<rows, asked, live, copies>>

\* The finally clause: disconnect, which is for the registered session only.
Close(s, table) ==
    /\ status' = IF device.session = s THEN SetAside(table) ELSE table
    /\ device' = IF device.session = s
                 THEN [device EXCEPT !.session = NoSession] ELSE device
    /\ loop' = [loop EXCEPT ![s] = At("closed")]
    /\ live' = live \ {s}

\* The ways out of the loop: no hello, a token that ended, a session that is
\* not authorized, a send or a receive that fails (requeue, which _dispatch
\* calls then, does not exist; its AttributeError leads here as well).
End(s) ==
    /\ \/ loop[s].at \in {"accepted", "turning"}
       \/ loop[s].at = "sending" /\ s \notin live
       \/ loop[s].at = "receiving" /\ (s \notin live \/ ~Authorized(s))
    /\ Close(s, status)
    /\ UNCHANGED <<overdue, attempt, parent, asked, copies>>

-----------------------------------------------------------------------------
(* A device.capability.result: complete, then BoltRepairService.handle.    *)

\* Defect: a verified build is repaired.
RepairableAnyway(c, table) ==
    /\ table[c] # "TIMEOUT"
    /\ attempt[c] < MaxAttempts

\* Whether handle asks for a repair, were the report to say that the project
\* is there, and the model to give a plan.  A command that timed out has no
\* result to name a project.
Repairable(c, table) ==
    /\ table[c] \notin {"VERIFIED", "TIMEOUT"}
    /\ attempt[c] < MaxAttempts

\* The device answers a request that it got; c may have an outcome already.
Answered(s, c) ==
    /\ loop[s].at = "receiving"
    /\ s \in live
    /\ copies[c] > 0
    /\ copies' = [copies EXCEPT ![c] = @ - 1]
    /\ UNCHANGED <<overdue, asked>>

Result(s, c, verdict) ==
    /\ Answered(s, c)
    /\ status' = Completed(c, verdict)
    /\ loop' = [loop EXCEPT ![s] = At("turning")]
    /\ UNCHANGED <<device, attempt, parent, live>>

Repair(s, c, verdict) ==
    /\ Answered(s, c)
    /\ Repairable(c, Completed(c, verdict))
    /\ IsOnline
    /\ \E d \in Commands :
          /\ IsNext(d)
          /\ status' = [Completed(c, verdict) EXCEPT ![d] = "QUEUED"]
          /\ attempt' = [attempt EXCEPT ![d] = attempt[c] + 1]
          /\ parent' = [parent EXCEPT ![d] = c]
    /\ loop' = [loop EXCEPT ![s] = At("turning")]
    /\ UNCHANGED <<device, live>>

\* submit raises, for the device is not online, and nothing in handle catches
\* it: the result stays recorded and the connection ends.
RepairRefused(s, c, verdict) ==
    /\ Answered(s, c)
    /\ Repairable(c, Completed(c, verdict))
    /\ ~IsOnline
    /\ Close(s, Completed(c, verdict))
    /\ UNCHANGED <<attempt, parent>>

-----------------------------------------------------------------------------
(* The rest of the system and time.                                        *)

\* The device loses or leaves a connection; the server does not know yet.
Drop(s) ==
    /\ s \in live
    /\ live' = live \ {s}
    /\ UNCHANGED <<device, rows, loop, asked, copies>>

\* The process ends, with no finally clause.
Crash ==
    /\ \E s \in Sessions : loop[s].at \notin {"new", "closed"}
    /\ loop' = [s \in Sessions |->
                   IF loop[s].at = "new" THEN loop[s] ELSE At("closed")]
    /\ live' = {}
    /\ asked' = FALSE
    /\ UNCHANGED <<device, rows, copies>>

Revoke ==
    /\ ~device.revoked
    /\ device' = [device EXCEPT !.revoked = TRUE]
    /\ UNCHANGED <<rows, loop, asked, live, copies>>

\* upsert_device
Register ==
    /\ device.revoked
    /\ device' = [device EXCEPT !.revoked = FALSE]
    /\ UNCHANGED <<rows, loop, asked, live, copies>>

Stale ==
    /\ device.fresh
    /\ device' = [device EXCEPT !.fresh = FALSE]
    /\ UNCHANGED <<rows, loop, asked, live, copies>>

Expire(c) ==
    /\ status[c] \in Unended
    /\ c \notin overdue
    /\ overdue' = overdue \cup {c}
    /\ UNCHANGED <<device, status, attempt, parent, loop, asked, live, copies>>

Next ==
    \/ Ask \/ Submit \/ Crash \/ Revoke \/ Register \/ Stale
    \/ \E c \in Commands : Expire(c)
    \/ \E s \in Sessions :
          \/ Accept(s) \/ Hello(s) \/ Turn(s) \/ Sent(s)
          \/ Quiet(s) \/ Heartbeat(s) \/ End(s) \/ Drop(s)
          \/ \E c \in Commands, verdict \in Verdicts :
                \/ Result(s, c, verdict)
                \/ Repair(s, c, verdict)
                \/ RepairRefused(s, c, verdict)

Spec == Init /\ [][Next]_vars

\* A coroutine whose await ended goes on: a receive ends after poll_ms, and a
\* send on a connection that does not answer the server's pings ends as well.
Fairness ==
    \A s \in Sessions :
        WF_vars(Turn(s)) /\ WF_vars(Sent(s)) /\ WF_vars(Quiet(s))

FairSpec == Spec /\ Fairness

-----------------------------------------------------------------------------
TypeOK ==
    /\ device \in Device
    /\ status \in [Commands -> Statuses]
    /\ overdue \subseteq Commands
    /\ attempt \in [Commands -> 0..MaxAttempts]
    /\ parent \in [Commands -> Commands \cup {0}]
    /\ loop \in [Sessions -> [at : Places, batch : SUBSET Commands]]
    /\ asked \in BOOLEAN
    /\ live \subseteq Sessions
    /\ copies \in [Commands -> 0..MaxCopies]

\* A command waits for the device only while the device has no session: what
\* disconnect sets aside, the next connect takes up.
WaitsWhileAway ==
    \A c \in Commands :
        status[c] = "WAITING_FOR_DEVICE" /\ c \notin overdue
            => device.session = NoSession

\* A repair follows a command that ended and is not verified, for good, and is
\* one attempt further, whatever results are repeated, delayed or crossed.
RepairsFollowFailures ==
    \A c \in Commands :
        parent[c] # 0 =>
            /\ status[parent[c]] \in {"COMPLETED", "FAILED"}
            /\ attempt[c] = attempt[parent[c]] + 1

Outcomes ==
    INSTANCE CommandOutcomes WITH
        outcome <- [c \in Commands |->
                       IF status[c] \in Unended THEN "open" ELSE status[c]]

\* The outcome of a command is decided once, for all that happens to its rows.
OutcomesAreFinal == Outcomes!Spec

\* A session that is registered and served gets what is queued to the device
\* or times it out.
Serving(s) ==
    Authorized(s) /\ loop[s].at \in {"turning", "sending", "receiving"}

QueuedIsServed ==
    \A s \in Sessions, c \in Commands :
        Serving(s) /\ status[c] = "QUEUED"
            ~> ~Serving(s) \/ status[c] # "QUEUED"

\* Violated.  settings.bolt_max_repair_attempts bounds the repairs of a task
\* (test_stage25_final_completion.py:82).  A second result of a command that
\* failed is answered by a second repair.
RepairsBounded ==
    LET Repairs == {c \in Commands : attempt[c] > 0}
        Tasks   == {c \in Commands : status[c] # "none" /\ attempt[c] = 0}
    IN  Cardinality(Repairs) <= MaxAttempts * Cardinality(Tasks)
=============================================================================
