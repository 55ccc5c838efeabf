------------------------- MODULE DeviceGateway_proofs -------------------------
(***************************************************************************)
(* Proofs about DeviceGateway, for every number of connections, commands   *)
(* and repair attempts.                                                    *)
(***************************************************************************)
EXTENDS DeviceGateway, TLAPS

\* What the proofs need beside the properties: commands that repair another
\* one are different from it and exist, and rows that do not exist are blank.
Descent ==
    \A c \in Commands :
        /\ status[c] = "none" => parent[c] = 0 /\ attempt[c] = 0 /\ c \notin overdue
        /\ parent[c] # 0 => status[parent[c]] # "none"

\* The device answers only commands that exist, and batches have only such.
Known ==
    \A c \in Commands :
        /\ copies[c] > 0 => status[c] # "none"
        /\ \A s \in Sessions : c \in loop[s].batch => status[c] # "none"

IInv == TypeOK /\ WaitsWhileAway /\ RepairsFollowFailures /\ Descent /\ Known

-----------------------------------------------------------------------------
(* How the operators of the service change the column status.              *)

\* What a status may become in one step: it is decided once, and a row that
\* exists stays.
Moves(old, new) ==
    /\ new \in Statuses
    /\ old = "none" => new = "none"
    /\ old \in Unended => new \in Unended \cup Terminal
    /\ old \in Terminal => new = old

USE GatewayAssumption DEF Statuses, Unended, Terminal, Verdicts

LEMMA RequeuedMoves ==
    ASSUME TypeOK
    PROVE  /\ Requeued \in [Commands -> Statuses]
           /\ \A c \in Commands : Moves(status[c], Requeued[c])
           /\ \A c \in Commands :
                 Requeued[c] = "WAITING_FOR_DEVICE" => c \in overdue
BY DEF TypeOK, Requeued, Moves

LEMMA SetAsideMoves ==
    ASSUME NEW table \in [Commands -> Statuses]
    PROVE  /\ SetAside(table) \in [Commands -> Statuses]
           /\ \A c \in Commands : Moves(table[c], SetAside(table)[c])
BY DEF SetAside, Moves

LEMMA TimedOutMoves ==
    ASSUME TypeOK
    PROVE  /\ TimedOut \in [Commands -> Statuses]
           /\ \A c \in Commands : Moves(status[c], TimedOut[c])
           /\ \A c \in Commands :
                 TimedOut[c] = "WAITING_FOR_DEVICE"
                     => status[c] = "WAITING_FOR_DEVICE"
BY DEF TypeOK, TimedOut, Moves

LEMMA DeliveredMoves ==
    ASSUME NEW table \in [Commands -> Statuses], NEW c \in Commands
    PROVE  /\ Delivered(table, c) \in [Commands -> Statuses]
           /\ \A d \in Commands : Moves(table[d], Delivered(table, c)[d])
           /\ \A d \in Commands :
                 Delivered(table, c)[d] = "WAITING_FOR_DEVICE"
                     => table[d] = "WAITING_FOR_DEVICE"
BY DEF Delivered, Moves

LEMMA CompletedMoves ==
    ASSUME TypeOK, NEW c \in Commands, status[c] # "none", NEW verdict \in Verdicts
    PROVE  /\ Completed(c, verdict) \in [Commands -> Statuses]
           /\ \A d \in Commands : Moves(status[d], Completed(c, verdict)[d])
           /\ Completed(c, verdict)[c] \in Terminal
           /\ \A d \in Commands :
                 Completed(c, verdict)[d] = "WAITING_FOR_DEVICE"
                     => status[d] = "WAITING_FOR_DEVICE"
           /\ \A d \in Commands :
                 Completed(c, verdict)[d] = "none" <=> status[d] = "none"
BY DEF TypeOK, Completed, Moves

LEMMA MovesCompose ==
    ASSUME NEW x \in Statuses, NEW y, NEW z, Moves(x, y), Moves(y, z)
    PROVE  Moves(x, z)
BY DEF Moves

-----------------------------------------------------------------------------
(* What a step does, for all but the two that insert a row.                *)

Kept ==
    /\ status' \in [Commands -> Statuses]
    /\ \A c \in Commands : Moves(status[c], status'[c])
    /\ UNCHANGED <<attempt, parent>>

\* Nobody is set aside while the device has a session.
StillWaiting ==
    \A c \in Commands :
        status'[c] = "WAITING_FOR_DEVICE" /\ c \notin overdue
            => \/ status[c] = "WAITING_FOR_DEVICE" /\ device'.session = device.session
               \/ device'.session = NoSession

LEMMA DispatchKeeps ==
    ASSUME IInv, NEW s \in Sessions, NEW batch \in SUBSET Commands,
           NEW table \in [Commands -> Statuses], Dispatch(s, batch, table),
           \A c \in Commands : Moves(status[c], table[c]),
           \A c \in Commands : table[c] = "WAITING_FOR_DEVICE"
                                   => status[c] = "WAITING_FOR_DEVICE",
           UNCHANGED <<device, attempt, parent>>
    PROVE  /\ Kept
           /\ StillWaiting
           /\ loop' \in [Sessions -> [at : Places, batch : SUBSET Commands]]
           /\ \A r \in Sessions : loop'[r].batch \subseteq loop[r].batch \cup batch
<1>t. TypeOK
  BY DEF IInv
<1>1. CASE batch = {} /\ status' = table
           /\ loop' = [loop EXCEPT ![s] = At("receiving")]
  BY <1>1, <1>t DEF TypeOK, Kept, StillWaiting, At, Places
<1>2. ASSUME NEW c \in batch, status' = Delivered(table, c),
             loop' = [loop EXCEPT ![s] = [at |-> "sending", batch |-> batch]]
      PROVE  /\ Kept
             /\ StillWaiting
             /\ loop' \in [Sessions -> [at : Places, batch : SUBSET Commands]]
             /\ \A r \in Sessions : loop'[r].batch \subseteq loop[r].batch \cup batch
  <2>1. /\ status' \in [Commands -> Statuses]
        /\ \A d \in Commands : Moves(table[d], status'[d])
        /\ \A d \in Commands : status'[d] = "WAITING_FOR_DEVICE"
                                   => table[d] = "WAITING_FOR_DEVICE"
    BY <1>2, DeliveredMoves
  <2>2. \A d \in Commands : Moves(status[d], status'[d])
    BY <2>1, <1>t DEF TypeOK, Moves
  <2>3. loop' \in [Sessions -> [at : Places, batch : SUBSET Commands]]
    BY <1>2, <1>t DEF TypeOK, Places
  <2>4. \A r \in Sessions : loop'[r].batch \subseteq loop[r].batch \cup batch
    BY <1>2, <1>t DEF TypeOK
  <2> QED
    BY <2>1, <2>2, <2>3, <2>4 DEF Kept, StillWaiting
<1> QED
  BY <1>1, <1>2 DEF Dispatch

LEMMA CloseKeeps ==
    ASSUME IInv, NEW s \in Sessions, NEW table \in [Commands -> Statuses],
           Close(s, table),
           \A c \in Commands : Moves(status[c], table[c]),
           \A c \in Commands : table[c] = "WAITING_FOR_DEVICE"
                                   => status[c] = "WAITING_FOR_DEVICE",
           UNCHANGED <<attempt, parent>>
    PROVE  /\ Kept
           /\ StillWaiting
           /\ device' \in Device
           /\ live' \subseteq Sessions
           /\ loop' \in [Sessions -> [at : Places, batch : SUBSET Commands]]
           /\ \A r \in Sessions : loop'[r].batch \subseteq loop[r].batch
<1>t. TypeOK
  BY DEF IInv
<1>1. /\ device' \in Device
      /\ live' \subseteq Sessions
      /\ loop' \in [Sessions -> [at : Places, batch : SUBSET Commands]]
      /\ \A r \in Sessions : loop'[r].batch \subseteq loop[r].batch
  BY <1>t DEF TypeOK, Close, Device, At, Places
<1>2. CASE device.session = s
  <2>1. device'.session = NoSession /\ status' = SetAside(table)
    BY <1>2, <1>t DEF TypeOK, Close, Device
  <2>2. /\ status' \in [Commands -> Statuses]
        /\ \A c \in Commands : Moves(table[c], status'[c])
    BY <2>1, SetAsideMoves
  <2>3. \A c \in Commands : Moves(status[c], status'[c])
    BY <2>2, <1>t DEF TypeOK, Moves
  <2> QED
    BY <1>1, <2>1, <2>2, <2>3 DEF Kept, StillWaiting
<1>3. CASE device.session # s
  BY <1>1, <1>3 DEF Close, Kept, StillWaiting
<1> QED
  BY <1>2, <1>3

\* A step that inserts no row preserves what is said of rows.
LEMMA KeptRows ==
    ASSUME IInv, Kept, overdue' = overdue
    PROVE  (RepairsFollowFailures /\ Descent)'
<1>1. TypeOK /\ RepairsFollowFailures /\ Descent
  BY DEF IInv
<1>2. \A c \in Commands : status'[c] = "none" <=> status[c] = "none"
  BY <1>1 DEF TypeOK, Kept, Moves
<1>3. Descent'
  BY <1>1, <1>2 DEF TypeOK, Descent, Kept
<1>4. RepairsFollowFailures'
  <2> SUFFICES ASSUME NEW c \in Commands, parent[c] # 0
               PROVE  /\ status'[parent[c]] \in {"COMPLETED", "FAILED"}
                      /\ attempt[c] = attempt[parent[c]] + 1
    BY DEF RepairsFollowFailures, Kept
  <2>1. parent[c] \in Commands
    BY <1>1 DEF TypeOK
  <2>2. /\ status[parent[c]] \in {"COMPLETED", "FAILED"}
        /\ attempt[c] = attempt[parent[c]] + 1
    BY <1>1 DEF RepairsFollowFailures
  <2> QED
    BY <2>1, <2>2 DEF Kept, Moves
<1> QED
  BY <1>3, <1>4

LEMMA KeptWaiting ==
    ASSUME IInv, StillWaiting, overdue' = overdue
    PROVE  WaitsWhileAway'
BY DEF IInv, StillWaiting, WaitsWhileAway

LEMMA KeptKnown ==
    ASSUME IInv, Kept, \A c \in Commands : copies'[c] > 0 => status[c] # "none",
           \A s \in Sessions, c \in Commands :
              c \in loop'[s].batch => status[c] # "none"
    PROVE  Known'
BY DEF IInv, TypeOK, Known, Kept, Moves

-----------------------------------------------------------------------------
(* The invariant, action by action.                                        *)

LEMMA TurnKeeps ==
    ASSUME IInv, NEW s \in Sessions, Turn(s)
    PROVE  IInv' /\ Kept
<1>t. TypeOK
  BY DEF IInv
<1>1. /\ Kept /\ StillWaiting
      /\ loop' \in [Sessions -> [at : Places, batch : SUBSET Commands]]
      /\ \A r \in Sessions : loop'[r].batch \subseteq loop[r].batch \cup Pending
  BY <1>t, TimedOutMoves, DispatchKeeps, Pending \subseteq Commands DEF Turn, Pending
<1>2. TypeOK'
  BY <1>1, <1>t DEF TypeOK, Turn, Kept
<1>3. Known'
  BY <1>1, <1>t, KeptKnown DEF IInv, Known, Turn, Pending
<1> QED
  BY <1>1, <1>2, <1>3, KeptRows, KeptWaiting DEF IInv, Turn

LEMMA SentKeeps ==
    ASSUME IInv, NEW s \in Sessions, Sent(s)
    PROVE  IInv' /\ Kept
<1>t. TypeOK
  BY DEF IInv
<1>1. PICK c \in loop[s].batch :
        /\ copies' = IF s \in live /\ copies[c] < MaxCopies
                     THEN [copies EXCEPT ![c] = @ + 1] ELSE copies
        /\ Dispatch(s, loop[s].batch \ {c}, status)
  BY DEF Sent
<1>2. /\ c \in Commands /\ status[c] # "none"
      /\ loop[s].batch \ {c} \in SUBSET Commands
      /\ status \in [Commands -> Statuses]
      /\ \A d \in Commands : Moves(status[d], status[d])
  BY <1>t DEF IInv, Known, TypeOK, Moves
<1>3. /\ Kept /\ StillWaiting
      /\ loop' \in [Sessions -> [at : Places, batch : SUBSET Commands]]
      /\ \A r \in Sessions :
            loop'[r].batch \subseteq loop[r].batch \cup (loop[s].batch \ {c})
  BY <1>1, <1>2, DispatchKeeps DEF Sent
<1>4. copies' \in [Commands -> 0..MaxCopies]
  BY <1>1, <1>2, <1>t DEF TypeOK
<1>5. TypeOK'
  BY <1>3, <1>4, <1>t DEF TypeOK, Sent, Kept
<1>6. \A d \in Commands : copies'[d] > 0 => status[d] # "none"
  BY <1>1, <1>2, <1>t DEF IInv, Known, TypeOK
<1>7. Known'
  BY <1>3, <1>6, KeptKnown DEF IInv, Known
<1> QED
  BY <1>3, <1>5, <1>7, KeptRows, KeptWaiting DEF IInv, Sent

LEMMA EndKeeps ==
    ASSUME IInv, NEW s \in Sessions, End(s)
    PROVE  IInv' /\ Kept
<1>t. TypeOK
  BY DEF IInv
<1>1. /\ status \in [Commands -> Statuses]
      /\ \A d \in Commands : Moves(status[d], status[d])
  BY <1>t DEF TypeOK, Moves
<1>2. /\ Kept /\ StillWaiting
      /\ device' \in Device /\ live' \subseteq Sessions
      /\ loop' \in [Sessions -> [at : Places, batch : SUBSET Commands]]
      /\ \A r \in Sessions : loop'[r].batch \subseteq loop[r].batch
  BY <1>1, CloseKeeps DEF End
<1>3. TypeOK'
  BY <1>2, <1>t DEF TypeOK, End, Kept
<1>4. Known'
  BY <1>2, KeptKnown DEF IInv, Known, End
<1> QED
  BY <1>2, <1>3, <1>4, KeptRows, KeptWaiting DEF IInv, End

LEMMA HelloKeeps ==
    ASSUME IInv, NEW s \in Sessions, Hello(s)
    PROVE  IInv' /\ Kept
<1>t. TypeOK
  BY DEF IInv
<1>1. Kept
  BY <1>t, RequeuedMoves DEF Kept, Hello
<1>2. TypeOK'
  BY <1>1, <1>t DEF TypeOK, Hello, Kept, Device, At, Places
<1>3. WaitsWhileAway'
  BY <1>t, RequeuedMoves DEF WaitsWhileAway, Hello
<1>4. \A r \in Sessions : loop'[r].batch \subseteq loop[r].batch
  BY <1>t DEF TypeOK, Hello, At
<1>5. Known'
  BY <1>1, <1>4, KeptKnown DEF IInv, Known, Hello
<1> QED
  BY <1>1, <1>2, <1>3, <1>5, KeptRows DEF IInv, Hello

\* What Answered leaves: requests that were received before.
LEMMA AnsweredCopies ==
    ASSUME IInv, NEW s \in Sessions, NEW c \in Commands, Answered(s, c)
    PROVE  /\ status[c] # "none"
           /\ copies' \in [Commands -> 0..MaxCopies]
           /\ \A d \in Commands : copies'[d] > 0 => status[d] # "none"
BY DEF IInv, TypeOK, Known, Answered

LEMMA ResultKeeps ==
    ASSUME IInv, NEW s \in Sessions, NEW c \in Commands, NEW verdict \in Verdicts,
           Result(s, c, verdict)
    PROVE  IInv' /\ Kept
<1>t. TypeOK
  BY DEF IInv
<1>1. /\ status[c] # "none"
      /\ copies' \in [Commands -> 0..MaxCopies]
      /\ \A d \in Commands : copies'[d] > 0 => status[d] # "none"
  BY AnsweredCopies DEF Result
<1>2. Kept /\ StillWaiting
  BY <1>1, <1>t, CompletedMoves DEF Kept, StillWaiting, Result
<1>3. TypeOK'
  BY <1>1, <1>2, <1>t DEF TypeOK, Result, Answered, Kept, At, Places
<1>4. \A r \in Sessions : loop'[r].batch \subseteq loop[r].batch
  BY <1>t DEF TypeOK, Result, At
<1>5. Known'
  BY <1>1, <1>2, <1>4, KeptKnown DEF IInv, Known
<1> QED
  BY <1>2, <1>3, <1>5, KeptRows, KeptWaiting DEF IInv, Result, Answered

LEMMA RepairRefusedKeeps ==
    ASSUME IInv, NEW s \in Sessions, NEW c \in Commands, NEW verdict \in Verdicts,
           RepairRefused(s, c, verdict)
    PROVE  IInv' /\ Kept
<1>t. TypeOK
  BY DEF IInv
<1>1. /\ status[c] # "none"
      /\ copies' \in [Commands -> 0..MaxCopies]
      /\ \A d \in Commands : copies'[d] > 0 => status[d] # "none"
  BY AnsweredCopies DEF RepairRefused
<1>2. /\ Kept /\ StillWaiting
      /\ device' \in Device /\ live' \subseteq Sessions
      /\ loop' \in [Sessions -> [at : Places, batch : SUBSET Commands]]
      /\ \A r \in Sessions : loop'[r].batch \subseteq loop[r].batch
  BY <1>1, <1>t, CompletedMoves, CloseKeeps DEF RepairRefused
<1>3. TypeOK'
  BY <1>1, <1>2, <1>t DEF TypeOK, RepairRefused, Answered, Kept
<1>4. Known'
  BY <1>1, <1>2, KeptKnown DEF IInv, Known
<1> QED
  BY <1>2, <1>3, <1>4, KeptRows, KeptWaiting DEF IInv, RepairRefused, Answered

LEMMA ExpireKeeps ==
    ASSUME IInv, NEW c \in Commands, Expire(c)
    PROVE  IInv' /\ Kept
<1>1. Kept
  BY DEF IInv, TypeOK, Kept, Moves, Expire
<1>2. TypeOK' /\ WaitsWhileAway' /\ RepairsFollowFailures' /\ Descent' /\ Known'
  BY DEF IInv, TypeOK, WaitsWhileAway, RepairsFollowFailures, Descent, Known, Expire
<1> QED
  BY <1>1, <1>2 DEF IInv

\* The steps that leave the rows alone.
LEMMA OthersKeep ==
    ASSUME IInv, UNCHANGED rows,
           \/ Ask \/ Crash \/ Revoke \/ Register \/ Stale \/ UNCHANGED vars
           \/ \E s \in Sessions : Accept(s) \/ Quiet(s) \/ Heartbeat(s) \/ Drop(s)
    PROVE  IInv' /\ Kept
<1>t. TypeOK
  BY DEF IInv
<1>1. Kept
  BY <1>t DEF TypeOK, Kept, Moves, rows
<1>2. /\ TypeOK'
      /\ device'.session = device.session
      /\ copies' = copies
      /\ \A r \in Sessions : loop'[r].batch \subseteq loop[r].batch
  <2>1. CASE Crash
    BY <2>1, <1>t DEF TypeOK, Crash, rows, At, Places
  <2>2. CASE Ask \/ Revoke \/ Register \/ Stale \/ UNCHANGED vars
    BY <2>2, <1>t DEF TypeOK, Ask, Revoke, Register, Stale, vars, rows, Device
  <2>3. ASSUME NEW s \in Sessions, Accept(s) \/ Quiet(s) \/ Heartbeat(s) \/ Drop(s)
        PROVE  /\ TypeOK'
               /\ device'.session = device.session
               /\ copies' = copies
               /\ \A r \in Sessions : loop'[r].batch \subseteq loop[r].batch
    <3>1. CASE Accept(s) \/ Quiet(s)
      BY <3>1, <1>t DEF TypeOK, Accept, Quiet, rows, Device, At, Places
    <3>2. CASE Heartbeat(s)
      BY <3>2, <1>t DEF TypeOK, Heartbeat, rows, Device, At, Places
    <3>3. CASE Drop(s)
      BY <3>3, <1>t DEF TypeOK, Drop, rows
    <3> QED
      BY <2>3, <3>1, <3>2, <3>3
  <2> QED
    BY <2>1, <2>2, <2>3
<1>3. Known'
  BY <1>1, <1>2, KeptKnown DEF IInv, Known
<1>4. WaitsWhileAway'
  BY <1>2 DEF IInv, WaitsWhileAway, rows
<1> QED
  BY <1>1, <1>2, <1>3, <1>4, KeptRows DEF IInv, rows

\* The two steps that insert a row.
LEMMA SubmitKeeps ==
    ASSUME IInv, Submit
    PROVE  IInv'
<1>t. TypeOK
  BY DEF IInv
<1>1. PICK d \in Commands : IsNext(d) /\ status' = [status EXCEPT ![d] = "QUEUED"]
  BY DEF Submit
<1>2. status[d] = "none" /\ parent[d] = 0 /\ attempt[d] = 0
  BY <1>1 DEF IsNext, IInv, Descent
<1>3. TypeOK'
  BY <1>1, <1>t DEF TypeOK, Submit
<1>4. WaitsWhileAway'
  BY <1>1, <1>t DEF IInv, TypeOK, WaitsWhileAway, Submit
<1>5. RepairsFollowFailures'
  BY <1>1, <1>2, <1>t DEF IInv, TypeOK, RepairsFollowFailures, Submit
<1>6. Descent'
  BY <1>1, <1>t DEF IInv, TypeOK, Descent, Submit
<1>7. Known'
  BY <1>1, <1>t DEF IInv, TypeOK, Known, Submit
<1> QED
  BY <1>3, <1>4, <1>5, <1>6, <1>7 DEF IInv

LEMMA RepairKeeps ==
    ASSUME IInv, NEW s \in Sessions, NEW c \in Commands, NEW verdict \in Verdicts,
           Repair(s, c, verdict)
    PROVE  IInv'
<1> DEFINE table == Completed(c, verdict)
<1>t. TypeOK
  BY DEF IInv
<1>1. /\ status[c] # "none"
      /\ copies' \in [Commands -> 0..MaxCopies]
      /\ \A d \in Commands : copies'[d] > 0 => status[d] # "none"
  BY AnsweredCopies DEF Repair
<1>2. /\ table \in [Commands -> Statuses]
      /\ \A d \in Commands : Moves(status[d], table[d])
      /\ table[c] \in {"COMPLETED", "FAILED"}
      /\ attempt[c] < MaxAttempts
      /\ \A d \in Commands : table[d] = "WAITING_FOR_DEVICE"
                                => status[d] = "WAITING_FOR_DEVICE"
      /\ \A d \in Commands : table[d] = "none" <=> status[d] = "none"
  BY <1>1, <1>t, CompletedMoves DEF Repair, Repairable
<1> HIDE DEF table
<1>3. PICK d \in Commands :
        /\ IsNext(d)
        /\ status' = [table EXCEPT ![d] = "QUEUED"]
        /\ attempt' = [attempt EXCEPT ![d] = attempt[c] + 1]
        /\ parent' = [parent EXCEPT ![d] = c]
  BY DEF Repair, table
<1>4. /\ status[d] = "none" /\ parent[d] = 0 /\ attempt[d] = 0 /\ d # c
      /\ \A e \in Commands : parent[e] # d
  BY <1>1, <1>3, <1>t DEF IsNext, IInv, Descent, TypeOK
<1>5. /\ loop' = [loop EXCEPT ![s] = At("turning")]
      /\ UNCHANGED <<device, live, overdue, asked>>
  BY DEF Repair, Answered
<1>6. TypeOK'
  <2>1. status' \in [Commands -> Statuses]
    BY <1>2, <1>3
  <2>2. attempt' \in [Commands -> 0..MaxAttempts]
    BY <1>2, <1>3, <1>t DEF TypeOK
  <2>3. parent' \in [Commands -> Commands \cup {0}]
    BY <1>3, <1>t DEF TypeOK
  <2>4. loop' \in [Sessions -> [at : Places, batch : SUBSET Commands]]
    BY <1>5, <1>t DEF TypeOK, At, Places
  <2> QED
    BY <1>1, <1>5, <1>t, <2>1, <2>2, <2>3, <2>4 DEF TypeOK
<1>7. WaitsWhileAway'
  BY <1>2, <1>3, <1>5 DEF IInv, WaitsWhileAway
<1>8. RepairsFollowFailures'
  <2> SUFFICES ASSUME NEW e \in Commands, parent'[e] # 0
               PROVE  /\ status'[parent'[e]] \in {"COMPLETED", "FAILED"}
                      /\ attempt'[e] = attempt'[parent'[e]] + 1
    BY DEF RepairsFollowFailures
  <2>1. CASE e = d
    BY <2>1, <1>2, <1>3, <1>4, <1>t DEF TypeOK
  <2>2. CASE e # d
    <3>1. parent'[e] = parent[e] /\ attempt'[e] = attempt[e]
      BY <2>2, <1>3, <1>t DEF TypeOK
    <3>2. parent[e] \in Commands /\ parent[e] # d
      BY <3>1, <1>4, <1>t DEF TypeOK
    <3>3. /\ status[parent[e]] \in {"COMPLETED", "FAILED"}
          /\ attempt[e] = attempt[parent[e]] + 1
      BY <3>1 DEF IInv, RepairsFollowFailures
    <3>4. status'[parent[e]] = status[parent[e]]
      BY <3>2, <3>3, <1>2, <1>3 DEF Moves
    <3>5. attempt'[parent[e]] = attempt[parent[e]]
      BY <3>2, <1>3, <1>t DEF TypeOK
    <3> QED
      BY <3>1, <3>3, <3>4, <3>5
  <2> QED
    BY <2>1, <2>2
<1>9. Descent'
  <2> SUFFICES ASSUME NEW e \in Commands
               PROVE  /\ status'[e] = "none"
                           => parent'[e] = 0 /\ attempt'[e] = 0 /\ e \notin overdue
                      /\ parent'[e] # 0 => status'[parent'[e]] # "none"
    BY <1>5 DEF Descent
  <2>1. CASE e = d
    BY <2>1, <1>2, <1>3, <1>4, <1>t DEF TypeOK
  <2>2. CASE e # d
    <3>1. /\ parent'[e] = parent[e] /\ attempt'[e] = attempt[e]
          /\ status'[e] = "none" <=> status[e] = "none"
      BY <2>2, <1>2, <1>3, <1>t DEF TypeOK
    <3>2. parent[e] # 0 => parent[e] \in Commands /\ parent[e] # d
      BY <1>4, <1>t DEF TypeOK
    <3> QED
      BY <3>1, <3>2, <1>2, <1>3 DEF IInv, Descent
  <2> QED
    BY <2>1, <2>2
<1>10. Known'
  <2>1. \A e \in Commands : status[e] # "none" => status'[e] # "none"
    BY <1>2, <1>3
  <2>2. \A r \in Sessions : loop'[r].batch \subseteq loop[r].batch
    BY <1>5, <1>t DEF TypeOK, At
  <2> QED
    BY <1>1, <2>1, <2>2 DEF IInv, Known
<1> QED
  BY <1>6, <1>7, <1>8, <1>9, <1>10 DEF IInv

-----------------------------------------------------------------------------
LEMMA StepKeeps ==
    ASSUME IInv, [Next]_vars
    PROVE  /\ IInv'
           /\ \/ Kept
              \/ Submit
              \/ \E s \in Sessions, c \in Commands, verdict \in Verdicts :
                    Repair(s, c, verdict)
<1>1. CASE Submit
  BY <1>1, SubmitKeeps
<1>2. CASE Ask \/ Crash \/ Revoke \/ Register \/ Stale \/ UNCHANGED vars
  BY <1>2, OthersKeep DEF Ask, Crash, Revoke, Register, Stale, vars
<1>3. ASSUME NEW c \in Commands, Expire(c)
      PROVE  IInv' /\ Kept
  BY <1>3, ExpireKeeps
<1>4. ASSUME NEW s \in Sessions,
             Accept(s) \/ Quiet(s) \/ Heartbeat(s) \/ Drop(s)
      PROVE  IInv' /\ Kept
  BY <1>4, OthersKeep DEF Accept, Quiet, Heartbeat, Drop
<1>5. ASSUME NEW s \in Sessions, Hello(s) \/ Turn(s) \/ Sent(s) \/ End(s)
      PROVE  IInv' /\ Kept
  BY <1>5, HelloKeeps, TurnKeeps, SentKeeps, EndKeeps
<1>6. ASSUME NEW s \in Sessions, NEW c \in Commands, NEW verdict \in Verdicts,
             Result(s, c, verdict) \/ RepairRefused(s, c, verdict)
      PROVE  IInv' /\ Kept
  BY <1>6, ResultKeeps, RepairRefusedKeeps
<1>7. ASSUME NEW s \in Sessions, NEW c \in Commands, NEW verdict \in Verdicts,
             Repair(s, c, verdict)
      PROVE  IInv'
  BY <1>7, RepairKeeps
<1> QED
  BY <1>1, <1>2, <1>3, <1>4, <1>5, <1>6, <1>7 DEF Next

\* The invariant that the other results rest on.
THEOREM GatewayInvariance == Spec => []IInv
<1>1. ASSUME Init
      PROVE  IInv
  <2>1. TypeOK
    <3>1. device \in Device
      BY <1>1 DEF Init, Device
    <3>2. loop \in [Sessions -> [at : Places, batch : SUBSET Commands]]
      BY <1>1 DEF Init, At, Places
    <3>3. /\ attempt \in [Commands -> 0..MaxAttempts]
          /\ copies \in [Commands -> 0..MaxCopies]
          /\ parent \in [Commands -> Commands \cup {0}]
      BY <1>1 DEF Init
    <3>4. /\ status \in [Commands -> Statuses]
          /\ overdue \subseteq Commands
          /\ live \subseteq Sessions
          /\ asked \in BOOLEAN
      BY <1>1 DEF Init
    <3> QED
      BY <3>1, <3>2, <3>3, <3>4 DEF TypeOK
  <2>2. WaitsWhileAway /\ RepairsFollowFailures /\ Descent
    BY <1>1 DEF Init, WaitsWhileAway, RepairsFollowFailures, Descent
  <2>3. Known
    BY <1>1 DEF Init, Known, At
  <2> QED
    BY <2>1, <2>2, <2>3 DEF IInv
<1>2. IInv /\ [Next]_vars => IInv'
  BY StepKeeps
<1> QED
  BY <1>1, <1>2, PTL DEF Spec

\* Every column and every coroutine has its type: attempts stay within
\* settings.bolt_max_repair_attempts.
THEOREM GatewayTypes == Spec => []TypeOK
<1>1. IInv => TypeOK
  BY DEF IInv
<1> QED
  BY <1>1, GatewayInvariance, PTL

\* No command that can still be delivered waits while the device has a session.
THEOREM NothingWaitsOnASession == Spec => []WaitsWhileAway
<1>1. IInv => WaitsWhileAway
  BY DEF IInv
<1> QED
  BY <1>1, GatewayInvariance, PTL

\* A repair is never submitted for a build that was or becomes verified.
THEOREM RepairsAreEarned == Spec => []RepairsFollowFailures
<1>1. IInv => RepairsFollowFailures
  BY DEF IInv
<1> QED
  BY <1>1, GatewayInvariance, PTL

-----------------------------------------------------------------------------
(* The gateway implements CommandOutcomes.                                 *)

Outcome(table) ==
    [c \in Commands |-> IF table[c] \in Unended THEN "open" ELSE table[c]]

LEMMA SameOutcomes ==
    ASSUME TypeOK, NEW table \in [Commands -> Statuses]
    PROVE  /\ Outcome(SetAside(table)) = Outcome(table)
           /\ Outcome(Requeued) = Outcome(status)
           /\ \A c \in Commands : Outcome(Delivered(table, c)) = Outcome(table)
BY DEF TypeOK, Outcome, SetAside, Requeued, Delivered

LEMMA ReportedOutcome ==
    ASSUME TypeOK, NEW c \in Commands, status[c] # "none", NEW verdict \in Verdicts
    PROVE  Outcome(Completed(c, verdict))
               = Outcomes!Reported(c, verdict, Outcome(status))
BY DEF TypeOK, Outcome, Completed, Outcomes!Reported

LEMMA TimedOutOutcome ==
    ASSUME TypeOK, Outcome(status') = Outcome(TimedOut)
    PROVE  Outcomes!TimeOut
<1> DEFINE S == {c \in Commands : /\ status[c] \in {"QUEUED", "WAITING_FOR_DEVICE"}
                                 /\ c \in overdue}
<1>1. /\ S \in SUBSET Commands
      /\ \A c \in S : Outcome(status)[c] = "open"
      /\ Outcome(TimedOut) = [c \in Commands |->
            IF c \in S THEN "TIMEOUT" ELSE Outcome(status)[c]]
  BY DEF TypeOK, Outcome, TimedOut
<1>2. Outcome(status') = [c \in Commands |->
            IF c \in S THEN "TIMEOUT" ELSE Outcome(status)[c]]
  BY <1>1
<1> HIDE DEF S
<1> QED
  BY <1>1, <1>2 DEF Outcomes!TimeOut, Outcome

\* The abstract step that each step of the gateway takes.
LEMMA OutcomeStep ==
    ASSUME IInv, [Next]_vars
    PROVE  Outcomes!Next \/ Outcome(status') = Outcome(status)
<1>t. TypeOK /\ status \in [Commands -> Statuses]
  BY DEF IInv, TypeOK
<1>1. CASE Submit
  <2>1. PICK d \in Commands : IsNext(d) /\ status' = [status EXCEPT ![d] = "QUEUED"]
    BY <1>1 DEF Submit
  <2>2. /\ Outcomes!IsNext(d, Outcome(status))
        /\ Outcome(status') = Outcomes!Submitted(d, Outcome(status))
    BY <2>1, <1>t DEF IsNext, Outcome, Outcomes!IsNext, Outcomes!Submitted
  <2> QED
    BY <2>2 DEF Outcomes!Next, Outcomes!Submit, Outcome
<1>2. ASSUME NEW s \in Sessions, Turn(s)
      PROVE  Outcomes!Next \/ Outcome(status') = Outcome(status)
  <2>1. TimedOut \in [Commands -> Statuses]
    BY <1>t, TimedOutMoves
  <2>2. Outcome(status') = Outcome(TimedOut)
    BY <1>2, <1>t, <2>1, SameOutcomes DEF Turn, Dispatch, Pending
  <2> QED
    BY <2>2, <1>t, TimedOutOutcome DEF Outcomes!Next
<1>3. ASSUME NEW s \in Sessions, Sent(s)
      PROVE  Outcome(status') = Outcome(status)
  <2>1. loop[s].batch \subseteq Commands
    BY <1>t DEF TypeOK
  <2> QED
    BY <1>3, <2>1, <1>t, SameOutcomes DEF Sent, Dispatch
<1>4. ASSUME NEW s \in Sessions, Hello(s) \/ End(s)
      PROVE  Outcome(status') = Outcome(status)
  BY <1>4, <1>t, SameOutcomes DEF Hello, End, Close
<1>5. ASSUME NEW s \in Sessions, NEW c \in Commands, NEW verdict \in Verdicts,
             Result(s, c, verdict) \/ RepairRefused(s, c, verdict)
      PROVE  Outcomes!Next
  <2>1. status[c] # "none"
    BY <1>5, AnsweredCopies DEF Result, RepairRefused
  <2>2. Completed(c, verdict) \in [Commands -> Statuses]
    BY <1>t, <2>1, CompletedMoves
  <2>3. Outcome(status') = Outcome(Completed(c, verdict))
    BY <1>5, <2>2, <1>t, SameOutcomes DEF Result, RepairRefused, Close
  <2>4. Outcome(status)[c] # "none"
    BY <2>1 DEF Outcome
  <2>5. Outcomes!Report(c, verdict)
    BY <2>1, <2>3, <2>4, <1>t, ReportedOutcome DEF Outcomes!Report, Outcome
  <2>6. verdict \in Outcomes!Verdicts
    BY DEF Outcomes!Verdicts
  <2> QED
    BY <2>5, <2>6 DEF Outcomes!Next
<1>6. ASSUME NEW s \in Sessions, NEW c \in Commands, NEW verdict \in Verdicts,
             Repair(s, c, verdict)
      PROVE  Outcomes!Next
  <2>1. status[c] # "none"
    BY <1>6, AnsweredCopies DEF Repair
  <2>2. Completed(c, verdict) \in [Commands -> Statuses]
    BY <1>t, <2>1, CompletedMoves
  <2>3. PICK d \in Commands :
          /\ IsNext(d)
          /\ status' = [Completed(c, verdict) EXCEPT ![d] = "QUEUED"]
    BY <1>6 DEF Repair
  <2>4. Outcome(status') = Outcomes!Submitted(d, Outcome(Completed(c, verdict)))
    BY <2>2, <2>3 DEF Outcome, Outcomes!Submitted
  <2>5. /\ Outcome(status)[c] # "none"
        /\ Outcomes!IsNext(d, Outcome(status))
    BY <2>1, <2>3 DEF IsNext, Outcome, Outcomes!IsNext
  <2>6. Outcomes!ReportAndFollow(c, verdict)
    BY <2>1, <2>4, <2>5, <1>t, ReportedOutcome DEF Outcomes!ReportAndFollow, Outcome
  <2>7. verdict \in Outcomes!Verdicts
    BY DEF Outcomes!Verdicts
  <2> QED
    BY <2>6, <2>7 DEF Outcomes!Next
<1>7. CASE UNCHANGED status
  BY <1>7 DEF Outcome
<1>8. ASSUME NEW c \in Commands, Expire(c)
      PROVE  UNCHANGED status
  BY <1>8 DEF Expire
<1>9. ASSUME NEW s \in Sessions, Accept(s) \/ Quiet(s) \/ Heartbeat(s) \/ Drop(s)
      PROVE  UNCHANGED status
  BY <1>9 DEF Accept, Quiet, Heartbeat, Drop, rows
<1>10. ASSUME Ask \/ Crash \/ Revoke \/ Register \/ Stale \/ UNCHANGED vars
       PROVE  UNCHANGED status
  BY <1>10 DEF Ask, Crash, Revoke, Register, Stale, vars, rows
<1> QED
  BY <1>1, <1>2, <1>3, <1>4, <1>5, <1>6, <1>7, <1>8, <1>9, <1>10 DEF Next

\* Whatever happens to connections, each command gets one outcome, for good.
THEOREM GatewayImplementsOutcomes == Spec => OutcomesAreFinal
<1>1. Init => Outcomes!Init
  BY DEF Init, Outcomes!Init
<1>2. IInv /\ [Next]_vars => [Outcomes!Next]_(Outcome(status))
  BY OutcomeStep
<1>3. Outcome(status) = [c \in Commands |->
          IF status[c] \in Unended THEN "open" ELSE status[c]]
  BY DEF Outcome
<1> QED
  BY <1>1, <1>2, <1>3, GatewayInvariance, PTL DEF Spec, OutcomesAreFinal, Outcomes!Spec, Outcome

\* What a command has come to is final.
LEMMA FinalOutcomeStays ==
    ASSUME NEW c \in Commands, Outcome(status)[c] \notin {"none", "open"},
           [Outcomes!Next]_(Outcome(status))
    PROVE  Outcome(status')[c] = Outcome(status)[c]
<1> DEFINE old == Outcome(status)
           new == Outcome(status')
<1>0. old = [d \in Commands |-> old[d]]
  BY DEF Outcome
<1>1. CASE Outcomes!Submit
  <2>1. PICK d \in Commands : old[d] = "none" /\ new = [old EXCEPT ![d] = "open"]
    BY <1>1 DEF Outcome, Outcomes!Submit, Outcomes!Submitted, Outcomes!IsNext
  <2> HIDE DEF old, new
  <2> QED
    BY <1>0, <2>1 DEF old, new
<1>2. ASSUME NEW d \in Commands, NEW verdict \in Outcomes!Verdicts,
             Outcomes!Report(d, verdict)
      PROVE  new[c] = old[c]
  <2>1. new = IF old[d] = "open" THEN [old EXCEPT ![d] = verdict] ELSE old
    BY <1>2 DEF Outcome, Outcomes!Report, Outcomes!Reported
  <2>2. old[c] # "open"
    OBVIOUS
  <2> HIDE DEF old, new
  <2> QED
    BY <1>0, <2>1, <2>2
<1>3. ASSUME NEW d \in Commands, NEW verdict \in Outcomes!Verdicts,
             Outcomes!ReportAndFollow(d, verdict)
      PROVE  new[c] = old[c]
  <2> DEFINE mid == IF old[d] = "open" THEN [old EXCEPT ![d] = verdict] ELSE old
  <2>1. PICK e \in Commands : old[e] = "none" /\ new = [mid EXCEPT ![e] = "open"]
    BY <1>3 DEF Outcome, Outcomes!ReportAndFollow, Outcomes!Reported,
      Outcomes!Submitted, Outcomes!IsNext
  <2>2. old[c] \notin {"none", "open"}
    OBVIOUS
  <2> HIDE DEF old, new
  <2> QED
    BY <1>0, <2>1, <2>2
<1>4. CASE Outcomes!TimeOut
  <2>1. PICK S \in SUBSET Commands :
          /\ \A d \in S : old[d] = "open"
          /\ new = [d \in Commands |-> IF d \in S THEN "TIMEOUT" ELSE old[d]]
    BY <1>4 DEF Outcome, Outcomes!TimeOut
  <2> QED
    BY <2>1
<1>5. CASE new = old
  BY <1>5
<1> QED
  BY <1>1, <1>2, <1>3, <1>4, <1>5 DEF Outcomes!Next, Outcome

\* A command that has come to an outcome keeps it, whatever its device reports
\* again, however its connections end and whatever times out.  It is what the
\* refinement is good for.
THEOREM OutcomesStay ==
    Spec => [][\A c \in Commands :
                  Outcome(status)[c] \notin {"none", "open"}
                      => Outcome(status')[c] = Outcome(status)[c]]_vars
<1>1. [Outcomes!Next]_(Outcome(status)) =>
         \A c \in Commands :
            Outcome(status)[c] \notin {"none", "open"}
                => Outcome(status')[c] = Outcome(status)[c]
  BY FinalOutcomeStays
<1>2. IInv /\ [Next]_vars => [Outcomes!Next]_(Outcome(status))
  BY OutcomeStep
<1> QED
  BY <1>1, <1>2, GatewayInvariance, PTL DEF Spec
=============================================================================
