--------------------------- MODULE ChatStream_proofs ---------------------------
(***************************************************************************)
(* Proofs about ChatStream, for every number of users, keys and requests,  *)
(* every limit, size of the limiter, length of an answer and number of     *)
(* crashes.                                                                *)
(***************************************************************************)
EXTENDS ChatStream, FiniteSetTheorems, SequenceTheorems, TLAPS

-----------------------------------------------------------------------------
(* The invariant: of one request,                                          *)

Types ==
    /\ key \in [Requests -> Keys]
    /\ at \in [Requests -> Places]
    /\ thread \in [Requests -> SUBSET Operations]
    /\ result \in [Requests -> {"none", "ok", "failed", "conflict", "insufficient"}]
    /\ gone \in [Requests -> BOOLEAN]
    /\ mode \in [Requests -> {"none", "direct", "generate"}]
    /\ text \in [Requests -> Nat]
    /\ known \in [Requests -> BOOLEAN]
    /\ charged \in [Requests -> BOOLEAN]
    /\ owned \in [Requests -> BOOLEAN]
    /\ reservation \in [Keys -> {"none", "reserved", "settled", "released"}]
    /\ message \in [Requests -> [state : MessageStates, len : Nat]]
    /\ turns \in [Requests -> Nat]
    /\ told \in [Requests -> {"none", "completed", "failed"}]

OperationsAt(place) ==
    CASE place = "keeping" -> {"saving"}
      [] place = "closing" -> {"interrupting", "settling"}
      [] place \in Working \ {"keeping", "closing"} -> {place}
      [] OTHER -> {}

\* At most the operation that is awaited runs, and it has no result yet.
Tasked(r) ==
    thread[r] = {} \/ \E op \in OperationsAt(at[r]) : thread[r] = {op} /\ result[r] = "none"

\* What is known of the turn at each place.
Staged(r) ==
    /\ at[r] \in {"new", "undoing", "opened", "preparing"} \cup BeforeStream => mode[r] = "none"
    /\ at[r] = "direct" => mode[r] = "direct"
    /\ at[r] \in {"pulling", "first", "token", "beginning", "keeping", "saving", "auditing"}
           => mode[r] = "generate"
    /\ at[r] \in {"finalizing", "reporting"} => mode[r] # "none"
    /\ mode[r] # "generate" => ~known[r]
    /\ at[r] = "first" \/ (at[r] = "beginning" /\ thread[r] # {}) => ~known[r]
    /\ charged[r] =>
           /\ at[r] \in {"finalizing", "auditing", "reporting", "failing", "rolling_back",
                         "closing"} \cup Over
           /\ at[r] = "finalizing" => thread[r] = {}
           /\ thread[r] # {"interrupting"}

\* The cleanup may still insert the answer.
Unclosed(r) == at[r] \notin Over /\ (at[r] = "closing" => thread[r] = {"interrupting"})

Counted(r) ==
    /\ turns[r] <= 1
    /\ mode[r] # "direct" /\ ~known[r] /\ Unclosed(r) => turns[r] = 0
    /\ at[r] = "direct" \/ (mode[r] = "direct" /\ at[r] = "finalizing" /\ thread[r] # {})
           => turns[r] = 0

\* The message has been dealt with.
Concluded(r) == at[r] = "ended" \/ (at[r] = "closing" /\ thread[r] # {"interrupting"})

Stored(r) ==
    /\ message[r].len <= text[r]
    /\ charged[r] => message[r] = [state |-> "final", len |-> text[r]]
    /\ Concluded(r) /\ mode[r] = "generate" /\ r \notin unsettled =>
           message[r].state \in {"interrupted", "final"} /\ message[r].len = text[r]

Visible(r) == mode[r] = "direct" \/ text[r] > 0

Reserving(r) ==
    /\ \/ at[r] \in {"new", "creating"}
       \/ at[r] = "reserving" /\ (thread[r] # {} \/ result[r] = "insufficient")
       => ~owned[r]
    /\ at[r] = "reserving" /\ result[r] = "ok" => owned[r]
    /\ at[r] \notin {"new", "creating", "reserving", "undoing"} \cup Over => owned[r]

Answered(r) ==
    /\ at[r] \in {"auditing", "reporting"} \/ (at[r] = "finalizing" /\ result[r] = "ok")
           => charged[r] = Visible(r)
    /\ told[r] = "completed" =>
           at[r] \in {"closing"} \cup Over /\ charged[r] = Visible(r)

Local(r) ==
    Tasked(r) /\ Staged(r) /\ Counted(r) /\ Stored(r) /\ Reserving(r) /\ Answered(r)

(* and of the requests that share a reservation.                           *)

\* The cleanup has dealt with the credits.
Done(r) == at[r] = "ended" \/ (at[r] \in Shielded /\ thread[r] = {})

Accounts ==
    /\ \A r, s \in Requests : owned[r] /\ owned[s] /\ key[r] = key[s] => r = s
    /\ \A r \in Requests : owned[r] => reservation[key[r]] # "none"
    /\ \A r \in Requests :
          owned[r] /\ InFlight(r) /\ ~Done(r) => reservation[key[r]] = "reserved"
    /\ \A r \in Requests :
          owned[r] /\ Done(r) /\ r \notin unsettled => reservation[key[r]] = Verdict(r)

IInv == Types /\ (\A r \in Requests : Local(r)) /\ Accounts

-----------------------------------------------------------------------------
(* A step of one request leaves the others alone.                          *)

Unmoved(q) ==
    /\ at'[q] = at[q] /\ thread'[q] = thread[q] /\ result'[q] = result[q]
    /\ mode'[q] = mode[q] /\ text'[q] = text[q] /\ known'[q] = known[q]
    /\ charged'[q] = charged[q] /\ owned'[q] = owned[q]
    /\ message'[q] = message[q] /\ turns'[q] = turns[q] /\ told'[q] = told[q]
    /\ q \in unsettled' <=> q \in unsettled

\* What is said of one request depends on its own state only.
LEMMA UnmovedLocal ==
    ASSUME NEW q \in Requests, Local(q), Unmoved(q)
    PROVE  Local(q)'
<1>1. Tasked(q)'
  BY DEF Local, Tasked, Unmoved
<1>2. Staged(q)'
  BY DEF Local, Staged, Unmoved
<1>3. Counted(q)'
  BY DEF Local, Counted, Unclosed, Unmoved
<1>4. Stored(q)'
  BY DEF Local, Stored, Concluded, Unmoved
<1>5. Reserving(q)' /\ Answered(q)'
  BY DEF Local, Reserving, Answered, Visible, Unmoved
<1> QED
  BY <1>1, <1>2, <1>3, <1>4, <1>5 DEF Local

\* The moves: to another place, to an operation, and the end of one.
Moves(r) ==
    \/ \E place \in Places : Suspend(r, place)
    \/ \E place \in Places : \E op \in Operations : Run(r, place, op)
    \/ \E op \in Operations :
          \E how \in {"ok", "failed", "conflict", "insufficient"} : Finish(r, op, how)

\* A move of one coroutine or thread is no other's.
LEMMA MoveTyped ==
    ASSUME Types, NEW r \in Requests, Moves(r)
    PROVE  /\ at' \in [Requests -> Places]
           /\ thread' \in [Requests -> SUBSET Operations]
           /\ result' \in [Requests -> {"none", "ok", "failed", "conflict", "insufficient"}]
           /\ gone' = gone
           /\ \A q \in Requests \ {r} :
                 at'[q] = at[q] /\ thread'[q] = thread[q] /\ result'[q] = result[q]
<1>1. CASE \E place \in Places : Suspend(r, place)
  BY <1>1 DEF Types, Suspend
<1>2. CASE \E place \in Places : \E op \in Operations : Run(r, place, op)
  BY <1>2 DEF Types, Run
<1>3. CASE \E op \in Operations :
              \E how \in {"ok", "failed", "conflict", "insufficient"} : Finish(r, op, how)
  BY <1>3 DEF Types, Finish
<1> QED
  BY <1>1, <1>2, <1>3 DEF Moves

\* The steps of Next that are about one request.
Acts(r) == Admit(r) \/ Refuse(r) \/ Coroutine(r) \/ Chunk(r) \/ Thread(r) \/ Go(r)

\* A step keeps the types, and moves one request only.
LEMMA ActsTyped ==
    ASSUME Types, NEW r \in Requests, Acts(r)
    PROVE  Types' /\ \A q \in Requests \ {r} : Unmoved(q)
<1>1. CASE Refuse(r) \/ Admit(r) \/ Coroutine(r) \/ Chunk(r) \/ (Thread(r) /\ ~Interrupt(r))
  <2>1. Moves(r)
    <3> USE DEF Moves, Places, Working, Waiting, Yielding, Over, Operations
    <3>1. CASE Admit(r)
      BY <3>1 DEF Admit
    <3>2. CASE Refuse(r)
      BY <3>2 DEF Refuse
    <3>3. CASE Created(r)
      BY <3>3 DEF Created
    <3>4. CASE Reserved(r)
      BY <3>4 DEF Reserved
    <3>5. CASE Unaffordable(r)
      BY <3>5 DEF Unaffordable
    <3>6. CASE GiveUp(r)
      BY <3>6 DEF GiveUp
    <3>7. CASE GivenUp(r)
      BY <3>7 DEF GivenUp
    <3>8. CASE Start(r)
      BY <3>8 DEF Start
    <3>9. CASE Opened(r)
      BY <3>9 DEF Opened
    <3>10. CASE Prepared(r)
      BY <3>10 DEF Prepared
    <3>11. CASE DirectSent(r)
      BY <3>11 DEF DirectSent
    <3>12. CASE Chunk(r)
      BY <3>12 DEF Chunk
    <3>13. CASE FirstSent(r)
      BY <3>13 DEF FirstSent
    <3>14. CASE TokenSent(r)
      BY <3>14 DEF TokenSent
    <3>15. CASE Begun(r)
      BY <3>15 DEF Begun
    <3>16. CASE Saved(r)
      BY <3>16 DEF Saved
    <3>17. CASE ProviderEnds(r)
      BY <3>17 DEF ProviderEnds
    <3>18. CASE Finalized(r)
      BY <3>18 DEF Finalized
    <3>19. CASE Audited(r)
      BY <3>19 DEF Audited
    <3>20. CASE Raise(r)
      BY <3>20 DEF Raise
    <3>21. CASE RolledBack(r)
      BY <3>21 DEF RolledBack
    <3>22. CASE Report(r)
      BY <3>22 DEF Report, CleansUp
    <3>23. CASE Leave(r)
      BY <3>23 DEF Leave, CleansUp
    <3>24. CASE Closed(r)
      BY <3>24 DEF Closed
    <3>25. CASE Pass(r)
      BY <3>25 DEF Pass
    <3>26. CASE Fail(r)
      BY <3>26 DEF Fail
    <3>27. CASE Reserve(r)
      BY <3>27 DEF Reserve
    <3>28. CASE Undo(r)
      BY <3>28 DEF Undo, UndoOwn
    <3>29. CASE Begin(r)
      BY <3>29 DEF Begin
    <3>30. CASE Save(r)
      BY <3>30 DEF Save
    <3>31. CASE Finalize(r)
      BY <3>31 DEF Finalize
    <3>32. CASE Settle(r)
      BY <3>32 DEF Settle
    <3> QED
      BY <1>1, <3>1, <3>2, <3>3, <3>4, <3>5, <3>6, <3>7, <3>8, <3>9, <3>10, <3>11, <3>12, <3>13,
         <3>14, <3>15, <3>16, <3>17, <3>18, <3>19, <3>20, <3>21, <3>22, <3>23, <3>24, <3>25, <3>26,
         <3>27, <3>28, <3>29, <3>30, <3>31, <3>32 DEF Coroutine, Thread
  <2>2. /\ at' \in [Requests -> Places]
        /\ thread' \in [Requests -> SUBSET Operations]
        /\ result' \in [Requests -> {"none", "ok", "failed", "conflict", "insufficient"}]
        /\ gone' = gone
        /\ \A q \in Requests \ {r} :
              at'[q] = at[q] /\ thread'[q] = thread[q] /\ result'[q] = result[q]
    BY <2>1, MoveTyped
  <2> USE DEF Types, Unmoved, identity, turn, rows, history, MessageStates
  <2>3. CASE UNCHANGED <<identity, turn, rows, told, unsettled>>
    BY <2>2, <2>3
  <2>4. CASE Prepared(r)
    BY <2>2, <2>4 DEF Prepared
  <2>5. CASE Chunk(r)
    <3>1. PICK seen \in 0..1 : text' = [text EXCEPT ![r] = @ + seen]
      BY <2>5 DEF Chunk
    <3>2. text' \in [Requests -> Nat] /\ \A q \in Requests \ {r} : text'[q] = text[q]
      BY <3>1
    <3>3. UNCHANGED <<key, mode, known, charged, owned, rows, told, unsettled>>
      BY <2>5 DEF Chunk
    <3> QED
      BY <2>2, <3>2, <3>3
  <2>6. CASE Report(r)
    BY <2>2, <2>6 DEF Report
  <2>7. CASE Reserve(r)
    <3>1. /\ \/ UNCHANGED <<owned, reservation>>
             \/ /\ owned' = [owned EXCEPT ![r] = TRUE]
                /\ reservation' = [reservation EXCEPT ![key[r]] = "reserved"]
          /\ UNCHANGED <<key, mode, text, known, charged, message, turns, told, unsettled>>
      BY <2>7 DEF Reserve
    <3>2. owned' \in [Requests -> BOOLEAN] /\ \A q \in Requests \ {r} : owned'[q] = owned[q]
      BY <3>1
    <3>3. reservation' \in [Keys -> {"none", "reserved", "settled", "released"}]
      BY <3>1
    <3> QED
      BY <2>2, <3>1, <3>2, <3>3
  <2>8. CASE Undo(r)
    BY <2>2, <2>8 DEF Undo, UndoOwn, Ended
  <2>9. CASE Begin(r)
    <3>1. message' \in [Requests -> [state : MessageStates, len : Nat]]
      BY <2>9 DEF Begin
    <3> QED
      BY <2>2, <2>9, <3>1 DEF Begin
  <2>10. CASE Save(r)
    BY <2>2, <2>10 DEF Save
  <2>11. CASE Finalize(r)
    <3>1. message' \in [Requests -> [state : MessageStates, len : Nat]]
      <4>1. [state |-> "final", len |-> text[r]] \in [state : MessageStates, len : Nat]
        OBVIOUS
      <4>2. message' = [message EXCEPT ![r] = [state |-> "final", len |-> text[r]]]
        BY <2>11 DEF Finalize
      <4> QED
        BY <4>1, <4>2
    <3>2. charged' \in [Requests -> BOOLEAN] /\ turns' \in [Requests -> Nat]
      <4>1. \/ charged' = charged
            \/ charged' = [charged EXCEPT ![r] = mode[r] = "direct" \/ text[r] > 0]
        BY <2>11 DEF Finalize
      <4>2. turns' = [turns EXCEPT ![r] = IF mode[r] = "direct" THEN @ + 1 ELSE @]
        BY <2>11 DEF Finalize
      <4>3. charged' \in [Requests -> BOOLEAN]
        BY <4>1, Zenon DEF Types
      <4>4. turns' \in [Requests -> Nat]
        BY <4>2
      <4> QED
        BY <4>3, <4>4
    <3>3. \A q \in Requests \ {r} : /\ message'[q] = message[q]
                                   /\ charged'[q] = charged[q]
                                   /\ turns'[q] = turns[q]
      BY <2>11 DEF Finalize
    <3>4. UNCHANGED <<key, mode, text, known, owned, reservation, told, unsettled>>
      BY <2>11 DEF Finalize
    <3> QED
      BY <2>2, <3>1, <3>2, <3>3, <3>4
  <2>12. CASE Settle(r)
    BY <2>2, <2>12 DEF Settle, Ended, Verdict
  <2> QED
    BY <1>1, <2>3, <2>4, <2>5, <2>6, <2>7, <2>8, <2>9, <2>10, <2>11, <2>12 DEF Admit, Coroutine,
       Thread, Refuse, Created, Reserved, Unaffordable, GiveUp, GivenUp, Start, Opened, DirectSent,
       FirstSent, TokenSent, Begun, Saved, ProviderEnds, Finalized, Audited, Raise, RolledBack,
       Leave, Closed, Pass, Fail
<1>2. CASE Interrupt(r)
  <2>1. /\ message' \in [Requests -> [state : MessageStates, len : Nat]]
        /\ \A q \in Requests \ {r} : message'[q] = message[q]
    <3>1. Interrupted(r) \in [state : MessageStates, len : Nat]
      BY DEF Types, Interrupted, MessageStates
    <3>2. message' = message \/ message' = [message EXCEPT ![r] = Interrupted(r)]
      BY <1>2 DEF Interrupt
    <3>3. message \in [Requests -> [state : MessageStates, len : Nat]]
      BY DEF Types
    <3> HIDE DEF Types
    <3> QED
      BY <3>1, <3>2, <3>3
  <2>2. thread' \in [Requests -> SUBSET Operations]
    BY <1>2 DEF Types, Interrupt, Operations
  <2>3. turns' \in [Requests -> Nat] /\ \A q \in Requests \ {r} : turns'[q] = turns[q]
    BY <1>2 DEF Types, Interrupt
  <2> QED
    BY <1>2, <2>1, <2>2, <2>3 DEF Types, Unmoved, Interrupt, identity, turn
<1>3. CASE Go(r)
  BY <1>3 DEF Go, Types, Unmoved, identity, turn, rows, history
<1> QED
  BY <1>1, <1>2, <1>3 DEF Acts, Thread

-----------------------------------------------------------------------------
(* What the steps of a request keep of its own state.                      *)

\* One step per action; where it has two outcomes, what it does to the request first.
LEMMA ActsLocal ==
    ASSUME Types, Types', NEW r \in Requests, Local(r), Acts(r)
    PROVE  Local(r)'
<1> USE DEF Types, Local, Tasked, Staged, Counted, Unclosed, Stored, Concluded, Visible, Reserving, Answered,
        Suspend, Run, Finish, identity, turn, rows, history, OperationsAt,
        Working, Waiting, Yielding, Over, BeforeStream, Shielded
<1>1. CASE Admit(r)
  <2>1. /\ at[r] = "new" /\ at'[r] \in {"creating", "reserving"}
        /\ thread'[r] = thread[r] \cup {at'[r]} /\ result'[r] = "none"
    BY <1>1 DEF Admit
  <2>2. UNCHANGED <<turn, rows, told, unsettled>>
    BY <1>1 DEF Admit
  <2> HIDE DEF Types, Suspend, Run, Finish
  <2> QED
    BY <2>1, <2>2
<1>2. CASE Refuse(r)
  BY <1>2 DEF Refuse
<1>3. CASE Created(r)
  BY <1>3 DEF Created, Returned
<1>4. CASE Reserved(r)
  BY <1>4 DEF Reserved, Returned
<1>5. CASE Unaffordable(r)
  BY <1>5 DEF Unaffordable, Returned
<1>6. CASE GiveUp(r)
  BY <1>6 DEF GiveUp, Drained
<1>7. CASE GivenUp(r)
  BY <1>7 DEF GivenUp, Drained
<1>8. CASE Start(r)
  BY <1>8 DEF Start, Returned
<1>9. CASE Opened(r)
  BY <1>9 DEF Opened
<1>10. CASE Prepared(r)
  BY <1>10 DEF Prepared
<1>11. CASE DirectSent(r)
  BY <1>11 DEF DirectSent
<1>12. CASE Chunk(r)
  <2>1. /\ at[r] = "pulling"
        /\ thread[r] = {}
        /\ \/ at'[r] = "first" /\ ~known[r] /\ thread'[r] = {}
           \/ at'[r] = "token" /\ thread'[r] = {}
           \/ at'[r] = "saving" /\ thread'[r] = {"saving"}
        /\ result'[r] = "none"
    BY <1>12 DEF Chunk
  <2>2. text'[r] \in Nat /\ text'[r] >= text[r]
    <3>1. PICK seen \in 0..1 : text' = [text EXCEPT ![r] = @ + seen]
      BY <1>12 DEF Chunk
    <3> QED
      BY <3>1
  <2>3. /\ UNCHANGED <<mode, known, charged, owned, rows, told, unsettled>>
        /\ ~charged[r] /\ told[r] # "completed" /\ mode[r] = "generate"
    BY <1>12, <2>1 DEF Chunk
  <2>4. message[r].len \in Nat /\ text[r] \in Nat
    OBVIOUS
  <2> HIDE DEF Types, Suspend, Run, Finish
  <2> QED
    BY <2>1, <2>2, <2>3, <2>4
<1>13. CASE FirstSent(r)
  BY <1>13 DEF FirstSent
<1>14. CASE TokenSent(r)
  BY <1>14 DEF TokenSent
<1>15. CASE Begun(r)
  BY <1>15 DEF Begun, Returned
<1>16. CASE Saved(r)
  BY <1>16 DEF Saved, Returned
<1>17. CASE ProviderEnds(r)
  BY <1>17 DEF ProviderEnds
<1>18. CASE Finalized(r)
  <2>1. /\ at[r] = "finalizing" /\ thread[r] = {} /\ result[r] = "ok"
        /\ \/ mode[r] = "generate" /\ at'[r] = "auditing" /\ thread'[r] = {"auditing"}
           \/ mode[r] # "generate" /\ at'[r] = "reporting" /\ thread'[r] = {}
        /\ result'[r] = "none"
    BY <1>18 DEF Finalized, Returned, Drained
  <2>2. UNCHANGED <<turn, rows, told, unsettled>>
    BY <1>18 DEF Finalized
  <2> HIDE DEF Types, Suspend, Run, Finish
  <2> QED
    BY <2>1, <2>2
<1>19. CASE Audited(r)
  BY <1>19 DEF Audited, Returned
<1>20. CASE Raise(r)
  <2>1. /\ at[r] \in Waiting \cup {"beginning", "keeping", "saving", "finalizing", "auditing"}
        /\ thread[r] = {}
        /\ \/ at'[r] = "failing" /\ thread'[r] = {}
           \/ at'[r] = "rolling_back" /\ thread'[r] = {"rolling_back"}
        /\ result'[r] = "none"
    BY <1>20 DEF Raise, Broken, Returned, Drained
  <2>2. UNCHANGED <<turn, rows, told, unsettled>>
    BY <1>20 DEF Raise
  <2> HIDE DEF Types, Suspend, Run, Finish
  <2> QED
    BY <2>1, <2>2
<1>21. CASE RolledBack(r)
  BY <1>21 DEF RolledBack, Returned
<1>22. CASE Report(r)
  <2>1. /\ at[r] \in {"reporting", "failing"} /\ thread[r] = {}
        /\ at'[r] = "closing" /\ result'[r] = "none"
        /\ thread'[r] = IF ~charged[r] /\ mode[r] # "none" THEN {"interrupting"} ELSE {"settling"}
        /\ told'[r] = IF at[r] = "reporting" THEN "completed" ELSE "failed"
    BY <1>22 DEF Report, CleansUp
  <2>2. UNCHANGED <<turn, rows, unsettled>>
    BY <1>22 DEF Report
  <2> HIDE DEF Types, Suspend, Run, Finish
  <2> QED
    BY <2>1, <2>2
<1>23. CASE Leave(r)
  <2>1. /\ at[r] \in (Working \cup Waiting \cup Yielding) \ (BeforeStream \cup Shielded)
        /\ thread[r] = {}
        /\ at'[r] = "closing" /\ result'[r] = "none"
        /\ thread'[r] = IF ~charged[r] /\ mode[r] # "none" THEN {"interrupting"} ELSE {"settling"}
    BY <1>23 DEF Leave, CleansUp, Drained
  <2>2. UNCHANGED <<turn, rows, told, unsettled>>
    BY <1>23 DEF Leave
  <2> HIDE DEF Types, Suspend, Run, Finish
  <2> QED
    BY <2>1, <2>2
<1>24. CASE Closed(r)
  BY <1>24 DEF Closed, Drained
<1>25. CASE Pass(r)
  <2>1. /\ at[r] \in {"creating", "reading", "auditing", "rolling_back"}
        /\ thread[r] = {at[r]} /\ at'[r] = at[r] /\ thread'[r] = {}
    BY <1>25 DEF Pass
  <2>2. UNCHANGED <<turn, rows, told, unsettled>>
    BY <1>25 DEF Pass
  <2> HIDE DEF Types, Suspend, Run, Finish
  <2> QED
    BY <2>1, <2>2
<1>26. CASE Fail(r)
  BY <1>26 DEF Fail
<1>27. CASE Reserve(r)
  BY <1>27 DEF Reserve
<1>28. CASE Undo(r)
  BY <1>28 DEF Undo, UndoOwn, Ended
<1>29. CASE Begin(r)
  BY <1>29 DEF Begin
<1>30. CASE Save(r)
  BY <1>30 DEF Save
<1>31. CASE Finalize(r)
  <2>1. /\ at[r] = "finalizing" /\ thread[r] = {"finalizing"}
        /\ at'[r] = at[r] /\ thread'[r] = {}
        /\ \/ result'[r] = "ok" /\ charged'[r] = Visible(r)
           \/ result'[r] = "failed" /\ charged'[r] = charged[r]
    BY <1>31 DEF Finalize
  <2>2. /\ message'[r] = [state |-> "final", len |-> text[r]]
        /\ turns'[r] = IF mode[r] = "direct" THEN turns[r] + 1 ELSE turns[r]
        /\ turns[r] \in Nat /\ text[r] \in Nat
    BY <1>31 DEF Finalize
  <2>3. UNCHANGED <<mode, text, known, owned, told, unsettled>>
    BY <1>31 DEF Finalize
  <2> HIDE DEF Types, Suspend, Run, Finish
  <2> QED
    BY <2>1, <2>2, <2>3
<1>32. CASE Interrupt(r)
  <2>1. /\ at[r] = "closing" /\ thread[r] = {"interrupting"} /\ result[r] = "none"
        /\ at' = at /\ thread'[r] = {"settling"} /\ result' = result
    BY <1>32 DEF Interrupt
  <2>2. \/ /\ mode[r] = "generate"
           /\ message'[r] = Interrupted(r)
           /\ turns'[r] = IF known[r] THEN turns[r] ELSE turns[r] + 1
           /\ unsettled' = unsettled
        \/ /\ mode[r] = "direct" \/ r \in unsettled'
           /\ UNCHANGED <<message, turns>>
    BY <1>32 DEF Interrupt
  <2>3. UNCHANGED <<turn, told>>
    BY <1>32 DEF Interrupt
  <2>4. message[r].len \in Nat /\ text[r] \in Nat /\ turns[r] \in Nat
    OBVIOUS
  <2>5. ~charged[r] /\ (mode[r] = "direct" => ~known[r])
    BY <2>1
  <2> HIDE DEF Types, Suspend, Run, Finish
  <2>6. CASE message' = message /\ turns' = turns /\ (mode[r] = "direct" \/ r \in unsettled')
    BY <2>1, <2>3, <2>5, <2>6
  <2>7. CASE message' # message \/ turns' # turns \/ (mode[r] # "direct" /\ r \notin unsettled')
    <3>1. message'[r].state = "interrupted" /\ message'[r].len = text[r]
      BY <2>2, <2>4, <2>7 DEF Interrupted
    <3>2. mode[r] = "generate" /\ turns'[r] <= 1
      BY <2>1, <2>2, <2>4, <2>7
    <3> QED
      BY <2>1, <2>3, <2>4, <2>5, <3>1, <3>2
  <2> QED
    BY <2>6, <2>7
<1>33. CASE Settle(r)
  <2>1. /\ at[r] = "closing" /\ thread[r] = {"settling"}
        /\ at' = at /\ thread'[r] = {} /\ unsettled \subseteq unsettled'
    BY <1>33 DEF Settle
  <2>2. UNCHANGED <<turn, message, turns, told>>
    BY <1>33 DEF Settle
  <2> HIDE DEF Types, Suspend, Run, Finish
  <2> QED
    BY <2>1, <2>2
<1>34. CASE Go(r)
  BY <1>34 DEF Go
<1> QED
  BY <1>1, <1>2, <1>3, <1>4, <1>5, <1>6, <1>7, <1>8, <1>9, <1>10, <1>11, <1>12, <1>13, <1>14,
     <1>15, <1>16, <1>17, <1>18, <1>19, <1>20, <1>21, <1>22, <1>23, <1>24, <1>25, <1>26, <1>27,
     <1>28, <1>29, <1>30, <1>31, <1>32, <1>33, <1>34 DEF Acts, Coroutine, Thread

-----------------------------------------------------------------------------
(* What the steps keep of the reservations.                                *)

\* A step that leaves the reservations alone, and neither begins nor ends the
\* handling of credits by a request that owns them.
Quiet(r) ==
    /\ UNCHANGED <<key, owned, reservation>>
    /\ unsettled \subseteq unsettled'
    /\ owned[r] =>
           /\ InFlight(r)' /\ ~Done(r)' => InFlight(r) /\ ~Done(r)
           /\ Done(r)' => Done(r) /\ charged'[r] = charged[r]

\* Quiet steps keep the accounts.
LEMMA QuietAccounts ==
    ASSUME Accounts, NEW r \in Requests, Quiet(r),
           \A q \in Requests \ {r} : Unmoved(q)
    PROVE  Accounts'
<1>1. \A q \in Requests : owned[q] =>
        /\ InFlight(q)' /\ ~Done(q)' => InFlight(q) /\ ~Done(q)
        /\ Done(q)' => Done(q) /\ charged'[q] = charged[q]
  BY DEF Quiet, Unmoved, InFlight, Done
<1>2. UNCHANGED <<key, owned, reservation>> /\ unsettled \subseteq unsettled'
  BY DEF Quiet
<1>3. \A p, q \in Requests : owned'[p] /\ owned'[q] /\ key'[p] = key'[q] => p = q
  BY <1>2 DEF Accounts
<1>4. \A q \in Requests : owned'[q] => reservation'[key'[q]] # "none"
  BY <1>2 DEF Accounts
<1>5. \A q \in Requests :
        owned'[q] /\ InFlight(q)' /\ ~Done(q)' => reservation'[key'[q]] = "reserved"
  BY <1>1, <1>2 DEF Accounts
<1>6. \A q \in Requests :
        owned'[q] /\ Done(q)' /\ q \notin unsettled' => reservation'[key'[q]] = Verdict(q)'
  BY <1>1, <1>2 DEF Accounts, Verdict
<1> QED
  BY <1>3, <1>4, <1>5, <1>6 DEF Accounts

\* All steps are quiet but the three in which a thread writes a reservation.
LEMMA ActsQuiet ==
    ASSUME Types, Types', NEW r \in Requests, Local(r), Acts(r),
           ~Reserve(r), ~Undo(r), ~Settle(r)
    PROVE  Quiet(r)
<1> USE DEF Types, Local, Tasked, Staged, Reserving, Quiet, InFlight, Done, Suspend, Run, Finish,
        identity, turn, rows, history, OperationsAt, Working, Waiting, Yielding, Over, BeforeStream, Shielded
<1>1. CASE Admit(r)
  BY <1>1 DEF Admit
<1>2. CASE Refuse(r)
  BY <1>2 DEF Refuse
<1>3. CASE Created(r)
  BY <1>3 DEF Created, Returned
<1>4. CASE Reserved(r)
  BY <1>4 DEF Reserved, Returned
<1>5. CASE Unaffordable(r)
  BY <1>5 DEF Unaffordable, Returned, Drained
<1>6. CASE GiveUp(r)
  BY <1>6 DEF GiveUp, Drained
<1>7. CASE GivenUp(r)
  BY <1>7 DEF GivenUp, Drained
<1>8. CASE Start(r)
  BY <1>8 DEF Start, Returned
<1>9. CASE Opened(r)
  BY <1>9 DEF Opened
<1>10. CASE Prepared(r)
  BY <1>10 DEF Prepared
<1>11. CASE DirectSent(r)
  BY <1>11 DEF DirectSent
<1>12. CASE Chunk(r)
  BY <1>12 DEF Chunk
<1>13. CASE FirstSent(r)
  BY <1>13 DEF FirstSent
<1>14. CASE TokenSent(r)
  BY <1>14 DEF TokenSent
<1>15. CASE Begun(r)
  BY <1>15 DEF Begun, Returned
<1>16. CASE Saved(r)
  BY <1>16 DEF Saved, Returned
<1>17. CASE ProviderEnds(r)
  BY <1>17 DEF ProviderEnds
<1>18. CASE Finalized(r)
  BY <1>18 DEF Finalized, Returned
<1>19. CASE Audited(r)
  BY <1>19 DEF Audited, Returned
<1>20. CASE Raise(r)
  BY <1>20 DEF Raise, Broken, Drained, Returned
<1>21. CASE RolledBack(r)
  BY <1>21 DEF RolledBack, Returned
<1>22. CASE Report(r)
  <2>1. /\ at[r] \in {"reporting", "failing"} /\ at'[r] = "closing" /\ thread'[r] # {}
        /\ UNCHANGED <<key, owned, reservation, unsettled>>
    BY <1>22 DEF Report, CleansUp
  <2> QED
    BY <2>1
<1>23. CASE Leave(r)
  <2>1. /\ at[r] \in (Working \cup Waiting \cup Yielding) \ (BeforeStream \cup Shielded)
        /\ at'[r] = "closing" /\ thread'[r] # {}
        /\ UNCHANGED <<key, owned, reservation, unsettled>>
    BY <1>23 DEF Leave, CleansUp, Drained
  <2> QED
    BY <2>1
<1>24. CASE Closed(r)
  BY <1>24 DEF Closed, Drained
<1>25. CASE Pass(r)
  BY <1>25 DEF Pass
<1>26. CASE Fail(r)
  BY <1>26 DEF Fail
<1>27. CASE Begin(r)
  BY <1>27 DEF Begin
<1>28. CASE Save(r)
  BY <1>28 DEF Save
<1>29. CASE Finalize(r)
  BY <1>29 DEF Finalize
<1>30. CASE Interrupt(r)
  BY <1>30 DEF Interrupt
<1>31. CASE Go(r)
  BY <1>31 DEF Go
<1> QED
  BY <1>1, <1>2, <1>3, <1>4, <1>5, <1>6, <1>7, <1>8, <1>9, <1>10, <1>11, <1>12, <1>13, <1>14,
     <1>15, <1>16, <1>17, <1>18, <1>19, <1>20, <1>21, <1>22, <1>23, <1>24, <1>25, <1>26, <1>27,
     <1>28, <1>29, <1>30, <1>31 DEF Acts, Coroutine, Thread

\* Those three: who owns a key owns it alone, so that the others' accounts stay.
LEMMA ActsAccounts ==
    ASSUME IInv, Types', NEW r \in Requests, Acts(r),
           \A q \in Requests \ {r} : Unmoved(q)
    PROVE  Accounts'
<1>1. CASE Reserve(r)
  <2>1. /\ at[r] = "reserving" /\ at'[r] = "reserving" /\ thread'[r] = {} /\ ~owned[r]
        /\ UNCHANGED <<key, charged, unsettled>>
    BY <1>1 DEF Reserve, Finish, IInv, Local, Reserving, Tasked, OperationsAt, Working, Types,
                identity, history
  <2>2. CASE UNCHANGED <<owned, reservation>>
    <3>1. Quiet(r)
      BY <2>1, <2>2 DEF Quiet
    <3> QED
      BY <3>1, QuietAccounts DEF IInv
  <2>3. CASE ~UNCHANGED <<owned, reservation>>
    <3>1. /\ owned' = [owned EXCEPT ![r] = TRUE]
          /\ reservation[key[r]] = "none"
          /\ reservation' = [reservation EXCEPT ![key[r]] = "reserved"]
      BY <1>1, <2>3 DEF Reserve
    <3>2. \A q \in Requests : owned[q] => key[q] # key[r] /\ q # r
      BY <2>1, <3>1 DEF IInv, Accounts
    <3>3. key \in [Requests -> Keys] /\ owned'[r] /\ reservation'[key[r]] = "reserved"
      BY <3>1 DEF IInv, Types
    <3>4. \A q \in Requests \ {r} :
            /\ owned'[q] = owned[q]
            /\ owned[q] => reservation'[key[q]] = reservation[key[q]]
            /\ InFlight(q)' = InFlight(q) /\ Done(q)' = Done(q)
      BY <3>1, <3>2 DEF IInv, Types, Unmoved, InFlight, Done
    <3>5. InFlight(r)' /\ ~Done(r)'
      BY <2>1 DEF InFlight, Done, Over, Shielded
    <3>6. \A p, q \in Requests : owned'[p] /\ owned'[q] /\ key'[p] = key'[q] => p = q
      BY <2>1, <3>2, <3>4 DEF IInv, Accounts
    <3>7. \A q \in Requests : owned'[q] => reservation'[key'[q]] # "none"
      BY <2>1, <3>3, <3>4 DEF IInv, Accounts
    <3>8. \A q \in Requests :
            owned'[q] /\ InFlight(q)' /\ ~Done(q)' => reservation'[key'[q]] = "reserved"
      BY <2>1, <3>3, <3>4 DEF IInv, Accounts
    <3>9. \A q \in Requests :
            owned'[q] /\ Done(q)' /\ q \notin unsettled' => reservation'[key'[q]] = Verdict(q)'
      BY <2>1, <3>4, <3>5 DEF IInv, Accounts, Verdict
    <3> QED
      BY <3>6, <3>7, <3>8, <3>9 DEF Accounts
  <2> QED
    BY <2>2, <2>3
<1>2. CASE Undo(r) \/ Settle(r)
  <2>1. /\ UNCHANGED <<key, owned, charged>> /\ unsettled \subseteq unsettled'
        /\ at' = at /\ at[r] \in Shielded /\ thread[r] # {} /\ thread'[r] = {}
    BY <1>2 DEF Undo, UndoOwn, Settle, Finish, IInv, Local, Tasked, OperationsAt, Working,
                Shielded, Types, identity, turn
  <2>2. ~Done(r) /\ Done(r)' /\ InFlight(r)
    BY <2>1 DEF Done, InFlight, Shielded, Over
  <2>3. CASE owned[r]
    <3>1. reservation[key[r]] = "reserved"
      BY <2>2, <2>3 DEF IInv, Accounts
    <3>2. \/ reservation' = [reservation EXCEPT ![key[r]] = Verdict(r)]
          \/ reservation' = reservation /\ r \in unsettled'
      <4>1. CASE Undo(r)
        <5>1. at[r] = "undoing"
          BY <4>1 DEF Undo, UndoOwn, Finish, IInv, Local, Tasked, OperationsAt, Working
        <5>2. ~charged[r]
          BY <5>1 DEF IInv, Local, Staged, Over
        <5> QED
          BY <2>3, <3>1, <4>1, <5>2 DEF Undo, UndoOwn, Ended, Verdict
      <4>2. CASE Settle(r)
        BY <2>3, <3>1, <4>2 DEF Settle, Ended
      <4> QED
        BY <1>2, <4>1, <4>2
    <3>3. key[r] \in Keys /\ DOMAIN reservation = Keys
      BY DEF IInv, Types
    <3>4. /\ reservation'[key[r]] # "none"
          /\ r \notin unsettled' => reservation'[key[r]] = Verdict(r)
      BY <3>1, <3>2, <3>3 DEF Verdict
    <3>5. \A q \in Requests \ {r} :
            /\ owned[q] => reservation'[key[q]] = reservation[key[q]]
            /\ InFlight(q)' = InFlight(q) /\ Done(q)' = Done(q)
      <4> TAKE q \in Requests \ {r}
      <4>1. InFlight(q)' = InFlight(q) /\ Done(q)' = Done(q)
        BY DEF Unmoved, InFlight, Done
      <4>2. owned[q] => key[q] # key[r]
        BY <2>3 DEF IInv, Accounts
      <4>3. key[q] # key[r] => reservation'[key[q]] = reservation[key[q]]
        BY <3>2, <3>3 DEF IInv, Types
      <4> QED
        BY <4>1, <4>2, <4>3
    <3>6. \A p, q \in Requests : owned'[p] /\ owned'[q] /\ key'[p] = key'[q] => p = q
      BY <2>1 DEF IInv, Accounts
    <3>7. \A q \in Requests : owned'[q] => reservation'[key'[q]] # "none"
      BY <2>1, <3>4, <3>5 DEF IInv, Accounts
    <3>8. \A q \in Requests :
            owned'[q] /\ InFlight(q)' /\ ~Done(q)' => reservation'[key'[q]] = "reserved"
      BY <2>1, <2>2, <3>5 DEF IInv, Accounts
    <3>9. \A q \in Requests :
            owned'[q] /\ Done(q)' /\ q \notin unsettled' => reservation'[key'[q]] = Verdict(q)'
      BY <2>1, <3>4, <3>5 DEF IInv, Accounts, Verdict
    <3> QED
      BY <3>6, <3>7, <3>8, <3>9 DEF Accounts
  <2>4. CASE ~owned[r]
    <3>1. at[r] # "closing"
      BY <2>4 DEF IInv, Local, Reserving, Over
    <3>2. UNCHANGED reservation
      BY <1>2, <2>4, <3>1 DEF Undo, UndoOwn, Settle, Finish, IInv, Local, Tasked, OperationsAt,
         Working
    <3>3. Quiet(r)
      BY <2>1, <2>4, <3>2 DEF Quiet
    <3> QED
      BY <3>3, QuietAccounts DEF IInv
  <2> QED
    BY <2>3, <2>4 DEF IInv, Types
<1>3. CASE ~Reserve(r) /\ ~Undo(r) /\ ~Settle(r)
  <2>1. Quiet(r)
    BY <1>3, ActsQuiet DEF IInv
  <2> QED
    BY <2>1, QuietAccounts DEF IInv
<1> QED
  BY <1>1, <1>2, <1>3

-----------------------------------------------------------------------------
(* The whole.                                                              *)

\* A crash ends every request under way where it is, and the rows stay.
LEMMA CrashKeeps ==
    ASSUME IInv, Crash
    PROVE  IInv'
<1>1. /\ \A r \in Requests : /\ at'[r] = IF InFlight(r) THEN "crashed" ELSE at[r]
                             /\ thread'[r] = {} /\ result'[r] = "none"
      /\ UNCHANGED <<identity, turn, rows, history>>
  BY DEF Crash, IInv, Types
<1>2. Types'
  BY <1>1 DEF Crash, IInv, Types, identity, turn, rows, history, Places, Over
<1>3. ASSUME NEW r \in Requests
      PROVE  Local(r)'
  <2>1. at'[r] \in {"new"} \cup Over /\ (at'[r] = "crashed" \/ at'[r] = at[r])
    BY <1>1 DEF InFlight, Over
  <2>2. Local(r)
    BY DEF IInv
  <2> USE DEF identity, turn, rows, history, Over
  <2>3. Tasked(r)' /\ Staged(r)'
    BY <1>1, <2>1, <2>2 DEF Local, Tasked, Staged, BeforeStream
  <2>4. Counted(r)'
    BY <1>1, <2>1, <2>2 DEF Local, Counted, Unclosed
  <2>5. Stored(r)'
    BY <1>1, <2>1, <2>2 DEF Local, Stored, Concluded
  <2>6. Reserving(r)' /\ Answered(r)'
    BY <1>1, <2>1, <2>2 DEF Local, Reserving, Answered, Visible
  <2> QED
    BY <2>3, <2>4, <2>5, <2>6 DEF Local
<1>4. Accounts'
  <2>1. \A r \in Requests : ~InFlight(r)' /\ (Done(r)' => Done(r))
    BY <1>1 DEF InFlight, Done, Over, Shielded
  <2> QED
    BY <1>1, <2>1 DEF IInv, Accounts, Verdict, identity, turn, rows, history
<1> QED
  BY <1>2, <1>3, <1>4 DEF IInv

\* Every step keeps the invariant.
LEMMA StepKeeps ==
    ASSUME IInv, [Next]_vars
    PROVE  IInv'
<1>1. ASSUME NEW r \in Requests, Acts(r)
      PROVE  IInv'
  <2>1. Types' /\ \A q \in Requests \ {r} : Unmoved(q)
    BY <1>1, ActsTyped DEF IInv
  <2>2. Local(r)'
    BY <1>1, <2>1, ActsLocal DEF IInv
  <2>3. \A q \in Requests \ {r} : Local(q)'
    BY <2>1, UnmovedLocal DEF IInv
  <2>4. Accounts'
    BY <1>1, <2>1, ActsAccounts
  <2> QED
    BY <2>1, <2>2, <2>3, <2>4 DEF IInv
<1>2. CASE Crash
  BY <1>2, CrashKeeps
<1>3. CASE UNCHANGED vars
  <2>1. \A q \in Requests : Unmoved(q)
    BY <1>3 DEF vars, Unmoved, identity, coroutine, turn, rows, history
  <2>2. \A q \in Requests : Local(q)'
    BY <2>1, UnmovedLocal DEF IInv
  <2>3. Types' /\ Accounts'
    BY <1>3 DEF IInv, Types, Accounts, InFlight, Done, Verdict, vars, identity, coroutine, turn,
                rows, history
  <2> QED
    BY <2>2, <2>3 DEF IInv
<1> QED
  BY <1>1, <1>2, <1>3 DEF Next, Acts

\* The invariant of all that follows: of each request, what its coroutine and its
\* thread may be about, and of requests with one billing id, who holds the credits.
THEOREM StreamInvariance == Spec => []IInv
<1>1. Init => IInv
  <2> SUFFICES ASSUME Init PROVE IInv
    OBVIOUS
  <2>1. Types
    BY DEF Init, Types, Places, MessageStates
  <2>2. \A r \in Requests : Local(r)
    BY DEF Init, Local, Tasked, Staged, Counted, Unclosed, Stored, Concluded, Reserving, Answered, Over
  <2>3. Accounts
    BY DEF Init, Accounts, InFlight, Done, Shielded
  <2> QED
    BY <2>1, <2>2, <2>3 DEF IInv
<1>2. IInv /\ [Next]_vars => IInv'
  BY StepKeeps
<1> QED
  BY <1>1, <1>2, PTL DEF Spec

\* A request inserts one answer at most, since its cleanup waits for the thread
\* that may be inserting it (run_serial_db).
THEOREM TurnsAreSingle == Spec => []OneTurn
<1>1. IInv => OneTurn
  BY DEF IInv, Local, Counted, OneTurn
<1> QED
  BY <1>1, StreamInvariance, PTL

\* A turn that went to a model is durable when its request has ended
\* (cleanup_stream).
THEOREM EndedTurnsAreDurable == Spec => []EndedIsDurable
<1>1. IInv => EndedIsDurable
  BY DEF IInv, Local, Stored, Concluded, EndedIsDurable
<1> QED
  BY <1>1, StreamInvariance, PTL

\* Nobody else ends a reservation under a request that is under way.
THEOREM ReservationsAreKept == Spec => []OwnedIsHeld
<1>1. IInv => OwnedIsHeld
  BY DEF IInv, Accounts, Done, InFlight, Over, OwnedIsHeld
<1> QED
  BY <1>1, StreamInvariance, PTL

\* Whoever has ended has paid for a completed answer, and for nothing else.
THEOREM BillsFollowAnswers == Spec => []BillFollowsAnswer
<1>1. IInv => BillFollowsAnswer
  <2> SUFFICES ASSUME IInv, NEW r \in Requests,
                      at[r] = "ended", owned[r], r \notin unsettled
               PROVE  /\ reservation[key[r]] # "reserved"
                      /\ told[r] = "completed" /\ (mode[r] = "direct" \/ text[r] > 0)
                             => reservation[key[r]] = "settled"
                      /\ reservation[key[r]] = "settled" => message[r].state = "final"
                      /\ message[r].state = "interrupted" => reservation[key[r]] = "released"
    BY DEF BillFollowsAnswer
  <2>1. reservation[key[r]] = Verdict(r)
    BY DEF IInv, Accounts, Done
  <2>2. charged[r] => message[r].state = "final"
    <3>1. Stored(r)
      BY DEF IInv, Local
    <3> QED
      BY <3>1 DEF Stored
  <2>3. told[r] = "completed" => charged[r] = Visible(r)
    BY DEF IInv, Local, Answered
  <2> QED
    BY <2>1, <2>2, <2>3 DEF Verdict, Visible, IInv, Types
<1> QED
  BY <1>1, StreamInvariance, PTL

-----------------------------------------------------------------------------
(* What the limiter's operations do to the counts.                         *)

Entry == [key : Users, count : Nat \ {0}]

\* What _active is: at most one entry of a key, and none that counts nothing.
Store(s) ==
    /\ s \in Seq(Entry)
    /\ \A i, j \in 1..Len(s) : s[i].key = s[j].key => i = j

\* A key's count is that of the one entry it has.
LEMMA CountOfEntry ==
    ASSUME NEW s, Store(s), NEW u
    PROVE  /\ CountOf(s, u) \in Nat
           /\ CountOf(s, u) > 0 <=> Held(s, u)
           /\ \A i \in 1..Len(s) : s[i].key = u => CountOf(s, u) = s[i].count
           /\ Held(s, u) <=> \E i \in 1..Len(s) : s[i].key = u
           /\ Held(s, u) => PlaceOf(s, u) \in 1..Len(s) /\ s[PlaceOf(s, u)].key = u
<1>1. DOMAIN s = 1..Len(s) /\ Len(s) \in Nat
  BY LenProperties DEF Store
<1>2. Held(s, u) => PlaceOf(s, u) \in 1..Len(s) /\ s[PlaceOf(s, u)].key = u
  BY <1>1 DEF Held, PlaceOf
<1>3. \A i \in 1..Len(s) : s[i].count \in Nat \ {0}
  <2>1. \A i \in 1..Len(s) : s[i] \in Entry
    BY ElementOfSeq DEF Store
  <2> QED
    BY <2>1 DEF Entry
<1>4. CountOf(s, u) \in Nat /\ (CountOf(s, u) > 0 <=> Held(s, u))
  BY <1>2, <1>3 DEF CountOf
<1>5. \A i \in 1..Len(s) : s[i].key = u => CountOf(s, u) = s[i].count
  <2>1. ASSUME NEW i \in 1..Len(s), s[i].key = u
        PROVE  CountOf(s, u) = s[i].count
    <3>1. Held(s, u)
      BY <1>1, <2>1 DEF Held
    <3>2. PlaceOf(s, u) = i
      BY <1>2, <2>1, <3>1 DEF Store
    <3> QED
      BY <3>1, <3>2 DEF CountOf
  <2> QED
    BY <2>1
<1> QED
  BY <1>1, <1>2, <1>4, <1>5 DEF Held

\* A sequence of entries of a store, each at most once, is a store, and counts
\* what the store counts for the keys it has.
LEMMA SubStore ==
    ASSUME NEW s, Store(s),
           NEW t \in Seq(Entry),
           NEW f \in [1..Len(t) -> 1..Len(s)],
           \A i, j \in 1..Len(t) : f[i] = f[j] => i = j,
           \A i \in 1..Len(t) : t[i] = s[f[i]]
    PROVE  /\ Store(t)
           /\ \A u : Held(t, u) => Held(s, u) /\ CountOf(t, u) = CountOf(s, u)
           /\ \A u : Held(t, u) <=> \E i \in 1..Len(t) : s[f[i]].key = u
<1>1. Store(t)
  <2>1. ASSUME NEW i \in 1..Len(t), NEW j \in 1..Len(t), t[i].key = t[j].key
        PROVE  i = j
    <3>1. f[i] \in 1..Len(s) /\ f[j] \in 1..Len(s) /\ s[f[i]].key = s[f[j]].key
      BY <2>1
    <3>2. f[i] = f[j]
      BY <3>1 DEF Store
    <3> QED
      BY <3>2
  <2> QED
    BY <2>1 DEF Store
<1>2. ASSUME NEW u, Held(t, u)
      PROVE  Held(s, u) /\ CountOf(t, u) = CountOf(s, u)
  <2>1. PICK i \in 1..Len(t) : t[i].key = u
    BY <1>1, <1>2, CountOfEntry
  <2>2. f[i] \in 1..Len(s) /\ s[f[i]].key = u
    BY <2>1
  <2>3. CountOf(t, u) = t[i].count
    BY <1>1, <2>1, CountOfEntry
  <2>4. Held(s, u) /\ CountOf(s, u) = s[f[i]].count
    BY <2>2, CountOfEntry
  <2> QED
    BY <2>3, <2>4
<1>3. ASSUME NEW u
      PROVE  Held(t, u) <=> \E i \in 1..Len(t) : s[f[i]].key = u
  <2>1. Held(t, u) <=> \E i \in 1..Len(t) : t[i].key = u
    BY <1>1, CountOfEntry
  <2> QED
    BY <2>1
<1> QED
  BY <1>1, <1>2, <1>3

\* An entry is taken out, the others stay.
LEMMA WithoutStore ==
    ASSUME NEW s, Store(s), NEW k
    PROVE  /\ Store(Without(s, k))
           /\ ~Held(Without(s, k), k)
           /\ \A u : u # k => CountOf(Without(s, k), u) = CountOf(s, u)
<1>1. CASE ~Held(s, k)
  BY <1>1 DEF Without
<1>2. CASE Held(s, k)
  <2> DEFINE n == Len(s)
             p == PlaceOf(s, k)
             a == SubSeq(s, 1, p - 1)
             b == SubSeq(s, p + 1, n)
             t == Without(s, k)
             f == [i \in 1..Len(t) |-> IF i < p THEN i ELSE i + 1]
  <2>1. /\ s \in Seq(Entry) /\ n \in Nat /\ p \in 1..n /\ s[p].key = k
        /\ \A i \in 1..n : s[i] \in Entry
    BY <1>2, CountOfEntry, LenProperties, ElementOfSeq DEF Store
  <2>2. t = a \o b
    BY <1>2 DEF Without, RemoveAt
  <2> HIDE DEF p, n
  <2>3. /\ a \in Seq(Entry) /\ Len(a) = p - 1
        /\ \A i \in 1..p - 1 : a[i] = s[i]
    <3>1. \A i \in 1..p - 1 : s[i] \in Entry
      BY <2>1
    <3>2. /\ a \in Seq(Entry) /\ Len(a) = IF 1 <= p - 1 THEN p - 1 - 1 + 1 ELSE 0
          /\ \A i \in 1..p - 1 - 1 + 1 : a[i] = s[1 + i - 1]
      <4>1. 1 \in Int /\ p - 1 \in Int
        BY <2>1
      <4> QED
        BY <3>1, <4>1, SubSeqProperties
    <3> QED
      BY <2>1, <3>2
  <2>4. /\ b \in Seq(Entry) /\ Len(b) = n - p
        /\ \A i \in 1..n - p : b[i] = s[p + i]
    <3>1. \A i \in p + 1..n : s[i] \in Entry
      BY <2>1
    <3>2. /\ b \in Seq(Entry) /\ Len(b) = IF p + 1 <= n THEN n - (p + 1) + 1 ELSE 0
          /\ \A i \in 1..n - (p + 1) + 1 : b[i] = s[p + 1 + i - 1]
      <4>1. n \in Int /\ p + 1 \in Int
        BY <2>1
      <4> QED
        BY <3>1, <4>1, SubSeqProperties
    <3> QED
      BY <2>1, <3>2
  <2> HIDE DEF a, b, t
  <2>5. /\ t \in Seq(Entry) /\ Len(t) = n - 1
        /\ \A i \in 1..n - 1 : t[i] = s[IF i < p THEN i ELSE i + 1]
    <3>1. /\ a \o b \in Seq(Entry) /\ Len(a \o b) = Len(a) + Len(b)
          /\ \A i \in 1..Len(a) + Len(b) : (a \o b)[i] = IF i <= Len(a) THEN a[i] ELSE b[i - Len(a)]
      BY <2>3, <2>4, ConcatProperties
    <3>2. \A i \in 1..n - 1 : i < p => t[i] = s[i]
      BY <2>1, <2>2, <2>3, <2>4, <3>1
    <3>3. \A i \in 1..n - 1 : ~(i < p) => t[i] = s[i + 1]
      <4> TAKE i \in 1..n - 1
      <4>1. ~(i < p) => i - (p - 1) \in 1..n - p /\ p + (i - (p - 1)) = i + 1
        BY <2>1
      <4>2. ~(i < p) => t[i] = b[i - (p - 1)]
        BY <2>1, <2>2, <2>3, <2>4, <3>1
      <4> QED
        BY <2>4, <4>1, <4>2
    <3>4. t \in Seq(Entry) /\ Len(t) = n - 1
      BY <2>1, <2>2, <2>3, <2>4, <3>1
    <3>5. ASSUME NEW i \in 1..n - 1
          PROVE  t[i] = s[IF i < p THEN i ELSE i + 1]
      BY <3>2, <3>3
    <3> QED
      BY <3>4, <3>5
  <2>6. /\ f \in [1..Len(t) -> 1..Len(s)]
        /\ \A i, j \in 1..Len(t) : f[i] = f[j] => i = j
        /\ \A i \in 1..Len(t) : t[i] = s[f[i]] /\ f[i] # p
    BY <2>1, <2>5 DEF n
  <2>7. ASSUME NEW m \in 1..n, m # p
        PROVE  \E i \in 1..Len(t) : f[i] = m
    <3>1. CASE m < p
      <4>1. m \in 1..Len(t) /\ f[m] = m
        BY <2>1, <2>5, <3>1
      <4> QED
        BY <4>1
    <3>2. CASE m > p
      <4>1. m - 1 \in 1..Len(t) /\ f[m - 1] = m
        BY <2>1, <2>5, <3>2
      <4> QED
        BY <4>1
    <3> QED
      BY <2>1, <2>7, <3>1, <3>2
  <2> HIDE DEF f
  <2>8. /\ Store(t)
        /\ \A u : Held(t, u) => Held(s, u) /\ CountOf(t, u) = CountOf(s, u)
        /\ \A u : Held(t, u) <=> \E i \in 1..Len(t) : s[f[i]].key = u
    BY <2>5, <2>6, SubStore
  <2>9. ~Held(t, k)
    BY <2>1, <2>6, <2>8 DEF Store, n
  <2>10. ASSUME NEW u, u # k
         PROVE  CountOf(t, u) = CountOf(s, u)
    <3>1. CASE Held(t, u)
      BY <2>8, <3>1
    <3>2. CASE ~Held(t, u)
      <4>1. ~Held(s, u)
        <5>1. ASSUME NEW m \in 1..n, s[m].key = u
              PROVE  FALSE
          <6>1. PICK i \in 1..Len(t) : f[i] = m
            BY <2>1, <2>7, <2>10, <5>1
          <6> QED
            BY <2>8, <3>2, <5>1, <6>1
        <5> QED
          BY <5>1, CountOfEntry DEF n
      <4> QED
        BY <3>2, <4>1 DEF CountOf
    <3> QED
      BY <3>1, <3>2
  <2> QED
    BY <2>8, <2>9, <2>10 DEF t
<1> QED
  BY <1>1, <1>2

\* A count is written.
LEMMA TouchedStore ==
    ASSUME NEW s, Store(s), NEW k \in Users, NEW n \in Nat \ {0}
    PROVE  /\ Store(Touched(s, k, n))
           /\ CountOf(Touched(s, k, n), k) = n
           /\ \A u : u # k => CountOf(Touched(s, k, n), u) = CountOf(s, u)
<1> DEFINE w == Without(s, k)
           e == [key |-> k, count |-> n]
           t == Touched(s, k, n)
<1>1. Store(w) /\ ~Held(w, k) /\ \A u : u # k => CountOf(w, u) = CountOf(s, u)
  BY WithoutStore
<1>2. t = Append(w, e) /\ e \in Entry
  BY DEF Touched, Entry
<1> HIDE DEF w, e, t
<1>3. w \in Seq(Entry) /\ Len(w) \in Nat
  BY <1>1, LenProperties DEF Store
<1>4. /\ t \in Seq(Entry) /\ Len(t) = Len(w) + 1
      /\ \A i \in 1..Len(w) : t[i] = w[i]
      /\ t[Len(w) + 1] = e
  BY <1>2, <1>3, AppendProperties
<1>5. e.key = k /\ e.count = n
  BY DEF e
<1>6. \A i \in 1..Len(w) : w[i].key # k
  BY <1>1, CountOfEntry
<1>7. Store(t)
  <2>1. ASSUME NEW i \in 1..Len(t), NEW j \in 1..Len(t), t[i].key = t[j].key
        PROVE  i = j
    <3>1. i \in 1..Len(w) \/ i = Len(w) + 1
      BY <1>3, <1>4
    <3>2. j \in 1..Len(w) \/ j = Len(w) + 1
      BY <1>3, <1>4
    <3> QED
      BY <1>1, <1>4, <1>5, <1>6, <2>1, <3>1, <3>2 DEF Store
  <2> QED
    BY <1>4, <2>1 DEF Store
<1>8. CountOf(t, k) = n
  <2>1. Len(w) + 1 \in 1..Len(t)
    BY <1>3, <1>4
  <2> QED
    BY <1>4, <1>5, <1>7, <2>1, CountOfEntry
<1>9. ASSUME NEW u, u # k
      PROVE  CountOf(t, u) = CountOf(w, u)
  <2>1. CASE Held(w, u)
    <3>1. PICK i \in 1..Len(w) : w[i].key = u
      BY <1>1, <2>1, CountOfEntry
    <3>2. i \in 1..Len(t) /\ t[i] = w[i]
      BY <1>3, <1>4
    <3> QED
      BY <1>1, <1>7, <3>1, <3>2, CountOfEntry
  <2>2. CASE ~Held(w, u)
    <3>1. \A i \in 1..Len(t) : i \in 1..Len(w) \/ i = Len(w) + 1
      BY <1>3, <1>4
    <3>2. \A i \in 1..Len(w) : w[i].key # u
      BY <1>1, <2>2, CountOfEntry
    <3>3. \A i \in 1..Len(t) : t[i].key # u
      BY <1>4, <1>5, <1>9, <3>1, <3>2
    <3>4. ~Held(t, u)
      BY <1>7, <3>3, CountOfEntry
    <3> QED
      BY <2>2, <3>4 DEF CountOf
  <2> QED
    BY <2>1, <2>2
<1> QED
  BY <1>1, <1>7, <1>8, <1>9 DEF t

\* Some keys lose their count, the others keep it.
LEMMA EvictedStore ==
    ASSUME NEW s, Store(s)
    PROVE  /\ Store(Evicted(s))
           /\ \A u : Held(Evicted(s), u) => Held(s, u) /\ CountOf(Evicted(s), u) = CountOf(s, u)
<1> DEFINE n == Len(s)
           m == n - MaxKeys + 2
           t == SubSeq(s, m, n)
           f == [i \in 1..Len(t) |-> i + (m - 1)]
<1>1. s \in Seq(Entry) /\ n \in Nat /\ \A i \in 1..n : s[i] \in Entry
  BY LenProperties, ElementOfSeq DEF Store
<1>2. CASE n < MaxKeys
  BY <1>2 DEF Evicted
<1>3. CASE ~(n < MaxKeys)
  <2> HIDE DEF n
  <2>1. m \in Int /\ m >= 2 /\ n - m + 1 \in Nat
    BY <1>1, <1>3, LimiterAssumption
  <2>2. \A i \in m..n : s[i] \in Entry
    BY <1>1, <2>1
  <2> HIDE DEF m
  <2>3. /\ t \in Seq(Entry) /\ Len(t) = n - m + 1
        /\ \A i \in 1..n - m + 1 : t[i] = s[m + i - 1]
    <3>1. /\ t \in Seq(Entry) /\ Len(t) = IF m <= n THEN n - m + 1 ELSE 0
          /\ \A i \in 1..n - m + 1 : t[i] = s[m + i - 1]
      BY <1>1, <2>1, <2>2, SubSeqProperties
    <3> QED
      BY <1>1, <2>1, <3>1
  <2> HIDE DEF t
  <2>4. /\ f \in [1..Len(t) -> 1..Len(s)]
        /\ \A i, j \in 1..Len(t) : f[i] = f[j] => i = j
    BY <1>1, <2>1, <2>3 DEF n
  <2>5. \A i \in 1..Len(t) : t[i] = s[f[i]]
    <3> TAKE i \in 1..Len(t)
    <3>1. m + i - 1 = i + (m - 1)
      BY <1>1, <2>1, <2>3
    <3> QED
      BY <2>3, <3>1
  <2> HIDE DEF f
  <2>6. /\ Store(t)
        /\ \A u : Held(t, u) => Held(s, u) /\ CountOf(t, u) = CountOf(s, u)
    BY <2>3, <2>4, <2>5, SubStore
  <2>7. Evicted(s) = t
    BY <1>3 DEF Evicted, t, m, n
  <2> QED
    BY <2>6, <2>7
<1> QED
  BY <1>2, <1>3

\* acquire adds one to its key; of the others it may only forget what it evicts.
LEMMA AcquiredStore ==
    ASSUME NEW s, Store(s), NEW k \in Users
    PROVE  /\ Store(Acquired(s, k))
           /\ CountOf(Acquired(s, k), k) = CountOf(s, k) + 1
           /\ \A u : u # k => \/ CountOf(Acquired(s, k), u) = CountOf(s, u)
                              \/ CountOf(Acquired(s, k), u) = 0 /\ Held(s, u) /\ ~Held(Evicted(s), u)
<1> DEFINE e == Evicted(s)
           n == CountOf(s, k) + 1
<1>1. Store(e) /\ \A u : Held(e, u) => CountOf(e, u) = CountOf(s, u)
  BY EvictedStore
<1>2. n \in Nat \ {0}
  BY CountOfEntry
<1>3. Acquired(s, k) = Touched(e, k, n)
  BY DEF Acquired
<1> HIDE DEF e, n
<1>4. /\ Store(Touched(e, k, n)) /\ CountOf(Touched(e, k, n), k) = n
      /\ \A u : u # k => CountOf(Touched(e, k, n), u) = CountOf(e, u)
  BY <1>1, <1>2, TouchedStore
<1>5. \A u : ~Held(e, u) => CountOf(e, u) = 0
  BY DEF CountOf
<1>6. \A u : ~Held(s, u) => CountOf(s, u) = 0
  BY DEF CountOf
<1> QED
  BY <1>1, <1>3, <1>4, <1>5, <1>6 DEF e, n

\* release takes one off its key, if there is one.
LEMMA ReleasedStore ==
    ASSUME NEW s, Store(s), NEW k \in Users
    PROVE  /\ Store(Released(s, k))
           /\ CountOf(Released(s, k), k) = IF CountOf(s, k) = 0 THEN 0 ELSE CountOf(s, k) - 1
           /\ \A u : u # k => CountOf(Released(s, k), u) = CountOf(s, u)
<1>1. CountOf(s, k) \in Nat
  BY CountOfEntry
<1>2. CASE CountOf(s, k) <= 1
  <2>1. Released(s, k) = Without(s, k)
    BY <1>2 DEF Released
  <2>2. CountOf(Without(s, k), k) = 0
    BY WithoutStore DEF CountOf
  <2> QED
    BY <1>1, <1>2, <2>1, <2>2, WithoutStore
<1>3. CASE ~(CountOf(s, k) <= 1)
  <2>1. Released(s, k) = Touched(s, k, CountOf(s, k) - 1)
    BY <1>3 DEF Released
  <2>2. CountOf(s, k) - 1 \in Nat \ {0}
    BY <1>1, <1>3
  <2> QED
    BY <1>1, <1>3, <2>1, <2>2, TouchedStore
<1> QED
  BY <1>2, <1>3

-----------------------------------------------------------------------------
(* The slots and the requests in flight.                                   *)

\* The types that the invariant above does without.
Rest ==
    /\ user \in [Requests -> Users]
    /\ limit \in Limits
    /\ text \in [Requests -> 0..MaxText]
    /\ crashes \in 0..MaxCrashes
    /\ dropped \subseteq Users
    /\ unsettled \subseteq Requests

\* As long as none of a user's counts was evicted, it is exact.
Taken(u) ==
    /\ IsFiniteSet(Streams(u))
    /\ CountOf(slots, u) <= Cardinality(Streams(u))
    /\ u \notin dropped =>
           /\ CountOf(slots, u) = Cardinality(Streams(u))
           /\ Cardinality(Streams(u)) <= limit

SlotsInv == Rest /\ Store(slots) /\ \A u \in Users : Taken(u)

\* What a step of a request does to the limiter.
Admits(r) ==
    /\ ~InFlight(r) /\ InFlight(r)'
    /\ CountOf(slots, user[r]) < limit
    /\ slots' = Acquired(slots, user[r])
    /\ dropped' = dropped \cup Forgotten(user[r])

Parts(r) ==
    /\ InFlight(r) /\ ~InFlight(r)'
    /\ slots' = Released(slots, user[r])
    /\ dropped' = dropped

Stays(r) ==
    /\ InFlight(r)' = InFlight(r)
    /\ slots' = slots
    /\ dropped' = dropped

\* A request takes its slot when it gets under way, and gives it back when it ends.
LEMMA ActsSlots ==
    ASSUME Types, Types', NEW r \in Requests, Acts(r)
    PROVE  Admits(r) \/ Parts(r) \/ Stays(r)
<1> USE DEF Types, Admits, Parts, Stays, InFlight, Suspend, Run, Finish, Over, history
<1>1. CASE Admit(r)
  BY <1>1 DEF Admit
<1>2. CASE Refuse(r)
  BY <1>2 DEF Refuse
<1>3. CASE Unaffordable(r) \/ GivenUp(r) \/ Closed(r)
  BY <1>3 DEF Unaffordable, Returned, GivenUp, Closed, Frees
<1>4. CASE Created(r) \/ Reserved(r) \/ GiveUp(r) \/ Start(r)
  BY <1>4 DEF Created, Reserved, GiveUp, Start, Returned, BeforeStream
<1>5. CASE Opened(r) \/ Prepared(r) \/ DirectSent(r) \/ FirstSent(r) \/ TokenSent(r)
  BY <1>5 DEF Opened, Prepared, DirectSent, FirstSent, TokenSent
<1>6. CASE Chunk(r)
  BY <1>6 DEF Chunk
<1>7. CASE Begun(r) \/ Saved(r) \/ ProviderEnds(r) \/ Finalized(r) \/ Audited(r) \/ RolledBack(r)
  BY <1>7 DEF Begun, Saved, ProviderEnds, Finalized, Audited, RolledBack, Returned
<1>8. CASE Raise(r)
  BY <1>8 DEF Raise, Broken, Returned, Waiting
<1>9. CASE Report(r)
  BY <1>9 DEF Report, CleansUp
<1>10. CASE Leave(r)
  BY <1>10 DEF Leave, CleansUp, Working, Waiting, Yielding
<1>11. CASE Thread(r)
  <2>1. UNCHANGED <<at, slots, dropped>>
    BY <1>11 DEF Thread, Pass, Fail, Reserve, Undo, UndoOwn, Begin, Save, Finalize, Interrupt, Settle
  <2> QED
    BY <2>1
<1>12. CASE Go(r)
  BY <1>12 DEF Go
<1> QED
  BY <1>1, <1>2, <1>3, <1>4, <1>5, <1>6, <1>7, <1>8, <1>9, <1>10, <1>11, <1>12
  DEF Acts, Coroutine

\* Of the types that are left, each is written in one or two places.
LEMMA ActsRest ==
    ASSUME Types, Rest, NEW r \in Requests, Acts(r)
    PROVE  Rest' /\ user' = user /\ limit' = limit
<1> USE DEF identity, turn, history
<1>1. user' = user /\ limit' = limit /\ crashes' = crashes
  BY DEF Acts, Admit, Refuse, Coroutine, Created, Reserved, Unaffordable, GiveUp, GivenUp, Start, Opened,
     Prepared, DirectSent, FirstSent, TokenSent, Begun, Saved, ProviderEnds, Finalized, Audited, Raise,
     RolledBack, Report, Leave, Closed, Chunk, Thread, Pass, Fail, Reserve, Undo, Begin, Save, Finalize,
     Interrupt, Settle, Go
<1>2. text' \in [Requests -> 0..MaxText]
  <2>1. CASE Chunk(r)
    <3>1. PICK seen \in 0..1 : /\ text[r] + seen <= MaxText
                              /\ text' = [text EXCEPT ![r] = @ + seen]
      BY <2>1 DEF Chunk
    <3>2. text[r] + seen \in 0..MaxText
      BY <3>1, ChatAssumption DEF Rest
    <3> QED
      BY <3>1, <3>2 DEF Rest
  <2>2. CASE ~Chunk(r)
    <3>1. text' = text
      BY <2>2 DEF Acts, Admit, Refuse, Coroutine, Created, Reserved, Unaffordable, GiveUp, GivenUp, Start,
         Opened, Prepared, DirectSent, FirstSent, TokenSent, Begun, Saved, ProviderEnds, Finalized, Audited,
         Raise, RolledBack, Report, Leave, Closed, Thread, Pass, Fail, Reserve, Undo, Begin, Save, Finalize,
         Interrupt, Settle, Go
    <3> QED
      BY <3>1 DEF Rest
  <2> QED
    BY <2>1, <2>2
<1>3. dropped' \subseteq Users
  <2>1. dropped' = dropped \/ dropped' = dropped \cup Forgotten(user[r])
    BY DEF Acts, Admit, Refuse, Coroutine, Created, Reserved, Unaffordable, GiveUp, GivenUp, Start, Opened,
       Prepared, DirectSent, FirstSent, TokenSent, Begun, Saved, ProviderEnds, Finalized, Audited, Raise,
       RolledBack, Report, Leave, Closed, Chunk, Thread, Pass, Fail, Reserve, Undo, Begin, Save, Finalize,
       Interrupt, Settle, Go
  <2> QED
    BY <2>1 DEF Rest, Forgotten
<1>4. unsettled' \subseteq Requests
  <2>1. unsettled' = unsettled \/ unsettled' = unsettled \cup {r}
    BY DEF Acts, Admit, Refuse, Coroutine, Created, Reserved, Unaffordable, GiveUp, GivenUp, Start, Opened,
       Prepared, DirectSent, FirstSent, TokenSent, Begun, Saved, ProviderEnds, Finalized, Audited, Raise,
       RolledBack, Report, Leave, Closed, Chunk, Thread, Pass, Fail, Reserve, Undo, UndoOwn, Begin, Save,
       Finalize, Interrupt, Settle, Go
  <2> QED
    BY <2>1 DEF Rest
<1> QED
  BY <1>1, <1>2, <1>3, <1>4 DEF Rest

\* The counts follow the requests.
LEMMA ActsTaken ==
    ASSUME Types, Types', SlotsInv, NEW r \in Requests, Acts(r),
           \A q \in Requests \ {r} : Unmoved(q)
    PROVE  SlotsInv'
<1>1. Rest' /\ user' = user /\ limit' = limit /\ user[r] \in Users /\ limit \in Nat
  BY ActsRest, ChatAssumption DEF SlotsInv, Rest
<1>2. \A q \in Requests \ {r} : InFlight(q)' = InFlight(q)
  BY DEF Unmoved, InFlight
<1>3. ASSUME NEW u \in Users, u # user[r]
      PROVE  Streams(u)' = Streams(u)
  BY <1>1, <1>2, <1>3 DEF Streams
<1> DEFINE v == user[r]
<1>4. /\ Store(slots) /\ \A u \in Users : Taken(u)
      /\ \A u \in Users : IsFiniteSet(Streams(u)) /\ Cardinality(Streams(u)) \in Nat
      /\ \A u \in Users : CountOf(slots, u) \in Nat
  BY FS_CardinalityType, CountOfEntry DEF SlotsInv, Taken
<1>5. CASE Admits(r)
  <2>1. Streams(v)' = Streams(v) \cup {r} /\ r \notin Streams(v)
    BY <1>1, <1>2, <1>5 DEF Admits, Streams
  <2>2. IsFiniteSet(Streams(v)') /\ Cardinality(Streams(v)') = Cardinality(Streams(v)) + 1
    <3>1. IsFiniteSet(Streams(v))
      BY <1>1, <1>4
    <3>2. /\ IsFiniteSet(Streams(v) \cup {r})
          /\ Cardinality(Streams(v) \cup {r}) = Cardinality(Streams(v)) + 1
      BY <2>1, <3>1, FS_AddElement
    <3> QED
      BY <2>1, <3>2
  <2>3. /\ Store(slots')
        /\ CountOf(slots', v) = CountOf(slots, v) + 1
        /\ \A u : u # v => \/ CountOf(slots', u) = CountOf(slots, u)
                           \/ CountOf(slots', u) = 0 /\ Held(slots, u) /\ ~Held(Evicted(slots), u)
    BY <1>1, <1>4, <1>5, AcquiredStore DEF Admits
  <2>4. CountOf(slots, v) < limit /\ dropped' = dropped \cup Forgotten(v)
    BY <1>5 DEF Admits
  <2>5. Taken(v)'
    <3>1. v \notin dropped' => v \notin dropped
      BY <2>4
    <3> QED
      BY <1>1, <1>4, <2>2, <2>3, <2>4, <3>1 DEF Taken
  <2>6. ASSUME NEW u \in Users, u # v
        PROVE  Taken(u)'
    <3>1. Streams(u)' = Streams(u)
      BY <1>3, <2>6
    <3>2. u \notin dropped' => u \notin dropped /\ CountOf(slots', u) = CountOf(slots, u)
      BY <2>3, <2>4, <2>6 DEF Forgotten
    <3>3. CountOf(slots', u) <= CountOf(slots, u)
      BY <1>4, <2>3, <2>6
    <3>4. CountOf(slots', u) \in Nat
      BY <1>4, <2>3, <2>6
    <3> QED
      BY <1>1, <1>4, <3>1, <3>2, <3>3, <3>4 DEF Taken
  <2> QED
    BY <1>1, <2>3, <2>5, <2>6 DEF SlotsInv, Store
<1>6. CASE Parts(r)
  <2>1. r \in Streams(v) /\ Streams(v)' = Streams(v) \ {r}
    BY <1>1, <1>2, <1>6 DEF Parts, Streams
  <2>2. IsFiniteSet(Streams(v)') /\ Cardinality(Streams(v)') = Cardinality(Streams(v)) - 1
    BY <1>1, <1>4, <2>1, FS_RemoveElement
  <2>3. /\ Store(slots')
        /\ CountOf(slots', v) = IF CountOf(slots, v) = 0 THEN 0 ELSE CountOf(slots, v) - 1
        /\ \A u : u # v => CountOf(slots', u) = CountOf(slots, u)
    BY <1>1, <1>4, <1>6, ReleasedStore DEF Parts
  <2>4. dropped' = dropped
    BY <1>6 DEF Parts
  <2>5. Cardinality(Streams(v)) # 0
    BY <1>1, <1>4, <2>1, FS_EmptySet
  <2>6. Taken(v)'
    BY <1>1, <1>4, <2>2, <2>3, <2>4, <2>5 DEF Taken
  <2>7. ASSUME NEW u \in Users, u # v
        PROVE  Taken(u)'
    <3>1. Streams(u)' = Streams(u) /\ CountOf(slots', u) = CountOf(slots, u)
      BY <1>3, <2>3, <2>7
    <3> QED
      BY <1>1, <1>4, <2>4, <3>1 DEF Taken
  <2> QED
    BY <1>1, <2>3, <2>6, <2>7 DEF SlotsInv, Store
<1>7. CASE Stays(r)
  <2>1. \A u \in Users : Streams(u)' = Streams(u)
    BY <1>1, <1>2, <1>7 DEF Stays, Streams
  <2> QED
    BY <1>1, <1>4, <1>7, <2>1 DEF Stays, Taken, SlotsInv, Store
<1> QED
  BY <1>5, <1>6, <1>7, ActsSlots

\* A crash ends all requests, and the new process starts to count afresh.
LEMMA CrashTaken ==
    ASSUME Types, SlotsInv, Crash
    PROVE  SlotsInv'
<1>1. Rest' /\ limit' \in Nat
  <2>1. crashes' \in 0..MaxCrashes
    BY ChatAssumption DEF Crash, SlotsInv, Rest
  <2> QED
    BY <2>1, ChatAssumption DEF Crash, SlotsInv, Rest, identity, turn, history
<1>2. slots' = <<>> /\ Store(<<>>)
  BY EmptySeq DEF Crash, Store
<1>3. \A u : CountOf(slots', u) = 0
  BY <1>2, EmptySeq DEF CountOf, Held
<1>4. \A u \in Users : Streams(u)' = {}
  BY DEF Crash, Streams, InFlight, Over, Types
<1>5. \A u \in Users : Taken(u)'
  BY <1>1, <1>3, <1>4, FS_EmptySet DEF Taken
<1> QED
  BY <1>1, <1>2, <1>5 DEF SlotsInv

\* Every step keeps the slots.
LEMMA StepTaken ==
    ASSUME IInv, SlotsInv, [Next]_vars
    PROVE  SlotsInv'
<1>1. ASSUME NEW r \in Requests, Acts(r)
      PROVE  SlotsInv'
  <2>1. Types' /\ \A q \in Requests \ {r} : Unmoved(q)
    BY <1>1, ActsTyped DEF IInv
  <2> QED
    BY <1>1, <2>1, ActsTaken DEF IInv
<1>2. CASE Crash
  BY <1>2, CrashTaken DEF IInv
<1>3. CASE UNCHANGED vars
  <2>1. \A u \in Users : Taken(u)'
    BY <1>3 DEF vars, identity, coroutine, history, SlotsInv, Taken, Streams, InFlight
  <2> QED
    BY <1>3, <2>1 DEF vars, identity, turn, history, SlotsInv, Rest, Store
<1> QED
  BY <1>1, <1>2, <1>3 DEF Next, Acts

\* The limiter's counts and the requests in flight, on every way in and out.
THEOREM SlotsInvariance == Spec => []SlotsInv
<1>1. Init => SlotsInv
  <2> SUFFICES ASSUME Init PROVE SlotsInv
    OBVIOUS
  <2>1. Rest
    BY ChatAssumption DEF Init, Rest
  <2>2. slots = <<>> /\ Store(<<>>)
    BY EmptySeq DEF Init, Store
  <2>3. \A u : CountOf(slots, u) = 0
    BY <2>2, EmptySeq DEF CountOf, Held
  <2>4. \A u \in Users : Streams(u) = {}
    BY DEF Init, Streams, InFlight
  <2>5. \A u \in Users : Taken(u)
    BY <2>1, <2>3, <2>4, FS_EmptySet, ChatAssumption DEF Taken, Rest
  <2> QED
    BY <2>1, <2>2, <2>5 DEF SlotsInv
<1>2. IInv /\ SlotsInv /\ [Next]_vars => SlotsInv'
  BY StepTaken
<1> QED
  BY <1>1, <1>2, StreamInvariance, PTL DEF Spec

\* The state of every request, of the rows and of the limiter stays what the code
\* can hold: no count of zero or less is kept.
THEOREM StreamTypes == Spec => []TypeOK
<1>1. IInv /\ SlotsInv => TypeOK
  BY DEF IInv, Types, SlotsInv, Rest, Store, Entry, TypeOK
<1> QED
  BY <1>1, StreamInvariance, SlotsInvariance, PTL

\* A slot is given back once on whatever way a request ends, and the limit holds for
\* every user whose count was not evicted.
THEOREM SlotsAreGivenBack == Spec => []SlotsMatchStreams
<1>1. SlotsInv => SlotsMatchStreams
  BY DEF SlotsInv, Taken, SlotsMatchStreams
<1> QED
  BY <1>1, SlotsInvariance, PTL
=============================================================================
