------------------------------ MODULE ChatStream ------------------------------
(***************************************************************************)
(* POST /chat/stream of app/api/ceaser/routes.py with what it calls in the *)
(* orchestrator, from the concurrency slot and the reservation of credits  *)
(* to the last event and the cleanup.                                      *)
(*                                                                         *)
(* A request is a coroutine of the server's loop.  It is suspended where   *)
(* it awaits database work, which runs in a thread on the session of the   *)
(* request, where it awaits the provider, and where it yields an event to  *)
(* the client.  What lies between two suspensions is one step.  The server *)
(* is one process, and may die.                                            *)
(***************************************************************************)
EXTENDS ConcurrencyLimiter, FiniteSets

CONSTANTS
    Users,
    Keys,           \* billing ids: payload.request_id, which a retry repeats
    Requests,
    Limits,         \* of acquire("chat-generation"): 3; an instance may have several
    MaxText,        \* a bound: how much text a provider sends
    MaxCrashes      \* a bound: how often the process dies

ASSUME ChatAssumption ==
    /\ Limits \subseteq Nat \ {0}
    /\ MaxText \in Nat
    /\ MaxCrashes \in Nat

VARIABLES
    user, key,      \* of each request
    limit,          \* which of Limits it is
    slots,          \* rate_limiter._active
    at,             \* where the coroutine of a request is suspended
    thread,         \* the operations that run in threads on its session
    result,         \* how the operation that it awaits has ended
    gone,           \* the request was cancelled, or its client has left
    mode,           \* prepared["mode"], and whether the user turn is deferred
    text,           \* what was received from the provider and can be seen
    known,          \* prepared["assistant_message_id"] is set
    charged,        \* completed_meaningfully
    owned,          \* reservation_owned
    reservation,    \* credit_reservations.status of each key
    message,        \* the assistant message of the turn: its state and its length
    turns,          \* how many assistant messages the request has inserted
    crashes,
    dropped,        \* history: users whose count was evicted while they streamed
    unsettled,      \* history: requests whose closing database work has failed
    told            \* history: the last event that says how the request ended

identity  == <<user, key, limit>>
coroutine == <<at, thread, result, gone>>
turn      == <<mode, text, known, charged, owned>>
rows      == <<reservation, message, turns>>
history   == <<dropped, unsettled, told>>
vars == <<identity, slots, coroutine, turn, rows, crashes, history>>

\* Places where an operation in a thread is awaited,
Working == {"creating", "reserving", "reading", "undoing", "beginning", "keeping",
            "saving", "finalizing", "auditing", "rolling_back", "closing"}
\* where the provider or the workflow is awaited, and where an event is yielded.
Waiting  == {"preparing", "pulling"}
Yielding == {"opened", "first", "token", "direct", "reporting", "failing"}
Over     == {"ended", "crashed"}
Places == {"new"} \cup Working \cup Waiting \cup Yielding \cup Over

BeforeStream == {"creating", "reserving", "reading"}
Shielded     == {"undoing", "closing"}

\* closing is two operations of one thread: the message, then the credits.
Operations == (Working \ {"keeping", "closing"}) \cup {"interrupting", "settling"}

MessageStates == {"none", "streaming", "interrupted", "final"}

InFlight(r) == at[r] \notin {"new"} \cup Over
Streams(u) == {r \in Requests : user[r] = u /\ InFlight(r)}

Init ==
    /\ user \in [Requests -> Users]
    /\ key \in [Requests -> Keys]
    /\ \A r, s \in Requests : key[r] = key[s] => user[r] = user[s]
    /\ limit \in Limits
    /\ slots = <<>>
    /\ at = [r \in Requests |-> "new"]
    /\ thread = [r \in Requests |-> {}]
    /\ result = [r \in Requests |-> "none"]
    /\ gone = [r \in Requests |-> FALSE]
    /\ mode = [r \in Requests |-> "none"]
    /\ text = [r \in Requests |-> 0]
    /\ known = [r \in Requests |-> FALSE]
    /\ charged = [r \in Requests |-> FALSE]
    /\ owned = [r \in Requests |-> FALSE]
    /\ reservation = [k \in Keys |-> "none"]
    /\ message = [r \in Requests |-> [state |-> "none", len |-> 0]]
    /\ turns = [r \in Requests |-> 0]
    /\ crashes = 0
    /\ dropped = {}
    /\ unsettled = {}
    /\ told = [r \in Requests |-> "none"]

-----------------------------------------------------------------------------
(* Moves of a coroutine.                                                   *)

\* A step to a place where nothing runs for it.
Suspend(r, place) ==
    /\ at' = [at EXCEPT ![r] = place]
    /\ result' = [result EXCEPT ![r] = "none"]
    /\ UNCHANGED <<thread, gone>>

\* run_serial_db hands an operation to a thread.
Run(r, place, operation) ==
    /\ at' = [at EXCEPT ![r] = place]
    /\ thread' = [thread EXCEPT ![r] = @ \cup {operation}]
    /\ result' = [result EXCEPT ![r] = "none"]
    /\ UNCHANGED gone

\* Defect: a cancelled request does not wait for its thread.
Undrained(r) == TRUE

\* run_serial_db is left by no way, also not by a cancellation, before the
\* thread has done its work.
Drained(r) == thread[r] = {}

Returned(r, place, how) ==
    at[r] = place /\ Drained(r) /\ result[r] = how /\ ~gone[r]

\* Defect: the slot stays taken.
Keeps(r) == UNCHANGED slots

Frees(r) == slots' = Released(slots, user[r])

-----------------------------------------------------------------------------
(* Before the response: the slot, and the reservation of credits.          *)

\* Whose count acquire forgets on the way.
Forgotten(u) == {v \in Users \ {u} : Held(slots, v) /\ ~Held(Evicted(slots), v)}

Admit(r) ==
    /\ at[r] = "new"
    /\ CountOf(slots, user[r]) < limit
    /\ slots' = Acquired(slots, user[r])
    /\ dropped' = dropped \cup Forgotten(user[r])
    /\ \/ Run(r, "creating", "creating")        \* no conversation_id
       \/ Run(r, "reserving", "reserving")
    /\ UNCHANGED <<identity, turn, rows, crashes, unsettled, told>>

Refuse(r) ==
    /\ at[r] = "new"
    /\ CountOf(slots, user[r]) >= limit
    /\ Suspend(r, "ended")
    /\ UNCHANGED <<identity, slots, turn, rows, crashes, history>>

Created(r) ==
    /\ Returned(r, "creating", "ok")
    /\ Run(r, "reserving", "reserving")
    /\ UNCHANGED <<identity, slots, turn, rows, crashes, history>>

Reserved(r) ==
    /\ Returned(r, "reserving", "ok")
    /\ Run(r, "reading", "reading")
    /\ UNCHANGED <<identity, slots, turn, rows, crashes, history>>

Unaffordable(r) ==
    /\ Returned(r, "reserving", "insufficient")
    /\ Frees(r)
    /\ Suspend(r, "ended")
    /\ UNCHANGED <<identity, turn, rows, crashes, history>>

\* The three except clauses that call cleanup_before_stream.
GiveUp(r) ==
    /\ at[r] \in BeforeStream
    /\ Drained(r)
    /\ gone[r] \/ result[r] \in {"failed", "conflict"}
    /\ Run(r, "undoing", "undoing")
    /\ UNCHANGED <<identity, slots, turn, rows, crashes, history>>

GivenUp(r) ==
    /\ at[r] = "undoing"
    /\ Drained(r)
    /\ Frees(r)
    /\ Suspend(r, "ended")
    /\ UNCHANGED <<identity, turn, rows, crashes, history>>

\* The generator runs up to its first event.
Start(r) ==
    /\ Returned(r, "reading", "ok")
    /\ Suspend(r, "opened")
    /\ UNCHANGED <<identity, slots, turn, rows, crashes, history>>

-----------------------------------------------------------------------------
(* stream()                                                                *)

Opened(r) ==
    /\ at[r] = "opened"
    /\ ~gone[r]
    /\ Suspend(r, "preparing")
    /\ UNCHANGED <<identity, slots, turn, rows, crashes, history>>

\* prepare_stream_request: an answer at hand, or a prompt for a model.
Prepared(r) ==
    /\ at[r] = "preparing"
    /\ ~gone[r]
    /\ \/ mode' = [mode EXCEPT ![r] = "direct"] /\ Suspend(r, "direct")
       \/ mode' = [mode EXCEPT ![r] = "generate"] /\ Suspend(r, "pulling")
    /\ UNCHANGED <<identity, slots, text, known, charged, owned, rows, crashes, history>>

DirectSent(r) ==
    /\ at[r] = "direct"
    /\ ~gone[r]
    /\ Run(r, "finalizing", "finalizing")
    /\ UNCHANGED <<identity, slots, turn, rows, crashes, history>>

\* A chunk may be blank.  The first is forwarded at once, and the answer begun
\* when it has been sent; a later one is forwarded after a checkpoint, when 360
\* characters are not yet saved.
Chunk(r) ==
    /\ at[r] = "pulling"
    /\ ~gone[r]
    /\ \E seen \in 0..1 :
          /\ text[r] + seen <= MaxText
          /\ text' = [text EXCEPT ![r] = @ + seen]
    /\ IF ~known[r] THEN Suspend(r, "first")
       ELSE Suspend(r, "token") \/ Run(r, "saving", "saving")
    /\ UNCHANGED <<identity, slots, mode, known, charged, owned, rows, crashes, history>>

FirstSent(r) ==
    /\ at[r] = "first"
    /\ ~gone[r]
    /\ Run(r, "beginning", "beginning")
    /\ UNCHANGED <<identity, slots, turn, rows, crashes, history>>

TokenSent(r) ==
    /\ at[r] = "token"
    /\ ~gone[r]
    /\ Suspend(r, "pulling")
    /\ UNCHANGED <<identity, slots, turn, rows, crashes, history>>

Begun(r) ==
    /\ Returned(r, "beginning", "ok")
    /\ Run(r, "keeping", "saving")
    /\ UNCHANGED <<identity, slots, turn, rows, crashes, history>>

Saved(r) ==
    /\ \/ Returned(r, "keeping", "ok") /\ Suspend(r, "pulling")
       \/ Returned(r, "saving", "ok") /\ Suspend(r, "token")
    /\ UNCHANGED <<identity, slots, turn, rows, crashes, history>>

ProviderEnds(r) ==
    /\ at[r] = "pulling"
    /\ ~gone[r]
    /\ known[r]        \* an empty stream is an error of the provider
    /\ Run(r, "finalizing", "finalizing")
    /\ UNCHANGED <<identity, slots, turn, rows, crashes, history>>

Finalized(r) ==
    /\ Returned(r, "finalizing", "ok")
    /\ IF mode[r] = "generate" THEN Run(r, "auditing", "auditing") ELSE Suspend(r, "reporting")
    /\ UNCHANGED <<identity, slots, turn, rows, crashes, history>>

Audited(r) ==
    /\ Returned(r, "auditing", "ok")
    /\ Suspend(r, "reporting")
    /\ UNCHANGED <<identity, slots, turn, rows, crashes, history>>

\* The operation that has failed, the provider, or rendering the response.
Broken(r) ==
    /\ ~gone[r]
    /\ \/ at[r] \in Waiting
       \/ at[r] \in {"beginning", "keeping", "saving", "finalizing", "auditing"}
          /\ Drained(r) /\ result[r] = "failed"
       \/ Returned(r, "finalizing", "ok")

Raise(r) ==
    /\ Broken(r)
    /\ \/ Suspend(r, "failing")                         \* a ValueError
       \/ Run(r, "rolling_back", "rolling_back")        \* any other
    /\ UNCHANGED <<identity, slots, turn, rows, crashes, history>>

RolledBack(r) ==
    /\ Returned(r, "rolling_back", "ok")
    /\ Suspend(r, "failing")
    /\ UNCHANGED <<identity, slots, turn, rows, crashes, history>>

\* Defect: nobody ends the message of an interrupted stream.
CleansUpCreditsOnly(r) == Run(r, "closing", "settling")

\* finally: cleanup_stream, shielded
CleansUp(r) ==
    Run(r, "closing", IF ~charged[r] /\ mode[r] # "none" THEN "interrupting" ELSE "settling")

\* The end of the events, with what the last of them has said.
Report(r) ==
    /\ at[r] \in {"reporting", "failing"}
    /\ ~gone[r]
    /\ told' = [told EXCEPT ![r] = IF at[r] = "reporting" THEN "completed" ELSE "failed"]
    /\ CleansUp(r)
    /\ UNCHANGED <<identity, slots, turn, rows, crashes, dropped, unsettled>>

\* A cancellation at an await, a closed generator at a yield, or an error in the
\* except clause.
Leave(r) ==
    /\ at[r] \in (Working \cup Waiting \cup Yielding) \ (BeforeStream \cup Shielded)
    /\ Drained(r)
    /\ gone[r] \/ (at[r] = "rolling_back" /\ result[r] = "failed")
    /\ CleansUp(r)
    /\ UNCHANGED <<identity, slots, turn, rows, crashes, history>>

Closed(r) ==
    /\ at[r] = "closing"
    /\ Drained(r)
    /\ Frees(r)
    /\ Suspend(r, "ended")
    /\ UNCHANGED <<identity, turn, rows, crashes, history>>

-----------------------------------------------------------------------------
(* The operations in threads.  One that fails has committed nothing, except *)
(* where finalize_stream_response commits twice.                           *)

Finish(r, operation, how) ==
    /\ operation \in thread[r]
    /\ thread' = [thread EXCEPT ![r] = @ \ {operation}]
    /\ result' = [result EXCEPT ![r] = how]
    /\ UNCHANGED <<at, gone>>

\* Operations whose effect no other step can see.
Pass(r) ==
    /\ \E operation \in {"creating", "reading", "auditing", "rolling_back"} :
          \E how \in {"ok", "failed"} : Finish(r, operation, how)
    /\ UNCHANGED <<identity, slots, turn, rows, crashes, history>>

Fail(r) ==
    /\ \E operation \in {"reserving", "beginning", "saving", "finalizing"} :
          Finish(r, operation, "failed")
    /\ UNCHANGED <<identity, slots, turn, rows, crashes, history>>

\* reserve, with allow_existing=False
Reserve(r) ==
    /\ IF reservation[key[r]] # "none"
       THEN Finish(r, "reserving", "conflict") /\ UNCHANGED <<owned, reservation>>
       ELSE \/ Finish(r, "reserving", "insufficient") /\ UNCHANGED <<owned, reservation>>
            \/ /\ Finish(r, "reserving", "ok")
               /\ owned' = [owned EXCEPT ![r] = TRUE]
               /\ reservation' = [reservation EXCEPT ![key[r]] = "reserved"]
    /\ UNCHANGED <<identity, slots, mode, text, known, charged, message, turns, crashes, history>>

Ended(r, status) ==
    IF reservation[key[r]] = "reserved"
    THEN reservation' = [reservation EXCEPT ![key[r]] = status]
    ELSE UNCHANGED reservation

\* Defect: a request gives back credits that it has not reserved.
UndoAny(r) == Finish(r, "undoing", "ok") /\ Ended(r, "released") /\ UNCHANGED unsettled

\* cleanup_before_stream
UndoOwn(r) ==
    /\ Finish(r, "undoing", "ok")
    /\ IF owned[r] THEN Ended(r, "released") ELSE UNCHANGED reservation
    /\ UNCHANGED unsettled

Undo(r) ==
    /\ \/ UndoOwn(r)
       \/ /\ Finish(r, "undoing", "failed")
          /\ unsettled' = unsettled \cup {r}
          /\ UNCHANGED reservation
    /\ UNCHANGED <<identity, slots, turn, message, turns, crashes, dropped, told>>

\* begin_stream_response: the user turn and an empty answer in one commit
Begin(r) ==
    /\ Finish(r, "beginning", "ok")
    /\ message' = [message EXCEPT ![r] = [state |-> "streaming", len |-> 0]]
    /\ turns' = [turns EXCEPT ![r] = @ + 1]
    /\ known' = [known EXCEPT ![r] = TRUE]
    /\ UNCHANGED <<identity, slots, mode, text, charged, owned, reservation, crashes, history>>

\* persist_stream_response
Save(r) ==
    /\ Finish(r, "saving", "ok")
    /\ message' = [message EXCEPT ![r].len = text[r]]
    /\ UNCHANGED <<identity, slots, turn, reservation, turns, crashes, history>>

\* finalize_stream_response; a direct answer is inserted here.  The answer is
\* committed before the state of the conversation, which may fail.
Finalize(r) ==
    /\ \/ /\ Finish(r, "finalizing", "ok")
          /\ charged' = [charged EXCEPT ![r] = mode[r] = "direct" \/ text[r] > 0]
       \/ Finish(r, "finalizing", "failed") /\ UNCHANGED charged
    /\ message' = [message EXCEPT ![r] = [state |-> "final", len |-> text[r]]]
    /\ turns' = [turns EXCEPT ![r] = IF mode[r] = "direct" THEN @ + 1 ELSE @]
    /\ UNCHANGED <<identity, slots, mode, text, known, owned, reservation, crashes, history>>

\* interrupt_stream_response
Interrupted(r) ==
    [state |-> "interrupted",
     len   |-> IF text[r] > message[r].len THEN text[r] ELSE message[r].len]

\* The first half of cleanup_stream, whose failure is logged.
Interrupt(r) ==
    /\ "interrupting" \in thread[r]
    /\ thread' = [thread EXCEPT ![r] = (@ \ {"interrupting"}) \cup {"settling"}]
    /\ \/ /\ mode[r] = "generate"
          /\ message' = [message EXCEPT ![r] = Interrupted(r)]
          /\ turns' = [turns EXCEPT ![r] = IF known[r] THEN @ ELSE @ + 1]
          /\ UNCHANGED unsettled
       \/ /\ mode[r] = "direct"
          /\ UNCHANGED <<message, turns, unsettled>>
       \/ /\ unsettled' = unsettled \cup {r}
          /\ UNCHANGED <<message, turns>>
    /\ UNCHANGED <<identity, slots, at, result, gone, turn, reservation, crashes, dropped, told>>

\* Defect: an interrupted answer is charged as well.
VerdictOnText(r) == IF charged[r] \/ text[r] > 0 THEN "settled" ELSE "released"

Verdict(r) == IF charged[r] THEN "settled" ELSE "released"

\* The second half: settle or release, whose failure is logged as well.
Settle(r) ==
    /\ Finish(r, "settling", "ok")
    /\ \/ /\ Ended(r, Verdict(r))
          /\ UNCHANGED unsettled
       \/ /\ unsettled' = unsettled \cup {r}
          /\ UNCHANGED reservation
    /\ UNCHANGED <<identity, slots, turn, message, turns, crashes, dropped, told>>

-----------------------------------------------------------------------------
(* The client, the server, and the whole.                                  *)

\* The client disconnects, or the server cancels the request.
Go(r) ==
    /\ at[r] \in (Working \cup Waiting \cup Yielding) \ Shielded
    /\ ~gone[r]
    /\ gone' = [gone EXCEPT ![r] = TRUE]
    /\ UNCHANGED <<identity, slots, at, thread, result, turn, rows, crashes, history>>

Crash ==
    /\ crashes < MaxCrashes
    /\ \E r \in Requests : InFlight(r)
    /\ crashes' = crashes + 1
    /\ slots' = <<>>
    /\ at' = [r \in Requests |-> IF InFlight(r) THEN "crashed" ELSE at[r]]
    /\ thread' = [r \in Requests |-> {}]
    /\ result' = [r \in Requests |-> "none"]
    /\ gone' = [r \in Requests |-> FALSE]
    /\ UNCHANGED <<identity, turn, rows, history>>

Coroutine(r) ==
    \/ Created(r) \/ Reserved(r) \/ Unaffordable(r) \/ GiveUp(r) \/ GivenUp(r) \/ Start(r)
    \/ Opened(r) \/ Prepared(r) \/ DirectSent(r) \/ FirstSent(r) \/ TokenSent(r) \/ Begun(r) \/ Saved(r)
    \/ ProviderEnds(r) \/ Finalized(r) \/ Audited(r) \/ Raise(r) \/ RolledBack(r)
    \/ Report(r) \/ Leave(r) \/ Closed(r)

Thread(r) ==
    \/ Pass(r) \/ Fail(r) \/ Reserve(r) \/ Undo(r) \/ Begin(r) \/ Save(r)
    \/ Finalize(r) \/ Interrupt(r) \/ Settle(r)

Next ==
    \/ \E r \in Requests :
          Admit(r) \/ Refuse(r) \/ Coroutine(r) \/ Chunk(r) \/ Thread(r) \/ Go(r)
    \/ Crash

Spec == Init /\ [][Next]_vars

-----------------------------------------------------------------------------
(* Properties                                                              *)

TypeOK ==
    /\ user \in [Requests -> Users]
    /\ key \in [Requests -> Keys]
    /\ limit \in Limits
    /\ slots \in Seq([key : Users, count : Nat \ {0}])
    /\ at \in [Requests -> Places]
    /\ thread \in [Requests -> SUBSET Operations]
    /\ result \in [Requests -> {"none", "ok", "failed", "conflict", "insufficient"}]
    /\ gone \in [Requests -> BOOLEAN]
    /\ mode \in [Requests -> {"none", "direct", "generate"}]
    /\ text \in [Requests -> 0..MaxText]
    /\ known \in [Requests -> BOOLEAN]
    /\ charged \in [Requests -> BOOLEAN]
    /\ owned \in [Requests -> BOOLEAN]
    /\ reservation \in [Keys -> {"none", "reserved", "settled", "released"}]
    /\ message \in [Requests -> [state : MessageStates, len : Nat]]
    /\ turns \in [Requests -> Nat]
    /\ crashes \in 0..MaxCrashes
    /\ dropped \subseteq Users
    /\ unsettled \subseteq Requests
    /\ told \in [Requests -> {"none", "completed", "failed"}]

\* A slot is given back once, on whatever way a request ends: the limiter never
\* counts more than the user's requests in flight, so that no slot is lost for
\* good; and no user has more of them than the limit, unless the limiter had to
\* evict the count.
SlotsMatchStreams ==
    \A u \in Users :
        /\ CountOf(slots, u) <= Cardinality(Streams(u))
        /\ u \notin dropped => Cardinality(Streams(u)) <= limit

\* A request inserts one answer at most: neither a cancellation while the turn is
\* being inserted nor the cleanup that follows repeats it.
OneTurn == \A r \in Requests : turns[r] <= 1

\* A turn that went to a model is durable when its request has ended: no longer
\* marked as streaming, and with all the text that was received, whoever left.
EndedIsDurable ==
    \A r \in Requests :
        at[r] = "ended" /\ mode[r] = "generate" /\ r \notin unsettled =>
            /\ message[r].state \in {"interrupted", "final"}
            /\ message[r].len = text[r]

\* Credits stay reserved while the request that reserved them is under way: a
\* retry with the same id gives up without releasing them.
OwnedIsHeld ==
    \A r \in Requests :
        /\ owned[r]
        /\ InFlight(r)
        /\ at[r] \notin Shielded
        => reservation[key[r]] = "reserved"

\* The bill follows the answer: a request that has ended holds no credits; it paid
\* if its client was told of a completed answer that can be seen, and only if its
\* answer is final; it did not if the answer was cut short.
BillFollowsAnswer ==
    \A r \in Requests :
        at[r] = "ended" /\ owned[r] /\ r \notin unsettled =>
            LET status == reservation[key[r]] IN
            /\ status # "reserved"
            /\ told[r] = "completed" /\ (mode[r] = "direct" \/ text[r] > 0) => status = "settled"
            /\ status = "settled" => message[r].state = "final"
            /\ message[r].state = "interrupted" => status = "released"
=============================================================================
