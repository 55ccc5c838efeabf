-------------------------- MODULE Automations_proofs --------------------------
(***************************************************************************)
(* Proofs about Automations, for every number of automations, sessions,    *)
(* retries, edits and faults, and every size of a batch.                   *)
(***************************************************************************)
EXTENDS Automations, SequenceTheorems, TLAPS

\* A run that no commit has been made in still holds its key share.
Sharing == \A t \in Sessions : run[t] # NoRow /\ ~expired[t] => run[t] \in shared[t]

Exclusion == Sharing /\ ScanExcludes

IInv == TypeOK /\ ActiveIsScheduled /\ Exclusion

USE AutomationAssumption

-----------------------------------------------------------------------------
(* Loading and writing a row.                                              *)

\* What is loaded of a row that is not deleted.
LEMMA LoadedTyped ==
    ASSUME TypeOK, NEW a \in Rows, row[a].status # "deleted"
    PROVE  Loaded(a) \in Copy
<1>1. row[a] \in Row /\ row[a].status \in {"active", "paused"}
  BY DEF TypeOK, Row
<1>2. row[a] \in Copy /\ [row[a] EXCEPT !.next = "past"] \in Copy
  BY <1>1 DEF Row, Copy
<1> QED
  BY <1>2 DEF Loaded

\* What is written is a row; a column that is not written keeps its value.
LEMMA WrittenTyped ==
    ASSUME TypeOK, NEW a \in Rows, NEW new \in Row, NEW columns
    PROVE  /\ Written(a, new, columns) \in Row
           /\ Written(a, new, columns).status = IF "status" \in columns THEN new.status ELSE row[a].status
           /\ Written(a, new, columns).once = IF "once" \in columns THEN new.once ELSE row[a].once
           /\ Written(a, new, columns).next = IF "next" \in columns THEN new.next ELSE row[a].next
BY DEF TypeOK, Written, Row

\* Which columns are written.
LEMMA ColumnsOf ==
    ASSUME NEW known, NEW new, NEW same \in BOOLEAN, NEW config \in BOOLEAN
    PROVE  LET columns == Columns(known, new, same, config) IN
           /\ "status" \in columns <=> new.status # known.status
           /\ "once" \in columns <=> new.once # known.once
           /\ "next" \in columns <=> ~(same \/ (new.next = "none" /\ known.next = "none"))
BY DEF Columns

\* How a run leaves what it knows of its automation: with a failure_count below
\* MaxRetries, and a next run unless it knows a row that runs once.
LEMMA FinishedTyped ==
    ASSUME NEW known \in Copy, NEW new \in {Completed(known), Failed(known)}
    PROVE  /\ new \in Row
           /\ new.status = known.status /\ new.once = known.once
           /\ new.next = "none" => known.once
<1>1. CASE new = Completed(known)
  <2>1. new = [known EXCEPT !.fails = 0, !.next = Regular(known)]
    BY <1>1 DEF Completed
  <2>2. Regular(known) \in {"none", "slot"} /\ (Regular(known) = "none" => known.once)
    BY DEF Regular
  <2>3. 0 \in 0..(MaxRetries - 1)
    OBVIOUS
  <2> QED
    BY <2>1, <2>2, <2>3 DEF Row, Copy
<1>2. CASE new = Failed(known) /\ known.fails + 1 < MaxRetries
  <2>1. new = [known EXCEPT !.fails = @ + 1, !.next = "retry"]
    BY <1>2 DEF Failed
  <2>2. known.fails \in 0..(MaxRetries - 1)
    BY DEF Copy
  <2>3. known.fails + 1 \in 0..(MaxRetries - 1)
    BY <1>2, <2>2
  <2> QED
    BY <2>1, <2>3 DEF Row, Copy
<1>3. CASE new = Failed(known) /\ ~(known.fails + 1 < MaxRetries)
  <2>1. new = [known EXCEPT !.fails = 0, !.next = Regular(known)]
    BY <1>3 DEF Failed
  <2>2. Regular(known) \in {"none", "slot"} /\ (Regular(known) = "none" => known.once)
    BY DEF Regular
  <2>3. 0 \in 0..(MaxRetries - 1)
    OBVIOUS
  <2> QED
    BY <2>1, <2>2, <2>3 DEF Row, Copy
<1> QED
  BY <1>1, <1>2, <1>3

\* Taking a row off the list of due rows leaves a list of rows.
LEMMA UndueTyped ==
    ASSUME TypeOK, NEW a
    PROVE  Undue(a) \in Seq(Rows)
<1>1. CASE a \notin ToSet(due)
  BY <1>1 DEF Undue, TypeOK
<1>2. CASE a \in ToSet(due)
  <2> DEFINE i == Place(a)
             n == Len(due)
  <2>1. due \in Seq(Rows) /\ n \in Nat /\ DOMAIN due = 1..n
        /\ \A j \in 1..n : due[j] \in Rows
    BY LenProperties, ElementOfSeq DEF TypeOK
  <2>2. i \in 1..n
    BY <1>2, <2>1 DEF Place, ToSet
  <2> HIDE DEF i, n
  <2>3. SubSeq(due, 1, i - 1) \in Seq(Rows) /\ SubSeq(due, i + 1, n) \in Seq(Rows)
    BY <2>1, <2>2, SubSeqProperties
  <2>4. Undue(a) = SubSeq(due, 1, i - 1) \o SubSeq(due, i + 1, n)
    BY <1>2 DEF Undue, RemoveAt, i, n
  <2> QED
    BY <2>3, <2>4, ConcatProperties
<1> QED
  BY <1>1, <1>2

\* A commit keeps the types of the rows and of the list of due rows.
LEMMA CommitTyped ==
    ASSUME TypeOK, NEW a \in Rows, NEW new \in Row, NEW columns, Commit(a, new, columns)
    PROVE  row' \in [Rows -> Row] /\ due' \in Seq(Rows)
BY WrittenTyped, UndueTyped DEF Commit, TypeOK

-----------------------------------------------------------------------------
(* Schedules.                                                              *)

\* The end of a run keeps the schedule of its automation, unless the run knows as
\* "once" what repeats.
LEMMA CloseStep ==
    ASSUME IInv, NEW s \in Sessions, run[s] # NoRow,
           NEW new \in {Completed(view[s]), Failed(view[s])},
           Close(s, run[s], new)
    PROVE  ActiveIsScheduled'
<1> DEFINE a == run[s]
<1>1. a \in Rows /\ view[s] \in Copy /\ row[a] \in Row
  BY DEF IInv, TypeOK, Close
<1>2. /\ new \in Row
      /\ new.status = view[s].status /\ new.once = view[s].once
      /\ new.next = "none" => view[s].once
  BY <1>1, FinishedTyped
<1>3. PICK same \in BOOLEAN, config \in BOOLEAN :
          Commit(a, new, Columns(view[s], new, same, config))
  BY DEF Close
<1> DEFINE columns == Columns(view[s], new, same, config)
<1>4. "status" \notin columns /\ "once" \notin columns
  BY <1>2, ColumnsOf
<1>5. row' = [row EXCEPT ![a] = Written(a, new, columns)]
  BY <1>3 DEF Commit
<1> HIDE DEF columns
<1>6. /\ row'[a].status = row[a].status /\ row'[a].once = row[a].once
      /\ row'[a].next \in {row[a].next, new.next}
  <2>1. row'[a] = Written(a, new, columns)
    BY <1>1, <1>5 DEF IInv, TypeOK
  <2>2. TypeOK
    BY DEF IInv
  <2> QED
    BY <1>1, <1>2, <1>4, <2>1, <2>2, WrittenTyped
<1>7. \A b \in Rows \ {a} : row'[b] = row[b]
  BY <1>5 DEF IInv, TypeOK
<1>8. overtaken \subseteq overtaken' /\ (view[s].once /\ ~row[a].once => a \in overtaken')
  BY DEF Close
<1>9. row[a].once \in BOOLEAN /\ view[s].once \in BOOLEAN
  BY <1>1 DEF Row, Copy
<1>10. ASSUME NEW b \in Rows, row'[b].status = "active", ~row'[b].once, b \notin overtaken'
       PROVE  row'[b].next # "none"
  <2>1. CASE b = a
    BY <1>2, <1>6, <1>8, <1>9, <1>10, <2>1 DEF IInv, ActiveIsScheduled
  <2>2. CASE b # a
    BY <1>7, <1>8, <1>10, <2>2 DEF IInv, ActiveIsScheduled
  <2> QED
    BY <2>1, <2>2
<1> QED
  BY <1>10 DEF ActiveIsScheduled

\* An edit that computes a next run for every row it makes active keeps the schedules,
\* unless its copy of the row is outdated.
LEMMA SaveStep ==
    ASSUME IInv, NEW e \in Editors, NEW a \in Rows, NEW new \in Row, NEW config \in BOOLEAN,
           new.status = "active" => new.next = "slot",
           Save(e, a, new, config)
    PROVE  ActiveIsScheduled'
<1>1. PICK same \in BOOLEAN :
          /\ same => MaySame(copy[e], new)
          /\ Commit(a, new, Columns(copy[e], new, same, config))
  BY DEF Save
<1> DEFINE columns == Columns(copy[e], new, same, config)
           known == copy[e]
<1>2. /\ "status" \in columns <=> new.status # known.status
      /\ "once" \in columns <=> new.once # known.once
      /\ "next" \in columns <=> ~(same \/ (new.next = "none" /\ known.next = "none"))
  BY ColumnsOf
<1>3. row' = [row EXCEPT ![a] = Written(a, new, columns)]
  BY <1>1 DEF Commit
<1> HIDE DEF columns
<1>4. /\ row'[a].status = IF "status" \in columns THEN new.status ELSE row[a].status
      /\ row'[a].once = IF "once" \in columns THEN new.once ELSE row[a].once
      /\ row'[a].next = IF "next" \in columns THEN new.next ELSE row[a].next
  BY <1>3, WrittenTyped DEF IInv, TypeOK
<1>5. \A b \in Rows \ {a} : row'[b] = row[b]
  BY <1>3 DEF IInv, TypeOK
<1>6. overtaken' = IF Outdated(known, a) THEN overtaken \cup {a} ELSE overtaken \ {a}
  BY DEF Save
<1>7. ASSUME ~Outdated(known, a), row'[a].status = "active"
      PROVE  row'[a].next # "none"
  <2>1. new.status = "active"
    BY <1>2, <1>4, <1>7 DEF Outdated
  <2>2. CASE "next" \in columns
    BY <1>4, <2>1, <2>2
  <2>3. CASE "next" \notin columns
    BY <1>1, <1>2, <1>4, <1>7, <2>1, <2>3 DEF MaySame, Outdated
  <2> QED
    BY <2>2, <2>3
<1>8. ASSUME NEW b \in Rows, row'[b].status = "active", ~row'[b].once, b \notin overtaken'
      PROVE  row'[b].next # "none"
  <2>1. CASE b = a
    BY <1>6, <1>7, <1>8, <2>1
  <2>2. CASE b # a
    BY <1>5, <1>6, <1>8, <2>2 DEF IInv, ActiveIsScheduled
  <2> QED
    BY <2>1, <2>2
<1> QED
  BY <1>8 DEF ActiveIsScheduled

\* What a request makes of the row it has loaded.
LEMMA EditTyped ==
    ASSUME TypeOK, NEW e \in Editors
    PROVE  /\ [copy[e] EXCEPT !.status = "paused", !.next = "none"] \in Row
           /\ [copy[e] EXCEPT !.status = "active", !.next = "slot"] \in Row
<1>1. copy[e] \in Copy \cup {Unloaded}
  BY DEF TypeOK
<1>2. CASE copy[e] \in Copy
  BY <1>2 DEF Copy, Row
<1>3. CASE copy[e] = Unloaded
  <2>1. 0 \in 0..(MaxRetries - 1)
    OBVIOUS
  <2>2. copy[e] \in [status : {"unloaded"}, once : BOOLEAN, fails : 0..(MaxRetries - 1),
                     next : {"none"}]
    BY <1>3, <2>1 DEF Unloaded
  <2> QED
    BY <2>2 DEF Row
<1> QED
  BY <1>1, <1>2, <1>3

\* An edit saves a row, with a next run if it is active.
LEMMA EditIsSave ==
    ASSUME TypeOK, NEW e \in Editors, NEW a \in Rows, NEW status \in {"active", "paused"},
           NEW once \in BOOLEAN, NEW fails \in 0..(MaxRetries - 1), NEW config \in BOOLEAN,
           Pause(e, a) \/ Resume(e, a) \/ Update(e, a, status, once, fails, config)
    PROVE  \E new \in Row, c \in BOOLEAN :
              (new.status = "active" => new.next = "slot") /\ Save(e, a, new, c)
<1>1. CASE Pause(e, a)
  <2> DEFINE new == [copy[e] EXCEPT !.status = "paused", !.next = "none"]
  <2>1. new \in Row /\ Save(e, a, new, FALSE)
    BY <1>1, EditTyped DEF Pause
  <2>2. new.status = "paused"
    BY DEF TypeOK, Copy, Unloaded
  <2> HIDE DEF new
  <2> QED
    BY <2>1, <2>2
<1>2. CASE Resume(e, a)
  <2> DEFINE new == [copy[e] EXCEPT !.status = "active", !.next = "slot"]
  <2>1. new \in Row /\ Save(e, a, new, FALSE)
    BY <1>2, EditTyped DEF Resume
  <2>2. new.next = "slot"
    BY DEF TypeOK, Copy, Unloaded
  <2> HIDE DEF new
  <2> QED
    BY <2>1, <2>2
<1>3. CASE Update(e, a, status, once, fails, config)
  <2> DEFINE new == [status |-> status, once |-> once, fails |-> fails,
                     next |-> IF status = "active" THEN "slot" ELSE "none"]
  <2>1. new \in Row /\ (new.status = "active" => new.next = "slot")
    BY DEF Row
  <2>2. Save(e, a, new, config)
    BY <1>3 DEF Update
  <2> HIDE DEF new
  <2> QED
    BY <2>1, <2>2
<1> QED
  BY <1>1, <1>2, <1>3

\* Every step keeps the schedules.
LEMMA SchedulesStep ==
    ASSUME IInv, [Next]_vars
    PROVE  ActiveIsScheduled'
<1>1. ASSUME row' = row, overtaken' = overtaken
      PROVE  ActiveIsScheduled'
  BY <1>1 DEF IInv, ActiveIsScheduled
<1>2. ASSUME NEW s \in Sessions,
             Scan(s) \/ Load(s) \/ Begin(s) \/ StopAtDeleted(s) \/ CommitWithin(s) \/ Abort(s)
      PROVE  ActiveIsScheduled'
  BY <1>1, <1>2 DEF Scan, Load, Begin, StopAtDeleted, CommitWithin, Abort, Stop
<1>3. ASSUME NEW s \in Sessions, Succeed(s)
      PROVE  ActiveIsScheduled'
  BY <1>3, CloseStep DEF Succeed
<1>4. ASSUME NEW s \in Sessions, Fail(s)
      PROVE  ActiveIsScheduled'
  BY <1>4, CloseStep DEF Fail
<1>5. ASSUME NEW s \in Sessions, NEW a \in Rows, RunNow(s, a)
      PROVE  ActiveIsScheduled'
  BY <1>1, <1>5 DEF RunNow
<1>6. ASSUME NEW a \in Rows, Tick(a)
      PROVE  ActiveIsScheduled'
  BY <1>1, <1>6 DEF Tick
<1>7. ASSUME NEW e \in Editors, Request(e)
      PROVE  ActiveIsScheduled'
  <2>1. CASE Leave(e)
    BY <1>1, <2>1 DEF Leave
  <2>2. ASSUME NEW a \in Rows, Open(e, a)
        PROVE  ActiveIsScheduled'
    BY <1>1, <2>2 DEF Open
  <2>3. ASSUME NEW a \in Rows, NEW status \in {"active", "paused"}, NEW once \in BOOLEAN,
               NEW fails \in 0..(MaxRetries - 1), NEW config \in BOOLEAN,
               Pause(e, a) \/ Resume(e, a) \/ Update(e, a, status, once, fails, config)
        PROVE  ActiveIsScheduled'
    BY <2>3, EditIsSave, SaveStep DEF IInv
  <2>4. ASSUME NEW a \in Rows, Pause(e, a) \/ Resume(e, a)
        PROVE  ActiveIsScheduled'
    <3>1. 0 \in 0..(MaxRetries - 1) /\ "active" \in {"active", "paused"} /\ TRUE \in BOOLEAN
      OBVIOUS
    <3> QED
      BY <2>3, <2>4, <3>1
  <2>5. ASSUME NEW a \in Rows, Delete(e, a)
        PROVE  ActiveIsScheduled'
    <3>1. row'[a].status = "deleted" /\ overtaken' = overtaken
          /\ \A b \in Rows \ {a} : row'[b] = row[b]
      BY <2>5 DEF Delete, IInv, TypeOK, Row
    <3> QED
      BY <3>1 DEF IInv, ActiveIsScheduled
  <2> QED
    BY <1>7, <2>1, <2>2, <2>3, <2>4, <2>5 DEF Request
<1>8. CASE UNCHANGED vars
  BY <1>1, <1>8 DEF vars
<1> QED
  BY <1>2, <1>3, <1>4, <1>5, <1>6, <1>7, <1>8 DEF Next, Work

-----------------------------------------------------------------------------
(* Types.                                                                  *)

\* The end of a run keeps the types.
LEMMA CloseTyped ==
    ASSUME TypeOK, NEW s \in Sessions, run[s] # NoRow,
           NEW new \in {Completed(view[s]), Failed(view[s])}, Close(s, run[s], new)
    PROVE  TypeOK'
<1>1. run[s] \in Rows /\ view[s] \in Copy
  BY DEF TypeOK, Close
<1>2. new \in Row
  BY <1>1, FinishedTyped
<1>3. PICK same \in BOOLEAN, config \in BOOLEAN :
          Commit(run[s], new, Columns(view[s], new, same, config))
  BY DEF Close
<1>4. row' \in [Rows -> Row] /\ due' \in Seq(Rows)
  BY <1>1, <1>2, <1>3, CommitTyped
<1>5. overtaken' \subseteq Rows
  BY <1>1 DEF TypeOK, Close
<1> QED
  BY <1>4, <1>5 DEF TypeOK, Close, Forget, requests

\* A request that has done its work keeps nothing.
LEMMA ShutTyped ==
    ASSUME TypeOK, NEW e \in Editors, Shut(e)
    PROVE  /\ editing' \in [Editors -> Rows \cup {NoRow}]
           /\ copy' \in [Editors -> Copy \cup {Unloaded}]
BY DEF TypeOK, Shut

\* The commit of an edit keeps the types.
LEMMA SaveTyped ==
    ASSUME TypeOK, NEW e \in Editors, NEW a \in Rows, NEW new \in Row, NEW config \in BOOLEAN,
           Save(e, a, new, config)
    PROVE  TypeOK'
<1>1. PICK same \in BOOLEAN : Commit(a, new, Columns(copy[e], new, same, config))
  BY DEF Save
<1>2. row' \in [Rows -> Row] /\ due' \in Seq(Rows)
  BY <1>1, CommitTyped
<1>3. overtaken' \subseteq Rows
  BY DEF TypeOK, Save
<1> QED
  BY <1>2, <1>3, ShutTyped DEF TypeOK, Save, sessions

\* Every step keeps the types.
LEMMA TypesStep ==
    ASSUME IInv, [Next]_vars
    PROVE  TypeOK'
<1>0. TypeOK
  BY DEF IInv
<1>1. ASSUME NEW s \in Sessions, Scan(s)
      PROVE  TypeOK'
  <2>1. PICK n \in 1..BatchSize : \E taken \in [1..n -> Scannable(s)] :
           /\ batch' = [batch EXCEPT ![s] = taken]
           /\ locked' = [locked EXCEPT ![s] = ToSet(taken)]
           /\ view' = [view EXCEPT ![s] = Loaded(taken[1])]
    BY <1>1 DEF Scan
  <2>2. PICK taken \in [1..n -> Scannable(s)] :
           /\ batch' = [batch EXCEPT ![s] = taken]
           /\ locked' = [locked EXCEPT ![s] = ToSet(taken)]
           /\ view' = [view EXCEPT ![s] = Loaded(taken[1])]
    BY <2>1
  <2>3. taken \in [1..n -> Rows]
    BY DEF Scannable
  <2>4. taken \in Seq(Rows)
    BY <2>3, SeqDef
  <2>5. ToSet(taken) \subseteq Rows
    BY <2>3 DEF ToSet
  <2>6. taken[1] \in Rows /\ row[taken[1]].status = "active"
    BY <2>2 DEF Scannable
  <2>7. Loaded(taken[1]) \in Copy
    BY <1>0, <2>6, LoadedTyped
  <2> QED
    BY <1>0, <1>1, <2>2, <2>4, <2>5, <2>7 DEF Scan, TypeOK, requests
<1>2. ASSUME NEW s \in Sessions, NEW a \in Rows, RunNow(s, a)
      PROVE  TypeOK'
  <2>1. <<a>> \in Seq(Rows)
    OBVIOUS
  <2>2. Loaded(a) \in Copy
    BY <1>0, <1>2, LoadedTyped DEF RunNow
  <2> QED
    BY <1>0, <1>2, <2>1, <2>2 DEF RunNow, TypeOK, requests
<1>3. ASSUME NEW s \in Sessions, Begin(s)
      PROVE  TypeOK'
  <2>1. Head(batch[s]) \in Rows /\ Tail(batch[s]) \in Seq(Rows)
    BY <1>0, <1>3, HeadTailProperties DEF Begin, TypeOK
  <2> QED
    BY <1>0, <1>3, <2>1 DEF Begin, TypeOK, requests
<1>4. ASSUME NEW s \in Sessions, CommitWithin(s)
      PROVE  TypeOK'
  BY <1>0, <1>4 DEF CommitWithin, Forget, TypeOK, requests
<1>5. ASSUME NEW s \in Sessions, Load(s)
      PROVE  TypeOK'
  <2>1. Target(s) \in Rows
    BY <1>0, <1>5, HeadTailProperties DEF Load, Idle, Target, TypeOK
  <2>2. Loaded(Target(s)) \in Copy
    BY <1>0, <1>5, <2>1, LoadedTyped DEF Load
  <2> QED
    BY <1>0, <1>5, <2>2 DEF Load, TypeOK, requests
<1>6. ASSUME NEW s \in Sessions, Succeed(s) \/ Fail(s)
      PROVE  TypeOK'
  BY <1>0, <1>6, CloseTyped DEF Succeed, Fail
<1>7. ASSUME NEW s \in Sessions, StopAtDeleted(s) \/ Abort(s)
      PROVE  TypeOK'
  <2>1. <<>> \in Seq(Rows)
    OBVIOUS
  <2>2. aborts' \in 0..MaxAborts
    BY <1>0, <1>7 DEF StopAtDeleted, Abort, TypeOK
  <2>3. Stop(s)
    BY <1>7 DEF StopAtDeleted, Abort
  <2>4. UNCHANGED <<row, due, requests, edits, overtaken>>
    BY <2>3 DEF Stop
  <2>5. /\ batch' \in [Sessions -> Seq(Rows)]
        /\ run' \in [Sessions -> Rows \cup {NoRow}]
        /\ view' \in [Sessions -> Copy \cup {Unloaded}]
    BY <1>0, <2>1, <2>3 DEF Stop, Forget, TypeOK
  <2>6. /\ expired' \in [Sessions -> BOOLEAN]
        /\ locked' \in [Sessions -> SUBSET Rows]
        /\ shared' \in [Sessions -> SUBSET Rows]
    BY <1>0, <2>3 DEF Stop, Forget, TypeOK
  <2> QED
    BY <1>0, <2>2, <2>4, <2>5, <2>6 DEF TypeOK, requests
<1>8. ASSUME NEW a \in Rows, Tick(a)
      PROVE  TypeOK'
  BY <1>0, <1>8, AppendProperties DEF Tick, Ticked, sessions, requests, TypeOK
<1>9. ASSUME NEW e \in Editors, Request(e)
       PROVE  TypeOK'
  <2>1. CASE Leave(e)
    BY <1>0, <2>1, ShutTyped DEF Leave, TypeOK, sessions
  <2>2. ASSUME NEW a \in Rows, Open(e, a)
        PROVE  TypeOK'
    <3>1. Loaded(a) \in Copy /\ edits' \in 0..MaxEdits
      BY <1>0, <2>2, LoadedTyped DEF Open, TypeOK
    <3> QED
      BY <1>0, <2>2, <3>1 DEF Open, TypeOK, sessions
  <2>3. ASSUME NEW a \in Rows, NEW status \in {"active", "paused"}, NEW once \in BOOLEAN,
               NEW fails \in 0..(MaxRetries - 1), NEW config \in BOOLEAN,
               Pause(e, a) \/ Resume(e, a) \/ Update(e, a, status, once, fails, config)
        PROVE  TypeOK'
    BY <1>0, <2>3, EditIsSave, SaveTyped
  <2>4. ASSUME NEW a \in Rows, Pause(e, a) \/ Resume(e, a)
        PROVE  TypeOK'
    <3>1. 0 \in 0..(MaxRetries - 1) /\ "active" \in {"active", "paused"} /\ TRUE \in BOOLEAN
      OBVIOUS
    <3> QED
      BY <2>3, <2>4, <3>1
  <2>5. ASSUME NEW a \in Rows, Delete(e, a)
        PROVE  TypeOK'
    <3>1. row[a] \in Row
      BY <1>0 DEF TypeOK
    <3>2. [row[a] EXCEPT !.status = "deleted", !.next = "none"] \in Row
      BY <3>1 DEF Row
    <3>3. row' = [row EXCEPT ![a] = [row[a] EXCEPT !.status = "deleted", !.next = "none"]]
      BY <1>0, <2>5 DEF Delete, TypeOK
    <3>4. row' \in [Rows -> Row]
      BY <1>0, <3>2, <3>3 DEF TypeOK
    <3> QED
      BY <1>0, <2>5, <3>4, ShutTyped, UndueTyped DEF Delete, TypeOK, sessions
  <2> QED
    BY <1>9, <2>1, <2>2, <2>3, <2>4, <2>5 DEF Request
<1>10. CASE UNCHANGED vars
  BY <1>0, <1>10 DEF vars, sessions, requests, TypeOK
<1> QED
  BY <1>1, <1>2, <1>3, <1>4, <1>5, <1>6, <1>7, <1>8, <1>9, <1>10 DEF Next, Work

-----------------------------------------------------------------------------
(* Locks.                                                                  *)

\* Every step keeps the locks of scans and of runs apart.
LEMMA ExclusionStep ==
    ASSUME IInv, [Next]_vars
    PROVE  Exclusion'
<1> USE DEF IInv, Exclusion, Sharing, ScanExcludes
<1>1. ASSUME NEW s \in Sessions, Scan(s)
      PROVE  Exclusion'
  <2>1. PICK n \in 1..BatchSize : \E taken \in [1..n -> Scannable(s)] :
           locked' = [locked EXCEPT ![s] = ToSet(taken)]
    BY <1>1 DEF Scan
  <2>2. PICK taken \in [1..n -> Scannable(s)] : locked' = [locked EXCEPT ![s] = ToSet(taken)]
    BY <2>1
  <2>3. \A a \in ToSet(taken) : \A t \in Sessions \ {s} : a \notin shared[t]
    BY <2>2 DEF ToSet, Scannable, Free, Others
  <2>4. UNCHANGED <<run, expired, shared>>
    BY <1>1 DEF Scan
  <2>5. ASSUME NEW u \in Sessions, NEW t \in Sessions, u # t, run'[t] # NoRow,
               run'[t] \in locked'[u]
        PROVE  expired'[t]
    <3>1. CASE u = s
      BY <2>2, <2>3, <2>4, <2>5, <3>1 DEF TypeOK
    <3>2. CASE u # s
      BY <2>2, <2>4, <2>5, <3>2 DEF TypeOK
    <3> QED
      BY <3>1, <3>2
  <2> QED
    BY <2>4, <2>5
<1>2. ASSUME NEW s \in Sessions, NEW a \in Rows, RunNow(s, a)
      PROVE  Exclusion'
  BY <1>2 DEF RunNow
<1>3. ASSUME NEW s \in Sessions, Begin(s)
      PROVE  Exclusion'
  <2>1. /\ run' = [run EXCEPT ![s] = Head(batch[s])]
        /\ shared' = [shared EXCEPT ![s] = {Head(batch[s])}]
        /\ UNCHANGED <<expired, locked>>
        /\ \A t \in Sessions \ {s} : Head(batch[s]) \notin locked[t]
    BY <1>3 DEF Begin, Unlocked, Others
  <2> QED
    BY <2>1 DEF TypeOK
<1>4. ASSUME NEW s \in Sessions, CommitWithin(s)
      PROVE  Exclusion'
  BY <1>4 DEF CommitWithin, Forget, TypeOK
\* The end of a transaction frees what it has locked.
<1>5. ASSUME NEW s \in Sessions, Forget(s), run' = [run EXCEPT ![s] = NoRow],
             expired' = [expired EXCEPT ![s] = FALSE]
      PROVE  Exclusion'
  BY <1>5 DEF Forget, TypeOK
<1>6. ASSUME NEW s \in Sessions, Succeed(s) \/ Fail(s)
      PROVE  Exclusion'
  BY <1>5, <1>6 DEF Succeed, Fail, Close
<1>7. ASSUME NEW s \in Sessions, StopAtDeleted(s) \/ Abort(s)
      PROVE  Exclusion'
  BY <1>5, <1>7 DEF StopAtDeleted, Abort, Stop
<1>8. ASSUME UNCHANGED sessions
      PROVE  Exclusion'
  BY <1>8 DEF sessions
<1>9. ASSUME NEW a \in Rows, Tick(a)
      PROVE  Exclusion'
  BY <1>8, <1>9 DEF Tick
<1>10. ASSUME NEW e \in Editors, Request(e)
       PROVE  Exclusion'
  <2>1. ASSUME NEW a \in Rows, NEW new, NEW config, Save(e, a, new, config)
        PROVE  UNCHANGED sessions
    BY <2>1 DEF Save
  <2>2. ASSUME NEW a \in Rows, Pause(e, a) \/ Resume(e, a)
        PROVE  UNCHANGED sessions
    BY <2>1, <2>2 DEF Pause, Resume
  <2>3. ASSUME NEW a \in Rows, NEW status, NEW once, NEW fails, NEW config,
               Update(e, a, status, once, fails, config)
        PROVE  UNCHANGED sessions
    BY <2>1, <2>3 DEF Update
  <2>4. ASSUME NEW a \in Rows, Open(e, a) \/ Delete(e, a)
        PROVE  UNCHANGED sessions
    BY <2>4 DEF Open, Delete
  <2>5. Leave(e) => UNCHANGED sessions
    BY DEF Leave
  <2> QED
    BY <1>8, <1>10, <2>2, <2>3, <2>4, <2>5 DEF Request
<1>11. ASSUME NEW s \in Sessions, Load(s)
       PROVE  Exclusion'
  BY <1>11 DEF Load
<1>12. CASE UNCHANGED vars
  BY <1>8, <1>12 DEF vars
<1> HIDE DEF Exclusion
<1> QED
  BY <1>1, <1>2, <1>3, <1>4, <1>6, <1>7, <1>9, <1>10, <1>11, <1>12 DEF Next, Work

-----------------------------------------------------------------------------

\* The invariant of all that follows: types, schedules, and who holds which lock.
THEOREM AutomationInvariance == Spec => []IInv
<1>1. Init => IInv
  <2>1. ASSUME Init
        PROVE  TypeOK
    <3>1. <<>> \in Seq(Rows)
      OBVIOUS
    <3> QED
      BY <2>1, <3>1 DEF Init, TypeOK, Row
  <2>2. ASSUME Init
        PROVE  ActiveIsScheduled /\ Exclusion
    BY <2>2 DEF Init, ActiveIsScheduled, Exclusion, Sharing, ScanExcludes
  <2> QED
    BY <2>1, <2>2 DEF IInv
<1>2. IInv /\ [Next]_vars => IInv'
  BY TypesStep, SchedulesStep, ExclusionStep DEF IInv
<1> QED
  BY <1>1, <1>2, PTL DEF Spec

\* The rows, and what sessions and requests hold and have read of them, are of the
\* kinds that the code can produce; a row never has failed MaxRetries times.
THEOREM AutomationTypes == Spec => []TypeOK
<1>1. IInv => TypeOK
  BY DEF IInv
<1> QED
  BY <1>1, AutomationInvariance, PTL

\* An active automation that repeats keeps its next run however runs, retries,
\* aborted scans and edits overlap, each with its load apart from its commit, until a
\* commit is made on a copy that others have outdated.
THEOREM SchedulesSurvive == Spec => []ActiveIsScheduled
<1>1. IInv => ActiveIsScheduled
  BY DEF IInv
<1> QED
  BY <1>1, AutomationInvariance, PTL

\* The lock of a scan keeps off every run that has not committed since it began.
THEOREM ScansExclude == Spec => []ScanExcludes
<1>1. IInv => ScanExcludes
  BY DEF IInv, Exclusion
<1> QED
  BY <1>1, AutomationInvariance, PTL
=============================================================================
