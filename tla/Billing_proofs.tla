---------------------------- MODULE Billing_proofs ----------------------------
(***************************************************************************)
(* Proofs about Billing, for every number of concurrent requests, states,  *)
(* renewals, webhooks and faults.                                          *)
(***************************************************************************)
EXTENDS Billing, TLAPS

Work == [op : {"none", "create", "verify", "cancel", "resume", "webhook"},
         at : {"idle", "load", "call", "flush", "commit"},
         payload : Payload \cup {NoRow},
         view : Row \cup {NoRow},
         key : Keys \cup {NoKey}]

\* What a request holds at the step that it has reached.
Reached(w) ==
    /\ w.at \in {"flush", "commit"} /\ w.op \in {"verify", "cancel", "resume", "webhook"}
          => w.payload \in Payload
    /\ w.at = "load" => w.payload \in Payload
    /\ w.at = "call" => w.op \in {"cancel", "resume"} /\ w.view \in Row
    /\ w.at = "commit" /\ w.op \in {"verify", "cancel", "resume"} => w.view \in Row
    /\ w.at = "flush" => w.op = "webhook" /\ w.key \in Keys
    /\ w.at = "commit" /\ w.op = "webhook" => w.key \in Keys

Types ==
    /\ remote \in [exists : BOOLEAN, status : Statuses, period : 0..MaxCycle, ending : BOOLEAN]
    /\ sent \in SUBSET [key : Keys, payload : Payload]
    /\ row \in Row \cup {NoRow}
    /\ events \in SUBSET Keys
    /\ inserted \in [Requests -> Keys \cup {NoKey}]
    /\ work \in [Requests -> Work]
    /\ applied \in [Keys -> Nat]
    /\ \A q \in Requests : Reached(work[q])

\* The flushed keys are new and of one request each; a commit has flushed its key.
Flushed ==
    /\ \A q \in Requests : inserted[q] # NoKey => inserted[q] \notin events
    /\ \A p, q \in Requests : inserted[p] = inserted[q] /\ p # q => inserted[p] = NoKey
    /\ \A q \in Requests :
          work[q].op = "webhook" /\ work[q].at = "commit" => inserted[q] = work[q].key

\* An event is recorded with the transaction that applies it.
Recorded == \A k \in Keys : applied[k] = IF k \in events THEN 1 ELSE 0

\* There is one creation, and no row before it commits.
CreatedOnce ==
    /\ row # NoRow => remote.exists
    /\ \A q \in Requests : work[q].op = "create" => row = NoRow /\ remote.exists
    /\ \A p, q \in Requests : work[p].op = "create" /\ work[q].op = "create" => p = q

\* Who has read a row finds one at its commit: none is ever deleted.
Read == \A q \in Requests : work[q].view # NoRow => row # NoRow

Ledger == Flushed /\ Recorded
Births == CreatedOnce /\ Read

IInv == Types /\ Ledger /\ Births

USE BillingAssumption

-----------------------------------------------------------------------------
(* What a commit writes.                                                   *)

\* What the provider sends of a subscription is a payload.
LEMMA PayloadsTyped ==
    ASSUME NEW r \in [exists : BOOLEAN, status : Statuses, period : 0..MaxCycle, ending : BOOLEAN]
    PROVE  PayloadsOf(r) \subseteq Payload
<1>1. \A t \in {FALSE, r.ending} :
         [status |-> r.status, period |-> r.period, told |-> t] \in Payload
  BY DEF Payload
<1> QED
  BY <1>1 DEF PayloadsOf

\* The columns that a session has changed are written over the row, and only a
\* resume clears cancel_at_period_end.
LEMMA WrittenTyped ==
    ASSUME row \in Row, NEW w \in Work, w.payload \in Payload, w.view \in Row,
           NEW new, new = Written(w.view, Assigned(w))
    PROVE  /\ new \in Row
           /\ w.op # "resume" /\ row.ending => new.ending
<1> DEFINE to == Assigned(w)
<1>1. ApplySubscriptionPayload(w.view, w.payload) \in Row
      /\ (w.view.ending => ApplySubscriptionPayload(w.view, w.payload).ending)
  BY DEF ApplySubscriptionPayload, Row, Payload
<1>2. to \in Row
  BY <1>1 DEF Assigned, Row
<1>3. w.op # "resume" /\ w.view.ending => to.ending
  BY <1>1 DEF Assigned, Row
<1>4. new = [c \in DOMAIN to |-> IF to[c] # w.view[c] THEN to[c] ELSE row[c]]
  BY DEF Written
<1> HIDE DEF to
<1>5. DOMAIN to = {"status", "period", "ending"}
  BY <1>2 DEF Row
<1>6. /\ new = [status |-> IF to.status # w.view.status THEN to.status ELSE row.status,
                period |-> IF to.period # w.view.period THEN to.period ELSE row.period,
                ending |-> IF to.ending # w.view.ending THEN to.ending ELSE row.ending]
  BY <1>4, <1>5
<1>7. new \in Row
  BY <1>2, <1>6 DEF Row
<1>8. new.ending = IF to.ending # w.view.ending THEN to.ending ELSE row.ending
  BY <1>6
<1>9. to.ending \in BOOLEAN /\ w.view.ending \in BOOLEAN
  BY <1>2 DEF Row
<1> QED
  BY <1>3, <1>7, <1>8, <1>9

\* The same of the commit of a request on the state that it finds.
LEMMA CommitWrites ==
    ASSUME Types, Births, NEW q \in Requests,
           work[q].at = "commit", work[q].op \in {"verify", "cancel", "resume", "webhook"},
           work[q].view # NoRow,
           row' = Written(work[q].view, Assigned(work[q]))
    PROVE  /\ row' \in Row /\ row \in Row
           /\ work[q].op # "resume" /\ row.ending => row'.ending
<1>1. work[q] \in Work /\ row \in Row /\ work[q].payload \in Payload
  BY DEF Types, Births, Read, Reached
<1>2. work[q].view \in Row
  BY <1>1 DEF Work
<1> QED
  BY <1>1, <1>2, WrittenTyped

-----------------------------------------------------------------------------
(* The steps.                                                              *)

\* A transaction that has flushed an event holds its key alone, and what has been
\* applied is recorded.
LEMMA FlushedStep ==
    ASSUME IInv, [Next]_vars
    PROVE  Ledger'
<1> USE DEF IInv, Types, Flushed, Recorded, Ledger, Idle, Work
<1>1. ASSUME NEW status \in Statuses, RemoteChanges(status)
      PROVE  Ledger'
  BY <1>1 DEF RemoteChanges, Emits, EventId
<1>2. ASSUME RemoteRenews
      PROVE  Ledger'
  BY <1>2 DEF RemoteRenews, Emits, EventId
<1>3. ASSUME Redelivered
      PROVE  Ledger'
  BY <1>3 DEF Redelivered, Emits, EventId
<1>4. ASSUME NEW q \in Requests, CreateRemote(q)
      PROVE  Ledger'
  BY <1>4 DEF CreateRemote, MayInsert
<1>5. ASSUME NEW q \in Requests, CreateCommit(q)
      PROVE  Ledger'
  BY <1>5 DEF CreateCommit, MayInsert
<1>6. ASSUME NEW q \in Requests, VerifyFetch(q)
      PROVE  Ledger'
  BY <1>6 DEF VerifyFetch, MayInsert
<1>7. ASSUME NEW q \in Requests, VerifyLoad(q)
      PROVE  Ledger'
  BY <1>7 DEF VerifyLoad, MayInsert
<1>8. ASSUME NEW q \in Requests, ManageLoad(q)
      PROVE  Ledger'
  BY <1>8 DEF ManageLoad, MayInsert
<1>9. ASSUME NEW q \in Requests, ManageCall(q)
      PROVE  Ledger'
  <2>1. PICK p \in PayloadsOf(remote') :
           work' = [work EXCEPT ![q] = [@ EXCEPT !.at = "commit", !.payload = p]]
    BY <1>9 DEF ManageCall
  <2>2. work[q].at = "call" /\ UNCHANGED <<events, inserted, applied>>
    BY <1>9 DEF ManageCall
  <2>3. work[q].op \in {"cancel", "resume"}
    BY <2>2 DEF Reached
  <2>4. work'[q].op = work[q].op /\ \A p1 \in Requests \ {q} : work'[p1] = work[p1]
    BY <2>1
  <2> QED
    BY <2>2, <2>3, <2>4
<1>10. ASSUME NEW q \in Requests, RequestCommit(q)
      PROVE  Ledger'
  BY <1>10 DEF RequestCommit, MayInsert
<1>11. ASSUME NEW q \in Requests, WebhookLook(q)
      PROVE  Ledger'
  <2>1. PICK e \in sent :
           IF e.key \in events
           THEN work' = work
           ELSE work' = [work EXCEPT ![q] =
                    [Idle EXCEPT !.op = "webhook", !.at = "flush",
                                 !.payload = e.payload, !.key = e.key]]
    BY <1>11 DEF WebhookLook
  <2>2. UNCHANGED <<remote, row, events, inserted, applied>>
    BY <1>11 DEF WebhookLook
  <2>3. CASE e.key \in events
    BY <2>1, <2>2, <2>3
  <2>4. CASE e.key \notin events
    <3> DEFINE new == [Idle EXCEPT !.op = "webhook", !.at = "flush",
                                   !.payload = e.payload, !.key = e.key]
    <3>1. new.op = "webhook" /\ new.at = "flush" /\ new.view = NoRow
      OBVIOUS
    <3>2. work' = [work EXCEPT ![q] = new]
      BY <2>1, <2>4
    <3> HIDE DEF new
    <3> QED
      BY <2>2, <3>1, <3>2
  <2> QED
    BY <2>3, <2>4
<1>12. ASSUME NEW q \in Requests, WebhookFlush(q)
      PROVE  Ledger'
  BY <1>12 DEF WebhookFlush, MayInsert
<1>13. ASSUME NEW q \in Requests, WebhookRefused(q)
      PROVE  Ledger'
  BY <1>13 DEF WebhookRefused, MayInsert
<1>14. ASSUME NEW q \in Requests, WebhookCommit(q)
      PROVE  Ledger'
  BY <1>14 DEF WebhookCommit, MayInsert
<1>15. ASSUME NEW q \in Requests, Dies(q)
      PROVE  Ledger'
  BY <1>15 DEF Dies, MayInsert
<1>16. CASE UNCHANGED vars
  BY <1>16 DEF vars
<1> HIDE DEF IInv, Types, Flushed, Recorded, Ledger, Idle, Work
<1> QED
  BY <1>1, <1>2, <1>3, <1>4, <1>5, <1>6, <1>7, <1>8, <1>9, <1>10, <1>11, <1>12, <1>13, <1>14, <1>15, <1>16 DEF Next

\* A row exists since the commit that created it, and only such rows are read.
LEMMA RowsStep ==
    ASSUME IInv, [Next]_vars
    PROVE  Births'
<1> USE DEF IInv, Types, CreatedOnce, Read, Births, Idle, Work
<1>1. ASSUME NEW status \in Statuses, RemoteChanges(status)
      PROVE  Births'
  BY <1>1 DEF RemoteChanges, Emits, EventId
<1>2. ASSUME RemoteRenews
      PROVE  Births'
  BY <1>2 DEF RemoteRenews, Emits, EventId
<1>3. ASSUME Redelivered
      PROVE  Births'
  BY <1>3 DEF Redelivered, Emits, EventId
<1>4. ASSUME NEW q \in Requests, CreateRemote(q)
      PROVE  Births'
  BY <1>4 DEF CreateRemote, MayInsert
<1>5. ASSUME NEW q \in Requests, CreateCommit(q)
      PROVE  Births'
  BY <1>5 DEF CreateCommit, MayInsert
<1>6. ASSUME NEW q \in Requests, VerifyFetch(q)
      PROVE  Births'
  BY <1>6 DEF VerifyFetch, MayInsert
<1>7. ASSUME NEW q \in Requests, VerifyLoad(q)
      PROVE  Births'
  BY <1>7 DEF VerifyLoad, MayInsert
<1>8. ASSUME NEW q \in Requests, ManageLoad(q)
      PROVE  Births'
  BY <1>8 DEF ManageLoad, MayInsert
<1>9. ASSUME NEW q \in Requests, ManageCall(q)
      PROVE  Births'
  BY <1>9 DEF ManageCall, MayInsert
<1>10. ASSUME NEW q \in Requests, RequestCommit(q)
      PROVE  Births'
  <2>1. work[q].view \in Row
    BY <1>10 DEF RequestCommit, Reached
  <2>2. row' \in Row /\ row \in Row
    BY <1>10, <2>1, CommitWrites DEF RequestCommit
  <2>3. work' = [work EXCEPT ![q] = Idle] /\ remote' = remote
    BY <1>10 DEF RequestCommit
  <2> QED
    BY <2>2, <2>3
<1>11. ASSUME NEW q \in Requests, WebhookLook(q)
      PROVE  Births'
  <2>1. PICK e \in sent :
           IF e.key \in events
           THEN work' = work
           ELSE work' = [work EXCEPT ![q] =
                    [Idle EXCEPT !.op = "webhook", !.at = "flush",
                                 !.payload = e.payload, !.key = e.key]]
    BY <1>11 DEF WebhookLook
  <2>2. UNCHANGED <<remote, row, events, inserted, applied>>
    BY <1>11 DEF WebhookLook
  <2>3. CASE e.key \in events
    BY <2>1, <2>2, <2>3
  <2>4. CASE e.key \notin events
    <3> DEFINE new == [Idle EXCEPT !.op = "webhook", !.at = "flush",
                                   !.payload = e.payload, !.key = e.key]
    <3>1. new.op = "webhook" /\ new.at = "flush" /\ new.view = NoRow
      OBVIOUS
    <3>2. work' = [work EXCEPT ![q] = new]
      BY <2>1, <2>4
    <3> HIDE DEF new
    <3> QED
      BY <2>2, <3>1, <3>2
  <2> QED
    BY <2>3, <2>4
<1>12. ASSUME NEW q \in Requests, WebhookFlush(q)
      PROVE  Births'
  BY <1>12 DEF WebhookFlush, MayInsert
<1>13. ASSUME NEW q \in Requests, WebhookRefused(q)
      PROVE  Births'
  BY <1>13 DEF WebhookRefused, MayInsert
<1>14. ASSUME NEW q \in Requests, WebhookCommit(q)
      PROVE  Births'
  <2>1. work' = [work EXCEPT ![q] = Idle] /\ remote' = remote
    BY <1>14 DEF WebhookCommit
  <2>2. row' = row \/ (row \in Row /\ row' \in Row)
    BY <1>14, CommitWrites DEF WebhookCommit
  <2> QED
    BY <2>1, <2>2
<1>15. ASSUME NEW q \in Requests, Dies(q)
      PROVE  Births'
  BY <1>15 DEF Dies, MayInsert
<1>16. CASE UNCHANGED vars
  BY <1>16 DEF vars
<1> HIDE DEF IInv, Types, CreatedOnce, Read, Births, Idle, Work
<1> QED
  BY <1>1, <1>2, <1>3, <1>4, <1>5, <1>6, <1>7, <1>8, <1>9, <1>10, <1>11, <1>12, <1>13, <1>14, <1>15, <1>16 DEF Next

\* Every step keeps the types.
LEMMA TypesStep ==
    ASSUME IInv, [Next]_vars
    PROVE  Types'
<1> USE DEF Types
<1> DEFINE Remote == [exists : BOOLEAN, status : Statuses, period : 0..MaxCycle, ending : BOOLEAN]
           Sent == SUBSET [key : Keys, payload : Payload]
<1>0. Types /\ Births
  BY DEF IInv
<1> Idle \in Work /\ Reached(Idle)
  BY DEF Idle, Work, Reached
<1>1. ASSUME remote' \in Remote, NEW type \in Keys, Emits(type, remote')
      PROVE  sent' \in Sent
  BY <1>0, <1>1, PayloadsTyped DEF Emits, EventId
<1>2. ASSUME NEW status \in Statuses, RemoteChanges(status)
      PROVE  Types'
  <2>1. remote' \in Remote
    BY <1>0, <1>2 DEF RemoteChanges
  <2>2. sent' \in Sent
    BY <1>1, <1>2, <2>1 DEF RemoteChanges, Keys
  <2> QED
    BY <1>0, <1>2, <2>1, <2>2 DEF RemoteChanges
<1>3. ASSUME RemoteRenews
      PROVE  Types'
  <2>1. remote' \in Remote
    BY <1>0, <1>3 DEF RemoteRenews
  <2>2. sent' \in Sent
    BY <1>1, <1>3, <2>1 DEF RemoteRenews, Keys
  <2> QED
    BY <1>0, <1>3, <2>1, <2>2 DEF RemoteRenews
<1>4. ASSUME Redelivered
      PROVE  Types'
  <2>1. PICK key \in events : Emits(key, remote)
    BY <1>4 DEF Redelivered
  <2>2. sent' \in Sent
    BY <1>0, <2>1, PayloadsTyped DEF Emits, EventId
  <2> QED
    BY <1>0, <1>4, <2>2 DEF Redelivered
\* A request takes a step of its own.
<1>5. ASSUME NEW q \in Requests, NEW w \in Work, Reached(w), work' = [work EXCEPT ![q] = w]
      PROVE  /\ work' \in [Requests -> Work]
             /\ \A r \in Requests : Reached(work'[r])
  BY <1>0, <1>5
<1>6. ASSUME NEW q \in Requests, CreateRemote(q)
      PROVE  Types'
  <2>1. [Idle EXCEPT !.op = "create", !.at = "commit"] \in Work
        /\ Reached([Idle EXCEPT !.op = "create", !.at = "commit"])
    BY DEF Idle, Work, Reached
  <2> QED
    BY <1>0, <1>5, <1>6, <2>1 DEF CreateRemote
<1>7. ASSUME NEW q \in Requests, CreateCommit(q)
      PROVE  Types'
  BY <1>0, <1>5, <1>7 DEF CreateCommit, Row
<1>8. ASSUME NEW q \in Requests, VerifyFetch(q)
      PROVE  Types'
  <2>1. PICK p \in PayloadsOf(remote) :
           work' = [work EXCEPT ![q] = [Idle EXCEPT !.op = "verify", !.at = "load", !.payload = p]]
    BY <1>8 DEF VerifyFetch
  <2>2. p \in Payload
    BY <1>0, PayloadsTyped
  <2>3. [Idle EXCEPT !.op = "verify", !.at = "load", !.payload = p] \in Work
        /\ Reached([Idle EXCEPT !.op = "verify", !.at = "load", !.payload = p])
    BY <2>2 DEF Idle, Work, Reached
  <2> QED
    BY <1>0, <1>5, <1>8, <2>1, <2>3 DEF VerifyFetch
<1>9. ASSUME NEW q \in Requests, VerifyLoad(q)
      PROVE  Types'
  <2>1. CASE row = NoRow
    BY <1>0, <1>5, <1>9, <2>1 DEF VerifyLoad
  <2>2. CASE row # NoRow
    <3>1. [work[q] EXCEPT !.at = "commit", !.view = row] \in Work
          /\ Reached([work[q] EXCEPT !.at = "commit", !.view = row])
      BY <1>0, <1>9, <2>2 DEF VerifyLoad, Work, Reached
    <3> QED
      BY <1>0, <1>5, <1>9, <2>2, <3>1 DEF VerifyLoad
  <2> QED
    BY <2>1, <2>2
<1>10. ASSUME NEW q \in Requests, ManageLoad(q)
       PROVE  Types'
  <2>1. PICK op \in {"cancel", "resume"} :
           work' = [work EXCEPT ![q] = [Idle EXCEPT !.op = op, !.at = "call", !.view = row]]
    BY <1>10 DEF ManageLoad
  <2>2. [Idle EXCEPT !.op = op, !.at = "call", !.view = row] \in Work
        /\ Reached([Idle EXCEPT !.op = op, !.at = "call", !.view = row])
    BY <1>0, <1>10 DEF ManageLoad, Idle, Work, Reached
  <2> QED
    BY <1>0, <1>5, <1>10, <2>1, <2>2 DEF ManageLoad
<1>11. ASSUME NEW q \in Requests, ManageCall(q)
       PROVE  Types'
  <2>1. PICK p \in PayloadsOf(remote') :
           work' = [work EXCEPT ![q] = [@ EXCEPT !.at = "commit", !.payload = p]]
    BY <1>11 DEF ManageCall
  <2>2. remote' \in Remote
    BY <1>0, <1>11 DEF ManageCall
  <2>3. p \in Payload
    BY <2>2, PayloadsTyped
  <2>4. [work[q] EXCEPT !.at = "commit", !.payload = p] \in Work
        /\ Reached([work[q] EXCEPT !.at = "commit", !.payload = p])
    BY <1>0, <1>11, <2>3 DEF ManageCall, Work, Reached
  <2> QED
    BY <1>0, <1>5, <1>11, <2>1, <2>2, <2>4 DEF ManageCall
<1>12. ASSUME NEW q \in Requests, RequestCommit(q)
       PROVE  Types'
  <2>1. work[q].view \in Row
    BY <1>0, <1>12 DEF RequestCommit, Reached
  <2>2. row' \in Row
    BY <1>0, <1>12, <2>1, CommitWrites DEF RequestCommit
  <2> QED
    BY <1>0, <1>5, <1>12, <2>2 DEF RequestCommit
<1>13. ASSUME NEW q \in Requests, WebhookLook(q)
       PROVE  Types'
  <2>1. PICK e \in sent :
          IF e.key \in events
          THEN sent' = sent \ {e} /\ UNCHANGED work
          ELSE /\ work' = [work EXCEPT ![q] =
                    [Idle EXCEPT !.op = "webhook", !.at = "flush",
                                 !.payload = e.payload, !.key = e.key]]
               /\ UNCHANGED sent
    BY <1>13 DEF WebhookLook
  <2>2. e.payload \in Payload /\ e.key \in Keys
    BY <1>0
  <2> DEFINE new == [Idle EXCEPT !.op = "webhook", !.at = "flush",
                                 !.payload = e.payload, !.key = e.key]
  <2>3. new \in Work /\ Reached(new)
    BY <2>2 DEF Idle, Work, Reached
  <2> HIDE DEF new
  <2>4. CASE e.key \in events
    BY <1>0, <1>13, <2>1, <2>4 DEF WebhookLook
  <2>5. CASE e.key \notin events
    <3>1. work' = [work EXCEPT ![q] = new] /\ sent' = sent
      BY <2>1, <2>5 DEF new
    <3> QED
      BY <1>0, <1>5, <1>13, <2>3, <3>1 DEF WebhookLook
  <2> QED
    BY <2>4, <2>5
<1>14. ASSUME NEW q \in Requests, WebhookFlush(q)
       PROVE  Types'
  <2>1. [work[q] EXCEPT !.at = "commit", !.view = row] \in Work
        /\ Reached([work[q] EXCEPT !.at = "commit", !.view = row])
    BY <1>0, <1>14 DEF WebhookFlush, Work, Reached
  <2>2. work[q].key \in Keys
    BY <1>0, <1>14 DEF WebhookFlush, Reached
  <2> QED
    BY <1>0, <1>5, <1>14, <2>1, <2>2 DEF WebhookFlush
<1>15. ASSUME NEW q \in Requests, WebhookRefused(q)
       PROVE  Types'
  BY <1>0, <1>5, <1>15 DEF WebhookRefused
<1>16. ASSUME NEW q \in Requests, WebhookCommit(q)
       PROVE  Types'
  <2>1. work[q].key \in Keys
    BY <1>0, <1>16 DEF WebhookCommit, Reached
  <2>2. row' \in Row \cup {NoRow}
    BY <1>0, <1>16, CommitWrites DEF WebhookCommit
  <2> QED
    BY <1>0, <1>5, <1>16, <2>1, <2>2 DEF WebhookCommit
<1>17. ASSUME NEW q \in Requests, Dies(q)
       PROVE  Types'
  BY <1>0, <1>5, <1>17 DEF Dies
<1>18. CASE UNCHANGED vars
  BY <1>0, <1>18 DEF vars
<1> HIDE DEF Types
<1> QED
  BY <1>2, <1>3, <1>4, <1>6, <1>7, <1>8, <1>9, <1>10, <1>11, <1>12, <1>13, <1>14, <1>15,
     <1>16, <1>17, <1>18 DEF Next

\* Only the commit of a resume clears cancel_at_period_end of a row.
LEMMA TakesBackStep ==
    ASSUME IInv, [Next]_vars, TakesBack
    PROVE  \E q \in Requests : Resumes(q)
<1>1. row # NoRow /\ row.ending /\ ~ row'.ending
  BY DEF TakesBack
<1>2. row' # row
  BY <1>1
<1>3. ~ UNCHANGED vars
  BY <1>2 DEF vars
<1>4. ASSUME NEW q \in Requests, CreateCommit(q)
      PROVE  FALSE
  BY <1>1, <1>4 DEF CreateCommit, IInv, Births, CreatedOnce
<1>5. ASSUME NEW q \in Requests, RequestCommit(q)
      PROVE  Resumes(q)
  <2>1. work[q].view # NoRow
    BY <1>5 DEF RequestCommit, IInv, Types, Reached
  <2>2. work[q].op = "resume"
    BY <1>1, <1>5, <2>1, CommitWrites DEF RequestCommit, IInv
  <2> QED
    BY <1>5, <2>2 DEF RequestCommit, Resumes, IInv, Types
<1>6. ASSUME NEW q \in Requests, WebhookCommit(q)
      PROVE  FALSE
  <2>1. row' = row \/ work[q].op = "resume"
    BY <1>1, <1>6, CommitWrites DEF WebhookCommit, IInv
  <2> QED
    BY <1>2, <1>6, <2>1 DEF WebhookCommit
<1> QED
  BY <1>2, <1>3, <1>4, <1>5, <1>6
  DEF Next, RemoteChanges, RemoteRenews, Redelivered, CreateRemote, VerifyFetch, VerifyLoad,
      ManageLoad, ManageCall, WebhookLook, WebhookFlush, WebhookRefused, Dies

-----------------------------------------------------------------------------

\* The invariant of all that follows: types, the record of webhook events with the
\* transactions under way, and the birth of the subscription's row.
THEOREM BillingInvariance == Spec => []IInv
<1>1. Init => IInv
  BY DEF Init, IInv, Types, Reached, Ledger, Flushed, Recorded, Births, CreatedOnce, Read,
         Idle, Work
<1>2. IInv /\ [Next]_vars => IInv'
  BY TypesStep, FlushedStep, RowsStep DEF IInv
<1> QED
  BY <1>1, <1>2, PTL DEF Spec

\* However deliveries of a webhook overlap and repeat, its payload is applied by
\* one transaction at most (process_webhook).
THEOREM EventsApplyOnce == Spec => []AppliedOnce
<1>1. IInv => AppliedOnce
  BY DEF IInv, Ledger, Recorded, AppliedOnce
<1> QED
  BY <1>1, BillingInvariance, PTL

\* No webhook or verification takes a cancellation back (_apply_subscription_payload
\* and the columns that a commit writes).
THEOREM CancellationsStick == Spec => CancelSticks
<1>1. IInv /\ [Next]_vars => [TakesBack => \E q \in Requests : Resumes(q)]_vars
  BY TakesBackStep
<1> QED
  BY <1>1, BillingInvariance, PTL DEF Spec, CancelSticks
=============================================================================
