------------------------------ MODULE Credits ------------------------------
(***************************************************************************)
(* The credit wallet of one user, app/services/credit_service.py, under    *)
(* the calls that reserve, settle and release its credits.                 *)
(*                                                                         *)
(* A transaction that has locked the wallet holds the lock until it        *)
(* commits, so what it does from then on is one step.  What it read before *)
(* without a lock is kept in the call: the reservation that a retry found  *)
(* (seen), the wallet that overview loaded (read).  A locking SELECT does  *)
(* not overwrite an object that the session has already loaded.            *)
(***************************************************************************)
EXTENDS Naturals, FiniteSetsExt

CONSTANTS
    Calls,          \* sessions that serve a call of this user
    Requests,       \* request ids, whose estimate does not change
    Estimate,       \* Estimate[r]: settings.credit_costs of its workload
    Plans,          \* plan codes
    Allowance,      \* Allowance[p]: settings.credit_*_monthly
    Bonus,          \* referral credits the wallet starts with
    Purchases,      \* orders at the payment provider
    Pack,           \* CreditProduct.credits
    MaxRenewals     \* a bound: cycles that end and plans that change

ASSUME CreditsAssumption ==
    /\ Estimate \in [Requests -> Nat]
    /\ Allowance \in [Plans -> Nat]
    /\ Bonus \in Nat
    /\ IsFiniteSet(Purchases)
    /\ Pack \in Nat
    /\ MaxRenewals \in Nat

VARIABLES
    plan,           \* plan_code(): the plan of the user's subscription
    wallet,         \* the row of credit_wallets
    reservation,    \* the rows of credit_reservations
    purchase,       \* the rows of credit_purchases
    payment,        \* what became of the payment at the provider
    handled,        \* the webhooks with a row in billing_events
    call,           \* what each session is doing
    renewals,       \* bound
    charges,        \* how often credits were taken for a request; its "usage"
                    \* row is in credit_ledger from the first time on
    lost,           \* history: what renewals and refunds took away
    late            \* history: purchases granted after a refund was handled

vars == <<plan, wallet, reservation, purchase, payment, handled, call,
          renewals, charges, lost, late>>

(***************************************************************************)
(* The routes that charge for an answer, and what tells them apart:        *)
(*   chat     POST /ceaser/chat                                            *)
(*   desktop  the same for a desktop voice command, which settles at once, *)
(*            with no commit since it looked for the reservation           *)
(*   stream   POST /ceaser/chat/stream, which accepts no retry             *)
(*   task     chat in the background, research, workflows                  *)
(*   client   the endpoints under /credits, one operation a call           *)
(***************************************************************************)
Answering == {"chat", "desktop", "stream", "task"}
Routes    == Answering \cup {"client"}

\* Who rolls the session back when settle fails, and so can release after it.
Recovering == {"chat", "desktop"}

Wallet == [plan : Plans, due : BOOLEAN, monthly : Nat, bonus : Nat,
           purchased : Nat, reserved : Nat]

\* The status of a reservation, "none" before there is one.  It is "overdue"
\* when the column says reserved and expires_at is past.
Statuses == {"none", "reserved", "overdue", "settled", "released"}

Events == {"payment.authorized", "payment.captured",
           "payment.refunded", "refund.processed"}

Idle == [at |-> "idle"]

Lesser(a, b)  == IF a <= b THEN a ELSE b
Without(a, b) == IF b <= a THEN a - b ELSE 0

Open == {r \in Requests : reservation[r] \in {"reserved", "overdue"}}

Init ==
    /\ plan \in Plans
    /\ wallet = [plan |-> plan, due |-> FALSE, monthly |-> Allowance[plan],
                 bonus |-> Bonus, purchased |-> 0, reserved |-> 0]
    /\ reservation = [r \in Requests |-> "none"]
    /\ purchase = [p \in Purchases |-> "none"]
    /\ payment = [p \in Purchases |-> "none"]
    /\ handled = [p \in Purchases |-> {}]
    /\ call = [c \in Calls |-> Idle]
    /\ renewals = 0
    /\ charges = [r \in Requests |-> 0]
    /\ lost = 0
    /\ late = {}

-----------------------------------------------------------------------------
\* The elif of wallet(): a cycle that ended, or another plan, starts afresh.
Renewed(w) ==
    IF w.due \/ w.plan # plan
    THEN [w EXCEPT !.plan = plan, !.due = FALSE, !.monthly = Allowance[plan]]
    ELSE w

\* What a renewal takes away: after a change to a smaller plan.
RenewalLoss == Without(wallet.monthly, Renewed(wallet).monthly)

Balance(w) == w.monthly + w.bonus + w.purchased

\* Defect: everything is taken of the monthly balance.
TakenFromMonthly(w, charge) ==
    [monthly |-> charge, bonus |-> 0, purchased |-> 0]

\* What settle takes of each balance, in the order of its loop.
Taken(w, charge) ==
    LET m == Lesser(w.monthly, charge)
        b == Lesser(w.bonus, charge - m)
        p == Lesser(w.purchased, charge - m - b)
    IN [monthly |-> m, bonus |-> b, purchased |-> p]

\* One ledger row for each balance; the unique key allows one for a request.
Split(t) ==
    Cardinality({k \in DOMAIN t : t[k] > 0}) > 1

Moves(c, to) == call' = [call EXCEPT ![c] = to]
At(c, place) == call[c].at = place

-----------------------------------------------------------------------------
\* _reuse_reservation, for a call that found r.  Every route but the desktop's
\* commits before it settles, which makes the session forget what it found.
Reuse(c, route, r) ==
    IF route \notin {"stream", "client"} /\ reservation[r] = "reserved"
    THEN Moves(c, [at |-> "working", route |-> route, request |-> r,
                   found |-> route = "desktop"])
    ELSE Moves(c, Idle)

\* reserve, lines 84-86: is there a reservation of this request id?
Find(c) ==
    /\ At(c, "idle")
    /\ \E route \in Routes, r \in Requests :
        IF reservation[r] = "none"
        THEN Moves(c, [at |-> "reserving", route |-> route, request |-> r])
        ELSE Reuse(c, route, r)
    /\ UNCHANGED <<plan, wallet, reservation, purchase, payment,
                   handled, renewals, charges, lost, late>>

\* Defect: credits that are held count as available.
AffordableUnheld(r) == Balance(wallet) >= Estimate[r]

\* The WHERE clause of the UPDATE.  It sees the row of the table: a renewal
\* is still pending in the session.
Affordable(r) == Balance(wallet) >= wallet.reserved + Estimate[r]

\* The wallet's lock, the UPDATE, the insertion and the commit.
Reserve(c) ==
    /\ At(c, "reserving")
    /\ LET r == call[c].request
           inserts == Affordable(r) /\ reservation[r] = "none"
       IN \/ /\ inserts
             /\ wallet' = [Renewed(wallet) EXCEPT !.reserved = @ + Estimate[r]]
             /\ lost' = lost + RenewalLoss
             /\ reservation' = [reservation EXCEPT ![r] = "reserved"]
             /\ Moves(c, IF call[c].route = "client" THEN Idle
                         ELSE [at |-> "working", route |-> call[c].route,
                               request |-> r, found |-> FALSE])
          \/ \* InsufficientCreditsError, or the duplicate of a concurrent call
             /\ ~ inserts
             /\ IF Affordable(r) THEN Reuse(c, call[c].route, r)
                                 ELSE Moves(c, Idle)
             /\ UNCHANGED <<wallet, reservation, lost>>
    /\ UNCHANGED <<plan, purchase, payment, handled, renewals, charges, late>>

-----------------------------------------------------------------------------
\* There is no answer: the routes roll back and release.
Fail(c) ==
    /\ At(c, "working")
    /\ Moves(c, [at |-> "releasing", request |-> call[c].request])
    /\ UNCHANGED <<plan, wallet, reservation, purchase, payment, handled,
                   renewals, charges, lost, late>>

\* POST /credits/settle and /credits/release, in a session of their own.
ClientCloses(c) ==
    /\ At(c, "idle")
    /\ \E r \in Requests :
        /\ reservation[r] # "none"
        /\ \/ Moves(c, [at |-> "working", route |-> "client", request |-> r,
                        found |-> FALSE])
           \/ Moves(c, [at |-> "releasing", request |-> r])
    /\ UNCHANGED <<plan, wallet, reservation, purchase, payment, handled,
                   renewals, charges, lost, late>>

\* settle finds the reservation under its lock, or, in a session that has
\* found it before, as it was then: reserved.
SeenOpen(c) == call[c].found \/ call[c].request \in Open

\* Defect: only what was charged is given free.
SettledWalletByCharge(w, r, t, charge) ==
    [w EXCEPT !.reserved = Without(@, charge),
              !.monthly = @ - t.monthly,
              !.bonus = @ - t.bonus,
              !.purchased = @ - t.purchased]

\* What settle leaves in the wallet: the whole estimate is given free.
SettledWallet(w, r, t, charge) ==
    [w EXCEPT !.reserved = Without(@, Estimate[r]),
              !.monthly = @ - t.monthly,
              !.bonus = @ - t.bonus,
              !.purchased = @ - t.purchased]

\* settle, committed, once the answer is there.
Settled(c, charge) ==
    LET r == call[c].request
        w == Renewed(wallet)
        t == Taken(w, charge)
    IN /\ wallet' = SettledWallet(w, r, t, charge)
       /\ lost' = lost + RenewalLoss
       /\ reservation' = [reservation EXCEPT ![r] = "settled"]
       /\ charges' = [charges EXCEPT ![r] =
                         IF t.monthly + t.bonus + t.purchased > 0 THEN @ + 1
                         ELSE @]
       /\ Moves(c, Idle)

\* Two rows with one key: the flush fails.  Some routes then release.
SettleFails(c) ==
    /\ Moves(c, IF call[c].route \in Recovering
                THEN [at |-> "releasing", request |-> call[c].request]
                ELSE Idle)
    /\ UNCHANGED <<wallet, lost, reservation, charges>>

\* The charge is the estimate, or nothing for an empty answer; a client may
\* name any amount.
Charges(c) ==
    LET e == Estimate[call[c].request]
    IN IF call[c].route = "client" THEN 0..e ELSE {0, e}

Settle(c) ==
    /\ At(c, "working")
    /\ IF ~ SeenOpen(c)
       THEN /\ Moves(c, Idle)
            /\ UNCHANGED <<wallet, lost, reservation, charges>>
       ELSE \E charge \in Charges(c) :
                IF /\ Split(Taken(Renewed(wallet), charge))
                   /\ charges[call[c].request] = 0
                THEN SettleFails(c)
                ELSE Settled(c, charge)
    /\ UNCHANGED <<plan, purchase, payment, handled, renewals, late>>

\* Defect: release does not look at the status.
ReleasableAny(r) == reservation[r] # "none"

Releasable(r) == r \in Open

Release(c) ==
    /\ At(c, "releasing")
    /\ LET r == call[c].request
       IN IF Releasable(r)
          THEN /\ wallet' = [Renewed(wallet) EXCEPT
                                !.reserved = Without(@, Estimate[r])]
               /\ lost' = lost + RenewalLoss
               /\ reservation' = [reservation EXCEPT ![r] = "released"]
          ELSE UNCHANGED <<wallet, lost, reservation>>
    /\ Moves(c, Idle)
    /\ UNCHANGED <<plan, purchase, payment, handled, renewals, charges, late>>

-----------------------------------------------------------------------------
\* overview reads the wallet without a lock ...
OverviewRead(c) ==
    /\ At(c, "idle")
    /\ wallet.due \/ wallet.plan # plan
    /\ Moves(c, [at |-> "renewing", plan |-> plan,
                 replan |-> wallet.plan # plan,
                 regrant |-> wallet.monthly # Allowance[plan]])
    /\ UNCHANGED <<plan, wallet, reservation, purchase, payment,
                   handled, renewals, charges, lost, late>>

\* ... and commits the columns that it changed, or fails because another
\* session inserts the same ledger row.
OverviewCommit(c) ==
    /\ At(c, "renewing")
    /\ LET o == call[c]
           new == [wallet EXCEPT
                    !.plan = IF o.replan THEN o.plan ELSE @,
                    !.due = FALSE,
                    !.monthly = IF o.regrant THEN Allowance[o.plan] ELSE @]
       IN \/ /\ wallet' = new
             /\ lost' = lost + Without(wallet.monthly, new.monthly)
          \/ UNCHANGED <<wallet, lost>>
    /\ Moves(c, Idle)
    /\ UNCHANGED <<plan, reservation, purchase, payment, handled,
                   renewals, charges, late>>

-----------------------------------------------------------------------------
CreatePurchase(p) ==
    /\ purchase[p] = "none"
    /\ purchase' = [purchase EXCEPT ![p] = "created"]
    /\ UNCHANGED <<plan, wallet, reservation, payment, handled, call,
                   renewals, charges, lost, late>>

\* The provider: the user pays, the payment is given back.
Pay(p) ==
    /\ purchase[p] = "created" /\ payment[p] = "none"
    /\ payment' = [payment EXCEPT ![p] = "captured"]
    /\ UNCHANGED <<plan, wallet, reservation, purchase, handled, call,
                   renewals, charges, lost, late>>

GiveBack(p) ==
    /\ payment[p] = "captured"
    /\ payment' = [payment EXCEPT ![p] = "refunded"]
    /\ UNCHANGED <<plan, wallet, reservation, purchase, handled, call,
                   renewals, charges, lost, late>>

RefundEvents == {"payment.refunded", "refund.processed"}

\* An event that reports the refund of p has been handled.
Refunded(p) == handled[p] \cap RefundEvents # {}

\* Defect: nobody asks whether the purchase was completed before.
GrantableAgain(p) == TRUE

Grantable(p) == purchase[p] # "completed"

\* _complete_purchase: only "completed" stops it, so that it also grants the
\* pack of a purchase whose refund was handled before.
CompletePurchase(p) ==
    IF Grantable(p)
    THEN /\ wallet' = [Renewed(wallet) EXCEPT !.purchased = @ + Pack]
         /\ lost' = lost + RenewalLoss
         /\ purchase' = [purchase EXCEPT ![p] = "completed"]
         /\ late' = IF Refunded(p) THEN late \cup {p} ELSE late
    ELSE UNCHANGED <<wallet, lost, purchase, late>>

\* verify_purchase, for a payment that the provider reports as captured.
VerifyPurchase(p) ==
    /\ purchase[p] # "none" /\ payment[p] = "captured"
    /\ CompletePurchase(p)
    /\ UNCHANGED <<plan, reservation, payment, handled, call, renewals,
                   charges>>

\* The refund branch of apply_payment_webhook.
Reverse(p) ==
    IF purchase[p] = "completed"
    THEN LET reversal == Lesser(wallet.purchased, Pack)
         IN /\ wallet' = [Renewed(wallet) EXCEPT !.purchased = @ - reversal]
            /\ lost' = lost + RenewalLoss + reversal
            /\ purchase' = [purchase EXCEPT ![p] = "refunded"]
            /\ UNCHANGED late
    ELSE UNCHANGED <<wallet, lost, purchase, late>>

\* process_webhook: events arrive in any order and more than once; the row of
\* billing_events is committed with what the event changes.
Webhook(p, e) ==
    /\ payment[p] # "none" /\ e \notin handled[p]
    /\ e \in RefundEvents => payment[p] = "refunded"
    /\ handled' = [handled EXCEPT ![p] = @ \cup {e}]
    /\ IF e \in RefundEvents
       THEN Reverse(p)
       ELSE CompletePurchase(p)
    /\ UNCHANGED <<plan, reservation, payment, call, renewals, charges>>

-----------------------------------------------------------------------------
\* Time and the subscription.
CycleEnds ==
    /\ ~ wallet.due /\ renewals < MaxRenewals
    /\ wallet' = [wallet EXCEPT !.due = TRUE]
    /\ renewals' = renewals + 1
    /\ UNCHANGED <<plan, reservation, purchase, payment, handled, call,
                   charges, lost, late>>

PlanChanges ==
    /\ renewals < MaxRenewals
    /\ \E q \in Plans \ {plan} : plan' = q
    /\ renewals' = renewals + 1
    /\ UNCHANGED <<wallet, reservation, purchase, payment, handled,
                   call, charges, lost, late>>

\* Thirty minutes pass.
Expire(r) ==
    /\ reservation[r] = "reserved"
    /\ reservation' = [reservation EXCEPT ![r] = "overdue"]
    /\ UNCHANGED <<plan, wallet, purchase, payment, handled, call, renewals,
                   charges, lost, late>>

Serve(c) == \/ Find(c) \/ Reserve(c) \/ Fail(c) \/ ClientCloses(c)
            \/ Settle(c) \/ Release(c) \/ OverviewRead(c) \/ OverviewCommit(c)

Shop(p) == \/ CreatePurchase(p) \/ Pay(p) \/ GiveBack(p) \/ VerifyPurchase(p)
           \/ \E e \in Events : Webhook(p, e)

Next == \/ \E c \in Calls : Serve(c)
        \/ \E p \in Purchases : Shop(p)
        \/ CycleEnds \/ PlanChanges
        \/ \E r \in Requests : Expire(r)

Spec == Init /\ [][Next]_vars

-----------------------------------------------------------------------------
CallType ==
    [at : {"idle"}]
    \cup [at : {"reserving"}, route : Routes, request : Requests]
    \cup [at : {"working"}, route : Routes, request : Requests,
          found : BOOLEAN]
    \cup [at : {"releasing"}, request : Requests]
    \cup [at : {"renewing"}, plan : Plans, replan : BOOLEAN, regrant : BOOLEAN]

\* No balance is ever negative, whatever is subtracted from it.
TypeOK ==
    /\ plan \in Plans
    /\ wallet \in Wallet
    /\ reservation \in [Requests -> Statuses]
    /\ purchase \in [Purchases -> {"none", "created", "completed", "refunded"}]
    /\ payment \in [Purchases -> {"none", "captured", "refunded"}]
    /\ handled \in [Purchases -> SUBSET Events]
    /\ call \in [Calls -> CallType]
    /\ renewals \in Nat
    /\ charges \in [Requests -> Nat]
    /\ lost \in Nat
    /\ late \subseteq Purchases

(***************************************************************************)
(* Concurrent reservations cannot promise more credits than there are: the *)
(* credits held exceed the balances at most by what a change to a smaller  *)
(* plan, an overview or a refund took away afterwards (the WHERE of        *)
(* reserve, lines 89-94, against every other writer of the wallet).        *)
(***************************************************************************)
NoOverspend == wallet.reserved <= Balance(wallet) + lost

(***************************************************************************)
(* Credits are held for open reservations only: what reserve adds to       *)
(* reserved_balance is taken off again by whatever closes the reservation, *)
(* no matter how much was charged (lines 130 and 155).                     *)
(***************************************************************************)
HeldForOpen ==
    wallet.reserved <= MapThenSumSet(LAMBDA r : Estimate[r], Open)

(***************************************************************************)
(* A request that credits were taken for is settled and stays so: a        *)
(* charge is not handed back by a release that comes late (lines 124-127   *)
(* and 152-153).                                                           *)
(***************************************************************************)
ChargeIsSettled ==
    \A r \in Requests : charges[r] > 0 => reservation[r] = "settled"

(***************************************************************************)
(* Every pack in the wallet is that of another completed purchase, granted *)
(* once however the verification, the repeated and the crossed webhooks    *)
(* interleave; and a refund takes its pack back, where it was not spent,   *)
(* even when its two events arrive around the grant (lines 239-279).  The  *)
(* code has one exception, and it is named here: a purchase granted after  *)
(* its refund was handled keeps the pack.                                  *)
(***************************************************************************)
PurchasedIsPaid ==
    wallet.purchased
        <= Pack * Cardinality({p \in Purchases :
                                  /\ purchase[p] = "completed"
                                  /\ Refunded(p) => p \in late})

(***************************************************************************)
(* The same without the exception: whoever was refunded has no pack left.  *)
(* The code does not keep this: _complete_purchase stops at "completed"    *)
(* only, so that an authorized or captured event grants the pack again, or *)
(* for the first time, after the refund.                                   *)
(***************************************************************************)
RefundsStick ==
    wallet.purchased
        <= Pack * Cardinality({p \in Purchases :
                                  purchase[p] = "completed" /\ ~ Refunded(p)})

(***************************************************************************)
(* Credits are taken for a request at most once.  The code does not keep   *)
(* this: a retry of a desktop command that found the reservation open      *)
(* charges again after the first call has settled it.                      *)
(***************************************************************************)
ChargedOnce == \A r \in Requests : charges[r] <= 1

(***************************************************************************)
(* When a stream has ended, its reservation is closed.  The code does not  *)
(* keep this: a charge that needs two balances writes two ledger rows with *)
(* one key, the settlement is rolled back and the credits stay held.       *)
(***************************************************************************)
EndedStream(c) ==
    At(c, "working") /\ call[c].route = "stream" /\ call'[c].at = "idle"

StreamsClose ==
    [][\A c \in Calls : EndedStream(c) => call[c].request \notin Open']_vars
=============================================================================
