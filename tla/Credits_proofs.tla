--------------------------- MODULE Credits_proofs ---------------------------
(***************************************************************************)
(* Proofs about Credits, for every number of sessions, requests and        *)
(* purchases, and for every plan, estimate and size of a pack.             *)
(***************************************************************************)
EXTENDS Credits, FiniteSetTheorems, TLAPS

Completed == {p \in Purchases : purchase[p] = "completed"}

\* Every pack is that of a completed purchase ...
Covered == wallet.purchased <= Pack * Cardinality(Completed)

\* ... and no purchase is completed after its refund but by a late grant.
RefundsReverse ==
    \A p \in Purchases : purchase[p] = "completed" /\ Refunded(p) => p \in late

IInv == TypeOK /\ NoOverspend /\ ChargeIsSettled /\ Covered /\ RefundsReverse

-----------------------------------------------------------------------------
(* What the operators make of the wallet.                                  *)

USE CreditsAssumption DEF Wallet, Statuses, Lesser, Without

LEMMA RenewedWallet ==
    ASSUME TypeOK
    PROVE  /\ Renewed(wallet) \in Wallet
           /\ Renewed(wallet).bonus = wallet.bonus
           /\ Renewed(wallet).purchased = wallet.purchased
           /\ Renewed(wallet).reserved = wallet.reserved
           /\ RenewalLoss \in Nat
           /\ Balance(wallet) <= Balance(Renewed(wallet)) + RenewalLoss
<1>1. /\ wallet \in Wallet /\ plan \in Plans
      /\ Allowance[plan] \in Nat
  BY DEF TypeOK
<1>2. /\ Renewed(wallet) \in Wallet
      /\ Renewed(wallet).bonus = wallet.bonus
      /\ Renewed(wallet).purchased = wallet.purchased
      /\ Renewed(wallet).reserved = wallet.reserved
  BY <1>1 DEF Renewed
<1> QED
  BY <1>1, <1>2 DEF RenewalLoss, Balance

LEMMA TakenAmounts ==
    ASSUME NEW w \in Wallet, NEW charge \in Nat
    PROVE  LET t == Taken(w, charge)
           IN /\ t.monthly \in 0..w.monthly
              /\ t.bonus \in 0..w.bonus
              /\ t.purchased \in 0..w.purchased
              /\ t.monthly + t.bonus + t.purchased <= charge
BY DEF Taken

\* A settlement takes at most what it sets free.
LEMMA SettledBalances ==
    ASSUME NEW w \in Wallet, NEW r \in Requests, NEW charge \in 0..Estimate[r],
           NEW n \in Nat, w.reserved <= Balance(w) + n
    PROVE  LET new == SettledWallet(w, r, Taken(w, charge), charge)
           IN /\ new \in Wallet
              /\ new.reserved <= Balance(new) + n
              /\ new.purchased <= w.purchased
<1> DEFINE t == Taken(w, charge)
           new == SettledWallet(w, r, t, charge)
<1>1. /\ Estimate[r] \in Nat /\ charge \in Nat
  OBVIOUS
<1>2. /\ t.monthly \in 0..w.monthly
      /\ t.bonus \in 0..w.bonus
      /\ t.purchased \in 0..w.purchased
      /\ t.monthly + t.bonus + t.purchased <= charge
  BY <1>1, TakenAmounts
<1> HIDE DEF t
<1> DEFINE held == Without(w.reserved, Estimate[r])
<1>a. /\ held \in Nat
      /\ w.monthly - t.monthly \in Nat
      /\ w.bonus - t.bonus \in Nat
      /\ w.purchased - t.purchased \in Nat
  BY <1>1, <1>2
<1> HIDE DEF held
<1>b. new = [w EXCEPT !.reserved = held,
                      !.monthly = w.monthly - t.monthly,
                      !.bonus = w.bonus - t.bonus,
                      !.purchased = w.purchased - t.purchased]
  BY DEF SettledWallet, held
<1> HIDE DEF new
<1>3. /\ new \in Wallet
      /\ new.monthly = w.monthly - t.monthly
      /\ new.bonus = w.bonus - t.bonus
      /\ new.purchased = w.purchased - t.purchased
      /\ new.reserved = held
  BY <1>a, <1>b
<1>4. new.reserved <= Balance(new) + n
  BY <1>1, <1>2, <1>3 DEF Balance, held
<1> QED
  BY <1>2, <1>3, <1>4 DEF new, t

\* How many purchases are completed, after one of them changes.
LEMMA CompletedCount ==
    ASSUME TypeOK, NEW p \in Purchases, NEW s,
           purchase' = [purchase EXCEPT ![p] = s]
    PROVE  /\ Cardinality(Completed) \in Nat
           /\ s = "completed" /\ purchase[p] # "completed"
                => Cardinality(Completed') = Cardinality(Completed) + 1
           /\ s # "completed" /\ purchase[p] = "completed"
                => Cardinality(Completed') = Cardinality(Completed) - 1
           /\ s # "completed" /\ purchase[p] # "completed"
                => Completed' = Completed
<1>1. IsFiniteSet(Completed)
  BY FS_Subset DEF Completed
<1>2. Cardinality(Completed) \in Nat
  BY <1>1, FS_CardinalityType
<1>3. ASSUME s = "completed", purchase[p] # "completed"
      PROVE  Cardinality(Completed') = Cardinality(Completed) + 1
  <2>1. Completed' = Completed \cup {p} /\ p \notin Completed
    BY <1>3 DEF Completed, TypeOK
  <2> QED
    BY <1>1, <2>1, FS_AddElement
<1>4. ASSUME s # "completed", purchase[p] = "completed"
      PROVE  Cardinality(Completed') = Cardinality(Completed) - 1
  <2>1. Completed' = Completed \ {p} /\ p \in Completed
    BY <1>4 DEF Completed, TypeOK
  <2> QED
    BY <1>1, <2>1, FS_RemoveElement
<1>5. ASSUME s # "completed", purchase[p] # "completed"
      PROVE  Completed' = Completed
  BY <1>5 DEF Completed, TypeOK
<1> QED
  BY <1>2, <1>3, <1>4, <1>5

-----------------------------------------------------------------------------
(* One lemma for the steps of each kind.                                   *)

\* The invariant without the calls, which only the type constrains.
LEMMA CallStep ==
    ASSUME TypeOK, NEW c \in Calls, NEW x \in CallType, Moves(c, x)
    PROVE  call' \in [Calls -> CallType]
BY DEF Moves, TypeOK

LEMMA CallShape ==
    ASSUME TypeOK, NEW c \in Calls
    PROVE  /\ Idle \in CallType
           /\ At(c, "reserving") => /\ call[c].request \in Requests
                                    /\ call[c].route \in Routes
           /\ At(c, "working") => /\ call[c].request \in Requests
                                  /\ call[c].route \in Routes
                                  /\ call[c].found \in BOOLEAN
           /\ At(c, "releasing") => call[c].request \in Requests
           /\ At(c, "renewing") => /\ call[c].plan \in Plans
                                   /\ call[c].replan \in BOOLEAN
                                   /\ call[c].regrant \in BOOLEAN
<1>1. call[c] \in CallType
  BY DEF TypeOK
<1> QED
  BY <1>1 DEF CallType, At, Idle

LEMMA ReuseStep ==
    ASSUME TypeOK, NEW c \in Calls, NEW route \in Routes, NEW r \in Requests,
           Reuse(c, route, r)
    PROVE  call' \in [Calls -> CallType]
<1>1. Idle \in CallType
  BY CallShape
<1>2. [at |-> "working", route |-> route, request |-> r,
       found |-> route = "desktop"] \in CallType
  BY DEF CallType
<1> QED
  BY <1>1, <1>2, CallStep DEF Reuse

\* Steps that leave the wallet, the charges and the purchases alone.
LEMMA QuietStep ==
    ASSUME IInv, TypeOK',
           UNCHANGED <<wallet, reservation, purchase, handled, charges, lost, late>>
    PROVE  IInv'
BY DEF IInv, NoOverspend, Balance, ChargeIsSettled, Covered, Completed,
       RefundsReverse, Refunded

LEMMA RefundsStay ==
    ASSUME IInv, UNCHANGED <<purchase, handled, late>>
    PROVE  RefundsReverse'
BY DEF IInv, RefundsReverse, Refunded

LEMMA FindStep ==
    ASSUME IInv, NEW c \in Calls, Find(c)
    PROVE  IInv'
<1>1. TypeOK
  BY DEF IInv
<1>2. PICK route \in Routes, r \in Requests :
        IF reservation[r] = "none"
        THEN Moves(c, [at |-> "reserving", route |-> route, request |-> r])
        ELSE Reuse(c, route, r)
  BY DEF Find
<1>3. [at |-> "reserving", route |-> route, request |-> r] \in CallType
  BY DEF CallType
<1>4. call' \in [Calls -> CallType]
  BY <1>1, <1>2, <1>3, CallStep, ReuseStep
<1>5. TypeOK'
  BY <1>1, <1>4 DEF Find, TypeOK
<1> QED
  BY <1>5, QuietStep DEF Find

LEMMA ReserveStep ==
    ASSUME IInv, NEW c \in Calls, Reserve(c)
    PROVE  IInv'
<1> DEFINE r == call[c].request
           route == call[c].route
           new == Renewed(wallet)
<1>1. TypeOK /\ r \in Requests /\ route \in Routes /\ Idle \in CallType
      /\ Estimate[r] \in Nat
  BY CallShape DEF IInv, Reserve
<1>2. CASE Affordable(r) /\ reservation[r] = "none"
  <2>1. /\ wallet' = [new EXCEPT !.reserved = new.reserved + Estimate[r]]
        /\ lost' = lost + RenewalLoss
        /\ reservation' = [reservation EXCEPT ![r] = "reserved"]
        /\ Moves(c, IF route = "client" THEN Idle
                    ELSE [at |-> "working", route |-> route, request |-> r,
                          found |-> FALSE])
        /\ UNCHANGED <<plan, purchase, payment, handled, renewals, charges, late>>
    BY <1>2 DEF Reserve
  <2>2. [at |-> "working", route |-> route, request |-> r, found |-> FALSE]
            \in CallType
    BY <1>1 DEF CallType
  <2>3. call' \in [Calls -> CallType]
    BY <1>1, <2>1, <2>2, CallStep
  <2>4. /\ new \in Wallet
        /\ new.bonus = wallet.bonus
        /\ new.purchased = wallet.purchased
        /\ new.reserved = wallet.reserved
        /\ RenewalLoss \in Nat
        /\ Balance(wallet) <= Balance(new) + RenewalLoss
    BY <1>1, RenewedWallet
  <2> HIDE DEF new
  <2>5. /\ wallet' \in Wallet
        /\ wallet'.reserved = wallet.reserved + Estimate[r]
        /\ Balance(wallet') = Balance(new)
        /\ wallet'.purchased = wallet.purchased
    BY <1>1, <2>1, <2>4 DEF Balance
  <2>6. TypeOK'
    BY <1>1, <2>1, <2>3, <2>4, <2>5 DEF TypeOK
  <2>7. NoOverspend'
    <3>1. lost \in Nat /\ wallet \in Wallet
      BY <1>1 DEF TypeOK
    <3>2. Balance(wallet) \in Nat /\ Balance(new) \in Nat
      BY <2>4, <3>1 DEF Balance
    <3>3. Balance(wallet) >= wallet.reserved + Estimate[r]
      BY <1>2 DEF Affordable
    <3> QED
      BY <1>1, <2>1, <2>4, <2>5, <3>1, <3>2, <3>3 DEF NoOverspend
  <2>8. ChargeIsSettled'
    BY <1>1, <1>2, <2>1 DEF ChargeIsSettled, IInv, TypeOK
  <2>9. Covered'
    BY <2>1, <2>5 DEF Covered, Completed, IInv
  <2> QED
    BY <2>1, <2>6, <2>7, <2>8, <2>9, RefundsStay DEF IInv
<1>3. CASE ~ (Affordable(r) /\ reservation[r] = "none")
  <2>1. /\ IF Affordable(r) THEN Reuse(c, route, r) ELSE Moves(c, Idle)
        /\ UNCHANGED <<plan, wallet, reservation, lost, purchase, payment,
                       handled, renewals, charges, late>>
    BY <1>3 DEF Reserve
  <2>2. call' \in [Calls -> CallType]
    BY <1>1, <2>1, CallStep, ReuseStep
  <2>3. TypeOK'
    BY <1>1, <2>1, <2>2 DEF TypeOK
  <2> QED
    BY <2>1, <2>3, QuietStep
<1> QED
  BY <1>2, <1>3

LEMMA FailStep ==
    ASSUME IInv, NEW c \in Calls, Fail(c) \/ ClientCloses(c) \/ OverviewRead(c)
    PROVE  IInv'
<1>1. TypeOK /\ wallet \in Wallet /\ plan \in Plans
  BY DEF IInv, TypeOK
<1>2. call' \in [Calls -> CallType]
  <2>1. CASE Fail(c)
    <3>1. [at |-> "releasing", request |-> call[c].request] \in CallType
      BY <1>1, <2>1, CallShape DEF Fail, CallType
    <3> QED
      BY <1>1, <2>1, <3>1, CallStep DEF Fail
  <2>2. CASE ClientCloses(c)
    <3>1. PICK r \in Requests :
            \/ Moves(c, [at |-> "working", route |-> "client", request |-> r,
                         found |-> FALSE])
            \/ Moves(c, [at |-> "releasing", request |-> r])
      BY <2>2 DEF ClientCloses
    <3>2. /\ [at |-> "working", route |-> "client", request |-> r,
              found |-> FALSE] \in CallType
          /\ [at |-> "releasing", request |-> r] \in CallType
      BY DEF CallType, Routes
    <3> QED
      BY <1>1, <3>1, <3>2, CallStep
  <2>3. CASE OverviewRead(c)
    <3>1. [at |-> "renewing", plan |-> plan, replan |-> wallet.plan # plan,
           regrant |-> wallet.monthly # Allowance[plan]] \in CallType
      BY <1>1 DEF CallType
    <3> QED
      BY <1>1, <2>3, <3>1, CallStep DEF OverviewRead
  <2> QED
    BY <2>1, <2>2, <2>3
<1>3. TypeOK'
  BY <1>1, <1>2 DEF Fail, ClientCloses, OverviewRead, TypeOK
<1> QED
  BY <1>3, QuietStep DEF Fail, ClientCloses, OverviewRead

LEMMA SettleStep ==
    ASSUME IInv, NEW c \in Calls, Settle(c)
    PROVE  IInv'
<1> DEFINE r == call[c].request
           w == Renewed(wallet)
<1>1. TypeOK /\ r \in Requests /\ Idle \in CallType /\ Estimate[r] \in Nat
  BY CallShape DEF IInv, Settle
<1>2. UNCHANGED <<plan, purchase, payment, handled, renewals, late>>
  BY DEF Settle
<1>3. CASE /\ Moves(c, Idle) \/ Moves(c, [at |-> "releasing", request |-> r])
           /\ UNCHANGED <<wallet, lost, reservation, charges>>
  <2>1. [at |-> "releasing", request |-> r] \in CallType
    BY <1>1 DEF CallType
  <2>2. call' \in [Calls -> CallType]
    BY <1>1, <1>3, <2>1, CallStep
  <2>3. TypeOK'
    BY <1>1, <1>2, <1>3, <2>2 DEF TypeOK
  <2> QED
    BY <1>2, <1>3, <2>3, QuietStep
<1>4. ASSUME NEW charge \in Charges(c), Settled(c, charge)
      PROVE  IInv'
  <2> DEFINE t == Taken(w, charge)
             new == SettledWallet(w, r, t, charge)
             sum == t.monthly + t.bonus + t.purchased
  <2>1. charge \in 0..Estimate[r] /\ charge \in Nat
    BY <1>1 DEF Charges
  <2>2. /\ wallet' = new
        /\ lost' = lost + RenewalLoss
        /\ reservation' = [reservation EXCEPT ![r] = "settled"]
        /\ charges' = [charges EXCEPT ![r] = IF sum > 0 THEN @ + 1 ELSE @]
        /\ Moves(c, Idle)
    BY <1>4 DEF Settled
  <2>3. /\ w \in Wallet
        /\ w.bonus = wallet.bonus
        /\ w.purchased = wallet.purchased
        /\ w.reserved = wallet.reserved
        /\ RenewalLoss \in Nat
        /\ Balance(wallet) <= Balance(w) + RenewalLoss
    BY <1>1, RenewedWallet
  <2>4. lost \in Nat /\ wallet \in Wallet
    BY <1>1 DEF TypeOK
  <2>5. w.reserved <= Balance(w) + lost'
    <3>1. Balance(wallet) \in Nat /\ Balance(w) \in Nat
      BY <2>3, <2>4 DEF Balance
    <3>2. wallet.reserved <= Balance(wallet) + lost
      BY DEF IInv, NoOverspend
    <3> HIDE DEF w
    <3> QED
      BY <2>2, <2>3, <2>4, <3>1, <3>2
  <2>6. lost' \in Nat
    BY <2>2, <2>3, <2>4
  <2> HIDE DEF w
  <2>7. /\ new \in Wallet
        /\ new.reserved <= Balance(new) + lost'
        /\ new.purchased <= w.purchased
    BY <1>1, <2>1, <2>3, <2>5, <2>6, SettledBalances
  <2> HIDE DEF new, sum
  <2>8. charges' \in [Requests -> Nat]
    BY <1>1, <2>2 DEF TypeOK
  <2>9. call' \in [Calls -> CallType]
    BY <1>1, <2>2, CallStep
  <2>10. TypeOK'
    BY <1>1, <1>2, <2>2, <2>6, <2>7, <2>8, <2>9 DEF TypeOK
  <2>11. NoOverspend'
    BY <2>2, <2>7 DEF NoOverspend
  <2>12. ChargeIsSettled'
    BY <1>1, <2>2 DEF ChargeIsSettled, IInv, TypeOK
  <2>13. Covered'
    <3>1. wallet'.purchased <= wallet.purchased
      BY <2>2, <2>3, <2>7
    <3>2. wallet.purchased <= Pack * Cardinality(Completed)
      BY DEF IInv, Covered, Completed
    <3>3. Completed' = Completed
      BY <1>2 DEF Completed
    <3>4. Pack * Cardinality(Completed) \in Nat
      BY FS_Subset, FS_CardinalityType DEF Completed
    <3>5. wallet.purchased \in Nat /\ wallet'.purchased \in Nat
      BY <2>2, <2>4, <2>7
    <3>6. wallet'.purchased <= Pack * Cardinality(Completed')
      BY <3>1, <3>2, <3>3, <3>4, <3>5
    <3> QED
      BY <3>6 DEF Covered, Completed
  <2> QED
    BY <1>2, <2>10, <2>11, <2>12, <2>13, RefundsStay DEF IInv
<1> QED
  BY <1>3, <1>4 DEF Settle, SettleFails

LEMMA ReleaseStep ==
    ASSUME IInv, NEW c \in Calls, Release(c)
    PROVE  IInv'
<1> DEFINE r == call[c].request
           w == Renewed(wallet)
<1>1. TypeOK /\ r \in Requests /\ Idle \in CallType /\ Estimate[r] \in Nat
  BY CallShape DEF IInv, Release
<1>2. /\ Moves(c, Idle)
      /\ UNCHANGED <<plan, purchase, payment, handled, renewals, charges, late>>
  BY DEF Release
<1>3. call' \in [Calls -> CallType]
  BY <1>1, <1>2, CallStep
<1>4. CASE Releasable(r)
  <2>1. /\ wallet' = [w EXCEPT !.reserved = Without(w.reserved, Estimate[r])]
        /\ lost' = lost + RenewalLoss
        /\ reservation' = [reservation EXCEPT ![r] = "released"]
    BY <1>4 DEF Release
  <2>2. /\ w \in Wallet
        /\ w.bonus = wallet.bonus
        /\ w.purchased = wallet.purchased
        /\ w.reserved = wallet.reserved
        /\ RenewalLoss \in Nat
        /\ Balance(wallet) <= Balance(w) + RenewalLoss
    BY <1>1, RenewedWallet
  <2> HIDE DEF w
  <2>3. /\ wallet' \in Wallet
        /\ Balance(wallet') = Balance(w)
        /\ wallet'.reserved <= wallet.reserved
        /\ wallet'.purchased = wallet.purchased
    BY <1>1, <2>1, <2>2 DEF Balance
  <2>4. lost \in Nat /\ wallet \in Wallet
    BY <1>1 DEF TypeOK
  <2>5. TypeOK'
    BY <1>1, <1>2, <1>3, <2>1, <2>2, <2>3, <2>4 DEF TypeOK
  <2>6. NoOverspend'
    <3>1. Balance(wallet) \in Nat /\ Balance(w) \in Nat
      BY <2>2, <2>4 DEF Balance
    <3> QED
      BY <2>1, <2>2, <2>3, <2>4, <3>1 DEF NoOverspend, IInv
  <2>7. ChargeIsSettled'
    BY <1>1, <1>2, <1>4, <2>1 DEF ChargeIsSettled, IInv, TypeOK, Releasable, Open
  <2>8. Covered'
    BY <1>2, <2>3 DEF Covered, Completed, IInv
  <2> QED
    BY <1>2, <2>5, <2>6, <2>7, <2>8, RefundsStay DEF IInv
<1>5. CASE ~ Releasable(r)
  <2>1. UNCHANGED <<wallet, lost, reservation>>
    BY <1>5 DEF Release
  <2>2. TypeOK'
    BY <1>1, <1>2, <1>3, <2>1 DEF TypeOK
  <2> QED
    BY <1>2, <2>1, <2>2, QuietStep
<1> QED
  BY <1>4, <1>5

LEMMA OverviewStep ==
    ASSUME IInv, NEW c \in Calls, OverviewCommit(c)
    PROVE  IInv'
<1> DEFINE o == call[c]
           p == IF o.replan THEN o.plan ELSE wallet.plan
           m == IF o.regrant THEN Allowance[o.plan] ELSE wallet.monthly
           new == [wallet EXCEPT !.plan = p, !.due = FALSE, !.monthly = m]
<1>1. /\ TypeOK /\ wallet \in Wallet /\ lost \in Nat /\ Idle \in CallType
      /\ p \in Plans /\ m \in Nat
  BY CallShape DEF IInv, TypeOK, OverviewCommit
<1>2. /\ \/ wallet' = new /\ lost' = lost + Without(wallet.monthly, new.monthly)
         \/ UNCHANGED <<wallet, lost>>
      /\ Moves(c, Idle)
      /\ UNCHANGED <<plan, reservation, purchase, payment, handled, renewals,
                     charges, late>>
  BY DEF OverviewCommit
<1>3. call' \in [Calls -> CallType]
  BY <1>1, <1>2, CallStep
<1>4. CASE wallet' = new /\ lost' = lost + Without(wallet.monthly, new.monthly)
  <2> HIDE DEF p, m
  <2>1. /\ new \in Wallet /\ new.monthly = m
        /\ new.bonus = wallet.bonus
        /\ new.purchased = wallet.purchased
        /\ new.reserved = wallet.reserved
    BY <1>1
  <2> HIDE DEF new
  <2>2. /\ lost' \in Nat
        /\ wallet'.reserved <= Balance(wallet') + lost'
    BY <1>1, <1>4, <2>1 DEF IInv, NoOverspend, Balance
  <2>3. TypeOK'
    BY <1>1, <1>2, <1>3, <1>4, <2>1, <2>2 DEF TypeOK
  <2>4. NoOverspend' /\ ChargeIsSettled' /\ Covered'
    BY <1>2, <1>4, <2>1, <2>2
    DEF IInv, NoOverspend, ChargeIsSettled, Covered, Completed
  <2> QED
    BY <1>2, <2>3, <2>4, RefundsStay DEF IInv
<1>5. CASE UNCHANGED <<wallet, lost>>
  <2>1. TypeOK'
    BY <1>1, <1>2, <1>3, <1>5 DEF TypeOK
  <2> QED
    BY <1>2, <1>5, <2>1, QuietStep
<1> QED
  BY <1>2, <1>4, <1>5

\* An event other than a refund leaves Refunded as it is.
Regrants ==
    /\ handled' \in [Purchases -> SUBSET Events]
    /\ \A p \in Purchases : Refunded(p)' <=> Refunded(p)

LEMMA CompleteStep ==
    ASSUME IInv, NEW p \in Purchases, CompletePurchase(p), Regrants,
           UNCHANGED <<plan, reservation, payment, call, renewals, charges>>
    PROVE  IInv'
<1> DEFINE w == Renewed(wallet)
           n == Cardinality(Completed)
<1>1. TypeOK /\ wallet \in Wallet /\ lost \in Nat
  BY DEF IInv, TypeOK
<1>2. CASE Grantable(p)
  <2>1. /\ wallet' = [w EXCEPT !.purchased = w.purchased + Pack]
        /\ lost' = lost + RenewalLoss
        /\ purchase' = [purchase EXCEPT ![p] = "completed"]
        /\ purchase[p] # "completed"
        /\ late' = IF Refunded(p) THEN late \cup {p} ELSE late
    BY <1>2 DEF CompletePurchase, Grantable
  <2>2. /\ w \in Wallet
        /\ w.bonus = wallet.bonus
        /\ w.purchased = wallet.purchased
        /\ w.reserved = wallet.reserved
        /\ RenewalLoss \in Nat
        /\ Balance(wallet) <= Balance(w) + RenewalLoss
    BY <1>1, RenewedWallet
  <2> HIDE DEF w
  <2>3. /\ wallet' \in Wallet
        /\ Balance(wallet') = Balance(w) + Pack
        /\ wallet'.reserved = wallet.reserved
        /\ wallet'.purchased = wallet.purchased + Pack
    BY <2>1, <2>2 DEF Balance
  <2>4. TypeOK'
    BY <1>1, <2>1, <2>2, <2>3 DEF TypeOK, Regrants
  <2>5. NoOverspend'
    <3>1. Balance(wallet) \in Nat /\ Balance(w) \in Nat
      BY <1>1, <2>2 DEF Balance
    <3> QED
      BY <1>1, <2>1, <2>2, <2>3, <3>1 DEF NoOverspend, IInv
  <2>6. ChargeIsSettled'
    BY DEF ChargeIsSettled, IInv
  <2>7. Covered'
    <3>1. n \in Nat /\ Cardinality(Completed') = n + 1
      BY <1>1, <2>1, CompletedCount
    <3>2. wallet.purchased <= Pack * n
      BY DEF IInv, Covered, Completed
    <3> HIDE DEF n
    <3>3. Pack * (n + 1) = Pack * n + Pack /\ Pack * n \in Nat
      BY <3>1
    <3>4. wallet'.purchased <= Pack * (n + 1)
      BY <1>1, <2>3, <3>2, <3>3
    <3> QED
      BY <3>1, <3>4 DEF Covered, Completed
  <2>8. RefundsReverse'
    <3>1. ASSUME NEW q \in Purchases, purchase'[q] = "completed", Refunded(q)'
          PROVE  q \in late'
      <4>1. Refunded(q)
        BY <3>1 DEF Regrants
      <4>2. q = p \/ purchase[q] = "completed"
        BY <1>1, <2>1, <3>1 DEF TypeOK
      <4> QED
        BY <2>1, <4>1, <4>2 DEF IInv, RefundsReverse
    <3> QED
      BY <3>1 DEF RefundsReverse
  <2> QED
    BY <2>4, <2>5, <2>6, <2>7, <2>8 DEF IInv
<1>3. CASE ~ Grantable(p)
  <2>1. UNCHANGED <<wallet, lost, purchase, late>>
    BY <1>3 DEF CompletePurchase
  <2>2. TypeOK'
    BY <1>1, <2>1 DEF TypeOK, Regrants
  <2>3. RefundsReverse'
    BY <2>1 DEF IInv, RefundsReverse, Regrants
  <2> QED
    BY <2>1, <2>2, <2>3
    DEF IInv, NoOverspend, Balance, ChargeIsSettled, Covered, Completed
<1> QED
  BY <1>2, <1>3

LEMMA ReverseStep ==
    ASSUME IInv, NEW p \in Purchases, Reverse(p),
           handled' \in [Purchases -> SUBSET Events],
           \A q \in Purchases \ {p} : handled'[q] = handled[q],
           UNCHANGED <<plan, reservation, payment, call, renewals, charges>>
    PROVE  IInv'
<1> DEFINE w == Renewed(wallet)
           n == Cardinality(Completed)
           reversal == Lesser(wallet.purchased, Pack)
<1>1. TypeOK /\ wallet \in Wallet /\ lost \in Nat
  BY DEF IInv, TypeOK
<1>2. CASE purchase[p] = "completed"
  <2>1. /\ wallet' = [w EXCEPT !.purchased = w.purchased - reversal]
        /\ lost' = lost + RenewalLoss + reversal
        /\ purchase' = [purchase EXCEPT ![p] = "refunded"]
        /\ late' = late
    BY <1>2 DEF Reverse
  <2>2. /\ w \in Wallet
        /\ w.bonus = wallet.bonus
        /\ w.purchased = wallet.purchased
        /\ w.reserved = wallet.reserved
        /\ RenewalLoss \in Nat
        /\ Balance(wallet) <= Balance(w) + RenewalLoss
    BY <1>1, RenewedWallet
  <2>3. /\ reversal \in Nat
        /\ reversal <= wallet.purchased
        /\ reversal = wallet.purchased \/ reversal = Pack
    BY <1>1
  <2> HIDE DEF w, reversal
  <2>4. /\ wallet' \in Wallet
        /\ Balance(wallet') = Balance(w) - reversal
        /\ wallet'.reserved = wallet.reserved
        /\ wallet'.purchased = wallet.purchased - reversal
    BY <1>1, <2>1, <2>2, <2>3 DEF Balance
  <2>5. TypeOK'
    BY <1>1, <2>1, <2>2, <2>3, <2>4 DEF TypeOK
  <2>6. NoOverspend'
    <3>1. Balance(wallet) \in Nat /\ Balance(w) \in Nat
      BY <1>1, <2>2 DEF Balance
    <3> QED
      BY <1>1, <2>1, <2>2, <2>3, <2>4, <3>1 DEF NoOverspend, IInv
  <2>7. ChargeIsSettled'
    BY DEF ChargeIsSettled, IInv
  <2>8. Covered'
    <3>a. "refunded" # "completed"
      OBVIOUS
    <3>1. n \in Nat /\ Cardinality(Completed') = n - 1
      BY <1>1, <1>2, <2>1, <3>a, CompletedCount
    <3>2. wallet.purchased <= Pack * n
      BY DEF IInv, Covered, Completed
    <3>3. n # 0
      <4>1. IsFiniteSet(Completed) /\ p \in Completed
        BY <1>2, FS_Subset DEF Completed
      <4> QED
        BY <4>1, FS_EmptySet
    <3> HIDE DEF n
    <3>4. PICK k \in Nat : n = k + 1
      BY <3>1, <3>3
    <3>5. Pack * (k + 1) = Pack * k + Pack /\ Pack * k \in Nat
      BY <3>4
    <3>6. wallet'.purchased <= Pack * k
      BY <1>1, <2>3, <2>4, <3>2, <3>4, <3>5
    <3>7. Cardinality(Completed') = k
      BY <3>1, <3>4
    <3> QED
      BY <3>6, <3>7 DEF Covered, Completed
  <2>9. RefundsReverse'
    BY <1>1, <2>1 DEF IInv, TypeOK, RefundsReverse, Refunded
  <2> QED
    BY <2>5, <2>6, <2>7, <2>8, <2>9 DEF IInv
<1>3. CASE purchase[p] # "completed"
  <2>1. UNCHANGED <<wallet, lost, purchase, late>>
    BY <1>3 DEF Reverse
  <2>2. TypeOK'
    BY <1>1, <2>1 DEF TypeOK
  <2>3. RefundsReverse'
    BY <1>3, <2>1 DEF IInv, RefundsReverse, Refunded
  <2> QED
    BY <2>1, <2>2, <2>3
    DEF IInv, NoOverspend, Balance, ChargeIsSettled, Covered, Completed
<1> QED
  BY <1>2, <1>3

\* The steps of a purchase, of the provider and of time.
LEMMA ShopStep ==
    ASSUME IInv, NEW p \in Purchases, Shop(p)
    PROVE  IInv'
<1>1. TypeOK
  BY DEF IInv
<1>2. CASE CreatePurchase(p)
  <2>1. TypeOK'
    BY <1>1, <1>2 DEF CreatePurchase, TypeOK
  <2>2. Completed' = Completed
    <3>1. /\ purchase' = [purchase EXCEPT ![p] = "created"]
          /\ purchase[p] # "completed" /\ "created" # "completed"
      BY <1>2 DEF CreatePurchase
    <3> QED
      BY <1>1, <3>1, CompletedCount
  <2>3. Covered'
    BY <1>2, <2>2 DEF CreatePurchase, Covered, Completed, IInv
  <2>4. RefundsReverse'
    BY <1>1, <1>2 DEF CreatePurchase, IInv, TypeOK, RefundsReverse, Refunded
  <2> QED
    BY <1>2, <2>1, <2>3, <2>4
    DEF CreatePurchase, IInv, NoOverspend, Balance, ChargeIsSettled
<1>3. CASE Pay(p) \/ GiveBack(p)
  <2>1. TypeOK'
    BY <1>1, <1>3 DEF Pay, GiveBack, TypeOK
  <2> QED
    BY <1>3, <2>1, QuietStep DEF Pay, GiveBack
<1>4. CASE VerifyPurchase(p)
  <2>1. Regrants
    BY <1>1, <1>4 DEF VerifyPurchase, TypeOK, Regrants, Refunded
  <2> QED
    BY <1>4, <2>1, CompleteStep DEF VerifyPurchase
<1>5. ASSUME NEW e \in Events, Webhook(p, e)
      PROVE  IInv'
  <2>1. handled' \in [Purchases -> SUBSET Events]
    BY <1>1, <1>5 DEF Webhook, TypeOK
  <2>2. handled' = [handled EXCEPT ![p] = @ \cup {e}]
    BY <1>5 DEF Webhook
  <2>3. CASE e \in RefundEvents
    <3>1. \A q \in Purchases \ {p} : handled'[q] = handled[q]
      BY <1>1, <2>2 DEF TypeOK
    <3> QED
      BY <1>5, <2>1, <2>3, <3>1, ReverseStep DEF Webhook
  <2>4. CASE e \notin RefundEvents
    <3>1. Regrants
      BY <1>1, <2>1, <2>2, <2>4 DEF TypeOK, Regrants, Refunded
    <3> QED
      BY <1>5, <2>4, <3>1, CompleteStep DEF Webhook
  <2> QED
    BY <2>3, <2>4
<1> QED
  BY <1>2, <1>3, <1>4, <1>5 DEF Shop

LEMMA ClockStep ==
    ASSUME IInv, \/ CycleEnds \/ PlanChanges
                 \/ \E r \in Requests : Expire(r)
    PROVE  IInv'
<1>1. TypeOK
  BY DEF IInv
<1>2. CASE CycleEnds
  <2>1. /\ wallet' \in Wallet
        /\ Balance(wallet') = Balance(wallet)
        /\ wallet'.reserved = wallet.reserved
        /\ wallet'.purchased = wallet.purchased
    BY <1>1, <1>2 DEF CycleEnds, TypeOK, Balance
  <2>2. TypeOK'
    BY <1>1, <1>2, <2>1 DEF CycleEnds, TypeOK
  <2> QED
    BY <1>2, <2>1, <2>2
    DEF CycleEnds, IInv, NoOverspend, ChargeIsSettled, Covered, Completed,
        RefundsReverse, Refunded
<1>3. CASE PlanChanges
  <2>1. TypeOK'
    BY <1>1, <1>3 DEF PlanChanges, TypeOK
  <2> QED
    BY <1>3, <2>1, QuietStep DEF PlanChanges
<1>4. ASSUME NEW r \in Requests, Expire(r)
      PROVE  IInv'
  <2>1. TypeOK'
    BY <1>1, <1>4 DEF Expire, TypeOK
  <2>2. ChargeIsSettled'
    BY <1>1, <1>4 DEF Expire, ChargeIsSettled, IInv, TypeOK
  <2> QED
    BY <1>4, <2>1, <2>2 DEF Expire, IInv, NoOverspend, Balance, Covered,
                            Completed, RefundsReverse, Refunded
<1> QED
  BY <1>2, <1>3, <1>4

LEMMA Initially == Init => IInv
<1> SUFFICES ASSUME Init
             PROVE  IInv
  OBVIOUS
<1>1. TypeOK
  BY DEF Init, TypeOK, CallType, Idle
<1>2. NoOverspend
  BY DEF Init, NoOverspend, Balance
<1>3. ChargeIsSettled
  BY DEF Init, ChargeIsSettled
<1>4. Covered
  <2>1. Completed = {}
    BY DEF Init, Completed
  <2>2. Cardinality(Completed) = 0
    BY <2>1, FS_EmptySet
  <2>3. Pack * 0 = 0 /\ wallet.purchased = 0
    BY DEF Init
  <2> QED
    BY <2>2, <2>3 DEF Covered, Completed
<1>5. RefundsReverse
  BY DEF Init, RefundsReverse
<1> QED
  BY <1>1, <1>2, <1>3, <1>4, <1>5 DEF IInv

LEMMA Inductive == IInv /\ [Next]_vars => IInv'
<1> SUFFICES ASSUME IInv, [Next]_vars
             PROVE  IInv'
  OBVIOUS
<1>1. ASSUME NEW c \in Calls, Serve(c)
      PROVE  IInv'
  BY <1>1, FindStep, ReserveStep, FailStep, SettleStep, ReleaseStep, OverviewStep
  DEF Serve
<1>2. CASE UNCHANGED vars
  <2>1. TypeOK'
    BY <1>2 DEF vars, IInv, TypeOK
  <2> QED
    BY <1>2, <2>1, QuietStep DEF vars
<1> QED
  BY <1>1, <1>2, ShopStep, ClockStep DEF Next

-----------------------------------------------------------------------------
(* Sums.  MapThenSumSet is a function defined by recursion on the subsets  *)
(* of a set.  The units, the credits of the estimates one by one, are such *)
(* a function without a recursion; and there is only one.                  *)

Sum(S) == MapThenSumSet(LAMBDA r : Estimate[r], S)

Pick(s) == CHOOSE x \in s : TRUE

\* The recursion of MapThenSumSet on the subsets of S.
Folds(f, S) ==
    f = [s \in SUBSET S |->
            IF s = {} THEN 0 ELSE Estimate[Pick(s)] + f[s \ {Pick(s)}]]

\* Every credit of the estimates of S, one by one.
Units(S) == UNION {{r} \X (1..Estimate[r]) : r \in S}

LEMMA SumIsFold ==
    ASSUME NEW S
    PROVE  Sum(S) = (CHOOSE f : Folds(f, S))[S]
BY DEF Sum, MapThenSumSet, MapThenFoldSet, Folds, Pick

\* There is one such function at most: two of them would differ on a smallest set.
LEMMA FoldsOnce ==
    ASSUME NEW S, IsFiniteSet(S), NEW f, Folds(f, S), NEW g, Folds(g, S)
    PROVE  f[S] = g[S]
<1> DEFINE T == {s \in SUBSET S : f[s] # g[s]}
           R == StrictSubsetOrdering(S)
<1>1. SUFFICES ASSUME T # {}
               PROVE  FALSE
  OBVIOUS
<1>2. IsWellFoundedOn(R, SUBSET S)
  BY FS_StrictSubsetOrderingWellFounded, FS_FiniteSubsetsOfFinite
<1>3. PICK s \in T : \A t \in T : ~(<<t, s>> \in R)
  <2>1. T \subseteq SUBSET S
    OBVIOUS
  <2> HIDE DEF T, R
  <2> QED
    BY <1>1, <1>2, <2>1, WFMin
<1>4. s # {}
  BY DEF Folds
<1> DEFINE t == s \ {Pick(s)}
<1>5. Pick(s) \in s /\ t \in SUBSET S /\ t # s
  BY <1>4 DEF Pick
<1>6. <<t, s>> \in R
  BY <1>5 DEF StrictSubsetOrdering
<1>7. f[t] = g[t]
  BY <1>3, <1>5, <1>6
<1> QED
  BY <1>4, <1>7 DEF Folds

LEMMA UnitsFinite ==
    ASSUME NEW S \in SUBSET Requests, IsFiniteSet(S)
    PROVE  IsFiniteSet(Units(S)) /\ Cardinality(Units(S)) \in Nat
<1> DEFINE f == [r \in S |-> {r} \X (1..Estimate[r])]
           T == {{r} \X (1..Estimate[r]) : r \in S}
<1>1. f \in Surjection(S, T)
  BY DEF Surjection
<1>2. IsFiniteSet(T)
  <2> HIDE DEF f, T
  <2> QED
    BY <1>1, FS_Surjection
<1>3. ASSUME NEW r \in S
      PROVE  IsFiniteSet({r} \X (1..Estimate[r]))
  <2>1. IsFiniteSet({r})
    BY FS_Singleton
  <2>2. IsFiniteSet(1..Estimate[r])
    <3>1. 1 \in Int /\ Estimate[r] \in Int
      OBVIOUS
    <3> QED
      BY <3>1, FS_Interval
  <2> QED
    BY <2>1, <2>2, FS_Product
<1> QED
  BY <1>2, <1>3, FS_UNION, FS_CardinalityType DEF Units

LEMMA UnitsAdd ==
    ASSUME NEW S \in SUBSET Requests, IsFiniteSet(S), NEW x \in Requests \ S
    PROVE  Cardinality(Units(S \cup {x})) = Cardinality(Units(S)) + Estimate[x]
<1> DEFINE new == {x} \X (1..Estimate[x])
<1>1. /\ Units(S \cup {x}) = Units(S) \cup new
      /\ Units(S) \cap new = {}
  BY DEF Units
<1>2. Estimate[x] \in Nat
  OBVIOUS
<1>3. IsFiniteSet(new) /\ Cardinality(new) = Estimate[x]
  <2>1. /\ IsFiniteSet({x}) /\ Cardinality({x}) = 1
    BY FS_Singleton
  <2>2. IsFiniteSet(1..Estimate[x]) /\ Cardinality(1..Estimate[x]) = Estimate[x]
    BY <1>2, FS_Interval
  <2>3. /\ IsFiniteSet(new)
        /\ Cardinality(new) = Cardinality({x}) * Cardinality(1..Estimate[x])
    BY <2>1, <2>2, FS_Product
  <2> HIDE DEF new
  <2> QED
    BY <1>2, <2>1, <2>2, <2>3
<1>4. IsFiniteSet(Units(S)) /\ Cardinality(Units(S)) \in Nat
  BY UnitsFinite
<1> HIDE DEF new
<1>5. Cardinality(Units(S) \cup new) = Cardinality(Units(S)) + Cardinality(new) - Cardinality({})
  BY <1>1, <1>3, <1>4, FS_Union
<1>6. Cardinality({}) = 0
  BY FS_EmptySet
<1>7. Cardinality(Units(S \cup {x})) = Cardinality(Units(S)) + Cardinality(new) - 0
  BY <1>1, <1>5, <1>6
<1> QED
  BY <1>2, <1>3, <1>4, <1>7

LEMMA SumIsUnits ==
    ASSUME NEW S \in SUBSET Requests, IsFiniteSet(S)
    PROVE  Sum(S) = Cardinality(Units(S))
<1> DEFINE F == [s \in SUBSET S |-> Cardinality(Units(s))]
<1>1. Folds(F, S)
  <2>1. ASSUME NEW s \in SUBSET S, s # {}
        PROVE  F[s] = Estimate[Pick(s)] + F[s \ {Pick(s)}]
    <3>1. Pick(s) \in s
      BY <2>1 DEF Pick
    <3> DEFINE p == Pick(s)
               t == s \ {p}
    <3>2. /\ t \in SUBSET Requests /\ p \in Requests \ t /\ s = t \cup {p}
          /\ IsFiniteSet(t)
      BY <3>1, FS_Subset
    <3> HIDE DEF p, t
    <3>3. Cardinality(Units(s)) = Cardinality(Units(t)) + Estimate[p]
      BY <3>2, UnitsAdd
    <3>4. Cardinality(Units(t)) \in Nat /\ Estimate[p] \in Nat
      BY <3>2, UnitsFinite
    <3> QED
      BY <3>2, <3>3, <3>4 DEF p, t
  <2>2. Cardinality(Units({})) = 0
    BY FS_EmptySet DEF Units
  <2> QED
    BY <2>1, <2>2 DEF Folds
<1>2. Folds(CHOOSE f : Folds(f, S), S)
  BY <1>1
<1>3. (CHOOSE f : Folds(f, S))[S] = F[S]
  <2> HIDE DEF F
  <2> QED
    BY <1>1, <1>2, FoldsOnce
<1> QED
  BY <1>3, SumIsFold

\* What one reservation more, or one less, makes of the sum.
LEMMA SumAdd ==
    ASSUME NEW S \in SUBSET Requests, IsFiniteSet(S), NEW x \in Requests \ S
    PROVE  /\ IsFiniteSet(S \cup {x})
           /\ Sum(S) \in Nat
           /\ Sum(S \cup {x}) = Sum(S) + Estimate[x]
<1>1. IsFiniteSet(S \cup {x}) /\ S \cup {x} \in SUBSET Requests
  BY FS_AddElement
<1>2. Sum(S \cup {x}) = Cardinality(Units(S \cup {x}))
  BY <1>1, SumIsUnits
<1>3. Sum(S) = Cardinality(Units(S)) /\ Sum(S) \in Nat
  BY SumIsUnits, UnitsFinite
<1> QED
  BY <1>1, <1>2, <1>3, UnitsAdd

LEMMA SumRemove ==
    ASSUME NEW S \in SUBSET Requests, IsFiniteSet(S), NEW x \in S
    PROVE  /\ IsFiniteSet(S \ {x})
           /\ Sum(S \ {x}) \in Nat
           /\ Sum(S) = Sum(S \ {x}) + Estimate[x]
<1> DEFINE R == S \ {x}
<1>1. R \in SUBSET Requests /\ x \in Requests \ R /\ S = R \cup {x} /\ IsFiniteSet(R)
  BY FS_RemoveElement
<1> HIDE DEF R
<1>2. Sum(R) \in Nat /\ Sum(R \cup {x}) = Sum(R) + Estimate[x]
  BY <1>1, SumAdd
<1> QED
  BY <1>1, <1>2 DEF R

-----------------------------------------------------------------------------
(* What is held, and the reservations it is held for.                      *)

Held == IsFiniteSet(Open) /\ wallet.reserved <= Sum(Open)

\* The three ways in which a step treats them: a reservation is opened, or
\* closed (also by a settlement that finds it closed), or all stay.
Opens(r) ==
    /\ r \notin Open
    /\ Open' = Open \cup {r}
    /\ wallet'.reserved = wallet.reserved + Estimate[r]

Closes(r) ==
    /\ Open' = Open \ {r}
    /\ wallet'.reserved = Without(wallet.reserved, Estimate[r])

Holds == Open' = Open /\ wallet'.reserved = wallet.reserved

LEMMA HeldStep ==
    ASSUME TypeOK, Held,
           Holds \/ \E r \in Requests : Opens(r) \/ Closes(r)
    PROVE  Held'
<1>1. IsFiniteSet(Open) /\ wallet.reserved <= Sum(Open)
  BY DEF Held
<1>2. Held' <=> IsFiniteSet(Open') /\ wallet'.reserved <= Sum(Open')
  BY DEF Held
<1>3. Open \in SUBSET Requests /\ wallet.reserved \in Nat
  BY DEF TypeOK, Open
<1>4. CASE Holds
  BY <1>1, <1>2, <1>4 DEF Holds
<1>5. ASSUME NEW r \in Requests, Opens(r)
      PROVE  Held'
  <2>1. r \in Requests \ Open
    BY <1>5 DEF Opens
  <2>2. /\ IsFiniteSet(Open \cup {r})
        /\ Sum(Open) \in Nat
        /\ Sum(Open \cup {r}) = Sum(Open) + Estimate[r]
    BY <1>1, <1>3, <2>1, SumAdd
  <2>3. Estimate[r] \in Nat
    BY CreditsAssumption
  <2>4. /\ Open' = Open \cup {r}
        /\ wallet'.reserved = wallet.reserved + Estimate[r]
    BY <1>5 DEF Opens
  <2>5. wallet'.reserved <= Sum(Open')
    BY <1>1, <1>3, <2>2, <2>3, <2>4
  <2> QED
    BY <1>2, <2>2, <2>4, <2>5
<1>6. ASSUME NEW r \in Requests, Closes(r)
      PROVE  Held'
  <2>1. CASE r \in Open
    <3>1. /\ IsFiniteSet(Open \ {r})
          /\ Sum(Open \ {r}) \in Nat
          /\ Sum(Open) = Sum(Open \ {r}) + Estimate[r]
      BY <1>1, <1>3, <2>1, SumRemove
    <3> QED
      BY <1>1, <1>2, <1>3, <1>6, <3>1 DEF Closes
  <2>2. CASE r \notin Open
    <3>1. Open' = Open /\ wallet'.reserved <= wallet.reserved
      BY <1>3, <1>6, <2>2 DEF Closes
    <3>2. Sum(Open) \in Nat
      BY <1>1, <1>3, SumIsUnits, UnitsFinite
    <3>3. wallet'.reserved \in Nat
      BY <1>3, <1>6 DEF Closes
    <3> QED
      BY <1>1, <1>2, <1>3, <3>1, <3>2, <3>3
  <2> QED
    BY <2>1, <2>2
<1> QED
  BY <1>4, <1>5, <1>6

\* Every step is of one of the three kinds.
LEMMA NextHeld ==
    ASSUME TypeOK, [Next]_vars
    PROVE  Holds \/ \E r \in Requests : Opens(r) \/ Closes(r)
<1>1. wallet \in Wallet /\ Renewed(wallet) \in Wallet /\ Renewed(wallet).reserved = wallet.reserved
  BY RenewedWallet DEF TypeOK
<1>2. ASSUME UNCHANGED <<wallet, reservation>>
      PROVE  Holds
  BY <1>2 DEF Holds, Open
<1>3. ASSUME NEW c \in Calls, Reserve(c)
      PROVE  Holds \/ \E r \in Requests : Opens(r)
  <2> DEFINE r == call[c].request
  <2>1. r \in Requests
    BY <1>3, CallShape DEF Reserve
  <2>2. CASE UNCHANGED <<wallet, reservation>>
    BY <1>2, <2>2
  <2>3. CASE ~UNCHANGED <<wallet, reservation>>
    <3>1. /\ reservation[r] = "none"
          /\ wallet' = [Renewed(wallet) EXCEPT !.reserved = @ + Estimate[r]]
          /\ reservation' = [reservation EXCEPT ![r] = "reserved"]
      BY <1>3, <2>3 DEF Reserve
    <3>2. r \notin Open /\ Open' = Open \cup {r}
      BY <2>1, <3>1 DEF Open, TypeOK
    <3>3. wallet'.reserved = wallet.reserved + Estimate[r]
      BY <1>1, <3>1
    <3> QED
      BY <2>1, <3>2, <3>3 DEF Opens
  <2> QED
    BY <2>2, <2>3
<1>4. ASSUME NEW c \in Calls, Settle(c)
      PROVE  Holds \/ \E r \in Requests : Closes(r)
  <2> DEFINE r == call[c].request
  <2>1. r \in Requests
    BY <1>4, CallShape DEF Settle
  <2>2. CASE UNCHANGED <<wallet, reservation>>
    BY <1>2, <2>2
  <2>3. CASE ~UNCHANGED <<wallet, reservation>>
    <3>1. PICK charge \in Charges(c) : Settled(c, charge)
      BY <1>4, <2>3 DEF Settle, SettleFails
    <3>2. /\ wallet' = SettledWallet(Renewed(wallet), r, Taken(Renewed(wallet), charge), charge)
          /\ reservation' = [reservation EXCEPT ![r] = "settled"]
      BY <3>1 DEF Settled
    <3>3. Open' = Open \ {r}
      BY <2>1, <3>2 DEF Open, TypeOK
    <3>4. wallet'.reserved = Without(wallet.reserved, Estimate[r])
      BY <1>1, <3>2 DEF SettledWallet
    <3> QED
      BY <2>1, <3>3, <3>4 DEF Closes
  <2> QED
    BY <2>2, <2>3
<1>5. ASSUME NEW c \in Calls, Release(c)
      PROVE  Holds \/ \E r \in Requests : Closes(r)
  <2> DEFINE r == call[c].request
  <2>1. r \in Requests
    BY <1>5, CallShape DEF Release
  <2>2. CASE ~Releasable(r)
    BY <1>2, <1>5, <2>2 DEF Release
  <2>3. CASE Releasable(r)
    <3>1. /\ wallet' = [Renewed(wallet) EXCEPT !.reserved = Without(@, Estimate[r])]
          /\ reservation' = [reservation EXCEPT ![r] = "released"]
      BY <1>5, <2>3 DEF Release
    <3>2. Open' = Open \ {r}
      BY <2>1, <3>1 DEF Open, TypeOK
    <3>3. wallet'.reserved = Without(wallet.reserved, Estimate[r])
      BY <1>1, <3>1
    <3> QED
      BY <2>1, <3>2, <3>3 DEF Closes
  <2> QED
    BY <2>2, <2>3
<1>6. ASSUME NEW c \in Calls, OverviewCommit(c)
      PROVE  Holds
  BY <1>1, <1>6 DEF OverviewCommit, Holds, Open
<1>7. ASSUME NEW c \in Calls, Find(c) \/ Fail(c) \/ ClientCloses(c) \/ OverviewRead(c)
      PROVE  Holds
  BY <1>2, <1>7 DEF Find, Fail, ClientCloses, OverviewRead
<1>8. ASSUME NEW p \in Purchases, Shop(p)
      PROVE  Holds
  <2>1. /\ reservation' = reservation
        /\ \/ wallet' = wallet
           \/ wallet' = [Renewed(wallet) EXCEPT !.purchased = @ + Pack]
           \/ wallet' = [Renewed(wallet) EXCEPT !.purchased = @ - Lesser(wallet.purchased, Pack)]
    BY <1>8 DEF Shop, CreatePurchase, Pay, GiveBack, VerifyPurchase, Webhook, CompletePurchase, Reverse
  <2>2. wallet'.reserved = wallet.reserved
    BY <1>1, <2>1
  <2> QED
    BY <2>1, <2>2 DEF Holds, Open
<1>9. CASE CycleEnds \/ PlanChanges
  BY <1>1, <1>9 DEF CycleEnds, PlanChanges, Holds, Open
<1>10. ASSUME NEW r \in Requests, Expire(r)
       PROVE  Holds
  BY <1>10 DEF Expire, Holds, Open, TypeOK
<1>11. CASE UNCHANGED vars
  BY <1>2, <1>11 DEF vars
<1> QED
  BY <1>3, <1>4, <1>5, <1>6, <1>7, <1>8, <1>9, <1>10, <1>11 DEF Next, Serve

-----------------------------------------------------------------------------
(***************************************************************************)
(* The invariant: types, the bound on what is held, the finality of a      *)
(* charge and the cover of purchased credits hold together in every state, *)
(* however the sessions' transactions interleave.                          *)
(***************************************************************************)
THEOREM CreditsInvariance == Spec => []IInv
BY Initially, Inductive, PTL DEF Spec

\* In particular no balance of the wallet ever becomes negative.
THEOREM BalancesAreNatural == Spec => []TypeOK
<1>1. IInv => TypeOK
  BY DEF IInv
<1> QED
  BY <1>1, CreditsInvariance, PTL

\* The atomic UPDATE of reserve does not let concurrent requests overspend.
THEOREM ReserveNeverOverspends == Spec => []NoOverspend
<1>1. IInv => NoOverspend
  BY DEF IInv
<1> QED
  BY <1>1, CreditsInvariance, PTL

\* What was charged stays settled: no late release undoes it.
THEOREM ChargesAreFinal == Spec => []ChargeIsSettled
<1>1. IInv => ChargeIsSettled
  BY DEF IInv
<1> QED
  BY <1>1, CreditsInvariance, PTL

\* Purchased credits are covered by completed purchases, in whatever order the
\* provider's events and the verification arrive.
THEOREM PurchasesCoverCredits == Spec => []PurchasedIsPaid
<1>1. IInv => PurchasedIsPaid
  <2> SUFFICES ASSUME IInv
               PROVE  PurchasedIsPaid
    OBVIOUS
  <2>1. Completed = {p \in Purchases : /\ purchase[p] = "completed"
                                       /\ Refunded(p) => p \in late}
    BY DEF IInv, RefundsReverse, Completed
  <2> QED
    BY <2>1 DEF IInv, Covered, PurchasedIsPaid
<1> QED
  BY <1>1, CreditsInvariance, PTL

\* Credits are held for open reservations only, whatever sessions overlap, settle
\* twice, or settle for less than was reserved.
THEOREM CreditsAreHeldForOpen == Spec => []HeldForOpen
<1>1. Init => Held
  <2> SUFFICES ASSUME Init
               PROVE  Held
    OBVIOUS
  <2>1. Open = {} /\ wallet.reserved = 0
    BY DEF Init, Open
  <2>2. Sum({}) \in Nat /\ IsFiniteSet({})
    BY FS_EmptySet, SumIsUnits, UnitsFinite
  <2> QED
    BY <2>1, <2>2 DEF Held
<1>2. IInv /\ Held /\ [Next]_vars => Held'
  BY HeldStep, NextHeld DEF IInv
<1>3. Held => HeldForOpen
  BY DEF Held, HeldForOpen, Sum
<1> QED
  BY <1>1, <1>2, <1>3, CreditsInvariance, PTL DEF Spec
=============================================================================
