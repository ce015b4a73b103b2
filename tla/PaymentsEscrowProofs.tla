------------------------- MODULE PaymentsEscrowProofs -------------------------
(***************************************************************************)
(* Payments implements SplitEscrow for every value of the constants: the   *)
(* initial states map to initial states, every step to a step or a         *)
(* stutter.                                                                *)
(***************************************************************************)
EXTENDS PaymentsEscrow, PaymentsProofs

(* A step that leaves the wallets and the view of every key is a stutter.  *)
LEMMA Stutter ==
    ASSUME wallet' = wallet,
           \A k \in Keys : /\ StageOf(k)' = StageOf(k)
                           /\ payments'[Main(k)].due = payments[Main(k)].due
                           /\ HeldBy(k)' = HeldBy(k)
                           /\ AskedBy(k)' = AskedBy(k)
    PROVE  UNCHANGED Escrow!vars
  BY DEF Escrow!vars

(* A step that changes the view of one key only. *)
OnlyView(k) ==
    \A j \in Keys \ {k} : /\ StageOf(j)' = StageOf(j)
                          /\ payments'[Main(j)].due = payments[Main(j)].due
                          /\ HeldBy(j)' = HeldBy(j)
                          /\ AskedBy(j)' = AskedBy(j)

(* Two keys have different rows: a step on the rows of one key that        *)
(* compensates at most its leg changes the view of that key only.          *)
LEMMA ViewsAreSeparate ==
    ASSUME NEW k \in Keys,
           \A p \in PaymentIds \ {Main(k), Leg(k)} : payments'[p] = payments[p],
           \A j \in Keys \ {k} : Leg(j) \in compensated' <=> Leg(j) \in compensated
    PROVE  OnlyView(k)
  <1> SUFFICES ASSUME NEW j \in Keys \ {k}
               PROVE  /\ StageOf(j)' = StageOf(j)
                      /\ payments'[Main(j)].due = payments[Main(j)].due
                      /\ HeldBy(j)' = HeldBy(j)
                      /\ AskedBy(j)' = AskedBy(j)
    BY DEF OnlyView
  <1>1. payments'[Main(j)] = payments[Main(j)] /\ payments'[Leg(j)] = payments[Leg(j)]
    BY RowNames
  <1> QED
    BY <1>1 DEF StageOf, HeldBy, AskedBy, Retained

(* An offer: the key was unused, the due had no open attempt, and what is  *)
(* held leaves the balance.                                                *)
LEMMA IsOffer ==
    ASSUME IInv, NEW k \in Keys, NEW d \in Dues, NEW h \in 0 .. Amount[d],
           Unused(k), OpenAttempts(d) = {}, OnlyView(k),
           h <= wallet[Owner[d]],
           wallet' = [wallet EXCEPT ![Owner[d]] = @ - h],
           StageOf(k)' = IF h = Amount[d] THEN "spent" ELSE "open",
           payments'[Main(k)].due = d,
           HeldBy(k)' = h,
           AskedBy(k)' = Amount[d] - h
    PROVE  Escrow!Next
  <1>1. StageOf(k) = "none"
    BY DEF Unused, StageOf
  <1>2. \A x \in Keys : StageOf(x) = "open" => payments[Main(x)].due # d
    BY RowNames DEF OpenAttempts, StageOf, IInv, TypeOK, Rows, PaymentStatuses
  <1>3. [j \in Keys |-> StageOf(j)]' =
            [[j \in Keys |-> StageOf(j)] EXCEPT ![k] = IF h = Amount[d] THEN "spent" ELSE "open"]
    BY DEF OnlyView
  <1>4. [j \in Keys |-> payments[Main(j)].due]' =
            [[j \in Keys |-> payments[Main(j)].due] EXCEPT ![k] = d]
    BY DEF OnlyView
  <1>5. [j \in Keys |-> HeldBy(j)]' = [[j \in Keys |-> HeldBy(j)] EXCEPT ![k] = h]
    BY DEF OnlyView
  <1>6. [j \in Keys |-> AskedBy(j)]' =
            [[j \in Keys |-> AskedBy(j)] EXCEPT ![k] = Amount[d] - h]
    BY DEF OnlyView
  <1>7. Escrow!Offer(k, d, h)
    BY <1>1, <1>2, <1>3, <1>4, <1>5, <1>6 DEF Escrow!Offer
  <1> QED
    BY <1>7 DEF Escrow!Next

(* An open offer that is spent. *)
LEMMA IsSpend ==
    ASSUME NEW k \in Keys, OnlyView(k), wallet' = wallet,
           StageOf(k) = "open", StageOf(k)' = "spent",
           payments'[Main(k)].due = payments[Main(k)].due,
           HeldBy(k)' = HeldBy(k), AskedBy(k)' = AskedBy(k)
    PROVE  Escrow!Next
  <1>1. [j \in Keys |-> StageOf(j)]' = [[j \in Keys |-> StageOf(j)] EXCEPT ![k] = "spent"]
    BY DEF OnlyView
  <1>2. /\ [j \in Keys |-> payments[Main(j)].due]' = [j \in Keys |-> payments[Main(j)].due]
        /\ [j \in Keys |-> HeldBy(j)]' = [j \in Keys |-> HeldBy(j)]
        /\ [j \in Keys |-> AskedBy(j)]' = [j \in Keys |-> AskedBy(j)]
    BY DEF OnlyView
  <1>3. Escrow!Spend(k)
    BY <1>1, <1>2 DEF Escrow!Spend
  <1> QED
    BY <1>3 DEF Escrow!Next

(* An open offer that is returned: what it held is back in the wallet. *)
LEMMA IsReturn ==
    ASSUME NEW k \in Keys, OnlyView(k),
           wallet' = [wallet EXCEPT ![Owner[payments[Main(k)].due]] = @ + HeldBy(k)],
           StageOf(k) = "open", StageOf(k)' = "returned",
           payments'[Main(k)].due = payments[Main(k)].due,
           HeldBy(k)' = 0, AskedBy(k)' = AskedBy(k)
    PROVE  Escrow!Next
  <1>1. [j \in Keys |-> StageOf(j)]' = [[j \in Keys |-> StageOf(j)] EXCEPT ![k] = "returned"]
    BY DEF OnlyView
  <1>2. [j \in Keys |-> HeldBy(j)]' = [[j \in Keys |-> HeldBy(j)] EXCEPT ![k] = 0]
    BY DEF OnlyView
  <1>3. /\ [j \in Keys |-> payments[Main(j)].due]' = [j \in Keys |-> payments[Main(j)].due]
        /\ [j \in Keys |-> AskedBy(j)]' = [j \in Keys |-> AskedBy(j)]
    BY DEF OnlyView
  <1>4. Escrow!Return(k)
    BY <1>1, <1>2, <1>3 DEF Escrow!Return
  <1> QED
    BY <1>4 DEF Escrow!Next

-----------------------------------------------------------------------------
(* Only online payments are ever open: a wallet payment is settled when it *)
(* is created.                                                             *)
OpenIsOnline ==
    \A k \in Keys :
        payments[Main(k)].status = "PENDING" => payments[Main(k)].method = "ONLINE"

(* A new ordinary payment holds nothing and asks for the whole due. *)
LEMMA CreateIsOffer ==
    ASSUME IInv, NEW k \in Keys, NEW d \in Dues, CreatePaymentCommand(k, d)
    PROVE  Escrow!Next
  <1> USE DEF IInv, Tables
  <1>1. /\ payments'[Main(k)] = Row("PENDING", "ONLINE", d, Amount[d], NoOrder)
        /\ \A p \in PaymentIds \ {Main(k)} : payments'[p] = payments[p]
        /\ UNCHANGED <<compensated, wallet>>
    BY RowNames DEF TypeOK, CreatePaymentCommand
  <1>2. payments[Leg(k)].status = "NONE" /\ payments'[Leg(k)] = payments[Leg(k)]
    BY <1>1, RowNames DEF CreatePaymentCommand, Unused, RowsCoverTheDue
  <1>3. /\ StageOf(k)' = "open"
        /\ payments'[Main(k)].due = d
        /\ HeldBy(k)' = 0
        /\ AskedBy(k)' = Amount[d]
    BY <1>1, <1>2 DEF StageOf, HeldBy, AskedBy, Retained, Row
  <1>4. OnlyView(k)
    BY <1>1, ViewsAreSeparate
  <1>5. /\ Amount[d] \in Nat \ {0}
        /\ wallet[Owner[d]] \in Nat
        /\ wallet \in [Members -> Nat]
        /\ Owner[d] \in Members
    BY PaymentsAssumption DEF TypeOK
  <1>6. /\ 0 \in 0 .. Amount[d]
        /\ 0 <= wallet[Owner[d]]
        /\ wallet' = [wallet EXCEPT ![Owner[d]] = @ - 0]
        /\ Amount[d] # 0 /\ Amount[d] - 0 = Amount[d]
    BY <1>1, <1>5
  <1> QED
    BY <1>3, <1>4, <1>6, IsOffer DEF CreatePaymentCommand

(* A payment from the wallet holds the whole due and is spent at once. *)
LEMMA WalletPaymentIsOffer ==
    ASSUME IInv, NEW k \in Keys, NEW d \in Dues, Unused(k), OpenAttempts(d) = {},
           SettleFromWallet(k, d)
    PROVE  Escrow!Next
  <1> USE DEF IInv, Tables
  <1>1. /\ payments'[Main(k)] = Row("SUCCEEDED", "WALLET", d, Amount[d], NoOrder)
        /\ \A p \in PaymentIds \ {Main(k)} : payments'[p] = payments[p]
        /\ UNCHANGED compensated
    BY RowNames DEF TypeOK, SettleFromWallet
  <1>2. /\ StageOf(k)' = "spent"
        /\ payments'[Main(k)].due = d
        /\ HeldBy(k)' = Amount[d]
        /\ AskedBy(k)' = 0
    BY <1>1 DEF StageOf, HeldBy, AskedBy, Row
  <1>3. OnlyView(k)
    BY <1>1, ViewsAreSeparate
  <1>4. /\ Amount[d] \in 0 .. Amount[d]
        /\ Amount[d] - Amount[d] = 0
    BY PaymentsAssumption
  <1> QED
    BY <1>2, <1>3, <1>4, IsOffer DEF SettleFromWallet, Affordable

(* A split holds the whole balance and asks for the remainder. *)
LEMMA SplitIsOffer ==
    ASSUME IInv, NEW k \in Keys, NEW d \in Dues, Unused(k), OpenAttempts(d) = {},
           SplitWalletThenOnline(k, d)
    PROVE  Escrow!Next
  <1> USE DEF IInv, Tables
  <1> DEFINE taken == wallet[Owner[d]]
  <1>1. /\ Amount[d] \in Nat
        /\ taken \in Nat
        /\ taken < Amount[d]
    BY PaymentsAssumption DEF TypeOK, SplitWalletThenOnline
  <1>2. /\ payments[Leg(k)].status = "NONE"
        /\ Leg(k) \notin compensated
        /\ UNCHANGED compensated
    BY DEF Unused, RowsCoverTheDue, CompensatedLegsExist, SplitWalletThenOnline
  <1>3. /\ payments'[Main(k)] = Row("PENDING", "ONLINE", d, Amount[d] - taken, NoOrder)
        /\ taken > 0 => payments'[Leg(k)] = Row("SUCCEEDED", "WALLET", d, taken, NoOrder)
        /\ taken = 0 => payments'[Leg(k)] = payments[Leg(k)]
        /\ \A p \in PaymentIds \ {Main(k), Leg(k)} : payments'[p] = payments[p]
    BY <1>1, RowNames DEF TypeOK, SplitWalletThenOnline, OnlineRemainder
  <1>4. /\ StageOf(k)' = "open"
        /\ payments'[Main(k)].due = d
        /\ AskedBy(k)' = Amount[d] - taken
    BY <1>3 DEF StageOf, AskedBy, Row
  <1>5. HeldBy(k)' = taken
    <2>1. CASE taken > 0
      BY <1>2, <1>3, <2>1 DEF HeldBy, Retained, Row
    <2>2. CASE taken = 0
      BY <1>2, <1>3, <2>2 DEF HeldBy, Retained, Row
    <2> QED
      BY <1>1, <2>1, <2>2
  <1>6. OnlyView(k)
    BY <1>2, <1>3, ViewsAreSeparate
  <1>7. /\ taken \in 0 .. Amount[d]
        /\ taken <= wallet[Owner[d]]
        /\ taken # Amount[d]
        /\ wallet' = [wallet EXCEPT ![Owner[d]] = @ - taken]
    <2>1. wallet' = [wallet EXCEPT ![Owner[d]] = 0]
      BY DEF SplitWalletThenOnline
    <2>2. taken - taken = 0
      BY <1>1
    <2>3. wallet' = [wallet EXCEPT ![Owner[d]] = wallet[Owner[d]] - taken]
      BY <2>1, <2>2, Zenon
    <2> QED
      BY <1>1, <2>3
  <1> QED
    BY <1>4, <1>5, <1>6, <1>7, IsOffer

(* Closing an open online leg returns exactly what its wallet leg held. *)
LEMMA CloseIsReturn ==
    ASSUME IInv, OpenIsOnline, NEW k \in Keys, NEW outcome \in {"FAILED", "CANCELLED"},
           payments[Main(k)].status = "PENDING", CloseAndCompensate(k, outcome)
    PROVE  Escrow!Next
  <1> USE DEF IInv, Tables
  <1>1. /\ payments[Main(k)] \in Rows
        /\ payments[Main(k)].method = "ONLINE"
        /\ payments[Leg(k)] \in Rows
    BY RowNames DEF TypeOK, OpenIsOnline
  <1>2. /\ payments'[Main(k)] = [payments[Main(k)] EXCEPT !.status = outcome]
        /\ \A p \in PaymentIds \ {Main(k)} : payments'[p] = payments[p]
    BY RowNames DEF TypeOK, CloseAndCompensate
  <1>3. /\ payments'[Main(k)].status = outcome
        /\ payments'[Main(k)].method = "ONLINE"
        /\ payments'[Main(k)].due = payments[Main(k)].due
        /\ payments'[Main(k)].amount = payments[Main(k)].amount
        /\ payments'[Leg(k)] = payments[Leg(k)]
    BY <1>1, <1>2, RowNames DEF Rows
  <1>4. HeldBy(k) = OwedToWallet(k)
    BY <1>1 DEF HeldBy, Retained, OwedToWallet, RowsCoverTheDue, SplitLegHeldInEscrow
  <1>5. HeldBy(k)' = 0
    <2>1. CASE OwedToWallet(k) > 0
      BY <1>3, <2>1 DEF CloseAndCompensate, HeldBy, Retained
    <2>2. CASE ~(OwedToWallet(k) > 0)
      <3>1. payments[Leg(k)].status # "SUCCEEDED"
        BY <1>1, <2>2
           DEF OwedToWallet, RowsCoverTheDue, SplitLegHeldInEscrow, Live
      <3> QED
        BY <1>3, <3>1 DEF HeldBy, Retained
    <2> QED
      BY <2>1, <2>2
  <1>6. /\ StageOf(k) = "open"
        /\ StageOf(k)' = "returned"
        /\ AskedBy(k)' = AskedBy(k)
    BY <1>1, <1>3 DEF StageOf, AskedBy
  <1>7. OnlyView(k)
    BY <1>2, RowNames, ViewsAreSeparate DEF CloseAndCompensate
  <1>8. wallet' = [wallet EXCEPT ![Owner[payments[Main(k)].due]] = @ + HeldBy(k)]
    BY <1>4 DEF CloseAndCompensate
  <1> QED
    BY <1>3, <1>5, <1>6, <1>7, <1>8, IsReturn

(* A settlement spends what was held. *)
LEMMA SettleIsSpend ==
    ASSUME IInv, OpenIsOnline, NEW k \in Keys, NEW t, SettlePayment(k, t)
    PROVE  Escrow!Next
  <1> USE DEF IInv, Tables
  <1>1. /\ payments[Main(k)] \in Rows
        /\ payments[Main(k)].status = "PENDING"
        /\ payments[Main(k)].method = "ONLINE"
    BY RowNames DEF TypeOK, OpenIsOnline, SettlePayment
  <1>2. /\ payments'[Main(k)] = [payments[Main(k)] EXCEPT !.status = "SUCCEEDED"]
        /\ \A p \in PaymentIds \ {Main(k)} : payments'[p] = payments[p]
        /\ UNCHANGED <<compensated, wallet>>
    BY RowNames DEF TypeOK, SettlePayment
  <1>3. /\ payments'[Main(k)].status = "SUCCEEDED"
        /\ payments'[Main(k)].method = "ONLINE"
        /\ payments'[Main(k)].due = payments[Main(k)].due
        /\ payments'[Main(k)].amount = payments[Main(k)].amount
        /\ payments'[Leg(k)] = payments[Leg(k)]
    BY <1>1, <1>2, RowNames DEF Rows
  <1>4. /\ StageOf(k) = "open"
        /\ StageOf(k)' = "spent"
        /\ HeldBy(k)' = HeldBy(k)
        /\ AskedBy(k)' = AskedBy(k)
    BY <1>1, <1>2, <1>3 DEF StageOf, HeldBy, AskedBy, Retained
  <1>5. OnlyView(k)
    BY <1>2, ViewsAreSeparate
  <1> QED
    BY <1>2, <1>3, <1>4, <1>5, IsSpend

(* An order changes nothing that an offer consists of. *)
LEMMA OrderIsStutter ==
    ASSUME IInv, NEW k \in Keys, NEW c \in Calls, PersistOrder(k, c)
    PROVE  UNCHANGED Escrow!vars
  <1>1. \A j \in Keys : /\ payments'[Main(j)].status = payments[Main(j)].status
                        /\ payments'[Main(j)].method = payments[Main(j)].method
                        /\ payments'[Main(j)].due = payments[Main(j)].due
                        /\ payments'[Main(j)].amount = payments[Main(j)].amount
                        /\ payments'[Leg(j)] = payments[Leg(j)]
    <2>1. \A j \in Keys : payments[Main(j)] \in Rows
      BY RowNames DEF IInv, TypeOK
    <2>2. CASE payments' = payments
      BY <2>2
    <2>3. CASE payments' = [payments EXCEPT ![Main(k)].order = c]
      <3>1. /\ payments'[Main(k)] = [payments[Main(k)] EXCEPT !.order = c]
            /\ \A p \in PaymentIds \ {Main(k)} : payments'[p] = payments[p]
        BY <2>3, RowNames DEF IInv, TypeOK
      <3> QED
        BY <2>1, <3>1, RowNames, RowUpdate DEF Rows
    <2> QED
      BY <2>2, <2>3 DEF PersistOrder
  <1>2. \A j \in Keys : /\ StageOf(j)' = StageOf(j)
                        /\ HeldBy(j)' = HeldBy(j)
                        /\ AskedBy(j)' = AskedBy(j)
    BY <1>1 DEF PersistOrder, StageOf, HeldBy, AskedBy, Retained
  <1> QED
    BY <1>1, <1>2, Stutter DEF PersistOrder

(* Steps that move neither rows, compensations nor wallets. *)
LEMMA QuietIsStutter ==
    ASSUME UNCHANGED <<payments, compensated, wallet>>
    PROVE  UNCHANGED Escrow!vars
  <1>1. \A j \in Keys : /\ StageOf(j)' = StageOf(j)
                        /\ HeldBy(j)' = HeldBy(j)
                        /\ AskedBy(j)' = AskedBy(j)
    BY DEF StageOf, HeldBy, AskedBy, Retained
  <1> QED
    BY <1>1, Stutter

(* Every step of Payments is a step of SplitEscrow or a stutter. *)
LEMMA StepSimulation ==
    ASSUME IInv, OpenIsOnline, [Next]_vars
    PROVE  [Escrow!Next]_(Escrow!vars)
  <1>1. MemberNext => Escrow!Next \/ UNCHANGED Escrow!vars
    BY CreateIsOffer, WalletPaymentIsOffer, SplitIsOffer, CloseIsReturn, OrderIsStutter,
       QuietIsStutter
       DEF MemberNext, PayDueFromWallet, StartPlanWalletFirstSplitPayment,
           CancelPendingPayment, OpenCheckout
  <1>2. ProviderNext => Escrow!Next \/ UNCHANGED Escrow!vars
    BY CloseIsReturn, SettleIsSpend, QuietIsStutter
       DEF ProviderNext, ProviderCaptures, ProviderAttemptFails, DeliverCapture,
           DeliverFailure, FailPayment
  <1>3. ASSUME NEW m \in Members, NEW n \in CreditAmounts, ApplyFoundationWalletCredit(m, n)
        PROVE  Escrow!Next
    <2>1. \A j \in Keys : /\ StageOf(j)' = StageOf(j)
                          /\ HeldBy(j)' = HeldBy(j)
                          /\ AskedBy(j)' = AskedBy(j)
      BY <1>3 DEF ApplyFoundationWalletCredit, StageOf, HeldBy, AskedBy, Retained
    <2>2. Escrow!Deposit(m, n)
      BY <1>3, <2>1 DEF ApplyFoundationWalletCredit, Escrow!Deposit
    <2> QED
      BY <2>2 DEF Escrow!Next
  <1>4. AdminNext => Escrow!Next \/ UNCHANGED Escrow!vars
    BY <1>3, QuietIsStutter DEF AdminNext, ExtendPlanDue
  <1>5. JobsNext \/ Tick => UNCHANGED Escrow!vars
    BY QuietIsStutter
       DEF JobsNext, ReadPlanReminders, WritePlanReminders, ReadMembershipDues,
           WriteMembershipDues, Tick
  <1>6. UNCHANGED vars => UNCHANGED Escrow!vars
    BY QuietIsStutter DEF vars
  <1> QED
    BY <1>1, <1>2, <1>4, <1>5, <1>6 DEF Next

(* Steps keep every open payment online. *)
LEMMA OpenIsOnlineStep ==
    ASSUME IInv, OpenIsOnline, [Next]_vars
    PROVE  OpenIsOnline'
  <1> USE DEF IInv, OpenIsOnline
  <1>1. payments' = payments => OpenIsOnline'
    OBVIOUS
  <1>2. ASSUME NEW k \in Keys, NEW r,
               payments'[Main(k)] = r, r.status = "PENDING" => r.method = "ONLINE",
               \A j \in Keys \ {k} : payments'[Main(j)] = payments[Main(j)]
        PROVE  OpenIsOnline'
    BY <1>2
  <1>3. ASSUME NEW k \in Keys, NEW d \in Dues, CreatePaymentCommand(k, d)
        PROVE  OpenIsOnline'
    <2>1. /\ payments'[Main(k)] = Row("PENDING", "ONLINE", d, Amount[d], NoOrder)
          /\ \A j \in Keys \ {k} : payments'[Main(j)] = payments[Main(j)]
      BY <1>3, RowNames DEF TypeOK, CreatePaymentCommand
    <2> QED
      BY <1>2, <2>1 DEF Row
  <1>4. ASSUME NEW k \in Keys, NEW d \in Dues, SettleFromWallet(k, d)
        PROVE  OpenIsOnline'
    <2>1. /\ payments'[Main(k)] = Row("SUCCEEDED", "WALLET", d, Amount[d], NoOrder)
          /\ \A j \in Keys \ {k} : payments'[Main(j)] = payments[Main(j)]
      BY <1>4, RowNames DEF TypeOK, SettleFromWallet
    <2> QED
      BY <1>2, <2>1 DEF Row
  <1>5. ASSUME NEW k \in Keys, NEW d \in Dues, SplitWalletThenOnline(k, d)
        PROVE  OpenIsOnline'
    <2>1. /\ payments'[Main(k)] = Row("PENDING", "ONLINE", d, OnlineRemainder(d), NoOrder)
          /\ \A j \in Keys \ {k} : payments'[Main(j)] = payments[Main(j)]
      BY <1>5, RowNames DEF TypeOK, SplitWalletThenOnline
    <2> QED
      BY <1>2, <2>1 DEF Row
  <1>6. ASSUME NEW k \in Keys, NEW s \in PaymentStatuses \ {"PENDING"},
               payments' = [payments EXCEPT ![Main(k)].status = s]
        PROVE  OpenIsOnline'
    <2>1. /\ payments[Main(k)] \in Rows
          /\ payments'[Main(k)] = [payments[Main(k)] EXCEPT !.status = s]
          /\ \A j \in Keys \ {k} : payments'[Main(j)] = payments[Main(j)]
      BY <1>6, RowNames DEF TypeOK
    <2> QED
      BY <1>2, <2>1 DEF Rows
  <1>7. ASSUME NEW k \in Keys, NEW c \in Calls, PersistOrder(k, c)
        PROVE  OpenIsOnline'
    <2>1. CASE ~OrderAccepted(k)
      BY <1>1, <1>7, <2>1 DEF PersistOrder
    <2>2. CASE OrderAccepted(k)
      <3>1. /\ payments[Main(k)] \in Rows
            /\ payments'[Main(k)] = [payments[Main(k)] EXCEPT !.order = c]
            /\ \A j \in Keys \ {k} : payments'[Main(j)] = payments[Main(j)]
        BY <1>7, <2>2, RowNames DEF TypeOK, PersistOrder
      <3> QED
        BY <1>2, <2>2, <3>1 DEF Rows, OrderAccepted
    <2> QED
      BY <2>1, <2>2
  <1>8. MemberNext => OpenIsOnline'
    BY <1>1, <1>3, <1>4, <1>5, <1>6, <1>7
       DEF MemberNext, PayDueFromWallet, StartPlanWalletFirstSplitPayment,
           CancelPendingPayment, CloseAndCompensate, OpenCheckout, PaymentStatuses
  <1>9. ProviderNext => OpenIsOnline'
    BY <1>1, <1>6
       DEF ProviderNext, ProviderCaptures, ProviderAttemptFails, DeliverCapture,
           DeliverFailure, SettlePayment, FailPayment, CloseAndCompensate, PaymentStatuses
  <1>10. AdminNext \/ JobsNext \/ Tick \/ UNCHANGED vars => OpenIsOnline'
    BY <1>1
       DEF AdminNext, ApplyFoundationWalletCredit, ExtendPlanDue, JobsNext,
           ReadPlanReminders, WritePlanReminders, ReadMembershipDues,
           WriteMembershipDues, Tick, vars
  <1> QED
    BY <1>8, <1>9, <1>10 DEF Next

(* Initial states map to initial states. *)
LEMMA InitSimulation == Init => Escrow!Init
  <1> SUFFICES ASSUME Init PROVE Escrow!Init
    OBVIOUS
  <1>1. \A k \in Keys : payments[Main(k)] = NoRow /\ payments[Leg(k)] = NoRow
    BY RowNames DEF Init
  <1> QED
    BY <1>1 DEF Init, Escrow!Init, StageOf, HeldBy, AskedBy, Retained, NoRow, Row

(* Payments implements SplitEscrow: whatever webhooks, cancellations,      *)
(* checkout calls and jobs do, wallet money set aside for a due is spent   *)
(* whole or returned whole, once.                                          *)
THEOREM Refinement == Spec => ImplementsEscrow
  <1>1. Init => OpenIsOnline
    BY RowNames DEF Init, OpenIsOnline, NoRow, Row
  <1>2. Spec => []OpenIsOnline
    BY <1>1, Invariance, OpenIsOnlineStep, PTL DEF Spec
  <1> QED
    BY <1>2, Invariance, InitSimulation, StepSimulation, PTL
       DEF Spec, ImplementsEscrow, Escrow!Spec
=============================================================================
