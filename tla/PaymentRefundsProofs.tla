------------------------ MODULE PaymentRefundsProofs ------------------------
(***************************************************************************)
(* Proofs about CashCollections and PaymentRefunds.  The invariant of      *)
(* Payments survives the cash operations, and the collections keep step    *)
(* with their payments; a refund never contradicts the provider, and a     *)
(* payment under refund stays settled and receipted.                       *)
(***************************************************************************)
EXTENDS PaymentRefunds, PaymentsProofs

(* What the provider and the checkout know of belongs to an online row: no *)
(* webhook can ever reach the payment of a collection.                     *)
ProviderSeesOnlineRows ==
    \A k \in Keys :
        \/ payments[Main(k)].status # "NONE" /\ payments[Main(k)].method = "ONLINE"
        \/ /\ payments[Main(k)].order = NoOrder
           /\ captured[k] = 0
           /\ ~attemptFailed[k]
           /\ \A c \in Calls : checkout[k][c] # "ordered"

(* CollectionMatchesPayment, except that something else may have cancelled *)
(* the payment of a collection that awaits verification.  No action here   *)
(* does, but this is what the proofs about the actions need; they serve a  *)
(* composition in which one does (EventCancellation).                      *)
CollectionFollowsPayment ==
    \A k \in Keys :
        /\ collections[k] # "NONE" <=> payments[Main(k)].method = "CASH"
        /\ collections[k] = "PENDING_ADMIN_VERIFICATION" =>
               payments[Main(k)].status \in {"PENDING", "CANCELLED"}
        /\ collections[k] = "PAID" => payments[Main(k)].status = "SUCCEEDED"
        /\ collections[k] = "REJECTED" => payments[Main(k)].status = "FAILED"

CashBase ==
    /\ IInv
    /\ ProviderSeesOnlineRows
    /\ collections \in [Keys -> CollectionStatuses]
    /\ CollectionFollowsPayment
    /\ CollectedOnce

CashIInv == CashBase /\ CollectionMatchesPayment

(* Steps that close rows without a wallet leg, open or cancelled ones, and *)
(* may close unpaid dues.                                                  *)
RowCloses(p) ==
    /\ payments[p].status \in {"PENDING", "CANCELLED"}
    /\ payments'[p].status \in {"FAILED", "CANCELLED"}
    /\ payments'[p].method = payments[p].method
    /\ payments'[p].due = payments[p].due
    /\ payments'[p].amount = payments[p].amount
    /\ payments'[p].order = payments[p].order
    /\ payments'[p].status = "CANCELLED" => payments[p].order = NoOrder
    /\ \A k \in Keys : p = Main(k) => payments[Leg(k)].status = "NONE"

(* Such steps keep the tables. *)
LEMMA TablesCloseRows ==
    ASSUME IInv, UNCHANGED <<compensated, plans>>,
           \A p \in PaymentIds : payments'[p] = payments[p] \/ RowCloses(p),
           \A d \in Dues : dueStatus'[d] = "PAID" <=> dueStatus[d] = "PAID"
    PROVE  Tables'
  <1> USE DEF IInv, Tables
  <1>1. \A k \in Keys : payments'[Leg(k)] = payments[Leg(k)]
    BY RowNames DEF RowCloses, RowsCoverTheDue
  <1>2. \A k \in Keys : payments'[Main(k)] = payments[Main(k)] \/ RowCloses(Main(k))
    BY RowNames
  <1>3. \A p \in PaymentIds : payments'[p].status = "PENDING" => payments'[p] = payments[p]
    BY DEF RowCloses
  <1>4. OneOpenAttempt'
    BY <1>3 DEF OneOpenAttempt
  <1>5. PaidDueHasNoOpenAttempt'
    <2> SUFFICES ASSUME NEW p \in PaymentIds, payments[p].status = "PENDING"
                 PROVE  dueStatus'[payments[p].due] # "PAID"
      BY <1>3 DEF PaidDueHasNoOpenAttempt
    <2>1. PICK k \in Keys : p = Main(k)
      BY OpenRowsAreMain
    <2>2. payments[p].due \in Dues
      BY <2>1 DEF RowsCoverTheDue
    <2> QED
      BY <2>2 DEF PaidDueHasNoOpenAttempt
  <1>6. RowsCoverTheDue'
    BY <1>1, <1>2 DEF RowsCoverTheDue, RowCloses
  <1>7. SplitLegHeldInEscrow' /\ CompensatedLegsExist'
    BY <1>1, <1>2 DEF SplitLegHeldInEscrow, CompensatedLegsExist, RowCloses
  <1>8. CancelledHasNoOrder'
    BY <1>2 DEF CancelledHasNoOrder, RowCloses
  <1>9. \A k \in Keys, d \in Dues : PaidUnder(k, d)' <=> PaidUnder(k, d)
    BY <1>2 DEF PaidUnder, RowCloses
  <1>10. \A k \in Keys, d \in Dues : PaidUnder(k, d) => payments'[Main(k)] = payments[Main(k)]
    BY <1>2 DEF PaidUnder, RowCloses
  <1>11. \A k \in Keys : Retained(k)' = Retained(k)
    BY <1>1 DEF Retained
  <1>12. \A d \in Dues : FullyCollected(d) => FullyCollected(d)'
    BY <1>9, <1>10, <1>11 DEF FullyCollected
  <1>13. PaidDueIsCollected'
    BY <1>12 DEF PaidDueIsCollected, PlanDues
  <1>14. OrdinaryDueStaysPaid' /\ OrdinaryDuePaidOnce'
    BY <1>9 DEF OrdinaryDueStaysPaid, OrdinaryDuePaidOnce
  <1> QED
    BY <1>4, <1>5, <1>6, <1>7, <1>8, <1>13, <1>14

(* What a step of Payments does to the main row of a key: nothing, or it   *)
(* creates the row, or it changes an online row and leaves its method.     *)
RowStep(k) ==
    \/ payments'[Main(k)] = payments[Main(k)]
    \/ /\ payments[Main(k)].status = "NONE"
       /\ payments'[Main(k)].status # "NONE"
       /\ payments'[Main(k)].method \in {"ONLINE", "WALLET"}
       /\ payments'[Main(k)].order = NoOrder
    \/ /\ payments[Main(k)].status # "NONE"
       /\ payments'[Main(k)].status # "NONE"
       /\ payments[Main(k)].method = "ONLINE"
       /\ payments'[Main(k)].method = "ONLINE"

(* Replacing the row of an unused key by a new row is such a step.         *)
LEMMA RowCreated ==
    ASSUME TypeOK, NEW j \in Keys, payments[Main(j)].status = "NONE",
           NEW status \in PaymentStatuses, NEW method \in {"ONLINE", "WALLET"},
           NEW due, NEW amount, NEW k \in Keys,
           payments'[Main(j)] = Row(status, method, due, amount, NoOrder),
           k # j => payments'[Main(k)] = payments[Main(k)]
    PROVE  RowStep(k)
  BY DEF RowStep, Row, PaymentStatuses

(* Changing the status of an online row is such a step. *)
LEMMA RowClosed ==
    ASSUME TypeOK, NEW j \in Keys, payments[Main(j)].status # "NONE",
           payments[Main(j)].method = "ONLINE", NEW status \in PaymentStatuses,
           payments' = [payments EXCEPT ![Main(j)].status = status], NEW k \in Keys
    PROVE  RowStep(k)
  <1>1. /\ payments[Main(j)] \in Rows
        /\ payments'[Main(j)] = [payments[Main(j)] EXCEPT !.status = status]
        /\ k # j => payments'[Main(k)] = payments[Main(k)]
    BY RowNames DEF TypeOK
  <1>2. payments'[Main(j)].status # "NONE" /\ payments'[Main(j)].method = "ONLINE"
    BY <1>1 DEF Rows, PaymentStatuses
  <1> QED
    BY <1>1, <1>2 DEF RowStep

(* Every step of Payments is one on every main row.                        *)
LEMMA PaymentsRowStep ==
    ASSUME IInv, ProviderSeesOnlineRows, Next, NEW k \in Keys
    PROVE  RowStep(k)
  <1> USE DEF IInv
  <1>1. payments' = payments => RowStep(k)
    BY DEF RowStep
  <1>2. ASSUME NEW j \in Keys, NEW d \in Dues, CreatePaymentCommand(j, d)
        PROVE  RowStep(k)
    <2>1. /\ payments'[Main(j)] = Row("PENDING", "ONLINE", d, Amount[d], NoOrder)
          /\ k # j => payments'[Main(k)] = payments[Main(k)]
      BY <1>2, RowNames DEF TypeOK, CreatePaymentCommand
    <2> QED
      BY <1>2, <2>1, RowCreated DEF CreatePaymentCommand, Unused, PaymentStatuses
  <1>3. ASSUME NEW j \in Keys, NEW d \in Dues, Unused(j), SettleFromWallet(j, d)
        PROVE  RowStep(k)
    <2>1. /\ payments'[Main(j)] = Row("SUCCEEDED", "WALLET", d, Amount[d], NoOrder)
          /\ k # j => payments'[Main(k)] = payments[Main(k)]
      BY <1>3, RowNames DEF TypeOK, SettleFromWallet
    <2> QED
      BY <1>3, <2>1, RowCreated DEF Unused, PaymentStatuses
  <1>4. ASSUME NEW j \in Keys, NEW d \in Dues, Unused(j), SplitWalletThenOnline(j, d)
        PROVE  RowStep(k)
    <2>1. /\ payments'[Main(j)] = Row("PENDING", "ONLINE", d, OnlineRemainder(d), NoOrder)
          /\ k # j => payments'[Main(k)] = payments[Main(k)]
      BY <1>4, RowNames DEF TypeOK, SplitWalletThenOnline
    <2> QED
      BY <1>4, <2>1, RowCreated DEF Unused, PaymentStatuses
  <1>5. ASSUME NEW j \in Keys, CancelPendingPayment(j)
        PROVE  RowStep(k)
    BY <1>5, RowClosed DEF CancelPendingPayment, CloseAndCompensate, PaymentStatuses
  <1>6. ASSUME NEW j \in Keys, NEW c \in Calls, PersistOrder(j, c)
        PROVE  RowStep(k)
    <2>1. CASE ~OrderAccepted(j)
      BY <1>1, <1>6, <2>1 DEF PersistOrder
    <2>2. CASE OrderAccepted(j)
      <3>1. /\ payments[Main(j)].status # "NONE"
            /\ payments[Main(j)].method = "ONLINE"
        BY <1>6 DEF ProviderSeesOnlineRows, PersistOrder
      <3>2. /\ payments[Main(j)] \in Rows
            /\ payments'[Main(j)] = [payments[Main(j)] EXCEPT !.order = c]
            /\ k # j => payments'[Main(k)] = payments[Main(k)]
        BY <1>6, <2>2, RowNames DEF TypeOK, PersistOrder
      <3>3. /\ payments'[Main(j)].status # "NONE"
            /\ payments'[Main(j)].method = "ONLINE"
        BY <3>1, <3>2 DEF Rows
      <3> QED
        BY <3>1, <3>2, <3>3 DEF RowStep
    <2> QED
      BY <2>1, <2>2
  <1>7. ASSUME NEW j \in Keys, DeliverCapture(j)
        PROVE  RowStep(k)
    <2>1. payments[Main(j)].status # "NONE" /\ payments[Main(j)].method = "ONLINE"
      BY <1>7 DEF ProviderSeesOnlineRows, DeliverCapture
    <2> QED
      BY <1>7, <2>1, RowClosed DEF DeliverCapture, SettlePayment, PaymentStatuses
  <1>8. ASSUME NEW j \in Keys, DeliverFailure(j)
        PROVE  RowStep(k)
    <2>1. payments[Main(j)].status # "NONE" /\ payments[Main(j)].method = "ONLINE"
      BY <1>8 DEF ProviderSeesOnlineRows, DeliverFailure
    <2> QED
      BY <1>8, <2>1, RowClosed
         DEF DeliverFailure, FailPayment, CloseAndCompensate, PaymentStatuses
  <1>9. MemberNext => RowStep(k)
    BY <1>1, <1>2, <1>3, <1>4, <1>5, <1>6
       DEF MemberNext, PayDueFromWallet, StartPlanWalletFirstSplitPayment, OpenCheckout
  <1>10. ProviderNext => RowStep(k)
    BY <1>1, <1>7, <1>8 DEF ProviderNext, ProviderCaptures, ProviderAttemptFails
  <1>11. AdminNext \/ JobsNext \/ Tick => RowStep(k)
    BY <1>1
       DEF AdminNext, ApplyFoundationWalletCredit, ExtendPlanDue, JobsNext,
           ReadPlanReminders, WritePlanReminders, ReadMembershipDues,
           WriteMembershipDues, Tick
  <1> QED
    BY <1>9, <1>10, <1>11 DEF Next

(* Steps of Payments keep what the provider sees tied to online rows: a    *)
(* checkout opens on an online row, an order comes from a checkout, and    *)
(* captures and failed attempts from an order.                             *)
LEMMA ProviderSeesOnlineRowsStep ==
    ASSUME IInv, ProviderSeesOnlineRows, Next
    PROVE  ProviderSeesOnlineRows'
  <1> USE DEF IInv
  <1> SUFFICES ASSUME NEW k \in Keys,
                      ~(payments'[Main(k)].status # "NONE" /\ payments'[Main(k)].method = "ONLINE")
               PROVE  /\ payments'[Main(k)].order = NoOrder
                      /\ captured'[k] = 0
                      /\ ~attemptFailed'[k]
                      /\ \A c \in Calls : checkout'[k][c] # "ordered"
    BY DEF ProviderSeesOnlineRows
  <1>1. RowStep(k)
    BY PaymentsRowStep
  <1>2. ~(payments[Main(k)].status # "NONE" /\ payments[Main(k)].method = "ONLINE")
    BY <1>1 DEF RowStep
  <1>3. /\ payments[Main(k)].order = NoOrder
        /\ captured[k] = 0
        /\ ~attemptFailed[k]
        /\ \A c \in Calls : checkout[k][c] # "ordered"
    BY <1>2 DEF ProviderSeesOnlineRows
  <1>4. payments'[Main(k)].order = NoOrder
    BY <1>1, <1>2, <1>3 DEF RowStep
  <1>5. /\ captured \in [Keys -> 0 .. MaxTime]
        /\ attemptFailed \in [Keys -> BOOLEAN]
        /\ checkout \in [Keys -> [Calls -> {"idle", "ordered", "done"}]]
    BY DEF TypeOK
  <1>6. \/ /\ UNCHANGED <<captured, attemptFailed>>
           /\ \A c \in Calls : checkout'[k][c] # "ordered"
        \/ UNCHANGED <<checkout, attemptFailed>> /\ captured'[k] = captured[k]
        \/ UNCHANGED <<checkout, captured>> /\ attemptFailed'[k] = attemptFailed[k]
    <2>1. ASSUME NEW j \in Keys, NEW c \in Calls, OpenCheckout(j, c)
          PROVE  UNCHANGED <<captured, attemptFailed>> /\ checkout'[k] = checkout[k]
      BY <1>2, <1>5, <2>1 DEF OpenCheckout
    <2>2. ASSUME NEW j \in Keys, NEW c \in Calls, PersistOrder(j, c)
          PROVE  UNCHANGED <<captured, attemptFailed>> /\ checkout'[k] = checkout[k]
      BY <1>3, <1>5, <2>2 DEF PersistOrder
    <2>3. ASSUME NEW j \in Keys, ProviderCaptures(j)
          PROVE  UNCHANGED <<checkout, attemptFailed>> /\ captured'[k] = captured[k]
      BY <1>3, <1>5, <2>3 DEF ProviderCaptures
    <2>4. ASSUME NEW j \in Keys, ProviderAttemptFails(j)
          PROVE  UNCHANGED <<checkout, captured>> /\ attemptFailed'[k] = attemptFailed[k]
      BY <1>3, <1>5, <2>4 DEF ProviderAttemptFails
    <2>5. CASE UNCHANGED <<checkout, captured, attemptFailed>>
      BY <2>5
    <2>6. MemberNext => \/ \E j \in Keys, c \in Calls : OpenCheckout(j, c) \/ PersistOrder(j, c)
                        \/ UNCHANGED <<checkout, captured, attemptFailed>>
      BY DEF MemberNext, CreatePaymentCommand, PayDueFromWallet, SettleFromWallet,
             StartPlanWalletFirstSplitPayment, SplitWalletThenOnline,
             CancelPendingPayment, CloseAndCompensate, outside
    <2>7. ProviderNext => \/ \E j \in Keys : ProviderCaptures(j) \/ ProviderAttemptFails(j)
                          \/ UNCHANGED <<checkout, captured, attemptFailed>>
      BY DEF ProviderNext, DeliverCapture, DeliverFailure, SettlePayment, FailPayment,
             CloseAndCompensate, outside
    <2>8. AdminNext \/ JobsNext \/ Tick => UNCHANGED <<checkout, captured, attemptFailed>>
      BY DEF AdminNext, ApplyFoundationWalletCredit, ExtendPlanDue, JobsNext,
             ReadPlanReminders, WritePlanReminders, ReadMembershipDues,
             WriteMembershipDues, Tick, outside
    <2> QED
      BY <1>3, <2>1, <2>2, <2>3, <2>4, <2>5, <2>6, <2>7, <2>8 DEF Next
  <1> QED
    BY <1>3, <1>4, <1>6

(* Steps of Payments leave the rows of collections alone. *)
LEMMA CashBasePaymentsStep ==
    ASSUME CashBase, Next, UNCHANGED collections
    PROVE  CashBase' /\ (CollectionMatchesPayment => CollectionMatchesPayment')
  <1> USE DEF CashBase
  <1>1. IInv'
    BY Inductive
  <1>2. ProviderSeesOnlineRows'
    BY ProviderSeesOnlineRowsStep
  <1>3. \A k \in Keys : RowStep(k)
    BY PaymentsRowStep
  <1>4. \A k \in Keys : collections[k] # "NONE" =>
            /\ payments[Main(k)].method = "CASH"
            /\ payments[Main(k)].status # "NONE"
    BY DEF CollectionFollowsPayment, CollectionStatuses
  <1>5. \A k \in Keys : collections[k] # "NONE" => payments'[Main(k)] = payments[Main(k)]
    BY <1>3, <1>4 DEF RowStep
  <1>6. \A k \in Keys : collections[k] = "NONE" => payments'[Main(k)].method # "CASH"
    BY <1>3 DEF RowStep, CollectionFollowsPayment
  <1>7. /\ CollectionFollowsPayment'
        /\ CollectionMatchesPayment => CollectionMatchesPayment'
    BY <1>5, <1>6 DEF CollectionFollowsPayment, CollectionMatchesPayment
  <1>8. CollectedOnce'
    BY <1>5 DEF CollectedOnce
  <1> QED
    BY <1>1, <1>2, <1>7, <1>8

(* A new collection: its due has neither an open attempt nor a collection  *)
(* that was not rejected.                                                  *)
LEMMA CashBaseCollect ==
    ASSUME CashBase, NEW k \in Keys, NEW d \in Dues, CollectCashForDue(k, d)
    PROVE  CashBase' /\ (CollectionMatchesPayment => CollectionMatchesPayment')
  <1> USE DEF CashBase
  <1>1. /\ payments' \in [PaymentIds -> Rows]
        /\ Tables'
    BY TablesNewPayment DEF CollectCashForDue, Methods
  <1>2. IInv'
    BY <1>1 DEF IInv, TypeOK, CollectCashForDue, outside
  <1>3. /\ payments'[Main(k)].status = "PENDING"
        /\ payments'[Main(k)].method = "CASH"
        /\ payments'[Main(k)].due = d
        /\ payments'[Main(k)].order = NoOrder
        /\ \A j \in Keys \ {k} : payments'[Main(j)] = payments[Main(j)]
    BY RowNames DEF IInv, TypeOK, CollectCashForDue, Row
  <1>4. /\ collections' \in [Keys -> CollectionStatuses]
        /\ collections'[k] = "PENDING_ADMIN_VERIFICATION"
        /\ \A j \in Keys \ {k} : collections'[j] = collections[j]
    BY DEF CollectCashForDue, CollectionStatuses
  <1>5. ProviderSeesOnlineRows'
    BY <1>3 DEF ProviderSeesOnlineRows, CollectCashForDue, Unused, outside
  <1>6. /\ CollectionFollowsPayment'
        /\ CollectionMatchesPayment => CollectionMatchesPayment'
    BY <1>3, <1>4 DEF CollectionFollowsPayment, CollectionMatchesPayment
  <1>7. \A j \in Keys \ {k} : payments[Main(j)].due = d => collections[j] \in {"NONE", "REJECTED"}
    BY DEF CollectCashForDue, CanCreateCashCollectionForDue, PriorCollections
  <1>8. CollectedOnce'
    BY <1>3, <1>4, <1>7 DEF CollectedOnce
  <1> QED
    BY <1>2, <1>4, <1>5, <1>6, <1>8

(* An approval is a settlement of the payment of the collection. *)
LEMMA CashBaseApprove ==
    ASSUME CashBase, NEW k \in Keys, ApproveCashCollection(k)
    PROVE  CashBase' /\ (CollectionMatchesPayment => CollectionMatchesPayment')
  <1> USE DEF CashBase
  <1>1. IInv'
    BY TypeSettle, TablesSettle DEF IInv, Tables, ApproveCashCollection
  <1>2. payments[Main(k)] \in Rows
    BY RowNames DEF IInv, TypeOK
  <1>3. /\ payments'[Main(k)] = [payments[Main(k)] EXCEPT !.status = "SUCCEEDED"]
        /\ \A j \in Keys \ {k} : payments'[Main(j)] = payments[Main(j)]
        /\ UNCHANGED outside
    BY RowNames DEF IInv, TypeOK, ApproveCashCollection, SettlePayment
  <1>4. /\ payments'[Main(k)].status = "SUCCEEDED"
        /\ payments'[Main(k)].method = payments[Main(k)].method
        /\ payments'[Main(k)].due = payments[Main(k)].due
        /\ payments'[Main(k)].order = payments[Main(k)].order
    BY <1>2, <1>3 DEF Rows
  <1>5. /\ collections[k] = "PENDING_ADMIN_VERIFICATION"
        /\ collections' \in [Keys -> CollectionStatuses]
        /\ collections'[k] = "PAID"
        /\ \A j \in Keys \ {k} : collections'[j] = collections[j]
    BY DEF ApproveCashCollection, CollectionStatuses
  <1>6. ProviderSeesOnlineRows'
    BY <1>3, <1>4, <1>5 DEF ProviderSeesOnlineRows, CollectionFollowsPayment, outside
  <1>7. /\ CollectionFollowsPayment'
        /\ CollectionMatchesPayment => CollectionMatchesPayment'
    <2>1. CollectionFollowsPayment'
      BY <1>3, <1>4, <1>5 DEF CollectionFollowsPayment
    <2>2. CollectionMatchesPayment => CollectionMatchesPayment'
      BY <1>3, <1>4, <1>5 DEF CollectionMatchesPayment
    <2> QED
      BY <2>1, <2>2
  <1>8. \A j \in Keys : /\ payments'[Main(j)].due = payments[Main(j)].due
                        /\ collections'[j] \in {"NONE", "REJECTED"}
                               <=> collections[j] \in {"NONE", "REJECTED"}
    BY <1>3, <1>4, <1>5
  <1>9. CollectedOnce'
    BY <1>8 DEF CollectedOnce
  <1> QED
    BY <1>1, <1>5, <1>6, <1>7, <1>9

(* A rejection closes a payment that never has a wallet leg.               *)
LEMMA CashBaseReject ==
    ASSUME CashBase, NEW k \in Keys, RejectCashCollection(k)
    PROVE  CashBase' /\ (CollectionMatchesPayment => CollectionMatchesPayment')
  <1> USE DEF CashBase
  <1>1. /\ collections[k] = "PENDING_ADMIN_VERIFICATION"
        /\ collections' \in [Keys -> CollectionStatuses]
        /\ collections'[k] = "REJECTED"
        /\ \A j \in Keys \ {k} : collections'[j] = collections[j]
    BY DEF RejectCashCollection, CollectionStatuses
  <1>2. /\ payments[Main(k)].status \in {"PENDING", "CANCELLED"}
        /\ payments[Main(k)].method = "CASH"
        /\ payments[Leg(k)].status = "NONE"
    BY <1>1 DEF CollectionFollowsPayment, IInv, Tables, RowsCoverTheDue
  <1>3. payments[Main(k)] \in Rows
    BY RowNames DEF IInv, TypeOK
  <1>4. /\ payments'[Main(k)] = [payments[Main(k)] EXCEPT !.status = "FAILED"]
        /\ \A p \in PaymentIds \ {Main(k)} : payments'[p] = payments[p]
        /\ \A j \in Keys \ {k} : payments'[Main(j)] = payments[Main(j)]
        /\ UNCHANGED outside
    BY RowNames DEF IInv, TypeOK, RejectCashCollection
  <1>5. /\ payments'[Main(k)].status = "FAILED"
        /\ payments'[Main(k)].method = payments[Main(k)].method
        /\ payments'[Main(k)].due = payments[Main(k)].due
        /\ payments'[Main(k)].amount = payments[Main(k)].amount
        /\ payments'[Main(k)].order = payments[Main(k)].order
    BY <1>3, <1>4 DEF Rows
  <1>6. RowCloses(Main(k))
    BY <1>2, <1>5, RowNames DEF RowCloses
  <1>7. Tables'
    BY <1>4, <1>6, TablesCloseRows DEF RejectCashCollection
  <1>8. TypeOK'
    <2>1. [payments[Main(k)] EXCEPT !.status = "FAILED"] \in Rows
      BY <1>3 DEF Rows, PaymentStatuses
    <2>2. payments' \in [PaymentIds -> Rows]
      BY <2>1, RowNames DEF RejectCashCollection, IInv, TypeOK
    <2> QED
      BY <2>2 DEF RejectCashCollection, IInv, TypeOK, outside
  <1>9. ProviderSeesOnlineRows'
    BY <1>2, <1>4, <1>5 DEF ProviderSeesOnlineRows, outside
  <1>10. /\ CollectionFollowsPayment'
         /\ CollectionMatchesPayment => CollectionMatchesPayment'
    <2>1. CollectionFollowsPayment'
      BY <1>1, <1>2, <1>4, <1>5 DEF CollectionFollowsPayment
    <2>2. /\ collections'[k] # "PENDING_ADMIN_VERIFICATION"
          /\ collections'[k] \notin {"NONE", "PAID"}
      BY <1>1
    <2>3. CollectionMatchesPayment => CollectionMatchesPayment'
      BY <1>1, <1>2, <1>4, <1>5, <2>2 DEF CollectionMatchesPayment
    <2> QED
      BY <2>1, <2>3
  <1>11. CollectedOnce'
    BY <1>1, <1>4, <1>5 DEF CollectedOnce
  <1> QED
    BY <1>1, <1>7, <1>8, <1>9, <1>10, <1>11 DEF IInv

(* Every step of the composition preserves the invariant. *)
LEMMA CashBaseInductive ==
    ASSUME CashBase, [NextWithCash]_cashVars
    PROVE  CashBase' /\ (CollectionMatchesPayment => CollectionMatchesPayment')
  <1>1. CASE UNCHANGED cashVars
    <2>1. [Next]_vars /\ UNCHANGED <<payments, outside, collections>>
      BY <1>1 DEF cashVars, vars, outside
    <2>2. IInv'
      BY <2>1, Inductive DEF CashBase
    <2> QED
      BY <2>1, <2>2 DEF CashBase, ProviderSeesOnlineRows, CollectionFollowsPayment,
                        CollectionMatchesPayment, CollectedOnce, outside
  <1> QED
    BY <1>1, CashBasePaymentsStep, CashBaseCollect, CashBaseApprove, CashBaseReject
       DEF NextWithCash, CashNext

(* The invariant of the composition on its own. *)
LEMMA CashInductive == CashIInv /\ [NextWithCash]_cashVars => CashIInv'
  BY CashBaseInductive DEF CashIInv

(* No collection exists at the start. *)
LEMMA CashInitInv == CashInit => CashIInv
  <1> SUFFICES ASSUME CashInit PROVE CashIInv
    OBVIOUS
  <1>1. IInv
    BY TypeInit, TablesInit DEF CashInit, IInv
  <1>2. \A k \in Keys : payments[Main(k)] = NoRow
    BY RowNames DEF CashInit, Init
  <1> QED
    BY <1>1, <1>2 DEF CashInit, Init, CashIInv, CashBase, ProviderSeesOnlineRows, NoRow, Row,
                      CollectionStatuses, CollectionFollowsPayment,
                      CollectionMatchesPayment, CollectedOnce

(* The inductive invariant holds in every reachable state. *)
THEOREM CashInvariance == CashSpec => []CashIInv
  BY CashInitInv, CashInductive, PTL DEF CashSpec

(* With cash collections, too, every table stays typed. *)
THEOREM CashTypeCorrect == CashSpec => []CashTypeOK
  <1>1. CashIInv => CashTypeOK
    BY DEF CashIInv, CashBase, IInv, CashTypeOK
  <1> QED
    BY <1>1, CashInvariance, PTL

(* Cash and online attempts on one due exclude each other. *)
THEOREM SingleAttemptWithCash == CashSpec => []OneOpenAttempt
  <1>1. CashIInv => OneOpenAttempt
    BY DEF CashIInv, CashBase, IInv, Tables
  <1> QED
    BY <1>1, CashInvariance, PTL

(* A collection and its payment always tell the same story. *)
THEOREM CollectionsAreConsistent == CashSpec => []CollectionMatchesPayment
  <1>1. CashIInv => CollectionMatchesPayment
    BY DEF CashIInv
  <1> QED
    BY <1>1, CashInvariance, PTL

(* A due is collected in cash at most once. *)
THEOREM CashIsCollectedOnce == CashSpec => []CollectedOnce
  <1>1. CashIInv => CollectedOnce
    BY DEF CashIInv, CashBase
  <1> QED
    BY <1>1, CashInvariance, PTL

-----------------------------------------------------------------------------
(***************************************************************************)
(* Refunds.                                                                *)
(***************************************************************************)
(* A final answer still to be recorded is the provider's last word.        *)
AnswersAreCurrent ==
    \A k \in Keys, c \in Calls :
        submissions[k][c] \in {"processed", "failed"} => submissions[k][c] = providerRefunds[k]

RefundIInv ==
    /\ CashBase
    /\ RefundTypeOK
    /\ Founded
    /\ AnswersAreCurrent
    /\ RefundAgreesWithProvider
    /\ RefundedPaymentStands

(* A settled payment stays as it is. *)
SettledRowsStand ==
    \A p \in PaymentIds : payments[p].status = "SUCCEEDED" => payments'[p] = payments[p]

(* With cash collections, too, every step keeps the books of the payments: *)
(* a collection and its rejection are not in them, and an approval settles *)
(* one payment that took nothing from a wallet.                            *)
LEMMA CashKeepsBooks ==
    ASSUME CashBase, Founded, NextWithCash
    PROVE  BooksKept /\ Founded' /\ SettledRowsStand
  <1> USE DEF CashBase, IInv
  <1>0. BooksBase
    BY DEF BooksBase
  <1>1. ASSUME NEW k \in Keys, NEW d \in Dues, CollectCashForDue(k, d)
        PROVE  BooksKept /\ MethodsFit'
    BY <1>0, <1>1, OpeningKeepsBooks DEF CollectCashForDue, Methods
  <1>2. ASSUME NEW k \in Keys, ApproveCashCollection(k)
        PROVE  BooksKept /\ MethodsFit'
    BY <1>0, <1>2, SettlementKeepsBooks DEF ApproveCashCollection
  <1>3. ASSUME NEW k \in Keys, RejectCashCollection(k)
        PROVE  BooksKept /\ MethodsFit'
    <2>1. /\ payments'[Main(k)].status = "FAILED"
          /\ \A p \in PaymentIds \ {Main(k)} : payments'[p] = payments[p]
      BY <1>3, StatusWritten DEF RejectCashCollection, PaymentStatuses
    <2>2. payments[Main(k)].status # "SUCCEEDED"
      BY <1>3 DEF RejectCashCollection, CollectionFollowsPayment
    <2>3. \A p \in PaymentIds : Stands(p)
      BY <2>1, <2>2, RowNames, RowsStand
    <2> QED
      BY <1>0, <1>3, <2>1, <2>3, BooksIdle, MethodsFitMain DEF RejectCashCollection, Founded
  <1>4. Next => BooksKept /\ Founded'
    BY <1>0, PaymentsKeepBooks
  <1>5. BooksKept /\ Founded'
    BY <1>1, <1>2, <1>3, <1>4 DEF NextWithCash, CashNext, BooksKept, Founded
  <1> QED
    BY <1>5 DEF BooksKept, SettledRowsStand, Succeeded

-----------------------------------------------------------------------------
(* Steps that leave refunds and the provider alone. *)
LEMMA RefundInvCashStep ==
    ASSUME RefundIInv, NextWithCash, UNCHANGED <<refunds, submissions, providerRefunds>>
    PROVE  RefundIInv'
  <1> USE DEF RefundIInv
  <1>1. CashBase'
    BY CashBaseInductive
  <1>2. SettledRowsStand /\ Founded'
    BY CashKeepsBooks
  <1>3. RefundTypeOK'
    BY <1>1 DEF RefundTypeOK, CashTypeOK, CashBase, IInv
  <1>4. AnswersAreCurrent'
    BY DEF AnswersAreCurrent
  <1>5. RefundedPaymentStands'
    BY <1>2 DEF RefundedPaymentStands, SettledRowsStand, Founded, Succeeded
  <1>6. RefundAgreesWithProvider'
    BY <1>2, RowNames
       DEF RefundAgreesWithProvider, RefundedPaymentStands, SettledRowsStand
  <1> QED
    BY <1>1, <1>2, <1>3, <1>4, <1>5, <1>6

(* What the books rest on is about payments and receipts only. *)
LEMMA FoundedFrame ==
    ASSUME Founded, UNCHANGED <<payments, receipts>>
    PROVE  Founded'
  BY DEF Founded, Succeeded, MethodsFit

(* Steps that move no payment and no due: a refund may credit the wallet   *)
(* and debit the ledger, everything the invariant of cash says stays.      *)
LEMMA RefundFrame ==
    ASSUME CashBase, wallet' \in [Members -> Nat], ledger' \in [credit : Nat, debit : Nat],
           UNCHANGED <<now, dueStatus, dueAt, payments, granted, compensated, receipts,
                       plans, outside, collections>>
    PROVE  CashBase'
  <1>1. TypeOK'
    BY DEF CashBase, IInv, TypeOK, outside
  <1>2. Tables'
    BY TablesFrame DEF CashBase, IInv
  <1> QED
    BY <1>1, <1>2 DEF CashBase, IInv, ProviderSeesOnlineRows, CollectionFollowsPayment,
                      CollectedOnce, outside

(* Settling a refund pays what the payment had moved. *)
LEMMA SettleRefundKeeps ==
    ASSUME RefundIInv, NEW p \in PaymentIds, SettlePaymentRefund(p)
    PROVE  /\ CashBase'
           /\ refunds' = [refunds EXCEPT ![p] = "SUCCEEDED"]
           /\ refunds[p] = "PENDING"
           /\ UNCHANGED <<payments, receipts>>
  <1>1. payments[p] \in Rows /\ payments[p].amount \in Nat
    BY DEF RefundIInv, CashBase, IInv, TypeOK, Rows
  <1>2. wallet' \in [Members -> Nat]
    <2>1. payments[p].status = "SUCCEEDED"
      BY DEF RefundIInv, RefundedPaymentStands, SettlePaymentRefund, AwaitsSettlement
    <2>2. payments[p].due \in Dues
      BY <2>1, RowNames
         DEF RefundIInv, CashBase, IInv, Tables, RowsCoverTheDue, SplitLegHeldInEscrow
    <2>3. Owner[payments[p].due] \in Members
      BY <2>2, PaymentsAssumption
    <2> QED
      BY <1>1, <2>3 DEF RefundIInv, CashBase, IInv, TypeOK, SettlePaymentRefund
  <1>3. ledger' \in [credit : Nat, debit : Nat]
    BY <1>1, TypedCredit DEF RefundIInv, CashBase, IInv, TypeOK, SettlePaymentRefund
  <1> QED
    BY <1>2, <1>3, RefundFrame DEF RefundIInv, SettlePaymentRefund, AwaitsSettlement

(* A refund gets its outcome: the payment keeps its own, and the provider  *)
(* must agree if the payment was made online.                              *)
LEMMA RefundDecided ==
    ASSUME RefundIInv, NEW p \in PaymentIds, refunds[p] = "PENDING",
           NEW outcome \in {"SUCCEEDED", "FAILED"},
           refunds' = [refunds EXCEPT ![p] = outcome],
           CashBase', UNCHANGED <<payments, receipts, providerRefunds>>,
           submissions' \in [Keys -> [Calls -> ProviderAnswers]], AnswersAreCurrent',
           \A k \in Keys : p = Main(k) /\ payments[p].method = "ONLINE" =>
               providerRefunds[k] = IF outcome = "SUCCEEDED" THEN "processed" ELSE "failed"
    PROVE  RefundIInv'
  <1> USE DEF RefundIInv
  <1>1. /\ refunds' \in [PaymentIds -> RefundStatuses]
        /\ refunds'[p] = outcome
        /\ \A q \in PaymentIds \ {p} : refunds'[q] = refunds[q]
    BY DEF RefundTypeOK, RefundStatuses
  <1>2. RefundTypeOK'
    BY <1>1 DEF RefundTypeOK, CashTypeOK, CashBase, IInv
  <1>3. Founded'
    BY FoundedFrame
  <1>4. RefundedPaymentStands'
    BY <1>1 DEF RefundedPaymentStands
  <1>5. RefundAgreesWithProvider'
    <2> SUFFICES ASSUME NEW k \in Keys, payments[Main(k)].method = "ONLINE"
                 PROVE  /\ refunds'[Main(k)] = "SUCCEEDED" => providerRefunds[k] = "processed"
                        /\ refunds'[Main(k)] = "FAILED" => providerRefunds[k] = "failed"
      BY DEF RefundAgreesWithProvider
    <2>1. CASE p = Main(k)
      BY <1>1, <2>1
    <2>2. CASE p # Main(k)
      BY <1>1, <2>2, RowNames DEF RefundAgreesWithProvider
    <2> QED
      BY <2>1, <2>2
  <1> QED
    BY <1>2, <1>3, <1>4, <1>5

(* Steps of a request or of the provider that decide no refund: the        *)
(* provider never takes back a final word.                                 *)
LEMMA RefundUndecided ==
    ASSUME RefundIInv, UNCHANGED <<cashVars, refunds>>,
           submissions' \in [Keys -> [Calls -> ProviderAnswers]],
           providerRefunds' \in [Keys -> ProviderAnswers],
           \A k \in Keys : providerRefunds[k] \in {"processed", "failed"} =>
               providerRefunds'[k] = providerRefunds[k],
           AnswersAreCurrent'
    PROVE  RefundIInv'
  <1> USE DEF RefundIInv
  <1>1. [Next]_vars /\ UNCHANGED <<payments, receipts, outside, collections>>
    BY DEF cashVars, vars, outside
  <1>2. CashBase'
    BY <1>1, RefundFrame DEF cashVars, vars, outside, CashBase, IInv, TypeOK
  <1>3. RefundTypeOK'
    BY <1>2 DEF RefundTypeOK, CashTypeOK, CashBase, IInv
  <1>4. Founded' /\ RefundedPaymentStands'
    BY <1>1, FoundedFrame DEF RefundedPaymentStands
  <1>5. RefundAgreesWithProvider'
    BY <1>1 DEF RefundAgreesWithProvider
  <1> QED
    BY <1>2, <1>3, <1>4, <1>5

(* Every step about refunds preserves the invariant. *)
LEMMA RefundInvStep ==
    ASSUME RefundIInv, RefundNext
    PROVE  RefundIInv'
  <1> USE DEF RefundIInv
  <1>0. /\ submissions \in [Keys -> [Calls -> ProviderAnswers]]
        /\ providerRefunds \in [Keys -> ProviderAnswers]
        /\ refunds \in [PaymentIds -> RefundStatuses]
    BY DEF RefundTypeOK
  <1>1. ASSUME NEW p \in PaymentIds, CreateRefundRequest(p)
        PROVE  RefundIInv'
    <2>1. CashBase'
      BY <1>1, RefundFrame DEF CreateRefundRequest, cashVars, vars, outside, CashBase, IInv, TypeOK
    <2>2. /\ refunds' \in [PaymentIds -> RefundStatuses]
          /\ refunds'[p] = "PENDING"
          /\ \A q \in PaymentIds \ {p} : refunds'[q] = refunds[q]
          /\ payments[p].status = "SUCCEEDED"
          /\ UNCHANGED <<payments, receipts, submissions, providerRefunds>>
      BY <1>0, <1>1 DEF CreateRefundRequest, RefundStatuses, cashVars, vars
    <2>3. RefundTypeOK'
      BY <2>1, <2>2 DEF RefundTypeOK, CashTypeOK, CashBase, IInv
    <2>4. Founded' /\ RefundedPaymentStands' /\ AnswersAreCurrent'
      BY <2>2, FoundedFrame DEF RefundedPaymentStands, AnswersAreCurrent, Founded, Succeeded
    <2>5. RefundAgreesWithProvider'
      BY <2>2, RowNames DEF RefundAgreesWithProvider
    <2> QED
      BY <2>1, <2>3, <2>4, <2>5
  <1>2. ASSUME NEW p \in PaymentIds, SettleWithoutProvider(p)
        PROVE  RefundIInv'
    <2>1. AnswersAreCurrent'
      BY <1>2 DEF SettleWithoutProvider, AnswersAreCurrent
    <2> QED
      BY <1>0, <1>2, <2>1, SettleRefundKeeps, RefundDecided DEF SettleWithoutProvider
  <1>3. ASSUME NEW k \in Keys, NEW c \in Calls, NEW answer \in ProviderAnswers,
               SubmitRefund(k, c, answer)
        PROVE  RefundIInv'
    <2>1. /\ submissions' \in [Keys -> [Calls -> ProviderAnswers]]
          /\ providerRefunds' \in [Keys -> ProviderAnswers]
          /\ providerRefunds'[k] = answer
          /\ submissions'[k][c] = answer
          /\ \A j \in Keys \ {k} : providerRefunds'[j] = providerRefunds[j]
          /\ \A j \in Keys, x \in Calls :
                 <<j, x>> # <<k, c>> => submissions'[j][x] = submissions[j][x]
      BY <1>0, <1>3 DEF SubmitRefund
    <2>2. providerRefunds[k] \in {"none", answer}
      BY <1>3 DEF SubmitRefund
    <2>3. AnswersAreCurrent'
      BY <2>1, <2>2 DEF AnswersAreCurrent
    <2> QED
      BY <1>3, <2>1, <2>2, <2>3, RefundUndecided DEF SubmitRefund
  <1>4. ASSUME NEW k \in Keys, NEW c \in Calls, submissions[k][c] # "none",
               submissions' = [submissions EXCEPT ![k][c] = "none"],
               UNCHANGED providerRefunds
        PROVE  submissions' \in [Keys -> [Calls -> ProviderAnswers]] /\ AnswersAreCurrent'
    BY <1>0, <1>4 DEF AnswersAreCurrent, ProviderAnswers
  <1>5. ASSUME NEW k \in Keys, NEW c \in Calls, RecordAnswer(k, c)
        PROVE  RefundIInv'
    <2>1. submissions' \in [Keys -> [Calls -> ProviderAnswers]] /\ AnswersAreCurrent'
      BY <1>4, <1>5 DEF RecordAnswer
    <2>2. CASE AnswerOutcome(submissions[k][c]) = "SUCCEEDED" /\ SettlePaymentRefund(Main(k))
      <3>1. providerRefunds[k] = "processed" /\ UNCHANGED providerRefunds
        BY <1>5, <2>2 DEF RecordAnswer, AnswerOutcome, AnswersAreCurrent
      <3> QED
        BY <2>1, <2>2, <3>1, RowNames, SettleRefundKeeps, RefundDecided
    <2>3. CASE AnswerOutcome(submissions[k][c]) = "FAILED" /\ FailPaymentRefund(Main(k))
      <3>1. providerRefunds[k] = "failed" /\ UNCHANGED providerRefunds
        BY <1>5, <2>3 DEF RecordAnswer, AnswerOutcome, AnswersAreCurrent
      <3>2. CashBase' /\ UNCHANGED <<payments, receipts>>
        BY <2>3, RefundFrame
           DEF FailPaymentRefund, cashVars, vars, outside, CashBase, IInv, TypeOK
      <3> QED
        BY <2>1, <2>3, <3>1, <3>2, RowNames, RefundDecided DEF FailPaymentRefund
    <2>4. CASE UNCHANGED <<cashVars, refunds>>
      BY <1>0, <1>5, <2>1, <2>4, RefundUndecided DEF RecordAnswer
    <2> QED
      BY <1>5, <2>2, <2>3, <2>4 DEF RecordAnswer
  <1>6. ASSUME NEW k \in Keys, NEW c \in Calls, LoseAnswer(k, c)
        PROVE  RefundIInv'
    BY <1>0, <1>4, <1>6, RefundUndecided DEF LoseAnswer
  <1>7. ASSUME NEW k \in Keys, NEW outcome \in {"processed", "failed"},
               ProviderResolves(k, outcome)
        PROVE  RefundIInv'
    <2>1. /\ providerRefunds' \in [Keys -> ProviderAnswers]
          /\ \A j \in Keys \ {k} : providerRefunds'[j] = providerRefunds[j]
          /\ providerRefunds[k] = "pending"
      BY <1>0, <1>7 DEF ProviderResolves, ProviderAnswers
    <2>2. AnswersAreCurrent'
      BY <1>7, <2>1 DEF AnswersAreCurrent, ProviderResolves
    <2> QED
      BY <1>0, <1>7, <2>1, <2>2, RefundUndecided DEF ProviderResolves
  <1>8. ASSUME NEW k \in Keys, DeliverRefundProcessed(k)
        PROVE  RefundIInv'
    <2>1. AnswersAreCurrent'
      BY <1>8 DEF DeliverRefundProcessed, AnswersAreCurrent
    <2> QED
      BY <1>0, <1>8, <2>1, RowNames, SettleRefundKeeps, RefundDecided
         DEF DeliverRefundProcessed
  <1>9. ASSUME NEW k \in Keys, DeliverRefundFailed(k)
        PROVE  RefundIInv'
    <2>1. AnswersAreCurrent'
      BY <1>9 DEF DeliverRefundFailed, AnswersAreCurrent
    <2>2. CashBase' /\ UNCHANGED <<payments, receipts>>
      BY <1>9, RefundFrame
         DEF DeliverRefundFailed, FailPaymentRefund, cashVars, vars, outside, CashBase,
             IInv, TypeOK
    <2> QED
      BY <1>0, <1>9, <2>1, <2>2, RowNames, RefundDecided
         DEF DeliverRefundFailed, FailPaymentRefund
  <1> QED
    BY <1>1, <1>2, <1>3, <1>5, <1>6, <1>7, <1>8, <1>9 DEF RefundNext

(* Every step of the composition preserves the invariant. *)
LEMMA RefundInductive == RefundIInv /\ [NextWithRefunds]_refundVars => RefundIInv'
  <1> SUFFICES ASSUME RefundIInv, [NextWithRefunds]_refundVars PROVE RefundIInv'
    OBVIOUS
  <1>1. CASE UNCHANGED refundVars
    <2>1. AnswersAreCurrent'
      BY <1>1 DEF refundVars, RefundIInv, AnswersAreCurrent
    <2> QED
      BY <1>1, <2>1, RefundUndecided DEF refundVars, RefundIInv, RefundTypeOK
  <1> QED
    BY <1>1, RefundInvCashStep, RefundInvStep DEF NextWithRefunds

(* Nothing is refunded at the start. *)
LEMMA RefundInitInv == RefundInit => RefundIInv
  <1> SUFFICES ASSUME RefundInit PROVE RefundIInv
    OBVIOUS
  <1>1. CashBase
    BY CashInitInv DEF RefundInit, CashIInv
  <1>2. \A p \in PaymentIds : payments[p].status = "NONE"
    BY DEF RefundInit, CashInit, Init, NoRow, Row
  <1>3. RefundTypeOK /\ AnswersAreCurrent
    BY <1>1 DEF RefundInit, RefundTypeOK, CashTypeOK, CashBase, IInv, RefundStatuses,
                ProviderAnswers, AnswersAreCurrent
  <1>4. Founded /\ RefundedPaymentStands
    BY BooksInit DEF RefundInit, CashInit, RefundedPaymentStands
  <1>5. RefundAgreesWithProvider
    BY RowNames DEF RefundInit, RefundAgreesWithProvider
  <1> QED
    BY <1>1, <1>3, <1>4, <1>5 DEF RefundIInv

(* The inductive invariant holds in every reachable state. *)
THEOREM RefundInvariance == RefundSpec => []RefundIInv
  BY RefundInitInv, RefundInductive, PTL DEF RefundSpec

(* With refunds, too, every table stays typed: no wallet goes negative. *)
THEOREM RefundTypeCorrect == RefundSpec => []RefundTypeOK
  <1>1. RefundIInv => RefundTypeOK
    BY DEF RefundIInv
  <1> QED
    BY <1>1, RefundInvariance, PTL

(* A refund row never contradicts the provider, however many requests,     *)
(* lost answers and webhooks overtake each other.                          *)
THEOREM RefundsAgreeWithProvider == RefundSpec => []RefundAgreesWithProvider
  <1>1. RefundIInv => RefundAgreesWithProvider
    BY DEF RefundIInv
  <1> QED
    BY <1>1, RefundInvariance, PTL

(* The payment and the receipt under a refund are immutable. *)
THEOREM RefundedPaymentsStand == RefundSpec => []RefundedPaymentStands
  <1>1. RefundIInv => RefundedPaymentStands
    BY DEF RefundIInv
  <1> QED
    BY <1>1, RefundInvariance, PTL

-----------------------------------------------------------------------------
(***************************************************************************)
(* The books with refunds: what the payments alone do not explain of a     *)
(* wallet and of the debits is exactly what was refunded.                  *)
(***************************************************************************)
RefundedFrom(m) == SettledFrom(m) \cap Refunded

(* What refunds, in turn, do not explain. *)
WalletGapAfterRefunds(m) == WalletGap(m) - Total(RefundedFrom(m))

DebitGapAfterRefunds == DebitGap - Total(Refunded)

RefundBooksKept ==
    /\ \A m \in Members : WalletGapAfterRefunds(m)' = WalletGapAfterRefunds(m)
    /\ DebitGapAfterRefunds' = DebitGapAfterRefunds
    /\ CreditGap' = CreditGap
    /\ \A p \in Succeeded : payments'[p] = payments[p]

(* Refunds are of settled payments. *)
LEMMA TypedRefundBooks ==
    ASSUME RefundIInv
    PROVE  /\ BooksBase
           /\ Refunded \subseteq Succeeded
           /\ Total(Refunded) \in Nat
           /\ \A m \in Members : /\ RefundedFrom(m) \subseteq Succeeded
                                 /\ Total(RefundedFrom(m)) \in Nat
  <1>1. BooksBase
    BY DEF RefundIInv, CashBase, BooksBase
  <1>2. Refunded \subseteq Succeeded
    BY DEF RefundIInv, RefundedPaymentStands, Refunded, Succeeded
  <1>3. \A m \in Members : RefundedFrom(m) \subseteq Succeeded
    BY <1>2 DEF RefundedFrom
  <1> QED
    BY <1>1, <1>2, <1>3, TypedBooks

(* A step that keeps the books of the payments and decides no refund keeps *)
(* the books with refunds.                                                 *)
LEMMA LowerStepKeepsRefundBooks ==
    ASSUME RefundIInv, BooksKept, Refunded' = Refunded
    PROVE  RefundBooksKept
  <1>1. \A p \in Succeeded : payments'[p] = payments[p]
    BY DEF BooksKept
  <1>2. \A m \in Members : RefundedFrom(m)' = RefundedFrom(m)
    BY <1>1, TypedRefundBooks DEF RefundedFrom, SettledFrom, Succeeded
  <1>3. ASSUME NEW m \in Members
        PROVE  Total(RefundedFrom(m))' = Total(RefundedFrom(m))
    BY <1>1, <1>2, TotalsStand, TypedRefundBooks DEF Total
  <1>4. Total(Refunded)' = Total(Refunded)
    BY <1>1, TotalsStand, TypedRefundBooks DEF Total
  <1> QED
    BY <1>1, <1>3, <1>4
       DEF RefundBooksKept, BooksKept, WalletGapAfterRefunds, DebitGapAfterRefunds

(* Steps that move no money and decide no refund keep the books.           *)
LEMMA NothingRefunded ==
    ASSUME RefundIInv, Refunded' = Refunded,
           UNCHANGED <<payments, wallet, granted, compensated, receipts, ledger>>
    PROVE  RefundBooksKept
  <1>1. BooksBase
    BY TypedRefundBooks
  <1>2. \A p \in PaymentIds : Stands(p)
    BY DEF Stands
  <1> QED
    BY <1>1, <1>2, BooksIdle, LowerStepKeepsRefundBooks

(* The settlement of a refund enters what it moves: one debit, and one     *)
(* credit to the wallet if the payment had been taken from there.          *)
LEMMA SettlingRefundKeepsBooks ==
    ASSUME RefundIInv, NEW p \in PaymentIds, SettlePaymentRefund(p)
    PROVE  RefundBooksKept
  <1> DEFINE amount == payments[p].amount
             gets(m) == payments[p].method = "WALLET" /\ Owner[payments[p].due] = m
  <1>1. /\ Refunded' = Refunded \cup {p}
        /\ p \notin Refunded
        /\ p \in Succeeded
    BY DEF RefundIInv, RefundTypeOK, RefundedPaymentStands, SettlePaymentRefund,
           AwaitsSettlement, Refunded, Succeeded
  <1>2. /\ UNCHANGED <<payments, granted, compensated>>
        /\ AmountOf' = AmountOf
        /\ Succeeded' = Succeeded
        /\ \A m \in Members : SettledFrom(m)' = SettledFrom(m)
    BY DEF SettlePaymentRefund, AmountOf, Succeeded, SettledFrom
  <1>3. \A m \in Members : p \in SettledFrom(m) <=> gets(m)
    BY <1>1 DEF SettledFrom, Succeeded
  <1>4. /\ AmountOf[p] = amount /\ amount \in Nat
        /\ \A q \in Succeeded : AmountOf[q] \in Int
    BY TypedRefundBooks, TypedBooks
  <1>5. ASSUME NEW T \in SUBSET Succeeded, p \notin T
        PROVE  Total(T \cup {p}) = Total(T) + amount
    <2>1. IsFiniteSet(T)
      BY TypedRefundBooks, TypedBooks
    <2>2. \A q \in T : AmountOf[q] \in Int /\ AmountOf[q] = AmountOf[q]
      BY <1>4
    <2>3. AmountOf[p] \in Int
      BY <1>4
    <2> QED
      BY <1>4, <1>5, <2>1, <2>2, <2>3, SumInsert DEF Total
  <1>6. /\ wallet \in [Members -> Nat]
        /\ ledger \in [credit : Nat, debit : Nat]
    BY DEF RefundIInv, CashBase, IInv, TypeOK
  <1>7. /\ \A m \in Members : wallet'[m] = wallet[m] + (IF gets(m) THEN amount ELSE 0)
        /\ ledger'.credit = ledger.credit
        /\ ledger'.debit = ledger.debit + amount
    BY <1>4, <1>6 DEF SettlePaymentRefund
  <1>8. ASSUME NEW m \in Members
        PROVE  WalletGapAfterRefunds(m)' = WalletGapAfterRefunds(m)
    <2>1. /\ SettledFrom(m) \in SUBSET Succeeded
          /\ SettledFrom(m) \cap compensated \in SUBSET Succeeded
          /\ RefundedFrom(m) \in SUBSET Succeeded
          /\ p \notin RefundedFrom(m)
      BY <1>1, TypedRefundBooks, TypedBooks DEF RefundedFrom
    <2>2. /\ Total(SettledFrom(m))' = Total(SettledFrom(m))
          /\ Total(SettledFrom(m) \cap compensated)' = Total(SettledFrom(m) \cap compensated)
      BY <1>2 DEF Total
    <2>3. RefundedFrom(m)' = IF gets(m) THEN RefundedFrom(m) \cup {p} ELSE RefundedFrom(m)
      BY <1>1, <1>2, <1>3 DEF RefundedFrom
    <2>4. Total(RefundedFrom(m))' = Total(RefundedFrom(m)')
      BY <1>2 DEF Total
    <2>5. Total(RefundedFrom(m))' = Total(RefundedFrom(m)) + (IF gets(m) THEN amount ELSE 0)
      <3>1. CASE gets(m)
        BY <1>5, <2>1, <2>3, <2>4, <3>1
      <3>2. CASE ~gets(m)
        <4>1. Total(RefundedFrom(m)) \in Nat
          BY TypedRefundBooks
        <4>2. RefundedFrom(m)' = RefundedFrom(m)
          BY <2>3, <3>2
        <4>3. Total(RefundedFrom(m))' = Total(RefundedFrom(m))
          BY <2>4, <4>2, Zenon
        <4> QED
          BY <3>2, <4>1, <4>3
      <3> QED
        BY <3>1, <3>2
    <2>6. /\ wallet[m] \in Int /\ granted[m] \in Int /\ amount \in Int
          /\ Total(SettledFrom(m)) \in Int
          /\ Total(SettledFrom(m) \cap compensated) \in Int
          /\ Total(RefundedFrom(m)) \in Int
          /\ granted'[m] = granted[m]
          /\ wallet'[m] = wallet[m] + (IF gets(m) THEN amount ELSE 0)
      BY <1>2, <1>4, <1>7, <2>1, TypedRefundBooks, TypedBooks
    <2> HIDE DEF gets, amount
    <2> QED
      BY <2>2, <2>5, <2>6 DEF WalletGapAfterRefunds, WalletGap
  <1>9. DebitGapAfterRefunds' = DebitGapAfterRefunds
    <2>1. Refunded \in SUBSET Succeeded /\ compensated \in SUBSET Succeeded
      BY TypedRefundBooks, TypedBooks
    <2>2. Total(Refunded)' = Total(Refunded') /\ Total(compensated)' = Total(compensated)
      BY <1>2 DEF Total
    <2>3. Total(Refunded)' = Total(Refunded) + amount
      BY <1>1, <1>5, <2>1, <2>2
    <2>4. /\ Total(Refunded) \in Nat /\ Total(compensated) \in Nat
          /\ ledger.debit \in Nat /\ amount \in Nat
      BY <1>4, <2>1, TypedRefundBooks, TypedBooks
    <2> HIDE DEF amount
    <2> QED
      BY <1>7, <2>2, <2>3, <2>4 DEF DebitGapAfterRefunds, DebitGap
  <1>10. CreditGap' = CreditGap
    BY <1>2, <1>7 DEF CreditGap, Total
  <1> QED
    BY <1>2, <1>8, <1>9, <1>10 DEF RefundBooksKept

(* Every step of the composition keeps the books with refunds. *)
LEMMA RefundsKeepBooks ==
    ASSUME RefundIInv, NextWithRefunds
    PROVE  RefundBooksKept
  <1>1. ASSUME UNCHANGED cashVars, Refunded' = Refunded
        PROVE  RefundBooksKept
    BY <1>1, NothingRefunded DEF cashVars, vars
  <1>2. UNCHANGED <<cashVars, refunds>> => RefundBooksKept
    BY <1>1 DEF Refunded
  <1>3. ASSUME NEW p \in PaymentIds, NEW s \in {"PENDING", "FAILED"},
               refunds[p] # "SUCCEEDED", refunds' = [refunds EXCEPT ![p] = s],
               UNCHANGED cashVars
        PROVE  RefundBooksKept
    <2>1. Refunded' = Refunded
      BY <1>3 DEF Refunded, RefundIInv, RefundTypeOK
    <2> QED
      BY <1>1, <1>3, <2>1
  <1>4. ASSUME NextWithCash, UNCHANGED refunds
        PROVE  RefundBooksKept
    <2>1. BooksKept
      BY <1>4, CashKeepsBooks DEF RefundIInv
    <2> QED
      BY <1>4, <2>1, LowerStepKeepsRefundBooks DEF Refunded
  <1>5. \A k \in Keys : SettlePaymentRefund(Main(k)) => RefundBooksKept
    BY RowNames, SettlingRefundKeepsBooks
  <1>6. \A k \in Keys : FailPaymentRefund(Main(k)) => RefundBooksKept
    BY <1>3, RowNames DEF FailPaymentRefund
  <1>7. ASSUME NEW p \in PaymentIds, CreateRefundRequest(p) \/ SettleWithoutProvider(p)
        PROVE  RefundBooksKept
    BY <1>3, <1>7, SettlingRefundKeepsBooks DEF CreateRefundRequest, SettleWithoutProvider
  <1> QED
    BY <1>2, <1>4, <1>5, <1>6, <1>7
       DEF NextWithRefunds, RefundNext, SubmitRefund, RecordAnswer, LoseAnswer,
           ProviderResolves, DeliverRefundProcessed, DeliverRefundFailed

(* The books with cash and refunds: no gap. *)
RefundBooksInv ==
    /\ RefundIInv
    /\ \A m \in Members : WalletGapAfterRefunds(m) = 0
    /\ DebitGapAfterRefunds = 0
    /\ CreditGap = 0

(* Nothing was refunded at the start. *)
LEMMA RefundBooksInit ==
    ASSUME RefundInit
    PROVE  /\ \A m \in Members : WalletGapAfterRefunds(m) = 0
           /\ DebitGapAfterRefunds = 0
           /\ CreditGap = 0
  <1>1. Refunded = {} /\ \A m \in Members : RefundedFrom(m) = {}
    BY DEF RefundInit, Refunded, RefundedFrom
  <1>2. Total({}) = 0
    BY FS_EmptySet, SumOfZeros DEF Total
  <1>3. \A m \in Members : Total(RefundedFrom(m)) = 0
    BY <1>1, <1>2
  <1> QED
    BY <1>1, <1>2, <1>3, BooksInit
       DEF RefundInit, CashInit, WalletGapAfterRefunds, DebitGapAfterRefunds

(* Every step preserves the books. *)
LEMMA RefundBooksInductive ==
    RefundBooksInv /\ [NextWithRefunds]_refundVars => RefundBooksInv'
  <1> SUFFICES ASSUME RefundBooksInv, [NextWithRefunds]_refundVars PROVE RefundBooksInv'
    OBVIOUS
  <1>1. RefundIInv'
    BY RefundInductive DEF RefundBooksInv
  <1>2. RefundBooksKept
    <2>1. CASE UNCHANGED refundVars
      BY <2>1, NothingRefunded DEF RefundBooksInv, refundVars, cashVars, vars, Refunded
    <2> QED
      BY <2>1, RefundsKeepBooks DEF RefundBooksInv
  <1> QED
    BY <1>1, <1>2 DEF RefundBooksInv, RefundBooksKept

(* What an invariant without gaps says of the books themselves.            *)
LEMMA NoGapAfterRefunds ==
    ASSUME RefundBooksInv
    PROVE  RefundsAreOnTheBooks
  <1>1. BooksBase
    BY TypedRefundBooks DEF RefundBooksInv
  <1>2. ASSUME NEW m \in Members
        PROVE  wallet[m] = granted[m]
                           - Total(SettledFrom(m))
                           + Total(SettledFrom(m) \cap compensated)
                           + Total(SettledFrom(m) \cap Refunded)
    <2>1. /\ SettledFrom(m) \in SUBSET Succeeded
          /\ SettledFrom(m) \cap compensated \in SUBSET Succeeded
      BY <1>1, TypedBooks
    <2>2. /\ Total(SettledFrom(m)) \in Nat
          /\ Total(SettledFrom(m) \cap compensated) \in Nat
          /\ wallet[m] \in Nat /\ granted[m] \in Nat
      BY <1>1, <2>1, TypedBooks
    <2>3. Total(SettledFrom(m) \cap Refunded) \in Nat
      BY TypedRefundBooks DEF RefundBooksInv, RefundedFrom
    <2>4. (wallet[m] - granted[m] + Total(SettledFrom(m))
               - Total(SettledFrom(m) \cap compensated))
              - Total(SettledFrom(m) \cap Refunded) = 0
      BY DEF RefundBooksInv, WalletGapAfterRefunds, WalletGap, RefundedFrom
    <2>5. /\ Total(SettledFrom(m)) \in Int /\ Total(SettledFrom(m) \cap compensated) \in Int
          /\ Total(SettledFrom(m) \cap Refunded) \in Int
          /\ wallet[m] \in Int /\ granted[m] \in Int
      BY <2>2, <2>3
    <2> DEFINE w == wallet[m]
               g == granted[m]
               s == Total(SettledFrom(m))
               c == Total(SettledFrom(m) \cap compensated)
               r == Total(SettledFrom(m) \cap Refunded)
    <2>6. (w - g + s - c) - r = 0
      BY <2>4, Zenon
    <2>7. w \in Int /\ g \in Int /\ s \in Int /\ c \in Int /\ r \in Int
      BY <2>5, Zenon
    <2>8. w = g - s + c + r
      <3> HIDE DEF w, g, s, c, r
      <3> QED
        BY <2>6, <2>7
    <2> QED
      BY <2>8, Zenon
  <1>3. ledger.debit = Total(compensated) + Total(Refunded)
    <2>1. compensated \in SUBSET Succeeded
      BY <1>1, TypedBooks
    <2>2. /\ Total(compensated) \in Nat /\ Total(Refunded) \in Nat /\ ledger.debit \in Nat
      BY <1>1, <2>1, TypedBooks, TypedRefundBooks DEF RefundBooksInv
    <2>3. DebitGapAfterRefunds = 0
      BY DEF RefundBooksInv
    <2> QED
      BY <2>2, <2>3 DEF DebitGapAfterRefunds, DebitGap
  <1>4. CreditMatchesPayments
    <2>1. /\ Total(Succeeded) \in Nat /\ SumFunctionOnSet(granted, Members) \in Nat
          /\ ledger.credit \in Nat
      BY <1>1, TypedBooks
    <2>2. CreditGap = 0
      BY DEF RefundBooksInv
    <2> QED
      BY <2>1, <2>2 DEF CreditMatchesPayments, CreditGap
  <1> QED
    BY <1>2, <1>3, <1>4 DEF RefundsAreOnTheBooks

(* Wallets and ledger are, to the paisa, what was granted, settled, given  *)
(* back and refunded: nothing is moved twice and nothing is lost.          *)
THEOREM RefundsAreBooked == RefundSpec => []RefundsAreOnTheBooks
  <1>1. RefundInit => RefundBooksInv
    BY RefundInitInv, RefundBooksInit DEF RefundBooksInv
  <1>2. RefundSpec => []RefundBooksInv
    BY <1>1, RefundBooksInductive, PTL DEF RefundSpec
  <1> QED
    BY <1>2, NoGapAfterRefunds, PTL
=============================================================================
