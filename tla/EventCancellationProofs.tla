----------------------- MODULE EventCancellationProofs -----------------------
(***************************************************************************)
(* Proofs about EventCancellation.  The invariant of refunds survives a    *)
(* cancellation, except that a cancelled payment may belong to a           *)
(* collection; contributions of a cancelled event are closed for good;     *)
(* what a call is about to write is what its refund will still say; and no *)
(* step leaves wallets and ledger without what it gave back.               *)
(***************************************************************************)
EXTENDS EventCancellation, PaymentRefundsProofs

Final == {"SUCCEEDED", "FAILED"}

ReversalsAreOfContributions ==
    \A p \in PaymentIds : reversals[p] # "NONE" => payments[p].due \in Contributions

(* Nothing makes a contribution of a cancelled event payable again. *)
CancelledContributionsAreClosed ==
    \A d \in Contributions : cancellation[EventOf[d]] # "NONE" => dueStatus[d] \notin Unsettled

(* What a call that has come so far may rely on. *)
CallIsSound(k, c) ==
    LET step == settling[k][c] IN
    /\ step # "idle" => /\ reversals[Main(k)] # "NONE"
                        /\ MethodFor(Main(k)) = "ORIGINAL_METHOD"
    /\ step \notin {"idle", "read"} \cup Outcomes => refunds[Main(k)] # "NONE"
    /\ step \in ProviderAnswers => payments[Main(k)].method = "ONLINE"
    /\ step \in {"processed", "failed"} => providerRefunds[k] = step
    /\ step \in Final => refunds[Main(k)] = step

CancellationInv ==
    /\ RefundIInv
    /\ CancellationTypeOK
    /\ ReversalsAreOfContributions
    /\ CancelledContributionsAreClosed
    /\ SettledContributionsAreReversed
    /\ ReversalAgreesWithRefund
    /\ \A k \in Keys, c \in Calls : CallIsSound(k, c)

(* What every step does to the tables of money: settled payments stay,     *)
(* only the payment of an unsettled due is settled, and a contribution     *)
(* that is not payable does not become payable.                            *)
MoneyMoves ==
    /\ \A p \in PaymentIds : payments[p].status = "SUCCEEDED" => payments'[p] = payments[p]
    /\ \A p \in PaymentIds :
           payments'[p].status = "SUCCEEDED" /\ payments'[p].due \in Contributions =>
               payments'[p] = payments[p] \/ dueStatus[payments'[p].due] \in Unsettled
    /\ \A d \in Contributions : dueStatus[d] \notin Unsettled => dueStatus'[d] \notin Unsettled

(* And to refunds: none disappears, and a final word stays final. *)
RefundsMove ==
    /\ \A p \in PaymentIds : refunds[p] # "NONE" => refunds'[p] # "NONE"
    /\ \A p \in PaymentIds : refunds[p] \in Final => refunds'[p] = refunds[p]
    /\ \A k \in Keys : providerRefunds[k] \in {"processed", "failed"} =>
           providerRefunds'[k] = providerRefunds[k]

(* A contribution is not a plan registration. *)
LEMMA ContributionsAreOrdinary == Contributions \cap PlanDues = {}
  BY DEF Contributions, PlanDues

-----------------------------------------------------------------------------
(* The layers below. *)

(* Steps that write one due and at most the rows of one key, for a due     *)
(* that was unsettled or is a plan registration.                           *)
LEMMA SettlingMoves ==
    ASSUME RefundIInv, SettledRowsStand, NEW q \in PaymentIds, NEW d \in Dues,
           d \in PlanDues \/ dueStatus[d] \in Unsettled,
           \A p \in PaymentIds \ {q} : payments'[p] = payments[p],
           payments'[q].due = d,
           dueStatus' = [dueStatus EXCEPT ![d] = "PAID"]
    PROVE  MoneyMoves
  <1>1. dueStatus \in [Dues -> DueStatuses]
    BY DEF RefundIInv, CashBase, IInv, TypeOK
  <1>2. \A p \in PaymentIds : payments'[p].status = "SUCCEEDED" /\ payments'[p].due \in Contributions =>
            payments'[p] = payments[p] \/ dueStatus[payments'[p].due] \in Unsettled
    BY ContributionsAreOrdinary
  <1>3. \A x \in Contributions : dueStatus[x] \notin Unsettled => dueStatus'[x] \notin Unsettled
    BY <1>1 DEF Contributions, Unsettled
  <1> QED
    BY <1>2, <1>3 DEF MoneyMoves, SettledRowsStand

(* Steps that settle nothing. *)
LEMMA NothingSettledMoves ==
    ASSUME SettledRowsStand,
           \A p \in PaymentIds : payments'[p].status = "SUCCEEDED" => payments'[p] = payments[p],
           \A d \in Contributions : dueStatus[d] \notin Unsettled => dueStatus'[d] \notin Unsettled
    PROVE  MoneyMoves
  BY DEF MoneyMoves, SettledRowsStand

(* A settlement, by a webhook or by the approval of cash. *)
LEMMA SettlementMoves ==
    ASSUME RefundIInv, SettledRowsStand, NEW k \in Keys, NEW t, SettlePayment(k, t)
    PROVE  MoneyMoves
  <1> USE DEF RefundIInv, CashBase, IInv
  <1> DEFINE d == payments[Main(k)].due
  <1>1. payments[Main(k)] \in Rows /\ Main(k) \in PaymentIds
    BY RowNames DEF TypeOK
  <1>2. d \in Dues
    BY DEF SettlePayment, Tables, RowsCoverTheDue
  <1>3. /\ payments'[Main(k)] = [payments[Main(k)] EXCEPT !.status = "SUCCEEDED"]
        /\ \A p \in PaymentIds \ {Main(k)} : payments'[p] = payments[p]
    BY <1>1 DEF TypeOK, SettlePayment
  <1>4. payments'[Main(k)].due = d
    BY <1>1, <1>3 DEF Rows
  <1>5. d \in PlanDues \/ dueStatus[d] \in Unsettled
    BY <1>2 DEF SettlePayment, SettlementAllowed, PlanDues
  <1>6. dueStatus' = [dueStatus EXCEPT ![d] = "PAID"]
    BY DEF SettlePayment
  <1> HIDE DEF d
  <1> QED
    BY <1>1, <1>2, <1>3, <1>4, <1>5, <1>6, SettlingMoves

(* Every step of payments. *)
LEMMA PaymentsMove ==
    ASSUME RefundIInv, SettledRowsStand, Next
    PROVE  MoneyMoves
  <1> USE DEF RefundIInv, CashBase, IInv
  <1>1. ASSUME UNCHANGED payments,
               \A d \in Contributions : dueStatus[d] \notin Unsettled => dueStatus'[d] \notin Unsettled
        PROVE  MoneyMoves
    BY <1>1, NothingSettledMoves
  <1>2. ASSUME NEW q \in PaymentIds, payments'[q].status # "SUCCEEDED",
               \A p \in PaymentIds \ {q} : payments'[p] = payments[p],
               dueStatus' = dueStatus
        PROVE  MoneyMoves
    BY <1>2, NothingSettledMoves
  <1>3. ASSUME NEW k \in Keys, NEW d \in Dues, CreatePaymentCommand(k, d)
        PROVE  MoneyMoves
    <2>1. /\ payments'[Main(k)].status # "SUCCEEDED"
          /\ \A p \in PaymentIds \ {Main(k)} : payments'[p] = payments[p]
      BY <1>3, RowNames DEF TypeOK, CreatePaymentCommand, Row
    <2> QED
      BY <1>2, <1>3, <2>1, RowNames DEF CreatePaymentCommand
  <1>4. ASSUME NEW k \in Keys, NEW d \in Dues, Payable(d), SettleFromWallet(k, d)
        PROVE  MoneyMoves
    <2>1. /\ payments'[Main(k)].due = d
          /\ \A p \in PaymentIds \ {Main(k)} : payments'[p] = payments[p]
      BY <1>4, RowNames DEF TypeOK, SettleFromWallet, Row
    <2>2. d \in PlanDues \/ dueStatus[d] \in Unsettled
      BY <1>4 DEF Payable, IsDuePayable, PlanDues
    <2> QED
      BY <1>4, <2>1, <2>2, RowNames, SettlingMoves DEF SettleFromWallet
  <1>5. ASSUME NEW k \in Keys, NEW d \in PlanDues, SplitWalletThenOnline(k, d)
        PROVE  MoneyMoves
    <2>1. /\ payments'[Main(k)].status = "PENDING"
          /\ \A p \in PaymentIds \ {Main(k), Leg(k)} : payments'[p] = payments[p]
          /\ payments'[Leg(k)] = payments[Leg(k)] \/ payments'[Leg(k)].due = d
          /\ dueStatus' = dueStatus
      BY <1>5, RowNames DEF TypeOK, SplitWalletThenOnline, Row
    <2>2. \A p \in PaymentIds : payments'[p].status = "SUCCEEDED" /\ payments'[p].due \in Contributions
              => payments'[p] = payments[p]
      BY <2>1, ContributionsAreOrdinary
    <2> QED
      BY <2>1, <2>2 DEF MoneyMoves, SettledRowsStand
  <1>6. ASSUME NEW k \in Keys, NEW s \in {"FAILED", "CANCELLED"}, CloseAndCompensate(k, s)
        PROVE  MoneyMoves
    <2>1. /\ payments'[Main(k)].status = s
          /\ \A p \in PaymentIds \ {Main(k)} : payments'[p] = payments[p]
      BY <1>6, StatusWritten DEF CloseAndCompensate, PaymentStatuses
    <2> QED
      BY <1>2, <1>6, <2>1, RowNames DEF CloseAndCompensate
  <1>7. ASSUME NEW k \in Keys, NEW c \in Calls, PersistOrder(k, c)
        PROVE  MoneyMoves
    <2>1. CASE ~OrderAccepted(k)
      BY <1>1, <1>7, <2>1 DEF PersistOrder
    <2>2. CASE OrderAccepted(k)
      <3>1. /\ payments[Main(k)] \in Rows
            /\ payments'[Main(k)] = [payments[Main(k)] EXCEPT !.order = c]
            /\ \A p \in PaymentIds \ {Main(k)} : payments'[p] = payments[p]
        BY <1>7, <2>2, RowNames DEF TypeOK, PersistOrder
      <3>2. payments'[Main(k)].status = "PENDING"
        BY <2>2, <3>1 DEF Rows, OrderAccepted
      <3> QED
        BY <1>2, <1>7, <3>1, <3>2, RowNames DEF PersistOrder
    <2> QED
      BY <2>1, <2>2
  <1>8. ASSUME NEW k \in Keys, NEW t, SettlePayment(k, t)
        PROVE  MoneyMoves
    BY <1>8, SettlementMoves
  <1>9. ASSUME NEW d \in Dues, NEW t, ExtendPlanDue(d, t)
        PROVE  MoneyMoves
    BY <1>1, <1>9, ContributionsAreOrdinary DEF TypeOK, ExtendPlanDue, Contributions
  <1>10. JobsNext => MoneyMoves
    <2>1. WritePlanReminders => MoneyMoves
      BY <1>1, ContributionsAreOrdinary DEF TypeOK, WritePlanReminders, Contributions
    <2>2. WriteMembershipDues => MoneyMoves
      BY <1>1 DEF WriteMembershipDues, Contributions, Expirable, Unsettled
    <2> QED
      BY <1>1, <2>1, <2>2 DEF JobsNext, ReadPlanReminders, ReadMembershipDues
  <1>11. MemberNext => MoneyMoves
    BY <1>1, <1>3, <1>4, <1>5, <1>6, <1>7
       DEF MemberNext, PayDueFromWallet, StartPlanWalletFirstSplitPayment,
           CancelPendingPayment, OpenCheckout
  <1>12. ProviderNext => MoneyMoves
    BY <1>1, <1>6, <1>8
       DEF ProviderNext, ProviderCaptures, ProviderAttemptFails, DeliverCapture,
           DeliverFailure, FailPayment
  <1>13. AdminNext \/ Tick => MoneyMoves
    BY <1>1, <1>9 DEF AdminNext, ApplyFoundationWalletCredit, Tick
  <1> QED
    BY <1>10, <1>11, <1>12, <1>13 DEF Next

(* So does every step with cash collections. *)
LEMMA CashMoves ==
    ASSUME RefundIInv, NextWithCash
    PROVE  MoneyMoves
  <1> USE DEF RefundIInv
  <1>1. SettledRowsStand
    BY CashKeepsBooks
  <1>2. ASSUME NEW k \in Keys, NEW d \in Dues, CollectCashForDue(k, d)
        PROVE  MoneyMoves
    <2>1. /\ payments'[Main(k)].status # "SUCCEEDED"
          /\ \A p \in PaymentIds \ {Main(k)} : payments'[p] = payments[p]
          /\ dueStatus' = dueStatus
      BY <1>2, RowNames DEF CashBase, IInv, TypeOK, CollectCashForDue, Row
    <2> QED
      BY <1>1, <2>1, NothingSettledMoves
  <1>3. ASSUME NEW k \in Keys, ApproveCashCollection(k)
        PROVE  MoneyMoves
    BY <1>1, <1>3, SettlementMoves DEF ApproveCashCollection
  <1>4. ASSUME NEW k \in Keys, RejectCashCollection(k)
        PROVE  MoneyMoves
    <2>1. /\ payments'[Main(k)].status = "FAILED"
          /\ \A p \in PaymentIds \ {Main(k)} : payments'[p] = payments[p]
          /\ dueStatus' = dueStatus
      BY <1>4, StatusWritten
         DEF CashBase, IInv, RejectCashCollection, PaymentStatuses
    <2> QED
      BY <1>1, <2>1, NothingSettledMoves
  <1> QED
    BY <1>1, <1>2, <1>3, <1>4, PaymentsMove DEF NextWithCash, CashNext

(* Nothing moves when the tables of payments and dues stay as they are. *)
LEMMA NothingMoves ==
    ASSUME UNCHANGED <<payments, dueStatus>>
    PROVE  MoneyMoves
  BY DEF MoneyMoves

(* A refund that is PENDING gets its outcome. *)
LEMMA DecidingMoves ==
    ASSUME RefundTypeOK, NEW q \in PaymentIds, refunds[q] = "PENDING", NEW outcome \in Final,
           refunds' = [refunds EXCEPT ![q] = outcome], UNCHANGED providerRefunds
    PROVE  RefundsMove
  BY DEF RefundTypeOK, RefundsMove, Final

(* Every step of the layers below. *)
LEMMA LowerStepsMove ==
    ASSUME RefundIInv, [NextWithRefunds]_refundVars
    PROVE  MoneyMoves /\ RefundsMove
  <1>1. RefundTypeOK
    BY DEF RefundIInv
  <1>2. CASE UNCHANGED refundVars
    BY <1>2, NothingMoves DEF refundVars, cashVars, vars, RefundsMove
  <1>3. CASE NextWithCash /\ UNCHANGED <<refunds, submissions, providerRefunds>>
    BY <1>3, CashMoves DEF RefundsMove
  <1>4. CASE RefundNext
    <2>1. MoneyMoves
      BY <1>4, NothingMoves
         DEF RefundNext, CreateRefundRequest, SettleWithoutProvider, SubmitRefund,
             RecordAnswer, LoseAnswer, ProviderResolves, DeliverRefundProcessed,
             DeliverRefundFailed, SettlePaymentRefund, FailPaymentRefund, cashVars, vars
    <2>2. ASSUME NEW p \in PaymentIds, CreateRefundRequest(p)
          PROVE  RefundsMove
      BY <1>1, <2>2 DEF CreateRefundRequest, RefundTypeOK, RefundsMove, Final
    <2>3. ASSUME NEW p \in PaymentIds, SettlePaymentRefund(p), UNCHANGED providerRefunds
          PROVE  RefundsMove
      BY <1>1, <2>3, DecidingMoves DEF SettlePaymentRefund, AwaitsSettlement, Final
    <2>4. ASSUME NEW p \in PaymentIds, FailPaymentRefund(p), UNCHANGED providerRefunds
          PROVE  RefundsMove
      BY <1>1, <2>4, DecidingMoves DEF FailPaymentRefund, Final
    <2>5. ASSUME UNCHANGED <<refunds, providerRefunds>>
          PROVE  RefundsMove
      BY <2>5 DEF RefundsMove
    <2>6. ASSUME NEW k \in Keys, NEW c \in Calls, NEW answer \in ProviderAnswers,
                 SubmitRefund(k, c, answer)
          PROVE  RefundsMove
      BY <1>1, <2>6 DEF SubmitRefund, RefundTypeOK, RefundsMove
    <2>7. ASSUME NEW k \in Keys, NEW outcome, ProviderResolves(k, outcome)
          PROVE  RefundsMove
      BY <1>1, <2>7 DEF ProviderResolves, RefundTypeOK, RefundsMove
    <2>8. ASSUME NEW k \in Keys, NEW c \in Calls, RecordAnswer(k, c)
          PROVE  RefundsMove
      BY <2>3, <2>4, <2>5, <2>8, RowNames DEF RecordAnswer
    <2>9. ASSUME NEW k \in Keys, DeliverRefundProcessed(k) \/ DeliverRefundFailed(k)
          PROVE  RefundsMove
      BY <2>3, <2>4, <2>9, RowNames DEF DeliverRefundProcessed, DeliverRefundFailed
    <2>10. RefundsMove
      BY <1>4, <2>2, <2>3, <2>5, <2>6, <2>7, <2>8, <2>9
         DEF RefundNext, SettleWithoutProvider, LoseAnswer
    <2> QED
      BY <2>1, <2>10
  <1> QED
    BY <1>2, <1>3, <1>4 DEF NextWithRefunds

-----------------------------------------------------------------------------
(* The reversals. *)

(* A reversal is of a settled contribution of a cancelled event. *)
LEMMA ReversalIsOwed ==
    ASSUME CancellationInv, NEW p \in PaymentIds, reversals[p] # "NONE"
    PROVE  /\ payments[p].status = "SUCCEEDED"
           /\ payments[p].due \in Contributions
           /\ EventOf[payments[p].due] \in Events
           /\ MethodFor(p) # "NONE"
  <1>1. payments[p].due \in Contributions /\ EventOf[payments[p].due] \in Events
    BY CancellationAssumption DEF CancellationInv, ReversalsAreOfContributions
  <1>2. p \in PaymentsOfEvent(EventOf[payments[p].due])
    BY <1>1 DEF PaymentsOfEvent, DuesOfEvent
  <1> QED
    BY <1>1, <1>2 DEF CancellationInv, SettledContributionsAreReversed, MethodFor

(* No step but the cancellation itself makes or removes a reversal, and    *)
(* those there are keep their payment, so what is owed stays what it was.  *)
LEMMA OwedStays ==
    ASSUME CancellationInv, RefundIInv', MoneyMoves, RefundsMove, UNCHANGED cancellation,
           reversals' \in [PaymentIds -> Outcomes \cup {"NONE"}],
           settling' \in [Keys -> [Calls -> SettlingSteps]],
           \A p \in PaymentIds : reversals'[p] = "NONE" <=> reversals[p] = "NONE",
           \A p \in PaymentIds :
               \/ reversals'[p] = reversals[p]
               \/ MethodFor(p) = "ORIGINAL_METHOD" /\ reversals'[p] \in Final
                      => refunds'[p] = reversals'[p],
           \A k \in Keys, c \in Calls : settling'[k][c] = settling[k][c] \/ CallIsSound(k, c)'
    PROVE  CancellationInv'
  <1> USE DEF CancellationInv
  <1>1. \A p \in PaymentIds : reversals[p] # "NONE" =>
            payments'[p] = payments[p] /\ MethodFor(p)' = MethodFor(p)
    BY ReversalIsOwed DEF MoneyMoves, MethodFor
  <1>2. CancellationTypeOK'
    BY DEF CancellationTypeOK, RefundIInv
  <1>3. ReversalsAreOfContributions'
    BY <1>1 DEF ReversalsAreOfContributions
  <1>4. CancelledContributionsAreClosed'
    BY DEF CancelledContributionsAreClosed, MoneyMoves
  <1>5. SettledContributionsAreReversed'
    <2> SUFFICES ASSUME NEW e \in Events, NEW p \in PaymentIds,
                        payments'[p].due \in Contributions, EventOf[payments'[p].due] = e
                 PROVE  reversals'[p] # "NONE" <=>
                            payments'[p].status = "SUCCEEDED" /\ cancellation[e] # "NONE"
      BY DEF SettledContributionsAreReversed, PaymentsOfEvent, DuesOfEvent
    <2>1. CASE reversals[p] # "NONE"
      BY <1>1, <2>1, ReversalIsOwed DEF MethodFor
    <2>2. CASE reversals[p] = "NONE" /\ payments'[p] = payments[p]
      BY <2>2 DEF SettledContributionsAreReversed, PaymentsOfEvent, DuesOfEvent
    <2>3. CASE reversals[p] = "NONE" /\ payments'[p] # payments[p]
      BY <2>3 DEF MoneyMoves, CancelledContributionsAreClosed
    <2> QED
      BY <2>1, <2>2, <2>3
  <1>6. ReversalAgreesWithRefund'
    <2> SUFFICES ASSUME NEW p \in PaymentIds, reversals'[p] \in Final,
                        MethodFor(p)' = "ORIGINAL_METHOD"
                 PROVE  refunds'[p] = reversals'[p]
      BY DEF ReversalAgreesWithRefund, Final
    <2>1. reversals[p] # "NONE" /\ MethodFor(p) = "ORIGINAL_METHOD"
      BY <1>1 DEF Final
    <2>2. CASE reversals'[p] = reversals[p]
      BY <2>1, <2>2 DEF ReversalAgreesWithRefund, RefundsMove, Final
    <2> QED
      BY <2>1, <2>2
  <1>7. ASSUME NEW k \in Keys, NEW c \in Calls, settling'[k][c] = settling[k][c]
        PROVE  CallIsSound(k, c)'
    <2>1. CallIsSound(k, c) /\ Main(k) \in PaymentIds
      BY RowNames
    <2>2. CASE settling[k][c] = "idle"
      BY <1>7, <2>2 DEF CallIsSound, Final, Outcomes, ProviderAnswers
    <2>3. CASE settling[k][c] # "idle"
      <3>1. /\ reversals[Main(k)] # "NONE"
            /\ MethodFor(Main(k)) = "ORIGINAL_METHOD"
        BY <2>1, <2>3 DEF CallIsSound
      <3>2. /\ reversals'[Main(k)] # "NONE"
            /\ MethodFor(Main(k))' = "ORIGINAL_METHOD"
            /\ payments'[Main(k)] = payments[Main(k)]
        BY <1>1, <2>1, <3>1
      <3> QED
        BY <1>7, <2>1, <3>2 DEF CallIsSound, RefundsMove, Final
    <2> QED
      BY <2>2, <2>3
  <1>8. \A k \in Keys, c \in Calls : CallIsSound(k, c)'
    BY <1>7
  <1> QED
    BY <1>2, <1>3, <1>4, <1>5, <1>6, <1>8

(* A call goes on, and may rely on what is asked of its new step.          *)
LEMMA GoingOnKeeps ==
    ASSUME CancellationInv, RefundIInv', MoneyMoves, RefundsMove,
           UNCHANGED <<cancellation, reversals>>,
           NEW k \in Keys, NEW c \in Calls, NEW step \in SettlingSteps, Goto(k, c, step),
           settling[k][c] # "idle" \/ step = "idle" \/ AwaitsReversal(Main(k), "ORIGINAL_METHOD"),
           step \notin {"idle", "read"} \cup Outcomes => refunds'[Main(k)] # "NONE",
           step \in ProviderAnswers => payments[Main(k)].method = "ONLINE",
           step \in {"processed", "failed"} => providerRefunds'[k] = step,
           step \in Final => refunds'[Main(k)] = step
    PROVE  CancellationInv'
  <1>1. settling \in [Keys -> [Calls -> SettlingSteps]] /\ Main(k) \in PaymentIds
    BY RowNames DEF CancellationInv, CancellationTypeOK
  <1>2. /\ settling' \in [Keys -> [Calls -> SettlingSteps]]
        /\ settling'[k][c] = step
        /\ \A j \in Keys, x \in Calls :
               <<j, x>> # <<k, c>> => settling'[j][x] = settling[j][x]
    BY <1>1 DEF Goto
  <1>3. CallIsSound(k, c)'
    <2>1. CASE step = "idle"
      BY <1>2, <2>1 DEF CallIsSound, Final, Outcomes, ProviderAnswers
    <2>2. CASE step # "idle"
      <3>1. reversals[Main(k)] # "NONE" /\ MethodFor(Main(k)) = "ORIGINAL_METHOD"
        BY <2>2 DEF CancellationInv, CallIsSound, AwaitsReversal
      <3>2. payments'[Main(k)] = payments[Main(k)]
        BY <1>1, <3>1, ReversalIsOwed DEF MoneyMoves
      <3>3. reversals'[Main(k)] # "NONE" /\ MethodFor(Main(k))' = "ORIGINAL_METHOD"
        BY <3>1, <3>2 DEF MethodFor
      <3> QED
        BY <1>2, <2>2, <3>2, <3>3 DEF CallIsSound
    <2> QED
      BY <2>1, <2>2
  <1>4. \A p \in PaymentIds : reversals'[p] = reversals[p]
    OBVIOUS
  <1>5. reversals' \in [PaymentIds -> Outcomes \cup {"NONE"}]
    BY DEF CancellationInv, CancellationTypeOK
  <1>6. \A j \in Keys, x \in Calls : settling'[j][x] = settling[j][x] \/ CallIsSound(j, x)'
    BY <1>2, <1>3
  <1> QED
    BY <1>2, <1>4, <1>5, <1>6, OwedStays

(* A step of the layers below. *)
LEMMA LowerStepKeeps ==
    ASSUME CancellationInv, [NextWithRefunds]_refundVars, UNCHANGED cancellationOnly
    PROVE  CancellationInv'
  <1>1. RefundIInv
    BY DEF CancellationInv
  <1>2. RefundIInv' /\ MoneyMoves /\ RefundsMove
    BY <1>1, RefundInductive, LowerStepsMove
  <1>3. /\ reversals' \in [PaymentIds -> Outcomes \cup {"NONE"}]
        /\ settling' \in [Keys -> [Calls -> SettlingSteps]]
        /\ UNCHANGED <<cancellation, reversals, settling>>
    BY DEF CancellationInv, CancellationTypeOK, cancellationOnly
  <1> QED
    BY <1>2, <1>3, OwedStays

(* A call takes up a reversal of an event cancelled by the original method. *)
LEMMA ReadReversalKeeps ==
    ASSUME CancellationInv, NEW k \in Keys, NEW c \in Calls, ReadReversal(k, c)
    PROVE  CancellationInv'
  <1>1. RefundIInv' /\ MoneyMoves /\ RefundsMove
    BY RefundInductive, LowerStepsMove DEF ReadReversal, CancellationInv
  <1> QED
    BY <1>1, GoingOnKeeps
       DEF ReadReversal, SettlingSteps, Final, Outcomes, ProviderAnswers

(* It creates or loads the refund, and returns a final outcome as it is. *)
LEMMA RequestReversalRefundKeeps ==
    ASSUME CancellationInv, NEW k \in Keys, NEW c \in Calls, RequestReversalRefund(k, c)
    PROVE  CancellationInv'
  <1>1. Main(k) \in PaymentIds /\ RefundIInv
    BY RowNames DEF CancellationInv
  <1>2. [NextWithRefunds]_refundVars
    BY <1>1 DEF RequestReversalRefund, NextWithRefunds, RefundNext
  <1>3. RefundIInv' /\ MoneyMoves /\ RefundsMove
    BY <1>1, <1>2, RefundInductive, LowerStepsMove
  <1>4. refunds \in [PaymentIds -> RefundStatuses]
    BY <1>1 DEF RefundIInv, RefundTypeOK
  <1>5. settling[k][c] = "read" /\ UNCHANGED <<cancellation, reversals>>
    BY DEF RequestReversalRefund
  <1>6. CASE CreateRefundRequest(Main(k)) /\ Goto(k, c, "requested")
    <2>1. refunds'[Main(k)] # "NONE"
      BY <1>1, <1>4, <1>6 DEF CreateRefundRequest
    <2> QED
      BY <1>3, <1>5, <1>6, <2>1, GoingOnKeeps
         DEF SettlingSteps, Final, Outcomes, ProviderAnswers
  <1>7. CASE /\ refunds[Main(k)] = "PENDING" /\ Goto(k, c, "requested")
             /\ UNCHANGED refundVars
    <2>1. refunds'[Main(k)] # "NONE"
      BY <1>7 DEF refundVars
    <2> QED
      BY <1>3, <1>5, <1>7, <2>1, GoingOnKeeps
         DEF SettlingSteps, Final, Outcomes, ProviderAnswers
  <1>8. CASE /\ refunds[Main(k)] \in {"SUCCEEDED", "FAILED"} /\ Goto(k, c, refunds[Main(k)])
             /\ UNCHANGED refundVars
    <2>1. refunds'[Main(k)] = refunds[Main(k)] /\ refunds[Main(k)] \in Final
      BY <1>8 DEF refundVars, Final
    <2> QED
      BY <1>3, <1>5, <1>8, <2>1, GoingOnKeeps
         DEF SettlingSteps, Final, Outcomes, ProviderAnswers
  <1> QED
    BY <1>6, <1>7, <1>8 DEF RequestReversalRefund

(* A wallet refund has succeeded when the call goes on. *)
LEMMA SettleReversalRefundKeeps ==
    ASSUME CancellationInv, NEW k \in Keys, NEW c \in Calls, SettleReversalRefund(k, c)
    PROVE  CancellationInv'
  <1>1. Main(k) \in PaymentIds /\ RefundIInv
    BY RowNames DEF CancellationInv
  <1>2. refunds \in [PaymentIds -> RefundStatuses]
    BY <1>1 DEF RefundIInv, RefundTypeOK
  <1>3. [NextWithRefunds]_refundVars
    BY <1>1 DEF SettleReversalRefund, NextWithRefunds, RefundNext
  <1>4. RefundIInv' /\ MoneyMoves /\ RefundsMove
    BY <1>1, <1>3, RefundInductive, LowerStepsMove
  <1>5. refunds'[Main(k)] = "SUCCEEDED"
    BY <1>1, <1>2
       DEF SettleReversalRefund, SettleWithoutProvider, SettlePaymentRefund, refundVars
  <1> QED
    BY <1>4, <1>5, GoingOnKeeps
       DEF SettleReversalRefund, SettlingSteps, Final, Outcomes, ProviderAnswers

(* A call is left, by an error that is caught or by its death. *)
LEMMA LeavingKeeps ==
    ASSUME CancellationInv, NEW k \in Keys, NEW c \in Calls,
           LeaveReversalPending(k, c) \/ AbandonReversal(k, c)
    PROVE  CancellationInv'
  <1>1. RefundIInv' /\ MoneyMoves /\ RefundsMove
    BY RefundInductive, LowerStepsMove
       DEF LeaveReversalPending, AbandonReversal, CancellationInv
  <1>2. CASE LeaveReversalPending(k, c)
    BY <1>1, <1>2, GoingOnKeeps
       DEF LeaveReversalPending, SettlingSteps, Final, Outcomes, ProviderAnswers
  <1>3. CASE AbandonReversal(k, c)
    BY <1>1, <1>3, GoingOnKeeps
       DEF AbandonReversal, SettlingSteps, Final, Outcomes, ProviderAnswers
  <1> QED
    BY <1>2, <1>3

(* The provider is asked for a refund that may have been settled since.    *)
LEMMA SubmitReversalRefundKeeps ==
    ASSUME CancellationInv, NEW k \in Keys, NEW c \in Calls, NEW answer \in ProviderAnswers,
           SubmitReversalRefund(k, c, answer)
    PROVE  CancellationInv'
  <1>1. RefundIInv /\ CallIsSound(k, c)
    BY DEF CancellationInv
  <1>2. /\ submissions \in [Keys -> [Calls -> ProviderAnswers]]
        /\ providerRefunds \in [Keys -> ProviderAnswers]
    BY <1>1 DEF RefundIInv, RefundTypeOK
  <1>3. /\ providerRefunds' \in [Keys -> ProviderAnswers]
        /\ providerRefunds'[k] = answer
        /\ providerRefunds[k] \in {"none", answer}
        /\ \A j \in Keys \ {k} : providerRefunds'[j] = providerRefunds[j]
        /\ UNCHANGED <<cashVars, refunds, submissions, cancellation, reversals>>
    BY <1>2 DEF SubmitReversalRefund
  <1>4. AnswersAreCurrent'
    BY <1>1, <1>3 DEF RefundIInv, AnswersAreCurrent
  <1>5. RefundIInv'
    BY <1>1, <1>2, <1>3, <1>4, RefundUndecided
  <1>6. MoneyMoves
    BY <1>3, NothingMoves DEF cashVars, vars
  <1>7. RefundsMove
    BY <1>3 DEF RefundsMove
  <1>8. refunds'[Main(k)] # "NONE"
    BY <1>1, <1>3 DEF CallIsSound, SubmitReversalRefund, Outcomes
  <1> QED
    BY <1>3, <1>5, <1>6, <1>7, <1>8, GoingOnKeeps
       DEF SubmitReversalRefund, SettlingSteps, Final, Outcomes, ProviderAnswers

(* The answer is recorded, unless the refund has its outcome already: then *)
(* it is the same one, because both are the provider's.                    *)
LEMMA RecordReversalAnswerKeeps ==
    ASSUME CancellationInv, NEW k \in Keys, NEW c \in Calls, RecordReversalAnswer(k, c)
    PROVE  CancellationInv'
  <1> DEFINE answer == settling[k][c]
             outcome == AnswerOutcome(answer)
  <1>1. Main(k) \in PaymentIds /\ RefundIInv /\ CallIsSound(k, c)
    BY RowNames DEF CancellationInv
  <1>2. /\ submissions \in [Keys -> [Calls -> ProviderAnswers]]
        /\ refunds \in [PaymentIds -> RefundStatuses]
        /\ RefundTypeOK
    BY <1>1 DEF RefundIInv, RefundTypeOK
  <1>3. /\ answer \in ProviderAnswers
        /\ Goto(k, c, outcome)
        /\ UNCHANGED <<submissions, providerRefunds, cancellation, reversals>>
    BY DEF RecordReversalAnswer
  <1>4. /\ refunds[Main(k)] # "NONE"
        /\ payments[Main(k)].method = "ONLINE"
        /\ outcome = "SUCCEEDED" => providerRefunds[k] = "processed"
        /\ outcome = "FAILED" => providerRefunds[k] = "failed"
        /\ outcome \in Outcomes
    BY <1>1, <1>3 DEF CallIsSound, AnswerOutcome, ProviderAnswers, Outcomes
  <1>5. AnswersAreCurrent'
    BY <1>1, <1>3 DEF RefundIInv, AnswersAreCurrent
  <1> HIDE DEF outcome
  <1>6. CASE outcome = "SUCCEEDED" /\ SettlePaymentRefund(Main(k))
    <2>1. RefundIInv' /\ refunds' = [refunds EXCEPT ![Main(k)] = "SUCCEEDED"]
                      /\ refunds[Main(k)] = "PENDING"
      BY <1>1, <1>2, <1>3, <1>4, <1>5, <1>6, RowNames, SettleRefundKeeps, RefundDecided
    <2>2. MoneyMoves /\ RefundsMove
      BY <1>1, <1>2, <1>3, <1>6, <2>1, NothingMoves, DecidingMoves
         DEF SettlePaymentRefund, Final
    <2>3. refunds'[Main(k)] = outcome
      BY <1>1, <1>2, <1>6, <2>1
    <2> QED
      BY <1>3, <1>4, <1>6, <2>1, <2>2, <2>3, GoingOnKeeps
         DEF SettlingSteps, Final, Outcomes, ProviderAnswers
  <1>7. CASE outcome = "FAILED" /\ FailPaymentRefund(Main(k))
    <2>1. CashBase' /\ UNCHANGED <<payments, receipts, dueStatus>>
      BY <1>1, <1>7, RefundFrame
         DEF RefundIInv, FailPaymentRefund, cashVars, vars, outside, CashBase, IInv, TypeOK
    <2>2. /\ refunds' = [refunds EXCEPT ![Main(k)] = "FAILED"]
          /\ refunds[Main(k)] = "PENDING"
      BY <1>7 DEF FailPaymentRefund
    <2>3. RefundIInv'
      BY <1>1, <1>2, <1>3, <1>4, <1>5, <1>7, <2>1, <2>2, RowNames, RefundDecided
    <2>4. MoneyMoves /\ RefundsMove
      BY <1>1, <1>2, <1>3, <2>1, <2>2, NothingMoves, DecidingMoves DEF Final
    <2>5. refunds'[Main(k)] = outcome
      BY <1>1, <1>2, <1>7, <2>2
    <2> QED
      BY <1>3, <1>4, <1>7, <2>3, <2>4, <2>5, GoingOnKeeps
         DEF SettlingSteps, Final, Outcomes, ProviderAnswers
  <1>8. CASE /\ outcome = "PENDING" \/ refunds[Main(k)] # "PENDING"
             /\ UNCHANGED <<cashVars, refunds>>
    <2>1. UNCHANGED refundVars
      BY <1>3, <1>8 DEF refundVars
    <2>2. RefundIInv' /\ MoneyMoves /\ RefundsMove
      BY <1>1, <2>1, RefundInductive, LowerStepsMove
    <2>3. outcome \in Final => refunds[Main(k)] \in Final
      BY <1>1, <1>2, <1>4, <1>8 DEF RefundStatuses, Final
    <2>4. outcome \in Final => refunds[Main(k)] = outcome
      BY <1>1, <1>4, <2>3 DEF RefundIInv, RefundAgreesWithProvider, Final
    <2>5. outcome \in Final => refunds'[Main(k)] = outcome
      BY <1>8, <2>4
    <2> QED
      BY <1>3, <1>4, <2>2, <2>5, GoingOnKeeps
         DEF SettlingSteps, Final, Outcomes, ProviderAnswers
  <1> QED
    BY <1>6, <1>7, <1>8 DEF RecordReversalAnswer, outcome

(* By id alone, but what is written is what the refund says.               *)
LEMMA WriteReversalKeeps ==
    ASSUME CancellationInv, NEW k \in Keys, NEW c \in Calls, WriteReversal(k, c)
    PROVE  CancellationInv'
  <1>1. Main(k) \in PaymentIds /\ CallIsSound(k, c)
    BY RowNames DEF CancellationInv
  <1>2. RefundIInv' /\ MoneyMoves /\ RefundsMove
    BY RefundInductive, LowerStepsMove DEF WriteReversal, CancellationInv
  <1>3. /\ settling \in [Keys -> [Calls -> SettlingSteps]]
        /\ reversals \in [PaymentIds -> Outcomes \cup {"NONE"}]
    BY DEF CancellationInv, CancellationTypeOK
  <1>4. /\ settling' \in [Keys -> [Calls -> SettlingSteps]]
        /\ settling'[k][c] = "idle"
        /\ \A j \in Keys, x \in Calls :
               <<j, x>> # <<k, c>> => settling'[j][x] = settling[j][x]
    BY <1>3 DEF WriteReversal, Goto, SettlingSteps
  <1>5. /\ settling[k][c] \in Outcomes
        /\ reversals' \in [PaymentIds -> Outcomes \cup {"NONE"}]
        /\ reversals'[Main(k)] = settling[k][c]
        /\ \A p \in PaymentIds \ {Main(k)} : reversals'[p] = reversals[p]
        /\ UNCHANGED <<refunds, cancellation>>
    BY <1>1, <1>3 DEF WriteReversal, ReversalStatus, refundVars
  <1>6. reversals[Main(k)] # "NONE" /\ reversals'[Main(k)] # "NONE"
    BY <1>1, <1>5 DEF CallIsSound, Outcomes
  <1>7. \A p \in PaymentIds : reversals'[p] = "NONE" <=> reversals[p] = "NONE"
    BY <1>5, <1>6
  <1>8. reversals'[Main(k)] \in Final => refunds'[Main(k)] = reversals'[Main(k)]
    BY <1>1, <1>5 DEF CallIsSound
  <1>9. CallIsSound(k, c)'
    BY <1>4 DEF CallIsSound, Final, Outcomes, ProviderAnswers
  <1>10. \A j \in Keys, x \in Calls : settling'[j][x] = settling[j][x] \/ CallIsSound(j, x)'
    BY <1>4, <1>9
  <1>11. \A p \in PaymentIds :
             \/ reversals'[p] = reversals[p]
             \/ MethodFor(p) = "ORIGINAL_METHOD" /\ reversals'[p] \in Final
                    => refunds'[p] = reversals'[p]
    BY <1>5, <1>8
  <1> QED
    BY <1>2, <1>4, <1>5, <1>7, <1>10, <1>11, OwedStays

(* A reversal is credited to the wallet: no refund is involved. *)
LEMMA SettleWalletReversalKeeps ==
    ASSUME CancellationInv, NEW p \in PaymentIds, SettleWalletReversal(p)
    PROVE  CancellationInv'
  <1>1. /\ reversals \in [PaymentIds -> Outcomes \cup {"NONE"}]
        /\ settling \in [Keys -> [Calls -> SettlingSteps]]
        /\ RefundIInv
    BY DEF CancellationInv, CancellationTypeOK
  <1>2. reversals[p] # "NONE" /\ MethodFor(p) = "FOUNDATION_WALLET"
    BY DEF SettleWalletReversal, AwaitsReversal
  <1>3. /\ reversals' \in [PaymentIds -> Outcomes \cup {"NONE"}]
        /\ reversals'[p] = "SUCCEEDED"
        /\ \A q \in PaymentIds \ {p} : reversals'[q] = reversals[q]
    BY <1>1 DEF SettleWalletReversal, Outcomes
  <1>4. UNCHANGED <<now, dueStatus, dueAt, payments, granted, compensated, receipts, plans,
                    outside, collections, refunds, submissions, providerRefunds,
                    cancellation, settling>>
    BY DEF SettleWalletReversal
  <1>5. payments[p].amount \in Nat /\ Owner[payments[p].due] \in Members
    <2>1. payments[p].due \in Dues
      BY <1>2, ReversalIsOwed DEF Contributions
    <2> QED
      BY <1>1, <2>1, PaymentsAssumption DEF RefundIInv, CashBase, IInv, TypeOK, Rows
  <1>6. /\ wallet' \in [Members -> Nat]
        /\ ledger' \in [credit : Nat, debit : Nat]
    <2>1. wallet' \in [Members -> Nat]
      BY <1>1, <1>5 DEF SettleWalletReversal, RefundIInv, CashBase, IInv, TypeOK
    <2>2. ledger' \in [credit : Nat, debit : Nat]
      BY <1>1, <1>5, TypedCredit DEF SettleWalletReversal, RefundIInv, CashBase, IInv, TypeOK
    <2> QED
      BY <2>1, <2>2
  <1>7. CashBase'
    BY <1>1, <1>4, <1>6, RefundFrame DEF RefundIInv
  <1>8. RefundIInv'
    <2>1. Founded'
      BY <1>1, <1>4, FoundedFrame DEF RefundIInv
    <2> QED
      BY <1>1, <1>4, <1>7, <2>1
         DEF RefundIInv, RefundTypeOK, CashTypeOK, CashBase, IInv,
             AnswersAreCurrent, RefundAgreesWithProvider, RefundedPaymentStands
  <1>9. MoneyMoves /\ RefundsMove
    BY <1>4, NothingMoves DEF RefundsMove
  <1>10. \A q \in PaymentIds : reversals'[q] = "NONE" <=> reversals[q] = "NONE"
    BY <1>2, <1>3
  <1>11. \A q \in PaymentIds :
             \/ reversals'[q] = reversals[q]
             \/ MethodFor(q) = "ORIGINAL_METHOD" /\ reversals'[q] \in Final
                    => refunds'[q] = reversals'[q]
    BY <1>2, <1>3
  <1> QED
    BY <1>1, <1>3, <1>4, <1>8, <1>9, <1>10, <1>11, OwedStays

-----------------------------------------------------------------------------
(* The cancellation. *)

(* Only open payments without an order are closed, and no contribution has *)
(* a wallet leg.                                                           *)
LEMMA CancelledRowsClose ==
    ASSUME RefundIInv, NEW e \in Events, NEW method \in SettlementMethods,
           PrepareEventCancellation(e, method), NEW p \in PaymentIds
    PROVE  /\ payments'[p] \in Rows
           /\ payments'[p] = payments[p] \/ (RowCloses(p) /\ payments[p].status = "PENDING")
  <1> DEFINE closes == /\ p \in PaymentsOfEvent(e)
                       /\ payments[p].status = "PENDING" /\ payments[p].order = NoOrder
  <1>1. payments[p] \in Rows
    BY DEF RefundIInv, CashBase, IInv, TypeOK
  <1>2. payments'[p] = IF closes THEN [payments[p] EXCEPT !.status = "CANCELLED"] ELSE payments[p]
    BY DEF PrepareEventCancellation, CancelUnsentPayments
  <1>3. CASE ~closes
    <2>1. payments'[p] = payments[p]
      BY <1>2, <1>3
    <2> QED
      BY <1>1, <2>1
  <1>4. CASE closes
    <2>1. /\ payments'[p] = [payments[p] EXCEPT !.status = "CANCELLED"]
          /\ payments[p].status = "PENDING" /\ payments[p].order = NoOrder
          /\ payments[p].due \in Contributions
      BY <1>2, <1>4 DEF PaymentsOfEvent, DuesOfEvent
    <2>2. /\ payments'[p] \in Rows
          /\ payments'[p].status = "CANCELLED"
          /\ payments'[p].method = payments[p].method
          /\ payments'[p].due = payments[p].due
          /\ payments'[p].amount = payments[p].amount
          /\ payments'[p].order = payments[p].order
      BY <1>1, <2>1 DEF Rows, PaymentStatuses
    <2>3. \A k \in Keys : p = Main(k) => payments[Leg(k)].status = "NONE"
      BY <2>1, ContributionsAreOrdinary DEF RefundIInv, CashBase, IInv, Tables, RowsCoverTheDue
    <2> QED
      BY <2>1, <2>2, <2>3 DEF RowCloses
  <1> QED
    BY <1>3, <1>4

(* The invariant of the layers below. *)
LEMMA PrepareKeepsRefunds ==
    ASSUME RefundIInv, NEW e \in Events, NEW method \in SettlementMethods,
           PrepareEventCancellation(e, method)
    PROVE  RefundIInv'
  <1>1. IInv /\ CashBase
    BY DEF RefundIInv, CashBase
  <1>2. \A p \in PaymentIds :
            /\ payments'[p] \in Rows
            /\ payments'[p] = payments[p] \/ (RowCloses(p) /\ payments[p].status = "PENDING")
    BY CancelledRowsClose
  <1>3. /\ dueStatus' \in [Dues -> DueStatuses]
        /\ \A d \in Dues : dueStatus'[d] = "PAID" <=> dueStatus[d] = "PAID"
    BY <1>1 DEF PrepareEventCancellation, CancelUnpaidDues, IInv, TypeOK, DueStatuses, Unsettled
  <1>4. payments' \in [PaymentIds -> Rows]
    BY <1>2 DEF PrepareEventCancellation, CancelUnsentPayments
  <1>5. UNCHANGED <<now, dueAt, wallet, granted, compensated, receipts, ledger, plans,
                    outside, collections, refunds, submissions, providerRefunds>>
    BY DEF PrepareEventCancellation
  <1>6. Tables'
    BY <1>1, <1>2, <1>3, <1>5, TablesCloseRows
  <1>7. TypeOK'
    BY <1>1, <1>3, <1>4, <1>5 DEF IInv, TypeOK, outside
  <1>8. \A p \in PaymentIds :
            /\ payments'[p].method = payments[p].method
            /\ payments'[p].due = payments[p].due
            /\ payments'[p].order = payments[p].order
            /\ payments'[p].status = "NONE" <=> payments[p].status = "NONE"
            /\ \/ payments'[p] = payments[p]
               \/ /\ payments[p].status = "PENDING"
                  /\ payments'[p].status \in {"FAILED", "CANCELLED"}
    <2> SUFFICES ASSUME NEW p \in PaymentIds
                 PROVE  /\ payments'[p].method = payments[p].method
                        /\ payments'[p].due = payments[p].due
                        /\ payments'[p].order = payments[p].order
                        /\ payments'[p].status = "NONE" <=> payments[p].status = "NONE"
                        /\ \/ payments'[p] = payments[p]
                           \/ /\ payments[p].status = "PENDING"
                              /\ payments'[p].status \in {"FAILED", "CANCELLED"}
      OBVIOUS
    <2>1. CASE payments'[p] = payments[p]
      BY <2>1
    <2>2. CASE RowCloses(p) /\ payments[p].status = "PENDING"
      BY <2>2 DEF RowCloses
    <2> QED
      BY <1>2, <2>1, <2>2
  <1>9. ProviderSeesOnlineRows'
    BY <1>1, <1>5, <1>8, RowNames DEF CashBase, ProviderSeesOnlineRows, outside
  <1>10. CollectedOnce'
    BY <1>1, <1>5, <1>8, RowNames DEF CashBase, CollectedOnce
  <1>11. \A k \in Keys : payments'[Main(k)].status \in {"FAILED", "CANCELLED"}
                         /\ payments[Main(k)].status = "PENDING"
                           => payments'[Main(k)].status = "CANCELLED"
    BY <1>1, RowNames
       DEF PrepareEventCancellation, CancelUnsentPayments, IInv, TypeOK, Rows
  <1>12. CollectionFollowsPayment'
    BY <1>1, <1>5, <1>8, <1>11, RowNames DEF CashBase, CollectionFollowsPayment
  <1>13. CashBase'
    BY <1>1, <1>5, <1>6, <1>7, <1>9, <1>10, <1>12 DEF CashBase, IInv
  <1>14. RefundTypeOK'
    BY <1>5, <1>13 DEF RefundIInv, RefundTypeOK, CashTypeOK, CashBase, IInv
  <1>15. Founded' /\ RefundedPaymentStands'
    <2>1. \A p \in PaymentIds : Stands(p)
      BY <1>8 DEF Stands
    <2>2. BooksKept
      BY <1>1, <1>5, <2>1, BooksIdle DEF BooksBase, RefundIInv
    <2>3. MethodsFit'
      BY <1>8, RowNames DEF RefundIInv, Founded, MethodsFit
    <2> QED
      BY <1>5, <1>8, <2>2, <2>3 DEF RefundIInv, Founded, BooksKept, RefundedPaymentStands
  <1>16. AnswersAreCurrent' /\ RefundAgreesWithProvider'
    BY <1>5, <1>8, RowNames DEF RefundIInv, AnswersAreCurrent, RefundAgreesWithProvider
  <1> QED
    BY <1>13, <1>14, <1>15, <1>16 DEF RefundIInv

(* The reversals of other events, their payments and their method stand.   *)
LEMMA OldReversalsStand ==
    ASSUME CancellationInv, NEW e \in Events, NEW method \in SettlementMethods,
           PrepareEventCancellation(e, method), NEW p \in PaymentIds, reversals[p] # "NONE"
    PROVE  /\ reversals'[p] = reversals[p]
           /\ payments'[p] = payments[p]
           /\ MethodFor(p)' = MethodFor(p)
  <1>1. /\ cancellation[e] = "NONE"
        /\ \A x \in Events \ {e} : cancellation'[x] = cancellation[x]
    BY DEF PrepareEventCancellation, CancellationInv, CancellationTypeOK
  <1>2. p \notin PaymentsOfEvent(e)
    BY <1>1 DEF CancellationInv, SettledContributionsAreReversed
  <1>3. /\ payments[p].status = "SUCCEEDED"
        /\ payments[p].due \in Contributions
        /\ EventOf[payments[p].due] \in Events
    BY ReversalIsOwed
  <1>4. payments'[p] = payments[p]
    BY <1>3, CancelledRowsClose DEF CancellationInv
  <1>5. EventOf[payments[p].due] # e
    BY <1>2, <1>3 DEF PaymentsOfEvent, DuesOfEvent
  <1>6. reversals'[p] = reversals[p]
    BY <1>2 DEF PrepareEventCancellation, SettledContributions
  <1> QED
    BY <1>1, <1>3, <1>4, <1>5, <1>6 DEF MethodFor

(* Every due of the event is closed, and every settled payment gets its    *)
(* reversal, in the same transaction.                                      *)
LEMMA PrepareKeeps ==
    ASSUME CancellationInv, NEW e \in Events, NEW method \in SettlementMethods,
           PrepareEventCancellation(e, method)
    PROVE  CancellationInv'
  <1>1. /\ RefundIInv /\ RefundIInv'
        /\ CancellationTypeOK
    BY PrepareKeepsRefunds DEF CancellationInv
  <1>2. /\ cancellation[e] = "NONE"
        /\ cancellation'[e] = method /\ method # "NONE"
        /\ \A x \in Events \ {e} : cancellation'[x] = cancellation[x]
        /\ cancellation' \in [Events -> SettlementMethods \cup {"NONE"}]
    BY <1>1 DEF PrepareEventCancellation, CancellationTypeOK, SettlementMethods
  <1>3. \A p \in PaymentIds :
            /\ payments'[p].due = payments[p].due
            /\ payments'[p].method = payments[p].method
            /\ payments[p].status = "SUCCEEDED" => payments'[p] = payments[p]
            /\ payments'[p].status = "SUCCEEDED" => payments'[p] = payments[p]
    BY <1>1, CancelledRowsClose DEF RowCloses
  <1>4. \A p \in PaymentIds :
            /\ p \in SettledContributions(e) => reversals'[p] = "PENDING"
            /\ p \notin SettledContributions(e) => reversals'[p] = reversals[p]
    BY DEF PrepareEventCancellation
  <1>5. UNCHANGED <<refunds, providerRefunds, settling>>
    BY DEF PrepareEventCancellation
  <1>6. \A p \in PaymentIds : p \in PaymentsOfEvent(e) => reversals[p] = "NONE"
    BY <1>2 DEF CancellationInv, SettledContributionsAreReversed
  <1>7. \A p \in PaymentIds : reversals[p] # "NONE" =>
            /\ reversals'[p] = reversals[p]
            /\ payments'[p] = payments[p]
            /\ MethodFor(p)' = MethodFor(p)
    BY OldReversalsStand
  <1>8. CancellationTypeOK'
    <2>1. reversals' \in [PaymentIds -> Outcomes \cup {"NONE"}]
      BY <1>1 DEF CancellationTypeOK, PrepareEventCancellation, Outcomes
    <2> QED
      BY <1>1, <1>2, <1>5, <2>1 DEF CancellationTypeOK, RefundIInv
  <1>9. ReversalsAreOfContributions'
    BY <1>3, <1>4
       DEF CancellationInv, ReversalsAreOfContributions, SettledContributions,
           PaymentsOfEvent, DuesOfEvent
  <1>10. CancelledContributionsAreClosed'
    <2> SUFFICES ASSUME NEW d \in Contributions, cancellation'[EventOf[d]] # "NONE"
                 PROVE  dueStatus'[d] \notin Unsettled
      BY DEF CancelledContributionsAreClosed
    <2>1. d \in Dues /\ EventOf[d] \in Events
      BY CancellationAssumption DEF Contributions
    <2>2. dueStatus'[d] = IF EventOf[d] = e /\ dueStatus[d] \in Unsettled
                          THEN "CANCELLED" ELSE dueStatus[d]
      BY <2>1 DEF PrepareEventCancellation, CancelUnpaidDues, DuesOfEvent
    <2>3. CASE EventOf[d] = e
      BY <2>2, <2>3 DEF Unsettled
    <2>4. CASE EventOf[d] # e
      BY <1>2, <2>1, <2>2, <2>4 DEF CancellationInv, CancelledContributionsAreClosed
    <2> QED
      BY <2>3, <2>4
  <1>11. SettledContributionsAreReversed'
    <2> SUFFICES ASSUME NEW x \in Events, NEW p \in PaymentIds,
                        payments'[p].due \in Contributions, EventOf[payments'[p].due] = x
                 PROVE  reversals'[p] # "NONE" <=>
                            payments'[p].status = "SUCCEEDED" /\ cancellation'[x] # "NONE"
      BY DEF SettledContributionsAreReversed, PaymentsOfEvent, DuesOfEvent
    <2>1. p \in PaymentsOfEvent(x)
      BY <1>3 DEF PaymentsOfEvent, DuesOfEvent
    <2>2. payments'[p].status = "SUCCEEDED" <=> payments[p].status = "SUCCEEDED"
      BY <1>3
    <2>3. CASE x = e
      BY <1>2, <1>4, <1>6, <2>1, <2>2, <2>3 DEF SettledContributions
    <2>4. CASE x # e
      <3>1. p \notin SettledContributions(e)
        BY <1>3, <2>4 DEF SettledContributions, PaymentsOfEvent, DuesOfEvent
      <3> QED
        BY <1>2, <1>4, <2>1, <2>2, <2>4, <3>1 DEF CancellationInv, SettledContributionsAreReversed
    <2> QED
      BY <2>3, <2>4
  <1>12. ReversalAgreesWithRefund'
    <2> SUFFICES ASSUME NEW p \in PaymentIds, reversals'[p] \in {"SUCCEEDED", "FAILED"},
                        MethodFor(p)' = "ORIGINAL_METHOD"
                 PROVE  refunds'[p] = reversals'[p]
      BY DEF ReversalAgreesWithRefund
    <2>1. reversals'[p] = reversals[p] /\ reversals[p] # "NONE"
      BY <1>4
    <2> QED
      BY <1>5, <1>7, <2>1 DEF CancellationInv, ReversalAgreesWithRefund
  <1>13. ASSUME NEW k \in Keys, NEW c \in Calls
         PROVE  CallIsSound(k, c)'
    <2>1. CallIsSound(k, c) /\ Main(k) \in PaymentIds
      BY RowNames DEF CancellationInv
    <2>2. CASE settling[k][c] = "idle"
      BY <1>5, <2>2 DEF CallIsSound, Final, Outcomes, ProviderAnswers
    <2>3. CASE settling[k][c] # "idle"
      <3>1. reversals[Main(k)] # "NONE"
        BY <2>1, <2>3 DEF CallIsSound
      <3>2. /\ reversals'[Main(k)] = reversals[Main(k)]
            /\ payments'[Main(k)] = payments[Main(k)]
            /\ MethodFor(Main(k))' = MethodFor(Main(k))
        BY <1>7, <2>1, <3>1
      <3> QED
        BY <1>5, <2>1, <3>2 DEF CallIsSound
    <2> QED
      BY <2>2, <2>3
  <1> QED
    BY <1>1, <1>8, <1>9, <1>10, <1>11, <1>12, <1>13 DEF CancellationInv

-----------------------------------------------------------------------------
(* Every step preserves the invariant. *)
LEMMA CancellationInductive ==
    CancellationInv /\ [NextWithCancellation]_cancellationVars => CancellationInv'
  <1> SUFFICES ASSUME CancellationInv, [NextWithCancellation]_cancellationVars
               PROVE  CancellationInv'
    OBVIOUS
  <1>1. CASE UNCHANGED cancellationVars
    BY <1>1, LowerStepKeeps DEF cancellationVars
  <1>2. CASE NextWithRefunds /\ UNCHANGED cancellationOnly
    BY <1>2, LowerStepKeeps
  <1>3. CASE CancellationNext
    BY <1>3, PrepareKeeps, SettleWalletReversalKeeps, ReadReversalKeeps,
       RequestReversalRefundKeeps, SettleReversalRefundKeeps, LeavingKeeps,
       SubmitReversalRefundKeeps, RecordReversalAnswerKeeps, WriteReversalKeeps
       DEF CancellationNext
  <1> QED
    BY <1>1, <1>2, <1>3 DEF NextWithCancellation

(* No event is cancelled at the start. *)
LEMMA CancellationInitInv == CancellationInit => CancellationInv
  <1> SUFFICES ASSUME CancellationInit PROVE CancellationInv
    OBVIOUS
  <1>1. RefundIInv
    BY RefundInitInv DEF CancellationInit
  <1>2. CancellationTypeOK
    BY <1>1 DEF CancellationInit, CancellationTypeOK, RefundIInv, SettlingSteps, Outcomes
  <1>3. /\ \A p \in PaymentIds : reversals[p] = "NONE"
        /\ \A e \in Events : cancellation[e] = "NONE"
        /\ \A k \in Keys, c \in Calls : settling[k][c] = "idle"
    BY DEF CancellationInit
  <1>4. ReversalsAreOfContributions /\ ReversalAgreesWithRefund
    BY <1>3 DEF ReversalsAreOfContributions, ReversalAgreesWithRefund
  <1>5. SettledContributionsAreReversed
    BY <1>3 DEF SettledContributionsAreReversed, PaymentsOfEvent
  <1>6. CancelledContributionsAreClosed
    BY <1>3, CancellationAssumption DEF CancelledContributionsAreClosed
  <1>7. \A k \in Keys, c \in Calls : CallIsSound(k, c)
    BY <1>3 DEF CallIsSound, Final, Outcomes, ProviderAnswers
  <1> QED
    BY <1>1, <1>2, <1>4, <1>5, <1>6, <1>7 DEF CancellationInv

(* The inductive invariant holds in every reachable state. *)
THEOREM CancellationInvariance == CancellationSpec => []CancellationInv
  BY CancellationInitInv, CancellationInductive, PTL DEF CancellationSpec

(* Next to a cancellation, too, every table stays typed.                   *)
THEOREM CancellationTypeCorrect == CancellationSpec => []CancellationTypeOK
  <1>1. CancellationInv => CancellationTypeOK
    BY DEF CancellationInv
  <1> QED
    BY <1>1, CancellationInvariance, PTL

(* A cancelled event owes a reversal for exactly the contributions that    *)
(* were settled, whatever webhook, cash or job comes late                  *)
(* (prepareEventCancellation).                                             *)
THEOREM ExactlyWhatWasSettledIsReversed ==
    CancellationSpec => []SettledContributionsAreReversed
  <1>1. CancellationInv => SettledContributionsAreReversed
    BY DEF CancellationInv
  <1> QED
    BY <1>1, CancellationInvariance, PTL

(* A reversal by the original method never contradicts its refund, however *)
(* many calls settle it at once                                            *)
(* (settleOriginalMethodEventCancellationReversal).                        *)
THEOREM ReversalsAgreeWithRefunds == CancellationSpec => []ReversalAgreesWithRefund
  <1>1. CancellationInv => ReversalAgreesWithRefund
    BY DEF CancellationInv
  <1> QED
    BY <1>1, CancellationInvariance, PTL

(* Next to a cancellation, too, a refund never contradicts the provider,   *)
(* and its payment stays settled and receipted.                            *)
THEOREM RefundsStayWithCancellation ==
    CancellationSpec => [](RefundAgreesWithProvider /\ RefundedPaymentStands)
  <1>1. CancellationInv => RefundAgreesWithProvider /\ RefundedPaymentStands
    BY DEF CancellationInv, RefundIInv
  <1> QED
    BY <1>1, CancellationInvariance, PTL
-----------------------------------------------------------------------------
(***************************************************************************)
(* The books with reversals: what payments and refunds do not explain of a *)
(* wallet and of the debits is exactly what reversals credited.            *)
(***************************************************************************)
CreditedTo(m) == {p \in CreditedBack : Owner[payments[p].due] = m}

(* What reversals, in turn, do not explain. *)
WalletGapAfterReversals(m) == WalletGapAfterRefunds(m) - Total(CreditedTo(m))

DebitGapAfterReversals == DebitGapAfterRefunds - Total(CreditedBack)

ReversalBooksKept ==
    /\ \A m \in Members : WalletGapAfterReversals(m)' = WalletGapAfterReversals(m)
    /\ DebitGapAfterReversals' = DebitGapAfterReversals
    /\ CreditGap' = CreditGap

(* Wallet reversals are of settled payments. *)
LEMMA TypedReversalBooks ==
    ASSUME CancellationInv
    PROVE  /\ RefundIInv
           /\ BooksBase
           /\ CreditedBack \subseteq Succeeded
           /\ Total(CreditedBack) \in Nat
           /\ \A m \in Members : /\ CreditedTo(m) \subseteq Succeeded
                                 /\ Total(CreditedTo(m)) \in Nat
  <1>1. RefundIInv /\ BooksBase
    BY TypedRefundBooks DEF CancellationInv
  <1>2. CreditedBack \subseteq Succeeded
    BY ReversalIsOwed DEF CreditedBack, Succeeded
  <1>3. \A m \in Members : CreditedTo(m) \subseteq Succeeded
    BY <1>2 DEF CreditedTo
  <1> QED
    BY <1>1, <1>2, <1>3, TypedBooks

(* A reversal that is there keeps its method, and only those by the        *)
(* original method are written without a credit: the credits stay.         *)
LEMMA CreditsStay ==
    ASSUME CancellationInv,
           \A p \in PaymentIds : reversals[p] # "NONE" => MethodFor(p)' = MethodFor(p),
           \A p \in PaymentIds :
               \/ reversals'[p] = "SUCCEEDED" <=> reversals[p] = "SUCCEEDED"
               \/ reversals[p] # "NONE" /\ MethodFor(p) = "ORIGINAL_METHOD"
    PROVE  CreditedBack' = CreditedBack
  <1>1. ASSUME NEW p \in PaymentIds
        PROVE  (reversals'[p] = "SUCCEEDED" /\ MethodFor(p)' = "FOUNDATION_WALLET")
                   <=> (reversals[p] = "SUCCEEDED" /\ MethodFor(p) = "FOUNDATION_WALLET")
    OBVIOUS
  <1> QED
    BY <1>1 DEF CreditedBack

(* The settled rows stand, and so do the methods of their reversals. *)
LEMMA MethodsStand ==
    ASSUME CancellationInv, UNCHANGED cancellation,
           \A p \in Succeeded : payments'[p] = payments[p]
    PROVE  \A p \in PaymentIds : reversals[p] # "NONE" => MethodFor(p)' = MethodFor(p)
  BY ReversalIsOwed DEF MethodFor, Succeeded

(* A step that keeps the books with refunds and credits no reversal keeps  *)
(* the books with reversals.                                               *)
LEMMA RefundStepKeepsReversalBooks ==
    ASSUME CancellationInv, RefundBooksKept, CreditedBack' = CreditedBack
    PROVE  ReversalBooksKept
  <1>1. \A p \in Succeeded : payments'[p] = payments[p]
    BY DEF RefundBooksKept
  <1>2. \A m \in Members : CreditedTo(m)' = CreditedTo(m)
    BY <1>1, TypedReversalBooks DEF CreditedTo
  <1>3. ASSUME NEW m \in Members
        PROVE  Total(CreditedTo(m))' = Total(CreditedTo(m))
    BY <1>1, <1>2, TotalsStand, TypedReversalBooks DEF Total
  <1>4. Total(CreditedBack)' = Total(CreditedBack)
    BY <1>1, TotalsStand, TypedReversalBooks DEF Total
  <1> QED
    BY <1>3, <1>4
       DEF RefundBooksKept, ReversalBooksKept, WalletGapAfterReversals, DebitGapAfterReversals

(* So does every step that leaves the cancellations alone and credits no   *)
(* reversal.                                                               *)
LEMMA NothingCredited ==
    ASSUME CancellationInv, RefundBooksKept, UNCHANGED cancellation,
           \A p \in PaymentIds :
               \/ reversals'[p] = reversals[p]
               \/ reversals[p] # "NONE" /\ MethodFor(p) = "ORIGINAL_METHOD"
    PROVE  ReversalBooksKept
  <1>1. \A p \in PaymentIds : reversals[p] # "NONE" => MethodFor(p)' = MethodFor(p)
    BY MethodsStand DEF RefundBooksKept
  <1>2. CreditedBack' = CreditedBack
    BY <1>1, CreditsStay
  <1> QED
    BY <1>2, RefundStepKeepsReversalBooks

(* The cancellation itself moves no money: it only says what is owed.      *)
LEMMA PrepareKeepsBooks ==
    ASSUME CancellationInv, NEW e \in Events, NEW method \in SettlementMethods,
           PrepareEventCancellation(e, method)
    PROVE  ReversalBooksKept
  <1>1. RefundIInv /\ BooksBase
    BY TypedReversalBooks
  <1>2. \A p \in PaymentIds : Stands(p)
    BY <1>1, CancelledRowsClose DEF Stands, RowCloses
  <1>3. UNCHANGED <<wallet, granted, compensated, receipts, ledger, refunds>>
    BY DEF PrepareEventCancellation
  <1>4. RefundBooksKept
    BY <1>1, <1>2, <1>3, BooksIdle, LowerStepKeepsRefundBooks DEF Refunded
  <1>5. \A p \in PaymentIds : reversals[p] # "NONE" =>
            /\ reversals'[p] = reversals[p]
            /\ MethodFor(p)' = MethodFor(p)
    BY OldReversalsStand
  <1>6. \A p \in PaymentIds : reversals[p] = "NONE" => reversals'[p] # "SUCCEEDED"
    BY DEF PrepareEventCancellation
  <1>7. CreditedBack' = CreditedBack
    BY <1>5, <1>6, CreditsStay
  <1> QED
    BY <1>4, <1>7, RefundStepKeepsReversalBooks

(* The reversal to a wallet enters what it moves: one credit and one       *)
(* debit. A reversal that succeeded is not taken up again.                 *)
LEMMA SettleWalletReversalKeepsBooks ==
    ASSUME CancellationInv, NEW p \in PaymentIds, SettleWalletReversal(p)
    PROVE  ReversalBooksKept
  <1> DEFINE amount == payments[p].amount
             gets(m) == Owner[payments[p].due] = m
  <1>1. /\ UNCHANGED <<payments, granted, compensated, refunds, cancellation>>
        /\ Succeeded' = Succeeded
        /\ Refunded' = Refunded
        /\ AmountOf' = AmountOf
        /\ \A m \in Members : SettledFrom(m)' = SettledFrom(m)
        /\ \A m \in Members : RefundedFrom(m)' = RefundedFrom(m)
    BY DEF SettleWalletReversal, Succeeded, Refunded, AmountOf, SettledFrom, RefundedFrom
  <1>2. /\ reversals[p] # "NONE" /\ reversals[p] # "SUCCEEDED"
        /\ MethodFor(p) = "FOUNDATION_WALLET"
        /\ reversals'[p] = "SUCCEEDED"
        /\ \A q \in PaymentIds \ {p} : reversals'[q] = reversals[q]
        /\ \A q \in PaymentIds : MethodFor(q)' = MethodFor(q)
    BY DEF SettleWalletReversal, AwaitsReversal, CancellationInv, CancellationTypeOK, MethodFor
  <1>3. /\ CreditedBack' = CreditedBack \cup {p}
        /\ p \notin CreditedBack
        /\ p \in Succeeded
    BY <1>2, ReversalIsOwed DEF CreditedBack, Succeeded
  <1>4. /\ AmountOf[p] = amount /\ amount \in Nat
        /\ \A q \in Succeeded : AmountOf[q] \in Int
    BY TypedReversalBooks, TypedBooks
  <1>5. ASSUME NEW T \in SUBSET Succeeded, p \notin T
        PROVE  Total(T \cup {p}) = Total(T) + amount
    <2>1. IsFiniteSet(T)
      BY TypedReversalBooks, TypedBooks
    <2>2. \A q \in T : AmountOf[q] \in Int /\ AmountOf[q] = AmountOf[q]
      BY <1>4
    <2>3. AmountOf[p] \in Int
      BY <1>4
    <2> QED
      BY <1>4, <1>5, <2>1, <2>2, <2>3, SumInsert DEF Total
  <1>6. /\ wallet \in [Members -> Nat]
        /\ ledger \in [credit : Nat, debit : Nat]
    BY DEF CancellationInv, RefundIInv, CashBase, IInv, TypeOK
  <1>7. /\ \A m \in Members : wallet'[m] = wallet[m] + (IF gets(m) THEN amount ELSE 0)
        /\ ledger'.credit = ledger.credit
        /\ ledger'.debit = ledger.debit + amount
    BY <1>4, <1>6 DEF SettleWalletReversal
  <1>8. ASSUME NEW m \in Members
        PROVE  WalletGapAfterReversals(m)' = WalletGapAfterReversals(m)
    <2>1. /\ SettledFrom(m) \in SUBSET Succeeded
          /\ SettledFrom(m) \cap compensated \in SUBSET Succeeded
          /\ RefundedFrom(m) \in SUBSET Succeeded
          /\ CreditedTo(m) \in SUBSET Succeeded
          /\ p \notin CreditedTo(m)
      BY <1>3, TypedReversalBooks, TypedRefundBooks, TypedBooks DEF CreditedTo
    <2>2. /\ Total(SettledFrom(m))' = Total(SettledFrom(m))
          /\ Total(SettledFrom(m) \cap compensated)' = Total(SettledFrom(m) \cap compensated)
          /\ Total(RefundedFrom(m))' = Total(RefundedFrom(m))
      BY <1>1 DEF Total
    <2>3. CreditedTo(m)' = IF gets(m) THEN CreditedTo(m) \cup {p} ELSE CreditedTo(m)
      BY <1>1, <1>3 DEF CreditedTo
    <2>4. Total(CreditedTo(m))' = Total(CreditedTo(m)')
      BY <1>1 DEF Total
    <2>5. Total(CreditedTo(m))' = Total(CreditedTo(m)) + (IF gets(m) THEN amount ELSE 0)
      <3>1. CASE gets(m)
        BY <1>5, <2>1, <2>3, <2>4, <3>1
      <3>2. CASE ~gets(m)
        <4>1. Total(CreditedTo(m)) \in Nat
          BY TypedReversalBooks
        <4>2. CreditedTo(m)' = CreditedTo(m)
          BY <2>3, <3>2
        <4>3. Total(CreditedTo(m))' = Total(CreditedTo(m))
          BY <2>4, <4>2, Zenon
        <4> QED
          BY <3>2, <4>1, <4>3
      <3> QED
        BY <3>1, <3>2
    <2>6. /\ wallet[m] \in Int /\ granted[m] \in Int /\ amount \in Int
          /\ Total(SettledFrom(m)) \in Int
          /\ Total(SettledFrom(m) \cap compensated) \in Int
          /\ Total(RefundedFrom(m)) \in Int
          /\ Total(CreditedTo(m)) \in Int
          /\ granted'[m] = granted[m]
          /\ wallet'[m] = wallet[m] + (IF gets(m) THEN amount ELSE 0)
      BY <1>1, <1>4, <1>7, <2>1, TypedReversalBooks, TypedBooks
    <2> HIDE DEF gets, amount
    <2> QED
      BY <2>2, <2>5, <2>6 DEF WalletGapAfterReversals, WalletGapAfterRefunds, WalletGap
  <1>9. DebitGapAfterReversals' = DebitGapAfterReversals
    <2>1. /\ CreditedBack \in SUBSET Succeeded /\ Refunded \in SUBSET Succeeded
          /\ compensated \in SUBSET Succeeded
      BY TypedReversalBooks, TypedRefundBooks, TypedBooks
    <2>2. /\ Total(CreditedBack)' = Total(CreditedBack')
          /\ Total(compensated)' = Total(compensated)
          /\ Total(Refunded)' = Total(Refunded)
      BY <1>1 DEF Total
    <2>3. Total(CreditedBack)' = Total(CreditedBack) + amount
      BY <1>3, <1>5, <2>1, <2>2
    <2>4. /\ Total(CreditedBack) \in Nat /\ Total(Refunded) \in Nat
          /\ Total(compensated) \in Nat /\ ledger.debit \in Nat /\ amount \in Nat
      BY <1>4, <2>1, TypedReversalBooks, TypedBooks
    <2> HIDE DEF amount
    <2> QED
      BY <1>7, <2>2, <2>3, <2>4 DEF DebitGapAfterReversals, DebitGapAfterRefunds, DebitGap
  <1>10. CreditGap' = CreditGap
    BY <1>1, <1>7 DEF CreditGap, Total
  <1> QED
    BY <1>8, <1>9, <1>10 DEF ReversalBooksKept

(* Every step of the composition keeps the books with reversals.           *)
LEMMA ReversalsKeepBooks ==
    ASSUME CancellationInv, NextWithCancellation
    PROVE  ReversalBooksKept
  <1>1. RefundIInv
    BY DEF CancellationInv
  <1>2. ASSUME UNCHANGED <<payments, wallet, granted, compensated, receipts, ledger, cancellation>>,
               Refunded' = Refunded,
               \A p \in PaymentIds :
                   \/ reversals'[p] = reversals[p]
                   \/ reversals[p] # "NONE" /\ MethodFor(p) = "ORIGINAL_METHOD"
        PROVE  ReversalBooksKept
    BY <1>1, <1>2, NothingRefunded, NothingCredited
  <1>3. ASSUME [NextWithRefunds]_refundVars, UNCHANGED <<cancellation, reversals>>
        PROVE  ReversalBooksKept
    <2>1. CASE UNCHANGED refundVars
      BY <1>2, <1>3, <2>1 DEF refundVars, cashVars, vars, Refunded
    <2>2. CASE NextWithRefunds
      BY <1>1, <1>3, <2>2, RefundsKeepBooks, NothingCredited
    <2> QED
      BY <1>3, <2>1, <2>2
  <1>4. ASSUME NEW k \in Keys, NEW c \in Calls, RequestReversalRefund(k, c)
        PROVE  ReversalBooksKept
    BY <1>3, <1>4, RowNames DEF RequestReversalRefund, NextWithRefunds, RefundNext
  <1>5. ASSUME NEW k \in Keys, NEW c \in Calls, SettleReversalRefund(k, c)
        PROVE  ReversalBooksKept
    BY <1>3, <1>5, RowNames DEF SettleReversalRefund, NextWithRefunds, RefundNext
  <1>6. ASSUME NEW k \in Keys, NEW c \in Calls,
               \/ ReadReversal(k, c) \/ LeaveReversalPending(k, c) \/ AbandonReversal(k, c)
        PROVE  ReversalBooksKept
    BY <1>3, <1>6 DEF ReadReversal, LeaveReversalPending, AbandonReversal
  <1>7. ASSUME NEW k \in Keys, NEW c \in Calls, NEW answer \in ProviderAnswers,
               SubmitReversalRefund(k, c, answer)
        PROVE  ReversalBooksKept
    BY <1>2, <1>7 DEF SubmitReversalRefund, cashVars, vars, Refunded
  <1>8. ASSUME NEW k \in Keys, NEW c \in Calls, RecordReversalAnswer(k, c)
        PROVE  ReversalBooksKept
    <2>1. Main(k) \in PaymentIds /\ UNCHANGED <<cancellation, reversals>>
      BY <1>8, RowNames DEF RecordReversalAnswer
    <2>2. CASE SettlePaymentRefund(Main(k))
      BY <1>1, <2>1, <2>2, SettlingRefundKeepsBooks, NothingCredited
    <2>3. CASE FailPaymentRefund(Main(k))
      <3>1. Refunded' = Refunded
        BY <1>1, <2>1, <2>3 DEF FailPaymentRefund, Refunded, RefundIInv, RefundTypeOK
      <3> QED
        BY <1>2, <2>1, <2>3, <3>1 DEF FailPaymentRefund, cashVars, vars
    <2>4. CASE UNCHANGED <<cashVars, refunds>>
      BY <1>2, <2>1, <2>4 DEF cashVars, vars, Refunded
    <2> QED
      BY <1>8, <2>2, <2>3, <2>4 DEF RecordReversalAnswer
  <1>9. ASSUME NEW k \in Keys, NEW c \in Calls, WriteReversal(k, c)
        PROVE  ReversalBooksKept
    <2>1. /\ Main(k) \in PaymentIds
          /\ reversals[Main(k)] # "NONE" /\ MethodFor(Main(k)) = "ORIGINAL_METHOD"
      BY <1>9, RowNames DEF WriteReversal, CancellationInv, CallIsSound, Outcomes
    <2>2. \A p \in PaymentIds : reversals'[p] = reversals[p] \/ p = Main(k)
      BY <1>9 DEF WriteReversal, CancellationInv, CancellationTypeOK
    <2> QED
      BY <1>2, <1>9, <2>1, <2>2 DEF WriteReversal, refundVars, cashVars, vars, Refunded
  <1> QED
    BY <1>3, <1>4, <1>5, <1>6, <1>7, <1>8, <1>9, PrepareKeepsBooks, SettleWalletReversalKeepsBooks
       DEF NextWithCancellation, CancellationNext, cancellationOnly

(* The books of the whole system, with reversals: no gap. *)
ReversalBooksInv ==
    /\ CancellationInv
    /\ \A m \in Members : WalletGapAfterReversals(m) = 0
    /\ DebitGapAfterReversals = 0
    /\ CreditGap = 0

(* Nothing was credited at the start. *)
LEMMA ReversalBooksInit ==
    ASSUME CancellationInit
    PROVE  /\ \A m \in Members : WalletGapAfterReversals(m) = 0
           /\ DebitGapAfterReversals = 0
           /\ CreditGap = 0
  <1>1. CreditedBack = {} /\ \A m \in Members : CreditedTo(m) = {}
    BY DEF CancellationInit, CreditedBack, CreditedTo
  <1>2. Total({}) = 0
    BY FS_EmptySet, SumOfZeros DEF Total
  <1>3. \A m \in Members : Total(CreditedTo(m)) = 0
    BY <1>1, <1>2
  <1> QED
    BY <1>1, <1>2, <1>3, RefundBooksInit
       DEF CancellationInit, WalletGapAfterReversals, DebitGapAfterReversals

(* Every step preserves the books. *)
LEMMA ReversalBooksInductive ==
    ReversalBooksInv /\ [NextWithCancellation]_cancellationVars => ReversalBooksInv'
  <1> SUFFICES ASSUME ReversalBooksInv, [NextWithCancellation]_cancellationVars
               PROVE  ReversalBooksInv'
    OBVIOUS
  <1>1. CancellationInv'
    BY CancellationInductive DEF ReversalBooksInv
  <1>2. ReversalBooksKept
    <2>1. CASE UNCHANGED cancellationVars
      <3>1. RefundBooksKept
        BY <2>1, NothingRefunded
           DEF ReversalBooksInv, CancellationInv, cancellationVars, refundVars, cashVars,
               vars, Refunded
      <3> QED
        BY <2>1, <3>1, NothingCredited
           DEF ReversalBooksInv, cancellationVars, cancellationOnly
    <2> QED
      BY <2>1, ReversalsKeepBooks DEF ReversalBooksInv
  <1> QED
    BY <1>1, <1>2 DEF ReversalBooksInv, ReversalBooksKept

(* What an invariant without gaps says of the books themselves.            *)
LEMMA NoGapAfterReversals ==
    ASSUME ReversalBooksInv
    PROVE  ReversalsAreOnTheBooks
  <1>1. CancellationInv /\ RefundIInv /\ BooksBase
    BY TypedReversalBooks DEF ReversalBooksInv
  <1>2. ASSUME NEW m \in Members
        PROVE  wallet[m] = granted[m]
                           - Total(SettledFrom(m))
                           + Total(SettledFrom(m) \cap compensated)
                           + Total(SettledFrom(m) \cap Refunded)
                           + Total({p \in CreditedBack : Owner[payments[p].due] = m})
    <2> DEFINE w == wallet[m]
               g == granted[m]
               s == Total(SettledFrom(m))
               c == Total(SettledFrom(m) \cap compensated)
               r == Total(SettledFrom(m) \cap Refunded)
               v == Total({p \in CreditedBack : Owner[payments[p].due] = m})
    <2>1. /\ SettledFrom(m) \in SUBSET Succeeded
          /\ SettledFrom(m) \cap compensated \in SUBSET Succeeded
      BY <1>1, TypedBooks
    <2>2. /\ Total(SettledFrom(m)) \in Nat
          /\ Total(SettledFrom(m) \cap compensated) \in Nat
          /\ wallet[m] \in Nat /\ granted[m] \in Nat
      BY <1>1, <2>1, TypedBooks
    <2>3. Total(SettledFrom(m) \cap Refunded) \in Nat
      BY <1>1, TypedRefundBooks DEF RefundedFrom
    <2>4. Total({p \in CreditedBack : Owner[payments[p].due] = m}) \in Nat
      BY <1>1, TypedReversalBooks DEF CreditedTo
    <2>5. ((w - g + s - c) - r) - v = 0
      BY Zenon
         DEF ReversalBooksInv, WalletGapAfterReversals, WalletGapAfterRefunds, WalletGap,
             RefundedFrom, CreditedTo
    <2>6. /\ w \in Int /\ g \in Int /\ s \in Int /\ c \in Int /\ r \in Int /\ v \in Int
      BY <2>2, <2>3, <2>4
    <2>7. w = g - s + c + r + v
      <3> HIDE DEF w, g, s, c, r, v
      <3> QED
        BY <2>5, <2>6
    <2> QED
      BY <2>7, Zenon
  <1>3. ledger.debit = Total(compensated) + Total(Refunded) + Total(CreditedBack)
    <2>1. compensated \in SUBSET Succeeded
      BY <1>1, TypedBooks
    <2>2. /\ Total(compensated) \in Nat /\ Total(Refunded) \in Nat
          /\ Total(CreditedBack) \in Nat /\ ledger.debit \in Nat
      BY <1>1, <2>1, TypedBooks, TypedRefundBooks, TypedReversalBooks
    <2>3. DebitGapAfterReversals = 0
      BY DEF ReversalBooksInv
    <2> QED
      BY <2>2, <2>3 DEF DebitGapAfterReversals, DebitGapAfterRefunds, DebitGap
  <1>4. CreditMatchesPayments
    <2>1. /\ Total(Succeeded) \in Nat /\ SumFunctionOnSet(granted, Members) \in Nat
          /\ ledger.credit \in Nat
      BY <1>1, TypedBooks
    <2>2. CreditGap = 0
      BY DEF ReversalBooksInv
    <2> QED
      BY <2>1, <2>2 DEF CreditMatchesPayments, CreditGap
  <1> QED
    BY <1>2, <1>3, <1>4 DEF ReversalsAreOnTheBooks

(* Wallets and ledger are, to the paisa, what was granted, settled, given  *)
(* back, refunded and reversed, however often and concurrently a           *)
(* cancellation is repeated: no reversal is credited twice and none of the *)
(* original method moves anything but its one refund.                      *)
THEOREM ReversalsAreBooked == CancellationSpec => []ReversalsAreOnTheBooks
  <1>1. CancellationInit => ReversalBooksInv
    BY CancellationInitInv, ReversalBooksInit DEF ReversalBooksInv
  <1>2. CancellationSpec => []ReversalBooksInv
    BY <1>1, ReversalBooksInductive, PTL DEF CancellationSpec
  <1> QED
    BY <1>2, NoGapAfterReversals, PTL
=============================================================================
