-------------------------- MODULE EventCancellation --------------------------
(***************************************************************************)
(* The cancellation of a death support event, next to everything that pays *)
(* and refunds its contributions.  One transaction cancels what is unpaid  *)
(* and writes one reversal per settled payment; the reversals are settled  *)
(* afterwards, each on its own: a wallet credit is one transaction, while  *)
(* the original method runs a refund request between a read and a write of *)
(* the reversal that no transaction joins.  A repeated call takes up the   *)
(* reversals that have not succeeded, concurrently with an earlier one.    *)
(*                                                                         *)
(* The events are published and their contribution dues exist from the     *)
(* start; a CLOSED event is cancelled exactly like a PUBLISHED one.        *)
(***************************************************************************)
EXTENDS PaymentRefunds

CONSTANTS
    Events,
    EventOf         \* the event of a contribution due

SettlementMethods == {"ORIGINAL_METHOD", "FOUNDATION_WALLET"}

Contributions == {d \in Dues : Purpose[d] = "CONTRIBUTION"}

ASSUME CancellationAssumption == EventOf \in [Contributions -> Events]

VARIABLES
    cancellation,   \* ContributionEventCancellation.settlementMethod, by event
    reversals,      \* ContributionEventReversal.status, by payment
    settling        \* settleOriginalMethodEventCancellationReversal: how far a call is

cancellationOnly == <<cancellation, reversals, settling>>
cancellationVars == <<refundVars, cancellationOnly>>

(* What a call is about to do: ask for the refund, submit it, record the   *)
(* provider's answer, or write the outcome into the reversal.              *)
Outcomes == {"PENDING", "SUCCEEDED", "FAILED"}
SettlingSteps == {"idle", "read", "requested"} \cup (ProviderAnswers \ {"none"}) \cup Outcomes

CancellationInit ==
    /\ RefundInit
    /\ cancellation = [e \in Events |-> "NONE"]
    /\ reversals = [p \in PaymentIds |-> "NONE"]
    /\ settling = [k \in Keys |-> [c \in Calls |-> "idle"]]

-----------------------------------------------------------------------------

DuesOfEvent(e) == {d \in Contributions : EventOf[d] = e}

PaymentsOfEvent(e) == {p \in PaymentIds : payments[p].due \in DuesOfEvent(e)}

(* The reversals a cancellation creates, for what has been paid so far.    *)
SettledContributions(e) == {p \in PaymentsOfEvent(e) : payments[p].status = "SUCCEEDED"}

(* Wrong variant: expired dues are left as they are. *)
CancelOpenDues(e) ==
    [d \in Dues |-> IF d \in DuesOfEvent(e) /\ dueStatus[d] \in Expirable
                    THEN "CANCELLED" ELSE dueStatus[d]]

CancelUnpaidDues(e) ==
    [d \in Dues |-> IF d \in DuesOfEvent(e) /\ dueStatus[d] \in Unsettled
                    THEN "CANCELLED" ELSE dueStatus[d]]

(* An order that has been sent to the provider is left open. *)
CancelUnsentPayments(e) ==
    [p \in PaymentIds |->
        IF /\ p \in PaymentsOfEvent(e)
           /\ payments[p].status = "PENDING" /\ payments[p].order = NoOrder
        THEN [payments[p] EXCEPT !.status = "CANCELLED"] ELSE payments[p]]

(* A repeated call must name the same method and changes nothing.          *)
PrepareEventCancellation(e, method) ==
    /\ cancellation[e] = "NONE"
    /\ cancellation' = [cancellation EXCEPT ![e] = method]
    /\ dueStatus' = CancelUnpaidDues(e)
    /\ payments' = CancelUnsentPayments(e)
    /\ reversals' = [p \in PaymentIds |->
                        IF p \in SettledContributions(e) THEN "PENDING" ELSE reversals[p]]
    /\ UNCHANGED <<now, dueAt, wallet, granted, compensated, receipts, ledger, plans,
                   outside, collections, refunds, submissions, providerRefunds, settling>>

MethodFor(p) == cancellation[EventOf[payments[p].due]]

(* Wrong variant: a settled reversal is settled again by a repeated call. *)
AwaitsReversalAgain(p, method) == reversals[p] # "NONE" /\ MethodFor(p) = method

(* settleEventCancellation takes up everything but SUCCEEDED.              *)
AwaitsReversal(p, method) ==
    reversals[p] \in {"PENDING", "FAILED"} /\ MethodFor(p) = method

SettleWalletReversal(p) ==
    /\ AwaitsReversal(p, "FOUNDATION_WALLET")
    /\ reversals' = [reversals EXCEPT ![p] = "SUCCEEDED"]
    /\ wallet' = [wallet EXCEPT ![Owner[payments[p].due]] = @ + payments[p].amount]
    /\ ledger' = [ledger EXCEPT !.debit = @ + payments[p].amount]
    /\ UNCHANGED <<now, dueStatus, dueAt, payments, granted, compensated, receipts, plans,
                   outside, collections, refunds, submissions, providerRefunds,
                   cancellation, settling>>

-----------------------------------------------------------------------------
(* settleOriginalMethodEventCancellationReversal, by call c for the        *)
(* payment of key k: contributions have no wallet leg.                     *)

Goto(k, c, step) == settling' = [settling EXCEPT ![k][c] = step]

ReadReversal(k, c) ==
    /\ settling[k][c] = "idle"
    /\ AwaitsReversal(Main(k), "ORIGINAL_METHOD")
    /\ Goto(k, c, "read")
    /\ UNCHANGED <<refundVars, cancellation, reversals>>

(* createOrLoadRefundRequest; a final outcome is returned as it is.        *)
RequestReversalRefund(k, c) ==
    /\ settling[k][c] = "read"
    /\ UNCHANGED <<cancellation, reversals>>
    /\ \/ CreateRefundRequest(Main(k)) /\ Goto(k, c, "requested")
       \/ /\ refunds[Main(k)] = "PENDING" /\ Goto(k, c, "requested")
          /\ UNCHANGED refundVars
       \/ /\ refunds[Main(k)] \in {"SUCCEEDED", "FAILED"} /\ Goto(k, c, refunds[Main(k)])
          /\ UNCHANGED refundVars

(* A wallet refund is settled at once, unless another call already did.    *)
SettleReversalRefund(k, c) ==
    /\ settling[k][c] = "requested"
    /\ payments[Main(k)].method = "WALLET"
    /\ SettleWithoutProvider(Main(k)) \/ (refunds[Main(k)] = "SUCCEEDED" /\ UNCHANGED refundVars)
    /\ Goto(k, c, "SUCCEEDED")
    /\ UNCHANGED <<cancellation, reversals>>

(* Cash waits for an Administrator, and an online refund for a provider    *)
(* that is not configured; an error, wherever it is raised, is caught.     *)
LeaveReversalPending(k, c) ==
    /\ settling[k][c] \notin {"idle"} \cup Outcomes
    /\ Goto(k, c, "PENDING")
    /\ UNCHANGED <<refundVars, cancellation, reversals>>

(* The refund may have been settled since it was loaded: the provider      *)
(* answers with its state all the same.                                    *)
SubmitReversalRefund(k, c, answer) ==
    /\ settling[k][c] = "requested"
    /\ payments[Main(k)].method = "ONLINE"
    /\ answer # "none"
    /\ providerRefunds[k] \in {"none", answer}
    /\ providerRefunds' = [providerRefunds EXCEPT ![k] = answer]
    /\ Goto(k, c, answer)
    /\ UNCHANGED <<cashVars, refunds, submissions, cancellation, reversals>>

(* settlePaymentRefund, failPaymentRefund or noteProviderRefund.           *)
RecordReversalAnswer(k, c) ==
    LET outcome == AnswerOutcome(settling[k][c]) IN
    /\ settling[k][c] \in ProviderAnswers
    /\ Goto(k, c, outcome)
    /\ \/ outcome = "SUCCEEDED" /\ SettlePaymentRefund(Main(k))
       \/ outcome = "FAILED" /\ FailPaymentRefund(Main(k))
       \/ /\ outcome = "PENDING" \/ refunds[Main(k)] # "PENDING"
          /\ UNCHANGED <<cashVars, refunds>>
    /\ UNCHANGED <<submissions, providerRefunds, cancellation, reversals>>

(* Wrong variant: whatever has not failed has succeeded. *)
UnlessFailed(outcome) == IF outcome = "FAILED" THEN "FAILED" ELSE "SUCCEEDED"

(* The status a reversal takes from the outcome of its refund request.     *)
ReversalStatus(outcome) == outcome

(* By id alone: an outcome that was overtaken replaces a newer one.        *)
WriteReversal(k, c) ==
    /\ settling[k][c] \in Outcomes
    /\ reversals' = [reversals EXCEPT ![Main(k)] = ReversalStatus(settling[k][c])]
    /\ Goto(k, c, "idle")
    /\ UNCHANGED <<refundVars, cancellation>>

(* The request dies, wherever it is. *)
AbandonReversal(k, c) ==
    /\ settling[k][c] # "idle"
    /\ Goto(k, c, "idle")
    /\ UNCHANGED <<refundVars, cancellation, reversals>>

CancellationNext ==
    \/ \E e \in Events, method \in SettlementMethods : PrepareEventCancellation(e, method)
    \/ \E p \in PaymentIds : SettleWalletReversal(p)
    \/ \E k \in Keys, c \in Calls :
          \/ ReadReversal(k, c)
          \/ RequestReversalRefund(k, c)
          \/ SettleReversalRefund(k, c)
          \/ LeaveReversalPending(k, c)
          \/ \E answer \in ProviderAnswers : SubmitReversalRefund(k, c, answer)
          \/ RecordReversalAnswer(k, c)
          \/ WriteReversal(k, c)
          \/ AbandonReversal(k, c)

NextWithCancellation == (NextWithRefunds /\ UNCHANGED cancellationOnly) \/ CancellationNext

CancellationSpec == CancellationInit /\ [][NextWithCancellation]_cancellationVars
-----------------------------------------------------------------------------
(* Properties. *)

CancellationTypeOK ==
    /\ RefundTypeOK
    /\ cancellation \in [Events -> SettlementMethods \cup {"NONE"}]
    /\ reversals \in [PaymentIds -> Outcomes \cup {"NONE"}]
    /\ settling \in [Keys -> [Calls -> SettlingSteps]]

(* A cancelled event owes a reversal for exactly the contributions that    *)
(* were settled: nothing settles one of its dues afterwards, neither a     *)
(* late webhook, nor the approval of cash, nor a due that the expiry job   *)
(* selected before the cancellation (prepareEventCancellation).            *)
SettledContributionsAreReversed ==
    \A e \in Events : \A p \in PaymentsOfEvent(e) :
        reversals[p] # "NONE" <=> payments[p].status = "SUCCEEDED" /\ cancellation[e] # "NONE"

(* What a wallet cancellation has credited. *)
CreditedBack ==
    {p \in PaymentIds : reversals[p] = "SUCCEEDED" /\ MethodFor(p) = "FOUNDATION_WALLET"}

(* The books with reversals: each wallet reversal is one credit and one    *)
(* debit, and a reversal by the original method moves nothing but its one  *)
(* refund, however often and concurrently the cancellation is repeated.    *)
ReversalsAreOnTheBooks ==
    /\ \A m \in Members :
           wallet[m] = granted[m]
                       - Total(SettledFrom(m))
                       + Total(SettledFrom(m) \cap compensated)
                       + Total(SettledFrom(m) \cap Refunded)
                       + Total({p \in CreditedBack : Owner[payments[p].due] = m})
    /\ ledger.debit = Total(compensated) + Total(Refunded) + Total(CreditedBack)
    /\ CreditMatchesPayments

(* A reversal by the original method that says SUCCEEDED or FAILED has a   *)
(* refund that says the same, although its status is written from an       *)
(* answer that other calls and webhooks may have overtaken.                *)
ReversalAgreesWithRefund ==
    \A p \in PaymentIds :
        reversals[p] \in {"SUCCEEDED", "FAILED"} /\ MethodFor(p) = "ORIGINAL_METHOD"
            => refunds[p] = reversals[p]
=============================================================================
