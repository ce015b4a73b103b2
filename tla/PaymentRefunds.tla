--------------------------- MODULE PaymentRefunds ---------------------------
(***************************************************************************)
(* Refunds of settled payments.  A refund is a row of its own, at most one *)
(* per payment; the payment and its receipt stay as they are.  A request   *)
(* runs in several transactions: it creates or loads the row, and then     *)
(* settles it (wallet), leaves it to an Administrator (cash, manual), or   *)
(* submits it to the provider and records the answer in a transaction      *)
(* after the HTTP call (online), while the provider's own webhooks may     *)
(* arrive before, between and after.  A request that dies half-way is      *)
(* repeated, with the idempotency key stored in the row.                   *)
(***************************************************************************)
EXTENDS CashCollections

VARIABLES
    refunds,            \* PaymentRefund.status, by payment
    submissions,        \* requestPaymentRefund: answers still to be recorded, by call
    providerRefunds     \* provider: the refund of the capture of a key

refundVars == <<cashVars, refunds, submissions, providerRefunds>>

RefundStatuses == {"NONE", "PENDING", "SUCCEEDED", "FAILED"}
ProviderAnswers == {"none", "pending", "processed", "failed"}

RefundInit ==
    /\ CashInit
    /\ refunds = [p \in PaymentIds |-> "NONE"]
    /\ submissions = [k \in Keys |-> [c \in Calls |-> "none"]]
    /\ providerRefunds = [k \in Keys |-> "none"]

-----------------------------------------------------------------------------

(* The first transaction of requestPaymentRefund.  With a row present it   *)
(* only loads it, under whatever key.                                      *)
CreateRefundRequest(p) ==
    /\ payments[p].status = "SUCCEEDED"
    /\ refunds[p] = "NONE"
    /\ refunds' = [refunds EXCEPT ![p] = "PENDING"]
    /\ UNCHANGED <<cashVars, submissions, providerRefunds>>

(* Wrong variant: a settled refund is settled again. *)
AwaitsSettlementAgain(p) == refunds[p] \in {"PENDING", "SUCCEEDED"}

AwaitsSettlement(p) == refunds[p] = "PENDING"

(* The ledger debit always, the wallet credit for a wallet payment.        *)
SettlePaymentRefund(p) ==
    LET m == Owner[payments[p].due] IN
    /\ AwaitsSettlement(p)
    /\ refunds' = [refunds EXCEPT ![p] = "SUCCEEDED"]
    /\ wallet' = IF payments[p].method = "WALLET"
                 THEN [wallet EXCEPT ![m] = @ + payments[p].amount] ELSE wallet
    /\ ledger' = [ledger EXCEPT !.debit = @ + payments[p].amount]
    /\ UNCHANGED <<now, dueStatus, dueAt, payments, granted, compensated, receipts,
                   plans, outside, collections>>

FailPaymentRefund(p) ==
    /\ refunds[p] = "PENDING"
    /\ refunds' = [refunds EXCEPT ![p] = "FAILED"]
    /\ UNCHANGED cashVars

(* The second transaction for a wallet payment, or an Administrator's      *)
(* record of cash that was handed back.                                    *)
SettleWithoutProvider(p) ==
    /\ payments[p].method \in {"WALLET", "CASH", "MANUAL"}
    /\ SettlePaymentRefund(p)
    /\ UNCHANGED <<submissions, providerRefunds>>

(* Submit the refund of an online payment.  The provider creates one       *)
(* refund per idempotency key and answers a repeated submission with the   *)
(* present state of that refund.                                           *)
SubmitRefund(k, c, answer) ==
    /\ submissions[k][c] = "none"
    /\ refunds[Main(k)] = "PENDING"
    /\ payments[Main(k)].method = "ONLINE"
    /\ answer # "none"
    /\ providerRefunds[k] \in {"none", answer}
    /\ providerRefunds' = [providerRefunds EXCEPT ![k] = answer]
    /\ submissions' = [submissions EXCEPT ![k][c] = answer]
    /\ UNCHANGED <<cashVars, refunds>>

(* Wrong variant: an answer that is not a success is taken for a failure. *)
FailedUnlessProcessed(answer) ==
    IF answer = "processed" THEN "SUCCEEDED" ELSE "FAILED"

AnswerOutcome(answer) ==
    CASE answer = "processed" -> "SUCCEEDED"
      [] answer = "failed" -> "FAILED"
      [] OTHER -> "PENDING"

(* Record the answer, which may have been overtaken by a webhook.          *)
RecordAnswer(k, c) ==
    LET outcome == AnswerOutcome(submissions[k][c]) IN
    /\ submissions[k][c] # "none"
    /\ submissions' = [submissions EXCEPT ![k][c] = "none"]
    /\ UNCHANGED providerRefunds
    /\ \/ outcome = "SUCCEEDED" /\ SettlePaymentRefund(Main(k))
       \/ outcome = "FAILED" /\ FailPaymentRefund(Main(k))
       \/ /\ outcome = "PENDING" \/ refunds[Main(k)] # "PENDING"
          /\ UNCHANGED <<cashVars, refunds>>

(* The request dies with its answer, or the answer never reaches it.       *)
LoseAnswer(k, c) ==
    /\ submissions[k][c] # "none"
    /\ submissions' = [submissions EXCEPT ![k][c] = "none"]
    /\ UNCHANGED <<cashVars, refunds, providerRefunds>>

(* The provider makes up its mind about a pending refund.                  *)
ProviderResolves(k, outcome) ==
    /\ providerRefunds[k] = "pending"
    /\ providerRefunds' = [providerRefunds EXCEPT ![k] = outcome]
    /\ UNCHANGED <<cashVars, refunds, submissions>>

(* Verified refund webhooks, any number of times and in any order.         *)
DeliverRefundProcessed(k) ==
    /\ providerRefunds[k] = "processed"
    /\ SettlePaymentRefund(Main(k))
    /\ UNCHANGED <<submissions, providerRefunds>>

DeliverRefundFailed(k) ==
    /\ providerRefunds[k] = "failed"
    /\ FailPaymentRefund(Main(k))
    /\ UNCHANGED <<submissions, providerRefunds>>

RefundNext ==
    \/ \E p \in PaymentIds : CreateRefundRequest(p) \/ SettleWithoutProvider(p)
    \/ \E k \in Keys : \/ \E c \in Calls : \/ \E answer \in ProviderAnswers : SubmitRefund(k, c, answer)
                                         \/ RecordAnswer(k, c)
                                         \/ LoseAnswer(k, c)
                      \/ \E outcome \in {"processed", "failed"} : ProviderResolves(k, outcome)
                      \/ DeliverRefundProcessed(k)
                      \/ DeliverRefundFailed(k)

NextWithRefunds ==
    \/ NextWithCash /\ UNCHANGED <<refunds, submissions, providerRefunds>>
    \/ RefundNext

RefundSpec == RefundInit /\ [][NextWithRefunds]_refundVars

(* Webhooks of captures and of refunds are redelivered until they are      *)
(* acknowledged.                                                           *)
RefundFairness ==
    \A k \in Keys :
        /\ WF_refundVars(DeliverCapture(k) /\ UNCHANGED <<collections, refunds, submissions,
                                                         providerRefunds>>)
        /\ WF_refundVars(DeliverRefundProcessed(k))

FairRefundSpec == RefundSpec /\ RefundFairness
-----------------------------------------------------------------------------
(* Properties. *)

RefundTypeOK ==
    /\ CashTypeOK
    /\ refunds \in [PaymentIds -> RefundStatuses]
    /\ submissions \in [Keys -> [Calls -> ProviderAnswers]]
    /\ providerRefunds \in [Keys -> ProviderAnswers]

Refunded == {p \in PaymentIds : refunds[p] = "SUCCEEDED"}

(* A refund row never says anything the provider did not: it succeeded     *)
(* only if the provider paid, it failed only if the provider refused,      *)
(* however answers, lost answers, retries and webhooks overtake each other.*)
RefundAgreesWithProvider ==
    \A k \in Keys : payments[Main(k)].method = "ONLINE" =>
        /\ refunds[Main(k)] = "SUCCEEDED" => providerRefunds[k] = "processed"
        /\ refunds[Main(k)] = "FAILED" => providerRefunds[k] = "failed"

(* The books with refunds: each successful refund is one ledger debit and, *)
(* for a wallet payment, one wallet credit, on top of what the payments    *)
(* themselves moved; no request or webhook settles a refund twice, nor any *)
(* payment.                                                                *)
RefundsAreOnTheBooks ==
    /\ \A m \in Members :
           wallet[m] = granted[m]
                       - Total(SettledFrom(m))
                       + Total(SettledFrom(m) \cap compensated)
                       + Total(SettledFrom(m) \cap Refunded)
    /\ ledger.debit = Total(compensated) + Total(Refunded)
    /\ CreditMatchesPayments

(* A refund leaves its payment settled and receipted: neither a late       *)
(* failure webhook nor a rejection undoes a payment under refund.          *)
RefundedPaymentStands ==
    \A p \in PaymentIds :
        refunds[p] # "NONE" => payments[p].status = "SUCCEEDED" /\ p \in receipts

(* Money the provider has paid back is eventually recorded as refunded,    *)
(* also when the request that asked for it died.                           *)
ProcessedRefundIsRecorded ==
    \A k \in Keys :
        providerRefunds[k] = "processed" ~> refunds[Main(k)] = "SUCCEEDED"

(* "must compensate the wallet exactly once" (payment-service.ts): the     *)
(* leg of a split is given back by the closing of its online leg or by a   *)
(* refund, not by both.  The code looks for a prior compensation only.     *)
LegGivenBackOnce ==
    \A k \in Keys : ~(Leg(k) \in compensated /\ Leg(k) \in Refunded)
=============================================================================
