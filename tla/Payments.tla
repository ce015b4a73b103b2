------------------------------ MODULE Payments ------------------------------
(***************************************************************************)
(* The money core of the Foundation: members settle dues from their        *)
(* Foundation wallet, through the online provider, or (the plan            *)
(* registration only) with a wallet leg plus an online leg.                *)
(*                                                                         *)
(* Every service operation runs in a Serializable transaction that is      *)
(* retried on conflict, so it is one action here.  What is NOT one action  *)
(* is what the code does outside such a transaction: opening a checkout    *)
(* order is a read, an HTTP call and a conditional write; the provider     *)
(* captures, fails and reports whenever it likes; and the two scheduled    *)
(* jobs select the dues to expire first and write them later.              *)
(*                                                                         *)
(* A payment row is named by its idempotency key: <<k, "main">> is the row *)
(* created under key k, <<k, "wallet">> the settled wallet leg the code    *)
(* stores under `${k}:wallet`.  A call that replays a key changes nothing  *)
(* and so is a stuttering step.                                            *)
(***************************************************************************)
EXTENDS DueRules, Integers, FiniteSetsExt

CONSTANTS
    Members,        \* members with a Foundation wallet
    Dues,           \* dues, all existing from the start
    Owner,          \* Due.memberId
    Purpose,        \* Due.purpose
    Amount,         \* Due.amountPaise
    Keys,           \* idempotency keys clients send
    Calls,          \* concurrent openings of a checkout, per payment
    NoDue, NoOrder, \* SQL NULL
    CreditAmounts,  \* what an Administrator may add to a wallet at once
    MaxCredit,      \* bound: total credit granted to one member
    MaxTime         \* bound: the last instant

ASSUME PaymentsAssumption ==
    /\ Owner \in [Dues -> Members]
    /\ Purpose \in [Dues -> Purposes]
    /\ Amount \in [Dues -> Nat \ {0}]
    /\ NoDue \notin Dues
    /\ NoOrder \notin Calls
    /\ CreditAmounts \subseteq Nat \ {0}
    /\ MaxCredit \in Nat
    /\ MaxTime \in Nat \ {0}

(* The Member table is finite, so that balances can be added up. *)
ASSUME MembersAssumption == IsFiniteSet(Members)

VARIABLES
    now,            \* the clock
    dueStatus,      \* Due.status
    dueAt,          \* Due.dueAt
    payments,       \* the Payment table, by idempotency key
    wallet,         \* Wallet.balancePaise
    granted,        \* WalletTransaction: total of the Administrators' credits
    compensated,    \* wallet legs with a PLAN_REGISTRATION_WALLET_REFUND credit
    receipts,       \* payments with a Receipt
    ledger,         \* FoundationLedger totals by direction
    plans,          \* CommunitySupportPlan.status, by its registration due
    checkout,       \* calls of createOnlineCheckout, by key
    captured,       \* provider: when the order of a key was captured, 0 if not
    attemptFailed,  \* provider: an attempt on the order of a key failed
    reminderBatch,  \* plan-reminders job: dues it read as past their deadline
    expiryBatch     \* membership-dues job: dues it read as past their deadline

vars == <<now, dueStatus, dueAt, payments, wallet, granted, compensated, receipts,
          ledger, plans, checkout, captured, attemptFailed, reminderBatch, expiryBatch>>

(* The variables of the provider, of the clock and of the two jobs. *)
outside == <<checkout, captured, attemptFailed, reminderBatch, expiryBatch>>

-----------------------------------------------------------------------------

PlanDues == {d \in Dues : Purpose[d] = "PLAN_REGISTRATION"}

PaymentIds == Keys \X {"main", "wallet"}
Main(k) == <<k, "main">>
Leg(k) == <<k, "wallet">>

Row(status, method, due, amount, order) ==
    [status |-> status, method |-> method, due |-> due, amount |-> amount, order |-> order]

NoRow == Row("NONE", "NONE", NoDue, 0, NoOrder)

Rows == [status : PaymentStatuses \cup {"NONE"},
         method : Methods \cup {"NONE"},
         due : Dues \cup {NoDue},
         amount : Nat,
         order : Calls \cup {NoOrder}]

Init ==
    /\ now = 1
    /\ dueStatus = [d \in Dues |-> "PENDING"]
    /\ dueAt \in [Dues -> 2 .. MaxTime]
    /\ payments = [p \in PaymentIds |-> NoRow]
    /\ wallet = [m \in Members |-> 0]
    /\ granted = [m \in Members |-> 0]
    /\ compensated = {}
    /\ receipts = {}
    /\ ledger = [credit |-> 0, debit |-> 0]
    /\ plans = [d \in PlanDues |-> "PAYMENT_PENDING"]
    /\ checkout = [k \in Keys |-> [c \in Calls |-> "idle"]]
    /\ captured = [k \in Keys |-> 0]
    /\ attemptFailed = [k \in Keys |-> FALSE]
    /\ reminderBatch = {}
    /\ expiryBatch = {}

-----------------------------------------------------------------------------
(* What the handlers share. *)

Unused(k) == payments[Main(k)].status = "NONE"

Payable(d) == IsDuePayable(Purpose[d], dueStatus[d], dueAt[d], now)

(* Wrong variant: only attempts that already have an order block another. *)
OrderedAttempts(d) ==
    {p \in PaymentIds : /\ payments[p].due = d
                        /\ payments[p].status = "PENDING"
                        /\ payments[p].order # NoOrder}

OpenAttempts(d) ==
    {p \in PaymentIds : payments[p].due = d /\ payments[p].status = "PENDING"}

AdvancedPlans(d) ==
    [x \in PlanDues |->
        IF x = d /\ plans[x] = "PAYMENT_PENDING"
        THEN "PENDING_COORDINATOR_APPROVAL" ELSE plans[x]]

(* Wrong variant: any balance will do. *)
AnyBalance(d) == wallet[Owner[d]] > 0

Affordable(d) == wallet[Owner[d]] >= Amount[d]

(* Debit the wallet for the whole due and settle it: the shared body of    *)
(* payDueFromWallet and of a split that the balance covers in full.        *)
SettleFromWallet(k, d) ==
    /\ Affordable(d)
    /\ wallet' = [wallet EXCEPT ![Owner[d]] = @ - Amount[d]]
    /\ payments' = [payments EXCEPT ![Main(k)] =
                        Row("SUCCEEDED", "WALLET", d, Amount[d], NoOrder)]
    /\ dueStatus' = [dueStatus EXCEPT ![d] = "PAID"]
    /\ plans' = AdvancedPlans(d)
    /\ receipts' = receipts \cup {Main(k)}
    /\ ledger' = [ledger EXCEPT !.credit = @ + Amount[d]]
    /\ UNCHANGED <<now, dueAt, granted, compensated, outside>>

(* Wrong variant: the compensation returns the whole due, not the leg. *)
OwedInFull(k) ==
    IF payments[Leg(k)].status = "SUCCEEDED" /\ Leg(k) \notin compensated
    THEN Amount[payments[Leg(k)].due] ELSE 0

(* The settled wallet leg of key k that no wallet transaction compensates. *)
OwedToWallet(k) ==
    LET leg == payments[Leg(k)] IN
    IF /\ payments[Main(k)].method = "ONLINE"
       /\ leg.status = "SUCCEEDED"
       /\ leg.due = payments[Main(k)].due
       /\ leg.due \in PlanDues
       /\ Leg(k) \notin compensated
    THEN leg.amount ELSE 0

(* Close the online leg of key k with the given outcome and give back what *)
(* its wallet leg took, unless a compensating credit is already there.     *)
CloseAndCompensate(k, outcome) ==
    LET d == payments[Main(k)].due
        owed == OwedToWallet(k)
    IN  /\ payments' = [payments EXCEPT ![Main(k)].status = outcome]
        /\ wallet' = [wallet EXCEPT ![Owner[d]] = @ + owed]
        /\ compensated' = IF owed > 0 THEN compensated \cup {Leg(k)} ELSE compensated
        /\ ledger' = [ledger EXCEPT !.debit = @ + owed]
        /\ UNCHANGED <<now, dueStatus, dueAt, granted, receipts, plans, outside>>

-----------------------------------------------------------------------------
(* Member requests. *)

(* Ordinary dues only: the route sends a plan registration to the split.   *)
(* Its wallet-first check reads the balance outside the transaction, so no *)
(* balance excludes this step.                                             *)
CreatePaymentCommand(k, d) ==
    /\ d \notin PlanDues
    /\ Unused(k)
    /\ Payable(d)
    /\ OpenAttempts(d) = {}
    /\ payments' = [payments EXCEPT ![Main(k)] =
                        Row("PENDING", "ONLINE", d, Amount[d], NoOrder)]
    /\ UNCHANGED <<now, dueStatus, dueAt, wallet, granted, compensated, receipts,
                   ledger, plans, outside>>

(* Wrong variant: a wallet payment does not look for an open attempt. *)
PayDespiteAttempt(k, d) == Unused(k) /\ Payable(d) /\ SettleFromWallet(k, d)

PayDueFromWallet(k, d) ==
    /\ Unused(k)
    /\ Payable(d)
    /\ OpenAttempts(d) = {}
    /\ SettleFromWallet(k, d)

(* Wrong variant: the provider is asked for the whole due. *)
WholeDue(d) == Amount[d]

OnlineRemainder(d) == Amount[d] - wallet[Owner[d]]

(* The balance does not cover the plan registration: take all of it as a   *)
(* settled wallet leg and open an online leg for the remainder.            *)
SplitWalletThenOnline(k, d) ==
    LET taken == wallet[Owner[d]]
        online == Row("PENDING", "ONLINE", d, OnlineRemainder(d), NoOrder)
        leg == Row("SUCCEEDED", "WALLET", d, taken, NoOrder)
    IN  /\ taken < Amount[d]
        /\ wallet' = [wallet EXCEPT ![Owner[d]] = 0]
        /\ payments' = IF taken > 0
                       THEN [payments EXCEPT ![Main(k)] = online, ![Leg(k)] = leg]
                       ELSE [payments EXCEPT ![Main(k)] = online]
        /\ receipts' = IF taken > 0 THEN receipts \cup {Leg(k)} ELSE receipts
        /\ ledger' = [ledger EXCEPT !.credit = @ + taken]
        /\ UNCHANGED <<now, dueStatus, dueAt, granted, compensated, plans, outside>>

(* A second request for a due whose online leg is open resumes that leg    *)
(* and changes nothing.                                                    *)
StartPlanWalletFirstSplitPayment(k, d) ==
    /\ d \in PlanDues
    /\ Unused(k)
    /\ Payable(d)
    /\ OpenAttempts(d) = {}
    /\ SettleFromWallet(k, d) \/ SplitWalletThenOnline(k, d)

(* Wrong variant: the wallet leg of a cancelled split stays taken. *)
CancelAndKeepLeg(k) ==
    /\ payments[Main(k)].status = "PENDING"
    /\ payments[Main(k)].order = NoOrder
    /\ payments' = [payments EXCEPT ![Main(k)].status = "CANCELLED"]
    /\ UNCHANGED <<now, dueStatus, dueAt, wallet, granted, compensated, receipts,
                   ledger, plans, outside>>

CancelPendingPayment(k) ==
    /\ payments[Main(k)].status = "PENDING"
    /\ payments[Main(k)].method = "ONLINE"
    /\ payments[Main(k)].order = NoOrder
    /\ CloseAndCompensate(k, "CANCELLED")

-----------------------------------------------------------------------------
(* createOnlineCheckout: read the row, create an order at the provider,    *)
(* then persist the order unless a concurrent call persisted one first or  *)
(* the payment is no longer pending.  Call c creates order c.              *)

OpenCheckout(k, c) ==
    /\ checkout[k][c] = "idle"
    /\ payments[Main(k)].method = "ONLINE"
    /\ payments[Main(k)].status = "PENDING"
    /\ payments[Main(k)].order = NoOrder
    /\ checkout' = [checkout EXCEPT ![k][c] = "ordered"]
    /\ UNCHANGED <<now, dueStatus, dueAt, payments, wallet, granted, compensated,
                   receipts, ledger, plans, captured, attemptFailed, reminderBatch,
                   expiryBatch>>

(* Wrong variants: the conditional write forgets the status, or the order. *)
OrderAcceptedWhenClosed(k) == payments[Main(k)].order = NoOrder
OrderReplaced(k) == payments[Main(k)].status = "PENDING"

OrderAccepted(k) ==
    /\ payments[Main(k)].status = "PENDING"
    /\ payments[Main(k)].order = NoOrder

PersistOrder(k, c) ==
    /\ checkout[k][c] = "ordered"
    /\ checkout' = [checkout EXCEPT ![k][c] = "done"]
    /\ payments' = IF OrderAccepted(k)
                   THEN [payments EXCEPT ![Main(k)].order = c] ELSE payments
    /\ UNCHANGED <<now, dueStatus, dueAt, wallet, granted, compensated, receipts,
                   ledger, plans, captured, attemptFailed, reminderBatch, expiryBatch>>

-----------------------------------------------------------------------------
(* The provider.  It knows orders, not the Foundation's payment statuses:  *)
(* an order may see failed attempts before its one capture, and neither is *)
(* prevented by what happened to the payment row meanwhile.                *)

ProviderCaptures(k) ==
    /\ payments[Main(k)].order # NoOrder
    /\ captured[k] = 0
    /\ captured' = [captured EXCEPT ![k] = now]
    /\ UNCHANGED <<now, dueStatus, dueAt, payments, wallet, granted, compensated,
                   receipts, ledger, plans, checkout, attemptFailed, reminderBatch,
                   expiryBatch>>

ProviderAttemptFails(k) ==
    /\ payments[Main(k)].order # NoOrder
    /\ captured[k] = 0
    /\ ~attemptFailed[k]
    /\ attemptFailed' = [attemptFailed EXCEPT ![k] = TRUE]
    /\ UNCHANGED <<now, dueStatus, dueAt, payments, wallet, granted, compensated,
                   receipts, ledger, plans, checkout, captured, reminderBatch,
                   expiryBatch>>

(* settlePayment for the row of key k, with the provider's time of capture. *)
SettlePayment(k, settledAt) ==
    LET d == payments[Main(k)].due IN
    /\ payments[Main(k)].status = "PENDING"
    /\ SettlementAllowed(Purpose[d], dueStatus[d], dueAt[d], settledAt)
    /\ dueStatus' = [dueStatus EXCEPT ![d] = "PAID"]
    /\ payments' = [payments EXCEPT ![Main(k)].status = "SUCCEEDED"]
    /\ plans' = AdvancedPlans(d)
    /\ receipts' = receipts \cup {Main(k)}
    /\ ledger' = [ledger EXCEPT !.credit = @ + payments[Main(k)].amount]
    /\ UNCHANGED <<now, dueAt, wallet, granted, compensated, outside>>

(* Wrong variant: a failure reported after the settlement is applied. *)
FailSettledPayment(k) ==
    /\ payments[Main(k)].status \in {"PENDING", "SUCCEEDED"}
    /\ CloseAndCompensate(k, "FAILED")

FailPayment(k) ==
    /\ payments[Main(k)].status = "PENDING"
    /\ CloseAndCompensate(k, "FAILED")

(* A verified webhook is delivered: any number of times, in any order, as  *)
(* late as it likes.  A delivery the handlers refuse changes nothing.      *)
DeliverCapture(k) ==
    /\ captured[k] # 0
    /\ SettlePayment(k, captured[k])

DeliverFailure(k) ==
    /\ attemptFailed[k]
    /\ FailPayment(k)

-----------------------------------------------------------------------------
(* Administrators. *)

ApplyFoundationWalletCredit(m, amount) ==
    /\ granted[m] + amount <= MaxCredit
    /\ wallet' = [wallet EXCEPT ![m] = @ + amount]
    /\ granted' = [granted EXCEPT ![m] = @ + amount]
    /\ ledger' = [ledger EXCEPT !.credit = @ + amount]
    /\ UNCHANGED <<now, dueStatus, dueAt, payments, compensated, receipts, plans, outside>>

ExtendPlanDue(d, newDueAt) ==
    /\ newDueAt > now
    /\ d \in PlanDues
    /\ dueStatus[d] # "PAID"
    /\ dueAt' = [dueAt EXCEPT ![d] = newDueAt]
    /\ dueStatus' = [dueStatus EXCEPT ![d] = "PENDING"]
    /\ UNCHANGED <<now, payments, wallet, granted, compensated, receipts, ledger, plans,
                   outside>>

-----------------------------------------------------------------------------
(* The scheduled jobs.  Both select first and write later, under READ      *)
(* COMMITTED.  A read may replace an earlier one: that run died before its *)
(* write.                                                                  *)

Expired(dues) == {d \in dues : DueForExpiry(dueStatus[d], dueAt[d], now)}

ReadPlanReminders ==
    /\ reminderBatch' = Expired(PlanDues)
    /\ UNCHANGED <<now, dueStatus, dueAt, payments, wallet, granted, compensated,
                   receipts, ledger, plans, checkout, captured, attemptFailed,
                   expiryBatch>>

(* The write is by id alone: whatever the due has become is overwritten. *)
WritePlanReminders ==
    /\ dueStatus' = [d \in Dues |-> IF d \in reminderBatch THEN "EXPIRED" ELSE dueStatus[d]]
    /\ reminderBatch' = {}
    /\ UNCHANGED <<now, dueAt, payments, wallet, granted, compensated, receipts,
                   ledger, plans, checkout, captured, attemptFailed, expiryBatch>>

ReadMembershipDues ==
    /\ expiryBatch' = Expired(Dues)
    /\ UNCHANGED <<now, dueStatus, dueAt, payments, wallet, granted, compensated,
                   receipts, ledger, plans, checkout, captured, attemptFailed,
                   reminderBatch>>

(* Wrong variant: this job, too, writes by id alone. *)
OverwriteMembershipDues ==
    /\ dueStatus' = [d \in Dues |-> IF d \in expiryBatch THEN "EXPIRED" ELSE dueStatus[d]]
    /\ expiryBatch' = {}
    /\ UNCHANGED <<now, dueAt, payments, wallet, granted, compensated, receipts,
                   ledger, plans, checkout, captured, attemptFailed, reminderBatch>>

(* The write re-checks the status, not the deadline. *)
WriteMembershipDues ==
    /\ dueStatus' = [d \in Dues |->
                        IF d \in expiryBatch /\ dueStatus[d] \in Expirable
                        THEN "EXPIRED" ELSE dueStatus[d]]
    /\ expiryBatch' = {}
    /\ UNCHANGED <<now, dueAt, payments, wallet, granted, compensated, receipts,
                   ledger, plans, checkout, captured, attemptFailed, reminderBatch>>

Tick ==
    /\ now < MaxTime
    /\ now' = now + 1
    /\ UNCHANGED <<dueStatus, dueAt, payments, wallet, granted, compensated, receipts,
                   ledger, plans, outside>>

-----------------------------------------------------------------------------

MemberNext ==
    \E k \in Keys :
        \/ \E d \in Dues : \/ CreatePaymentCommand(k, d)
                           \/ PayDueFromWallet(k, d)
                           \/ StartPlanWalletFirstSplitPayment(k, d)
        \/ CancelPendingPayment(k)
        \/ \E c \in Calls : OpenCheckout(k, c) \/ PersistOrder(k, c)

ProviderNext ==
    \E k \in Keys : \/ ProviderCaptures(k)
                    \/ ProviderAttemptFails(k)
                    \/ DeliverCapture(k)
                    \/ DeliverFailure(k)

AdminNext ==
    \/ \E m \in Members, amount \in CreditAmounts : ApplyFoundationWalletCredit(m, amount)
    \/ \E d \in Dues, t \in 1 .. MaxTime : ExtendPlanDue(d, t)

JobsNext ==
    \/ ReadPlanReminders
    \/ WritePlanReminders
    \/ ReadMembershipDues
    \/ WriteMembershipDues

Next == MemberNext \/ ProviderNext \/ AdminNext \/ JobsNext \/ Tick

Spec == Init /\ [][Next]_vars

(* The provider redelivers a webhook until it is acknowledged, and an      *)
(* error response is not an acknowledgement.                               *)
Fairness == \A k \in Keys : WF_vars(DeliverCapture(k))

FairSpec == Spec /\ Fairness
-----------------------------------------------------------------------------
(* Properties. *)

Live == {"PENDING", "SUCCEEDED"}

(* What the wallet leg of key k has contributed to the due and still does. *)
Retained(k) ==
    IF payments[Leg(k)].status = "SUCCEEDED" /\ Leg(k) \notin compensated
    THEN payments[Leg(k)].amount ELSE 0

PaidUnder(k, d) ==
    payments[Main(k)].due = d /\ payments[Main(k)].status = "SUCCEEDED"

(* The types of the tables: balances never go below zero, only wallet legs *)
(* are compensated, and only the provider's own clock dates a capture.     *)
TypeOK ==
    /\ now \in 1 .. MaxTime
    /\ dueStatus \in [Dues -> DueStatuses]
    /\ dueAt \in [Dues -> 1 .. MaxTime]
    /\ payments \in [PaymentIds -> Rows]
    /\ wallet \in [Members -> Nat]
    /\ granted \in [Members -> 0 .. MaxCredit]
    /\ compensated \subseteq {Leg(k) : k \in Keys}
    /\ receipts \subseteq PaymentIds
    /\ ledger \in [credit : Nat, debit : Nat]
    /\ plans \in [PlanDues -> PlanStatuses]
    /\ checkout \in [Keys -> [Calls -> {"idle", "ordered", "done"}]]
    /\ captured \in [Keys -> 0 .. MaxTime]
    /\ attemptFailed \in [Keys -> BOOLEAN]
    /\ reminderBatch \subseteq PlanDues
    /\ expiryBatch \subseteq Dues

(* A due has at most one unsettled attempt, whichever routes, retries and  *)
(* resumed splits created it (assertNoPendingPaymentForDue).               *)
OneOpenAttempt ==
    \A p, q \in PaymentIds :
        /\ payments[p].status = "PENDING"
        /\ payments[q].status = "PENDING"
        /\ payments[p].due = payments[q].due
        => p = q

(* Once a due is PAID nothing is left that a late webhook could settle on  *)
(* top of it: no attempt on it is still open.                              *)
PaidDueHasNoOpenAttempt ==
    \A p \in PaymentIds :
        payments[p].status = "PENDING" => dueStatus[payments[p].due] # "PAID"

(* A split takes wallet money for exactly as long as its online leg can    *)
(* still succeed: the leg is compensated if and only if the online payment *)
(* of the same due has failed or was cancelled (failPayment,               *)
(* cancelPendingPayment).                                                  *)
SplitLegHeldInEscrow ==
    \A k \in Keys : payments[Leg(k)].status # "NONE" =>
        /\ payments[Main(k)].status # "NONE"
        /\ payments[Main(k)].due = payments[Leg(k)].due
        /\ Leg(k) \in compensated <=> payments[Main(k)].status \notin Live

(* The rows of a key charge exactly its due: the main payment alone, or,   *)
(* for a plan registration, an online remainder plus a positive wallet leg.*)
RowsCoverTheDue ==
    \A k \in Keys :
        LET main == payments[Main(k)]
            leg == payments[Leg(k)]
        IN  /\ leg.status \in {"NONE", "SUCCEEDED"}
            /\ main.status = "NONE" => main.due = NoDue /\ leg.status = "NONE"
            /\ main.status # "NONE" =>
                   /\ main.due \in Dues
                   /\ leg.status = "NONE" => main.amount = Amount[main.due]
            /\ leg.status # "NONE" =>
                   /\ main.method = "ONLINE"
                   /\ main.due \in PlanDues
                   /\ leg.amount > 0
                   /\ main.amount + leg.amount = Amount[main.due]

(* No due is PAID, and no plan moves towards approval, unless one key      *)
(* brought in the whole amount: the main payment plus what its wallet leg  *)
(* retains.                                                                *)
FullyCollected(d) ==
    \E k \in Keys : PaidUnder(k, d) /\ payments[Main(k)].amount + Retained(k) = Amount[d]

PaidDueIsCollected ==
    /\ \A d \in Dues : dueStatus[d] = "PAID" => FullyCollected(d)
    /\ \A d \in PlanDues : plans[d] # "PAYMENT_PENDING" => FullyCollected(d)

(* A membership or contribution due is charged once, however the expiry    *)
(* job's late write interleaves with wallet payments and webhooks.         *)
OrdinaryDuePaidOnce ==
    \A d \in Dues \ PlanDues : \A j, k \in Keys :
        PaidUnder(j, d) /\ PaidUnder(k, d) => j = k

(* A cancelled payment has no provider order, even when the cancellation   *)
(* races a checkout call that already created one at the provider.         *)
CancelledHasNoOrder ==
    \A k \in Keys :
        payments[Main(k)].status = "CANCELLED" => payments[Main(k)].order = NoOrder

(* The wallet is the sum of its history: credits granted, less every       *)
(* settled wallet payment, plus every compensated leg.                     *)
SettledFrom(m) ==
    {p \in PaymentIds : /\ payments[p].status = "SUCCEEDED"
                        /\ payments[p].method = "WALLET"
                        /\ Owner[payments[p].due] = m}

AmountOf == [p \in PaymentIds |-> payments[p].amount]

Total(rows) == SumFunctionOnSet(AmountOf, rows)

WalletMatchesHistory ==
    \A m \in Members :
        wallet[m] = granted[m]
                    - Total(SettledFrom(m))
                    + Total(SettledFrom(m) \cap compensated)

Succeeded == {p \in PaymentIds : payments[p].status = "SUCCEEDED"}

(* The ledger's credits: what was granted, and every settled payment once. *)
CreditMatchesPayments ==
    ledger.credit = SumFunctionOnSet(granted, Members) + Total(Succeeded)

(* Every settled payment, and nothing else, has its receipt and its ledger *)
(* credit; every compensated leg has its ledger debit.                     *)
LedgerMatchesPayments ==
    /\ receipts = Succeeded
    /\ CreditMatchesPayments
    /\ ledger.debit = Total(compensated)

(* The payment table is a history: a row keeps its due, method and amount, *)
(* an outcome is final, and an order once persisted is the payment's only  *)
(* order, so a member is never on two checkouts of one payment.            *)
RowKept(old, new) ==
    /\ new.due = old.due /\ new.method = old.method /\ new.amount = old.amount
    /\ old.status # "PENDING" => new.status = old.status
    /\ old.order # NoOrder => new.order = old.order

PaymentHistory ==
    [][\A p \in PaymentIds :
          payments[p].status # "NONE" => RowKept(payments[p], payments'[p])]_payments

(* A capture dated within the deadline is honoured even if the expiry job  *)
(* ran before its webhook arrived: the payment does not stay open.         *)
CapturedInTime(k) ==
    LET d == payments[Main(k)].due IN
    /\ captured[k] # 0
    /\ d \in PlanDues => captured[k] <= dueAt[d]

CaptureIsHonoured ==
    \A k \in Keys :
        CapturedInTime(k) ~> payments[Main(k)].status \in {"SUCCEEDED", "FAILED"}

(* What the code's comments say and it does not do: "never pays a second   *)
(* (1,000)" of plan-service.ts.  The plan-reminders job writes EXPIRED     *)
(* over a due that was paid since it was read, and an Administrator's      *)
(* extension then makes it payable again.                                  *)
PlanRegistrationPaidOnce ==
    \A d \in PlanDues : \A j, k \in Keys :
        PaidUnder(j, d) /\ PaidUnder(k, d) => j = k

(* "a capture may still arrive and must be handled" (payment-service.ts):  *)
(* an order captured in time ends as a settled payment.  A failed attempt  *)
(* reported before the capture of the same order closes the payment.       *)
EveryCaptureIsRecorded ==
    \A k \in Keys : CapturedInTime(k) ~> payments[Main(k)].status = "SUCCEEDED"
=============================================================================
