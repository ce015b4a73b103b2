# Formal models of the Community Support Foundation

The Foundation is a Next.js application over PostgreSQL (Prisma). Members pay a
membership fee, a one-off plan registration of ₹1,000 and ₹100 contributions to
death support events; they pay online through Razorpay, from a Foundation
wallet, or in cash through a coordinator. Administrators credit wallets, extend
registration deadlines, verify cash, refund payments, and review death reports.
Two scheduled jobs expire dues.

This directory holds TLA+ modules of that program, TLC configurations that
check them on small instances, and TLAPS proofs for every value of the
constants. All paths below are relative to the repository.

## 1. Inventory

| Component | State | Operations | What is hard about it | Modelled in |
|---|---|---|---|---|
| Due rules (`server/payments/payment-integrity.ts`) | none | `isDuePayable`, `assertDueSettlementAllowed`, `assertNoPendingPaymentForDue`, `runSerializablePaymentTransaction` | deadlines are exclusive for paying and inclusive for settling; one open attempt per due | `DueRules`, `Payments` |
| Wallet and splits (`wallet-service.ts`) | `Wallet`, `WalletTransaction` | credit, pay from wallet, wallet-first split | the wallet leg is taken before the online leg is known to succeed | `Payments` |
| Payment outcomes (`payment-service.ts`) | `Payment`, `Receipt`, `FoundationLedger` | create, settle, fail, cancel | late, duplicated and reordered webhooks; exactly-once compensation | `Payments` |
| Online checkout (`online-payment-service.ts`) | `Payment.providerOrderId` | `createOnlineCheckout` | HTTP call between a read and a conditional write | `Payments` |
| Webhook route and inbox | `PaymentWebhook` | record, dispatch, complete | crash between recording and processing; the duplicate of an event still in progress | delivery in `Payments`, inbox in `WebhookDelivery` |
| Refunds (`payment-refund-service.ts`) | `PaymentRefund` | request, submit to provider, settle, fail, settle manually | three steps with an HTTP call between; a refund and a compensation of the same leg | `PaymentRefunds` |
| Cash collections (`cash-payment-service.ts`) | `CashCollection` | collect, verify, reject | a second collection of a due; races with other payment methods | `CashCollections` |
| Plans (`plan-service.ts`) | `CommunitySupportPlan` | start, advance, approve in two stages, extend | extension of a due in any state but PAID | `Payments`; the two approvals not modelled (section 8) |
| Plan-reminders job | none | read overdue registrations, later write EXPIRED | read and write are not one transaction | `Payments` |
| Membership-dues job, reactivation | `Member.status`, `Membership` | expire dues, inactivate, reactivate | READ COMMITTED read-then-write of the member; which row locks protect it | due half in `Payments`; rest in `DeathSupport` |
| Death reports and events (`death-workflow-service.ts`) | `DeathCase`, `ContributionEvent` | report, link, confirm, review, publish, edit, close | one member, one live case; the deceased transition | `DeathSupport` |
| Contribution generation | `Contribution`, `Due` | generate once per event and member | replays and partial batches | `DeathSupport` |
| Event cancellation | `ContributionEventCancellation`, `ContributionEventReversal` | cancel, settle each reversal, replay | settled on its own, each with a refund call between its read and its write; next to payments, cash and other refunds | next to memberships in `DeathSupport`, next to money in `EventCancellation` |
| Report intake (`api/death-reports`, `death-report-form.tsx`) | the open form and its token | submit a report with files, add files later | a report is one transaction, its files are not; lost answers | `ReportIntake` |
| Death document storage (`death-storage.ts`) | evidence files, `DeathDocument` | store, insert the row, clean up | a file and its row are written in two steps, either may fail or be the last | `ReportIntake` |
| Death desks (`death-support-queue.tsx`, `death-report-queue.tsx`) | what a screen shows and says | load, review, link, confirm, publish, edit, cancel, close | screens that are out of date, several people deciding about one report, lost answers | `DeathDesk` |
| Condolences | `Comment` | post, moderate | moderation from an old list | `DeathDesk` |
| Login and report throttle | `LoginThrottle` | assert, record, clear, consume | lost updates under READ COMMITTED | not modelled: a request may be refused at any time (section 8) |
| Sessions, OTP, authorization, receipts, other pages | various | | cryptography, lookups, projections | not modelled (section 8) |

How they interact: routes call services; services share the database only. The
provider calls back through the webhook route. `settlePayment`,
`payDueFromWallet`, the split and cash verification all advance the plan whose
registration was paid. Event cancellation calls the refund service. The two
jobs write the same `Due.status` the payment services guard on. A screen calls a
route, shows its answer and loads its lists again.

What decides the granularity: payment, refund, cash, plan and death operations
run in a Serializable transaction that is retried on conflict
(`runSerializablePaymentTransaction`), so each is one action. Everything the
code does outside such a transaction is cut into steps: the checkout call, the
provider's side, the select and the update of the two jobs (an array
transaction after a separate read, and a READ COMMITTED transaction), each file of
a report and its row, the settlement of each reversal of a cancelled event, and the
load of a screen and the click on it. What depends on the isolation of a Serializable
transaction is therefore assumed of the database, not shown: `OneOpenAttempt` says that the
guard on open attempts counts what it has to count, wherever an attempt is made, and not
that two overlapping transactions cannot both pass it.

## 2. Modules

* `DueRules` — statuses and the pure rules about dues. Time is a natural number.
* `Payments` — the money core. State: the clock, `Due.status` and `Due.dueAt`,
  the `Payment` table keyed by idempotency key (`<<k, "main">>` for key `k`,
  `<<k, "wallet">>` for the leg stored under `${k}:wallet`), the wallet balance
  and its history (`granted`, `compensated`), receipts, ledger totals, plan
  status, running checkout calls, what the provider did to each order, and the
  batches the two jobs have read and not yet written. Actions carry the names of
  the functions of the code (`CreatePaymentCommand`, `PayDueFromWallet`,
  `StartPlanWalletFirstSplitPayment`, `CancelPendingPayment`, `OpenCheckout` /
  `PersistOrder`, `SettlePayment`, `FailPayment`,
  `ApplyFoundationWalletCredit`, `ExtendPlanDue`, and `Read…`/`Write…` of the two
  jobs). A request that replays a key, or is refused, changes nothing: it is a
  stuttering step. An expired provider order is not modelled as such: an order
  that is never captured covers it.
* `SplitEscrow` — the abstract specification of what the payment services promise
  about a wallet: an offer for a due sets part of the balance aside and asks for the
  rest elsewhere; it is spent whole, or what was set aside comes back whole, once.
  `PaymentsEscrow` holds the refinement mapping: a key is an offer, its stage is the
  status of its main row, what it holds is a wallet payment's own amount or the leg
  until the compensating credit, what it asks for is the online amount.
* `CashCollections` — extends `Payments` by `CashCollection.status` per payment and
  the operations `CollectCashForDue`, `ApproveCashCollection` (which is
  `SettlePayment` as of now plus the collection) and `RejectCashCollection`. Its next
  state relation is everything `Payments` does, or a cash operation.
* `PaymentRefunds` — extends `CashCollections` by the refund row of each payment, the
  answers a running request still has to record, and the provider's own refund.
  `requestPaymentRefund` is cut where the code is: `CreateRefundRequest` (first
  transaction), `SettleWithoutProvider` (wallet at once, cash and manual by an
  Administrator), `SubmitRefund` (HTTP), `RecordAnswer` (transaction after it) or
  `LoseAnswer`; `DeliverRefundProcessed` and `DeliverRefundFailed` are the webhooks.
* `WebhookDelivery` — the inbox on its own: deliveries, each of one event, as
  processes whose steps are the database calls of `recordWebhook`, the handler and
  `completeWebhook`, any of which may be their last.
* `DeathSupport` — members, membership history, reports, events and contributions.
  Report and event operations are Serializable, one action each. The expiry job
  (`ReadExpired`, `ExpireDues`, `DecideInactive`, `WriteInactive`) and reactivation
  (`ReadInactive`, `ReadDues`, `WriteActive`) run at READ COMMITTED, one step per
  statement. The job treats all members in one transaction; nothing it does for one
  member is read or written for another, so the model runs it per member. Rows it has
  expired stay locked: `PayDue`, `ApproveReport` and `CancelEvent`, which would write
  them, wait. Its writes are visible at once here, which nobody can tell: others treat
  PENDING and EXPIRED dues alike. An instant is longer than a transaction (Prisma ends
  one after five seconds; deadlines are days away), so the clock does not tick while
  one is running. Members who register at the instant an event is created, after it,
  are left out. Payment of a due is one step here; how it comes about is `Payments`.
  Plans are as they are when a member may first be reported; approvals of plans are not modelled (section 8).
* `SupportPledges` — the abstract specification of a death support event: the members of
  the moment are put on its roll, a publication asks each of them once, a contribution is
  paid, forgiven or owed back. `DeathSupportPledges` holds the refinement mapping: the
  roll is `ObligationMembers` of an event that exists, a contribution is open while its due
  is unsettled, expired or not, and owed back once a PAID one has a reversal.
* `EventCancellation` — extends `PaymentRefunds` by the cancellation of an event, its
  reversals, and how far each call of
  `settleOriginalMethodEventCancellationReversal` has come. `PrepareEventCancellation`
  is the one transaction; `SettleWalletReversal` is another, one per reversal; the
  original method is `ReadReversal`, `RequestReversalRefund`, `SettleReversalRefund` or
  `SubmitReversalRefund` / `RecordReversalAnswer`, and `WriteReversal`, which writes by
  id alone what an earlier step found. `LeaveReversalPending` is the `catch` around all
  of it, `AbandonReversal` a crash or a browser that went away. A repeated call takes up
  every reversal that has not SUCCEEDED, next to an earlier call that still runs.
* `ReportIntake` — extends `DeathSupport` by the form of a reporter, the request it has
  sent as far as the routes have come with it, the files on the disk and their rows.
  `ReceiveReport` is `SubmitDeathReport`; then `StoreEvidence`, `InsertEvidence` for
  each file, where `StoreFails` may leave half a file, `InsertFails` may be an error
  after the commit, `RemoveEvidence` is the clean-up, which may fail too. `Answer` tells
  what has been attached so far; `LoseRequest` is a crash or a lost answer.
* `DeathDesk` — extends `ReportIntake` by the screens of Administrators and
  Coordinators, what they have been told, and condolences. A `Click…` action is a button
  the screen (not the database) offers, the operation of the server behind it, which
  checks again, and `Answered`: the message and the reload, or neither when the answer
  was lost. `Refused` is any refusal. Reports arrive through `ReportIntake` alone.
* `MCPayments`, `MCRefunds`, `MCWebhooks`, `MCDeathSupport`, `MCCancellation`, `MCDesk`
  — instances for TLC.
* `PaymentsProofs`, `PaymentsEscrowProofs`, `PaymentRefundsProofs` (cash collections
  included), `EventCancellationProofs`, `WebhookDeliveryProofs`, `DeathSupportProofs`,
  `DeathDeskProofs` — theorems; `SumTheorems` — the lemmas on sums they rest on.

```
DueRules <- Payments <- CashCollections <- PaymentRefunds <- EventCancellation
                 ^------ PaymentsEscrow --> SplitEscrow

DueRules <- DeathSupport <- ReportIntake <- DeathDesk            WebhookDelivery
                 ^------ DeathSupportPledges --> SupportPledges
```

What the layers abstract, beyond what is said above:

* `EventCancellation` starts with events published and their dues created, which is
  the state in which money moves. In it `CancelPendingPayment` is no longer the only
  way a payment is cancelled: the cancellation closes every unsent payment of the
  event, cash included, without touching the collection. So `CollectionMatchesPayment`,
  which ties a collection to its payment, and `PaymentHistory`, which says who may
  close what, are stated of the layers below and not of this one. An order the provider
  already has is left open; its capture is refused, because the due is CANCELLED, so
  `CaptureIsHonoured` is not stated here either: such a capture is neither settled nor
  reversed.
* The user interface offers no repetition for an event that is already CANCELLED, but the
  route accepts one, and the model has it.
* A cancellation credited to the wallet after the same contribution was refunded
  gives the money back twice. `ReversalsAreOnTheBooks` counts both; nothing in the
  repository forbids the second.
* The two requests of a load are one step: no button depends on both lists. The two
  panels of a Coordinator are one screen. A load that fails
  leaves the screen as it was, so it is the same as not loading.
* A condolence is written by any member who is neither CLOSED nor DECEASED, of
  the instance or not, so its author is left out. A list of comments that is out of date
  offers to moderate what has been moderated, which changes nothing.
* Searches and listings return at most a page in the code (100 reports); the
  screens of the model have them all.
* `EvidenceMatchesDisk` leaves out two kinds of evidence by name: `unacknowledged`, rows whose
  commit was reported as an error (the clean-up then removes the file of a row that
  exists), and `leftover`, files a crash or a failing disk left behind.

Operators commented "Wrong variant" are not used by the specification. Each is
the definition below it with a plausible mistake; substituting it makes the
property named in `PROJECT.json` fail, which shows that the property is able to
fail.

## 3. Runs

| Run | Instance | Question |
|---|---|---|
| `core` | 1 member, a plan registration of 3 and a contribution of 2, 2 keys, 1 checkout call per payment, credits of 2 up to 4, 3 instants | do splits, cancellations, webhooks, extensions and jobs keep every safety property of the core, and does `Payments` implement `SplitEscrow`? |
| `refunds` | the registration, 2 keys, 1 call of each kind, credit up to 2 | do cash collections keep step with payments, are the books right when payments of every method are refunded, and do refunded payments stand? |
| `races` | the registration, 1 key, 2 concurrent checkout calls and refund requests, fairness | may a call racing a cancellation or another call leave a wrong order or a wrong refund row; is a capture made in time, and a refund the provider paid, always recorded? |
| `webhooks` | 3 events on 2 payments, 2 overlapping deliveries of one of them, 2 deaths, fairness | are receipts exact and marks true, and does a capture take effect in spite of crashes? |
| `death` | 2 members, one registering late, 2 reports, 2 instants, every due payable for 1 instant, 1 expired contribution makes INACTIVE | is a member the subject of one live case, are obligations those of the event's creation whatever the order of registration and publication, is a cancelled event settled, do history and standing tell the truth next to the job and reactivations, does the job spare the deceased, and does `DeathSupport` implement `SupportPledges`? |
| `cancellation` | 1 member, a contribution of 2, 1 key, 2 concurrent calls, credits of 1 and 2 up to 2, 2 instants | does a cancelled event owe exactly the contributions that were settled, whatever arrives late; are the books right however often it is repeated; does a reversal say what its refund says? |
| `desk` | 1 member, 1 report, 2 Administrators, 1 Coordinator, 1 reporter with up to 2 files, 1 condolence, 1 instant | does what staff were told stay true when several decide from old screens; do rows and files agree after faults; is what a reporter was told attached? |
| `deceased_revived` | violation, 1 member, 1 report | a reactivation overwrites DECEASED |
| `plan_paid_twice` | violation | the registration can be charged twice |
| `capture_lost` | violation | a capture after a failed attempt is refused for ever |
| `leg_given_back_twice` | violation | a wallet leg is refunded and compensated |
| `webhook_lost` | violation | an acknowledged capture never takes effect |

Bounds. Amount 3 with credits of 2 gives every case of a split: balance 0, a part,
and (with 4) more than the whole. Two keys are what a double payment, a second
attempt and a resumed attempt need; a property of one due that needs a third
attempt is covered by the proofs, which have no bound. Two calls are what a race for
the order or for the refund row needs, and they get a run of their own (`races`):
the races are about one row, so one key is enough there. Three instants give a due
that is before, at and past its deadline, and an extension beyond it. `MaxCredit` and
`MaxTime` are guards of the administrator's credit and of the clock, nothing else.
Keys and calls are symmetric in `core` and `refunds`, whose properties are all safety
properties; the runs with fairness use no symmetry. The type invariants of `CashCollections`
and `Payments` are conjuncts of `RefundTypeOK`, so `refunds` checks all three.
That a cancelled event is settled (`CancelledEventIsSettled`) is what `ImplementsPledges`
says of it, so `death` checks the refinement and the proof states the invariant too.

In `webhooks` the three events are a capture alone, of which two deliveries may
overlap, and a failed attempt followed by a capture of the same payment, each
delivered one call at a time. Two deaths let the winner of the race for the row and
its retry die. `MaxCrashes` bounds deaths in total. `CaptureTakesEffect` speaks of the
captures delivered one call at a time (`DeliveredOneAtATime`); `webhook_lost` shows why.

In `death` two reports are what a second live case needs, and one event each for two
members. Two instants are before and at a deadline, and let a member join after an
event was created and before it is published. `InactiveAfter` is 6 in the code; with
two events per instance 1 is the largest value both members can reach. Reports are
symmetric. A member's history has no bound of its own: every change needs a due.

In `cancellation` one payment is enough: reversals are settled one by one and nothing
about one of them is read for another, while everything that races is about one payment
and its refund. Two calls are two administrators, or a repetition while the first call
still runs; the calls of the refund service and of checkout run next to them. Two keys
with two calls exceed the time of a run. Two instants are before and at the deadline of the
contribution, at which the job may select it and after which nothing about it changes: a
contribution may be paid late and is never extended.

In `desk` a second Administrator and a Coordinator are what a stale decision needs. Two
files let the first be attached and the second fail, and storage keys for both. The clock
stands (`MaxTime` 0): expiry, registration and reactivation belong to `death`, where
reports are decided at any instant, and `DeskImplementsDeathSupport` (section 5) says
that every behaviour of the desks is one of `DeathSupport`. With one report TLC cannot
see the form mix up two of them; `WhatIsToldIsAttached`, proved for any number of reports
and reporters, excludes it.

Deadlock is checked in every run of `Payments` and its extensions: the jobs may always
read again. The webhook runs stop when every event is acknowledged, and the runs of
`DeathSupport` when every report is used up and every due settled, so they do not check
it; nor does `desk`, where every screen may be closed for the day.

## 4. Fairness

`FairSpec` adds weak fairness of the delivery of each capture. The provider
redelivers an event until a 2xx response, and the webhook route answers 4xx to
every refusal (`webhooks/[provider]/route.ts:87-93`). No other action is fair:
nobody is obliged to pay, cancel, extend or run a job. The assumption stops where
`recordWebhook` answers "duplicate" to a second delivery while the first has not
finished (`payment-service.ts:91-92`): if the first then crashes, nobody delivers
again. `webhook_lost` is that case, and `CaptureIsHonoured` holds outside of it. In
`capture_lost`, under the same fairness, the capture is delivered for ever and refused.

`FairRefundSpec` has the same for captures next to cash and refunds, and weak fairness
of the delivery of `refund.processed`, for the same reason; no request has to be repeated. `FairSpec` of `WebhookDelivery` has, for each
delivery, weak fairness of the steps of a delivery: the provider sends again what is not
acknowledged and a delivery that does not die goes on. Deaths are bounded, not unfair.

`CancellationSpec` and `DeskSpec` have no fairness. The settlement of a reversal that was
left PENDING waits for a person to repeat the cancellation, and nobody is obliged to look
at a report.

## 5. What is proved

Eight modules of proofs, each for every value of the constants. Every invariant and
every safety property of the passing runs is stated by a theorem.

`PaymentsProofs`, for every set of members, dues, keys and calls, every amount and
every number of steps, from `PaymentsAssumption` (every due has an owner, a
purpose and a positive amount; NULL is not a value):

`TypeCorrect`, `SingleAttempt`, `PaidDueIsClosed`, `RowsCharge`, `EscrowIsSound`,
`CollectedInFull`, `OrdinaryDuesAreChargedOnce`, `CancellationIsSafe` and
`HistoryIsAppendOnly`; and, with `MembersAssumption` (there are finitely many members,
over whom credits are summed), `WalletIsItsHistory` and `LedgerIsBalanced`.

The argument. `IInv` is `TypeOK` with `Tables`, the conjunction of the safety
invariants plus two facts that make them inductive: an ordinary due that some key
paid is still PAID (`OrdinaryDueStaysPaid`: the expiry job re-checks the status and
an extension touches registrations only, so no step takes PAID away), and a
compensated leg is the leg of a closed online payment (`CompensatedLegsExist`).
`RowsCoverTheDue` is needed to know that settling an online leg completes exactly
its due, `OneOpenAttempt` that closing it leaves nothing open, `SplitLegHeldInEscrow`
that the leg still counts at that moment. One lemma per kind of table update
(`TablesSplit`, `TablesClose`, `TablesSettle`, ...) shows it preserves `Tables`; one
lemma per part of `Next` assembles them.

The books. A balance is compared with a sum over the settled payments, so every proof
about it needs to know what a sum does when one payment joins. `SumTheorems` proves that
of the community modules' `SumFunctionOnSet`, over any finite set: a sum is what it is
defined by, it grows by what is added, and equal functions have equal sums. Induction is
taken from a smallest counterexample among the finite subsets (`SetInduction`), not from
the library's induction theorem, which the provers cannot instantiate. `WalletGap`,
`DebitGap` and `CreditGap` say by how much wallets and ledger differ from the payments;
each step keeps them (`BooksKept`), because a settled row never changes (`Stands`) and
whoever adds one moves the money in the same transaction. `Founded` is what that rests on:
only finitely many payments are settled, those are the receipted ones, a payment that is
still open took nothing from the wallet, and a wallet leg did. The gaps are kept whatever
they are, so the layers above take `BooksKept` of every lower step and account for
their own rows only.

`PaymentsEscrowProofs`: `Refinement`, that `Payments` implements `SplitEscrow`. Every
action is shown to be an offer, a spend, a return, a deposit or a stutter;
`CloseIsReturn` is the heart of it: what `OwedToWallet` finds in the tables is exactly
what the key holds. It needs `IInv` and `OpenIsOnline` (only online rows are open).

`PaymentRefundsProofs`, first of `CashCollections`: `CashTypeCorrect`, `SingleAttemptWithCash`,
`CollectionsAreConsistent`, `CashIsCollectedOnce`. `CashIInv` is `IInv`, the properties,
and `ProviderSeesOnlineRows`: orders, captures and failed attempts belong to online
rows, so no step of `Payments` touches the row of a collection (`PaymentsRowStep`). An
approval is a `SettlePayment`, so the lemma of `PaymentsProofs` is reused. Everything but
`CollectionMatchesPayment` is `CashBase`, which holds a little less about collections
(`CollectionFollowsPayment`: the payment of one that awaits verification may have been
cancelled) and is preserved on its own; the layers above build on it.

Then of `PaymentRefunds`: `RefundTypeCorrect`, `RefundsAgreeWithProvider`,
`RefundedPaymentsStand`, `RefundsAreBooked`. `RefundIInv` adds that a final answer still to be recorded is
the provider's last word (`AnswersAreCurrent`) and that settled payments are receipted;
`SettledRowsStand` says of every step of the layers below that settled rows stay, which
is also why a refund's amount is still right when it is booked (`RefundBooksInv`).

`WebhookDeliveryProofs`: `TypeCorrect`, `ReceiptsAreExact`, `MarksAreTrue`, for any number of
events, overlapping deliveries and deaths. The strengthening is
`CompletingTookEffect`: a delivery about to write the mark found the payment in the
state its event reports. `WebhookAssumption` (every event has a payment) is all it uses.

`DeathSupportProofs`: `DeathTypeCorrect`, `OneLiveCasePerMember`, `EventsMatchCases`,
`ObligationsFollowHistory`, `CancelledEventsAreSettled`, for any members, reports, plans
and periods, from `DeathSupportAssumption`. The properties lean on each other:
`OneLiveCase` and `EventMatchesCase` need nothing else, but an obligation is about the
event's dates, so `EventsAreDated` (an event is created in the past, and published
exactly if it says so) joins the invariant; it is what keeps a later registration from
owing. `HistoryIsPast` (no period begins in the future) makes the periods ordered.
The expiry job, reactivation, payments and approvals all change dues in the way
`DuesMove` describes — only unsettled ones, none appears or disappears — and
`DuesMoveKeeps` shows once that such a step keeps the tables.

`HistoryIsTold` needs `PeopleInv`: whoever is reported, served by the job or reactivated
has joined, so that the period a write opens is the only open one of a history that had
one. `ActiveMembersAreInGoodStanding` is about decisions taken on what was read before.
`StandingInv` says of each member: what the job has selected was charged and is late; one
whom a reactivation found settled has no due that is expired or late (what is published
meanwhile is due later than now, and the clock waits); one who is ACTIVE while the job is
not past its update is in good standing. The first two exclude that the job expires a due
of a member whom a reactivation is about to make ACTIVE. Expired contributions are counted,
so the proof also carries that only finitely many events are published.
`DeathOutlastsTheJob` builds on it: if the job expired no due of a member
who is ACTIVE, he is in good standing and it does not decide against him; so a decision to
write INACTIVE comes with a locked row for which the approval waits (`DecisionHolds`).

`PledgesAreKept`, that `DeathSupport` implements `SupportPledges`, shows of each action that
it verifies, publishes, pays, closes, cancels or stutters. A registration stutters because
it comes later than every event (the clock is part of the argument), a replayed
publication because `ObligationsAreHistorical` leaves nobody to charge, and an approval
forgives all that its member owes because of `DeathsAreDecidedOnce`: a report of a member
who is DECEASED is never open for review, so the branch of `reviewDeathReportByAdmin` for
such a member is not taken. `VerifiedDeathIsDurable` is not among the theorems, since it
does not hold (section 7).

`DeathDeskProofs`: `DeskImplementsDeathSupport`, `DeskTypeCorrect`, `EvidenceOnDisk`,
`WhatIsToldIsAttached`, `WhatIsToldStands`, `DeskKeepsPromises`, for any staff, reporters, files and comments.
The first is a refinement under the identity mapping: every step of a form, a route, a
screen or a comment is a step of `DeathSupport` or leaves its variables alone, so
everything proved of reports, members and events holds of the desks as well, which
`DeskKeepsPromises` draws. `DeskInv`
is the invariant of `DeathSupport` with `IntakeInv` (a key under way is named by one
request only and belongs to no row before its insert; what a request has attached has a
row and a file), the types of the desks, and `Firm`, which is `Stands` of a message about
a report that exists. It lasts because a decided report is never taken up
again, a linked member never replaced, a publication never taken back:
`DecisionsStay` shows that of every step of `DeathSupport`.

`EventCancellationProofs`: `CancellationTypeCorrect`, `ExactlyWhatWasSettledIsReversed`,
`ReversalsAgreeWithRefunds`, `RefundsStayWithCancellation`, `ReversalsAreBooked`, for any events, dues, keys and
calls, from the assumptions above and `CancellationAssumption` (every contribution has its
event). `RefundIInv` survives a cancellation, because its rows have no wallet leg and no
order (`CancelledRowsClose`, `TablesCloseRows`). A cancelled event owes what was settled
because its dues are closed for good (`CancelledContributionsAreClosed`) and every step of
the layers below only settles the payment of an unsettled due and opens no closed
contribution (`MoneyMoves`). A reversal written by id alone agrees with its refund because
a call that is about to write a final outcome found it in the refund (`CallIsSound`), and a
final refund stays (`RefundsMove`). The books hold because a reversal that was credited to
the wallet is never credited again, by whichever call, and a cancellation leaves the
settled rows it reverses as they are (`OldReversalsStand`).

## 6. What only TLC checks

`CaptureIsHonoured`, `ProcessedRefundIsRecorded` and `CaptureTakesEffect` are liveness under
fairness: their proofs would need ENABLED, which the provers do not have. That the
violations of section 7 exist is shown by a run each; a theorem could only say what holds
in spite of them. Everything else the passing runs check is proved for every value of the
constants; the runs remain what shows that the properties can fail.

## 7. Disagreements met

* `plan_paid_twice`. The plan-reminders job reads overdue registrations
  (`plan-reminders/route.ts:19`) and writes EXPIRED by id alone later (`:37`). If
  the due is extended and paid in between, PAID is lost; another extension, which
  refuses only PAID, makes the registration payable again. `plan-service.ts:35`
  says the member "never pays a second ₹1,000".
* `capture_lost`. A failed attempt on an order closes the whole payment as FAILED.
  The capture that the next attempt on the same order may bring is then refused by
  `settlePayment` (`payment-service.ts:118`) on every delivery, without a row that a
  refund could refer to. The comment at `payment-service.ts:266` says such a capture
  must be "handled through the provider/refund workflow".

* `leg_given_back_twice`. A refund may be requested for any SUCCEEDED payment
  (`payment-refund-service.ts:39`), so for the wallet leg of a split whose online leg is
  open. Cancelling that online leg then compensates the leg again: the guard at
  `payment-service.ts:310` looks only for an earlier compensation. The comment at `:293`
  says the wallet is compensated "exactly once".
* `webhook_lost`. Of two overlapping deliveries of a new event, the one whose insert
  fails on the unique key is acknowledged as a duplicate (`payment-service.ts:91-92`,
  webhook route `:41`) before the other has processed anything. If the other dies, the
  capture is recorded but, contrary to `payment-service.ts:266`, silently discarded.

* `deceased_revived`. Reactivation reads the member and its dues
  (`reactivation-service.ts:6-20`) at READ COMMITTED and writes ACTIVE by id (`:22`). If a
  death report of the member is approved in between, DECEASED is overwritten and its
  membership period ended. `death-workflow-service.ts:680` calls the transition
  "durable". The expiry job has the same shape but does not have the problem: it
  expired a due of the member in the same transaction, and the approval must wait for
  that row.

## 8. Not modelled

Cryptography, sessions, OTP and permissions (the caller of an action is assumed to be
entitled to it), document encryption, receipts and other projections,
the texts of comments, notifications and audit rows, migrations and the development
seed. Of the user interface there are the report form and the death queues; the member
portal and the other pages send requests that are actions of the server modules, and keep
no state that a property here is about.

The throttles of logins and of public reports only refuse or delay: `RefuseReport`
covers any count, right or wrong, and no other component reads the counts.

The two approvals of a plan are Serializable transactions that check the status of the plan
and advance it, a status which no payment reads after the registration. The second also makes
a CLOSED member ACTIVE again (`plan-service.ts:114`), but nothing in the code writes CLOSED to a
member, so that branch cannot be reached; `DeathSupport` takes the time of activation as a constant. Starting
a plan is part of `Init`, with its due.

Helpers that no route calls (`payment-engine.ts`), coordinator assignment and referrals,
which are lookups; assignment is a constant of `DeathDesk`. Amounts are naturals: the
32-bit column makes a larger credit an error that changes nothing.

## 9. Plan

Done: the money core (`Payments`), cash, refunds, the inbox, members, reports and events
(`DeathSupport`), event cancellation next to the money, report intake and the desks, which
implement `DeathSupport`; the two abstract specifications, `SplitEscrow` and `SupportPledges`,
with their refinements; every safety property as a theorem. Left, in this order:

1. That `PaymentRefunds`, with cash and refunds, still implements `SplitEscrow`.
2. `Plans`: start and the two approvals, refinement of an abstract plan life cycle.
