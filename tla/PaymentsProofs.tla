--------------------------- MODULE PaymentsProofs ---------------------------
(***************************************************************************)
(* Proofs about Payments for every set of members, dues, keys and checkout *)
(* calls, every amount and every bound.                                    *)
(***************************************************************************)
EXTENDS Payments, SumTheorems, TLAPS

(* The two rows of a key are different rows, and every row is one of them. *)
LEMMA RowNames ==
    /\ \A k \in Keys : Main(k) \in PaymentIds /\ Leg(k) \in PaymentIds
    /\ \A j, k \in Keys : Main(j) # Leg(k)
    /\ \A j, k \in Keys : Main(j) = Main(k) => j = k
    /\ \A j, k \in Keys : Leg(j) = Leg(k) => j = k
    /\ \A p \in PaymentIds : \E k \in Keys : p = Main(k) \/ p = Leg(k)
  BY DEF PaymentIds, Main, Leg

(* Updating one row of the table with a typed row keeps the table typed. *)
LEMMA TypedUpdate ==
    ASSUME NEW t \in [PaymentIds -> Rows], NEW p \in PaymentIds, NEW r \in Rows
    PROVE  [t EXCEPT ![p] = r] \in [PaymentIds -> Rows]
  OBVIOUS

(* Changing the status or the order of a row changes nothing else of it. *)
LEMMA RowUpdate ==
    ASSUME NEW r \in Rows, NEW s \in PaymentStatuses, NEW c \in Calls
    PROVE  /\ [r EXCEPT !.status = s] \in Rows
           /\ [r EXCEPT !.order = c] \in Rows
           /\ [r EXCEPT !.status = s].status = s
           /\ [r EXCEPT !.order = c].status = r.status
           /\ [r EXCEPT !.status = s].order = r.order
           /\ [r EXCEPT !.order = c].order = c
           /\ [r EXCEPT !.status = s].method = r.method
           /\ [r EXCEPT !.order = c].method = r.method
           /\ [r EXCEPT !.status = s].due = r.due
           /\ [r EXCEPT !.order = c].due = r.due
           /\ [r EXCEPT !.status = s].amount = r.amount
           /\ [r EXCEPT !.order = c].amount = r.amount
  BY DEF Rows

(* Adding to one side of the ledger keeps the ledger typed. *)
LEMMA TypedCredit ==
    ASSUME NEW l \in [credit : Nat, debit : Nat], NEW n \in Nat
    PROVE  /\ [l EXCEPT !.credit = @ + n] \in [credit : Nat, debit : Nat]
           /\ [l EXCEPT !.debit = @ + n] \in [credit : Nat, debit : Nat]
  OBVIOUS

(* What a well-formed split takes from the wallet and gives back is a      *)
(* natural number.                                                         *)
LEMMA OwedIsNat ==
    ASSUME TypeOK, NEW k \in Keys
    PROVE  OwedToWallet(k) \in Nat
  BY RowNames DEF TypeOK, OwedToWallet, Rows

(* Every initial state is typed. *)
LEMMA TypeInit == Init => TypeOK
  BY PaymentsAssumption DEF Init, TypeOK, Rows, Row, NoRow, PaymentIds, DueStatuses,
     PlanStatuses

(***************************************************************************)
(* Type correctness.  One step per action; the four bodies that handlers   *)
(* share have a lemma each.                                                *)
(***************************************************************************)
(* Advancing a plan after its registration was paid keeps plans typed. *)
LEMMA TypeAdvancedPlans ==
    ASSUME TypeOK, NEW d
    PROVE  AdvancedPlans(d) \in [PlanDues -> PlanStatuses]
  BY DEF TypeOK, AdvancedPlans, PlanStatuses

(* A settlement from the wallet keeps the tables typed: the balance covers it. *)
LEMMA TypeSettleFromWallet ==
    ASSUME TypeOK, NEW k \in Keys, NEW d \in Dues, SettleFromWallet(k, d)
    PROVE  TypeOK'
  <1>1. /\ Owner[d] \in Members
        /\ Amount[d] \in Nat
    BY PaymentsAssumption
  <1>2. wallet'[Owner[d]] \in Nat /\ wallet' \in [Members -> Nat]
    BY <1>1 DEF TypeOK, SettleFromWallet, Affordable
  <1>3. Row("SUCCEEDED", "WALLET", d, Amount[d], NoOrder) \in Rows
    BY <1>1 DEF Row, Rows, PaymentStatuses, Methods
  <1>4. payments' \in [PaymentIds -> Rows]
    BY <1>3, RowNames, TypedUpdate DEF TypeOK, SettleFromWallet
  <1>5. plans' \in [PlanDues -> PlanStatuses]
    BY TypeAdvancedPlans DEF SettleFromWallet
  <1>6. dueStatus' \in [Dues -> DueStatuses]
    BY DEF TypeOK, SettleFromWallet, DueStatuses
  <1>7. receipts' \subseteq PaymentIds
    BY RowNames DEF TypeOK, SettleFromWallet
  <1>8. ledger' \in [credit : Nat, debit : Nat]
    BY <1>1, TypedCredit DEF TypeOK, SettleFromWallet
  <1> QED
    BY <1>2, <1>4, <1>5, <1>6, <1>7, <1>8 DEF TypeOK, SettleFromWallet, outside

(* Closing an online leg and compensating its wallet leg keeps the tables typed. *)
LEMMA TypeCloseAndCompensate ==
    ASSUME TypeOK, NEW k \in Keys, NEW outcome \in PaymentStatuses,
           payments[Main(k)].due \in Dues,
           CloseAndCompensate(k, outcome)
    PROVE  TypeOK'
  <1>1. OwedToWallet(k) \in Nat
    BY OwedIsNat
  <1>2. Owner[payments[Main(k)].due] \in Members
    BY PaymentsAssumption
  <1>3. wallet' \in [Members -> Nat]
    BY <1>1, <1>2 DEF TypeOK, CloseAndCompensate
  <1>4. payments' \in [PaymentIds -> Rows]
    <2>1. payments[Main(k)] \in Rows
      BY RowNames DEF TypeOK
    <2>2. [payments[Main(k)] EXCEPT !.status = outcome] \in Rows
      BY <2>1 DEF Rows
    <2> QED
      BY <2>2, RowNames, TypedUpdate DEF TypeOK, CloseAndCompensate
  <1>5. ledger' \in [credit : Nat, debit : Nat]
    BY <1>1, TypedCredit DEF TypeOK, CloseAndCompensate
  <1>6. compensated' \subseteq {Leg(j) : j \in Keys}
    BY DEF TypeOK, CloseAndCompensate
  <1> QED
    BY <1>3, <1>4, <1>5, <1>6 DEF TypeOK, CloseAndCompensate, outside

(* A split keeps the tables typed: its online remainder is positive. *)
LEMMA TypeSplit ==
    ASSUME TypeOK, NEW k \in Keys, NEW d \in Dues, SplitWalletThenOnline(k, d)
    PROVE  TypeOK'
  <1> DEFINE taken == wallet[Owner[d]]
             online == Row("PENDING", "ONLINE", d, Amount[d] - taken, NoOrder)
             leg == Row("SUCCEEDED", "WALLET", d, taken, NoOrder)
  <1>1. /\ Owner[d] \in Members
        /\ taken \in Nat
        /\ Amount[d] - taken \in Nat
    BY PaymentsAssumption DEF TypeOK, SplitWalletThenOnline, OnlineRemainder
  <1>2. online \in Rows /\ leg \in Rows
    BY <1>1 DEF Row, Rows, PaymentStatuses, Methods
  <1>3. [payments EXCEPT ![Main(k)] = online] \in [PaymentIds -> Rows]
    BY <1>2, RowNames DEF TypeOK
  <1>4. [payments EXCEPT ![Main(k)] = online, ![Leg(k)] = leg] \in [PaymentIds -> Rows]
    BY <1>2, <1>3, RowNames DEF TypeOK
  <1>5. payments' \in [PaymentIds -> Rows]
    BY <1>3, <1>4 DEF SplitWalletThenOnline, OnlineRemainder
  <1>6. wallet' \in [Members -> Nat]
    BY DEF TypeOK, SplitWalletThenOnline
  <1>7. receipts' \subseteq PaymentIds
    BY RowNames DEF TypeOK, SplitWalletThenOnline
  <1>8. ledger' \in [credit : Nat, debit : Nat]
    BY <1>1, TypedCredit DEF TypeOK, SplitWalletThenOnline
  <1> QED
    BY <1>5, <1>6, <1>7, <1>8 DEF TypeOK, SplitWalletThenOnline, outside

(* The settlement of an online payment keeps the tables typed. *)
LEMMA TypeSettle ==
    ASSUME TypeOK, RowsCoverTheDue, NEW k \in Keys, NEW settledAt,
           SettlePayment(k, settledAt)
    PROVE  TypeOK'
  <1>1. payments[Main(k)] \in Rows /\ payments[Main(k)].due \in Dues
    BY RowNames DEF TypeOK, SettlePayment, RowsCoverTheDue
  <1>2. [payments[Main(k)] EXCEPT !.status = "SUCCEEDED"] \in Rows
    BY <1>1 DEF Rows, PaymentStatuses
  <1>3. payments' \in [PaymentIds -> Rows]
    BY <1>2, RowNames, TypedUpdate DEF TypeOK, SettlePayment
  <1>4. dueStatus' \in [Dues -> DueStatuses]
    BY <1>1 DEF TypeOK, SettlePayment, DueStatuses
  <1>5. plans' \in [PlanDues -> PlanStatuses]
    BY TypeAdvancedPlans DEF SettlePayment
  <1>6. receipts' \subseteq PaymentIds
    BY RowNames DEF TypeOK, SettlePayment
  <1>7. payments[Main(k)].amount \in Nat
    BY <1>1 DEF Rows
  <1>8. ledger' \in [credit : Nat, debit : Nat]
    BY <1>7, TypedCredit DEF TypeOK, SettlePayment
  <1> QED
    BY <1>3, <1>4, <1>5, <1>6, <1>8 DEF TypeOK, SettlePayment, outside

-----------------------------------------------------------------------------
(***************************************************************************)
(* The inductive invariant.  OrdinaryDueStaysPaid and CompensatedLegsExist *)
(* are the strengthenings: nothing but a payment or a scheduled job writes *)
(* an ordinary due, and the job that writes by id alone sees plan dues     *)
(* only; a compensating credit is written only for a leg that was taken.   *)
(***************************************************************************)
OrdinaryDueStaysPaid ==
    \A d \in Dues \ PlanDues : \A k \in Keys : PaidUnder(k, d) => dueStatus[d] = "PAID"

CompensatedLegsExist ==
    \A k \in Keys : Leg(k) \in compensated => payments[Leg(k)].status # "NONE"

(* The part of the invariant that only depends on the payment table, the   *)
(* statuses of dues and plans, and the compensations.                      *)
Tables ==
    /\ OneOpenAttempt
    /\ PaidDueHasNoOpenAttempt
    /\ RowsCoverTheDue
    /\ SplitLegHeldInEscrow
    /\ CompensatedLegsExist
    /\ PaidDueIsCollected
    /\ OrdinaryDueStaysPaid
    /\ OrdinaryDuePaidOnce
    /\ CancelledHasNoOrder

IInv == TypeOK /\ Tables

(* Only main rows can be open: a wallet leg is settled when it is created. *)
LEMMA OpenRowsAreMain ==
    ASSUME RowsCoverTheDue, NEW p \in PaymentIds, payments[p].status = "PENDING"
    PROVE  \E k \in Keys : p = Main(k)
  BY RowNames DEF RowsCoverTheDue

(* No attempt is open on a due that passed assertNoPendingPaymentForDue. *)
LEMMA NoOpenAttempt ==
    ASSUME NEW d, OpenAttempts(d) = {}, NEW p \in PaymentIds,
           payments[p].status = "PENDING"
    PROVE  payments[p].due # d
  BY DEF OpenAttempts

(* The table invariant holds while there are no payments. *)
LEMMA TablesInit == Init => Tables
  <1> SUFFICES ASSUME Init PROVE Tables
    OBVIOUS
  <1>1. \A p \in PaymentIds : payments[p].status = "NONE" /\ payments[p].due = NoDue
    BY DEF Init, NoRow, Row
  <1>2. \A k \in Keys : /\ payments[Main(k)].status = "NONE"
                        /\ payments[Leg(k)].status = "NONE"
                        /\ payments[Main(k)].due = NoDue
    BY <1>1, RowNames
  <1>3. OneOpenAttempt /\ PaidDueHasNoOpenAttempt
    BY <1>1 DEF OneOpenAttempt, PaidDueHasNoOpenAttempt
  <1>4. RowsCoverTheDue /\ SplitLegHeldInEscrow
    BY <1>2 DEF RowsCoverTheDue, SplitLegHeldInEscrow
  <1>5. CompensatedLegsExist
    BY DEF Init, CompensatedLegsExist
  <1>6. PaidDueIsCollected
    BY DEF Init, PaidDueIsCollected
  <1>7. OrdinaryDueStaysPaid /\ OrdinaryDuePaidOnce /\ CancelledHasNoOrder
    BY <1>2 DEF OrdinaryDueStaysPaid, OrdinaryDuePaidOnce, CancelledHasNoOrder, PaidUnder
  <1> QED
    BY <1>3, <1>4, <1>5, <1>6, <1>7 DEF Tables

(* Steps that leave the tables alone: the provider, grants, reads, time. *)
LEMMA TablesFrame ==
    ASSUME Tables, UNCHANGED <<payments, dueStatus, compensated, plans>>
    PROVE  Tables'
  <1>1. OneOpenAttempt' /\ PaidDueHasNoOpenAttempt' /\ RowsCoverTheDue'
    BY DEF Tables, OneOpenAttempt, PaidDueHasNoOpenAttempt, RowsCoverTheDue
  <1>2. SplitLegHeldInEscrow' /\ CompensatedLegsExist' /\ CancelledHasNoOrder'
    BY DEF Tables, SplitLegHeldInEscrow, CompensatedLegsExist, CancelledHasNoOrder, Live
  <1>3. PaidDueIsCollected'
    BY DEF Tables, PaidDueIsCollected, FullyCollected, PaidUnder, Retained
  <1>4. OrdinaryDueStaysPaid' /\ OrdinaryDuePaidOnce'
    BY DEF Tables, OrdinaryDueStaysPaid, OrdinaryDuePaidOnce, PaidUnder
  <1> QED
    BY <1>1, <1>2, <1>3, <1>4 DEF Tables

(* Steps that change the status of dues only, never to PAID, and of        *)
(* ordinary dues only when they are not PAID: the jobs and the extension.  *)
LEMMA TablesDueStatus ==
    ASSUME Tables, UNCHANGED <<payments, compensated, plans>>,
           \A d \in Dues : dueStatus'[d] = "PAID" => dueStatus[d] = "PAID",
           \A d \in Dues \ PlanDues : dueStatus[d] = "PAID" => dueStatus'[d] = "PAID"
    PROVE  Tables'
  <1>1. OneOpenAttempt' /\ RowsCoverTheDue'
    BY DEF Tables, OneOpenAttempt, RowsCoverTheDue
  <1>2. PaidDueHasNoOpenAttempt'
    <2> SUFFICES ASSUME NEW p \in PaymentIds, payments[p].status = "PENDING"
                 PROVE  dueStatus'[payments[p].due] # "PAID"
      BY DEF PaidDueHasNoOpenAttempt
    <2>1. PICK k \in Keys : p = Main(k)
      BY OpenRowsAreMain DEF Tables
    <2>2. payments[p].due \in Dues
      BY <2>1 DEF Tables, RowsCoverTheDue
    <2> QED
      BY <2>2 DEF Tables, PaidDueHasNoOpenAttempt
  <1>3. SplitLegHeldInEscrow' /\ CompensatedLegsExist' /\ CancelledHasNoOrder'
    BY DEF Tables, SplitLegHeldInEscrow, CompensatedLegsExist, CancelledHasNoOrder, Live
  <1>4. PaidDueIsCollected'
    BY DEF Tables, PaidDueIsCollected, FullyCollected, PaidUnder, Retained
  <1>5. OrdinaryDueStaysPaid' /\ OrdinaryDuePaidOnce'
    BY DEF Tables, OrdinaryDueStaysPaid, OrdinaryDuePaidOnce, PaidUnder
  <1> QED
    BY <1>1, <1>2, <1>3, <1>4, <1>5 DEF Tables

(* A new open payment of any method: one main row for a due without        *)
(* attempts (createPaymentCommand here, cash collections elsewhere).       *)
LEMMA TablesNewPayment ==
    ASSUME IInv, NEW k \in Keys, NEW d \in Dues, NEW method \in Methods,
           Unused(k), Payable(d), OpenAttempts(d) = {},
           payments' = [payments EXCEPT ![Main(k)] =
                            Row("PENDING", method, d, Amount[d], NoOrder)],
           UNCHANGED <<dueStatus, compensated, plans>>
    PROVE  Tables' /\ payments' \in [PaymentIds -> Rows]
  <1> USE DEF IInv, Tables
  <1>0. payments' \in [PaymentIds -> Rows]
    <2>1. Amount[d] \in Nat
      BY PaymentsAssumption
    <2>2. Row("PENDING", method, d, Amount[d], NoOrder) \in Rows
      BY <2>1 DEF Row, Rows, PaymentStatuses
    <2> QED
      BY <2>2, RowNames, TypedUpdate DEF TypeOK
  <1>1. /\ payments'[Main(k)] = Row("PENDING", method, d, Amount[d], NoOrder)
        /\ \A p \in PaymentIds \ {Main(k)} : payments'[p] = payments[p]
    BY RowNames DEF TypeOK
  <1>2. /\ payments'[Main(k)].status = "PENDING"
        /\ payments'[Main(k)].method = method
        /\ payments'[Main(k)].due = d
        /\ payments'[Main(k)].amount = Amount[d]
        /\ payments'[Main(k)].order = NoOrder
    BY <1>1 DEF Row
  <1>3. \A j \in Keys : /\ payments'[Leg(j)] = payments[Leg(j)]
                        /\ j # k => payments'[Main(j)] = payments[Main(j)]
    BY <1>1, RowNames
  <1>4. payments[Main(k)].status = "NONE" /\ payments[Leg(k)].status = "NONE"
    BY DEF Unused, RowsCoverTheDue
  <1>5. UNCHANGED <<dueStatus, compensated, plans>>
    OBVIOUS
  <1>6. dueStatus[d] # "PAID"
    BY DEF Payable, IsDuePayable, Unsettled
  <1>7. OneOpenAttempt'
    BY <1>1, <1>2, NoOpenAttempt DEF OneOpenAttempt
  <1>8. PaidDueHasNoOpenAttempt'
    BY <1>1, <1>2, <1>5, <1>6 DEF PaidDueHasNoOpenAttempt
  <1>9. RowsCoverTheDue'
    BY <1>2, <1>3, <1>4 DEF RowsCoverTheDue
  <1>10. SplitLegHeldInEscrow' /\ CompensatedLegsExist'
    BY <1>3, <1>4, <1>5 DEF SplitLegHeldInEscrow, CompensatedLegsExist, Live
  <1>11. CancelledHasNoOrder'
    BY <1>2, <1>3 DEF CancelledHasNoOrder
  <1>12. \A j \in Keys, e \in Dues : PaidUnder(j, e)' <=> PaidUnder(j, e)
    BY <1>2, <1>3, <1>4 DEF PaidUnder
  <1>13. PaidDueIsCollected'
    BY <1>3, <1>4, <1>5, <1>12 DEF PaidDueIsCollected, FullyCollected, Retained, PaidUnder
  <1>14. OrdinaryDueStaysPaid' /\ OrdinaryDuePaidOnce'
    BY <1>5, <1>12 DEF OrdinaryDueStaysPaid, OrdinaryDuePaidOnce
  <1> QED
    BY <1>0, <1>7, <1>8, <1>9, <1>10, <1>11, <1>13, <1>14

(* A wallet settlement: one settled main row for a due without attempts. *)
LEMMA TablesSettleFromWallet ==
    ASSUME IInv, NEW k \in Keys, NEW d \in Dues,
           Unused(k), Payable(d), OpenAttempts(d) = {}, SettleFromWallet(k, d)
    PROVE  Tables'
  <1> USE DEF IInv, Tables
  <1>1. /\ payments'[Main(k)] = Row("SUCCEEDED", "WALLET", d, Amount[d], NoOrder)
        /\ \A p \in PaymentIds \ {Main(k)} : payments'[p] = payments[p]
    BY RowNames DEF SettleFromWallet, TypeOK
  <1>2. /\ payments'[Main(k)].status = "SUCCEEDED"
        /\ payments'[Main(k)].due = d
        /\ payments'[Main(k)].amount = Amount[d]
        /\ payments'[Main(k)].order = NoOrder
    BY <1>1 DEF Row
  <1>3. \A j \in Keys : /\ payments'[Leg(j)] = payments[Leg(j)]
                        /\ j # k => payments'[Main(j)] = payments[Main(j)]
    BY <1>1, RowNames
  <1>4. payments[Main(k)].status = "NONE" /\ payments[Leg(k)].status = "NONE"
    BY DEF Unused, RowsCoverTheDue
  <1>5. /\ compensated' = compensated
        /\ dueStatus' = [dueStatus EXCEPT ![d] = "PAID"]
        /\ plans' = AdvancedPlans(d)
    BY DEF SettleFromWallet
  <1>6. /\ dueStatus'[d] = "PAID"
        /\ \A e \in Dues \ {d} : dueStatus'[e] = dueStatus[e]
        /\ \A e \in PlanDues \ {d} : plans'[e] = plans[e]
    BY <1>5 DEF TypeOK, AdvancedPlans
  <1>7. dueStatus[d] # "PAID"
    BY DEF Payable, IsDuePayable, Unsettled
  <1>8. OneOpenAttempt'
    BY <1>1, <1>2 DEF OneOpenAttempt
  <1>9. PaidDueHasNoOpenAttempt'
    <2> SUFFICES ASSUME NEW p \in PaymentIds, payments'[p].status = "PENDING"
                 PROVE  dueStatus'[payments'[p].due] # "PAID"
      BY DEF PaidDueHasNoOpenAttempt
    <2>1. p # Main(k) /\ payments'[p] = payments[p]
      BY <1>1, <1>2
    <2>2. payments[p].due \in Dues \ {d}
      BY <2>1, NoOpenAttempt, OpenRowsAreMain DEF RowsCoverTheDue
    <2> QED
      BY <2>1, <2>2, <1>6 DEF PaidDueHasNoOpenAttempt
  <1>10. RowsCoverTheDue'
    BY <1>2, <1>3, <1>4 DEF RowsCoverTheDue
  <1>11. SplitLegHeldInEscrow' /\ CompensatedLegsExist'
    BY <1>3, <1>4, <1>5 DEF SplitLegHeldInEscrow, CompensatedLegsExist, Live
  <1>12. CancelledHasNoOrder'
    BY <1>2, <1>3 DEF CancelledHasNoOrder
  <1>13. \A j \in Keys \ {k}, e \in Dues : PaidUnder(j, e)' <=> PaidUnder(j, e)
    BY <1>3 DEF PaidUnder
  <1>14. /\ \A e \in Dues : PaidUnder(k, e)' <=> e = d
         /\ \A e \in Dues : ~PaidUnder(k, e)
    BY <1>2, <1>4 DEF PaidUnder
  <1>15. Retained(k)' = 0
    BY <1>3, <1>4 DEF Retained
  <1>16. FullyCollected(d)'
    BY <1>2, <1>14, <1>15, PaymentsAssumption DEF FullyCollected
  <1>17. \A e \in Dues : FullyCollected(e) => FullyCollected(e)'
    BY <1>3, <1>5, <1>13, <1>14 DEF FullyCollected, Retained
  <1>18. PaidDueIsCollected'
    BY <1>6, <1>16, <1>17 DEF PaidDueIsCollected, PlanDues
  <1>19. OrdinaryDueStaysPaid'
    BY <1>6, <1>13, <1>14 DEF OrdinaryDueStaysPaid
  <1>20. OrdinaryDuePaidOnce'
    BY <1>7, <1>13, <1>14 DEF OrdinaryDueStaysPaid, OrdinaryDuePaidOnce
  <1> QED
    BY <1>8, <1>9, <1>10, <1>11, <1>12, <1>18, <1>19, <1>20

(* A split: an open online row and, if the wallet held anything, the       *)
(* settled leg it took.                                                    *)
LEMMA TablesSplit ==
    ASSUME IInv, NEW k \in Keys, NEW d \in PlanDues,
           Unused(k), Payable(d), OpenAttempts(d) = {}, SplitWalletThenOnline(k, d)
    PROVE  Tables'
  <1> DEFINE taken == wallet[Owner[d]]
  <1> USE DEF IInv, Tables
  <1>1. /\ payments'[Main(k)] = Row("PENDING", "ONLINE", d, Amount[d] - taken, NoOrder)
        /\ taken > 0 => payments'[Leg(k)] = Row("SUCCEEDED", "WALLET", d, taken, NoOrder)
        /\ ~(taken > 0) => payments'[Leg(k)] = payments[Leg(k)]
        /\ \A p \in PaymentIds \ {Main(k), Leg(k)} : payments'[p] = payments[p]
    BY RowNames DEF SplitWalletThenOnline, OnlineRemainder, TypeOK
  <1>2. /\ payments'[Main(k)].status = "PENDING"
        /\ payments'[Main(k)].method = "ONLINE"
        /\ payments'[Main(k)].due = d
        /\ payments'[Main(k)].amount = Amount[d] - taken
        /\ payments'[Main(k)].order = NoOrder
    BY <1>1 DEF Row
  <1>3. \A j \in Keys \ {k} : /\ payments'[Leg(j)] = payments[Leg(j)]
                              /\ payments'[Main(j)] = payments[Main(j)]
    BY <1>1, RowNames
  <1>4. /\ payments[Main(k)].status = "NONE"
        /\ payments[Leg(k)].status = "NONE"
        /\ Leg(k) \notin compensated
    BY DEF Unused, RowsCoverTheDue, CompensatedLegsExist
  <1>5. /\ taken \in Nat /\ Amount[d] \in Nat /\ taken < Amount[d]
        /\ d \in Dues /\ Purpose[d] = "PLAN_REGISTRATION"
    BY PaymentsAssumption DEF SplitWalletThenOnline, PlanDues, TypeOK
  <1>6. UNCHANGED <<dueStatus, compensated, plans>>
    BY DEF SplitWalletThenOnline
  <1>7. /\ taken > 0 => /\ payments'[Leg(k)].status = "SUCCEEDED"
                        /\ payments'[Leg(k)].due = d
                        /\ payments'[Leg(k)].amount = taken
        /\ taken = 0 => payments'[Leg(k)].status = "NONE"
    BY <1>1, <1>4, <1>5 DEF Row
  <1>8. /\ payments'[Leg(k)].status # "PENDING"
        /\ dueStatus[d] # "PAID"
    BY <1>5, <1>7 DEF Payable, IsDuePayable
  <1>9. OneOpenAttempt'
    BY <1>1, <1>2, <1>8, NoOpenAttempt DEF OneOpenAttempt
  <1>10. PaidDueHasNoOpenAttempt'
    BY <1>1, <1>2, <1>6, <1>8 DEF PaidDueHasNoOpenAttempt
  <1>11. RowsCoverTheDue'
    <2> SUFFICES ASSUME NEW j \in Keys
                 PROVE  LET main == payments'[Main(j)]
                            leg == payments'[Leg(j)]
                        IN  /\ leg.status \in {"NONE", "SUCCEEDED"}
                            /\ main.status = "NONE" => main.due = NoDue /\ leg.status = "NONE"
                            /\ main.status # "NONE" =>
                                   /\ main.due \in Dues
                                   /\ leg.status = "NONE" => main.amount = Amount[main.due]
                            /\ leg.status # "NONE" =>
                                   /\ main.method = "ONLINE"
                                   /\ main.due \in PlanDues
                                   /\ leg.amount > 0
                                   /\ main.amount + leg.amount = Amount[main.due]
      BY DEF RowsCoverTheDue
    <2>1. CASE j = k
      BY <2>1, <1>2, <1>5, <1>7
    <2>2. CASE j # k
      BY <2>2, <1>3 DEF RowsCoverTheDue
    <2> QED
      BY <2>1, <2>2
  <1>12. SplitLegHeldInEscrow' /\ CompensatedLegsExist'
    <2>1. CompensatedLegsExist'
      BY <1>3, <1>4, <1>6 DEF CompensatedLegsExist
    <2>2. SplitLegHeldInEscrow'
      <3> SUFFICES ASSUME NEW j \in Keys, payments'[Leg(j)].status # "NONE"
                   PROVE  /\ payments'[Main(j)].status # "NONE"
                          /\ payments'[Main(j)].due = payments'[Leg(j)].due
                          /\ Leg(j) \in compensated <=> payments'[Main(j)].status \notin Live
        BY <1>6 DEF SplitLegHeldInEscrow, Live
      <3>1. CASE j = k
        BY <3>1, <1>2, <1>4, <1>5, <1>7 DEF Live
      <3>2. CASE j # k
        BY <3>2, <1>3 DEF SplitLegHeldInEscrow, Live
      <3> QED
        BY <3>1, <3>2
    <2> QED
      BY <2>1, <2>2
  <1>13. CancelledHasNoOrder'
    BY <1>2, <1>3 DEF CancelledHasNoOrder
  <1>14. \A j \in Keys, e \in Dues : PaidUnder(j, e)' <=> PaidUnder(j, e)
    BY <1>2, <1>3, <1>4 DEF PaidUnder
  <1>15. \A e \in Dues : FullyCollected(e) => FullyCollected(e)'
    BY <1>3, <1>4, <1>6, <1>14 DEF FullyCollected, Retained, PaidUnder
  <1>16. PaidDueIsCollected'
    BY <1>6, <1>15 DEF PaidDueIsCollected, PlanDues
  <1>17. OrdinaryDueStaysPaid' /\ OrdinaryDuePaidOnce'
    BY <1>6, <1>14 DEF OrdinaryDueStaysPaid, OrdinaryDuePaidOnce
  <1> QED
    BY <1>9, <1>10, <1>11, <1>12, <1>13, <1>16, <1>17

(* A failure or a cancellation: the open row closes, and its leg, if it    *)
(* has one, is compensated in the same step.                               *)
LEMMA TablesClose ==
    ASSUME IInv, NEW k \in Keys, NEW outcome \in {"FAILED", "CANCELLED"},
           payments[Main(k)].status = "PENDING",
           outcome = "CANCELLED" => payments[Main(k)].order = NoOrder,
           CloseAndCompensate(k, outcome)
    PROVE  Tables'
  <1> USE DEF IInv, Tables
  <1>1. /\ payments[Main(k)] \in Rows
        /\ outcome \in PaymentStatuses
    BY RowNames DEF TypeOK, PaymentStatuses
  <1>2. /\ payments'[Main(k)] = [payments[Main(k)] EXCEPT !.status = outcome]
        /\ \A p \in PaymentIds \ {Main(k)} : payments'[p] = payments[p]
    BY RowNames DEF CloseAndCompensate, TypeOK
  <1>3. /\ payments'[Main(k)].status = outcome
        /\ payments'[Main(k)].method = payments[Main(k)].method
        /\ payments'[Main(k)].due = payments[Main(k)].due
        /\ payments'[Main(k)].amount = payments[Main(k)].amount
        /\ payments'[Main(k)].order = payments[Main(k)].order
    BY <1>1, <1>2 DEF Rows
  <1>4. \A j \in Keys : /\ payments'[Leg(j)] = payments[Leg(j)]
                        /\ j # k => payments'[Main(j)] = payments[Main(j)]
    BY <1>2, RowNames
  <1>5. UNCHANGED <<dueStatus, plans>>
    BY DEF CloseAndCompensate
  <1>6. payments[Leg(k)].status # "NONE" => OwedToWallet(k) > 0
    BY DEF OwedToWallet, RowsCoverTheDue, SplitLegHeldInEscrow, Live
  <1>7. payments[Leg(k)].status = "NONE" => OwedToWallet(k) = 0
    BY DEF OwedToWallet
  <1>8. \A j \in Keys : Leg(j) \in compensated' <=>
            \/ Leg(j) \in compensated
            \/ j = k /\ payments[Leg(k)].status # "NONE"
    BY <1>6, <1>7, RowNames DEF CloseAndCompensate
  <1>9. OneOpenAttempt'
    <2>1. \A p \in PaymentIds : payments'[p].status = "PENDING" => payments'[p] = payments[p]
      BY <1>2, <1>3
    <2> QED
      BY <2>1 DEF OneOpenAttempt
  <1>10. PaidDueHasNoOpenAttempt'
    BY <1>2, <1>3, <1>5 DEF PaidDueHasNoOpenAttempt
  <1>11. RowsCoverTheDue'
    BY <1>3, <1>4 DEF RowsCoverTheDue
  <1>12. SplitLegHeldInEscrow' /\ CompensatedLegsExist'
    BY <1>3, <1>4, <1>8 DEF SplitLegHeldInEscrow, CompensatedLegsExist, Live
  <1>13. CancelledHasNoOrder'
    BY <1>3, <1>4 DEF CancelledHasNoOrder
  <1>14. \A j \in Keys, e \in Dues : PaidUnder(j, e)' <=> PaidUnder(j, e)
    BY <1>3, <1>4 DEF PaidUnder
  <1>15. \A j \in Keys \ {k} : Retained(j)' = Retained(j)
    BY <1>4, <1>8 DEF Retained
  <1>16. \A e \in Dues : FullyCollected(e) => FullyCollected(e)'
    BY <1>3, <1>4, <1>14, <1>15 DEF FullyCollected, PaidUnder
  <1>17. PaidDueIsCollected'
    BY <1>5, <1>16 DEF PaidDueIsCollected, PlanDues
  <1>18. OrdinaryDueStaysPaid' /\ OrdinaryDuePaidOnce'
    BY <1>5, <1>14 DEF OrdinaryDueStaysPaid, OrdinaryDuePaidOnce
  <1> QED
    BY <1>9, <1>10, <1>11, <1>12, <1>13, <1>17, <1>18

(* A webhook settlement: the open row closes as SUCCEEDED with its due.    *)
LEMMA TablesSettle ==
    ASSUME IInv, NEW k \in Keys, NEW settledAt, SettlePayment(k, settledAt)
    PROVE  Tables'
  <1> USE DEF IInv, Tables
  <1>0. PICK d \in Dues : d = payments[Main(k)].due
    BY DEF SettlePayment, RowsCoverTheDue
  <1>1. /\ payments[Main(k)].status = "PENDING"
        /\ payments[Main(k)] \in Rows
        /\ payments[Main(k)].due = d
    BY <1>0, RowNames DEF SettlePayment, TypeOK
  <1>2. /\ payments'[Main(k)] = [payments[Main(k)] EXCEPT !.status = "SUCCEEDED"]
        /\ \A p \in PaymentIds \ {Main(k)} : payments'[p] = payments[p]
    BY RowNames DEF SettlePayment, TypeOK
  <1>3. /\ payments'[Main(k)].status = "SUCCEEDED"
        /\ payments'[Main(k)].method = payments[Main(k)].method
        /\ payments'[Main(k)].due = d
        /\ payments'[Main(k)].amount = payments[Main(k)].amount
    BY <1>1, <1>2 DEF Rows
  <1>4. \A j \in Keys : /\ payments'[Leg(j)] = payments[Leg(j)]
                        /\ j # k => payments'[Main(j)] = payments[Main(j)]
    BY <1>2, RowNames
  <1>5. /\ compensated' = compensated
        /\ dueStatus' = [dueStatus EXCEPT ![d] = "PAID"]
        /\ plans' = AdvancedPlans(d)
        /\ dueStatus[d] # "PAID"
    BY <1>1 DEF SettlePayment, SettlementAllowed, Unsettled
  <1>6. /\ dueStatus'[d] = "PAID"
        /\ \A e \in Dues \ {d} : dueStatus'[e] = dueStatus[e]
        /\ \A e \in PlanDues \ {d} : plans'[e] = plans[e]
    BY <1>1, <1>5 DEF TypeOK, AdvancedPlans
  <1>7. OneOpenAttempt'
    <2>1. \A p \in PaymentIds : payments'[p].status = "PENDING" => payments'[p] = payments[p]
      BY <1>2, <1>3
    <2> QED
      BY <2>1 DEF OneOpenAttempt
  <1>8. PaidDueHasNoOpenAttempt'
    <2> SUFFICES ASSUME NEW p \in PaymentIds, payments'[p].status = "PENDING"
                 PROVE  dueStatus'[payments'[p].due] # "PAID"
      BY DEF PaidDueHasNoOpenAttempt
    <2>1. p # Main(k) /\ payments'[p] = payments[p]
      BY <1>2, <1>3
    <2>2. payments[p].due # d
      BY <2>1, <1>1, RowNames DEF OneOpenAttempt
    <2>3. payments[p].due \in Dues
      BY <2>1, OpenRowsAreMain DEF RowsCoverTheDue
    <2> QED
      BY <2>1, <2>2, <2>3, <1>6 DEF PaidDueHasNoOpenAttempt
  <1>9. RowsCoverTheDue'
    BY <1>1, <1>3, <1>4 DEF RowsCoverTheDue
  <1>10. SplitLegHeldInEscrow' /\ CompensatedLegsExist'
    BY <1>1, <1>3, <1>4, <1>5 DEF SplitLegHeldInEscrow, CompensatedLegsExist, Live
  <1>11. CancelledHasNoOrder'
    BY <1>3, <1>4 DEF CancelledHasNoOrder
  <1>12. \A j \in Keys \ {k}, e \in Dues : PaidUnder(j, e)' <=> PaidUnder(j, e)
    BY <1>4 DEF PaidUnder
  <1>13. /\ \A e \in Dues : PaidUnder(k, e)' <=> e = d
         /\ \A e \in Dues : ~PaidUnder(k, e)
    BY <1>1, <1>3 DEF PaidUnder
  <1>14. payments'[Main(k)].amount + Retained(k)' = Amount[d]
    <2>1. Leg(k) \in compensated => payments[Leg(k)].status = "NONE"
      BY <1>1 DEF SplitLegHeldInEscrow, Live
    <2>2. payments[Main(k)].amount \in Nat /\ Amount[d] \in Nat
      BY <1>1, PaymentsAssumption DEF Rows
    <2> QED
      BY <1>1, <1>3, <1>4, <1>5, <2>1, <2>2 DEF Retained, RowsCoverTheDue
  <1>15. FullyCollected(d)'
    BY <1>3, <1>13, <1>14, <1>1 DEF FullyCollected
  <1>16. \A e \in Dues : FullyCollected(e) => FullyCollected(e)'
    BY <1>4, <1>5, <1>12, <1>13 DEF FullyCollected, Retained
  <1>17. PaidDueIsCollected'
    BY <1>6, <1>15, <1>16 DEF PaidDueIsCollected, PlanDues
  <1>18. OrdinaryDueStaysPaid'
    BY <1>6, <1>12, <1>13 DEF OrdinaryDueStaysPaid
  <1>19. OrdinaryDuePaidOnce'
    BY <1>5, <1>12, <1>13 DEF OrdinaryDueStaysPaid, OrdinaryDuePaidOnce
  <1> QED
    BY <1>7, <1>8, <1>9, <1>10, <1>11, <1>17, <1>18, <1>19

(* Persisting a checkout order changes the order of an open row without    *)
(* one, or nothing.                                                        *)
LEMMA TablesPersistOrder ==
    ASSUME IInv, NEW k \in Keys, NEW c \in Calls, PersistOrder(k, c)
    PROVE  Tables' /\ payments' \in [PaymentIds -> Rows]
  <1> USE DEF IInv, Tables
  <1>1. UNCHANGED <<dueStatus, compensated, plans>>
    BY DEF PersistOrder
  <1>2. CASE ~OrderAccepted(k)
    <2>1. payments' = payments
      BY <1>2 DEF PersistOrder
    <2> QED
      BY <2>1, <1>1, TablesFrame DEF TypeOK
  <1>3. CASE OrderAccepted(k)
    <2>1. payments[Main(k)] \in Rows /\ payments[Main(k)].status = "PENDING"
      BY <1>3, RowNames DEF TypeOK, OrderAccepted
    <2>2. /\ payments'[Main(k)] = [payments[Main(k)] EXCEPT !.order = c]
          /\ \A p \in PaymentIds \ {Main(k)} : payments'[p] = payments[p]
          /\ payments' = [payments EXCEPT ![Main(k)] = [@ EXCEPT !.order = c]]
      BY <1>3, RowNames DEF PersistOrder, TypeOK
    <2>3. [payments[Main(k)] EXCEPT !.order = c] \in Rows
      BY <2>1 DEF Rows
    <2>4. payments' \in [PaymentIds -> Rows]
      BY <2>2, <2>3, RowNames, TypedUpdate DEF TypeOK
    <2>5. /\ payments'[Main(k)].status = "PENDING"
          /\ payments'[Main(k)].method = payments[Main(k)].method
          /\ payments'[Main(k)].due = payments[Main(k)].due
          /\ payments'[Main(k)].amount = payments[Main(k)].amount
      BY <2>1, <2>2 DEF Rows
    <2>6. \A j \in Keys : /\ payments'[Leg(j)] = payments[Leg(j)]
                          /\ j # k => payments'[Main(j)] = payments[Main(j)]
      BY <2>2, RowNames
    <2>7. \A p \in PaymentIds : /\ payments'[p].status = payments[p].status
                                /\ payments'[p].due = payments[p].due
      BY <2>1, <2>2, <2>5
    <2>8. OneOpenAttempt' /\ PaidDueHasNoOpenAttempt'
      BY <1>1, <2>7 DEF OneOpenAttempt, PaidDueHasNoOpenAttempt
    <2>9. RowsCoverTheDue'
      BY <2>1, <2>5, <2>6 DEF RowsCoverTheDue
    <2>10. SplitLegHeldInEscrow' /\ CompensatedLegsExist'
      BY <1>1, <2>1, <2>5, <2>6 DEF SplitLegHeldInEscrow, CompensatedLegsExist, Live
    <2>11. CancelledHasNoOrder'
      BY <2>5, <2>6 DEF CancelledHasNoOrder
    <2>12. \A j \in Keys, e \in Dues : PaidUnder(j, e)' <=> PaidUnder(j, e)
      BY <2>1, <2>5, <2>6 DEF PaidUnder
    <2>13. \A e \in Dues : FullyCollected(e) => FullyCollected(e)'
      BY <1>1, <2>1, <2>5, <2>6, <2>12 DEF FullyCollected, Retained
    <2>14. PaidDueIsCollected'
      BY <1>1, <2>13 DEF PaidDueIsCollected, PlanDues
    <2>15. OrdinaryDueStaysPaid' /\ OrdinaryDuePaidOnce'
      BY <1>1, <2>12 DEF OrdinaryDueStaysPaid, OrdinaryDuePaidOnce
    <2> QED
      BY <2>4, <2>8, <2>9, <2>10, <2>11, <2>14, <2>15
  <1> QED
    BY <1>2, <1>3

-----------------------------------------------------------------------------
(***************************************************************************)
(* Every step preserves the invariant: one lemma per kind of actor, one    *)
(* step per action.                                                        *)
(***************************************************************************)
(* Requests of members, and the two halves of a checkout call, preserve it. *)
LEMMA MemberStep ==
    ASSUME IInv, MemberNext
    PROVE  IInv'
  <1> USE DEF IInv
  <1>1. ASSUME NEW k \in Keys, NEW d \in Dues, CreatePaymentCommand(k, d)
        PROVE  IInv'
    <2>1. payments' \in [PaymentIds -> Rows] /\ Tables'
      BY <1>1, TablesNewPayment DEF CreatePaymentCommand, Methods
    <2>2. TypeOK'
      BY <1>1, <2>1 DEF TypeOK, CreatePaymentCommand, outside
    <2> QED
      BY <2>1, <2>2
  <1>2. ASSUME NEW k \in Keys, NEW d \in Dues, PayDueFromWallet(k, d)
        PROVE  IInv'
    BY <1>2, TypeSettleFromWallet, TablesSettleFromWallet DEF PayDueFromWallet
  <1>3. ASSUME NEW k \in Keys, NEW d \in Dues, StartPlanWalletFirstSplitPayment(k, d)
        PROVE  IInv'
    <2>1. CASE SettleFromWallet(k, d)
      BY <1>3, <2>1, TypeSettleFromWallet, TablesSettleFromWallet
         DEF StartPlanWalletFirstSplitPayment
    <2>2. CASE SplitWalletThenOnline(k, d)
      <3>1. TypeOK'
        BY <2>2, TypeSplit
      <3> QED
        BY <1>3, <2>2, <3>1, TablesSplit DEF StartPlanWalletFirstSplitPayment
    <2> QED
      BY <1>3, <2>1, <2>2 DEF StartPlanWalletFirstSplitPayment
  <1>4. ASSUME NEW k \in Keys, CancelPendingPayment(k)
        PROVE  IInv'
    <2>1. payments[Main(k)].due \in Dues
      BY <1>4 DEF CancelPendingPayment, Tables, RowsCoverTheDue
    <2> QED
      BY <1>4, <2>1, TypeCloseAndCompensate, TablesClose
         DEF CancelPendingPayment, PaymentStatuses
  <1>5. ASSUME NEW k \in Keys, NEW c \in Calls, OpenCheckout(k, c)
        PROVE  IInv'
    <2>1. TypeOK'
      BY <1>5 DEF TypeOK, OpenCheckout
    <2> QED
      BY <1>5, <2>1, TablesFrame DEF OpenCheckout
  <1>6. ASSUME NEW k \in Keys, NEW c \in Calls, PersistOrder(k, c)
        PROVE  IInv'
    <2>1. payments' \in [PaymentIds -> Rows] /\ Tables'
      BY <1>6, TablesPersistOrder
    <2>2. TypeOK'
      BY <1>6, <2>1 DEF TypeOK, PersistOrder
    <2> QED
      BY <2>1, <2>2
  <1> QED
    BY <1>1, <1>2, <1>3, <1>4, <1>5, <1>6 DEF MemberNext

(* Captures, failed attempts and webhooks preserve the invariant. *)
LEMMA ProviderStep ==
    ASSUME IInv, ProviderNext
    PROVE  IInv'
  <1> USE DEF IInv
  <1>1. ASSUME NEW k \in Keys, ProviderCaptures(k)
        PROVE  IInv'
    <2>1. captured' \in [Keys -> 0 .. MaxTime]
      BY <1>1, PaymentsAssumption DEF TypeOK, ProviderCaptures
    <2>2. TypeOK'
      BY <1>1, <2>1 DEF TypeOK, ProviderCaptures
    <2> QED
      BY <1>1, <2>2, TablesFrame DEF ProviderCaptures
  <1>2. ASSUME NEW k \in Keys, ProviderAttemptFails(k)
        PROVE  IInv'
    <2>1. TypeOK'
      BY <1>2 DEF TypeOK, ProviderAttemptFails
    <2> QED
      BY <1>2, <2>1, TablesFrame DEF ProviderAttemptFails
  <1>3. ASSUME NEW k \in Keys, DeliverCapture(k)
        PROVE  IInv'
    BY <1>3, TypeSettle, TablesSettle DEF DeliverCapture, Tables
  <1>4. ASSUME NEW k \in Keys, DeliverFailure(k)
        PROVE  IInv'
    <2>1. payments[Main(k)].status = "PENDING" /\ payments[Main(k)].due \in Dues
      BY <1>4 DEF DeliverFailure, FailPayment, Tables, RowsCoverTheDue
    <2> QED
      BY <1>4, <2>1, TypeCloseAndCompensate, TablesClose
         DEF DeliverFailure, FailPayment, PaymentStatuses
  <1> QED
    BY <1>1, <1>2, <1>3, <1>4 DEF ProviderNext

(* A wallet credit and an extension preserve the invariant. *)
LEMMA AdminStep ==
    ASSUME IInv, AdminNext
    PROVE  IInv'
  <1> USE DEF IInv
  <1>1. ASSUME NEW m \in Members, NEW amount \in CreditAmounts,
               ApplyFoundationWalletCredit(m, amount)
        PROVE  IInv'
    <2>1. amount \in Nat
      BY PaymentsAssumption
    <2>2. wallet' \in [Members -> Nat] /\ granted' \in [Members -> 0 .. MaxCredit]
      BY <1>1, <2>1, PaymentsAssumption DEF TypeOK, ApplyFoundationWalletCredit
    <2>3. ledger' \in [credit : Nat, debit : Nat]
      BY <1>1, <2>1, TypedCredit DEF TypeOK, ApplyFoundationWalletCredit
    <2>4. TypeOK'
      BY <1>1, <2>2, <2>3 DEF TypeOK, ApplyFoundationWalletCredit, outside
    <2> QED
      BY <1>1, <2>4, TablesFrame DEF ApplyFoundationWalletCredit
  <1>2. ASSUME NEW d \in Dues, NEW t \in 1 .. MaxTime, ExtendPlanDue(d, t)
        PROVE  IInv'
    <2>1. TypeOK'
      BY <1>2 DEF TypeOK, ExtendPlanDue, DueStatuses, outside
    <2> QED
      BY <1>2, <2>1, TablesDueStatus DEF ExtendPlanDue, TypeOK
  <1> QED
    BY <1>1, <1>2 DEF AdminNext

(* The reads and the late writes of the two jobs preserve the invariant. *)
LEMMA JobsStep ==
    ASSUME IInv, JobsNext
    PROVE  IInv'
  <1> USE DEF IInv
  <1>1. CASE ReadPlanReminders
    <2>1. TypeOK'
      BY <1>1 DEF TypeOK, ReadPlanReminders, Expired
    <2> QED
      BY <1>1, <2>1, TablesFrame DEF ReadPlanReminders
  <1>2. CASE WritePlanReminders
    <2>1. TypeOK'
      BY <1>2 DEF TypeOK, WritePlanReminders, DueStatuses
    <2> QED
      BY <1>2, <2>1, TablesDueStatus DEF WritePlanReminders, TypeOK
  <1>3. CASE ReadMembershipDues
    <2>1. TypeOK'
      BY <1>3 DEF TypeOK, ReadMembershipDues, Expired
    <2> QED
      BY <1>3, <2>1, TablesFrame DEF ReadMembershipDues
  <1>4. CASE WriteMembershipDues
    <2>1. TypeOK'
      BY <1>4 DEF TypeOK, WriteMembershipDues, DueStatuses
    <2> QED
      BY <1>4, <2>1, TablesDueStatus DEF WriteMembershipDues, Expirable
  <1> QED
    BY <1>1, <1>2, <1>3, <1>4 DEF JobsNext

(* Every step of the system preserves the invariant. *)
LEMMA Inductive == IInv /\ [Next]_vars => IInv'
  <1> SUFFICES ASSUME IInv, [Next]_vars PROVE IInv'
    OBVIOUS
  <1>1. CASE Tick
    <2>1. now' \in 1 .. MaxTime
      BY <1>1, PaymentsAssumption DEF IInv, TypeOK, Tick
    <2>2. TypeOK'
      BY <1>1, <2>1 DEF IInv, TypeOK, Tick, outside
    <2> QED
      BY <1>1, <2>2, TablesFrame DEF IInv, Tick
  <1>2. CASE UNCHANGED vars
    <2>1. TypeOK'
      BY <1>2 DEF IInv, TypeOK, vars
    <2> QED
      BY <1>2, <2>1, TablesFrame DEF IInv, vars
  <1> QED
    BY <1>1, <1>2, MemberStep, ProviderStep, AdminStep, JobsStep DEF Next

(* Every step keeps the rows that exist.  A row is written when its key is *)
(* unused, or while it is open, or to receive its first order.             *)
LEMMA HistoryStep ==
    ASSUME IInv, Next
    PROVE  \A p \in PaymentIds :
               payments[p].status # "NONE" => RowKept(payments[p], payments'[p])
  <1> DEFINE Kept == \A p \in PaymentIds :
                 payments[p].status # "NONE" => RowKept(payments[p], payments'[p])
  <1> USE DEF IInv
  <1>1. payments' = payments => Kept
    BY DEF RowKept
  <1>2. ASSUME NEW k \in Keys, NEW r, payments[Main(k)].status = "NONE",
               payments' = [payments EXCEPT ![Main(k)] = r]
        PROVE  Kept
    <2>1. \A p \in PaymentIds \ {Main(k)} : payments'[p] = payments[p]
      BY <1>2, RowNames DEF TypeOK
    <2> QED
      BY <1>2, <2>1 DEF RowKept
  <1>3. ASSUME NEW k \in Keys, NEW s \in PaymentStatuses,
               payments[Main(k)].status = "PENDING",
               payments' = [payments EXCEPT ![Main(k)].status = s]
        PROVE  Kept
    <2>1. /\ payments[Main(k)] \in Rows
          /\ payments'[Main(k)] = [payments[Main(k)] EXCEPT !.status = s]
          /\ \A p \in PaymentIds \ {Main(k)} : payments'[p] = payments[p]
      BY <1>3, RowNames DEF TypeOK
    <2>2. RowKept(payments[Main(k)], payments'[Main(k)])
      BY <1>3, <2>1 DEF RowKept, Rows
    <2> QED
      BY <2>1, <2>2 DEF RowKept
  <1>4. ASSUME NEW k \in Keys, NEW c \in Calls, PersistOrder(k, c)
        PROVE  Kept
    <2>1. CASE ~OrderAccepted(k)
      BY <1>1, <1>4, <2>1 DEF PersistOrder
    <2>2. CASE OrderAccepted(k)
      <3>1. /\ payments[Main(k)] \in Rows
            /\ payments'[Main(k)] = [payments[Main(k)] EXCEPT !.order = c]
            /\ \A p \in PaymentIds \ {Main(k)} : payments'[p] = payments[p]
        BY <1>4, <2>2, RowNames DEF TypeOK, PersistOrder
      <3>2. RowKept(payments[Main(k)], payments'[Main(k)])
        BY <2>2, <3>1 DEF RowKept, Rows, OrderAccepted
      <3> QED
        BY <3>1, <3>2 DEF RowKept
    <2> QED
      BY <2>1, <2>2
  <1>5. ASSUME NEW k \in Keys, NEW d \in Dues, Unused(k), SettleFromWallet(k, d)
        PROVE  Kept
    BY <1>2, <1>5 DEF Unused, SettleFromWallet
  <1>6. ASSUME NEW k \in Keys, NEW d \in Dues, Unused(k), SplitWalletThenOnline(k, d)
        PROVE  Kept
    <2>1. payments[Main(k)].status = "NONE" /\ payments[Leg(k)].status = "NONE"
      BY <1>6 DEF Unused, Tables, RowsCoverTheDue
    <2>2. \A p \in PaymentIds \ {Main(k), Leg(k)} : payments'[p] = payments[p]
      BY <1>6, RowNames DEF TypeOK, SplitWalletThenOnline
    <2> QED
      BY <2>1, <2>2 DEF RowKept
  <1>7. MemberNext => Kept
    BY <1>1, <1>2, <1>3, <1>4, <1>5, <1>6
       DEF MemberNext, CreatePaymentCommand, PayDueFromWallet, Unused,
           StartPlanWalletFirstSplitPayment, CancelPendingPayment, CloseAndCompensate,
           OpenCheckout, PaymentStatuses
  <1>8. ProviderNext => Kept
    BY <1>1, <1>3
       DEF ProviderNext, ProviderCaptures, ProviderAttemptFails, DeliverCapture,
           DeliverFailure, SettlePayment, FailPayment, CloseAndCompensate, PaymentStatuses
  <1>9. AdminNext \/ JobsNext \/ Tick => Kept
    BY <1>1
       DEF AdminNext, ApplyFoundationWalletCredit, ExtendPlanDue, JobsNext,
           ReadPlanReminders, WritePlanReminders, ReadMembershipDues,
           WriteMembershipDues, Tick
  <1> QED
    BY <1>7, <1>8, <1>9 DEF Next

-----------------------------------------------------------------------------
(***************************************************************************)
(* The theorems.                                                           *)
(***************************************************************************)

(* The inductive invariant holds in every reachable state. *)
THEOREM Invariance == Spec => []IInv
  <1>1. Init => IInv
    BY TypeInit, TablesInit DEF IInv
  <1> QED
    BY <1>1, Inductive, PTL DEF Spec

(* Every table stays typed; in particular no wallet balance is negative. *)
THEOREM TypeCorrect == Spec => []TypeOK
  <1>1. IInv => TypeOK
    BY DEF IInv
  <1> QED
    BY <1>1, Invariance, PTL

(* A due never has two unsettled attempts. *)
THEOREM SingleAttempt == Spec => []OneOpenAttempt
  <1>1. IInv => OneOpenAttempt
    BY DEF IInv, Tables
  <1> QED
    BY <1>1, Invariance, PTL

(* Nothing is left open on a due that is PAID. *)
THEOREM PaidDueIsClosed == Spec => []PaidDueHasNoOpenAttempt
  <1>1. IInv => PaidDueHasNoOpenAttempt
    BY DEF IInv, Tables
  <1> QED
    BY <1>1, Invariance, PTL

(* A wallet leg is given back exactly when its online leg cannot succeed. *)
THEOREM EscrowIsSound == Spec => []SplitLegHeldInEscrow
  <1>1. IInv => SplitLegHeldInEscrow
    BY DEF IInv, Tables
  <1> QED
    BY <1>1, Invariance, PTL

(* A PAID due, and a plan that left PAYMENT_PENDING, were paid in full. *)
THEOREM CollectedInFull == Spec => []PaidDueIsCollected
  <1>1. IInv => PaidDueIsCollected
    BY DEF IInv, Tables
  <1> QED
    BY <1>1, Invariance, PTL

(* A membership or contribution due is never charged twice. *)
THEOREM OrdinaryDuesAreChargedOnce == Spec => []OrdinaryDuePaidOnce
  <1>1. IInv => OrdinaryDuePaidOnce
    BY DEF IInv, Tables
  <1> QED
    BY <1>1, Invariance, PTL

(* No provider order ever belongs to a cancelled payment. *)
THEOREM CancellationIsSafe == Spec => []CancelledHasNoOrder
  <1>1. IInv => CancelledHasNoOrder
    BY DEF IInv, Tables
  <1> QED
    BY <1>1, Invariance, PTL

(* The payment table is append-only history: identities, outcomes and      *)
(* persisted orders never change.                                          *)
THEOREM HistoryIsAppendOnly == Spec => PaymentHistory
  <1>1. IInv /\ [Next]_vars =>
            [\A p \in PaymentIds :
                 payments[p].status # "NONE" => RowKept(payments[p], payments'[p])]_payments
    BY HistoryStep DEF vars
  <1> QED
    BY <1>1, Invariance, PTL DEF Spec, PaymentHistory

-----------------------------------------------------------------------------
(***************************************************************************)
(* The books.  What each balance owes to the payment table is a gap that   *)
(* no step of the money core opens: the rows that are settled never        *)
(* change, so that a sum over them changes only by what a step adds.       *)
(***************************************************************************)
(* What a wallet, the debits and the credits differ by from the payments.  *)
WalletGap(m) ==
    wallet[m] - granted[m] + Total(SettledFrom(m)) - Total(SettledFrom(m) \cap compensated)

DebitGap == ledger.debit - Total(compensated)

CreditGap == ledger.credit - SumFunctionOnSet(granted, Members) - Total(Succeeded)

(* What the books rest on: only finitely many payments are settled, they   *)
(* are the receipted ones, a payment that is still open did not take from  *)
(* the wallet, and a wallet leg did.                                       *)
MethodsFit ==
    \A k \in Keys :
        /\ payments[Main(k)].status = "PENDING" => payments[Main(k)].method # "WALLET"
        /\ payments[Leg(k)].status # "NONE" => payments[Leg(k)].method = "WALLET"

Founded ==
    /\ IsFiniteSet(Succeeded)
    /\ receipts = Succeeded
    /\ MethodsFit

BooksBase == IInv /\ Founded

(* A row that is settled is not touched, and no other becomes settled.     *)
Stands(p) ==
    IF payments[p].status = "SUCCEEDED" THEN payments'[p] = payments[p]
    ELSE payments'[p].status # "SUCCEEDED"

(* A step that keeps the books. *)
BooksKept ==
    /\ \A m \in Members : WalletGap(m)' = WalletGap(m)
    /\ DebitGap' = DebitGap
    /\ CreditGap' = CreditGap
    /\ \A p \in Succeeded : payments'[p] = payments[p]
    /\ IsFiniteSet(Succeeded')
    /\ receipts' = Succeeded'

(* Every set of settled payments has a total, and the sets that occur in   *)
(* the books are sets of settled payments.                                 *)
LEMMA TypedBooks ==
    ASSUME BooksBase
    PROVE  /\ compensated \subseteq Succeeded
           /\ Succeeded \subseteq PaymentIds
           /\ \A p \in PaymentIds : AmountOf[p] = payments[p].amount /\ AmountOf[p] \in Nat
           /\ \A m \in Members : SettledFrom(m) \subseteq Succeeded
           /\ \A T \in SUBSET Succeeded : IsFiniteSet(T) /\ Total(T) \in Nat
           /\ SumFunctionOnSet(granted, Members) \in Nat
           /\ \A m \in Members : wallet[m] \in Nat /\ granted[m] \in Nat
           /\ ledger.credit \in Nat /\ ledger.debit \in Nat
  <1>1. compensated \subseteq Succeeded
    BY RowNames DEF BooksBase, IInv, Tables, TypeOK, CompensatedLegsExist, RowsCoverTheDue,
                    Succeeded
  <1>2. /\ Succeeded \subseteq PaymentIds
        /\ \A m \in Members : SettledFrom(m) \subseteq Succeeded
    BY DEF Succeeded, SettledFrom
  <1>3. \A p \in PaymentIds : AmountOf[p] = payments[p].amount /\ AmountOf[p] \in Nat
    BY DEF AmountOf, BooksBase, IInv, TypeOK, Rows
  <1>4. ASSUME NEW T \in SUBSET Succeeded
        PROVE  IsFiniteSet(T) /\ Total(T) \in Nat
    <2>1. IsFiniteSet(T)
      BY FS_Subset DEF BooksBase, Founded
    <2>2. \A p \in T : AmountOf[p] \in Nat
      BY <1>2, <1>3
    <2> QED
      BY <2>1, <2>2, SumType DEF Total
  <1>5. \A m \in Members : wallet[m] \in Nat /\ granted[m] \in Nat
    BY PaymentsAssumption DEF BooksBase, IInv, TypeOK
  <1>6. SumFunctionOnSet(granted, Members) \in Nat
    BY <1>5, MembersAssumption, SumType
  <1>7. ledger.credit \in Nat /\ ledger.debit \in Nat
    BY DEF BooksBase, IInv, TypeOK
  <1> QED
    BY <1>1, <1>2, <1>3, <1>4, <1>5, <1>6, <1>7

(* While the settled rows stand, so do their totals. *)
LEMMA TotalsStand ==
    ASSUME BooksBase, \A p \in Succeeded : payments'[p] = payments[p]
    PROVE  \A T \in SUBSET Succeeded : SumFunctionOnSet(AmountOf', T) = Total(T)
  <1> SUFFICES ASSUME NEW T \in SUBSET Succeeded
               PROVE  SumFunctionOnSet(AmountOf', T) = Total(T)
    OBVIOUS
  <1>1. \A p \in T : AmountOf'[p] = AmountOf[p]
    BY DEF AmountOf, Succeeded
  <1>2. IsFiniteSet(T)
    BY TypedBooks
  <1> QED
    BY <1>1, <1>2, SumAgree DEF Total

(* Steps that settle nothing and move nothing. *)
LEMMA BooksIdle ==
    ASSUME BooksBase, \A p \in PaymentIds : Stands(p),
           UNCHANGED <<wallet, granted, compensated, receipts, ledger>>
    PROVE  BooksKept /\ Succeeded' = Succeeded
  <1>1. \A p \in Succeeded : payments'[p] = payments[p]
    BY DEF Stands, Succeeded
  <1>2. Succeeded' = Succeeded
    BY DEF Stands, Succeeded
  <1>3. \A m \in Members : SettledFrom(m)' = SettledFrom(m)
    BY DEF Stands, SettledFrom
  <1>4. \A m \in Members : WalletGap(m)' = WalletGap(m)
    <2> TAKE m \in Members
    <2>1. Total(SettledFrom(m))' = Total(SettledFrom(m))
      BY <1>1, <1>3, TotalsStand, TypedBooks DEF Total
    <2>2. SettledFrom(m) \cap compensated \in SUBSET Succeeded
      BY TypedBooks
    <2>3. Total(SettledFrom(m) \cap compensated)' = Total(SettledFrom(m) \cap compensated)
      BY <1>1, <1>3, <2>2, TotalsStand DEF Total
    <2> QED
      BY <2>1, <2>3 DEF WalletGap
  <1>5. DebitGap' = DebitGap
    BY <1>1, TotalsStand, TypedBooks DEF DebitGap, Total
  <1>6. CreditGap' = CreditGap
    BY <1>1, <1>2, TotalsStand, TypedBooks DEF CreditGap, Total
  <1> QED
    BY <1>1, <1>2, <1>4, <1>5, <1>6 DEF BooksKept, BooksBase, Founded

(* Steps that settle one payment: its amount enters the credits, and       *)
(* leaves the wallet of its member if that is how it was paid.             *)
LEMMA BooksSettled ==
    ASSUME BooksBase, NEW q \in PaymentIds,
           payments[q].status # "SUCCEEDED", payments'[q].status = "SUCCEEDED",
           payments'[q].amount \in Nat,
           \A p \in PaymentIds \ {q} : Stands(p),
           \A m \in Members : wallet'[m] = wallet[m] -
               (IF payments'[q].method = "WALLET" /\ Owner[payments'[q].due] = m
                THEN payments'[q].amount ELSE 0),
           receipts' = receipts \cup {q},
           ledger'.credit = ledger.credit + payments'[q].amount,
           ledger'.debit = ledger.debit,
           UNCHANGED <<granted, compensated>>
    PROVE  BooksKept
  <1> DEFINE amount == payments'[q].amount
             takes(m) == payments'[q].method = "WALLET" /\ Owner[payments'[q].due] = m
  <1>1. /\ \A p \in Succeeded : payments'[p] = payments[p]
        /\ Succeeded' = Succeeded \cup {q}
        /\ q \notin Succeeded
    BY DEF Stands, Succeeded
  <1>2. /\ AmountOf'[q] = amount
        /\ \A p \in Succeeded : AmountOf[p] \in Int /\ AmountOf'[p] = AmountOf[p]
    BY <1>1, TypedBooks DEF AmountOf, Succeeded
  <1>3. ASSUME NEW T \in SUBSET Succeeded
        PROVE  /\ IsFiniteSet(T \cup {q})
               /\ SumFunctionOnSet(AmountOf', T \cup {q}) = Total(T) + amount
    <2>1. IsFiniteSet(T) /\ q \notin T
      BY <1>1, TypedBooks
    <2>2. \A p \in T : AmountOf[p] \in Int /\ AmountOf'[p] = AmountOf[p]
      BY <1>2
    <2>3. AmountOf'[q] \in Int
      BY <1>2
    <2> QED
      BY <1>2, <2>1, <2>2, <2>3, SumInsert DEF Total
  <1>4. ASSUME NEW m \in Members
        PROVE  WalletGap(m)' = WalletGap(m)
    <2>1. /\ SettledFrom(m) \in SUBSET Succeeded
          /\ SettledFrom(m) \cap compensated \in SUBSET Succeeded
          /\ q \notin compensated
      BY <1>1, TypedBooks
    <2>2. SettledFrom(m)' = IF takes(m) THEN SettledFrom(m) \cup {q} ELSE SettledFrom(m)
      BY <1>1 DEF Stands, SettledFrom, Succeeded
    <2>3. SettledFrom(m)' \cap compensated' = SettledFrom(m) \cap compensated
      BY <2>1, <2>2
    <2>4. Total(SettledFrom(m) \cap compensated)' = Total(SettledFrom(m) \cap compensated)
      BY <1>1, <2>1, <2>3, TotalsStand DEF Total
    <2>5. Total(SettledFrom(m))' =
              Total(SettledFrom(m)) + (IF takes(m) THEN amount ELSE 0)
      <3>1. CASE takes(m)
        BY <1>3, <2>1, <2>2, <3>1 DEF Total
      <3>2. CASE ~takes(m)
        <4>1. Total(SettledFrom(m))' = Total(SettledFrom(m))
          BY <1>1, <2>1, <2>2, <3>2, TotalsStand DEF Total
        <4>2. Total(SettledFrom(m)) \in Nat
          BY <2>1, TypedBooks
        <4> QED
          BY <3>2, <4>1, <4>2
      <3> QED
        BY <3>1, <3>2
    <2>6. /\ wallet[m] \in Int /\ granted[m] \in Int /\ amount \in Int
          /\ Total(SettledFrom(m)) \in Int
          /\ Total(SettledFrom(m) \cap compensated) \in Int
          /\ granted'[m] = granted[m]
          /\ wallet'[m] = wallet[m] - (IF takes(m) THEN amount ELSE 0)
      BY <2>1, TypedBooks
    <2> HIDE DEF takes, amount
    <2> QED
      BY <2>4, <2>5, <2>6 DEF WalletGap
  <1>5. DebitGap' = DebitGap
    BY <1>1, TotalsStand, TypedBooks DEF DebitGap, Total
  <1>6. CreditGap' = CreditGap
    <2>1. Total(Succeeded)' = Total(Succeeded) + amount
      BY <1>1, <1>3 DEF Total
    <2>2. /\ ledger.credit \in Int /\ Total(Succeeded) \in Int /\ amount \in Int
          /\ SumFunctionOnSet(granted, Members) \in Int
      BY TypedBooks
    <2> QED
      BY <2>1, <2>2 DEF CreditGap
  <1>7. IsFiniteSet(Succeeded')
    BY <1>1, <1>3
  <1> QED
    BY <1>1, <1>4, <1>5, <1>6, <1>7 DEF BooksKept, BooksBase, Founded

(* Steps that give a wallet leg back: what it took returns to the wallet   *)
(* and enters the debits.                                                  *)
LEMMA BooksLegReturned ==
    ASSUME BooksBase, NEW q \in Succeeded, q \notin compensated,
           payments[q].method = "WALLET",
           \A p \in PaymentIds : Stands(p),
           \A m \in Members : wallet'[m] = wallet[m] +
               (IF Owner[payments[q].due] = m THEN payments[q].amount ELSE 0),
           compensated' = compensated \cup {q},
           ledger'.credit = ledger.credit,
           ledger'.debit = ledger.debit + payments[q].amount,
           UNCHANGED <<granted, receipts>>
    PROVE  BooksKept
  <1> DEFINE amount == payments[q].amount
             owns(m) == Owner[payments[q].due] = m
  <1>1. /\ \A p \in Succeeded : payments'[p] = payments[p]
        /\ Succeeded' = Succeeded
        /\ \A m \in Members : SettledFrom(m)' = SettledFrom(m)
        /\ \A m \in Members : q \in SettledFrom(m) <=> owns(m)
    BY DEF Stands, Succeeded, SettledFrom
  <1>2. /\ AmountOf[q] = amount
        /\ amount \in Nat
        /\ \A p \in Succeeded : AmountOf[p] \in Int
    BY TypedBooks
  <1>3. ASSUME NEW T \in SUBSET Succeeded, q \notin T
        PROVE  Total(T \cup {q}) = Total(T) + amount
    <2>1. IsFiniteSet(T)
      BY TypedBooks
    <2>2. \A p \in T : AmountOf[p] \in Int /\ AmountOf[p] = AmountOf[p]
      BY <1>2
    <2>3. AmountOf[q] \in Int
      BY <1>2
    <2> QED
      BY <1>2, <1>3, <2>1, <2>2, <2>3, SumInsert DEF Total
  <1>4. ASSUME NEW m \in Members
        PROVE  WalletGap(m)' = WalletGap(m)
    <2>1. /\ SettledFrom(m) \in SUBSET Succeeded
          /\ SettledFrom(m) \cap compensated \in SUBSET Succeeded
          /\ q \notin SettledFrom(m) \cap compensated
      BY TypedBooks
    <2>2. Total(SettledFrom(m))' = Total(SettledFrom(m))
      BY <1>1, <2>1, TotalsStand DEF Total
    <2>3. SettledFrom(m)' \cap compensated' =
              IF owns(m) THEN (SettledFrom(m) \cap compensated) \cup {q}
              ELSE SettledFrom(m) \cap compensated
      BY <1>1
    <2>4. SettledFrom(m)' \cap compensated' \in SUBSET Succeeded
      BY <2>1, <2>3
    <2>5. Total(SettledFrom(m) \cap compensated)' = Total(SettledFrom(m)' \cap compensated')
      BY <1>1, <2>4, TotalsStand DEF Total
    <2>6. Total(SettledFrom(m) \cap compensated)' =
              Total(SettledFrom(m) \cap compensated) + (IF owns(m) THEN amount ELSE 0)
      <3>1. CASE owns(m)
        BY <1>3, <2>1, <2>3, <2>5, <3>1
      <3>2. CASE ~owns(m)
        <4>1. Total(SettledFrom(m) \cap compensated) \in Nat
          BY <2>1, TypedBooks
        <4>2. SettledFrom(m)' \cap compensated' = SettledFrom(m) \cap compensated
          BY <2>3, <3>2
        <4>3. Total(SettledFrom(m) \cap compensated)' = Total(SettledFrom(m) \cap compensated)
          BY <2>5, <4>2, Zenon
        <4> QED
          BY <3>2, <4>1, <4>3
      <3> QED
        BY <3>1, <3>2
    <2>7. /\ wallet[m] \in Int /\ granted[m] \in Int /\ amount \in Int
          /\ Total(SettledFrom(m)) \in Int
          /\ Total(SettledFrom(m) \cap compensated) \in Int
          /\ granted'[m] = granted[m]
          /\ wallet'[m] = wallet[m] + (IF owns(m) THEN amount ELSE 0)
      BY <1>2, <2>1, TypedBooks
    <2> HIDE DEF owns, amount
    <2> QED
      BY <2>2, <2>6, <2>7 DEF WalletGap
  <1>5. DebitGap' = DebitGap
    <2>1. compensated \in SUBSET Succeeded /\ compensated' \in SUBSET Succeeded
      BY TypedBooks
    <2>2. Total(compensated)' = Total(compensated')
      BY <1>1, <2>1, TotalsStand DEF Total
    <2>3. Total(compensated)' = Total(compensated) + amount
      BY <1>3, <2>1, <2>2
    <2>4. ledger.debit \in Int /\ Total(compensated) \in Int /\ amount \in Int
      BY <1>2, <2>1, TypedBooks
    <2> QED
      BY <2>3, <2>4 DEF DebitGap
  <1>6. CreditGap' = CreditGap
    BY <1>1, TotalsStand, TypedBooks DEF CreditGap, Total
  <1> QED
    BY <1>1, <1>4, <1>5, <1>6 DEF BooksKept, BooksBase, Founded

(* An Administrator's credit. *)
LEMMA BooksGranted ==
    ASSUME BooksBase, NEW o \in Members, NEW amount \in Nat,
           UNCHANGED <<payments, compensated, receipts>>,
           wallet' = [wallet EXCEPT ![o] = @ + amount],
           granted' = [granted EXCEPT ![o] = @ + amount],
           ledger' = [ledger EXCEPT !.credit = @ + amount]
    PROVE  BooksKept
  <1>1. /\ Succeeded' = Succeeded
        /\ \A m \in Members : SettledFrom(m)' = SettledFrom(m)
        /\ AmountOf' = AmountOf
    BY DEF Succeeded, SettledFrom, AmountOf
  <1>2. /\ wallet \in [Members -> Nat]
        /\ granted \in [Members -> 0 .. MaxCredit]
        /\ ledger \in [credit : Nat, debit : Nat]
    BY DEF BooksBase, IInv, TypeOK
  <1>3. /\ \A m \in Members : /\ wallet'[m] = IF m = o THEN wallet[m] + amount ELSE wallet[m]
                              /\ granted'[m] = IF m = o THEN granted[m] + amount ELSE granted[m]
        /\ ledger'.credit = ledger.credit + amount
        /\ ledger'.debit = ledger.debit
    BY <1>2
  <1>4. ASSUME NEW m \in Members
        PROVE  WalletGap(m)' = WalletGap(m)
    <2>1. /\ SettledFrom(m) \in SUBSET Succeeded
          /\ SettledFrom(m) \cap compensated \in SUBSET Succeeded
      BY TypedBooks
    <2>2. /\ Total(SettledFrom(m)) \in Nat
          /\ Total(SettledFrom(m) \cap compensated) \in Nat
          /\ wallet[m] \in Nat /\ granted[m] \in Nat
      BY <2>1, TypedBooks
    <2>3. /\ Total(SettledFrom(m))' = Total(SettledFrom(m))
          /\ Total(SettledFrom(m) \cap compensated)' = Total(SettledFrom(m) \cap compensated)
      BY <1>1 DEF Total
    <2> QED
      BY <1>3, <2>2, <2>3 DEF WalletGap
  <1>5. DebitGap' = DebitGap
    BY <1>1, <1>3 DEF DebitGap, Total
  <1>6. CreditGap' = CreditGap
    <2>1. \A m \in Members : granted[m] \in Int
      BY TypedBooks
    <2>2. granted'[o] \in Int /\ granted'[o] - granted[o] = amount
      BY <1>3, <2>1
    <2>3. SumFunctionOnSet(granted', Members) =
              SumFunctionOnSet(granted, Members) + (granted'[o] - granted[o])
      <3> DEFINE after == granted'
      <3>1. \A m \in Members \ {o} : after[m] = granted[m]
        BY <1>3
      <3>2. after[o] \in Int
        BY <2>2
      <3> HIDE DEF after
      <3>3. SumFunctionOnSet(after, Members) =
                SumFunctionOnSet(granted, Members) + (after[o] - granted[o])
        BY <2>1, <3>1, <3>2, MembersAssumption, SumChange
      <3> QED
        BY <3>3 DEF after
    <2>4. /\ SumFunctionOnSet(granted, Members) \in Int
          /\ Total(Succeeded) \in Int /\ ledger.credit \in Int
      BY TypedBooks
    <2>5. Total(Succeeded)' = Total(Succeeded)
      BY <1>1 DEF Total
    <2> QED
      BY <1>3, <2>2, <2>3, <2>4, <2>5 DEF CreditGap
  <1> QED
    BY <1>1, <1>4, <1>5, <1>6 DEF BooksKept, BooksBase, Founded, Succeeded

(* Changing the status of a main row changes no other row, and nothing     *)
(* else of that row.                                                       *)
LEMMA StatusWritten ==
    ASSUME TypeOK, NEW k \in Keys, NEW s \in PaymentStatuses,
           payments' = [payments EXCEPT ![Main(k)].status = s]
    PROVE  /\ payments'[Main(k)].status = s
           /\ payments'[Main(k)].method = payments[Main(k)].method
           /\ payments'[Main(k)].due = payments[Main(k)].due
           /\ payments'[Main(k)].amount = payments[Main(k)].amount
           /\ \A p \in PaymentIds \ {Main(k)} : payments'[p] = payments[p]
  <1>1. payments[Main(k)] \in Rows /\ Main(k) \in PaymentIds
    BY RowNames DEF TypeOK
  <1> QED
    BY <1>1 DEF TypeOK, Rows

(* Every row but q stands, and q is settled neither before nor after.      *)
LEMMA RowsStand ==
    ASSUME NEW q \in PaymentIds, payments[q].status # "SUCCEEDED",
           payments'[q].status # "SUCCEEDED",
           \A p \in PaymentIds \ {q} : payments'[p] = payments[p]
    PROVE  \A p \in PaymentIds : Stands(p)
  BY DEF Stands

(* A new main row that is not a wallet payment, or any change of an old    *)
(* one that leaves its method, keeps the methods fitting.                  *)
LEMMA MethodsFitMain ==
    ASSUME MethodsFit, NEW k \in Keys,
           \A p \in PaymentIds \ {Main(k)} : payments'[p] = payments[p],
           payments'[Main(k)].status = "PENDING" => payments'[Main(k)].method # "WALLET"
    PROVE  MethodsFit'
  BY RowNames DEF MethodsFit

(* A new open payment, of any method but the wallet, is not in the books.  *)
LEMMA OpeningKeepsBooks ==
    ASSUME BooksBase, NEW k \in Keys, NEW d, NEW method \in Methods \ {"WALLET"},
           NEW amount, Unused(k),
           payments' = [payments EXCEPT ![Main(k)] = Row("PENDING", method, d, amount, NoOrder)],
           UNCHANGED <<wallet, granted, compensated, receipts, ledger>>
    PROVE  BooksKept /\ MethodsFit'
  <1>1. /\ payments'[Main(k)].status = "PENDING"
        /\ payments'[Main(k)].method = method
        /\ \A p \in PaymentIds \ {Main(k)} : payments'[p] = payments[p]
    BY RowNames DEF BooksBase, IInv, TypeOK, Row
  <1>2. \A p \in PaymentIds : Stands(p)
    BY <1>1, RowNames, RowsStand DEF Unused
  <1> QED
    BY <1>1, <1>2, BooksIdle, MethodsFitMain DEF BooksBase, Founded

(* A settlement from the wallet is one settled payment.                    *)
LEMMA WalletSettlementKeepsBooks ==
    ASSUME BooksBase, NEW k \in Keys, NEW d \in Dues, Unused(k), SettleFromWallet(k, d)
    PROVE  BooksKept /\ MethodsFit'
  <1> USE DEF BooksBase, IInv
  <1>1. /\ payments'[Main(k)] = Row("SUCCEEDED", "WALLET", d, Amount[d], NoOrder)
        /\ \A p \in PaymentIds \ {Main(k)} : payments'[p] = payments[p]
        /\ payments[Main(k)].status = "NONE"
        /\ Main(k) \in PaymentIds
    BY RowNames DEF TypeOK, SettleFromWallet, Unused
  <1>2. /\ payments'[Main(k)].status = "SUCCEEDED"
        /\ payments'[Main(k)].method = "WALLET"
        /\ payments'[Main(k)].due = d
        /\ payments'[Main(k)].amount = Amount[d]
    BY <1>1 DEF Row
  <1>3. Owner[d] \in Members /\ Amount[d] \in Nat
    BY PaymentsAssumption
  <1>4. \A m \in Members :
            wallet'[m] = wallet[m] - (IF Owner[d] = m THEN Amount[d] ELSE 0)
    BY <1>3 DEF TypeOK, SettleFromWallet
  <1>5. /\ ledger'.credit = ledger.credit + Amount[d]
        /\ ledger'.debit = ledger.debit
        /\ receipts' = receipts \cup {Main(k)}
        /\ UNCHANGED <<granted, compensated>>
    BY DEF TypeOK, SettleFromWallet
  <1>6. \A p \in PaymentIds \ {Main(k)} : Stands(p)
    BY <1>1 DEF Stands
  <1>7. BooksKept
    BY <1>1, <1>2, <1>3, <1>4, <1>5, <1>6, BooksSettled
  <1> QED
    BY <1>1, <1>2, <1>7, MethodsFitMain DEF Founded

(* A split settles its wallet leg, if it has one.                          *)
LEMMA SplitKeepsBooks ==
    ASSUME BooksBase, NEW k \in Keys, NEW d \in Dues, Unused(k), SplitWalletThenOnline(k, d)
    PROVE  BooksKept /\ MethodsFit'
  <1> DEFINE taken == wallet[Owner[d]]
  <1> USE DEF BooksBase, IInv
  <1>1. /\ payments'[Main(k)] = Row("PENDING", "ONLINE", d, Amount[d] - taken, NoOrder)
        /\ taken > 0 => payments'[Leg(k)] = Row("SUCCEEDED", "WALLET", d, taken, NoOrder)
        /\ ~(taken > 0) => payments'[Leg(k)] = payments[Leg(k)]
        /\ \A p \in PaymentIds \ {Main(k), Leg(k)} : payments'[p] = payments[p]
    BY RowNames DEF SplitWalletThenOnline, OnlineRemainder, TypeOK
  <1>2. /\ payments'[Main(k)].status = "PENDING"
        /\ payments'[Main(k)].method = "ONLINE"
        /\ payments[Main(k)].status = "NONE"
        /\ payments[Leg(k)].status = "NONE"
    BY <1>1 DEF Row, Unused, Tables, RowsCoverTheDue
  <1>3. taken > 0 => /\ payments'[Leg(k)].status = "SUCCEEDED"
                     /\ payments'[Leg(k)].method = "WALLET"
                     /\ payments'[Leg(k)].due = d
                     /\ payments'[Leg(k)].amount = taken
    BY <1>1 DEF Row
  <1>4. Owner[d] \in Members /\ taken \in Nat /\ wallet \in [Members -> Nat]
    BY PaymentsAssumption DEF TypeOK
  <1>5. /\ wallet' = [wallet EXCEPT ![Owner[d]] = 0]
        /\ ledger'.credit = ledger.credit + taken
        /\ ledger'.debit = ledger.debit
        /\ UNCHANGED <<granted, compensated>>
    BY DEF TypeOK, SplitWalletThenOnline
  <1>6. \A p \in PaymentIds \ {Leg(k)} : Stands(p)
    BY <1>1, <1>2, RowNames DEF Stands
  <1>7. MethodsFit'
    <2>1. \A j \in Keys \ {k} : /\ payments'[Leg(j)] = payments[Leg(j)]
                                /\ payments'[Main(j)] = payments[Main(j)]
      BY <1>1, RowNames
    <2>2. payments'[Leg(k)].status # "NONE" => payments'[Leg(k)].method = "WALLET"
      BY <1>1, <1>2, <1>3
    <2> QED
      BY <1>2, <2>1, <2>2 DEF Founded, MethodsFit
  <1>8. CASE taken > 0
    <2>1. \A m \in Members : wallet'[m] = wallet[m] - (IF Owner[d] = m THEN taken ELSE 0)
      BY <1>4, <1>5
    <2>2. receipts' = receipts \cup {Leg(k)}
      BY <1>8 DEF SplitWalletThenOnline
    <2>3. BooksKept
      BY <1>2, <1>3, <1>4, <1>5, <1>6, <1>8, <2>1, <2>2, RowNames, BooksSettled
    <2> QED
      BY <1>7, <2>3
  <1>9. CASE ~(taken > 0)
    <2>1. taken = 0 /\ wallet' = wallet
      BY <1>4, <1>5, <1>9
    <2>2. \A p \in PaymentIds : Stands(p)
      BY <1>1, <1>2, <1>6, <1>9 DEF Stands
    <2>3. receipts' = receipts
      BY <1>9 DEF SplitWalletThenOnline
    <2>4. ledger' = ledger
      BY <2>1 DEF TypeOK, SplitWalletThenOnline
    <2>5. BooksKept
      BY <1>5, <2>1, <2>2, <2>3, <2>4, BooksIdle
    <2> QED
      BY <1>7, <2>5
  <1> QED
    BY <1>8, <1>9

(* Closing an online payment gives its wallet leg back, if there is one    *)
(* that was not given back yet.                                            *)
LEMMA ClosingKeepsBooks ==
    ASSUME BooksBase, NEW k \in Keys, NEW outcome \in {"FAILED", "CANCELLED"},
           payments[Main(k)].status = "PENDING", CloseAndCompensate(k, outcome)
    PROVE  BooksKept /\ MethodsFit'
  <1> USE DEF BooksBase, IInv
  <1>1. /\ payments'[Main(k)].status = outcome
        /\ \A p \in PaymentIds \ {Main(k)} : payments'[p] = payments[p]
    BY StatusWritten DEF CloseAndCompensate, PaymentStatuses
  <1>2. \A p \in PaymentIds : Stands(p)
    BY <1>1, RowNames, RowsStand
  <1>3. MethodsFit'
    BY <1>1, MethodsFitMain DEF Founded
  <1>4. payments[Main(k)].due \in Dues /\ Owner[payments[Main(k)].due] \in Members
    BY PaymentsAssumption DEF Tables, RowsCoverTheDue
  <1>5. /\ wallet \in [Members -> Nat]
        /\ ledger \in [credit : Nat, debit : Nat]
    BY DEF TypeOK
  <1>6. CASE OwedToWallet(k) = 0
    <2>1. wallet' = wallet /\ ledger' = ledger
      BY <1>4, <1>5, <1>6 DEF CloseAndCompensate
    <2> QED
      BY <1>2, <1>3, <1>6, <2>1, BooksIdle DEF CloseAndCompensate
  <1>7. CASE OwedToWallet(k) # 0
    <2>1. /\ OwedToWallet(k) = payments[Leg(k)].amount
          /\ payments[Leg(k)].status = "SUCCEEDED"
          /\ payments[Leg(k)].due = payments[Main(k)].due
          /\ Leg(k) \notin compensated
          /\ Leg(k) \in PaymentIds
      BY <1>7, RowNames DEF OwedToWallet
    <2>2. payments[Leg(k)].method = "WALLET" /\ Leg(k) \in Succeeded
      BY <2>1 DEF Founded, MethodsFit, Succeeded
    <2>3. OwedToWallet(k) \in Nat /\ OwedToWallet(k) > 0
      BY <1>7, OwedIsNat
    <2>4. compensated' = compensated \cup {Leg(k)}
      BY <2>3 DEF CloseAndCompensate
    <2>5. \A m \in Members : wallet'[m] = wallet[m] +
              (IF Owner[payments[Leg(k)].due] = m THEN payments[Leg(k)].amount ELSE 0)
      BY <1>4, <1>5, <2>1, <2>3 DEF CloseAndCompensate
    <2>6. /\ ledger'.credit = ledger.credit
          /\ ledger'.debit = ledger.debit + payments[Leg(k)].amount
          /\ UNCHANGED <<granted, receipts>>
      BY <1>5, <2>1 DEF CloseAndCompensate
    <2>7. BooksKept
      BY <1>2, <2>1, <2>2, <2>4, <2>5, <2>6, BooksLegReturned
    <2> QED
      BY <1>3, <2>7
  <1> QED
    BY <1>6, <1>7

(* The settlement of a payment that did not take from the wallet.          *)
LEMMA SettlementKeepsBooks ==
    ASSUME BooksBase, NEW k \in Keys, NEW settledAt, SettlePayment(k, settledAt)
    PROVE  BooksKept /\ MethodsFit'
  <1> USE DEF BooksBase, IInv
  <1>1. /\ payments'[Main(k)].status = "SUCCEEDED"
        /\ payments'[Main(k)].method = payments[Main(k)].method
        /\ payments'[Main(k)].amount = payments[Main(k)].amount
        /\ \A p \in PaymentIds \ {Main(k)} : payments'[p] = payments[p]
    BY StatusWritten DEF SettlePayment, PaymentStatuses
  <1>2. payments[Main(k)].status = "PENDING" /\ payments[Main(k)].method # "WALLET"
    BY DEF SettlePayment, Founded, MethodsFit
  <1>3. payments[Main(k)].amount \in Nat /\ Main(k) \in PaymentIds
    BY RowNames DEF TypeOK, Rows
  <1>4. \A m \in Members : wallet'[m] = wallet[m] - 0
    BY DEF SettlePayment, TypeOK
  <1>5. /\ ledger'.credit = ledger.credit + payments[Main(k)].amount
        /\ ledger'.debit = ledger.debit
        /\ receipts' = receipts \cup {Main(k)}
        /\ UNCHANGED <<granted, compensated>>
    BY DEF TypeOK, SettlePayment
  <1>6. \A p \in PaymentIds \ {Main(k)} : Stands(p)
    BY <1>1 DEF Stands
  <1>7. BooksKept
    BY <1>1, <1>2, <1>3, <1>4, <1>5, <1>6, BooksSettled
  <1> QED
    BY <1>1, <1>7, MethodsFitMain DEF Founded

(* Every step of Payments keeps the books. *)
LEMMA PaymentsKeepBooks ==
    ASSUME BooksBase, Next
    PROVE  BooksKept /\ Founded'
  <1> USE DEF BooksBase, IInv
  <1>1. UNCHANGED <<payments, wallet, granted, compensated, receipts, ledger>> =>
            BooksKept /\ MethodsFit'
    <2> SUFFICES ASSUME UNCHANGED <<payments, wallet, granted, compensated, receipts, ledger>>
                 PROVE  BooksKept /\ MethodsFit'
      OBVIOUS
    <2>1. \A p \in PaymentIds : Stands(p)
      BY DEF Stands
    <2>2. MethodsFit'
      BY DEF Founded, MethodsFit
    <2> QED
      BY <2>1, <2>2, BooksIdle
  <1>2. ASSUME NEW k \in Keys, NEW c \in Calls, PersistOrder(k, c)
        PROVE  BooksKept /\ MethodsFit'
    <2>1. CASE ~OrderAccepted(k)
      BY <1>1, <1>2, <2>1 DEF PersistOrder
    <2>2. CASE OrderAccepted(k)
      <3>1. /\ payments[Main(k)] \in Rows
            /\ payments'[Main(k)] = [payments[Main(k)] EXCEPT !.order = c]
            /\ \A p \in PaymentIds \ {Main(k)} : payments'[p] = payments[p]
        BY <1>2, <2>2, RowNames DEF TypeOK, PersistOrder
      <3>2. /\ payments[Main(k)].status = "PENDING"
            /\ payments'[Main(k)].status = "PENDING"
            /\ payments'[Main(k)].method = payments[Main(k)].method
        BY <2>2, <3>1 DEF Rows, OrderAccepted
      <3>3. \A p \in PaymentIds : Stands(p)
        BY <3>1, <3>2, RowNames, RowsStand
      <3>4. MethodsFit'
        BY <3>1, <3>2, MethodsFitMain DEF Founded, MethodsFit
      <3> QED
        BY <1>2, <3>3, <3>4, BooksIdle DEF PersistOrder
    <2> QED
      BY <2>1, <2>2
  <1>3. ASSUME NEW m \in Members, NEW amount \in CreditAmounts,
               ApplyFoundationWalletCredit(m, amount)
        PROVE  BooksKept /\ MethodsFit'
    <2>1. amount \in Nat
      BY PaymentsAssumption
    <2> QED
      BY <1>3, <2>1, BooksGranted DEF ApplyFoundationWalletCredit, Founded, MethodsFit
  <1>4. MemberNext => BooksKept /\ MethodsFit'
    <2>1. ASSUME NEW k \in Keys, NEW d \in Dues, CreatePaymentCommand(k, d)
          PROVE  BooksKept /\ MethodsFit'
      BY <2>1, OpeningKeepsBooks DEF CreatePaymentCommand, Methods
    <2> QED
      BY <1>1, <1>2, <2>1, WalletSettlementKeepsBooks, SplitKeepsBooks, ClosingKeepsBooks
         DEF MemberNext, PayDueFromWallet, StartPlanWalletFirstSplitPayment,
             CancelPendingPayment, OpenCheckout
  <1>5. ProviderNext => BooksKept /\ MethodsFit'
    BY <1>1, ClosingKeepsBooks, SettlementKeepsBooks
       DEF ProviderNext, ProviderCaptures, ProviderAttemptFails, DeliverCapture,
           DeliverFailure, FailPayment
  <1>6. AdminNext \/ JobsNext \/ Tick => BooksKept /\ MethodsFit'
    BY <1>1, <1>3
       DEF AdminNext, ExtendPlanDue, JobsNext,
           ReadPlanReminders, WritePlanReminders, ReadMembershipDues,
           WriteMembershipDues, Tick, outside
  <1> QED
    BY <1>4, <1>5, <1>6 DEF Next, BooksKept, Founded

(* The books of the money core: no gap. *)
BooksInv ==
    /\ BooksBase
    /\ \A m \in Members : WalletGap(m) = 0
    /\ DebitGap = 0
    /\ CreditGap = 0

(* The books are empty at the start. *)
LEMMA BooksInit ==
    ASSUME Init
    PROVE  /\ Founded
           /\ \A m \in Members : WalletGap(m) = 0
           /\ DebitGap = 0
           /\ CreditGap = 0
  <1>1. \A p \in PaymentIds : payments[p].status = "NONE"
    BY DEF Init, NoRow, Row
  <1>2. Succeeded = {} /\ compensated = {} /\ \A m \in Members : SettledFrom(m) = {}
    BY <1>1 DEF Succeeded, SettledFrom, Init
  <1>3. Founded
    BY <1>1, <1>2, RowNames, FS_EmptySet DEF Founded, MethodsFit, Init
  <1>4. SumFunctionOnSet(AmountOf, {}) = 0
    BY FS_EmptySet, SumOfZeros
  <1>5. \A m \in Members : wallet[m] = 0 /\ granted[m] = 0
    BY DEF Init
  <1>6. SumFunctionOnSet(granted, Members) = 0
    BY <1>5, MembersAssumption, SumOfZeros
  <1>7. ASSUME NEW m \in Members
        PROVE  WalletGap(m) = 0
    <2>1. SettledFrom(m) = {} /\ SettledFrom(m) \cap compensated = {}
      BY <1>2
    <2> QED
      BY <1>4, <1>5, <2>1 DEF WalletGap, Total
  <1>8. DebitGap = 0
    BY <1>2, <1>4 DEF DebitGap, Total, Init
  <1>9. CreditGap = 0
    BY <1>2, <1>4, <1>6 DEF CreditGap, Total, Init
  <1> QED
    BY <1>3, <1>7, <1>8, <1>9

(* Every step preserves the books. *)
LEMMA BooksInductive == BooksInv /\ [Next]_vars => BooksInv'
  <1> SUFFICES ASSUME BooksInv, [Next]_vars PROVE BooksInv'
    OBVIOUS
  <1>1. IInv'
    BY Inductive DEF BooksInv, BooksBase
  <1>2. CASE Next
    BY <1>1, <1>2, PaymentsKeepBooks DEF BooksInv, BooksBase, BooksKept
  <1>3. CASE UNCHANGED vars
    BY <1>1, <1>3 DEF BooksInv, BooksBase, Founded, MethodsFit, Succeeded, WalletGap, DebitGap,
                      CreditGap, SettledFrom, Total, AmountOf, vars
  <1> QED
    BY <1>2, <1>3

(* The books are in order in every reachable state. *)
THEOREM BooksInvariance == Spec => []BooksInv
  <1>1. Init => BooksInv
    BY TypeInit, TablesInit, BooksInit DEF BooksInv, BooksBase, IInv
  <1> QED
    BY <1>1, BooksInductive, PTL DEF Spec

(* A wallet holds what was granted, less what its member paid from it,     *)
(* plus the legs that were given back.                                     *)
THEOREM WalletIsItsHistory == Spec => []WalletMatchesHistory
  <1>1. BooksInv => WalletMatchesHistory
    <2> SUFFICES ASSUME BooksInv, NEW m \in Members
                 PROVE  wallet[m] = granted[m] - Total(SettledFrom(m))
                                    + Total(SettledFrom(m) \cap compensated)
      BY DEF WalletMatchesHistory
    <2>1. /\ SettledFrom(m) \in SUBSET Succeeded
          /\ SettledFrom(m) \cap compensated \in SUBSET Succeeded
      BY TypedBooks DEF BooksInv
    <2>2. /\ Total(SettledFrom(m)) \in Nat
          /\ Total(SettledFrom(m) \cap compensated) \in Nat
          /\ wallet[m] \in Nat /\ granted[m] \in Nat
      BY <2>1, TypedBooks DEF BooksInv
    <2>3. WalletGap(m) = 0
      BY DEF BooksInv
    <2> QED
      BY <2>2, <2>3 DEF WalletGap
  <1> QED
    BY <1>1, BooksInvariance, PTL

(* The ledger and the receipts are those of the settled payments.          *)
THEOREM LedgerIsBalanced == Spec => []LedgerMatchesPayments
  <1>1. BooksInv => LedgerMatchesPayments
    <2> SUFFICES ASSUME BooksInv PROVE LedgerMatchesPayments
      OBVIOUS
    <2>1. compensated \in SUBSET Succeeded
      BY TypedBooks DEF BooksInv
    <2>2. /\ Total(compensated) \in Nat /\ Total(Succeeded) \in Nat
          /\ SumFunctionOnSet(granted, Members) \in Nat
          /\ ledger.credit \in Nat /\ ledger.debit \in Nat
      BY <2>1, TypedBooks DEF BooksInv
    <2>3. DebitGap = 0 /\ CreditGap = 0 /\ receipts = Succeeded
      BY DEF BooksInv, BooksBase, Founded
    <2> QED
      BY <2>2, <2>3 DEF LedgerMatchesPayments, CreditMatchesPayments, DebitGap, CreditGap
  <1> QED
    BY <1>1, BooksInvariance, PTL

(* The rows of every key charge exactly its due.                           *)
THEOREM RowsCharge == Spec => []RowsCoverTheDue
  <1>1. IInv => RowsCoverTheDue
    BY DEF IInv, Tables
  <1> QED
    BY <1>1, Invariance, PTL
=============================================================================
