--------------------------- MODULE CashCollections ---------------------------
(***************************************************************************)
(* Cash a coordinator collects for a due, and an Administrator's decision  *)
(* on it, next to every other way of paying the same due.  The Payment row *)
(* of a collection is a main row of Payments; the CashCollection row is    *)
(* unique per payment and so is named by the same key.  MANUAL collections *)
(* are treated exactly like CASH ones.                                     *)
(***************************************************************************)
EXTENDS Payments

VARIABLE collections    \* CashCollection.status, by the key of its payment

cashVars == <<vars, collections>>

CollectionStatuses == {"NONE", "PENDING_ADMIN_VERIFICATION", "PAID", "REJECTED"}

CashInit == Init /\ collections = [k \in Keys |-> "NONE"]

-----------------------------------------------------------------------------

(* The collections ever recorded for a due. *)
PriorCollections(d) ==
    {k \in Keys : collections[k] # "NONE" /\ payments[Main(k)].due = d}

(* Wrong variant: only a collection that awaits its verification blocks. *)
CanCollectAgain(d) ==
    \A k \in PriorCollections(d) : collections[k] # "PENDING_ADMIN_VERIFICATION"

CanCreateCashCollectionForDue(d) ==
    \A k \in PriorCollections(d) : collections[k] = "REJECTED"

(* Wrong variant: only other collections, not other attempts, block. *)
CollectDespiteAttempt(k, d) ==
    /\ Unused(k)
    /\ Payable(d)
    /\ CanCreateCashCollectionForDue(d)
    /\ payments' = [payments EXCEPT ![Main(k)] =
                        Row("PENDING", "CASH", d, Amount[d], NoOrder)]
    /\ collections' = [collections EXCEPT ![k] = "PENDING_ADMIN_VERIFICATION"]
    /\ UNCHANGED <<now, dueStatus, dueAt, wallet, granted, compensated, receipts,
                   ledger, plans, outside>>

(* An active coordinator, assigned to the owner of the due, records cash. *)
CollectCashForDue(k, d) ==
    /\ Unused(k)
    /\ Payable(d)
    /\ CanCreateCashCollectionForDue(d)
    /\ OpenAttempts(d) = {}
    /\ payments' = [payments EXCEPT ![Main(k)] =
                        Row("PENDING", "CASH", d, Amount[d], NoOrder)]
    /\ collections' = [collections EXCEPT ![k] = "PENDING_ADMIN_VERIFICATION"]
    /\ UNCHANGED <<now, dueStatus, dueAt, wallet, granted, compensated, receipts,
                   ledger, plans, outside>>

(* Approval settles the payment as of now: the deadline of a registration  *)
(* is compared with the time of the decision, not of the collection.       *)
ApproveCashCollection(k) ==
    /\ collections[k] = "PENDING_ADMIN_VERIFICATION"
    /\ SettlePayment(k, now)
    /\ collections' = [collections EXCEPT ![k] = "PAID"]

(* Wrong variant: the payment of a rejected collection stays open. *)
RejectCollectionOnly(k) ==
    /\ collections[k] = "PENDING_ADMIN_VERIFICATION"
    /\ collections' = [collections EXCEPT ![k] = "REJECTED"]
    /\ UNCHANGED vars

(* The rejection does not look at the status of the payment. *)
RejectCashCollection(k) ==
    /\ collections[k] = "PENDING_ADMIN_VERIFICATION"
    /\ collections' = [collections EXCEPT ![k] = "REJECTED"]
    /\ payments' = [payments EXCEPT ![Main(k)].status = "FAILED"]
    /\ UNCHANGED <<now, dueStatus, dueAt, wallet, granted, compensated, receipts,
                   ledger, plans, outside>>

CashNext ==
    \E k \in Keys :
        \/ \E d \in Dues : CollectCashForDue(k, d)
        \/ ApproveCashCollection(k)
        \/ RejectCashCollection(k)

NextWithCash == (Next /\ UNCHANGED collections) \/ CashNext

CashSpec == CashInit /\ [][NextWithCash]_cashVars
-----------------------------------------------------------------------------
(* Properties. *)

CashTypeOK == TypeOK /\ collections \in [Keys -> CollectionStatuses]

(* The collection and its payment tell the same story after every decision *)
(* and whatever webhooks, cancellations and jobs do to the payment table.  *)
CollectionMatchesPayment ==
    \A k \in Keys :
        /\ collections[k] # "NONE" <=> payments[Main(k)].method = "CASH"
        /\ collections[k] = "PENDING_ADMIN_VERIFICATION" => payments[Main(k)].status = "PENDING"
        /\ collections[k] = "PAID" => payments[Main(k)].status = "SUCCEEDED"
        /\ collections[k] = "REJECTED" => payments[Main(k)].status = "FAILED"

(* A due is collected in cash at most once, even if a job takes its PAID   *)
(* status away and it becomes payable again (canCreateCashCollectionForDue *)
(* and the partial unique index behind it).                                *)
CollectedOnce ==
    \A j, k \in Keys :
        /\ collections[j] \notin {"NONE", "REJECTED"}
        /\ collections[k] \notin {"NONE", "REJECTED"}
        /\ payments[Main(j)].due = payments[Main(k)].due
        => j = k
=============================================================================
