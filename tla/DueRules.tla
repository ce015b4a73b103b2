------------------------------ MODULE DueRules ------------------------------
(***************************************************************************)
(* The pure rules every payment path consults before it touches a due: the *)
(* statuses of the schema, when a due may be paid, when a payment already  *)
(* started may still settle it, and when a scheduled job may expire it.    *)
(* Time is a natural number, later instants being larger.                  *)
(***************************************************************************)
EXTENDS Naturals

DueStatuses == {"PENDING", "OVERDUE", "EXPIRED", "PAID", "CANCELLED", "WAIVED"}

Purposes == {"PLAN_REGISTRATION", "CONTRIBUTION", "MEMBERSHIP"}

PaymentStatuses == {"PENDING", "SUCCEEDED", "FAILED", "CANCELLED"}

Methods == {"ONLINE", "WALLET", "CASH", "MANUAL"}

PlanStatuses == {"PAYMENT_PENDING", "PENDING_COORDINATOR_APPROVAL",
                 "PENDING_ADMIN_APPROVAL", "ACTIVE", "SUSPENDED"}

(* The statuses from which a settlement's conditional update may claim a due. *)
Unsettled == {"PENDING", "OVERDUE", "EXPIRED"}

(* The statuses a scheduled job may turn into EXPIRED. *)
Expirable == {"PENDING", "OVERDUE"}

IsDuePayable(purpose, status, dueAt, now) ==
    \/ purpose # "PLAN_REGISTRATION" /\ status \in Unsettled
    \/ purpose = "PLAN_REGISTRATION" /\ status = "PENDING" /\ dueAt > now

(* Wrong variant: an expired plan registration cannot be settled any more. *)
SettlementRefusedOnceExpired(purpose, status, dueAt, settledAt) ==
    \/ purpose # "PLAN_REGISTRATION" /\ status \in Unsettled
    \/ purpose = "PLAN_REGISTRATION" /\ status = "PENDING" /\ settledAt <= dueAt

SettlementAllowed(purpose, status, dueAt, settledAt) ==
    \/ purpose # "PLAN_REGISTRATION" /\ status \in Unsettled
    \/ /\ purpose = "PLAN_REGISTRATION"
       /\ status \in {"PENDING", "EXPIRED"}
       /\ settledAt <= dueAt

DueForExpiry(status, dueAt, now) == status \in Expirable /\ dueAt <= now

=============================================================================
