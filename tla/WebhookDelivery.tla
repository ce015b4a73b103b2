-------------------------- MODULE WebhookDelivery --------------------------
(***************************************************************************)
(* The webhook inbox.  The provider delivers an event until a delivery is  *)
(* acknowledged; deliveries of one event may overlap and each may die      *)
(* between two of its database calls.  A delivery looks the event up,      *)
(* creates its row if it found none, handles it in one serializable        *)
(* transaction, and marks the row as processed.  Events here are captures  *)
(* and failed attempts on a persisted order; what a settlement writes      *)
(* besides the payment's status is in Payments.                            *)
(***************************************************************************)
EXTENDS Naturals

CONSTANTS
    Events,         \* provider event ids
    PaymentIds,     \* payments the events are about
    PaymentOf,      \* the payment of an event
    Captures,       \* the events that report a capture; the others a failure
    Deliveries,     \* the deliveries that may be in progress at once
    EventOf,        \* the event of a delivery
    MaxCrashes      \* bound: deliveries that die or fail transiently

ASSUME WebhookAssumption ==
    /\ PaymentOf \in [Events -> PaymentIds]
    /\ Captures \subseteq Events
    /\ EventOf \in [Deliveries -> Events]
    /\ MaxCrashes \in Nat

VARIABLES
    inbox,          \* PaymentWebhook row: none, recorded, processed
    status,         \* Payment.status
    receipts,       \* number of receipts of a payment
    acked,          \* events of which a delivery got a 2xx response
    pc,             \* the deliveries in progress
    crashes

vars == <<inbox, status, receipts, acked, pc, crashes>>

Init ==
    /\ inbox = [e \in Events |-> "none"]
    /\ status = [p \in PaymentIds |-> "PENDING"]
    /\ receipts = [p \in PaymentIds |-> 0]
    /\ acked = {}
    /\ pc = [d \in Deliveries |-> "idle"]
    /\ crashes = 0

-----------------------------------------------------------------------------

Goto(d, step) == pc' = [pc EXCEPT ![d] = step]

(* The response is 2xx: the provider will not send this event again.       *)
Acknowledge(d) == acked' = acked \cup {EventOf[d]} /\ Goto(d, "idle")

(* The provider sends an event nobody has acknowledged.                    *)
Receive(d) ==
    LET e == EventOf[d] IN
    /\ e \notin acked
    /\ pc[d] = "idle"
    /\ Goto(d, "lookup")
    /\ UNCHANGED <<inbox, status, receipts, acked, crashes>>

(* Wrong variant: any row found is a duplicate. *)
DuplicateIfRecorded(e) == inbox[e] # "none"

Duplicate(e) == inbox[e] = "processed"

(* recordWebhook, its first query. *)
Lookup(d) ==
    LET e == EventOf[d] IN
    /\ pc[d] = "lookup"
    /\ \/ Duplicate(e) /\ Acknowledge(d)
       \/ ~Duplicate(e) /\ inbox[e] # "none" /\ Goto(d, "handle") /\ UNCHANGED acked
       \/ ~Duplicate(e) /\ inbox[e] = "none" /\ Goto(d, "create") /\ UNCHANGED acked
    /\ UNCHANGED <<inbox, status, receipts, crashes>>

(* Wrong variant: the row is created as already processed. *)
FreshRowProcessed == "processed"

(* The row of a new event: processedAt is NULL. *)
FreshRow == "recorded"

(* recordWebhook, its insert: the unique key decides between overlapping   *)
(* deliveries, and the loser reports a duplicate.                          *)
Create(d) ==
    LET e == EventOf[d] IN
    /\ pc[d] = "create"
    /\ \/ /\ inbox[e] = "none"
          /\ inbox' = [inbox EXCEPT ![e] = FreshRow]
          /\ Goto(d, "handle")
          /\ UNCHANGED acked
       \/ /\ inbox[e] # "none"
          /\ Acknowledge(d)
          /\ UNCHANGED inbox
    /\ UNCHANGED <<status, receipts, crashes>>

OutcomeOf(e) == IF e \in Captures THEN "SUCCEEDED" ELSE "FAILED"

(* Wrong variant: the handler trusts the inbox and does not look at the payment. *)
Handleable(e) == TRUE

Pending(e) == status[PaymentOf[e]] = "PENDING"

(* settlePayment or failPayment: applied to a pending payment, a no-op on  *)
(* the same outcome, an error on the other one.                            *)
Handle(d) ==
    LET e == EventOf[d]
        p == PaymentOf[e]
    IN
    /\ pc[d] = "handle"
    /\ \/ /\ Pending(e)
          /\ status' = [status EXCEPT ![p] = OutcomeOf(e)]
          /\ receipts' = IF e \in Captures THEN [receipts EXCEPT ![p] = @ + 1] ELSE receipts
          /\ Goto(d, "complete")
       \/ /\ ~Pending(e)
          /\ Goto(d, IF status[p] = OutcomeOf(e) THEN "complete" ELSE "idle")
          /\ UNCHANGED <<status, receipts>>
    /\ UNCHANGED <<inbox, acked, crashes>>

(* completeWebhook, and the acknowledgement. *)
Complete(d) ==
    LET e == EventOf[d] IN
    /\ pc[d] = "complete"
    /\ inbox' = [inbox EXCEPT ![e] = "processed"]
    /\ Acknowledge(d)
    /\ UNCHANGED <<status, receipts, crashes>>

(* The process dies, or a database call fails: no 2xx response.            *)
Crash(d) ==
    /\ pc[d] # "idle"
    /\ crashes < MaxCrashes
    /\ crashes' = crashes + 1
    /\ Goto(d, "idle")
    /\ UNCHANGED <<inbox, status, receipts, acked>>

Deliver(d) ==
    Receive(d) \/ Lookup(d) \/ Create(d) \/ Handle(d) \/ Complete(d)

Next == \E d \in Deliveries : Deliver(d) \/ Crash(d)

Spec == Init /\ [][Next]_vars

(* The provider keeps sending what is not acknowledged, and a delivery     *)
(* that does not die goes on.                                              *)
Fairness == \A d \in Deliveries : WF_vars(Deliver(d))

FairSpec == Spec /\ Fairness
-----------------------------------------------------------------------------
(* Properties. *)

(* Receipt.paymentId is unique: a payment never has a second receipt.      *)
TypeOK ==
    /\ inbox \in [Events -> {"none", "recorded", "processed"}]
    /\ status \in [PaymentIds -> {"PENDING", "SUCCEEDED", "FAILED"}]
    /\ receipts \in [PaymentIds -> 0 .. 1]
    /\ acked \subseteq Events
    /\ pc \in [Deliveries -> {"idle", "lookup", "create", "handle", "complete"}]
    /\ crashes \in 0 .. MaxCrashes

(* A payment has exactly one receipt once it succeeded, however many       *)
(* deliveries of its capture overlap, die and start again.                 *)
OneReceipt ==
    \A p \in PaymentIds : receipts[p] = IF status[p] = "SUCCEEDED" THEN 1 ELSE 0

(* An event marked as processed took effect: the mark is never ahead of    *)
(* the settlement, so a crash between the two repeats the event and does   *)
(* not lose it.                                                            *)
ProcessedTookEffect ==
    \A e \in Events : inbox[e] = "processed" => status[PaymentOf[e]] = OutcomeOf(e)

(* A capture takes effect unless a failure of the same payment came first, *)
(* when the provider sends it again only after the previous delivery ended. *)
DeliveredOneAtATime(e) ==
    /\ \E d \in Deliveries : EventOf[d] = e
    /\ \A c, d \in Deliveries : EventOf[c] = e /\ EventOf[d] = e => c = d

CaptureTakesEffect ==
    \A e \in {f \in Captures : DeliveredOneAtATime(f)} :
        <>(inbox[e] = "processed" \/ status[PaymentOf[e]] = "FAILED")

(* The same under overlapping deliveries, which is what "rather than being *)
(* silently discarded" (payment-service.ts) asks for.  The delivery that   *)
(* lost the race for the inbox row acknowledges the event; if the winner   *)
(* then dies, the event stays recorded and nobody delivers it again.       *)
AckedCaptureTakesEffect ==
    \A e \in Captures :
        e \in acked ~> status[PaymentOf[e]] # "PENDING"
=============================================================================
