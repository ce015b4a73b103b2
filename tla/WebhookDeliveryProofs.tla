----------------------- MODULE WebhookDeliveryProofs -----------------------
(* Proofs about WebhookDelivery, for any number of events, payments and    *)
(* overlapping deliveries, and any number of crashes.                      *)
EXTENDS WebhookDelivery, TLAPS

(* A delivery that is about to mark its event found or made it effective.  *)
CompletingTookEffect ==
    \A d \in Deliveries :
        pc[d] = "complete" => status[PaymentOf[EventOf[d]]] = OutcomeOf(EventOf[d])

IInv == TypeOK /\ OneReceipt /\ ProcessedTookEffect /\ CompletingTookEffect

(* Moving one delivery leaves the others where they are. *)
LEMMA GotoMoves ==
    ASSUME TypeOK, NEW d \in Deliveries,
           NEW step \in {"idle", "lookup", "create", "handle", "complete"}, Goto(d, step)
    PROVE  /\ pc' \in [Deliveries -> {"idle", "lookup", "create", "handle", "complete"}]
           /\ pc'[d] = step
           /\ \A c \in Deliveries \ {d} : pc'[c] = pc[c]
  BY DEF TypeOK, Goto

(* A step that changes no payment and completes no delivery keeps the      *)
(* invariant, if it marks as processed only what was being completed.      *)
LEMMA Frame ==
    ASSUME IInv, TypeOK', UNCHANGED <<status, receipts>>,
           \A e \in Events : inbox'[e] = "processed" =>
               \/ inbox[e] = "processed"
               \/ \E d \in Deliveries : EventOf[d] = e /\ pc[d] = "complete",
           \A d \in Deliveries : pc'[d] = "complete" => pc[d] = "complete"
    PROVE  IInv'
  BY DEF IInv, OneReceipt, ProcessedTookEffect, CompletingTookEffect, OutcomeOf

(* The settlement transaction: a pending payment takes the outcome of the  *)
(* event, so no event with the other outcome had taken effect before.      *)
LEMMA HandleKeeps ==
    ASSUME IInv, NEW d \in Deliveries, Handle(d)
    PROVE  IInv'
  <1> DEFINE e == EventOf[d]
  <1> DEFINE p == PaymentOf[e]
  <1>1. e \in Events /\ p \in PaymentIds /\ OutcomeOf(e) \in {"SUCCEEDED", "FAILED"}
    BY WebhookAssumption DEF OutcomeOf
  <1>2. CASE Pending(e)
    <2>1. /\ Goto(d, "complete")
          /\ status' = [status EXCEPT ![p] = OutcomeOf(e)]
          /\ receipts' = IF e \in Captures THEN [receipts EXCEPT ![p] = @ + 1] ELSE receipts
          /\ UNCHANGED <<inbox, acked, crashes>>
      BY <1>2 DEF Handle
    <2>2. status[p] = "PENDING" /\ receipts[p] = 0
      BY <1>1, <1>2 DEF Pending, IInv, OneReceipt
    <2>3. /\ status' \in [PaymentIds -> {"PENDING", "SUCCEEDED", "FAILED"}]
          /\ status'[p] = OutcomeOf(e)
          /\ \A q \in PaymentIds \ {p} : status'[q] = status[q]
      BY <1>1, <2>1 DEF IInv, TypeOK
    <2>4. /\ receipts' \in [PaymentIds -> 0 .. 1]
          /\ receipts'[p] = IF e \in Captures THEN 1 ELSE 0
          /\ \A q \in PaymentIds \ {p} : receipts'[q] = receipts[q]
      BY <1>1, <2>1, <2>2 DEF IInv, TypeOK
    <2>5. TypeOK'
      BY <2>1, <2>3, <2>4, GotoMoves DEF IInv, TypeOK
    <2>6. OneReceipt'
      BY <2>3, <2>4 DEF IInv, OneReceipt, OutcomeOf
    <2>7. \A x \in Events : status[PaymentOf[x]] = OutcomeOf(x) => PaymentOf[x] # p
      BY <2>2 DEF OutcomeOf
    <2>8. /\ \A x \in Events : PaymentOf[x] \in PaymentIds
          /\ \A c \in Deliveries : EventOf[c] \in Events
      BY WebhookAssumption
    <2>9. ProcessedTookEffect'
      BY <2>1, <2>3, <2>7, <2>8 DEF IInv, ProcessedTookEffect, OutcomeOf
    <2>10. \A c \in Deliveries : pc'[c] = "complete" =>
               EventOf[c] = e \/ status[PaymentOf[EventOf[c]]] = OutcomeOf(EventOf[c])
      BY <2>1, GotoMoves DEF IInv, CompletingTookEffect
    <2>11. CompletingTookEffect'
      BY <2>3, <2>7, <2>8, <2>10 DEF CompletingTookEffect, OutcomeOf
    <2> QED
      BY <2>5, <2>6, <2>9, <2>11 DEF IInv
  <1>3. CASE ~Pending(e)
    <2>1. PICK step \in {"complete", "idle"} :
              /\ Goto(d, step)
              /\ step = "complete" => status[p] = OutcomeOf(e)
      BY <1>3 DEF Handle
    <2>2. UNCHANGED <<inbox, status, receipts, acked, crashes>>
      BY <1>3 DEF Handle
    <2>3. TypeOK'
      BY <2>1, <2>2, GotoMoves DEF IInv, TypeOK
    <2>4. OneReceipt' /\ ProcessedTookEffect'
      BY <2>2 DEF IInv, OneReceipt, ProcessedTookEffect, OutcomeOf
    <2>5. CompletingTookEffect'
      BY <2>1, <2>2, GotoMoves DEF IInv, CompletingTookEffect, OutcomeOf
    <2> QED
      BY <2>3, <2>4, <2>5 DEF IInv
  <1> QED
    BY <1>2, <1>3

(* Every step of every delivery preserves the invariant. *)
LEMMA Inductive == IInv /\ [Next]_vars => IInv'
  <1> SUFFICES ASSUME IInv, [Next]_vars PROVE IInv'
    OBVIOUS
  <1>1. ASSUME NEW d \in Deliveries, Receive(d)
        PROVE  IInv'
    <2>1. TypeOK'
      BY <1>1, GotoMoves DEF IInv, TypeOK, Receive
    <2> QED
      BY <1>1, <2>1, GotoMoves, Frame DEF IInv, Receive
  <1>2. ASSUME NEW d \in Deliveries, Lookup(d)
        PROVE  IInv'
    <2>1. PICK step \in {"idle", "handle", "create"} : Goto(d, step)
      BY <1>2 DEF Lookup, Acknowledge
    <2>2. TypeOK'
      BY <1>2, <2>1, GotoMoves, WebhookAssumption DEF IInv, TypeOK, Lookup, Acknowledge
    <2> QED
      BY <1>2, <2>1, <2>2, GotoMoves, Frame DEF IInv, Lookup
  <1>3. ASSUME NEW d \in Deliveries, Create(d)
        PROVE  IInv'
    <2>1. PICK step \in {"idle", "handle"} : Goto(d, step)
      BY <1>3 DEF Create, Acknowledge
    <2>2. /\ inbox' \in [Events -> {"none", "recorded", "processed"}]
          /\ \A x \in Events : inbox'[x] = "processed" => inbox[x] = "processed"
      BY <1>3 DEF IInv, TypeOK, Create, FreshRow
    <2>3. TypeOK'
      BY <1>3, <2>1, <2>2, GotoMoves, WebhookAssumption DEF IInv, TypeOK, Create, Acknowledge
    <2> QED
      BY <1>3, <2>1, <2>2, <2>3, GotoMoves, Frame DEF IInv, Create
  <1>4. ASSUME NEW d \in Deliveries, Complete(d)
        PROVE  IInv'
    <2>1. Goto(d, "idle") /\ pc[d] = "complete"
      BY <1>4 DEF Complete, Acknowledge
    <2>2. /\ inbox' \in [Events -> {"none", "recorded", "processed"}]
          /\ \A x \in Events : inbox'[x] = "processed" => inbox[x] = "processed" \/ x = EventOf[d]
      BY <1>4 DEF IInv, TypeOK, Complete
    <2>3. TypeOK'
      BY <1>4, <2>1, <2>2, GotoMoves, WebhookAssumption DEF IInv, TypeOK, Complete, Acknowledge
    <2> QED
      BY <1>4, <2>1, <2>2, <2>3, GotoMoves, Frame DEF IInv, Complete
  <1>5. ASSUME NEW d \in Deliveries, Crash(d)
        PROVE  IInv'
    <2>1. crashes' \in 0 .. MaxCrashes
      BY <1>5, WebhookAssumption DEF IInv, TypeOK, Crash
    <2>2. TypeOK'
      BY <1>5, <2>1, GotoMoves DEF IInv, TypeOK, Crash
    <2> QED
      BY <1>5, <2>2, GotoMoves, Frame DEF IInv, Crash
  <1>6. CASE UNCHANGED vars
    <2>1. TypeOK'
      BY <1>6 DEF IInv, TypeOK, vars
    <2> QED
      BY <1>6, <2>1, Frame DEF vars
  <1> QED
    BY <1>1, <1>2, <1>3, <1>4, <1>5, <1>6, HandleKeeps DEF Next, Deliver

(* The inductive invariant holds in every reachable state. *)
THEOREM Invariance == Spec => []IInv
  <1>1. Init => IInv
    BY WebhookAssumption
       DEF Init, IInv, TypeOK, OneReceipt, ProcessedTookEffect, CompletingTookEffect
  <1> QED
    BY <1>1, Inductive, PTL DEF Spec

(* The tables of the inbox stay typed; no payment gets a second receipt. *)
THEOREM TypeCorrect == Spec => []TypeOK
  <1>1. IInv => TypeOK
    BY DEF IInv
  <1> QED
    BY <1>1, Invariance, PTL

(* However deliveries overlap and die, a payment has a receipt exactly if  *)
(* it succeeded (settlePayment behind the inbox).                          *)
THEOREM ReceiptsAreExact == Spec => []OneReceipt
  <1>1. IInv => OneReceipt
    BY DEF IInv
  <1> QED
    BY <1>1, Invariance, PTL

(* The processed mark is never ahead of the settlement (completeWebhook).  *)
THEOREM MarksAreTrue == Spec => []ProcessedTookEffect
  <1>1. IInv => ProcessedTookEffect
    BY DEF IInv
  <1> QED
    BY <1>1, Invariance, PTL
=============================================================================
