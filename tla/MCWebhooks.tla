----------------------------- MODULE MCWebhooks -----------------------------
(* Instances of WebhookDelivery for TLC. *)
EXTENDS WebhookDelivery

CONSTANTS e1, e2, e3, p1, p2

(* A capture of the first payment, of which two deliveries may overlap; a  *)
(* failed attempt on the second payment, then its capture.                 *)
MCPaymentOf == [e \in Events |-> IF e = e1 THEN p1 ELSE p2]

MCEventOf == [d \in Deliveries |-> IF d <= 2 THEN e1 ELSE IF d = 3 THEN e2 ELSE e3]
=============================================================================
