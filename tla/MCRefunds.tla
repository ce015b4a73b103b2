------------------------------- MODULE MCRefunds ----------------------------
(* Instances of PaymentRefunds for TLC. *)
EXTENDS PaymentRefunds, TLC

CONSTANTS m1, plan1, due1, k1, k2, c1, c2

(* One member with a plan registration of 3 and a contribution of 2. *)
MCOwner == [d \in Dues |-> m1]
MCPurpose == [d \in Dues |-> IF d = plan1 THEN "PLAN_REGISTRATION" ELSE "CONTRIBUTION"]
MCAmount == [d \in Dues |-> IF d = plan1 THEN 3 ELSE 2]

Interchangeable == Permutations(Keys) \cup Permutations(Calls)
=============================================================================
