---------------------------- MODULE MCCancellation ----------------------------
(* Instances of EventCancellation for TLC. *)
EXTENDS EventCancellation, TLC

CONSTANTS m1, due1, k1, k2, c1, c2, e1

(* One member with a contribution of 2 to the one event. *)
MCOwner == [d \in Dues |-> m1]
MCPurpose == [d \in Dues |-> "CONTRIBUTION"]
MCAmount == [d \in Dues |-> 2]
MCEventOf == [d \in Dues |-> e1]

Interchangeable == Permutations(Keys) \cup Permutations(Calls)
=============================================================================
