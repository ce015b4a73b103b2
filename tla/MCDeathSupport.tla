--------------------------- MODULE MCDeathSupport ---------------------------
(* Instances of DeathSupport for TLC. *)
EXTENDS DeathSupportPledges, TLC

CONSTANTS m1, m2, r1, r2

(* The first member has a plan from the start, the second has none. *)
MCActivatedAt == [m \in Members |-> IF m = m1 THEN 0 ELSE NoTime]

Interchangeable == Permutations(Reports)
=============================================================================
