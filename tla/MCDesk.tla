------------------------------- MODULE MCDesk -------------------------------
(* Instances of DeathDesk for TLC. *)
EXTENDS DeathDesk, TLC

CONSTANTS m1, m2, r1, r2, a1, a2, co1, p1, f1, f2, k1

(* Every member has a plan and the one Coordinator. *)
MCActivatedAt == [m \in Members |-> 0]
MCCoordinatorOf == [m \in Members |-> co1]

Interchangeable == Permutations(Reports) \cup Permutations(Administrators)
                       \cup Permutations(StorageKeys)
=============================================================================
