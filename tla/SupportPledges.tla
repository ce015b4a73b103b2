---------------------------- MODULE SupportPledges ----------------------------
(***************************************************************************)
(* What the community promises when a member has died: the members of that *)
(* moment are put on the roll of the event, all of them and nobody else    *)
(* are asked for a contribution once the event is published, and what an   *)
(* event that is cancelled after all asked for is forgiven or owed back.   *)
(* Reports, reviews, dues, jobs and the clock do not exist here, nor does  *)
(* who is alive: members who died before are on the roll.                  *)
(***************************************************************************)
CONSTANTS Members, Events

VARIABLES
    stage,      \* of each event: none, verified, published, closed, cancelled
    roll,       \* of each event: who contributes
    pledge      \* of each event and member: none, open, paid, forgiven, owed back

vars == <<stage, roll, pledge>>

Init ==
    /\ stage = [e \in Events |-> "none"]
    /\ roll = [e \in Events |-> {}]
    /\ pledge = [p \in Events \X Members |-> "none"]

(* The death of m is verified as event e: its roll is fixed, and what m    *)
(* still owes to other events is forgiven.                                 *)
Verify(e, m, contributors) ==
    /\ stage[e] = "none"
    /\ m \notin contributors
    /\ stage' = [stage EXCEPT ![e] = "verified"]
    /\ roll' = [roll EXCEPT ![e] = contributors]
    /\ pledge' = [p \in Events \X Members |->
                    IF p[2] = m /\ pledge[p] = "open" THEN "forgiven" ELSE pledge[p]]

Publish(e) ==
    /\ stage[e] = "verified"
    /\ stage' = [stage EXCEPT ![e] = "published"]
    /\ pledge' = [p \in Events \X Members |->
                    IF p[1] = e /\ p[2] \in roll[e] THEN "open" ELSE pledge[p]]
    /\ UNCHANGED roll

Pay(p) ==
    /\ pledge[p] = "open"
    /\ pledge' = [pledge EXCEPT ![p] = "paid"]
    /\ UNCHANGED <<stage, roll>>

Close(e) ==
    /\ stage[e] = "published"
    /\ stage' = [stage EXCEPT ![e] = "closed"]
    /\ UNCHANGED <<roll, pledge>>

Cancel(e) ==
    /\ stage[e] \in {"published", "closed"}
    /\ stage' = [stage EXCEPT ![e] = "cancelled"]
    /\ pledge' = [p \in Events \X Members |->
                    IF p[1] # e THEN pledge[p]
                    ELSE CASE pledge[p] = "open" -> "forgiven"
                           [] pledge[p] = "paid" -> "owed back"
                           [] OTHER -> pledge[p]]
    /\ UNCHANGED roll

Next ==
    \/ \E e \in Events :
          \/ \E m \in Members, contributors \in SUBSET Members : Verify(e, m, contributors)
          \/ Publish(e) \/ Close(e) \/ Cancel(e)
    \/ \E p \in Events \X Members : Pay(p)

Spec == Init /\ [][Next]_vars
=============================================================================
