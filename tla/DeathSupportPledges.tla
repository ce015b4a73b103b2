------------------------- MODULE DeathSupportPledges -------------------------
(***************************************************************************)
(* DeathSupport implements SupportPledges: the event of a report is an     *)
(* event, its roll are the members who had joined when it was created, and *)
(* a contribution is a pledge, open until its due is settled, overdue and  *)
(* expired ones included.                                                  *)
(***************************************************************************)
EXTENDS DeathSupport

StageOf(r) ==
    CASE events[r].status = "none" -> "none"
      [] events[r].status = "APPROVED" -> "verified"
      [] events[r].status = "PUBLISHED" -> "published"
      [] events[r].status = "CLOSED" -> "closed"
      [] events[r].status = "CANCELLED" -> "cancelled"

RollOf(r) == IF events[r].status = "none" THEN {} ELSE ObligationMembers(r)

PledgeOf(d) ==
    CASE dues[d] = "none" -> "none"
      [] dues[d] \in Unsettled -> "open"
      [] dues[d] = "PAID" -> IF d \in reversals THEN "owed back" ELSE "paid"
      [] OTHER -> "forgiven"

Pledges == INSTANCE SupportPledges WITH
               Events <- Reports,
               stage <- [r \in Reports |-> StageOf(r)],
               roll <- [r \in Reports |-> RollOf(r)],
               pledge <- [d \in Reports \X Members |-> PledgeOf(d)]

(* Whatever the clock, late registrations, the expiry job, reactivations,  *)
(* edits and replayed publications do in between, the dues of an event     *)
(* amount to pledges of the members on its roll, fixed when the death was  *)
(* verified; nobody is asked twice, the deceased is released from all of   *)
(* them, and a cancellation owes back what was paid, nothing else.         *)
ImplementsPledges == Pledges!Spec
=============================================================================
