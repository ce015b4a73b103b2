------------------------------ MODULE DeathDesk ------------------------------
(***************************************************************************)
(* The desks at which death reports and events are worked on: the queue of *)
(* an Administrator, the queue of a Coordinator, and the condolences below *)
(* an event.  A screen is what the last successful load showed, and may be *)
(* out of date when one of its buttons is clicked; two people may decide   *)
(* about the same report.  The server decides again, in a transaction; its *)
(* answer, or the reload that follows it, may be lost.                     *)
(*                                                                         *)
(* Reports arrive through ReportIntake only.  Who coordinates a member     *)
(* does not change; sessions and permissions are not modelled.             *)
(***************************************************************************)
EXTENDS ReportIntake

CONSTANTS
    Administrators, Coordinators,
    CoordinatorOf,      \* Member.coordinatorId; not a Coordinator for SQL NULL
    Condolences,        \* comments
    NoCondolence

Staff == Administrators \cup Coordinators

ASSUME DeskAssumption ==
    /\ Administrators \cap Coordinators = {}
    /\ NoCondolence \notin Condolences

VARIABLES
    screen,         \* what a screen shows: reports and events
    told,           \* the message on a screen
    condolences     \* the Comment table: event and status

desk == <<screen, told, condolences>>
deskVars == <<vars, intake, desk>>

Deeds == {"approved", "rejected", "linked", "confirmed",
          "published", "edited", "cancelled", "closed", "moderated"}

Message(deed, r, m, c) == [deed |-> deed, report |-> r, member |-> m, condolence |-> c]

NoMessage == Message("none", NoCase, Nobody, NoCondolence)

Done(deed, r) == Message(deed, r, Nobody, NoCondolence)

-----------------------------------------------------------------------------
(* What a load returns, from the tables c and e.                           *)

Assigned(s, m) == m # Unmatched /\ CoordinatorOf[m] = s

ListAdminDeathReports(c) == {r \in Reports : c[r].status # "none"}

ListCoordinatorDeathReports(s, c) ==
    {r \in Reports : c[r].status = "REPORTED" /\ ~c[r].review /\ Assigned(s, c[r].member)}

ListAdminDeathSupportEvents(e) == {r \in Reports : e[r].status # "none"}

ListCoordinatorPublishedEvents(s, c, e) ==
    {r \in Reports : e[r].status = "PUBLISHED" /\ Assigned(s, c[r].member)}

(* A report without a member that awaits verification is offered for       *)
(* linking.                                                                *)
ReportsShown(s, c) ==
    LET listed == IF s \in Administrators THEN ListAdminDeathReports(c)
                  ELSE ListCoordinatorDeathReports(s, c)
    IN  [r \in Reports |-> IF r \notin listed THEN "none"
                           ELSE IF c[r].status = "ADMIN_VERIFICATION" /\ c[r].member = Unmatched
                           THEN "UNMATCHED" ELSE c[r].status]

EventsShown(s, c, e) ==
    LET listed == IF s \in Administrators THEN ListAdminDeathSupportEvents(e)
                  ELSE ListCoordinatorPublishedEvents(s, c, e)
    IN  [r \in Reports |-> IF r \in listed THEN e[r].status ELSE "none"]

BlankScreen == [reports |-> [r \in Reports |-> "none"], events |-> [r \in Reports |-> "none"]]

Shows(s, c, e) == [reports |-> ReportsShown(s, c), events |-> EventsShown(s, c, e)]

DeskInit ==
    /\ IntakeInit
    /\ screen = [s \in Staff |-> BlankScreen]
    /\ told = [s \in Staff |-> NoMessage]
    /\ condolences = [k \in Condolences |-> [event |-> NoCase, status |-> "none"]]

(* The page is opened.  The two requests of a load are taken as one, since *)
(* nothing on a screen depends on both lists.                              *)
Load(s) ==
    /\ screen' = [screen EXCEPT ![s] = Shows(s, cases, events)]
    /\ told' = [told EXCEPT ![s] = NoMessage]
    /\ UNCHANGED <<vars, intake, condolences>>

(* An answer is shown, and the screen reloaded.  When the answer is lost   *)
(* or the reload fails, the message says no more than that.                *)
Answered(s, message) ==
    \/ /\ told' = [told EXCEPT ![s] = message]
       /\ screen' = [screen EXCEPT ![s] = Shows(s, cases', events')]
    \/ /\ told' = [told EXCEPT ![s] = NoMessage]
       /\ UNCHANGED screen

(* The server refuses, for whatever reason, and changes nothing.           *)
Refused(s) ==
    /\ screen[s] # BlankScreen
    /\ UNCHANGED <<vars, intake, condolences>>
    /\ Answered(s, NoMessage)

Elsewhere == UNCHANGED <<intake, condolences>>

-----------------------------------------------------------------------------
(* An Administrator. *)

Undecided == {"REPORTED", "COORDINATOR_CONFIRMED", "ADMIN_VERIFICATION", "UNMATCHED"}

ClickReview(a, r) ==
    /\ screen[a].reports[r] \in Undecided
    /\ \/ ApproveReport(r) /\ Answered(a, Done("approved", r))
       \/ RejectReport(r) /\ Answered(a, Done("rejected", r))
    /\ Elsewhere

(* searchReportableMembers: whom the search offers for a report, which the *)
(* server checks again.                                                    *)
ClickLink(a, r, m) ==
    /\ screen[a].reports[r] = "UNMATCHED"
    /\ LinkReport(r, m)
    /\ Answered(a, Message("linked", r, m, NoCondolence))
    /\ Elsewhere

ClickPublish(a, r) ==
    /\ screen[a].events[r] = "APPROVED"
    /\ PublishEvent(r)
    /\ Answered(a, Done("published", r))
    /\ Elsewhere

(* Cancelling is offered for published events only.                        *)
ClickPublished(a, r) ==
    /\ screen[a].events[r] = "PUBLISHED"
    /\ \/ \E dod \in Time : EditEvent(r, dod) /\ Answered(a, Done("edited", r))
       \/ CancelEvent(r) /\ Answered(a, Done("cancelled", r))
       \/ CloseEvent(r) /\ Answered(a, Done("closed", r))
    /\ Elsewhere

(* A Coordinator. *)
ClickConfirm(c, r) ==
    /\ screen[c].reports[r] = "REPORTED"
    /\ Assigned(c, cases[r].member)
    /\ ConfirmReport(r)
    /\ Answered(c, Done("confirmed", r))
    /\ Elsewhere

-----------------------------------------------------------------------------
(* Condolences. *)

(* addCondolenceComment, from a page that showed the event as published.   *)
(* Its author is any member, of this instance or another, whose status is  *)
(* neither CLOSED nor DECEASED.                                            *)
AddCondolence(r, k) ==
    /\ condolences[k].status = "none"
    /\ events[r].status = "PUBLISHED"
    /\ condolences' = [condolences EXCEPT ![k] = [event |-> r, status |-> "PUBLISHED"]]
    /\ UNCHANGED <<vars, intake, screen, told>>

(* moderateDeathEventComment, from a list of comments that may be old: a   *)
(* comment that has been moderated is answered like one that has not.      *)
ModerateCondolence(s, k) ==
    /\ condolences[k].status # "none"
    /\ s \in Administrators \/ Assigned(s, cases[condolences[k].event].member)
    /\ condolences' = [condolences EXCEPT ![k].status = "MODERATED"]
    /\ UNCHANGED <<vars, intake>>

ClickModerate(s, k) ==
    LET r == condolences[k].event IN
    /\ ModerateCondolence(s, k)
    /\ screen[s].events[r] \in {"PUBLISHED", "CLOSED"}
    /\ \E message \in {NoMessage, Message("moderated", r, Nobody, k)} :
          told' = [told EXCEPT ![s] = message]
    /\ UNCHANGED screen

AdministratorWork(a) ==
    \E r \in Reports :
       \/ ClickReview(a, r)
       \/ \E m \in Members : ClickLink(a, r, m)
       \/ ClickPublish(a, r)
       \/ ClickPublished(a, r)

CoordinatorWork(c) == \E r \in Reports : ClickConfirm(c, r)

Visitor == \E r \in Reports, k \in Condolences : AddCondolence(r, k)

DeskWork ==
    \/ \E a \in Administrators : AdministratorWork(a)
    \/ \E c \in Coordinators : CoordinatorWork(c)
    \/ \E s \in Staff :
          \/ Load(s) \/ Refused(s)
          \/ \E k \in Condolences : ClickModerate(s, k)
    \/ Visitor

DeskNext ==
    \/ (Tick \/ Membership) /\ UNCHANGED <<intake, desk>>
    \/ IntakeNext /\ UNCHANGED desk
    \/ DeskWork

DeskSpec == DeskInit /\ [][DeskNext]_deskVars
-----------------------------------------------------------------------------
(* Properties. *)

(* What a screen can show of a report and of an event.                     *)
ReportStatuses == {"none", "UNMATCHED", "REPORTED", "COORDINATOR_CONFIRMED",
                   "ADMIN_VERIFICATION", "APPROVED", "REJECTED", "CANCELLED"}
EventStatuses == {"none", "APPROVED", "PUBLISHED", "CLOSED", "CANCELLED"}

DeskTypeOK ==
    /\ DeathTypeOK
    /\ IntakeTypeOK
    /\ screen \in [Staff -> [reports : [Reports -> ReportStatuses],
                             events : [Reports -> EventStatuses]]]
    /\ told \in [Staff -> [deed : Deeds \cup {"none"},
                           report : Reports \cup {NoCase},
                           member : Members \cup {Nobody},
                           condolence : Condolences \cup {NoCondolence}]]
    /\ condolences \in [Condolences -> [event : Reports \cup {NoCase},
                                        status : {"none", "PUBLISHED", "MODERATED"}]]

(* What each deed leaves behind for good. *)
Stands(t) ==
    /\ t.deed = "approved" => cases[t.report].status \in {"APPROVED", "CANCELLED"}
    /\ t.deed = "rejected" => cases[t.report].status = "REJECTED"
    /\ t.deed = "linked" => cases[t.report].member = t.member
    /\ t.deed = "confirmed" => cases[t.report].status # "REPORTED"
    /\ t.deed \in {"published", "edited"} => events[t.report].publishedAt # NoTime
    /\ t.deed = "cancelled" => events[t.report].status = "CANCELLED"
    /\ t.deed = "closed" => events[t.report].status \in {"CLOSED", "CANCELLED"}
    /\ t.deed = "moderated" => condolences[t.condolence].status = "MODERATED"

(* What a member of staff has been told of a decision stays true, however  *)
(* many decide about the same report and event from screens that are out   *)
(* of date: the second of two decisions is refused, never carried out over *)
(* the first.                                                              *)
ToldStands == \A s \in Staff : Stands(told[s])
=============================================================================
