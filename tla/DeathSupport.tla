---------------------------- MODULE DeathSupport ----------------------------
(***************************************************************************)
(* Members, death reports and death support events.  A verified death      *)
(* makes its member DECEASED and creates an event; publishing the event    *)
(* charges a contribution to everyone who was a member when it was         *)
(* created.  Members who let dues expire become INACTIVE, and reactivate   *)
(* themselves once everything is settled.                                  *)
(*                                                                         *)
(* Operations on reports and events run in Serializable transactions that  *)
(* are retried on conflict: one action each.  The expiry job and the       *)
(* reactivation run at READ COMMITTED, so each of their statements is a    *)
(* step.  The job handles all members in one transaction; what it does     *)
(* for one member touches no other, so the model runs it per member.  The  *)
(* dues it expired stay locked until it commits, and whoever writes one of *)
(* them waits.  An instant of the clock is longer than a transaction.      *)
(*                                                                         *)
(* A due is named by its cause: <<r, m>> is the contribution of m to the   *)
(* event of report r, <<Fee, m>> the membership due of m.                  *)
(***************************************************************************)
EXTENDS DueRules, FiniteSets

CONSTANTS
    Members,
    Founders,           \* the members registered at instant 0
    Reports,            \* death reports; the event of a report bears its name
    Fee,                \* the cause of a membership due
    Unmatched, NoTime,  \* SQL NULL
    ActivatedAt,        \* CommunitySupportPlan.activatedAt, NoTime without a plan
    WaitingTime,        \* the waiting period of a plan
    Nominated,          \* members with a current, verified primary nominee
    FeeTime,            \* time to pay the membership due
    DueTime,            \* contributionDueDays
    InactiveAfter,      \* inactiveExpiredDuesThreshold
    MaxTime             \* bound: the last instant

ASSUME DeathSupportAssumption ==
    /\ Founders \subseteq Members
    /\ Fee \notin Reports
    /\ Unmatched \notin Members
    /\ NoTime \notin Nat
    /\ ActivatedAt \in [Members -> Nat \cup {NoTime}]
    /\ WaitingTime \in Nat
    /\ FeeTime \in Nat \ {0}
    /\ DueTime \in Nat \ {0}
    /\ InactiveAfter \in Nat \ {0}
    /\ MaxTime \in Nat

VARIABLES
    now,            \* the clock
    joined,         \* Member.joinedAt
    memberStatus,   \* Member.status
    history,        \* the Membership rows of a member
    plan,           \* CommunitySupportPlan.status
    cases,          \* the DeathCase table
    events,         \* the ContributionEvent table
    dues,           \* Due.status; a contribution has a due as soon as it exists
    reversals,      \* contributions with a ContributionEventReversal
    job,            \* expiry job: how far it is with a member, and with which dues
    reactivation    \* reactivateMembership: how far it is with a member

people == <<joined, memberStatus, history, plan>>
vars == <<now, people, cases, events, dues, reversals, job, reactivation>>

Time == 0 .. MaxTime
DueIds == (Reports \cup {Fee}) \X Members
Period(s, t) == [status |-> s, from |-> t, to |-> NoTime]
Idle == [step |-> "idle", batch |-> {}]

Init ==
    /\ now = 0
    /\ joined = [m \in Members |-> IF m \in Founders THEN 0 ELSE NoTime]
    /\ memberStatus = [m \in Members |-> "ACTIVE"]
    /\ history = [m \in Members |-> IF m \in Founders THEN {Period("ACTIVE", 0)} ELSE {}]
    /\ plan = [m \in Members |-> IF ActivatedAt[m] = NoTime THEN "NONE" ELSE "ACTIVE"]
    /\ cases = [r \in Reports |-> [status |-> "none", member |-> Unmatched, review |-> FALSE,
                                   dod |-> 0, eligibility |-> "PENDING"]]
    /\ events = [r \in Reports |-> [status |-> "none", createdAt |-> NoTime, publishedAt |-> NoTime]]
    /\ dues = [d \in DueIds |-> IF d[1] = Fee /\ d[2] \in Founders THEN "PENDING" ELSE "none"]
    /\ reversals = {}
    /\ job = [m \in Members |-> Idle]
    /\ reactivation = [m \in Members |-> "idle"]

-----------------------------------------------------------------------------
(* Membership. *)

Joined(m) == joined[m] # NoTime

DuesOf(m) == {d \in DueIds : d[2] = m}

Deadline(d) == IF d[1] = Fee THEN joined[d[2]] + FeeTime ELSE events[d[1]].publishedAt + DueTime

(* Wrong variant: the period that ends stays open. *)
LeavePeriods(periods, t) == periods

EndPeriods(periods, t) == {[p EXCEPT !.to = IF @ = NoTime THEN t ELSE @] : p \in periods}

(* A change of Member.status ends the open period and begins another.      *)
BeginStatus(m, s, t) ==
    /\ memberStatus' = [memberStatus EXCEPT ![m] = s]
    /\ history' = [history EXCEPT ![m] = EndPeriods(@, t) \cup {Period(s, t)}]

(* registerMemberPersistently.  A member who is not there when an event is *)
(* created joins at a later instant.                                       *)
Register(m) ==
    /\ ~Joined(m)
    /\ \A r \in Reports : events[r].createdAt # now
    /\ joined' = [joined EXCEPT ![m] = now]
    /\ history' = [history EXCEPT ![m] = {Period("ACTIVE", now)}]
    /\ dues' = [dues EXCEPT ![<<Fee, m>>] = "PENDING"]
    /\ UNCHANGED <<now, memberStatus, plan, cases, events, reversals, job, reactivation>>

(* Wrong variant: what the job has expired is not locked. *)
NeverLocked(d) == FALSE

Locked(d) == job[d[2]].step \in {"expired", "inactivate"} /\ d \in job[d[2]].batch

(* A membership or contribution due is paid by one of the ways of Payments. *)
PayDue(d) ==
    /\ ~Locked(d)
    /\ dues[d] \in Unsettled
    /\ dues' = [dues EXCEPT ![d] = "PAID"]
    /\ UNCHANGED <<now, people, cases, events, reversals, job, reactivation>>

JobGoto(m, step, batch) == job' = [job EXCEPT ![m] = [step |-> step, batch |-> batch]]

(* processMembershipDueExpiry: the candidates. *)
ReadExpired(m) ==
    LET batch == {d \in DuesOf(m) : DueForExpiry(dues[d], Deadline(d), now)}
    IN
    /\ job[m].step = "idle"
    /\ batch # {}
    /\ JobGoto(m, "read", batch)
    /\ UNCHANGED <<now, people, cases, events, dues, reversals, reactivation>>

StillOpen(batch) == {d \in batch : dues[d] \in Expirable}

(* The update of the dues, which locks the rows it changes.                *)
ExpireDues(m) ==
    LET batch == StillOpen(job[m].batch) IN
    /\ job[m].step = "read"
    /\ dues' = [d \in DueIds |-> IF d \in batch THEN "EXPIRED" ELSE dues[d]]
    /\ JobGoto(m, "expired", batch)
    /\ UNCHANGED <<now, people, cases, events, reversals, reactivation>>

ExpiredContributions(m) == Cardinality({r \in Reports : dues[<<r, m>>] = "EXPIRED"})

ShouldMarkMembershipInactive(m) ==
    ExpiredContributions(m) >= InactiveAfter \/ dues[<<Fee, m>>] = "EXPIRED"

(* The decision about the member, from its status and the counts.          *)
DecideInactive(m) ==
    /\ job[m].step = "expired"
    /\ job' = [job EXCEPT ![m] =
                  IF memberStatus[m] = "ACTIVE" /\ ShouldMarkMembershipInactive(m)
                  THEN [@ EXCEPT !.step = "inactivate"] ELSE Idle]
    /\ UNCHANGED <<now, people, cases, events, dues, reversals, reactivation>>

(* The update of the member by id, and the commit.                         *)
WriteInactive(m) ==
    /\ job[m].step = "inactivate"
    /\ BeginStatus(m, "INACTIVE", now)
    /\ job' = [job EXCEPT ![m] = Idle]
    /\ UNCHANGED <<now, joined, plan, cases, events, dues, reversals, reactivation>>

ReactivationGoto(m, step) == reactivation' = [reactivation EXCEPT ![m] = step]

(* reactivateMembership: the member. *)
ReadInactive(m) ==
    /\ reactivation[m] = "idle"
    /\ Joined(m) /\ memberStatus[m] = "INACTIVE"
    /\ ReactivationGoto(m, "inactive")
    /\ UNCHANGED <<now, people, cases, events, dues, reversals, job>>

(* Wrong variant: expired dues do not count. *)
OpenOnly(m) == {d \in DuesOf(m) : dues[d] \in Expirable}

Outstanding(m) == {d \in DuesOf(m) : dues[d] \in Unsettled}

(* reactivateMembership: the dues.  A refusal ends the request.            *)
ReadDues(m) ==
    /\ reactivation[m] = "inactive"
    /\ ReactivationGoto(m, IF Outstanding(m) = {} /\ dues[<<Fee, m>>] = "PAID"
                           THEN "settled" ELSE "idle")
    /\ UNCHANGED <<now, people, cases, events, dues, reversals, job>>

(* reactivateMembership: the update of the member by id, and the commit.   *)
WriteActive(m) ==
    /\ reactivation[m] = "settled"
    /\ BeginStatus(m, "ACTIVE", now)
    /\ ReactivationGoto(m, "idle")
    /\ UNCHANGED <<now, joined, plan, cases, events, dues, reversals, job>>

-----------------------------------------------------------------------------
(* Eligibility for support. *)

(* Membership.status at an instant: the period that began last, any of     *)
(* those that began together, or the present status without a period.      *)
MembershipStatusAtDeath(m, t) ==
    LET covering == {p \in history[m] : p.from <= t /\ (p.to = NoTime \/ p.to >= t)}
    IN  IF covering = {} THEN {memberStatus[m]}
        ELSE {p.status : p \in {q \in covering : \A o \in covering : o.from <= q.from}}

PlanCovers(m, t) == plan[m] = "ACTIVE" /\ ActivatedAt[m] # NoTime /\ ActivatedAt[m] <= t

(* What evaluateDeathSupportEligibility may return.                        *)
Eligibility(m, t) ==
    IF m = Unmatched \/ joined[m] > t THEN {"INELIGIBLE"}
    ELSE {IF s \in {"INACTIVE", "CLOSED"} THEN "ADMIN_REVIEW"
          ELSE IF ~PlanCovers(m, t) THEN "INELIGIBLE"
          ELSE IF ActivatedAt[m] + WaitingTime > t \/ m \notin Nominated THEN "ADMIN_REVIEW"
          ELSE "ELIGIBLE" : s \in MembershipStatusAtDeath(m, t)}

-----------------------------------------------------------------------------
(* Reports. *)

(* A case that keeps its member from being reported again.                 *)
Live(r) == cases[r].status \notin {"none", "REJECTED", "CANCELLED"}

(* Wrong variant: only a verified death prevents another report. *)
NotYetDeceased(m) == Joined(m) /\ memberStatus[m] # "DECEASED"

CanBeReported(m) ==
    /\ Joined(m)
    /\ memberStatus[m] # "DECEASED"
    /\ \A r \in Reports : Live(r) => cases[r].member # m

(* submitDeathReport.  A duplicate is only logged: a stuttering step.      *)
SubmitDeathReport(r, m, dod) ==
    /\ cases[r].status = "none"
    /\ m # Unmatched => CanBeReported(m)
    /\ dod <= now
    /\ \E verdict \in Eligibility(m, dod) :
          LET review == m = Unmatched \/ verdict # "ELIGIBLE" \/ memberStatus[m] \in {"INACTIVE", "CLOSED"}
          IN  cases' = [cases EXCEPT ![r] =
                  [status |-> IF review THEN "ADMIN_VERIFICATION" ELSE "REPORTED",
                   member |-> m, review |-> review, dod |-> dod, eligibility |-> verdict]]
    /\ UNCHANGED <<now, people, events, dues, reversals, job, reactivation>>

(* linkUnmatchedDeathReportToMember *)
LinkReport(r, m) ==
    /\ cases[r].status = "ADMIN_VERIFICATION"
    /\ cases[r].member = Unmatched
    /\ CanBeReported(m)
    /\ \E verdict \in Eligibility(m, cases[r].dod) :
          cases' = [cases EXCEPT ![r].member = m, ![r].review = TRUE, ![r].eligibility = verdict]
    /\ UNCHANGED <<now, people, events, dues, reversals, job, reactivation>>

(* confirmDeathReportByCoordinator *)
ConfirmReport(r) ==
    /\ cases[r].status = "REPORTED"
    /\ cases[r].member # Unmatched /\ ~cases[r].review
    /\ cases' = [cases EXCEPT ![r].status = "COORDINATOR_CONFIRMED"]
    /\ UNCHANGED <<now, people, events, dues, reversals, job, reactivation>>

(* Wrong variant: an approved report may be reviewed again. *)
ReviewableAgain(r) == cases[r].status \notin {"none", "REJECTED", "CANCELLED"}

Reviewable(r) == cases[r].status \in {"REPORTED", "COORDINATOR_CONFIRMED", "ADMIN_VERIFICATION"}

(* reviewDeathReportByAdmin, decision REJECT *)
RejectReport(r) ==
    /\ Reviewable(r)
    /\ cases' = [cases EXCEPT ![r].status = "REJECTED"]
    /\ UNCHANGED <<now, people, events, dues, reversals, job, reactivation>>

(* Wrong variant: the status changes as of the date of death. *)
AtDeath(r) == cases[r].dod

(* reviewedAt *)
DeceasedFrom(r) == now

(* Wrong variant: the contributions of the deceased are not waived. *)
MarkDeceasedInDebt(m, t) ==
    /\ BeginStatus(m, "DECEASED", t)
    /\ dues' = [dues EXCEPT ![<<Fee, m>>] = IF @ \in Unsettled THEN "WAIVED" ELSE @]
    /\ plan' = [plan EXCEPT ![m] = IF @ = "ACTIVE" THEN "SUSPENDED" ELSE @]

(* The deceased transition: unsettled dues are waived, the plan suspended. *)
MarkDeceased(m, t) ==
    /\ BeginStatus(m, "DECEASED", t)
    /\ dues' = [d \in DueIds |-> IF d[2] = m /\ dues[d] \in Unsettled THEN "WAIVED" ELSE dues[d]]
    /\ plan' = [plan EXCEPT ![m] = IF @ = "ACTIVE" THEN "SUSPENDED" ELSE @]

(* reviewDeathReportByAdmin, decision APPROVE *)
ApproveReport(r) ==
    LET m == cases[r].member IN
    /\ Reviewable(r)
    /\ m # Unmatched
    /\ \A d \in DuesOf(m) : ~Locked(d)
    /\ \E verdict \in Eligibility(m, cases[r].dod) :
          cases' = [cases EXCEPT ![r].status = "APPROVED", ![r].eligibility = verdict]
    /\ events' = IF events[r].status # "none" THEN events
                 ELSE [events EXCEPT ![r] =
                          [status |-> "APPROVED", createdAt |-> now, publishedAt |-> NoTime]]
    /\ IF memberStatus[m] = "DECEASED" THEN UNCHANGED <<memberStatus, history, dues, plan>>
       ELSE MarkDeceased(m, DeceasedFrom(r))
    /\ UNCHANGED <<now, joined, reversals, job, reactivation>>

-----------------------------------------------------------------------------
(* Events. *)

(* Wrong variant: whoever is a member at publication contributes. *)
MembersAtPublication(r) == {m \in Members : Joined(m)} \ {cases[r].member}

ObligationMembers(r) ==
    {m \in Members : Joined(m) /\ joined[m] <= events[r].createdAt} \ {cases[r].member}

(* publishDeathSupportEvent, and generateContributionDuesForApprovedEvent: *)
(* a replay on a published event charges whom it missed.                   *)
PublishEvent(r) ==
    /\ events[r].status \in {"APPROVED", "PUBLISHED"}
    /\ events' = IF events[r].publishedAt # NoTime THEN events
                 ELSE [events EXCEPT ![r].status = "PUBLISHED", ![r].publishedAt = now]
    /\ dues' = [d \in DueIds |->
                  IF d[1] = r /\ d[2] \in ObligationMembers(r) /\ dues[d] = "none"
                  THEN "PENDING" ELSE dues[d]]
    /\ UNCHANGED <<now, people, cases, reversals, job, reactivation>>

(* editPublishedDeathSupportEvent, when it changes the date of death.      *)
EditEvent(r, dod) ==
    /\ events[r].status = "PUBLISHED"
    /\ dod <= now
    /\ cases' = [cases EXCEPT ![r].dod = dod]
    /\ UNCHANGED <<now, people, events, dues, reversals, job, reactivation>>

(* closeDeathSupportEvent *)
CloseEvent(r) ==
    /\ events[r].status = "PUBLISHED"
    /\ events' = [events EXCEPT ![r].status = "CLOSED"]
    /\ UNCHANGED <<now, people, cases, dues, reversals, job, reactivation>>

ContributionsTo(r) == {d \in DueIds : d[1] = r}

(* prepareEventCancellation: unpaid dues are cancelled, paid ones get a    *)
(* reversal; a repeated call changes nothing.                              *)
CancelEvent(r) ==
    /\ events[r].status \in {"PUBLISHED", "CLOSED"}
    /\ \A d \in ContributionsTo(r) : ~Locked(d)
    /\ reversals' = reversals \cup {d \in ContributionsTo(r) : dues[d] = "PAID"}
    /\ dues' = [d \in DueIds |->
                  IF d[1] = r /\ dues[d] \in Unsettled THEN "CANCELLED" ELSE dues[d]]
    /\ events' = [events EXCEPT ![r].status = "CANCELLED"]
    /\ cases' = [cases EXCEPT ![r].status = "CANCELLED"]
    /\ UNCHANGED <<now, people, job, reactivation>>

-----------------------------------------------------------------------------

(* Time passes between transactions. *)
Tick ==
    /\ now < MaxTime
    /\ \A m \in Members : job[m].step = "idle" /\ reactivation[m] = "idle"
    /\ now' = now + 1
    /\ UNCHANGED <<people, cases, events, dues, reversals, job, reactivation>>

Membership ==
    \/ \E m \in Members :
          \/ Register(m)
          \/ ReadExpired(m) \/ ExpireDues(m) \/ DecideInactive(m) \/ WriteInactive(m)
          \/ ReadInactive(m) \/ ReadDues(m) \/ WriteActive(m)
    \/ \E d \in DueIds : PayDue(d)

Reporting ==
    \E r \in Reports :
       \/ \E m \in Members \cup {Unmatched}, dod \in Time : SubmitDeathReport(r, m, dod)
       \/ \E m \in Members : LinkReport(r, m)
       \/ ConfirmReport(r) \/ RejectReport(r) \/ ApproveReport(r)

EventWork ==
    \E r \in Reports :
       \/ PublishEvent(r) \/ CloseEvent(r) \/ CancelEvent(r)
       \/ \E dod \in Time : EditEvent(r, dod)

Next == Tick \/ Membership \/ Reporting \/ EventWork

Spec == Init /\ [][Next]_vars
-----------------------------------------------------------------------------
(* Properties. *)

(* The tables are typed, and a membership period never ends before it      *)
(* began: the history orders the statuses a death is judged by.            *)
DeathTypeOK ==
    /\ now \in Time
    /\ joined \in [Members -> Time \cup {NoTime}]
    /\ memberStatus \in [Members -> {"ACTIVE", "INACTIVE", "DECEASED"}]
    /\ history \in [Members -> SUBSET
          [status : {"ACTIVE", "INACTIVE", "DECEASED"}, from : Time, to : Time \cup {NoTime}]]
    /\ \A m \in Members : \A p \in history[m] : p.to # NoTime => p.from <= p.to
    /\ plan \in [Members -> {"NONE", "ACTIVE", "SUSPENDED"}]
    /\ cases \in [Reports ->
          [status : {"none", "REPORTED", "COORDINATOR_CONFIRMED", "ADMIN_VERIFICATION",
                     "APPROVED", "REJECTED", "CANCELLED"},
           member : Members \cup {Unmatched}, review : BOOLEAN, dod : Time,
           eligibility : {"PENDING", "ELIGIBLE", "INELIGIBLE", "ADMIN_REVIEW"}]]
    /\ events \in [Reports ->
          [status : {"none", "APPROVED", "PUBLISHED", "CLOSED", "CANCELLED"},
           createdAt : Time \cup {NoTime}, publishedAt : Time \cup {NoTime}]]
    /\ dues \in [DueIds -> DueStatuses \cup {"none"}]
    /\ reversals \subseteq DueIds
    /\ job \in [Members -> [step : {"idle", "read", "expired", "inactivate"}, batch : SUBSET DueIds]]
    /\ reactivation \in [Members -> {"idle", "inactive", "settled"}]

(* A member is the subject of at most one live case, however reports are   *)
(* submitted, linked, rejected and cancelled.                              *)
OneLiveCase ==
    \A q, r \in Reports :
        Live(q) /\ Live(r) /\ cases[q].member = cases[r].member /\ cases[q].member # Unmatched
        => q = r

(* The membership history tells the present status: one open period, with  *)
(* the status of the member, although the job and the reactivation write   *)
(* outside of a serializable transaction.                                  *)
HistoryTellsStatus ==
    \A m \in Members : Joined(m) =>
        \E p \in history[m] :
            /\ p.to = NoTime /\ p.status = memberStatus[m]
            /\ \A q \in history[m] : q.to = NoTime => q = p

(* "A member who joined after this instant must never receive a due for    *)
(* this event" (schema.prisma), and everybody else but the deceased does,  *)
(* whenever the event is published and however often that is replayed.     *)
ObligationsAreHistorical ==
    \A r \in Reports, m \in Members :
        dues[<<r, m>>] # "none" <=>
            /\ events[r].publishedAt # NoTime
            /\ Joined(m) /\ joined[m] <= events[r].createdAt
            /\ m # cases[r].member

(* An event exists exactly if its case was approved, and both are          *)
(* cancelled together: a rejected case never has an event.                 *)
EventMatchesCase ==
    \A r \in Reports :
        /\ events[r].status # "none" <=> cases[r].status \in {"APPROVED", "CANCELLED"}
        /\ events[r].status = "CANCELLED" <=> cases[r].status = "CANCELLED"

(* A cancelled event asks nobody for money, and gives back exactly what    *)
(* was paid, although the expiry job may have selected its dues before.    *)
CancelledEventIsSettled ==
    \A r \in Reports, m \in Members :
        /\ events[r].status = "CANCELLED" => dues[<<r, m>>] \notin Unsettled
        /\ <<r, m>> \in reversals <=> events[r].status = "CANCELLED" /\ dues[<<r, m>>] = "PAID"

(* Whoever is ACTIVE has neither an expired membership due nor too many    *)
(* expired contributions, unless the job is just about to act on it.       *)
ActiveInGoodStanding ==
    \A m \in Members :
        Joined(m) /\ memberStatus[m] = "ACTIVE" /\ job[m].step = "idle" =>
            /\ dues[<<Fee, m>>] # "EXPIRED"
            /\ ExpiredContributions(m) < InactiveAfter

(* The expiry job, which decides about a member and then writes INACTIVE   *)
(* by id, never writes over a death approved in between: it decides so     *)
(* only if it has itself expired a due of the member, and an approval      *)
(* waits for that row.                                                     *)
ExpirySparesTheDeceased ==
    [][\A m \in Members : memberStatus[m] = "DECEASED" => memberStatus'[m] # "INACTIVE"]_vars

(* "A verified death is also the durable Phase 5 deceased transition"      *)
(* (death-workflow-service.ts).  A reactivation that read the member       *)
(* before the approval writes ACTIVE after it.                             *)
VerifiedDeathIsDurable ==
    \A r \in Reports : cases[r].status = "APPROVED" => memberStatus[cases[r].member] = "DECEASED"
=============================================================================
