------------------------- MODULE DeathSupportProofs -------------------------
(* Proofs about DeathSupport, for any members and reports, any plans,      *)
(* periods and thresholds: the tables, the history of members, their good  *)
(* standing, the pledges it implements, and the job next to approvals.     *)
EXTENDS DeathSupportPledges, FiniteSetTheorems, TLAPS

Statuses == {"ACTIVE", "INACTIVE", "DECEASED"}

Periods == [status : Statuses, from : Time, to : Time \cup {NoTime}]

CaseRows ==
    [status : {"none", "REPORTED", "COORDINATOR_CONFIRMED", "ADMIN_VERIFICATION",
               "APPROVED", "REJECTED", "CANCELLED"},
     member : Members \cup {Unmatched}, review : BOOLEAN, dod : Time,
     eligibility : {"PENDING", "ELIGIBLE", "INELIGIBLE", "ADMIN_REVIEW"}]

EventRows ==
    [status : {"none", "APPROVED", "PUBLISHED", "CLOSED", "CANCELLED"},
     createdAt : Time \cup {NoTime}, publishedAt : Time \cup {NoTime}]

(* No membership period begins in the future. *)
HistoryIsPast == \A m \in Members : \A p \in history[m] : p.from <= now

(* An event is dated when it is created and when it is published. *)
EventsAreDated ==
    \A r \in Reports :
        /\ events[r].status # "none" => events[r].createdAt \in 0 .. now
        /\ events[r].status \in {"none", "APPROVED"} <=> events[r].publishedAt = NoTime

Tables ==
    /\ EventsAreDated
    /\ OneLiveCase
    /\ EventMatchesCase
    /\ ObligationsAreHistorical
    /\ CancelledEventIsSettled

IInv == DeathTypeOK /\ HistoryIsPast /\ Tables

(* A verdict on a report is one of the enumeration. *)
LEMMA EligibilityType ==
    ASSUME NEW m, NEW t
    PROVE  Eligibility(m, t) \subseteq {"ELIGIBLE", "INELIGIBLE", "ADMIN_REVIEW"}
  BY DEF Eligibility

(* Ending what is open and beginning another period as of now keeps a      *)
(* history typed and ordered.                                              *)
LEMMA BeginStatusKeeps ==
    ASSUME DeathTypeOK, HistoryIsPast, NEW m \in Members, NEW s \in Statuses,
           BeginStatus(m, s, now)
    PROVE  /\ memberStatus' \in [Members -> Statuses]
           /\ history' \in [Members -> SUBSET Periods]
           /\ \A x \in Members : \A p \in history'[x] :
                 (p.to # NoTime => p.from <= p.to) /\ p.from <= now
  <1>1. memberStatus' \in [Members -> Statuses]
    BY DEF DeathTypeOK, BeginStatus, Statuses
  <1>2. ASSUME NEW x \in Members, NEW p \in history'[x]
        PROVE  p \in Periods /\ (p.to # NoTime => p.from <= p.to) /\ p.from <= now
    <2>1. now \in Time /\ Time \subseteq Nat /\ NoTime \notin Time
      BY DeathSupportAssumption DEF DeathTypeOK, Time
    <2>2. CASE p \in history[x]
      BY <2>2 DEF DeathTypeOK, HistoryIsPast, Periods, Statuses
    <2>3. CASE p \notin history[x]
      <3>0. m \in DOMAIN history
        BY DEF DeathTypeOK
      <3>1. x = m /\ p \in EndPeriods(history[m], now) \cup {Period(s, now)}
        BY <2>3, <3>0 DEF BeginStatus
      <3>2. CASE p = Period(s, now)
        BY <2>1, <3>2 DEF Period, Periods
      <3>3. CASE p \in EndPeriods(history[m], now)
        <4>1. PICK q \in history[m] : p = [q EXCEPT !.to = IF @ = NoTime THEN now ELSE @]
          BY <3>3 DEF EndPeriods
        <4>2. q \in Periods /\ (q.to # NoTime => q.from <= q.to) /\ q.from <= now
          BY DEF DeathTypeOK, HistoryIsPast, Periods, Statuses
        <4> QED
          BY <2>1, <4>1, <4>2 DEF Periods
      <3> QED
        BY <3>1, <3>2, <3>3
    <2> QED
      BY <2>2, <2>3
  <1>3. history' \in [Members -> SUBSET Periods]
    BY <1>2 DEF BeginStatus, DeathTypeOK
  <1> QED
    BY <1>1, <1>2, <1>3

-----------------------------------------------------------------------------
(* How the tables may change. *)

(* Dues move among the unsettled statuses or leave them; what is settled   *)
(* or not there stays as it is.                                            *)
DuesMove ==
    \A d \in Reports \X Members :
        /\ dues'[d] = "none" <=> dues[d] = "none"
        /\ dues[d] \notin Unsettled => dues'[d] = dues[d]

(* A step that only moves dues keeps what the tables say of each other.    *)
LEMMA DuesMoveKeeps ==
    ASSUME IInv, DuesMove, UNCHANGED <<now, joined, cases, events, reversals>>
    PROVE  Tables'
  <1>1. \A r \in Reports, m \in Members : <<r, m>> \in Reports \X Members
    OBVIOUS
  <1>2. (EventsAreDated /\ OneLiveCase /\ EventMatchesCase)'
    BY DEF IInv, Tables, EventsAreDated, OneLiveCase, EventMatchesCase, Live
  <1>3. ObligationsAreHistorical'
    BY <1>1 DEF IInv, Tables, ObligationsAreHistorical, DuesMove, Joined
  <1>4. CancelledEventIsSettled'
    BY <1>1 DEF IInv, Tables, CancelledEventIsSettled, DuesMove, Unsettled
  <1> QED
    BY <1>2, <1>3, <1>4 DEF Tables

(* A step that changes only a case without an event, and makes it live     *)
(* only if no other case of its member is.                                 *)
LEMMA CaseStepKeeps ==
    ASSUME IInv, NEW r \in Reports, NEW row \in CaseRows,
           cases' = [cases EXCEPT ![r] = row],
           events[r].status = "none",
           row.status \notin {"APPROVED", "CANCELLED"},
           row.status \notin {"none", "REJECTED", "CANCELLED"} =>
               row.member = Unmatched \/ \A q \in Reports \ {r} : Live(q) => cases[q].member # row.member,
           UNCHANGED <<now, joined, events, dues, reversals>>
    PROVE  Tables'
  <1>1. /\ cases'[r] = row
        /\ \A q \in Reports \ {r} : cases'[q] = cases[q]
    BY DEF IInv, DeathTypeOK
  <1>2. EventsAreDated'
    BY DEF IInv, Tables, EventsAreDated
  <1>3. OneLiveCase'
    BY <1>1 DEF IInv, Tables, OneLiveCase, Live
  <1>4. EventMatchesCase'
    BY <1>1 DEF IInv, Tables, EventMatchesCase
  <1>5. ObligationsAreHistorical'
    <2>1. events[r].publishedAt = NoTime
      BY DEF IInv, Tables, EventsAreDated
    <2>2. dues' = dues /\ events' = events /\ joined' = joined
      OBVIOUS
    <2>3. ASSUME NEW q \in Reports, NEW m \in Members
          PROVE  dues[<<q, m>>] # "none" <=>
                    /\ events[q].publishedAt # NoTime
                    /\ joined[m] # NoTime /\ joined[m] <= events[q].createdAt
                    /\ m # cases'[q].member
      <3>1. dues[<<q, m>>] # "none" <=>
               /\ events[q].publishedAt # NoTime
               /\ joined[m] # NoTime /\ joined[m] <= events[q].createdAt
               /\ m # cases[q].member
        BY DEF IInv, Tables, ObligationsAreHistorical, Joined
      <3> QED
        BY <1>1, <2>1, <3>1
    <2> QED
      BY <2>2, <2>3 DEF ObligationsAreHistorical, Joined
  <1>6. CancelledEventIsSettled'
    BY DEF IInv, Tables, CancelledEventIsSettled
  <1> QED
    BY <1>2, <1>3, <1>4, <1>5, <1>6 DEF Tables

-----------------------------------------------------------------------------
(* Membership. *)

(* A payment takes a due out of the unsettled statuses.                    *)
LEMMA PayDueKeeps ==
    ASSUME IInv, NEW d \in DueIds, PayDue(d)
    PROVE  IInv'
  <1>1. DeathTypeOK'
    BY DEF IInv, DeathTypeOK, PayDue, people, DueStatuses
  <1>2. HistoryIsPast'
    BY DEF IInv, HistoryIsPast, PayDue, people
  <1>3. DuesMove
    BY DEF IInv, DeathTypeOK, PayDue, DuesMove, Unsettled
  <1> QED
    BY <1>1, <1>2, <1>3, DuesMoveKeeps DEF IInv, PayDue, people

(* The steps of the job that change no due.                                *)
LEMMA JobKeeps ==
    ASSUME IInv, NEW m \in Members, ReadExpired(m) \/ DecideInactive(m) \/ WriteInactive(m)
    PROVE  IInv'
  <1>1. UNCHANGED <<now, joined, plan, cases, events, dues, reversals, reactivation>>
    BY DEF ReadExpired, DecideInactive, WriteInactive, people
  <1>2. job' \in [Members -> [step : {"idle", "read", "expired", "inactivate"}, batch : SUBSET DueIds]]
    <2>1. CASE ReadExpired(m)
      BY <2>1 DEF IInv, DeathTypeOK, ReadExpired, JobGoto, DuesOf
    <2>2. CASE DecideInactive(m)
      BY <2>2 DEF IInv, DeathTypeOK, DecideInactive, Idle
    <2>3. CASE WriteInactive(m)
      BY <2>3 DEF IInv, DeathTypeOK, WriteInactive, Idle
    <2> QED
      BY <2>1, <2>2, <2>3
  <1>3. CASE UNCHANGED <<memberStatus, history>>
    <2>1. DeathTypeOK'
      BY <1>1, <1>2, <1>3 DEF IInv, DeathTypeOK
    <2>2. HistoryIsPast'
      BY <1>1, <1>3 DEF IInv, HistoryIsPast
    <2>3. DuesMove
      BY <1>1 DEF DuesMove
    <2> QED
      BY <1>1, <2>1, <2>2, <2>3, DuesMoveKeeps DEF IInv
  <1>4. CASE BeginStatus(m, "INACTIVE", now)
    <2>1. DeathTypeOK'
      BY <1>1, <1>2, <1>4, BeginStatusKeeps DEF IInv, DeathTypeOK, Statuses, Periods
    <2>2. HistoryIsPast'
      BY <1>1, <1>4, BeginStatusKeeps DEF IInv, HistoryIsPast, Statuses
    <2>3. DuesMove
      BY <1>1 DEF DuesMove
    <2> QED
      BY <1>1, <2>1, <2>2, <2>3, DuesMoveKeeps DEF IInv
  <1> QED
    BY <1>3, <1>4 DEF ReadExpired, DecideInactive, WriteInactive, people

(* The job expires only what is still open: a due that was paid, waived or *)
(* cancelled since it was selected stays so.                               *)
LEMMA ExpireDuesKeeps ==
    ASSUME IInv, NEW m \in Members, ExpireDues(m)
    PROVE  IInv'
  <1>1. StillOpen(job[m].batch) \subseteq DueIds
    BY DEF IInv, DeathTypeOK, StillOpen
  <1>2. DeathTypeOK'
    BY <1>1 DEF IInv, DeathTypeOK, ExpireDues, JobGoto, people, DueStatuses
  <1>3. HistoryIsPast'
    BY DEF IInv, HistoryIsPast, ExpireDues, people
  <1>4. DuesMove
    <2>1. Reports \X Members \subseteq DueIds
      BY DEF DueIds
    <2> QED
      BY <2>1 DEF ExpireDues, DuesMove, StillOpen, Expirable, Unsettled
  <1> QED
    BY <1>2, <1>3, <1>4, DuesMoveKeeps DEF IInv, ExpireDues, people

(* Reactivation writes the member and its history, and no due.             *)
LEMMA ReactivationKeeps ==
    ASSUME IInv, NEW m \in Members, ReadInactive(m) \/ ReadDues(m) \/ WriteActive(m)
    PROVE  IInv'
  <1>1. UNCHANGED <<now, joined, plan, cases, events, dues, reversals, job>>
    BY DEF ReadInactive, ReadDues, WriteActive, people
  <1>2. reactivation' \in [Members -> {"idle", "inactive", "settled"}]
    BY DEF IInv, DeathTypeOK, ReadInactive, ReadDues, WriteActive, ReactivationGoto
  <1>3. DuesMove
    BY <1>1 DEF DuesMove
  <1>4. CASE UNCHANGED <<memberStatus, history>>
    <2>1. DeathTypeOK'
      BY <1>1, <1>2, <1>4 DEF IInv, DeathTypeOK
    <2>2. HistoryIsPast'
      BY <1>1, <1>4 DEF IInv, HistoryIsPast
    <2> QED
      BY <1>1, <1>3, <2>1, <2>2, DuesMoveKeeps DEF IInv
  <1>5. CASE BeginStatus(m, "ACTIVE", now)
    <2>1. DeathTypeOK'
      BY <1>1, <1>2, <1>5, BeginStatusKeeps DEF IInv, DeathTypeOK, Statuses, Periods
    <2>2. HistoryIsPast'
      BY <1>1, <1>5, BeginStatusKeeps DEF IInv, HistoryIsPast, Statuses
    <2> QED
      BY <1>1, <1>3, <2>1, <2>2, DuesMoveKeeps DEF IInv
  <1> QED
    BY <1>4, <1>5 DEF ReadInactive, ReadDues, WriteActive, people

(* Nobody owes for an event created before he registers.                   *)
LEMMA RegisterKeeps ==
    ASSUME IInv, NEW m \in Members, Register(m)
    PROVE  IInv'
  <1>1. now \in Time /\ Time \subseteq Nat /\ NoTime \notin Time
    BY DeathSupportAssumption DEF IInv, DeathTypeOK, Time
  <1>2. /\ joined' = [joined EXCEPT ![m] = now]
        /\ history' = [history EXCEPT ![m] = {Period("ACTIVE", now)}]
        /\ dues' = [dues EXCEPT ![<<Fee, m>>] = "PENDING"]
        /\ UNCHANGED <<now, memberStatus, plan, cases, events, reversals, job, reactivation>>
    BY DEF Register
  <1>3. Period("ACTIVE", now) \in
           [status : {"ACTIVE", "INACTIVE", "DECEASED"}, from : Time, to : Time \cup {NoTime}]
    BY <1>1 DEF Period
  <1>4. /\ DOMAIN history = Members
        /\ \A x \in Members : \A p \in history'[x] :
              (x = m /\ p = Period("ACTIVE", now)) \/ p \in history[x]
    BY <1>2 DEF IInv, DeathTypeOK
  <1>5. Period("ACTIVE", now).to = NoTime /\ Period("ACTIVE", now).from = now
    BY DEF Period
  <1>6. DeathTypeOK'
    <2>1. \A x \in Members : \A p \in history'[x] : p.to # NoTime => p.from <= p.to
      BY <1>4, <1>5 DEF IInv, DeathTypeOK
    <2>2. dues' \in [DueIds -> DueStatuses \cup {"none"}]
      BY <1>2 DEF IInv, DeathTypeOK, DueStatuses
    <2>3. history' \in [Members -> SUBSET
             [status : {"ACTIVE", "INACTIVE", "DECEASED"}, from : Time, to : Time \cup {NoTime}]]
      BY <1>2, <1>3 DEF IInv, DeathTypeOK
    <2>4. joined' \in [Members -> Time \cup {NoTime}]
      BY <1>1, <1>2 DEF IInv, DeathTypeOK
    <2> QED
      BY <1>2, <2>1, <2>2, <2>3, <2>4 DEF IInv, DeathTypeOK
  <1>7. HistoryIsPast'
    BY <1>1, <1>2, <1>4, <1>5 DEF IInv, HistoryIsPast
  <1>8. \A d \in Reports \X Members : dues'[d] = dues[d]
    BY <1>2, DeathSupportAssumption DEF IInv, DeathTypeOK, DueIds
  <1>9. ObligationsAreHistorical'
    <2>1. ASSUME NEW r \in Reports, NEW x \in Members
          PROVE  dues'[<<r, x>>] # "none" <=>
                    /\ events[r].publishedAt # NoTime
                    /\ joined'[x] # NoTime /\ joined'[x] <= events[r].createdAt
                    /\ x # cases[r].member
      <3>1. dues[<<r, x>>] # "none" <=>
               /\ events[r].publishedAt # NoTime
               /\ joined[x] # NoTime /\ joined[x] <= events[r].createdAt
               /\ x # cases[r].member
        BY DEF IInv, Tables, ObligationsAreHistorical, Joined
      <3>2. dues'[<<r, x>>] = dues[<<r, x>>]
        BY <1>8
      <3>3. CASE x # m
        BY <1>2, <3>1, <3>2, <3>3
      <3>4. CASE x = m
        <4>1. joined[m] = NoTime /\ events[r].createdAt # now /\ joined'[m] = now
          BY <1>2 DEF Register, Joined, IInv, DeathTypeOK
        <4>2. events[r].publishedAt # NoTime => events[r].createdAt \in 0 .. now
          BY DEF IInv, Tables, EventsAreDated
        <4> QED
          BY <1>1, <3>1, <3>2, <3>4, <4>1, <4>2
      <3> QED
        BY <3>3, <3>4
    <2> QED
      BY <1>2, <2>1 DEF ObligationsAreHistorical, Joined
  <1>10. (EventsAreDated /\ OneLiveCase /\ EventMatchesCase)'
    BY <1>2 DEF IInv, Tables, EventsAreDated, OneLiveCase, EventMatchesCase, Live
  <1>11. CancelledEventIsSettled'
    <2>1. \A r \in Reports, x \in Members : dues'[<<r, x>>] = dues[<<r, x>>]
      BY <1>8
    <2> QED
      BY <1>2, <2>1 DEF IInv, Tables, CancelledEventIsSettled
  <1> QED
    BY <1>6, <1>7, <1>9, <1>10, <1>11 DEF IInv, Tables

-----------------------------------------------------------------------------
(* Reports. *)

(* A new report is of a member without a live case, or of nobody.          *)
LEMMA SubmitDeathReportKeeps ==
    ASSUME IInv, NEW r \in Reports, NEW m \in Members \cup {Unmatched}, NEW dod \in Time,
           SubmitDeathReport(r, m, dod)
    PROVE  IInv'
  <1>1. PICK verdict \in Eligibility(m, dod) :
           cases' = [cases EXCEPT ![r] =
              [status |-> IF m = Unmatched \/ verdict # "ELIGIBLE" \/ memberStatus[m] \in {"INACTIVE", "CLOSED"}
                          THEN "ADMIN_VERIFICATION" ELSE "REPORTED",
               member |-> m,
               review |-> m = Unmatched \/ verdict # "ELIGIBLE" \/ memberStatus[m] \in {"INACTIVE", "CLOSED"},
               dod |-> dod, eligibility |-> verdict]]
    BY DEF SubmitDeathReport
  <1> DEFINE row == [status |-> IF m = Unmatched \/ verdict # "ELIGIBLE" \/ memberStatus[m] \in {"INACTIVE", "CLOSED"}
                               THEN "ADMIN_VERIFICATION" ELSE "REPORTED",
                    member |-> m,
                    review |-> m = Unmatched \/ verdict # "ELIGIBLE" \/ memberStatus[m] \in {"INACTIVE", "CLOSED"},
                    dod |-> dod, eligibility |-> verdict]
  <1>2. row \in CaseRows
    BY EligibilityType DEF CaseRows
  <1>3. row.status \in {"ADMIN_VERIFICATION", "REPORTED"} /\ row.member = m
    OBVIOUS
  <1>4. events[r].status = "none"
    BY DEF IInv, Tables, EventMatchesCase, SubmitDeathReport
  <1>5. m = Unmatched \/ \A q \in Reports \ {r} : Live(q) => cases[q].member # m
    BY DEF SubmitDeathReport, CanBeReported
  <1>6. UNCHANGED <<now, joined, memberStatus, history, plan, events, dues, reversals, job, reactivation>>
    BY DEF SubmitDeathReport, people
  <1>7. Tables'
    <2> HIDE DEF row
    <2>1. cases' = [cases EXCEPT ![r] = row]
      BY <1>1 DEF row
    <2> QED
      BY <1>2, <1>3, <1>4, <1>5, <1>6, <2>1, CaseStepKeeps
  <1>8. DeathTypeOK'
    <2>1. cases' \in [Reports -> CaseRows]
      BY <1>1, <1>2 DEF IInv, DeathTypeOK, CaseRows
    <2> QED
      BY <1>6, <2>1 DEF IInv, DeathTypeOK, CaseRows
  <1>9. HistoryIsPast'
    BY <1>6 DEF IInv, HistoryIsPast
  <1> QED
    BY <1>7, <1>8, <1>9 DEF IInv

(* A step that changes one case without an event, as the other operations  *)
(* on reports do.                                                          *)
LEMMA ReportStepKeeps ==
    ASSUME IInv, NEW r \in Reports, NEW row \in CaseRows,
           cases' = [cases EXCEPT ![r] = row],
           cases[r].status \notin {"none", "APPROVED", "CANCELLED"},
           row.status \notin {"APPROVED", "CANCELLED"},
           row.status = "REJECTED" \/ row.member = Unmatched
              \/ \A q \in Reports \ {r} : Live(q) => cases[q].member # row.member,
           UNCHANGED <<now, people, events, dues, reversals, job, reactivation>>
    PROVE  IInv'
  <1>1. events[r].status = "none"
    BY DEF IInv, Tables, EventMatchesCase
  <1>2. Tables'
    BY <1>1, CaseStepKeeps DEF people
  <1>3. cases' \in [Reports -> CaseRows]
    BY DEF IInv, DeathTypeOK, CaseRows
  <1>4. DeathTypeOK'
    BY <1>3 DEF IInv, DeathTypeOK, CaseRows, people
  <1> QED
    BY <1>2, <1>4 DEF IInv, HistoryIsPast, people

(* An unmatched report is linked to a member without a live case.          *)
LEMMA LinkReportKeeps ==
    ASSUME IInv, NEW r \in Reports, NEW m \in Members, LinkReport(r, m)
    PROVE  IInv'
  <1>1. PICK verdict \in Eligibility(m, cases[r].dod) :
           cases' = [cases EXCEPT ![r].member = m, ![r].review = TRUE, ![r].eligibility = verdict]
    BY DEF LinkReport
  <1> DEFINE row == [cases[r] EXCEPT !.member = m, !.review = TRUE, !.eligibility = verdict]
  <1>2. cases[r] \in CaseRows
    BY DEF IInv, DeathTypeOK, CaseRows
  <1>3. row \in CaseRows /\ row.status = cases[r].status /\ row.member = m
    BY <1>2, EligibilityType DEF CaseRows
  <1>4. cases' = [cases EXCEPT ![r] = row]
    BY <1>1, <1>2 DEF IInv, DeathTypeOK, CaseRows
  <1>5. cases[r].status = "ADMIN_VERIFICATION"
    BY DEF LinkReport
  <1>6. \A q \in Reports \ {r} : Live(q) => cases[q].member # m
    BY DEF LinkReport, CanBeReported
  <1>7. UNCHANGED <<now, people, events, dues, reversals, job, reactivation>>
    BY DEF LinkReport
  <1> HIDE DEF row
  <1> QED
    BY <1>3, <1>4, <1>5, <1>6, <1>7, ReportStepKeeps

(* A confirmed report was live before.                                     *)
LEMMA ConfirmReportKeeps ==
    ASSUME IInv, NEW r \in Reports, ConfirmReport(r)
    PROVE  IInv'
  <1> DEFINE row == [cases[r] EXCEPT !.status = "COORDINATOR_CONFIRMED"]
  <1>1. cases[r] \in CaseRows /\ cases[r].status = "REPORTED"
    BY DEF IInv, DeathTypeOK, CaseRows, ConfirmReport
  <1>2. row \in CaseRows /\ row.status = "COORDINATOR_CONFIRMED" /\ row.member = cases[r].member
    BY <1>1 DEF CaseRows
  <1>3. cases' = [cases EXCEPT ![r] = row]
    BY DEF ConfirmReport
  <1>4. row.member = Unmatched \/ \A q \in Reports \ {r} : Live(q) => cases[q].member # row.member
    BY <1>1, <1>2 DEF IInv, Tables, OneLiveCase, Live
  <1>5. UNCHANGED <<now, people, events, dues, reversals, job, reactivation>>
    BY DEF ConfirmReport
  <1> HIDE DEF row
  <1> QED
    BY <1>1, <1>2, <1>3, <1>4, <1>5, ReportStepKeeps

(* Only a report without an event is rejected.                             *)
LEMMA RejectReportKeeps ==
    ASSUME IInv, NEW r \in Reports, RejectReport(r)
    PROVE  IInv'
  <1> DEFINE row == [cases[r] EXCEPT !.status = "REJECTED"]
  <1>1. cases[r] \in CaseRows /\ cases[r].status \notin {"none", "APPROVED", "CANCELLED"}
    BY DEF IInv, DeathTypeOK, CaseRows, RejectReport, Reviewable
  <1>2. row \in CaseRows /\ row.status = "REJECTED"
    BY <1>1 DEF CaseRows
  <1>3. cases' = [cases EXCEPT ![r] = row]
    BY DEF RejectReport
  <1>4. UNCHANGED <<now, people, events, dues, reversals, job, reactivation>>
    BY DEF RejectReport
  <1> HIDE DEF row
  <1> QED
    BY <1>1, <1>2, <1>3, <1>4, ReportStepKeeps

(* An approval cannot find an event; the dues it waives are unsettled.     *)
LEMMA ApproveReportKeeps ==
    ASSUME IInv, NEW r \in Reports, ApproveReport(r)
    PROVE  IInv'
  <1> DEFINE m == cases[r].member
  <1>1. PICK verdict \in Eligibility(m, cases[r].dod) :
           cases' = [cases EXCEPT ![r].status = "APPROVED", ![r].eligibility = verdict]
    BY DEF ApproveReport
  <1>2. /\ cases[r].status \in {"REPORTED", "COORDINATOR_CONFIRMED", "ADMIN_VERIFICATION"}
        /\ m \in Members
        /\ UNCHANGED <<now, joined, reversals, job, reactivation>>
    BY DEF ApproveReport, Reviewable, IInv, DeathTypeOK
  <1>3. events[r].status = "none" /\ events[r].publishedAt = NoTime
    BY <1>2 DEF IInv, Tables, EventMatchesCase, EventsAreDated
  <1>4. events' = [events EXCEPT ![r] =
                     [status |-> "APPROVED", createdAt |-> now, publishedAt |-> NoTime]]
    BY <1>3 DEF ApproveReport
  <1>5. now \in Time /\ Time \subseteq Nat /\ NoTime \notin Time
    BY DeathSupportAssumption DEF IInv, DeathTypeOK, Time
  <1>6. cases' \in [Reports -> CaseRows]
    <2> DEFINE row == [cases[r] EXCEPT !.status = "APPROVED", !.eligibility = verdict]
    <2>1. cases[r] \in CaseRows
      BY DEF IInv, DeathTypeOK, CaseRows
    <2>2. row \in CaseRows
      BY <2>1, EligibilityType DEF CaseRows
    <2>3. cases' = [cases EXCEPT ![r] = row]
      BY <1>1, <2>1 DEF IInv, DeathTypeOK, CaseRows
    <2> HIDE DEF row
    <2> QED
      BY <2>2, <2>3 DEF IInv, DeathTypeOK, CaseRows
  <1>7. /\ cases'[r].status = "APPROVED" /\ cases'[r].member = m
        /\ \A q \in Reports \ {r} : cases'[q] = cases[q]
    BY <1>1 DEF IInv, DeathTypeOK, CaseRows
  <1>8. /\ events' \in [Reports -> EventRows]
        /\ events'[r].status = "APPROVED" /\ events'[r].createdAt = now /\ events'[r].publishedAt = NoTime
        /\ \A q \in Reports \ {r} : events'[q] = events[q]
    BY <1>4, <1>5 DEF IInv, DeathTypeOK, EventRows
  <1>9. /\ memberStatus' \in [Members -> Statuses]
        /\ history' \in [Members -> SUBSET Periods]
        /\ \A x \in Members : \A p \in history'[x] :
              (p.to # NoTime => p.from <= p.to) /\ p.from <= now
        /\ plan' \in [Members -> {"NONE", "ACTIVE", "SUSPENDED"}]
        /\ dues' \in [DueIds -> DueStatuses \cup {"none"}]
        /\ DuesMove
    <2>1. CASE memberStatus[m] = "DECEASED"
      <3>1. UNCHANGED <<memberStatus, history, dues, plan>>
        BY <2>1 DEF ApproveReport
      <3> QED
        BY <3>1 DEF IInv, DeathTypeOK, HistoryIsPast, Statuses, Periods, DuesMove
    <2>2. CASE memberStatus[m] # "DECEASED"
      <3>1. MarkDeceased(m, now)
        BY <2>2 DEF ApproveReport, DeceasedFrom
      <3>2. BeginStatus(m, "DECEASED", now)
        BY <3>1 DEF MarkDeceased
      <3>3. plan' \in [Members -> {"NONE", "ACTIVE", "SUSPENDED"}]
        BY <3>1 DEF MarkDeceased, IInv, DeathTypeOK
      <3>4. dues' = [d \in DueIds |-> IF d[2] = m /\ dues[d] \in Unsettled THEN "WAIVED" ELSE dues[d]]
        BY <3>1 DEF MarkDeceased
      <3>5. dues' \in [DueIds -> DueStatuses \cup {"none"}]
        BY <3>4 DEF IInv, DeathTypeOK, DueStatuses
      <3>6. DuesMove
        BY <3>4 DEF DuesMove, DueIds, Unsettled
      <3>7. "DECEASED" \in Statuses
        BY DEF Statuses
      <3> HIDE DEF m
      <3> QED
        BY <1>2, <3>2, <3>3, <3>5, <3>6, <3>7, BeginStatusKeeps DEF IInv
    <2> QED
      BY <2>1, <2>2
  <1>10. DeathTypeOK'
    BY <1>2, <1>6, <1>8, <1>9
       DEF IInv, DeathTypeOK, CaseRows, EventRows, Statuses, Periods
  <1>11. HistoryIsPast'
    BY <1>2, <1>9 DEF HistoryIsPast
  <1>12. EventsAreDated'
    BY <1>2, <1>5, <1>8 DEF IInv, Tables, EventsAreDated, Time
  <1>13. OneLiveCase'
    <2>1. Live(r)
      BY <1>2 DEF Live
    <2> QED
      BY <1>7, <2>1 DEF IInv, Tables, OneLiveCase, Live
  <1>14. EventMatchesCase'
    BY <1>7, <1>8 DEF IInv, Tables, EventMatchesCase
  <1>15. ObligationsAreHistorical'
    <2>1. ASSUME NEW q \in Reports, NEW x \in Members
          PROVE  dues'[<<q, x>>] # "none" <=>
                    /\ events'[q].publishedAt # NoTime
                    /\ joined[x] # NoTime /\ joined[x] <= events'[q].createdAt
                    /\ x # cases'[q].member
      <3>1. dues[<<q, x>>] # "none" <=>
               /\ events[q].publishedAt # NoTime
               /\ joined[x] # NoTime /\ joined[x] <= events[q].createdAt
               /\ x # cases[q].member
        BY DEF IInv, Tables, ObligationsAreHistorical, Joined
      <3>2. dues'[<<q, x>>] = "none" <=> dues[<<q, x>>] = "none"
        BY <1>9 DEF DuesMove
      <3> QED
        BY <1>3, <1>7, <1>8, <3>1, <3>2
    <2> QED
      BY <1>2, <2>1 DEF ObligationsAreHistorical, Joined
  <1>16. CancelledEventIsSettled'
    <2>1. ASSUME NEW q \in Reports, NEW x \in Members
          PROVE  /\ events'[q].status = "CANCELLED" => dues'[<<q, x>>] \notin Unsettled
                 /\ <<q, x>> \in reversals <=>
                       events'[q].status = "CANCELLED" /\ dues'[<<q, x>>] = "PAID"
      <3>1. /\ events[q].status = "CANCELLED" => dues[<<q, x>>] \notin Unsettled
            /\ <<q, x>> \in reversals <=> events[q].status = "CANCELLED" /\ dues[<<q, x>>] = "PAID"
        BY DEF IInv, Tables, CancelledEventIsSettled
      <3>2. dues[<<q, x>>] \notin Unsettled => dues'[<<q, x>>] = dues[<<q, x>>]
        BY <1>9 DEF DuesMove
      <3>3. events'[q].status = "CANCELLED" <=> events[q].status = "CANCELLED"
        BY <1>3, <1>8
      <3> QED
        BY <3>1, <3>2, <3>3
    <2> QED
      BY <1>2, <2>1 DEF CancelledEventIsSettled
  <1> QED
    BY <1>10, <1>11, <1>12, <1>13, <1>14, <1>15, <1>16 DEF IInv, Tables

-----------------------------------------------------------------------------
(* Events. *)

(* A publication charges exactly the members at the creation of the event, *)
(* and a replay of it nobody else.                                         *)
LEMMA PublishEventKeeps ==
    ASSUME IInv, NEW r \in Reports, PublishEvent(r)
    PROVE  IInv'
  <1>1. /\ events[r].status \in {"APPROVED", "PUBLISHED"}
        /\ dues' = [d \in DueIds |->
               IF d[1] = r /\ d[2] \in ObligationMembers(r) /\ dues[d] = "none"
               THEN "PENDING" ELSE dues[d]]
        /\ UNCHANGED <<now, joined, memberStatus, history, plan, cases, reversals, job, reactivation>>
    BY DEF PublishEvent, people
  <1>2. now \in Time /\ Time \subseteq Nat /\ NoTime \notin Time
    BY DeathSupportAssumption DEF IInv, DeathTypeOK, Time
  <1>3. /\ events' \in [Reports -> EventRows]
        /\ events'[r].status = "PUBLISHED" /\ events'[r].createdAt = events[r].createdAt
        /\ events'[r].publishedAt # NoTime
        /\ \A q \in Reports \ {r} : events'[q] = events[q]
    <2>1. CASE events[r].publishedAt # NoTime
      <3>1. events' = events
        BY <2>1 DEF PublishEvent
      <3> QED
        BY <1>1, <2>1, <3>1 DEF IInv, Tables, EventsAreDated, DeathTypeOK, EventRows
    <2>2. CASE events[r].publishedAt = NoTime
      <3>1. events' = [events EXCEPT ![r].status = "PUBLISHED", ![r].publishedAt = now]
        BY <2>2 DEF PublishEvent
      <3> DEFINE row == [events[r] EXCEPT !.status = "PUBLISHED", !.publishedAt = now]
      <3>2. events[r] \in EventRows
        BY DEF IInv, DeathTypeOK, EventRows
      <3>3. row \in EventRows /\ row.status = "PUBLISHED" /\ row.createdAt = events[r].createdAt
            /\ row.publishedAt = now
        BY <1>2, <3>2 DEF EventRows
      <3>4. events' = [events EXCEPT ![r] = row]
        BY <3>1, <3>2 DEF IInv, DeathTypeOK, EventRows
      <3> HIDE DEF row
      <3> QED
        BY <1>2, <3>3, <3>4 DEF IInv, DeathTypeOK, EventRows
    <2> QED
      BY <2>1, <2>2
  <1>4. dues' \in [DueIds -> DueStatuses \cup {"none"}]
    BY <1>1 DEF IInv, DeathTypeOK, DueStatuses
  <1>5. DeathTypeOK'
    BY <1>1, <1>3, <1>4 DEF IInv, DeathTypeOK, EventRows
  <1>6. HistoryIsPast'
    BY <1>1 DEF IInv, HistoryIsPast
  <1>7. EventsAreDated'
    BY <1>1, <1>3 DEF IInv, Tables, EventsAreDated
  <1>8. OneLiveCase'
    BY <1>1 DEF IInv, Tables, OneLiveCase, Live
  <1>9. EventMatchesCase'
    BY <1>1, <1>3 DEF IInv, Tables, EventMatchesCase
  <1>10. ASSUME NEW q \in Reports, NEW x \in Members
         PROVE  /\ q # r => dues'[<<q, x>>] = dues[<<q, x>>]
                /\ dues'[<<r, x>>] = IF x \in ObligationMembers(r) /\ dues[<<r, x>>] = "none"
                                     THEN "PENDING" ELSE dues[<<r, x>>]
    BY <1>1 DEF DueIds
  <1>11. ObligationsAreHistorical'
    <2>1. ASSUME NEW q \in Reports, NEW x \in Members
          PROVE  dues'[<<q, x>>] # "none" <=>
                    /\ events'[q].publishedAt # NoTime
                    /\ joined[x] # NoTime /\ joined[x] <= events'[q].createdAt
                    /\ x # cases[q].member
      <3>1. dues[<<q, x>>] # "none" <=>
               /\ events[q].publishedAt # NoTime
               /\ joined[x] # NoTime /\ joined[x] <= events[q].createdAt
               /\ x # cases[q].member
        BY DEF IInv, Tables, ObligationsAreHistorical, Joined
      <3>2. x \in ObligationMembers(r) <=>
               /\ joined[x] # NoTime /\ joined[x] <= events[r].createdAt
               /\ x # cases[r].member
        BY DEF ObligationMembers, Joined
      <3>3. CASE q = r
        BY <1>3, <1>10, <3>1, <3>2, <3>3
      <3>4. CASE q # r
        BY <1>3, <1>10, <3>1, <3>4
      <3> QED
        BY <3>3, <3>4
    <2> QED
      BY <1>1, <2>1 DEF ObligationsAreHistorical, Joined
  <1>12. CancelledEventIsSettled'
    <2>1. ASSUME NEW q \in Reports, NEW x \in Members
          PROVE  /\ events'[q].status = "CANCELLED" => dues'[<<q, x>>] \notin Unsettled
                 /\ <<q, x>> \in reversals <=>
                       events'[q].status = "CANCELLED" /\ dues'[<<q, x>>] = "PAID"
      <3>1. /\ events[q].status = "CANCELLED" => dues[<<q, x>>] \notin Unsettled
            /\ <<q, x>> \in reversals <=> events[q].status = "CANCELLED" /\ dues[<<q, x>>] = "PAID"
        BY DEF IInv, Tables, CancelledEventIsSettled
      <3>2. CASE q = r
        BY <1>1, <1>3, <3>1, <3>2
      <3>3. CASE q # r
        BY <1>3, <1>10, <3>1, <3>3
      <3> QED
        BY <3>2, <3>3
    <2> QED
      BY <1>1, <2>1 DEF CancelledEventIsSettled
  <1> QED
    BY <1>5, <1>6, <1>7, <1>8, <1>9, <1>11, <1>12 DEF IInv, Tables

(* A step that neither charges anybody nor changes who is a member, when   *)
(* events are dated or whose they are keeps the obligations.               *)
LEMMA SameObligationsKeep ==
    ASSUME ObligationsAreHistorical,
           joined' = joined,
           \A q \in Reports :
              /\ events'[q].createdAt = events[q].createdAt
              /\ events'[q].publishedAt = events[q].publishedAt
              /\ cases'[q].member = cases[q].member
              /\ \A x \in Members : dues'[<<q, x>>] = "none" <=> dues[<<q, x>>] = "none"
    PROVE  ObligationsAreHistorical'
  <1>1. ASSUME NEW q \in Reports, NEW x \in Members
        PROVE  dues'[<<q, x>>] # "none" <=>
                  /\ events'[q].publishedAt # NoTime
                  /\ joined[x] # NoTime /\ joined[x] <= events'[q].createdAt
                  /\ x # cases'[q].member
    <2>1. dues[<<q, x>>] # "none" <=>
             /\ events[q].publishedAt # NoTime
             /\ joined[x] # NoTime /\ joined[x] <= events[q].createdAt
             /\ x # cases[q].member
      BY DEF ObligationsAreHistorical, Joined
    <2> QED
      BY <2>1
  <1> QED
    BY <1>1 DEF ObligationsAreHistorical, Joined

(* An edit moves only the date of death.                                   *)
LEMMA EditEventKeeps ==
    ASSUME IInv, NEW r \in Reports, NEW dod \in Time, EditEvent(r, dod)
    PROVE  IInv'
  <1>1. /\ cases' = [cases EXCEPT ![r].dod = dod]
        /\ UNCHANGED <<now, joined, memberStatus, history, plan, events, dues, reversals, job, reactivation>>
    BY DEF EditEvent, people
  <1>2. /\ cases' \in [Reports -> CaseRows]
        /\ \A q \in Reports : cases'[q].status = cases[q].status /\ cases'[q].member = cases[q].member
    BY <1>1 DEF IInv, DeathTypeOK, CaseRows
  <1>3. DeathTypeOK'
    BY <1>1, <1>2 DEF IInv, DeathTypeOK, CaseRows
  <1>4. HistoryIsPast'
    BY <1>1 DEF IInv, HistoryIsPast
  <1>5. (EventsAreDated /\ OneLiveCase /\ EventMatchesCase /\ CancelledEventIsSettled)'
    BY <1>1, <1>2
       DEF IInv, Tables, EventsAreDated, OneLiveCase, EventMatchesCase, CancelledEventIsSettled, Live
  <1>6. ObligationsAreHistorical'
    BY <1>1, <1>2, SameObligationsKeep DEF IInv, Tables
  <1> QED
    BY <1>3, <1>4, <1>5, <1>6 DEF IInv, Tables

(* Closing an event keeps its case, its dates and its dues.                *)
LEMMA CloseEventKeeps ==
    ASSUME IInv, NEW r \in Reports, CloseEvent(r)
    PROVE  IInv'
  <1>1. /\ events[r].status = "PUBLISHED"
        /\ events' = [events EXCEPT ![r].status = "CLOSED"]
        /\ UNCHANGED <<now, joined, memberStatus, history, plan, cases, dues, reversals, job, reactivation>>
    BY DEF CloseEvent, people
  <1>2. /\ events' \in [Reports -> EventRows]
        /\ events'[r].status = "CLOSED"
        /\ \A q \in Reports : /\ events'[q].createdAt = events[q].createdAt
                              /\ events'[q].publishedAt = events[q].publishedAt
                              /\ q # r => events'[q].status = events[q].status
    BY <1>1 DEF IInv, DeathTypeOK, EventRows
  <1>3. DeathTypeOK'
    BY <1>1, <1>2 DEF IInv, DeathTypeOK, EventRows
  <1>4. HistoryIsPast'
    BY <1>1 DEF IInv, HistoryIsPast
  <1>5. EventsAreDated' /\ OneLiveCase' /\ EventMatchesCase'
    BY <1>1, <1>2 DEF IInv, Tables, EventsAreDated, OneLiveCase, EventMatchesCase, Live
  <1>6. ObligationsAreHistorical'
    BY <1>1, <1>2, SameObligationsKeep DEF IInv, Tables
  <1>7. CancelledEventIsSettled'
    BY <1>1, <1>2 DEF IInv, Tables, CancelledEventIsSettled
  <1> QED
    BY <1>3, <1>4, <1>5, <1>6, <1>7 DEF IInv, Tables

(* A cancellation leaves none of the dues unsettled and reverses the paid. *)
LEMMA CancelEventKeeps ==
    ASSUME IInv, NEW r \in Reports, CancelEvent(r)
    PROVE  IInv'
  <1>1. /\ events[r].status \in {"PUBLISHED", "CLOSED"}
        /\ reversals' = reversals \cup {d \in ContributionsTo(r) : dues[d] = "PAID"}
        /\ dues' = [d \in DueIds |->
               IF d[1] = r /\ dues[d] \in Unsettled THEN "CANCELLED" ELSE dues[d]]
        /\ events' = [events EXCEPT ![r].status = "CANCELLED"]
        /\ cases' = [cases EXCEPT ![r].status = "CANCELLED"]
        /\ UNCHANGED <<now, joined, memberStatus, history, plan, job, reactivation>>
    BY DEF CancelEvent, people
  <1>2. /\ events' \in [Reports -> EventRows]
        /\ events'[r].status = "CANCELLED"
        /\ \A q \in Reports : /\ events'[q].createdAt = events[q].createdAt
                              /\ events'[q].publishedAt = events[q].publishedAt
                              /\ q # r => events'[q].status = events[q].status
    BY <1>1 DEF IInv, DeathTypeOK, EventRows
  <1>3. /\ cases' \in [Reports -> CaseRows]
        /\ cases'[r].status = "CANCELLED"
        /\ \A q \in Reports : /\ cases'[q].member = cases[q].member
                              /\ q # r => cases'[q].status = cases[q].status
    <2> DEFINE row == [cases[r] EXCEPT !.status = "CANCELLED"]
    <2>1. cases[r] \in CaseRows /\ cases \in [Reports -> CaseRows]
      BY DEF IInv, DeathTypeOK, CaseRows
    <2>2. row \in CaseRows /\ row.status = "CANCELLED" /\ row.member = cases[r].member
      BY <2>1 DEF CaseRows
    <2>3. cases' = [cases EXCEPT ![r] = row]
      BY <1>1
    <2> HIDE DEF row
    <2> QED
      BY <2>1, <2>2, <2>3
  <1>4. dues' \in [DueIds -> DueStatuses \cup {"none"}]
    BY <1>1 DEF IInv, DeathTypeOK, DueStatuses
  <1>5. reversals' \subseteq DueIds
    BY <1>1 DEF IInv, DeathTypeOK, ContributionsTo
  <1>6. DeathTypeOK'
    BY <1>1, <1>2, <1>3, <1>4, <1>5 DEF IInv, DeathTypeOK, EventRows, CaseRows
  <1>7. HistoryIsPast'
    BY <1>1 DEF IInv, HistoryIsPast
  <1>8. EventsAreDated' /\ OneLiveCase' /\ EventMatchesCase'
    BY <1>1, <1>2, <1>3 DEF IInv, Tables, EventsAreDated, OneLiveCase, EventMatchesCase, Live
  <1>9. ASSUME NEW q \in Reports, NEW x \in Members
        PROVE  /\ q # r => /\ dues'[<<q, x>>] = dues[<<q, x>>]
                           /\ <<q, x>> \in reversals' <=> <<q, x>> \in reversals
               /\ dues'[<<r, x>>] = IF dues[<<r, x>>] \in Unsettled
                                    THEN "CANCELLED" ELSE dues[<<r, x>>]
               /\ <<r, x>> \in reversals' <=> <<r, x>> \in reversals \/ dues[<<r, x>>] = "PAID"
    BY <1>1 DEF DueIds, ContributionsTo
  <1>10. ObligationsAreHistorical'
    <2>1. ASSUME NEW q \in Reports, NEW x \in Members
          PROVE  dues'[<<q, x>>] = "none" <=> dues[<<q, x>>] = "none"
      BY <1>9 DEF Unsettled
    <2> QED
      BY <1>1, <1>2, <1>3, <2>1, SameObligationsKeep DEF IInv, Tables
  <1>11. CancelledEventIsSettled'
    <2>1. ASSUME NEW q \in Reports, NEW x \in Members
          PROVE  /\ events'[q].status = "CANCELLED" => dues'[<<q, x>>] \notin Unsettled
                 /\ <<q, x>> \in reversals' <=>
                       events'[q].status = "CANCELLED" /\ dues'[<<q, x>>] = "PAID"
      <3>1. /\ events[q].status = "CANCELLED" => dues[<<q, x>>] \notin Unsettled
            /\ <<q, x>> \in reversals <=> events[q].status = "CANCELLED" /\ dues[<<q, x>>] = "PAID"
        BY DEF IInv, Tables, CancelledEventIsSettled
      <3>2. CASE q = r
        <4>1. events[r].status # "CANCELLED"
          BY <1>1
        <4>2. dues'[<<r, x>>] \notin Unsettled /\ (dues'[<<r, x>>] = "PAID" <=> dues[<<r, x>>] = "PAID")
          BY <1>9 DEF Unsettled
        <4>3. <<r, x>> \in reversals' <=> dues[<<r, x>>] = "PAID"
          BY <1>9, <3>1, <3>2, <4>1
        <4> QED
          BY <1>2, <3>2, <4>2, <4>3
      <3>3. CASE q # r
        <4>1. events'[q].status = events[q].status
          BY <1>2, <3>3
        <4>2. dues'[<<q, x>>] = dues[<<q, x>>] /\ (<<q, x>> \in reversals' <=> <<q, x>> \in reversals)
          BY <1>9, <3>3
        <4> QED
          BY <3>1, <4>1, <4>2
      <3> QED
        BY <3>2, <3>3
    <2> QED
      BY <2>1 DEF CancelledEventIsSettled
  <1> QED
    BY <1>6, <1>7, <1>8, <1>10, <1>11 DEF IInv, Tables

(* Time passing makes no period and no event begin in the future.          *)
LEMMA TickKeeps ==
    ASSUME IInv, Tick
    PROVE  IInv'
  <1>1. /\ now < MaxTime /\ now' = now + 1
        /\ UNCHANGED <<joined, memberStatus, history, plan, cases, events, dues, reversals, job, reactivation>>
    BY DEF Tick, people
  <1>2. now \in Nat /\ now' \in Time
    BY <1>1, DeathSupportAssumption DEF IInv, DeathTypeOK, Time
  <1>3. DeathTypeOK'
    BY <1>1, <1>2 DEF IInv, DeathTypeOK
  <1>4. HistoryIsPast'
    <2>1. \A m \in Members : \A p \in history[m] : p.from \in Nat /\ p.from <= now
      BY DeathSupportAssumption DEF IInv, DeathTypeOK, HistoryIsPast, Time
    <2> QED
      BY <1>1, <1>2, <2>1 DEF HistoryIsPast
  <1>5. EventsAreDated'
    BY <1>1, <1>2 DEF IInv, Tables, EventsAreDated
  <1>6. (OneLiveCase /\ EventMatchesCase /\ CancelledEventIsSettled)'
    BY <1>1 DEF IInv, Tables, OneLiveCase, EventMatchesCase, CancelledEventIsSettled, Live
  <1>7. ObligationsAreHistorical'
    BY <1>1 DEF IInv, Tables, ObligationsAreHistorical, Joined
  <1> QED
    BY <1>3, <1>4, <1>5, <1>6, <1>7 DEF IInv, Tables

-----------------------------------------------------------------------------

(* At first the founders owe their membership due and nothing else exists. *)
LEMMA InitEstablishes == Init => IInv
  <1> SUFFICES ASSUME Init
               PROVE  IInv
    OBVIOUS
  <1>1. 0 \in Time /\ Time \subseteq Nat /\ NoTime \notin Time
    BY DeathSupportAssumption DEF Time
  <1>2. DeathTypeOK
    <2>1. history \in [Members -> SUBSET
             [status : {"ACTIVE", "INACTIVE", "DECEASED"}, from : Time, to : Time \cup {NoTime}]]
      BY <1>1 DEF Init, Period
    <2>2. \A m \in Members : \A p \in history[m] : p.to = NoTime
      BY DEF Init, Period
    <2>3. dues \in [DueIds -> DueStatuses \cup {"none"}]
      BY DEF Init, DueStatuses
    <2>4. cases \in [Reports -> CaseRows]
      BY <1>1 DEF Init, CaseRows
    <2>5. events \in [Reports -> EventRows]
      BY DEF Init, EventRows
    <2>6. /\ job \in [Members -> [step : {"idle", "read", "expired", "inactivate"}, batch : SUBSET DueIds]]
          /\ reactivation \in [Members -> {"idle", "inactive", "settled"}]
          /\ reversals \subseteq DueIds
      BY DEF Init, Idle
    <2> QED
      BY <1>1, <2>1, <2>2, <2>3, <2>4, <2>5, <2>6 DEF Init, DeathTypeOK, CaseRows, EventRows
  <1>3. HistoryIsPast
    BY DEF Init, HistoryIsPast, Period
  <1>4. EventsAreDated /\ OneLiveCase /\ EventMatchesCase
    BY DEF Init, EventsAreDated, OneLiveCase, EventMatchesCase, Live
  <1>5. \A r \in Reports, m \in Members : dues[<<r, m>>] = "none"
    BY DeathSupportAssumption DEF Init, DueIds
  <1>6. ObligationsAreHistorical /\ CancelledEventIsSettled
    BY <1>5 DEF Init, ObligationsAreHistorical, CancelledEventIsSettled
  <1> QED
    BY <1>2, <1>3, <1>4, <1>6 DEF IInv, Tables

(* Every step keeps the invariant.                                         *)
LEMMA NextKeeps == IInv /\ [Next]_vars => IInv'
  <1> SUFFICES ASSUME IInv, [Next]_vars
               PROVE  IInv'
    OBVIOUS
  <1>1. CASE Tick
    BY <1>1, TickKeeps
  <1>2. CASE Membership
    BY <1>2, RegisterKeeps, JobKeeps, ExpireDuesKeeps, ReactivationKeeps, PayDueKeeps DEF Membership
  <1>3. CASE Reporting
    BY <1>3, SubmitDeathReportKeeps, LinkReportKeeps, ConfirmReportKeeps, RejectReportKeeps,
       ApproveReportKeeps DEF Reporting
  <1>4. CASE EventWork
    BY <1>4, PublishEventKeeps, CloseEventKeeps, CancelEventKeeps, EditEventKeeps DEF EventWork
  <1>5. CASE UNCHANGED vars
    <2>1. UNCHANGED <<now, joined, memberStatus, history, plan, cases, events, dues, reversals, job, reactivation>>
      BY <1>5 DEF vars, people
    <2>2. DeathTypeOK' /\ HistoryIsPast'
      BY <2>1 DEF IInv, DeathTypeOK, HistoryIsPast
    <2>3. DuesMove
      BY <2>1 DEF DuesMove
    <2> QED
      BY <2>1, <2>2, <2>3, DuesMoveKeeps DEF IInv
  <1> QED
    BY <1>1, <1>2, <1>3, <1>4, <1>5 DEF Next

(* The invariant of reports, events and contributions, under every         *)
(* interleaving with the expiry job and with reactivations.                *)
THEOREM Invariance == Spec => []IInv
  BY InitEstablishes, NextKeeps, PTL DEF Spec

(* The tables stay typed and no membership period ends before it begins,   *)
(* for any members, reports and periods (BeginStatus, whatever writes it). *)
THEOREM DeathTypeCorrect == Spec => []DeathTypeOK
  <1>1. IInv => DeathTypeOK
    BY DEF IInv
  <1> QED
    BY <1>1, Invariance, PTL

(* However reports are submitted, linked, reviewed and cancelled, a member *)
(* is never the subject of two live cases (CanBeReported).                 *)
THEOREM OneLiveCasePerMember == Spec => []OneLiveCase
  <1>1. IInv => OneLiveCase
    BY DEF IInv, Tables
  <1> QED
    BY <1>1, Invariance, PTL

(* An event exists exactly for an approved case, and the two are cancelled *)
(* together (reviewDeathReportByAdmin, prepareEventCancellation).          *)
THEOREM EventsMatchCases == Spec => []EventMatchesCase
  <1>1. IInv => EventMatchesCase
    BY DEF IInv, Tables
  <1> QED
    BY <1>1, Invariance, PTL

(* A published event charges exactly those who were members when it was    *)
(* created, whoever registers and however often publication is replayed.   *)
THEOREM ObligationsFollowHistory == Spec => []ObligationsAreHistorical
  <1>1. IInv => ObligationsAreHistorical
    BY DEF IInv, Tables
  <1> QED
    BY <1>1, Invariance, PTL

(* A cancelled event leaves no due unsettled and reverses exactly the paid *)
(* ones, although the expiry job may hold a selection made before.         *)
THEOREM CancelledEventsAreSettled == Spec => []CancelledEventIsSettled
  <1>1. IInv => CancelledEventIsSettled
    BY DEF IInv, Tables
  <1> QED
    BY <1>1, Invariance, PTL
-----------------------------------------------------------------------------
(***************************************************************************)
(* Members and their history.  Everything that writes a status read the    *)
(* member before, so that it writes for someone who has joined; and every  *)
(* such write ends what is open and opens one period.                      *)
(***************************************************************************)
PeopleInv ==
    /\ \A m \in Members : ~Joined(m) => /\ memberStatus[m] = "ACTIVE"
                                        /\ job[m].step = "idle"
                                        /\ reactivation[m] = "idle"
    /\ \A m \in Members : dues[<<Fee, m>>] = "none" <=> ~Joined(m)
    /\ \A m \in Members : job[m].batch \subseteq DuesOf(m)
    /\ \A r \in Reports : cases[r].member \in Members => Joined(cases[r].member)
    /\ HistoryTellsStatus

(* After a change of status the new period is the only open one.           *)
LEMMA BeginStatusTells ==
    ASSUME DeathTypeOK, HistoryTellsStatus, NEW m \in Members, NEW s, joined' = joined,
           BeginStatus(m, s, now)
    PROVE  HistoryTellsStatus'
  <1> SUFFICES ASSUME NEW x \in Members, Joined(x)
               PROVE  \E p \in history'[x] :
                         /\ p.to = NoTime /\ p.status = memberStatus'[x]
                         /\ \A q \in history'[x] : q.to = NoTime => q = p
    BY DEF HistoryTellsStatus, Joined
  <1>1. now \in Time /\ now # NoTime
    BY DeathSupportAssumption DEF DeathTypeOK, Time
  <1>2. CASE x # m
    <2>1. history'[x] = history[x] /\ memberStatus'[x] = memberStatus[x]
      BY <1>2 DEF BeginStatus, DeathTypeOK
    <2> QED
      BY <2>1 DEF HistoryTellsStatus
  <1>3. CASE x = m
    <2>1. /\ history'[m] = EndPeriods(history[m], now) \cup {Period(s, now)}
          /\ memberStatus'[m] = s
      BY DEF BeginStatus, DeathTypeOK
    <2>2. /\ Period(s, now) \in history'[m]
          /\ Period(s, now).to = NoTime /\ Period(s, now).status = s
      BY <2>1 DEF Period
    <2>3. ASSUME NEW q \in EndPeriods(history[m], now)
          PROVE  q.to # NoTime
      <3>1. PICK p \in history[m] : q = [p EXCEPT !.to = IF @ = NoTime THEN now ELSE @]
        BY DEF EndPeriods
      <3>2. p \in Periods
        BY DEF DeathTypeOK, Periods, Statuses
      <3> QED
        BY <1>1, <3>1, <3>2 DEF Periods
    <2> QED
      BY <1>3, <2>1, <2>2, <2>3
  <1> QED
    BY <1>2, <1>3

(* Steps of those who have joined, on dues that keep existing.             *)
LEMMA PeopleKept ==
    ASSUME DeathTypeOK, PeopleInv, joined' = joined,
           \/ UNCHANGED <<memberStatus, history>>
           \/ \E m \in Members, s \in Statuses : Joined(m) /\ BeginStatus(m, s, now),
           \A m \in Members : dues'[<<Fee, m>>] = "none" <=> dues[<<Fee, m>>] = "none",
           \A m \in Members : \/ job'[m] = job[m]
                              \/ Joined(m) /\ job'[m].batch \subseteq DuesOf(m),
           \A m \in Members : reactivation'[m] = reactivation[m] \/ Joined(m),
           \A r \in Reports : \/ cases'[r].member = cases[r].member
                              \/ cases'[r].member \in Members => Joined(cases'[r].member)
    PROVE  PeopleInv'
  <1>1. HistoryTellsStatus'
    BY BeginStatusTells DEF PeopleInv, HistoryTellsStatus, Joined
  <1>2. \A m \in Members : ~Joined(m) => memberStatus'[m] = "ACTIVE"
    BY DEF PeopleInv, BeginStatus, DeathTypeOK
  <1>3. \A m \in Members : Joined(m)' <=> Joined(m)
    BY DEF Joined
  <1>4. \A m \in Members : DuesOf(m)' = DuesOf(m)
    BY DEF DuesOf
  <1>5. \A m \in Members : ~Joined(m) => job'[m].step = "idle" /\ reactivation'[m] = "idle"
    BY DEF PeopleInv
  <1>6. \A m \in Members : job'[m].batch \subseteq DuesOf(m)
    BY DEF PeopleInv
  <1>7. \A r \in Reports : cases'[r].member \in Members => Joined(cases'[r].member)
    BY DEF PeopleInv
  <1>8. \A r \in Reports : (cases[r].member \in Members => Joined(cases[r].member))'
    BY <1>7 DEF Joined
  <1>9. \A m \in Members : ~Joined(m)' => /\ memberStatus'[m] = "ACTIVE"
                                          /\ job'[m].step = "idle"
                                          /\ reactivation'[m] = "idle"
    BY <1>2, <1>3, <1>5
  <1>10. \A m \in Members : dues'[<<Fee, m>>] = "none" <=> ~Joined(m)'
    BY <1>3 DEF PeopleInv
  <1>11. \A m \in Members : job'[m].batch \subseteq DuesOf(m)'
    BY <1>4, <1>6
  <1> QED
    BY <1>1, <1>8, <1>9, <1>10, <1>11, Zenon DEF PeopleInv

(* A registration opens the one period of the new member.                  *)
LEMMA RegisterKeepsPeople ==
    ASSUME IInv, PeopleInv, NEW m \in Members, Register(m)
    PROVE  PeopleInv'
  <1>1. /\ joined' = [joined EXCEPT ![m] = now]
        /\ history' = [history EXCEPT ![m] = {Period("ACTIVE", now)}]
        /\ dues' = [dues EXCEPT ![<<Fee, m>>] = "PENDING"]
        /\ UNCHANGED <<now, memberStatus, plan, cases, events, reversals, job, reactivation>>
    BY DEF Register
  <1>2. now \in Time /\ now # NoTime /\ ~Joined(m)
    BY DeathSupportAssumption DEF IInv, DeathTypeOK, Time, Register
  <1>3. /\ Joined(m)'
        /\ \A x \in Members \ {m} : Joined(x)' <=> Joined(x)
    BY <1>1, <1>2 DEF IInv, DeathTypeOK, Joined
  <1>4. \A x \in Members : dues'[<<Fee, x>>] = "none" <=> ~Joined(x)'
    <2>1. \A x \in Members : dues'[<<Fee, x>>] = IF x = m THEN "PENDING" ELSE dues[<<Fee, x>>]
      BY <1>1 DEF IInv, DeathTypeOK, DueIds
    <2> QED
      BY <1>3, <2>1 DEF PeopleInv
  <1>5. HistoryTellsStatus'
    <2> SUFFICES ASSUME NEW x \in Members, Joined(x)'
                 PROVE  \E p \in history'[x] :
                           /\ p.to = NoTime /\ p.status = memberStatus[x]
                           /\ \A q \in history'[x] : q.to = NoTime => q = p
      BY <1>1 DEF HistoryTellsStatus
    <2>1. CASE x = m
      <3>1. history'[m] = {Period("ACTIVE", now)} /\ memberStatus[m] = "ACTIVE"
        BY <1>1, <1>2 DEF IInv, DeathTypeOK, PeopleInv
      <3> QED
        BY <2>1, <3>1 DEF Period
    <2>2. CASE x # m
      <3>1. history'[x] = history[x] /\ Joined(x)
        BY <1>1, <1>3, <2>2 DEF IInv, DeathTypeOK
      <3> QED
        BY <3>1 DEF PeopleInv, HistoryTellsStatus
    <2> QED
      BY <2>1, <2>2
  <1>6. \A x \in Members : DuesOf(x)' = DuesOf(x)
    BY DEF DuesOf
  <1>7. \A r \in Reports : (cases[r].member \in Members => Joined(cases[r].member))'
    <2>1. \A r \in Reports : cases[r].member \in Members => joined[cases[r].member] # NoTime
      BY DEF PeopleInv, Joined
    <2>2. \A x \in Members : joined[x] # NoTime => joined'[x] # NoTime
      BY <1>3 DEF Joined
    <2> QED
      BY <1>1, <2>1, <2>2 DEF Joined
  <1>8. \A x \in Members : ~Joined(x)' => /\ memberStatus'[x] = "ACTIVE"
                                          /\ job'[x].step = "idle"
                                          /\ reactivation'[x] = "idle"
    BY <1>1, <1>3 DEF PeopleInv
  <1>9. \A x \in Members : job'[x].batch \subseteq DuesOf(x)'
    BY <1>1, <1>6 DEF PeopleInv
  <1> QED
    BY <1>4, <1>5, <1>7, <1>8, <1>9, Zenon DEF PeopleInv

(* Every other step of a member, the job or a reactivation. *)
LEMMA MembershipKeepsPeople ==
    ASSUME IInv, PeopleInv, Membership
    PROVE  PeopleInv'
  <1> USE DEF IInv
  <1>1. ASSUME NEW d \in DueIds, PayDue(d)
        PROVE  PeopleInv'
    <2>1. \A m \in Members : dues'[<<Fee, m>>] = "none" <=> dues[<<Fee, m>>] = "none"
      <3>1. dues' = [dues EXCEPT ![d] = "PAID"] /\ dues[d] # "none"
        BY <1>1 DEF PayDue, Unsettled
      <3>2. dues \in [DueIds -> DueStatuses \cup {"none"}]
        BY DEF DeathTypeOK
      <3> QED
        BY <3>1, <3>2
    <2>2. UNCHANGED <<joined, memberStatus, history, cases, job, reactivation>>
      BY <1>1 DEF PayDue, people
    <2> QED
      BY <2>1, <2>2, PeopleKept
  <1>2. ASSUME NEW m \in Members, ReadExpired(m)
        PROVE  PeopleInv'
    <2>1. PICK d \in DuesOf(m) : dues[d] # "none"
      BY <1>2 DEF ReadExpired, DueForExpiry, Expirable
    <2>2. Joined(m)
      <3>1. PICK c \in Reports \cup {Fee} : d = <<c, m>>
        BY <2>1 DEF DuesOf, DueIds
      <3> QED
        BY <2>1, <3>1 DEF PeopleInv, Tables, ObligationsAreHistorical
    <2>3. \A x \in Members : job'[x] = job[x] \/ (x = m /\ job'[x].batch \subseteq DuesOf(x))
      BY <1>2 DEF ReadExpired, JobGoto, DeathTypeOK
    <2> QED
      BY <1>2, <2>2, <2>3, PeopleKept DEF ReadExpired, people
  <1>3. ASSUME NEW m \in Members, ExpireDues(m)
        PROVE  PeopleInv'
    <2>1. Joined(m)
      BY <1>3 DEF ExpireDues, PeopleInv
    <2>2. \A x \in Members : job'[x] = job[x] \/ (x = m /\ job'[x].batch \subseteq DuesOf(x))
      BY <1>3 DEF ExpireDues, JobGoto, DeathTypeOK, StillOpen, PeopleInv
    <2>3. \A x \in Members : dues'[<<Fee, x>>] = "none" <=> dues[<<Fee, x>>] = "none"
      BY <1>3 DEF ExpireDues, StillOpen, Expirable, DueIds
    <2> QED
      BY <1>3, <2>1, <2>2, <2>3, PeopleKept DEF ExpireDues, people
  <1>4. ASSUME NEW m \in Members, DecideInactive(m) \/ WriteInactive(m)
        PROVE  PeopleInv'
    <2>1. Joined(m)
      BY <1>4 DEF DecideInactive, WriteInactive, PeopleInv
    <2>2. \A x \in Members : job'[x] = job[x] \/ (x = m /\ job'[x].batch \subseteq DuesOf(x))
      BY <1>4 DEF DecideInactive, WriteInactive, DeathTypeOK, Idle, PeopleInv
    <2>3. UNCHANGED <<memberStatus, history>> \/ BeginStatus(m, "INACTIVE", now)
      BY <1>4 DEF DecideInactive, WriteInactive, people
    <2>4. UNCHANGED <<joined, cases, dues, reactivation>>
      BY <1>4 DEF DecideInactive, WriteInactive, people
    <2>5. "INACTIVE" \in Statuses
      BY DEF Statuses
    <2> QED
      BY <2>1, <2>2, <2>3, <2>4, <2>5, PeopleKept
  <1>5. ASSUME NEW m \in Members, ReadInactive(m) \/ ReadDues(m) \/ WriteActive(m)
        PROVE  PeopleInv'
    <2>1. Joined(m)
      BY <1>5 DEF ReadInactive, ReadDues, WriteActive, PeopleInv
    <2>2. \A x \in Members : reactivation'[x] = reactivation[x] \/ x = m
      BY <1>5 DEF ReadInactive, ReadDues, WriteActive, ReactivationGoto, DeathTypeOK
    <2>3. UNCHANGED <<memberStatus, history>> \/ BeginStatus(m, "ACTIVE", now)
      BY <1>5 DEF ReadInactive, ReadDues, WriteActive, people
    <2>4. UNCHANGED <<joined, cases, dues, job>>
      BY <1>5 DEF ReadInactive, ReadDues, WriteActive, people
    <2>5. "ACTIVE" \in Statuses
      BY DEF Statuses
    <2> QED
      BY <2>1, <2>2, <2>3, <2>4, <2>5, PeopleKept
  <1> QED
    BY <1>1, <1>2, <1>3, <1>4, <1>5, RegisterKeepsPeople DEF Membership

(* Reports are only of those who have joined, and a member is not someone  *)
(* else's report afterwards.                                               *)
LEMMA ReportingKeepsPeople ==
    ASSUME IInv, PeopleInv, Reporting
    PROVE  PeopleInv'
  <1> USE DEF IInv
  <1>1. ASSUME UNCHANGED <<now, people, dues, job, reactivation>>,
               \A r \in Reports : \/ cases'[r].member = cases[r].member
                                  \/ cases'[r].member \in Members => Joined(cases'[r].member)
        PROVE  PeopleInv'
    BY <1>1, PeopleKept DEF people
  <1>2. ASSUME NEW r \in Reports, NEW m \in Members \cup {Unmatched}, NEW dod \in Time,
               SubmitDeathReport(r, m, dod)
        PROVE  PeopleInv'
    <2>1. m \in Members => Joined(m)
      BY <1>2, DeathSupportAssumption DEF SubmitDeathReport, CanBeReported
    <2>2. \A q \in Reports : cases'[q].member = cases[q].member \/ cases'[q].member = m
      BY <1>2 DEF SubmitDeathReport, DeathTypeOK
    <2> QED
      BY <1>1, <1>2, <2>1, <2>2 DEF SubmitDeathReport
  <1>3. ASSUME NEW r \in Reports, NEW m \in Members, LinkReport(r, m)
        PROVE  PeopleInv'
    <2>1. Joined(m)
      BY <1>3 DEF LinkReport, CanBeReported
    <2>2. \A q \in Reports : cases'[q].member = cases[q].member \/ cases'[q].member = m
      <3>1. cases \in [Reports -> CaseRows]
        BY DEF DeathTypeOK, CaseRows
      <3>2. PICK verdict \in Eligibility(m, cases[r].dod) :
               cases' = [cases EXCEPT ![r].member = m, ![r].review = TRUE, ![r].eligibility = verdict]
        BY <1>3 DEF LinkReport
      <3> QED
        BY <3>1, <3>2 DEF CaseRows
    <2> QED
      BY <1>1, <1>3, <2>1, <2>2 DEF LinkReport
  <1>4. ASSUME NEW r \in Reports, ConfirmReport(r) \/ RejectReport(r)
        PROVE  PeopleInv'
    <2>1. \A q \in Reports : cases'[q].member = cases[q].member
      <3>1. cases \in [Reports -> CaseRows]
        BY DEF DeathTypeOK, CaseRows
      <3> QED
        BY <1>4, <3>1 DEF ConfirmReport, RejectReport, CaseRows
    <2> QED
      BY <1>1, <1>4, <2>1 DEF ConfirmReport, RejectReport
  <1>5. ASSUME NEW r \in Reports, ApproveReport(r)
        PROVE  PeopleInv'
    <2> DEFINE m == cases[r].member
    <2>1. m \in Members /\ Joined(m) /\ UNCHANGED <<now, joined, job, reactivation>>
      BY <1>5 DEF ApproveReport, DeathTypeOK, PeopleInv
    <2>2. \A q \in Reports : cases'[q].member = cases[q].member
      <3>1. cases \in [Reports -> CaseRows]
        BY DEF DeathTypeOK, CaseRows
      <3>2. PICK verdict \in Eligibility(m, cases[r].dod) :
               cases' = [cases EXCEPT ![r].status = "APPROVED", ![r].eligibility = verdict]
        BY <1>5 DEF ApproveReport
      <3> QED
        BY <3>1, <3>2 DEF CaseRows
    <2>3. UNCHANGED <<memberStatus, history>> \/ BeginStatus(m, "DECEASED", now)
      BY <1>5 DEF ApproveReport, MarkDeceased, DeceasedFrom
    <2>4. \A x \in Members : dues'[<<Fee, x>>] = "none" <=> dues[<<Fee, x>>] = "none"
      BY <1>5 DEF ApproveReport, MarkDeceased, DueIds, Unsettled
    <2>5. "DECEASED" \in Statuses
      BY DEF Statuses
    <2> HIDE DEF m
    <2> QED
      BY <2>1, <2>2, <2>3, <2>4, <2>5, PeopleKept
  <1> QED
    BY <1>2, <1>3, <1>4, <1>5 DEF Reporting

(* Work on events touches neither members nor whose the cases are. *)
LEMMA EventWorkKeepsPeople ==
    ASSUME IInv, PeopleInv, EventWork
    PROVE  PeopleInv'
  <1> USE DEF IInv
  <1>1. cases \in [Reports -> CaseRows]
    BY DEF DeathTypeOK, CaseRows
  <1>2. UNCHANGED <<now, people, job, reactivation>>
    BY DEF EventWork, PublishEvent, CloseEvent, CancelEvent, EditEvent
  <1>3. \A q \in Reports : cases'[q].member = cases[q].member
    BY <1>1 DEF EventWork, PublishEvent, CloseEvent, CancelEvent, EditEvent, CaseRows
  <1>4. \A m \in Members : dues'[<<Fee, m>>] = "none" <=> dues[<<Fee, m>>] = "none"
    BY DeathSupportAssumption
       DEF EventWork, PublishEvent, CloseEvent, CancelEvent, EditEvent, DueIds, Unsettled
  <1> QED
    BY <1>2, <1>3, <1>4, PeopleKept DEF people

(* Whoever is there at the start has the one period of a founder.          *)
LEMMA InitPeople == Init => PeopleInv
  <1> SUFFICES ASSUME Init PROVE PeopleInv
    OBVIOUS
  <1>1. NoTime # 0
    BY DeathSupportAssumption
  <1>2. \A m \in Members : Joined(m) <=> m \in Founders
    BY <1>1 DEF Init, Joined
  <1>3. \A m \in Members : dues[<<Fee, m>>] = "none" <=> m \notin Founders
    BY DEF Init, DueIds
  <1>4. \A m \in Members : /\ job[m] = Idle /\ reactivation[m] = "idle"
                           /\ memberStatus[m] = "ACTIVE"
    BY DEF Init
  <1>5. \A r \in Reports : cases[r].member \notin Members
    BY DeathSupportAssumption DEF Init
  <1>6. HistoryTellsStatus
    <2> SUFFICES ASSUME NEW m \in Members, m \in Founders
                 PROVE  \E p \in history[m] :
                           /\ p.to = NoTime /\ p.status = memberStatus[m]
                           /\ \A q \in history[m] : q.to = NoTime => q = p
      BY <1>2 DEF HistoryTellsStatus
    <2>1. history[m] = {Period("ACTIVE", 0)}
      BY DEF Init
    <2> QED
      BY <1>4, <2>1 DEF Period
  <1> QED
    BY <1>2, <1>3, <1>4, <1>5, <1>6 DEF PeopleInv, Idle

(* Every step keeps what is said of members.                               *)
LEMMA NextKeepsPeople == IInv /\ PeopleInv /\ [Next]_vars => PeopleInv'
  <1> SUFFICES ASSUME IInv, PeopleInv, [Next]_vars PROVE PeopleInv'
    OBVIOUS
  <1>1. CASE Tick \/ UNCHANGED vars
    BY <1>1, PeopleKept DEF Tick, vars, people, IInv
  <1> QED
    BY <1>1, MembershipKeepsPeople, ReportingKeepsPeople, EventWorkKeepsPeople DEF Next

(* The history of a member always has one open period, that of the present *)
(* status, whatever job, reactivation or approval wrote it and in whatever *)
(* order: the status at a death is what it says (membership history).      *)
THEOREM HistoryIsTold == Spec => []HistoryTellsStatus
  <1>1. Spec => [](IInv /\ PeopleInv)
    BY InitEstablishes, InitPeople, NextKeeps, NextKeepsPeople, PTL DEF Spec
  <1>2. PeopleInv => HistoryTellsStatus
    BY DEF PeopleInv
  <1> QED
    BY <1>1, <1>2, PTL
-----------------------------------------------------------------------------
(***************************************************************************)
(* Good standing.  Only the expiry job makes it end, and the job goes on   *)
(* to the decision about the member; a reactivation that found everything  *)
(* settled stays right until it writes, because what is charged meanwhile  *)
(* is not late within the instant, and the dues the job has selected are.  *)
(***************************************************************************)
InGoodStanding(m) == ~ShouldMarkMembershipInactive(m)

(* Neither expired nor about to be. *)
Clear(d) == dues[d] # "EXPIRED" /\ (dues[d] \in Expirable => now < Deadline(d))

MemberStanding(m) ==
    /\ job[m].step = "read" => \A d \in job[m].batch : dues[d] # "none" /\ Deadline(d) <= now
    /\ reactivation[m] = "settled" => \A d \in DuesOf(m) : Clear(d)
    /\ Joined(m) /\ memberStatus[m] = "ACTIVE" /\ job[m].step \in {"idle", "read"} =>
           InGoodStanding(m)

PublishedReports == {r \in Reports : events[r].publishedAt # NoTime}

StandingInv ==
    /\ IsFiniteSet(PublishedReports)
    /\ \A m \in Members : MemberStanding(m)

(* No due expires, what was charged keeps its deadline, and what is charged *)
(* now is not late.                                                        *)
DuesEase(m) ==
    \A d \in DuesOf(m) :
        /\ dues'[d] = "EXPIRED" => dues[d] = "EXPIRED"
        /\ dues[d] # "none" => dues'[d] # "none" /\ Deadline(d)' = Deadline(d)
        /\ dues'[d] \in Expirable => dues[d] \in Expirable \/ now < Deadline(d)'

(* Only finitely many contributions of a member can have expired.          *)
LEMMA FewExpire ==
    ASSUME IInv, IsFiniteSet(PublishedReports), NEW m \in Members
    PROVE  /\ IsFiniteSet({r \in Reports : dues[<<r, m>>] = "EXPIRED"})
           /\ ExpiredContributions(m) \in Nat
  <1>1. {r \in Reports : dues[<<r, m>>] = "EXPIRED"} \in SUBSET PublishedReports
    BY DEF PublishedReports, IInv, Tables, ObligationsAreHistorical
  <1>2. IsFiniteSet({r \in Reports : dues[<<r, m>>] = "EXPIRED"})
    BY <1>1, FS_Subset
  <1> QED
    BY <1>2, FS_CardinalityType DEF ExpiredContributions

(* A member of whom no due expires stays in good standing.                 *)
LEMMA NothingExpires ==
    ASSUME IInv, IsFiniteSet(PublishedReports), NEW m \in Members, InGoodStanding(m),
           \A d \in DuesOf(m) : dues'[d] = "EXPIRED" => dues[d] = "EXPIRED"
    PROVE  InGoodStanding(m)'
  <1> DEFINE before == {r \in Reports : dues[<<r, m>>] = "EXPIRED"}
             after == {r \in Reports : dues'[<<r, m>>] = "EXPIRED"}
  <1>1. \A r \in Reports \cup {Fee} : dues'[<<r, m>>] = "EXPIRED" => dues[<<r, m>>] = "EXPIRED"
    BY DEF DuesOf, DueIds
  <1>2. after \in SUBSET before
    BY <1>1
  <1>3. IsFiniteSet(before)
    BY FewExpire
  <1>4. IsFiniteSet(after) /\ Cardinality(after) <= Cardinality(before)
    BY <1>2, <1>3, FS_Subset
  <1>5. Cardinality(after) \in Nat /\ Cardinality(before) \in Nat
    BY <1>3, <1>4, FS_CardinalityType
  <1>6. ~(Cardinality(before) >= InactiveAfter) /\ dues[<<Fee, m>>] # "EXPIRED"
    BY DEF InGoodStanding, ShouldMarkMembershipInactive, ExpiredContributions
  <1>7. ~(Cardinality(after) >= InactiveAfter)
    <2> HIDE DEF before, after
    <2> QED
      BY <1>4, <1>5, <1>6, DeathSupportAssumption
  <1> QED
    BY <1>1, <1>6, <1>7
       DEF InGoodStanding, ShouldMarkMembershipInactive, ExpiredContributions

(* A member none of whose dues has expired is in good standing.            *)
LEMMA ClearIsGoodStanding ==
    ASSUME NEW m \in Members, \A d \in DuesOf(m) : dues[d] # "EXPIRED"
    PROVE  InGoodStanding(m)
  <1>1. \A r \in Reports \cup {Fee} : dues[<<r, m>>] # "EXPIRED"
    BY DEF DuesOf, DueIds
  <1>2. {r \in Reports : dues[<<r, m>>] = "EXPIRED"} = {}
    BY <1>1
  <1>3. ExpiredContributions(m) = 0
    BY <1>2, FS_EmptySet DEF ExpiredContributions
  <1> QED
    BY <1>1, <1>3, DeathSupportAssumption DEF InGoodStanding, ShouldMarkMembershipInactive

(* A member whose dues ease, and who is not served by a call of his own.   *)
LEMMA StandingEases ==
    ASSUME IInv, IsFiniteSet(PublishedReports), NEW m \in Members, MemberStanding(m),
           DuesEase(m), job[m].batch \subseteq DuesOf(m),
           now' = now, job'[m] = job[m], reactivation'[m] = reactivation[m],
           Joined(m)' /\ memberStatus'[m] = "ACTIVE" => Joined(m) /\ memberStatus[m] = "ACTIVE"
    PROVE  MemberStanding(m)'
  <1>1. job'[m].step = "read" =>
            \A d \in job'[m].batch : dues'[d] # "none" /\ Deadline(d)' <= now'
    BY DEF MemberStanding, DuesEase
  <1>2. ASSUME reactivation'[m] = "settled", NEW d \in DuesOf(m)
        PROVE  Clear(d)'
    <2>1. dues[d] # "EXPIRED" /\ (dues[d] \in Expirable => now < Deadline(d))
      BY <1>2 DEF MemberStanding, Clear
    <2>2. dues'[d] # "EXPIRED"
      BY <2>1 DEF DuesEase
    <2>3. dues'[d] \in Expirable => now' < Deadline(d)'
      <3>1. dues[d] \in Expirable => dues[d] # "none"
        BY DEF Expirable
      <3> QED
        BY <2>1, <3>1 DEF DuesEase
    <2> QED
      BY <2>2, <2>3 DEF Clear
  <1>3. Joined(m)' /\ memberStatus'[m] = "ACTIVE" /\ job'[m].step \in {"idle", "read"} =>
            InGoodStanding(m)'
    BY NothingExpires DEF MemberStanding, DuesEase
  <1>4. DuesOf(m)' = DuesOf(m)
    BY DEF DuesOf
  <1> QED
    BY <1>1, <1>2, <1>3, <1>4, Zenon DEF MemberStanding

(* Dues that are left alone, with their deadlines, ease. *)
LEMMA LeftAloneEases ==
    ASSUME NEW m \in Members, \A d \in DuesOf(m) : dues'[d] = dues[d],
           \A d \in DuesOf(m) : Deadline(d)' = Deadline(d)
    PROVE  DuesEase(m)
  BY DEF DuesEase

(* The deadline of a due that is charged stays, unless its event is        *)
(* published or its member registers again, which does not happen.         *)
LEMMA DeadlinesStay ==
    ASSUME UNCHANGED joined,
           \A r \in Reports : events'[r].publishedAt = events[r].publishedAt
    PROVE  \A d \in DueIds : Deadline(d)' = Deadline(d)
  BY DEF Deadline, DueIds

(* Steps that serve nobody and expire nothing. *)
LEMMA EasingKeepsStanding ==
    ASSUME IInv, PeopleInv, StandingInv,
           UNCHANGED <<now, job, reactivation>>,
           IsFiniteSet(PublishedReports'),
           \A m \in Members : DuesEase(m),
           \A m \in Members :
               Joined(m)' /\ memberStatus'[m] = "ACTIVE" => Joined(m) /\ memberStatus[m] = "ACTIVE"
    PROVE  StandingInv'
  <1>1. ASSUME NEW m \in Members
        PROVE  MemberStanding(m)'
    BY StandingEases DEF StandingInv, PeopleInv
  <1> QED
    BY <1>1 DEF StandingInv

(* Steps on the calls of one member, who keeps his standing, and that      *)
(* leave everybody else's calls, dues and status alone.                    *)
LEMMA ServingKeepsStanding ==
    ASSUME IInv, PeopleInv, StandingInv, NEW m \in Members, MemberStanding(m)',
           UNCHANGED <<now, joined, events>>,
           \A x \in Members \ {m} : /\ job'[x] = job[x]
                                    /\ reactivation'[x] = reactivation[x]
                                    /\ memberStatus'[x] = memberStatus[x]
                                    /\ \A d \in DuesOf(x) : dues'[d] = dues[d]
    PROVE  StandingInv'
  <1>1. ASSUME NEW x \in Members \ {m}
        PROVE  MemberStanding(x)'
    <2>1. \A d \in DuesOf(x) : Deadline(d)' = Deadline(d)
      BY DeadlinesStay DEF DuesOf
    <2>2. DuesEase(x)
      BY <2>1, LeftAloneEases
    <2>3. Joined(x)' <=> Joined(x)
      BY DEF Joined
    <2> QED
      BY <2>2, <2>3, StandingEases DEF StandingInv, PeopleInv
  <1>2. PublishedReports' = PublishedReports
    BY DEF PublishedReports
  <1> QED
    BY <1>1, <1>2 DEF StandingInv
(* A registration: the new member owes nothing yet that could have expired. *)
LEMMA RegisterKeepsStanding ==
    ASSUME IInv, PeopleInv, StandingInv, NEW m \in Members, Register(m)
    PROVE  StandingInv'
  <1>1. /\ joined' = [joined EXCEPT ![m] = now]
        /\ dues' = [dues EXCEPT ![<<Fee, m>>] = "PENDING"]
        /\ UNCHANGED <<now, memberStatus, cases, events, job, reactivation>>
        /\ ~Joined(m)
    BY DEF Register
  <1>2. PublishedReports' = PublishedReports
    BY <1>1 DEF PublishedReports
  <1>3. ASSUME NEW x \in Members \ {m}
        PROVE  MemberStanding(x)'
    <2>1. \A d \in DuesOf(x) : /\ d[2] = x
                               /\ dues'[d] = dues[d]
      BY <1>1 DEF DuesOf, IInv, DeathTypeOK
    <2>2. joined'[x] = joined[x]
      BY <1>1 DEF IInv, DeathTypeOK
    <2>3. \A d \in DuesOf(x) : Deadline(d)' = Deadline(d)
      BY <1>1, <2>1, <2>2 DEF Deadline
    <2>4. DuesEase(x)
      BY <2>1, <2>3, LeftAloneEases
    <2>5. Joined(x)' <=> Joined(x)
      BY <2>2 DEF Joined
    <2> QED
      BY <1>1, <2>4, <2>5, StandingEases DEF StandingInv, PeopleInv
  <1>4. MemberStanding(m)'
    <2>1. job'[m].step = "idle" /\ reactivation'[m] = "idle"
      BY <1>1 DEF PeopleInv
    <2>2. \A r \in Reports : dues[<<r, m>>] = "none"
      BY <1>1 DEF IInv, Tables, ObligationsAreHistorical
    <2>3. \A d \in DuesOf(m) : dues'[d] # "EXPIRED"
      <3> SUFFICES ASSUME NEW d \in DuesOf(m) PROVE dues'[d] # "EXPIRED"
        OBVIOUS
      <3>1. PICK c \in Reports \cup {Fee} : d = <<c, m>>
        BY DEF DuesOf, DueIds
      <3>2. dues[<<Fee, m>>] = "none"
        BY <1>1 DEF PeopleInv
      <3>3. dues[d] = "none"
        BY <2>2, <3>1, <3>2
      <3> QED
        BY <1>1, <3>3 DEF IInv, DeathTypeOK
    <2>4. DuesOf(m)' = DuesOf(m)
      BY DEF DuesOf
    <2>5. InGoodStanding(m)'
      <3>1. \A r \in Reports \cup {Fee} : dues'[<<r, m>>] # "EXPIRED"
        BY <2>3 DEF DuesOf, DueIds
      <3>2. {r \in Reports : dues'[<<r, m>>] = "EXPIRED"} = {}
        BY <3>1
      <3>3. Cardinality({r \in Reports : dues'[<<r, m>>] = "EXPIRED"}) = 0
        BY <3>2, FS_EmptySet
      <3> QED
        BY <3>1, <3>3, DeathSupportAssumption
           DEF InGoodStanding, ShouldMarkMembershipInactive, ExpiredContributions
    <2> QED
      BY <2>1, <2>5 DEF MemberStanding
  <1> QED
    BY <1>2, <1>3, <1>4 DEF StandingInv

(* The job: what it selects is late, what it expires makes it go on to the *)
(* decision, and it leaves a member only in good standing or not ACTIVE.   *)
LEMMA JobKeepsStanding ==
    ASSUME IInv, PeopleInv, StandingInv, NEW m \in Members,
           ReadExpired(m) \/ ExpireDues(m) \/ DecideInactive(m) \/ WriteInactive(m)
    PROVE  StandingInv'
  <1>1. /\ UNCHANGED <<now, joined, events, reactivation>>
        /\ \A x \in Members \ {m} : job'[x] = job[x]
        /\ MemberStanding(m)
    BY DEF ReadExpired, ExpireDues, DecideInactive, WriteInactive, people, JobGoto, IInv,
           DeathTypeOK, StandingInv
  <1>2. \A d \in DueIds : Deadline(d)' = Deadline(d)
    BY <1>1, DeadlinesStay
  <1>3. \A x \in Members \ {m} : \A d \in DuesOf(x) : dues'[d] = dues[d]
    BY DEF ReadExpired, ExpireDues, DecideInactive, WriteInactive, StillOpen, DuesOf, PeopleInv
  <1>4. \A x \in Members \ {m} : memberStatus'[x] = memberStatus[x]
    BY DEF ReadExpired, ExpireDues, DecideInactive, WriteInactive, people, BeginStatus, IInv,
           DeathTypeOK
  <1>5. DuesOf(m)' = DuesOf(m) /\ DuesOf(m) \subseteq DueIds
    BY DEF DuesOf
  <1>6. CASE ReadExpired(m)
    <2>1. UNCHANGED <<dues, memberStatus>>
      BY <1>6 DEF ReadExpired, people
    <2>2. /\ job[m].step = "idle" /\ job'[m].step = "read"
          /\ job'[m].batch = {d \in DuesOf(m) : DueForExpiry(dues[d], Deadline(d), now)}
      BY <1>6 DEF ReadExpired, JobGoto, IInv, DeathTypeOK
    <2>3. \A d \in job'[m].batch : dues'[d] # "none" /\ Deadline(d)' <= now'
      BY <1>1, <1>2, <1>5, <2>1, <2>2 DEF DueForExpiry, Expirable
    <2>4. reactivation'[m] = "settled" => \A d \in DuesOf(m) : Clear(d)'
      BY <1>1, <1>2, <1>5, <2>1 DEF MemberStanding, Clear
    <2>5. Joined(m)' /\ memberStatus'[m] = "ACTIVE" => InGoodStanding(m)'
      BY <1>1, <2>1, <2>2, NothingExpires DEF MemberStanding, Joined, StandingInv
    <2>6. MemberStanding(m)'
      BY <1>5, <2>3, <2>4, <2>5, Zenon DEF MemberStanding
    <2> QED
      BY <1>1, <1>3, <1>4, <2>6, ServingKeepsStanding
  <1>7. CASE ExpireDues(m)
    <2>1. /\ job[m].step = "read" /\ job'[m].step = "expired"
          /\ dues' = [d \in DueIds |-> IF d \in StillOpen(job[m].batch) THEN "EXPIRED" ELSE dues[d]]
      BY <1>7 DEF ExpireDues, JobGoto, IInv, DeathTypeOK
    <2>2. ASSUME reactivation'[m] = "settled", NEW d \in DuesOf(m)
          PROVE  Clear(d)'
      <3>1. Clear(d)
        BY <1>1, <2>2 DEF MemberStanding
      <3>2. d \notin StillOpen(job[m].batch)
        <4>1. d \in job[m].batch => Deadline(d) <= now
          BY <1>1, <2>1 DEF MemberStanding
        <4>2. d \in job[m].batch /\ dues[d] \in Expirable => now < Deadline(d)
          BY <3>1 DEF Clear
        <4>3. now \in Nat
          BY DEF IInv, DeathTypeOK, Time
        <4>4. d \in job[m].batch /\ dues[d] \in Expirable => Deadline(d) \in Nat
          <5> SUFFICES ASSUME d \in job[m].batch, dues[d] \in Expirable
                       PROVE  Deadline(d) \in Nat
            OBVIOUS
          <5>1. PICK c \in Reports \cup {Fee} : d = <<c, m>>
            BY <1>5 DEF DuesOf, DueIds
          <5>2. CASE c = Fee
            <6>1. joined[m] \in Nat
              BY <5>1, <5>2 DEF PeopleInv, Joined, Expirable, IInv, DeathTypeOK, Time
            <6> QED
              BY <5>1, <5>2, <6>1, DeathSupportAssumption DEF Deadline
          <5>3. CASE c \in Reports /\ c # Fee
            <6>1. events[c].publishedAt # NoTime
              BY <5>1, <5>3 DEF IInv, Tables, ObligationsAreHistorical, Expirable
            <6>2. events[c].publishedAt \in Nat
              BY <5>3, <6>1 DEF IInv, DeathTypeOK, Time
            <6> QED
              BY <5>1, <5>3, <6>2, DeathSupportAssumption DEF Deadline
          <5> QED
            BY <5>2, <5>3
        <4>5. ASSUME d \in job[m].batch, dues[d] \in Expirable
              PROVE  FALSE
          BY <4>1, <4>2, <4>3, <4>4, <4>5
        <4> QED
          BY <4>5 DEF StillOpen
      <3>3. dues'[d] = dues[d]
        BY <1>5, <2>1, <3>2
      <3> QED
        BY <1>1, <1>2, <1>5, <3>1, <3>3 DEF Clear
    <2>3. MemberStanding(m)'
      BY <1>5, <2>1, <2>2, Zenon DEF MemberStanding
    <2> QED
      BY <1>1, <1>3, <1>4, <2>3, ServingKeepsStanding
  <1>8. CASE DecideInactive(m) \/ WriteInactive(m)
    <2>1. dues' = dues /\ job'[m].step \in {"idle", "inactivate"}
      BY <1>8 DEF DecideInactive, WriteInactive, IInv, DeathTypeOK, Idle
    <2>2. Joined(m)' /\ memberStatus'[m] = "ACTIVE" /\ job'[m].step = "idle" => InGoodStanding(m)
      BY <1>8 DEF DecideInactive, WriteInactive, BeginStatus, InGoodStanding, people, IInv,
                  DeathTypeOK, Idle
    <2>3. InGoodStanding(m) => InGoodStanding(m)'
      BY <2>1, NothingExpires DEF StandingInv
    <2>4. reactivation'[m] = "settled" => \A d \in DuesOf(m) : Clear(d)'
      BY <1>1, <1>2, <1>5, <2>1 DEF MemberStanding, Clear
    <2>5. MemberStanding(m)'
      BY <1>5, <2>1, <2>2, <2>3, <2>4, Zenon DEF MemberStanding
    <2> QED
      BY <1>1, <1>3, <1>4, <2>5, ServingKeepsStanding
  <1> QED
    BY <1>6, <1>7, <1>8

(* A reactivation writes ACTIVE only for those it found settled.           *)
LEMMA ReactivationKeepsStanding ==
    ASSUME IInv, PeopleInv, StandingInv, NEW m \in Members,
           ReadInactive(m) \/ ReadDues(m) \/ WriteActive(m)
    PROVE  StandingInv'
  <1>1. /\ UNCHANGED <<now, joined, events, dues, job>>
        /\ \A x \in Members \ {m} : reactivation'[x] = reactivation[x]
        /\ \A x \in Members \ {m} : memberStatus'[x] = memberStatus[x]
        /\ MemberStanding(m)
    BY DEF ReadInactive, ReadDues, WriteActive, people, ReactivationGoto, BeginStatus, IInv,
           DeathTypeOK, StandingInv
  <1>2. \A d \in DuesOf(m) : Deadline(d)' = Deadline(d)
    BY <1>1, DeadlinesStay DEF DuesOf
  <1>3. DuesOf(m)' = DuesOf(m)
    BY DEF DuesOf
  <1>4. reactivation'[m] = "settled" => \A d \in DuesOf(m) : dues[d] \notin Unsettled
    BY DEF ReadInactive, ReadDues, WriteActive, ReactivationGoto, Outstanding, IInv, DeathTypeOK
  <1>5. reactivation'[m] = "settled" => \A d \in DuesOf(m) : Clear(d)'
    BY <1>1, <1>4 DEF Clear, Unsettled, Expirable
  <1>6. Joined(m) /\ memberStatus'[m] = "ACTIVE" /\ job[m].step \in {"idle", "read"}
            => InGoodStanding(m)
    <2>1. CASE WriteActive(m)
      <3>1. \A d \in DuesOf(m) : dues[d] # "EXPIRED"
        BY <1>1, <2>1 DEF WriteActive, MemberStanding, Clear
      <3> QED
        BY <3>1, ClearIsGoodStanding
    <2>2. CASE ReadInactive(m) \/ ReadDues(m)
      BY <1>1, <2>2 DEF ReadInactive, ReadDues, MemberStanding, people
    <2> QED
      BY <2>1, <2>2
  <1>7. InGoodStanding(m) => InGoodStanding(m)'
    BY <1>1, NothingExpires DEF StandingInv
  <1>8. Joined(m)' <=> Joined(m)
    BY <1>1 DEF Joined
  <1>9. job'[m].step = "read" =>
            \A d \in job'[m].batch : dues'[d] # "none" /\ Deadline(d)' <= now'
    BY <1>1, <1>2 DEF MemberStanding, PeopleInv
  <1>10. MemberStanding(m)'
    BY <1>1, <1>3, <1>5, <1>6, <1>7, <1>8, <1>9, Zenon DEF MemberStanding
  <1> QED
    BY <1>1, <1>10, ServingKeepsStanding

(* A payment eases. *)
LEMMA PayDueKeepsStanding ==
    ASSUME IInv, PeopleInv, StandingInv, NEW d \in DueIds, PayDue(d)
    PROVE  StandingInv'
  <1>1. /\ dues' = [dues EXCEPT ![d] = "PAID"]
        /\ dues[d] # "none"
        /\ UNCHANGED <<now, joined, memberStatus, events, job, reactivation>>
    BY DEF PayDue, people, Unsettled
  <1>2. \A x \in DueIds : Deadline(x)' = Deadline(x)
    BY <1>1, DeadlinesStay
  <1>3. \A x \in DueIds : dues'[x] = IF x = d THEN "PAID" ELSE dues[x]
    BY <1>1 DEF IInv, DeathTypeOK
  <1>4. ASSUME NEW m \in Members
        PROVE  DuesEase(m)
    BY <1>1, <1>2, <1>3 DEF DuesEase, DuesOf, Expirable
  <1>5. PublishedReports' = PublishedReports
    BY <1>1 DEF PublishedReports
  <1> QED
    BY <1>1, <1>4, <1>5, EasingKeepsStanding DEF StandingInv, Joined

(* Reports: only an approval writes dues, and it waives them.              *)
LEMMA ReportingKeepsStanding ==
    ASSUME IInv, PeopleInv, StandingInv, Reporting
    PROVE  StandingInv'
  <1>1. UNCHANGED <<now, joined, job, reactivation>>
    BY DEF Reporting, SubmitDeathReport, LinkReport, ConfirmReport, RejectReport, ApproveReport,
           people
  <1>2. \A r \in Reports : events'[r].publishedAt = events[r].publishedAt
    <2>1. ASSUME NEW r \in Reports, ApproveReport(r)
          PROVE  \A q \in Reports : events'[q].publishedAt = events[q].publishedAt
      <3>1. events[r].status = "none" /\ events[r].publishedAt = NoTime
        BY <2>1 DEF IInv, Tables, EventMatchesCase, EventsAreDated, ApproveReport, Reviewable
      <3>2. events' = [events EXCEPT ![r] =
                         [status |-> "APPROVED", createdAt |-> now, publishedAt |-> NoTime]]
        BY <2>1, <3>1 DEF ApproveReport
      <3> QED
        BY <3>1, <3>2 DEF IInv, DeathTypeOK
    <2> QED
      BY <2>1 DEF Reporting, SubmitDeathReport, LinkReport, ConfirmReport, RejectReport
  <1>3. \A d \in DueIds : Deadline(d)' = Deadline(d)
    BY <1>1, <1>2, DeadlinesStay
  <1>4. \A d \in DueIds : dues'[d] = dues[d] \/ (dues[d] # "none" /\ dues'[d] = "WAIVED")
    BY DEF Reporting, SubmitDeathReport, LinkReport, ConfirmReport, RejectReport, ApproveReport,
           MarkDeceased, Unsettled
  <1>5. ASSUME NEW m \in Members
        PROVE  DuesEase(m)
    BY <1>3, <1>4 DEF DuesEase, DuesOf, Expirable
  <1>6. \A m \in Members : memberStatus'[m] = "ACTIVE" => memberStatus[m] = "ACTIVE"
    <2>1. \/ memberStatus' = memberStatus
          \/ \E m \in Members : memberStatus' = [memberStatus EXCEPT ![m] = "DECEASED"]
      <3>1. ASSUME NEW r \in Reports, ApproveReport(r)
            PROVE  \/ memberStatus' = memberStatus
                   \/ \E m \in Members : memberStatus' = [memberStatus EXCEPT ![m] = "DECEASED"]
        <4>1. cases[r].member \in Members
          BY <3>1 DEF ApproveReport, IInv, DeathTypeOK
        <4> QED
          BY <3>1, <4>1 DEF ApproveReport, MarkDeceased, BeginStatus, people
      <3> QED
        BY <3>1 DEF Reporting, SubmitDeathReport, LinkReport, ConfirmReport, RejectReport, people
    <2> QED
      BY <2>1 DEF IInv, DeathTypeOK
  <1>7. PublishedReports' = PublishedReports
    BY <1>2 DEF PublishedReports
  <1> QED
    BY <1>1, <1>5, <1>6, <1>7, EasingKeepsStanding DEF StandingInv, Joined

(* Events: what a publication charges is not late, a replay charges nobody *)
(* anew, and a cancellation eases.                                         *)
LEMMA EventWorkKeepsStanding ==
    ASSUME IInv, PeopleInv, StandingInv, EventWork
    PROVE  StandingInv'
  <1>1. UNCHANGED <<now, joined, memberStatus, job, reactivation>>
    BY DEF EventWork, PublishEvent, CloseEvent, CancelEvent, EditEvent, people
  <1>2. ASSUME \A r \in Reports : events'[r].publishedAt = events[r].publishedAt,
               \A d \in DueIds : dues'[d] = dues[d] \/ (dues[d] # "none" /\ dues'[d] = "CANCELLED")
        PROVE  StandingInv'
    <2>1. \A d \in DueIds : Deadline(d)' = Deadline(d)
      BY <1>1, <1>2, DeadlinesStay
    <2>2. ASSUME NEW m \in Members
          PROVE  DuesEase(m)
      BY <1>2, <2>1 DEF DuesEase, DuesOf, Expirable
    <2>3. PublishedReports' = PublishedReports
      BY <1>2 DEF PublishedReports
    <2> QED
      BY <1>1, <2>2, <2>3, EasingKeepsStanding DEF StandingInv, Joined
  <1>3. ASSUME NEW r \in Reports, CloseEvent(r) \/ CancelEvent(r) \/ \E dod \in Time : EditEvent(r, dod)
        PROVE  StandingInv'
    <2>1. \A q \in Reports : events'[q].publishedAt = events[q].publishedAt
      <3>1. events \in [Reports -> EventRows]
        BY DEF IInv, DeathTypeOK, EventRows
      <3> QED
        BY <1>3, <3>1 DEF CloseEvent, CancelEvent, EditEvent, EventRows
    <2>2. \A d \in DueIds : dues'[d] = dues[d] \/ (dues[d] # "none" /\ dues'[d] = "CANCELLED")
      BY <1>3 DEF CloseEvent, CancelEvent, EditEvent, Unsettled
    <2> QED
      BY <1>2, <2>1, <2>2
  <1>4. ASSUME NEW r \in Reports, PublishEvent(r)
        PROVE  StandingInv'
    <2>1. \A d \in DueIds :
              dues'[d] = IF d[1] = r /\ d[2] \in ObligationMembers(r) /\ dues[d] = "none"
                         THEN "PENDING" ELSE dues[d]
      BY <1>4 DEF PublishEvent
    <2>2. CASE events[r].publishedAt # NoTime
      <3>1. events' = events
        BY <1>4, <2>2 DEF PublishEvent
      <3>2. \A x \in ObligationMembers(r) : dues[<<r, x>>] # "none"
        BY <2>2 DEF IInv, Tables, ObligationsAreHistorical, ObligationMembers
      <3>3. \A d \in DueIds : dues'[d] = dues[d]
        BY <2>1, <3>2 DEF DueIds
      <3> QED
        BY <1>2, <3>1, <3>3
    <2>3. CASE events[r].publishedAt = NoTime
      <3>1. /\ events'[r].publishedAt = now
            /\ \A q \in Reports \ {r} : events'[q].publishedAt = events[q].publishedAt
        <4>1. events' = [events EXCEPT ![r].status = "PUBLISHED", ![r].publishedAt = now]
          BY <1>4, <2>3 DEF PublishEvent
        <4>2. events \in [Reports -> EventRows]
          BY DEF IInv, DeathTypeOK, EventRows
        <4> QED
          BY <4>1, <4>2 DEF EventRows
      <3>2. ASSUME NEW m \in Members, NEW d \in DuesOf(m)
            PROVE  /\ dues'[d] = "EXPIRED" => dues[d] = "EXPIRED"
                   /\ dues[d] # "none" => dues'[d] # "none" /\ Deadline(d)' = Deadline(d)
                   /\ dues'[d] \in Expirable => dues[d] \in Expirable \/ now < Deadline(d)'
        <4>1. PICK c \in Reports \cup {Fee} : d = <<c, m>> /\ d \in DueIds
          BY DEF DuesOf, DueIds
        <4>2. CASE c # r
          <5>1. dues'[d] = dues[d]
            BY <2>1, <4>1, <4>2
          <5>2. Deadline(d)' = Deadline(d)
            BY <1>1, <3>1, <4>1, <4>2 DEF Deadline
          <5> QED
            BY <5>1, <5>2
        <4>3. CASE c = r
          <5>1. dues[d] = "none"
            BY <2>3, <4>1, <4>3 DEF IInv, Tables, ObligationsAreHistorical
          <5>2. dues'[d] \in {"none", "PENDING"}
            BY <2>1, <4>1, <5>1
          <5>3. c # Fee
            BY <4>3, DeathSupportAssumption
          <5>4. Deadline(d)' = now + DueTime
            BY <3>1, <4>1, <4>3, <5>3 DEF Deadline
          <5>5. now < Deadline(d)'
            BY <5>4, DeathSupportAssumption DEF IInv, DeathTypeOK, Time
          <5> QED
            BY <5>1, <5>2, <5>5
        <4> QED
          BY <4>2, <4>3
      <3>3. \A m \in Members : DuesEase(m)
        BY <3>2 DEF DuesEase
      <3>4. IsFiniteSet(PublishedReports')
        <4>1. PublishedReports' \in SUBSET (PublishedReports \cup {r})
          BY <3>1 DEF PublishedReports
        <4>2. IsFiniteSet(PublishedReports \cup {r})
          BY FS_AddElement DEF StandingInv
        <4> QED
          BY <4>1, <4>2, FS_Subset
      <3> QED
        BY <1>1, <3>3, <3>4, EasingKeepsStanding DEF Joined
    <2> QED
      BY <2>2, <2>3
  <1> QED
    BY <1>3, <1>4 DEF EventWork

(* Time passes only when no call is under way. *)
LEMMA TickKeepsStanding ==
    ASSUME IInv, PeopleInv, StandingInv, Tick
    PROVE  StandingInv'
  <1>1. /\ UNCHANGED <<joined, memberStatus, events, dues, job, reactivation>>
        /\ \A m \in Members : job[m].step = "idle" /\ reactivation[m] = "idle"
    BY DEF Tick, people
  <1>2. PublishedReports' = PublishedReports
    BY <1>1 DEF PublishedReports
  <1>3. ASSUME NEW m \in Members
        PROVE  MemberStanding(m)'
    <2>1. InGoodStanding(m) => InGoodStanding(m)'
      BY <1>1, NothingExpires DEF StandingInv
    <2>2. Joined(m)' <=> Joined(m)
      BY <1>1 DEF Joined
    <2>3. job'[m].step = "idle" /\ reactivation'[m] = "idle" /\ memberStatus'[m] = memberStatus[m]
      BY <1>1
    <2> QED
      BY <1>1, <2>1, <2>2, <2>3 DEF MemberStanding, StandingInv
  <1> QED
    BY <1>2, <1>3 DEF StandingInv

(* At the start nothing is published, and nobody has an expired due.       *)
LEMMA InitStanding == Init => StandingInv
  <1> SUFFICES ASSUME Init PROVE StandingInv
    OBVIOUS
  <1>1. PublishedReports = {}
    BY DEF Init, PublishedReports
  <1>2. ASSUME NEW m \in Members
        PROVE  MemberStanding(m)
    <2>1. job[m].step = "idle" /\ reactivation[m] = "idle"
      BY DEF Init, Idle
    <2>2. \A d \in DuesOf(m) : dues[d] # "EXPIRED"
      BY DEF Init, DuesOf
    <2> QED
      BY <2>1, <2>2, ClearIsGoodStanding DEF MemberStanding
  <1> QED
    BY <1>1, <1>2, FS_EmptySet DEF StandingInv

(* Every step keeps good standing.                                         *)
LEMMA NextKeepsStanding ==
    IInv /\ PeopleInv /\ StandingInv /\ [Next]_vars => StandingInv'
  <1> SUFFICES ASSUME IInv, PeopleInv, StandingInv, [Next]_vars PROVE StandingInv'
    OBVIOUS
  <1>1. CASE Membership
    BY <1>1, RegisterKeepsStanding, JobKeepsStanding, ReactivationKeepsStanding,
       PayDueKeepsStanding DEF Membership
  <1>2. CASE UNCHANGED vars
    <2>1. UNCHANGED <<now, joined, memberStatus, events, dues, job, reactivation>>
      BY <1>2 DEF vars, people
    <2>2. \A m \in Members : DuesEase(m)
      <3>1. \A d \in DueIds : Deadline(d)' = Deadline(d)
        BY <2>1, DeadlinesStay
      <3> QED
        BY <2>1, <3>1, LeftAloneEases DEF DuesOf
    <2>3. PublishedReports' = PublishedReports
      BY <2>1 DEF PublishedReports
    <2> QED
      BY <2>1, <2>2, <2>3, EasingKeepsStanding DEF StandingInv, Joined
  <1> QED
    BY <1>1, <1>2, TickKeepsStanding, ReportingKeepsStanding, EventWorkKeepsStanding DEF Next

(* Whoever is ACTIVE while the job is not at work on him has no expired    *)
(* membership due and too few expired contributions to lose his standing,  *)
(* although job and reactivation decide on what they read before others    *)
(* pay, publish and cancel (processMembershipDueExpiry,                    *)
(* reactivateMembership).                                                  *)
THEOREM ActiveMembersAreInGoodStanding == Spec => []ActiveInGoodStanding
  <1>1. Spec => [](IInv /\ PeopleInv /\ StandingInv)
    BY InitEstablishes, InitPeople, InitStanding, NextKeeps, NextKeepsPeople,
       NextKeepsStanding, PTL DEF Spec
  <1>2. IInv /\ PeopleInv /\ StandingInv => ActiveInGoodStanding
    <2> SUFFICES ASSUME IInv, StandingInv, NEW m \in Members,
                        Joined(m), memberStatus[m] = "ACTIVE", job[m].step = "idle"
                 PROVE  /\ dues[<<Fee, m>>] # "EXPIRED"
                        /\ ExpiredContributions(m) < InactiveAfter
      BY DEF ActiveInGoodStanding
    <2>1. /\ dues[<<Fee, m>>] # "EXPIRED"
          /\ ~(ExpiredContributions(m) >= InactiveAfter)
      BY DEF StandingInv, MemberStanding, InGoodStanding, ShouldMarkMembershipInactive
    <2>2. ExpiredContributions(m) \in Nat
      BY FewExpire DEF StandingInv
    <2> QED
      BY <2>1, <2>2, DeathSupportAssumption
  <1> QED
    BY <1>1, <1>2, PTL

-----------------------------------------------------------------------------
(***************************************************************************)
(* DeathSupport implements SupportPledges.  Besides the invariant of the   *)
(* tables it takes that a report of a DECEASED member is never decided     *)
(* about: an approval always finds somebody to release.                    *)
(***************************************************************************)
DeceasedAreDecided ==
    \A r \in Reports :
        Reviewable(r) /\ cases[r].member # Unmatched => memberStatus[cases[r].member] # "DECEASED"

(* Cases are rows, and so is what a step makes of one of them. *)
LEMMA ReportedMembers ==
    ASSUME IInv
    PROVE  /\ \A r \in Reports : cases[r].member \in Members \cup {Unmatched}
           /\ \A r \in Reports : cases[r] \in CaseRows
           /\ cases \in [Reports -> CaseRows]
           /\ memberStatus \in [Members -> Statuses]
  BY DEF IInv, DeathTypeOK, CaseRows, Statuses

(* A member whose status a job or a reactivation writes is not DECEASED    *)
(* after it.                                                               *)
LEMMA MembershipKeepsDecided ==
    ASSUME IInv, DeceasedAreDecided, Membership
    PROVE  DeceasedAreDecided'
  <1>1. cases' = cases
    BY DEF Membership, Register, ReadExpired, ExpireDues, DecideInactive, WriteInactive,
           ReadInactive, ReadDues, WriteActive, PayDue
  <1>2. \A m \in Members : memberStatus'[m] = memberStatus[m] \/ memberStatus'[m] # "DECEASED"
    <2>1. \/ memberStatus' = memberStatus
          \/ \E m \in Members : memberStatus' = [memberStatus EXCEPT ![m] = "INACTIVE"]
          \/ \E m \in Members : memberStatus' = [memberStatus EXCEPT ![m] = "ACTIVE"]
      BY DEF Membership, Register, ReadExpired, ExpireDues, DecideInactive, WriteInactive,
             ReadInactive, ReadDues, WriteActive, PayDue, BeginStatus, people
    <2> QED
      BY <2>1, ReportedMembers
  <1> QED
    BY <1>1, <1>2, ReportedMembers DEF DeceasedAreDecided, Reviewable

(* Nobody DECEASED is reported or linked, and an approval, which makes its *)
(* member DECEASED, leaves no other live case of the member.               *)
LEMMA ReportingKeepsDecided ==
    ASSUME IInv, DeceasedAreDecided, Reporting
    PROVE  DeceasedAreDecided'
  <1>1. ASSUME NEW r \in Reports, NEW m \in Members \cup {Unmatched}, NEW dod \in Time,
               SubmitDeathReport(r, m, dod)
        PROVE  DeceasedAreDecided'
    <2>1. memberStatus' = memberStatus
      BY <1>1 DEF SubmitDeathReport, people
    <2>2. cases'[r].member = m /\ \A q \in Reports \ {r} : cases'[q] = cases[q]
      BY <1>1, ReportedMembers DEF SubmitDeathReport
    <2>3. m # Unmatched => memberStatus[m] # "DECEASED"
      BY <1>1 DEF SubmitDeathReport, CanBeReported
    <2> QED
      BY <2>1, <2>2, <2>3 DEF DeceasedAreDecided, Reviewable
  <1>2. ASSUME NEW r \in Reports, NEW m \in Members, LinkReport(r, m)
        PROVE  DeceasedAreDecided'
    <2>1. memberStatus' = memberStatus /\ memberStatus[m] # "DECEASED"
      BY <1>2 DEF LinkReport, people, CanBeReported
    <2>2. cases'[r].member = m /\ \A q \in Reports \ {r} : cases'[q] = cases[q]
      BY <1>2, ReportedMembers DEF LinkReport, CaseRows
    <2> QED
      BY <2>1, <2>2 DEF DeceasedAreDecided, Reviewable
  <1>3. ASSUME NEW r \in Reports, ConfirmReport(r) \/ RejectReport(r)
        PROVE  DeceasedAreDecided'
    <2>1. memberStatus' = memberStatus
      BY <1>3 DEF ConfirmReport, RejectReport, people
    <2>2. /\ cases'[r].member = cases[r].member /\ Reviewable(r)
          /\ \A q \in Reports \ {r} : cases'[q] = cases[q]
      BY <1>3, ReportedMembers DEF ConfirmReport, RejectReport, Reviewable, CaseRows
    <2> QED
      BY <2>1, <2>2 DEF DeceasedAreDecided, Reviewable
  <1>4. ASSUME NEW r \in Reports, ApproveReport(r)
        PROVE  DeceasedAreDecided'
    <2>1. Reviewable(r) /\ cases[r].member \in Members /\ cases[r].member # Unmatched
      BY <1>4, ReportedMembers DEF ApproveReport
    <2>2. PICK verdict :
             cases' = [cases EXCEPT ![r].status = "APPROVED", ![r].eligibility = verdict]
      BY <1>4 DEF ApproveReport
    <2>3. /\ cases'[r].status = "APPROVED"
          /\ \A q \in Reports \ {r} : cases'[q] = cases[q]
      BY <2>2, ReportedMembers DEF CaseRows
    <2>4. \A m \in Members \ {cases[r].member} : memberStatus'[m] = memberStatus[m]
      BY <1>4, <2>1, ReportedMembers DEF ApproveReport, MarkDeceased, BeginStatus
    <2>5. ASSUME NEW q \in Reports \ {r}, Reviewable(q), cases[q].member # Unmatched
          PROVE  cases[q].member \in Members \ {cases[r].member}
      BY <2>1, <2>5, ReportedMembers DEF IInv, Tables, OneLiveCase, Live, Reviewable
    <2> QED
      BY <2>3, <2>4, <2>5 DEF DeceasedAreDecided, Reviewable
  <1> QED
    BY <1>1, <1>2, <1>3, <1>4 DEF Reporting

(* No step makes a member DECEASED without a decided report. *)
LEMMA NextKeepsDecided == IInv /\ DeceasedAreDecided /\ [Next]_vars => DeceasedAreDecided'
  <1> SUFFICES ASSUME IInv, DeceasedAreDecided, [Next]_vars
               PROVE  DeceasedAreDecided'
    OBVIOUS
  <1>1. CASE EventWork
    <2>1. memberStatus' = memberStatus
      BY <1>1 DEF EventWork, PublishEvent, CloseEvent, CancelEvent, EditEvent, people
    <2>2. PICK r \in Reports :
             \/ PublishEvent(r) \/ CloseEvent(r) \/ CancelEvent(r)
             \/ \E dod \in Time : EditEvent(r, dod)
      BY <1>1 DEF EventWork
    <2>3. \A q \in Reports : /\ cases'[q].member = cases[q].member
                             /\ cases'[q].status \in {cases[q].status, "CANCELLED"}
      BY <2>2, ReportedMembers DEF PublishEvent, CloseEvent, CancelEvent, EditEvent, CaseRows
    <2> QED
      BY <2>1, <2>3 DEF DeceasedAreDecided, Reviewable
  <1>2. CASE Tick \/ UNCHANGED vars
    BY <1>2 DEF Tick, vars, people, DeceasedAreDecided, Reviewable
  <1> QED
    BY <1>1, <1>2, MembershipKeepsDecided, ReportingKeepsDecided DEF Next

(* What a step leaves of the abstract state. *)
StagesStay == \A r \in Reports : StageOf(r)' = StageOf(r)
RollsStay == \A r \in Reports : RollOf(r)' = RollOf(r)
PledgesStay == \A d \in Reports \X Members : PledgeOf(d)' = PledgeOf(d)

(* A step that leaves stages, rolls and pledges alone is a stutter. *)
LEMMA IsStutter ==
    ASSUME StagesStay, RollsStay, PledgesStay
    PROVE  UNCHANGED Pledges!vars
  BY DEF StagesStay, RollsStay, PledgesStay, Pledges!vars

(* A stage is a matter of the event's status. *)
LEMMA SameStatusSameStage ==
    ASSUME NEW r \in Reports, events'[r].status = events[r].status
    PROVE  StageOf(r)' = StageOf(r)
  BY DEF StageOf

(* The roll of an event stays, unless somebody joins who was there when    *)
(* the event was created.                                                  *)
LEMMA SameMembersSameRoll ==
    ASSUME NEW r \in Reports,
           events'[r].status = "none" <=> events[r].status = "none",
           events[r].status # "none" =>
               /\ events'[r].createdAt = events[r].createdAt
               /\ cases'[r].member = cases[r].member
               /\ \A m \in Members :
                     Joined(m)' /\ joined'[m] <= events[r].createdAt <=>
                     Joined(m) /\ joined[m] <= events[r].createdAt
    PROVE  RollOf(r)' = RollOf(r)
  <1>1. CASE events[r].status = "none"
    BY <1>1 DEF RollOf
  <1>2. CASE events[r].status # "none"
    <2>1. ObligationMembers(r)' = ObligationMembers(r)
      BY <1>2 DEF ObligationMembers
    <2> QED
      BY <1>2, <2>1 DEF RollOf
  <1> QED
    BY <1>1, <1>2

(* A step that changes neither events nor who has joined, nor the member   *)
(* of a report that has an event, keeps stages and rolls.                  *)
LEMMA EventsStay ==
    ASSUME UNCHANGED <<joined, events>>,
           \A r \in Reports : events[r].status # "none" => cases'[r].member = cases[r].member
    PROVE  StagesStay /\ RollsStay
  <1>1. \A m \in Members : Joined(m)' = Joined(m)
    BY DEF Joined
  <1> QED
    BY <1>1, SameStatusSameStage, SameMembersSameRoll DEF StagesStay, RollsStay

(* Pledges stay with dues that move among the unsettled statuses. *)
LEMMA OpenDuesStayOpen ==
    ASSUME reversals' = reversals,
           \A d \in Reports \X Members :
               dues'[d] = dues[d] \/ (dues[d] \in Unsettled /\ dues'[d] \in Unsettled)
    PROVE  PledgesStay
  BY DEF PledgesStay, PledgeOf, Unsettled

-----------------------------------------------------------------------------
(* Members: a registration is too late for every roll, jobs leave pledges  *)
(* open, and a payment pays one of them, unless it pays a membership due.  *)
LEMMA RegisterSimulates ==
    ASSUME IInv, NEW m \in Members, Register(m)
    PROVE  UNCHANGED Pledges!vars
  <1>1. /\ joined' = [joined EXCEPT ![m] = now]
        /\ dues' = [dues EXCEPT ![<<Fee, m>>] = "PENDING"]
        /\ ~Joined(m)
        /\ \A r \in Reports : events[r].createdAt # now
        /\ UNCHANGED <<cases, events, reversals>>
    BY DEF Register
  <1>2. \A x \in Members : joined'[x] = IF x = m THEN now ELSE joined[x]
    BY <1>1 DEF IInv, DeathTypeOK
  <1>3. now \in Nat
    BY DEF IInv, DeathTypeOK, Time
  <1>4. \A r \in Reports : events[r].status # "none" => ~(now <= events[r].createdAt)
    BY <1>1, <1>3 DEF IInv, Tables, EventsAreDated
  <1>5. \A r \in Reports, x \in Members :
           events[r].status # "none" =>
              (Joined(x)' /\ joined'[x] <= events[r].createdAt <=>
               Joined(x) /\ joined[x] <= events[r].createdAt)
    BY <1>1, <1>2, <1>4 DEF Joined
  <1>6. StagesStay
    BY <1>1, SameStatusSameStage DEF StagesStay
  <1>7. RollsStay
    BY <1>1, <1>5, SameMembersSameRoll DEF RollsStay
  <1>8. \A d \in Reports \X Members : dues'[d] = dues[d]
    BY <1>1, DeathSupportAssumption DEF IInv, DeathTypeOK, DueIds
  <1>9. PledgesStay
    BY <1>1, <1>8, OpenDuesStayOpen
  <1> QED
    BY <1>6, <1>7, <1>9, IsStutter

(* A payment pays one pledge, or stutters: a membership due is none. *)
LEMMA PayDueSimulates ==
    ASSUME IInv, NEW d \in DueIds, PayDue(d)
    PROVE  [Pledges!Next]_Pledges!vars
  <1>1. /\ dues[d] \in Unsettled
        /\ dues' = [dues EXCEPT ![d] = "PAID"]
        /\ UNCHANGED <<joined, cases, events, reversals>>
    BY DEF PayDue, people
  <1>2. StagesStay /\ RollsStay
    BY <1>1, EventsStay
  <1>3. \A x \in DueIds : dues'[x] = IF x = d THEN "PAID" ELSE dues[x]
    BY <1>1 DEF IInv, DeathTypeOK
  <1>4. CASE d \in Reports \X Members
    <2>1. d \notin reversals
      <3>1. PICK r \in Reports, m \in Members : d = <<r, m>>
        BY <1>4
      <3> QED
        BY <1>1, <3>1 DEF IInv, Tables, CancelledEventIsSettled, Unsettled
    <2>2. PledgeOf(d) = "open" /\ PledgeOf(d)' = "paid"
      BY <1>1, <1>3, <2>1 DEF PledgeOf, Unsettled
    <2>3. \A x \in Reports \X Members : x # d => PledgeOf(x)' = PledgeOf(x)
      BY <1>1, <1>3 DEF PledgeOf, DueIds
    <2>4. [x \in Reports \X Members |-> PledgeOf(x)]' =
             [[x \in Reports \X Members |-> PledgeOf(x)] EXCEPT ![d] = "paid"]
      BY <1>4, <2>2, <2>3
    <2>5. /\ [r \in Reports |-> StageOf(r)]' = [r \in Reports |-> StageOf(r)]
          /\ [r \in Reports |-> RollOf(r)]' = [r \in Reports |-> RollOf(r)]
      BY <1>2 DEF StagesStay, RollsStay
    <2>6. Pledges!Pay(d)
      BY <1>4, <2>2, <2>4, <2>5 DEF Pledges!Pay
    <2> QED
      BY <1>4, <2>6 DEF Pledges!Next
  <1>5. CASE d \notin Reports \X Members
    <2>1. \A x \in Reports \X Members : dues'[x] = dues[x]
      BY <1>3, <1>5 DEF DueIds
    <2> QED
      BY <1>1, <1>2, <2>1, OpenDuesStayOpen, IsStutter
  <1> QED
    BY <1>4, <1>5

(* Jobs, reactivation and registration are not about pledges. *)
LEMMA MembershipSimulates ==
    ASSUME IInv, Membership
    PROVE  [Pledges!Next]_Pledges!vars
  <1>1. ASSUME NEW m \in Members,
               \/ ReadExpired(m) \/ DecideInactive(m) \/ WriteInactive(m)
               \/ ReadInactive(m) \/ ReadDues(m) \/ WriteActive(m)
        PROVE  UNCHANGED Pledges!vars
    <2>1. UNCHANGED <<joined, cases, events, dues, reversals>>
      BY <1>1 DEF ReadExpired, DecideInactive, WriteInactive, ReadInactive, ReadDues, WriteActive, people
    <2> QED
      BY <2>1, EventsStay, OpenDuesStayOpen, IsStutter
  <1>2. ASSUME NEW m \in Members, ExpireDues(m)
        PROVE  UNCHANGED Pledges!vars
    <2>1. /\ UNCHANGED <<joined, cases, events, reversals>>
          /\ \A d \in DueIds : dues'[d] = dues[d] \/ (dues[d] \in Expirable /\ dues'[d] = "EXPIRED")
      BY <1>2 DEF ExpireDues, StillOpen, people
    <2>2. \A d \in Reports \X Members :
             dues'[d] = dues[d] \/ (dues[d] \in Unsettled /\ dues'[d] \in Unsettled)
      BY <2>1 DEF DueIds, Expirable, Unsettled
    <2> QED
      BY <2>1, <2>2, EventsStay, OpenDuesStayOpen, IsStutter
  <1> QED
    BY <1>1, <1>2, RegisterSimulates, PayDueSimulates DEF Membership

-----------------------------------------------------------------------------
(* Reports: only an approval creates an event, with the roll of that       *)
(* moment, and releases the deceased; reports without an event do not      *)
(* exist for the abstract state.                                           *)
LEMMA ApproveSimulates ==
    ASSUME IInv, DeceasedAreDecided, NEW r \in Reports, ApproveReport(r)
    PROVE  Pledges!Next
  <1> DEFINE m == cases[r].member
             contributors == ObligationMembers(r)'
  <1>1. /\ m \in Members /\ Reviewable(r) /\ memberStatus[m] # "DECEASED"
        /\ events[r].status = "none"
    BY ReportedMembers DEF ApproveReport, DeceasedAreDecided, IInv, Tables, EventMatchesCase, Reviewable
  <1>2. /\ events' = [events EXCEPT ![r] =
                        [status |-> "APPROVED", createdAt |-> now, publishedAt |-> NoTime]]
        /\ MarkDeceased(m, now)
        /\ UNCHANGED <<joined, reversals>>
    BY <1>1 DEF ApproveReport, DeceasedFrom
  <1>3. /\ events'[r].status = "APPROVED"
        /\ \A q \in Reports \ {r} : events'[q] = events[q]
    BY <1>2 DEF IInv, DeathTypeOK
  <1>4. \A q \in Reports : cases'[q].member = cases[q].member
    <2>1. PICK verdict :
             cases' = [cases EXCEPT ![r].status = "APPROVED", ![r].eligibility = verdict]
      BY DEF ApproveReport
    <2> QED
      BY <2>1, ReportedMembers DEF CaseRows
  <1>5. m \notin contributors /\ contributors \in SUBSET Members
    BY <1>4 DEF ObligationMembers
  <1>6. StageOf(r) = "none" /\ StageOf(r)' = "verified" /\ RollOf(r)' = contributors
    BY <1>1, <1>3 DEF StageOf, RollOf
  <1>7. \A q \in Reports \ {r} : StageOf(q)' = StageOf(q) /\ RollOf(q)' = RollOf(q)
    <2>1. \A x \in Members : Joined(x)' = Joined(x) /\ joined'[x] = joined[x]
      BY <1>2 DEF Joined
    <2> QED
      BY <1>3, <1>4, <2>1, SameStatusSameStage, SameMembersSameRoll
  <1>8. \A d \in Reports \X Members :
           PledgeOf(d)' = IF d[2] = m /\ PledgeOf(d) = "open" THEN "forgiven" ELSE PledgeOf(d)
    <2>1. ASSUME NEW d \in Reports \X Members
          PROVE  dues'[d] = IF d[2] = m /\ dues[d] \in Unsettled THEN "WAIVED" ELSE dues[d]
      BY <1>2 DEF MarkDeceased, DueIds
    <2> QED
      BY <1>2, <2>1 DEF PledgeOf, Unsettled
  <1> HIDE DEF m, contributors
  <1>9. /\ [q \in Reports |-> StageOf(q)]' = [[q \in Reports |-> StageOf(q)] EXCEPT ![r] = "verified"]
        /\ [q \in Reports |-> RollOf(q)]' = [[q \in Reports |-> RollOf(q)] EXCEPT ![r] = contributors]
    BY <1>6, <1>7
  <1>10. [d \in Reports \X Members |-> PledgeOf(d)]' =
            [d \in Reports \X Members |->
               IF d[2] = m /\ [x \in Reports \X Members |-> PledgeOf(x)][d] = "open"
               THEN "forgiven" ELSE [x \in Reports \X Members |-> PledgeOf(x)][d]]
    BY <1>8
  <1>11. Pledges!Verify(r, m, contributors)
    BY <1>5, <1>6, <1>9, <1>10 DEF Pledges!Verify
  <1> QED
    BY <1>1, <1>5, <1>11 DEF Pledges!Next

(* Of the work on reports only an approval verifies a death. *)
LEMMA ReportingSimulates ==
    ASSUME IInv, DeceasedAreDecided, Reporting
    PROVE  [Pledges!Next]_Pledges!vars
  <1>1. ASSUME NEW r \in Reports,
               UNCHANGED <<joined, events, dues, reversals>>,
               events[r].status = "none",
               \A q \in Reports \ {r} : cases'[q] = cases[q]
        PROVE  UNCHANGED Pledges!vars
    BY <1>1, EventsStay, OpenDuesStayOpen, IsStutter
  <1>2. ASSUME NEW r \in Reports,
               NEW m \in Members \cup {Unmatched}, NEW dod \in Time,
               SubmitDeathReport(r, m, dod)
        PROVE  UNCHANGED Pledges!vars
    BY <1>1, <1>2 DEF SubmitDeathReport, people, IInv, Tables, EventMatchesCase, DeathTypeOK
  <1>3. ASSUME NEW r \in Reports, NEW m \in Members, LinkReport(r, m)
        PROVE  UNCHANGED Pledges!vars
    BY <1>1, <1>3 DEF LinkReport, people, IInv, Tables, EventMatchesCase, DeathTypeOK
  <1>4. ASSUME NEW r \in Reports, ConfirmReport(r) \/ RejectReport(r)
        PROVE  UNCHANGED Pledges!vars
    BY <1>1, <1>4 DEF ConfirmReport, RejectReport, Reviewable, people, IInv, Tables,
                      EventMatchesCase, DeathTypeOK
  <1> QED
    BY <1>2, <1>3, <1>4, ApproveSimulates DEF Reporting

-----------------------------------------------------------------------------
(* Events: a first publication asks exactly who is on the roll, a replay   *)
(* finds them all asked; a cancellation forgives or owes back.             *)
LEMMA PublishSimulates ==
    ASSUME IInv, NEW r \in Reports, PublishEvent(r)
    PROVE  [Pledges!Next]_Pledges!vars
  <1>1. /\ \A d \in Reports \X Members :
              dues'[d] = IF d[1] = r /\ d[2] \in ObligationMembers(r) /\ dues[d] = "none"
                         THEN "PENDING" ELSE dues[d]
        /\ UNCHANGED <<joined, cases, reversals>>
    BY DEF PublishEvent, people, DueIds
  <1>2. \A m \in Members :
           m \in ObligationMembers(r) /\ events[r].publishedAt # NoTime <=> dues[<<r, m>>] # "none"
    BY DEF IInv, Tables, ObligationsAreHistorical, ObligationMembers
  <1>3. CASE events[r].publishedAt # NoTime
    <2>1. events' = events
      BY <1>3 DEF PublishEvent
    <2>2. \A d \in Reports \X Members : dues'[d] = dues[d]
      BY <1>1, <1>2, <1>3
    <2> QED
      BY <1>1, <2>1, <2>2, EventsStay, OpenDuesStayOpen, IsStutter
  <1>4. CASE events[r].publishedAt = NoTime
    <2>1. events[r].status = "APPROVED" /\ events[r] \in EventRows
      BY <1>4 DEF PublishEvent, IInv, Tables, EventsAreDated, DeathTypeOK, EventRows
    <2>2. events' = [events EXCEPT ![r].status = "PUBLISHED", ![r].publishedAt = now]
      BY <1>4 DEF PublishEvent
    <2>3. /\ events'[r].status = "PUBLISHED" /\ events'[r].createdAt = events[r].createdAt
          /\ \A q \in Reports \ {r} : events'[q] = events[q]
      BY <2>1, <2>2 DEF IInv, DeathTypeOK, EventRows
    <2>4. StageOf(r) = "verified" /\ StageOf(r)' = "published"
      BY <2>1, <2>3 DEF StageOf
    <2>5. \A q \in Reports \ {r} : StageOf(q)' = StageOf(q)
      BY <2>3, SameStatusSameStage
    <2>6. \A q \in Reports : RollOf(q)' = RollOf(q)
      <3>1. \A m \in Members : Joined(m)' = Joined(m) /\ joined'[m] = joined[m]
        BY <1>1 DEF Joined
      <3>2. \A q \in Reports : /\ events'[q].status = "none" <=> events[q].status = "none"
                               /\ events'[q].createdAt = events[q].createdAt
                               /\ cases'[q].member = cases[q].member
        BY <1>1, <2>1, <2>3
      <3> QED
        BY <3>1, <3>2, SameMembersSameRoll
    <2>7. RollOf(r) = ObligationMembers(r)
      BY <2>1 DEF RollOf
    <2>8. \A d \in Reports \X Members :
             PledgeOf(d)' = IF d[1] = r /\ d[2] \in RollOf(r) THEN "open" ELSE PledgeOf(d)
      <3>1. ASSUME NEW d \in Reports \X Members, d[1] = r
            PROVE  dues[d] = "none"
        BY <1>2, <1>4, <3>1
      <3> QED
        BY <1>1, <2>7, <3>1 DEF PledgeOf, Unsettled
    <2>9. /\ [q \in Reports |-> StageOf(q)]' = [[q \in Reports |-> StageOf(q)] EXCEPT ![r] = "published"]
          /\ [q \in Reports |-> RollOf(q)]' = [q \in Reports |-> RollOf(q)]
      BY <2>4, <2>5, <2>6
    <2>10. [d \in Reports \X Members |-> PledgeOf(d)]' =
              [d \in Reports \X Members |->
                 IF d[1] = r /\ d[2] \in [q \in Reports |-> RollOf(q)][r]
                 THEN "open" ELSE [x \in Reports \X Members |-> PledgeOf(x)][d]]
      BY <2>8
    <2>11. Pledges!Publish(r)
      BY <2>4, <2>9, <2>10 DEF Pledges!Publish
    <2> QED
      BY <2>11 DEF Pledges!Next
  <1> QED
    BY <1>3, <1>4

(* Closing an event touches no pledge. *)
LEMMA CloseSimulates ==
    ASSUME IInv, NEW r \in Reports, CloseEvent(r)
    PROVE  Pledges!Next
  <1>1. /\ events' = [events EXCEPT ![r].status = "CLOSED"]
        /\ events[r].status = "PUBLISHED"
        /\ UNCHANGED <<joined, cases, dues, reversals>>
    BY DEF CloseEvent, people
  <1>2. /\ events'[r].status = "CLOSED" /\ events'[r].createdAt = events[r].createdAt
        /\ \A q \in Reports \ {r} : events'[q] = events[q]
    BY <1>1 DEF IInv, DeathTypeOK
  <1>3. /\ StageOf(r) = "published" /\ StageOf(r)' = "closed"
        /\ \A q \in Reports \ {r} : StageOf(q)' = StageOf(q)
    BY <1>1, <1>2, SameStatusSameStage DEF StageOf
  <1>4. \A q \in Reports : RollOf(q)' = RollOf(q)
    <2>1. \A m \in Members : Joined(m)' = Joined(m) /\ joined'[m] = joined[m]
      BY <1>1 DEF Joined
    <2>2. \A q \in Reports : /\ events'[q].status = "none" <=> events[q].status = "none"
                             /\ events'[q].createdAt = events[q].createdAt
                             /\ cases'[q].member = cases[q].member
      BY <1>1, <1>2
    <2> QED
      BY <2>1, <2>2, SameMembersSameRoll
  <1>5. \A d \in Reports \X Members : PledgeOf(d)' = PledgeOf(d)
    BY <1>1 DEF PledgeOf
  <1>6. /\ [q \in Reports |-> StageOf(q)]' = [[q \in Reports |-> StageOf(q)] EXCEPT ![r] = "closed"]
        /\ [q \in Reports |-> RollOf(q)]' = [q \in Reports |-> RollOf(q)]
        /\ [d \in Reports \X Members |-> PledgeOf(d)]' = [d \in Reports \X Members |-> PledgeOf(d)]
    BY <1>3, <1>4, <1>5
  <1>7. Pledges!Close(r)
    BY <1>3, <1>6 DEF Pledges!Close
  <1> QED
    BY <1>7 DEF Pledges!Next

(* A cancellation forgives what is open and owes back what is paid. *)
LEMMA CancelSimulates ==
    ASSUME IInv, NEW r \in Reports, CancelEvent(r)
    PROVE  Pledges!Next
  <1>1. /\ events' = [events EXCEPT ![r].status = "CANCELLED"]
        /\ events[r].status \in {"PUBLISHED", "CLOSED"}
        /\ cases' = [cases EXCEPT ![r].status = "CANCELLED"]
        /\ reversals' = reversals \cup {d \in ContributionsTo(r) : dues[d] = "PAID"}
        /\ joined' = joined
    BY DEF CancelEvent, people
  <1>2. /\ events'[r].status = "CANCELLED" /\ events'[r].createdAt = events[r].createdAt
        /\ \A q \in Reports \ {r} : events'[q] = events[q]
        /\ \A q \in Reports : cases'[q].member = cases[q].member
    BY <1>1, ReportedMembers DEF IInv, DeathTypeOK, CaseRows
  <1>3. /\ StageOf(r) \in {"published", "closed"} /\ StageOf(r)' = "cancelled"
        /\ \A q \in Reports \ {r} : StageOf(q)' = StageOf(q)
    BY <1>1, <1>2, SameStatusSameStage DEF StageOf
  <1>4. \A q \in Reports : RollOf(q)' = RollOf(q)
    <2>1. \A m \in Members : Joined(m)' = Joined(m) /\ joined'[m] = joined[m]
      BY <1>1 DEF Joined
    <2>2. \A q \in Reports : /\ events'[q].status = "none" <=> events[q].status = "none"
                             /\ events'[q].createdAt = events[q].createdAt
      BY <1>1, <1>2
    <2> QED
      BY <1>2, <2>1, <2>2, SameMembersSameRoll
  <1>5. ASSUME NEW d \in Reports \X Members
        PROVE  PledgeOf(d)' = IF d[1] # r THEN PledgeOf(d)
                              ELSE CASE PledgeOf(d) = "open" -> "forgiven"
                                     [] PledgeOf(d) = "paid" -> "owed back"
                                     [] OTHER -> PledgeOf(d)
    <2>1. dues'[d] = IF d[1] = r /\ dues[d] \in Unsettled THEN "CANCELLED" ELSE dues[d]
      BY DEF CancelEvent, DueIds
    <2>2. d \in reversals' <=> d \in reversals \/ (d[1] = r /\ dues[d] = "PAID")
      BY <1>1 DEF ContributionsTo, DueIds
    <2>3. CASE d[1] # r
      <3>1. dues'[d] = dues[d] /\ (d \in reversals' <=> d \in reversals)
        BY <2>1, <2>2, <2>3
      <3>2. PledgeOf(d)' = PledgeOf(d)
        BY <3>1 DEF PledgeOf
      <3> QED
        BY <2>3, <3>2
    <2>4. CASE d[1] = r
      <3>1. CASE dues[d] \in Unsettled
        BY <2>1, <2>4, <3>1 DEF PledgeOf, Unsettled
      <3>2. CASE dues[d] = "PAID"
        BY <2>1, <2>2, <2>4, <3>2 DEF PledgeOf, Unsettled
      <3>3. CASE dues[d] \notin Unsettled \cup {"PAID"}
        BY <2>1, <2>4, <3>3 DEF PledgeOf, Unsettled
      <3> QED
        BY <3>1, <3>2, <3>3
    <2> QED
      BY <2>3, <2>4
  <1>6. /\ [q \in Reports |-> StageOf(q)]' = [[q \in Reports |-> StageOf(q)] EXCEPT ![r] = "cancelled"]
        /\ [q \in Reports |-> RollOf(q)]' = [q \in Reports |-> RollOf(q)]
    BY <1>3, <1>4
  <1> DEFINE P == [d \in Reports \X Members |-> PledgeOf(d)]
  <1>7. P' = [d \in Reports \X Members |->
                IF d[1] # r THEN P[d]
                ELSE CASE P[d] = "open" -> "forgiven"
                       [] P[d] = "paid" -> "owed back"
                       [] OTHER -> P[d]]
    BY <1>5
  <1>8. Pledges!Cancel(r)
    BY <1>3, <1>6, <1>7 DEF Pledges!Cancel
  <1> QED
    BY <1>8 DEF Pledges!Next

(* The steps of the administrators about an event, one by one. *)
LEMMA EventWorkSimulates ==
    ASSUME IInv, EventWork
    PROVE  [Pledges!Next]_Pledges!vars
  <1>1. ASSUME NEW r \in Reports, NEW dod \in Time, EditEvent(r, dod)
        PROVE  UNCHANGED Pledges!vars
    <2>1. \A q \in Reports : cases'[q].member = cases[q].member
      BY <1>1, ReportedMembers DEF EditEvent, CaseRows
    <2>2. UNCHANGED <<joined, events, dues, reversals>>
      BY <1>1 DEF EditEvent, people
    <2> QED
      BY <2>1, <2>2, EventsStay, OpenDuesStayOpen, IsStutter
  <1> QED
    BY <1>1, PublishSimulates, CloseSimulates, CancelSimulates DEF EventWork

(* Nothing is promised before the first death. *)
LEMMA InitSimulates == Init => Pledges!Init
  <1> SUFFICES ASSUME Init PROVE Pledges!Init
    OBVIOUS
  <1>1. \A r \in Reports : StageOf(r) = "none" /\ RollOf(r) = {}
    BY DEF Init, StageOf, RollOf
  <1>2. \A d \in Reports \X Members : PledgeOf(d) = "none"
    <2>1. \A d \in Reports \X Members : d \in DueIds /\ d[1] # Fee
      BY DeathSupportAssumption DEF DueIds
    <2>2. \A d \in Reports \X Members : dues[d] = "none"
      BY <2>1 DEF Init
    <2> QED
      BY <2>2 DEF PledgeOf, Unsettled
  <1>3. /\ [r \in Reports |-> StageOf(r)] = [r \in Reports |-> "none"]
        /\ [r \in Reports |-> RollOf(r)] = [r \in Reports |-> {}]
        /\ [d \in Reports \X Members |-> PledgeOf(d)] = [d \in Reports \X Members |-> "none"]
    BY <1>1, <1>2
  <1> QED
    BY <1>3 DEF Pledges!Init

(* Every step of DeathSupport is one of SupportPledges or a stutter. *)
LEMMA NextSimulates ==
    IInv /\ DeceasedAreDecided /\ [Next]_vars => [Pledges!Next]_Pledges!vars
  <1> SUFFICES ASSUME IInv, DeceasedAreDecided, [Next]_vars
               PROVE  [Pledges!Next]_Pledges!vars
    OBVIOUS
  <1>1. CASE Tick \/ UNCHANGED vars
    <2>1. UNCHANGED <<joined, cases, events, dues, reversals>>
      BY <1>1 DEF Tick, vars, people
    <2> QED
      BY <2>1, EventsStay, OpenDuesStayOpen, IsStutter
  <1> QED
    BY <1>1, MembershipSimulates, ReportingSimulates, EventWorkSimulates DEF Next

(* A report is decided before its member is DECEASED: the branch of        *)
(* reviewDeathReportByAdmin that finds a member DECEASED already is never  *)
(* taken, and every approval waives what the member owes.                  *)
THEOREM DeathsAreDecidedOnce == Spec => []DeceasedAreDecided
  <1>1. Init => DeceasedAreDecided
    BY DEF Init, DeceasedAreDecided
  <1> QED
    BY <1>1, Invariance, NextKeepsDecided, PTL DEF Spec

(* DeathSupport implements SupportPledges: the contributions to an event   *)
(* are those of the members when its death was verified, asked for once,   *)
(* and paid, forgiven or owed back, whatever else happens in between.      *)
THEOREM PledgesAreKept == Spec => ImplementsPledges
  BY Invariance, DeathsAreDecidedOnce, InitSimulates, NextSimulates, PTL
     DEF Spec, ImplementsPledges, Pledges!Spec
-----------------------------------------------------------------------------
(***************************************************************************)
(* The job and the deceased.  A member about to be made INACTIVE is still  *)
(* ACTIVE, because the job has expired one of his dues itself: otherwise   *)
(* an ACTIVE member would be in good standing, and there would be nothing  *)
(* to decide.                                                              *)
(***************************************************************************)
DecisionHolds(m) ==
    /\ job[m].step = "expired" /\ job[m].batch = {} /\ memberStatus[m] = "ACTIVE" => InGoodStanding(m)
    /\ job[m].step = "inactivate" => memberStatus[m] = "ACTIVE" /\ job[m].batch # {}

JobStep(m) == ReadExpired(m) \/ ExpireDues(m) \/ DecideInactive(m) \/ WriteInactive(m)

(* An approval makes its member DECEASED, and waits for the job.           *)
ApprovalOf(m) ==
    /\ memberStatus'[m] \in {memberStatus[m], "DECEASED"}
    /\ \A d \in DuesOf(m) : ~Locked(d)

(* What a step leaves of a member: his status changes by the job, by his   *)
(* own reactivation, or by an approval.                                    *)
LEMMA StatusSteps ==
    ASSUME IInv, [Next]_vars, NEW m \in Members
    PROVE  \/ memberStatus'[m] = memberStatus[m]
           \/ WriteInactive(m) \/ WriteActive(m) \/ ApprovalOf(m)
  <1>1. ASSUME NEW x \in Members, WriteInactive(x) \/ WriteActive(x), x # m
        PROVE  memberStatus'[m] = memberStatus[m]
    BY <1>1, ReportedMembers DEF WriteInactive, WriteActive, BeginStatus
  <1>2. CASE Membership
    <2>1. \/ memberStatus' = memberStatus
          \/ \E x \in Members : WriteInactive(x) \/ WriteActive(x)
      BY <1>2 DEF Membership, Register, ReadExpired, ExpireDues, DecideInactive, ReadInactive,
                  ReadDues, PayDue, people
    <2> QED
      BY <1>1, <2>1
  <1>3. ASSUME NEW r \in Reports, ApproveReport(r)
        PROVE  memberStatus'[m] = memberStatus[m] \/ ApprovalOf(m)
    <2>1. cases[r].member \in Members
      BY <1>3, ReportedMembers DEF ApproveReport
    <2>2. CASE cases[r].member = m
      <3>1. \A d \in DuesOf(m) : ~Locked(d)
        BY <1>3, <2>2 DEF ApproveReport
      <3>2. memberStatus'[m] \in {memberStatus[m], "DECEASED"}
        BY <1>3, <2>1, <2>2, ReportedMembers DEF ApproveReport, MarkDeceased, BeginStatus
      <3> QED
        BY <3>1, <3>2 DEF ApprovalOf
    <2>3. CASE cases[r].member # m
      BY <1>3, <2>1, <2>3, ReportedMembers DEF ApproveReport, MarkDeceased, BeginStatus
    <2> QED
      BY <2>2, <2>3
  <1>4. CASE Reporting
    BY <1>3, <1>4 DEF Reporting, SubmitDeathReport, LinkReport, ConfirmReport, RejectReport, people
  <1>5. CASE EventWork \/ Tick \/ UNCHANGED vars
    BY <1>5 DEF EventWork, PublishEvent, CloseEvent, CancelEvent, EditEvent, Tick, vars, people
  <1> QED
    BY <1>2, <1>4, <1>5 DEF Next

(* Only the job of a member makes a due of his expire, or moves his job.   *)
LEMMA OnlyTheJobExpires ==
    ASSUME IInv, PeopleInv, [Next]_vars, NEW m \in Members, ~JobStep(m)
    PROVE  /\ job'[m] = job[m]
           /\ \A d \in DuesOf(m) : dues'[d] = "EXPIRED" => dues[d] = "EXPIRED"
  <1>1. ASSUME NEW x \in Members, JobStep(x), x # m
        PROVE  job'[m] = job[m] /\ \A d \in DuesOf(m) : dues'[d] = dues[d]
    BY <1>1 DEF JobStep, ReadExpired, ExpireDues, DecideInactive, WriteInactive, JobGoto, StillOpen,
                DuesOf, PeopleInv, IInv, DeathTypeOK
  <1>2. CASE Membership
    <2>1. ASSUME NEW x \in Members,
                 Register(x) \/ ReadInactive(x) \/ ReadDues(x) \/ WriteActive(x)
          PROVE  job' = job /\ \A d \in DueIds : dues'[d] = "EXPIRED" => dues[d] = "EXPIRED"
      BY <2>1 DEF Register, ReadInactive, ReadDues, WriteActive, IInv, DeathTypeOK
    <2>2. ASSUME NEW d \in DueIds, PayDue(d)
          PROVE  job' = job /\ \A x \in DueIds : dues'[x] = "EXPIRED" => dues[x] = "EXPIRED"
      BY <2>2 DEF PayDue, IInv, DeathTypeOK
    <2> QED
      BY <1>1, <1>2, <2>1, <2>2 DEF Membership, JobStep, DuesOf
  <1>3. CASE Reporting
    <2>1. job' = job /\ \A d \in DueIds : dues'[d] \in {dues[d], "WAIVED"}
      BY <1>3 DEF Reporting, SubmitDeathReport, LinkReport, ConfirmReport, RejectReport,
                  ApproveReport, MarkDeceased
    <2> QED
      BY <2>1 DEF DuesOf
  <1>4. CASE EventWork
    <2>1. job' = job /\ \A d \in DueIds : dues'[d] \in {dues[d], "PENDING", "CANCELLED"}
      BY <1>4 DEF EventWork, PublishEvent, CloseEvent, CancelEvent, EditEvent
    <2> QED
      BY <2>1 DEF DuesOf
  <1>5. CASE Tick \/ UNCHANGED vars
    BY <1>5 DEF Tick, vars
  <1> QED
    BY <1>2, <1>3, <1>4, <1>5 DEF Next

(* The steps of the job keep its decision backed by a locked row. *)
LEMMA JobKeepsDecision ==
    ASSUME IInv, PeopleInv, StandingInv, NEW m \in Members, DecisionHolds(m), JobStep(m)
    PROVE  DecisionHolds(m)'
  <1>1. MemberStanding(m)
    BY DEF StandingInv
  <1>2. CASE ReadExpired(m)
    BY <1>2 DEF ReadExpired, JobGoto, DecisionHolds, IInv, DeathTypeOK
  <1>3. CASE ExpireDues(m)
    <2>1. /\ job[m].step = "read"
          /\ job'[m].step = "expired" /\ job'[m].batch = StillOpen(job[m].batch)
          /\ memberStatus' = memberStatus
          /\ dues' = [d \in DueIds |-> IF d \in StillOpen(job[m].batch) THEN "EXPIRED" ELSE dues[d]]
      BY <1>3 DEF ExpireDues, JobGoto, people, IInv, DeathTypeOK
    <2>2. ASSUME job'[m].batch = {}, memberStatus[m] = "ACTIVE"
          PROVE  InGoodStanding(m)'
      <3>1. \A d \in DuesOf(m) : dues'[d] = dues[d]
        BY <2>1, <2>2 DEF DuesOf
      <3>2. Joined(m)
        BY <2>1 DEF PeopleInv
      <3> QED
        BY <1>1, <2>1, <2>2, <3>1, <3>2, NothingExpires DEF MemberStanding, StandingInv
    <2> QED
      BY <2>1, <2>2, Zenon DEF DecisionHolds
  <1>4. CASE DecideInactive(m)
    <2>1. /\ job[m].step = "expired" /\ memberStatus' = memberStatus
          /\ \/ /\ memberStatus[m] = "ACTIVE" /\ ~InGoodStanding(m)
                /\ job'[m].step = "inactivate" /\ job'[m].batch = job[m].batch
             \/ job'[m].step = "idle"
      BY <1>4 DEF DecideInactive, InGoodStanding, Idle, people, IInv, DeathTypeOK
    <2> QED
      BY <2>1 DEF DecisionHolds
  <1>5. CASE WriteInactive(m)
    BY <1>5 DEF WriteInactive, Idle, DecisionHolds, IInv, DeathTypeOK
  <1> QED
    BY <1>2, <1>3, <1>4, <1>5 DEF JobStep

(* No step, an approval least of all, invalidates a decision of the job. *)
LEMMA NextKeepsDecision ==
    ASSUME IInv, PeopleInv, StandingInv, NEW m \in Members, DecisionHolds(m), [Next]_vars
    PROVE  DecisionHolds(m)'
  <1>1. CASE JobStep(m)
    BY <1>1, JobKeepsDecision
  <1>2. CASE ~JobStep(m)
    <2>1. job'[m] = job[m]
      BY <1>2, OnlyTheJobExpires
    <2>2. InGoodStanding(m) => InGoodStanding(m)'
      BY <1>2, OnlyTheJobExpires, NothingExpires DEF StandingInv
    <2>3. CASE memberStatus'[m] = memberStatus[m]
      BY <2>1, <2>2, <2>3 DEF DecisionHolds
    <2>4. CASE WriteActive(m)
      <3>1. memberStatus'[m] = "ACTIVE"
        BY <2>4, ReportedMembers DEF WriteActive, BeginStatus
      <3>2. InGoodStanding(m)
        BY <2>4, ClearIsGoodStanding DEF WriteActive, StandingInv, MemberStanding, Clear
      <3> QED
        BY <2>1, <2>2, <3>1, <3>2 DEF DecisionHolds
    <2>5. CASE ApprovalOf(m)
      <3>1. job[m].step # "inactivate"
        <4> SUFFICES ASSUME job[m].step = "inactivate" PROVE FALSE
          OBVIOUS
        <4>1. PICK d \in job[m].batch : TRUE
          BY DEF DecisionHolds
        <4>2. d \in DuesOf(m) /\ d[2] = m
          BY DEF PeopleInv, DuesOf
        <4> QED
          BY <2>5, <4>1, <4>2 DEF ApprovalOf, Locked
      <3> QED
        BY <2>1, <2>2, <2>5, <3>1 DEF DecisionHolds, ApprovalOf
    <2> QED
      BY <1>2, <2>3, <2>4, <2>5, StatusSteps DEF JobStep
  <1> QED
    BY <1>1, <1>2

(* The expiry job writes INACTIVE by id some time after it has decided     *)
(* (processMembershipDueExpiry), but never over a death approved meanwhile *)
(* (reviewDeathReportByAdmin): the row it has locked keeps the approval    *)
(* waiting, and without such a row it would have decided otherwise.        *)
THEOREM DeathOutlastsTheJob == Spec => ExpirySparesTheDeceased
  <1> DEFINE Decisions == \A m \in Members : DecisionHolds(m)
             Spared == \A m \in Members : memberStatus[m] = "DECEASED" => memberStatus'[m] # "INACTIVE"
  <1>1. Init => Decisions
    BY DEF Init, Idle, DecisionHolds
  <1>2. IInv /\ PeopleInv /\ StandingInv /\ Decisions /\ [Next]_vars => Decisions'
    BY NextKeepsDecision
  <1>3. IInv /\ Decisions /\ [Next]_vars => [Spared]_vars
    <2> SUFFICES ASSUME IInv, Decisions, [Next]_vars, NEW m \in Members, memberStatus[m] = "DECEASED"
                 PROVE  memberStatus'[m] # "INACTIVE"
      OBVIOUS
    <2>1. ~WriteInactive(m)
      BY DEF WriteInactive, DecisionHolds
    <2>2. WriteActive(m) => memberStatus'[m] = "ACTIVE"
      BY ReportedMembers DEF WriteActive, BeginStatus
    <2> QED
      BY <2>1, <2>2, StatusSteps DEF ApprovalOf
  <1> QED
    BY <1>1, <1>2, <1>3, InitEstablishes, InitPeople, InitStanding, NextKeeps, NextKeepsPeople,
       NextKeepsStanding, PTL DEF Spec, ExpirySparesTheDeceased
=============================================================================
