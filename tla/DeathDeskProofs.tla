--------------------------- MODULE DeathDeskProofs ---------------------------
(***************************************************************************)
(* Proofs about ReportIntake and DeathDesk.  Every step at a form or desk  *)
(* is a step of DeathSupport or leaves its tables alone, so what has been  *)
(* proved of DeathSupport holds here; the rest is about files and about    *)
(* what people have been told.                                             *)
(***************************************************************************)
EXTENDS DeathDesk, DeathSupportProofs

-----------------------------------------------------------------------------
(* What DeathSupport never takes back. *)

CaseStays(r) ==
    /\ cases[r].status # "none" => cases'[r].status # "none"
    /\ cases[r].status \notin {"none", "REPORTED"} => cases'[r].status \notin {"none", "REPORTED"}
    /\ cases[r].status = "REJECTED" => cases'[r].status = "REJECTED"
    /\ cases[r].status \in {"APPROVED", "CANCELLED"} => cases'[r].status \in {"APPROVED", "CANCELLED"}
    /\ cases[r].status # "none" /\ cases[r].member # Unmatched => cases'[r].member = cases[r].member

EventStays(r) ==
    /\ events[r].publishedAt # NoTime => events'[r].publishedAt # NoTime
    /\ events[r].status = "CANCELLED" => events'[r].status = "CANCELLED"
    /\ events[r].status \in {"CLOSED", "CANCELLED"} => events'[r].status \in {"CLOSED", "CANCELLED"}

(* A step on reports leaves decided cases decided and matched ones matched. *)
LEMMA ReportingStays ==
    ASSUME IInv, Reporting
    PROVE  \A r \in Reports : CaseStays(r) /\ EventStays(r)
  <1>1. PICK q \in Reports :
           \/ \E m \in Members \cup {Unmatched}, dod \in Time : SubmitDeathReport(q, m, dod)
           \/ \E m \in Members : LinkReport(q, m)
           \/ ConfirmReport(q) \/ RejectReport(q) \/ ApproveReport(q)
    BY DEF Reporting
  <1>2. /\ cases \in [Reports -> CaseRows]
        /\ events \in [Reports -> EventRows]
    BY DEF IInv, DeathTypeOK, CaseRows, EventRows
  <1>3. CASE \E m \in Members \cup {Unmatched}, dod \in Time : SubmitDeathReport(q, m, dod)
    BY <1>2, <1>3 DEF SubmitDeathReport, CaseStays, EventStays, CaseRows
  <1>4. CASE \E m \in Members : LinkReport(q, m)
    BY <1>2, <1>4 DEF LinkReport, CaseStays, EventStays, CaseRows
  <1>5. CASE ConfirmReport(q)
    BY <1>2, <1>5 DEF ConfirmReport, CaseStays, EventStays, CaseRows
  <1>6. CASE RejectReport(q)
    BY <1>2, <1>6 DEF RejectReport, Reviewable, CaseStays, EventStays, CaseRows
  <1>7. CASE ApproveReport(q)
    <2>1. Reviewable(q) /\ events[q].status = "none"
      BY <1>7 DEF ApproveReport, Reviewable, IInv, Tables, EventMatchesCase
    <2>2. PICK verdict : cases' = [cases EXCEPT ![q].status = "APPROVED", ![q].eligibility = verdict]
      BY <1>7 DEF ApproveReport
    <2>3. events' = [events EXCEPT ![q] =
              [status |-> "APPROVED", createdAt |-> now, publishedAt |-> NoTime]]
      BY <1>7, <2>1 DEF ApproveReport
    <2>4. events[q].publishedAt = NoTime
      BY <2>1 DEF IInv, Tables, EventsAreDated
    <2>5. \A r \in Reports : CaseStays(r)
      BY <1>2, <2>1, <2>2 DEF CaseStays, CaseRows, Reviewable
    <2>6. \A r \in Reports : EventStays(r)
      BY <1>2, <2>1, <2>3, <2>4 DEF EventStays, EventRows
    <2> QED
      BY <2>5, <2>6
  <1> QED
    BY <1>1, <1>3, <1>4, <1>5, <1>6, <1>7

(* A step on events leaves published ones published, final ones final.     *)
LEMMA EventWorkStays ==
    ASSUME IInv, EventWork
    PROVE  \A r \in Reports : CaseStays(r) /\ EventStays(r)
  <1>1. PICK q \in Reports :
           \/ PublishEvent(q) \/ CloseEvent(q) \/ CancelEvent(q)
           \/ \E dod \in Time : EditEvent(q, dod)
    BY DEF EventWork
  <1>2. /\ cases \in [Reports -> CaseRows]
        /\ events \in [Reports -> EventRows]
        /\ now # NoTime
    BY DeathSupportAssumption DEF IInv, DeathTypeOK, CaseRows, EventRows, Time
  <1>3. CASE PublishEvent(q)
    BY <1>2, <1>3 DEF PublishEvent, CaseStays, EventStays, EventRows
  <1>4. CASE CloseEvent(q)
    BY <1>2, <1>4 DEF CloseEvent, CaseStays, EventStays, EventRows
  <1>5. CASE CancelEvent(q)
    <2>1. cases[q].status \in {"APPROVED", "CANCELLED"}
      BY <1>5 DEF CancelEvent, IInv, Tables, EventMatchesCase
    <2> QED
      BY <1>2, <1>5, <2>1 DEF CancelEvent, CaseStays, EventStays, EventRows, CaseRows
  <1>6. CASE \E dod \in Time : EditEvent(q, dod)
    BY <1>2, <1>6 DEF EditEvent, CaseStays, EventStays, CaseRows
  <1> QED
    BY <1>1, <1>3, <1>4, <1>5, <1>6

(* Every step of DeathSupport leaves decided reports and events decided. *)
LEMMA DecisionsStay ==
    ASSUME IInv, [Next]_vars
    PROVE  \A r \in Reports : CaseStays(r) /\ EventStays(r)
  <1>1. CASE UNCHANGED <<cases, events>>
    BY <1>1 DEF CaseStays, EventStays
  <1>2. CASE Tick
    BY <1>1, <1>2 DEF Tick
  <1>3. CASE Membership
    <2>1. UNCHANGED <<cases, events>>
      BY <1>3 DEF Membership, Register, ReadExpired, ExpireDues, DecideInactive, WriteInactive,
                  ReadInactive, ReadDues, WriteActive, PayDue
    <2> QED
      BY <1>1, <2>1
  <1>4. CASE UNCHANGED vars
    BY <1>1, <1>4 DEF vars
  <1> QED
    BY <1>2, <1>3, <1>4, ReportingStays, EventWorkStays DEF Next

-----------------------------------------------------------------------------
(* The form, its request and the files. *)

RequestRows ==
    [step : Steps, choice : Members \cup {Unmatched, Nobody}, left : 0 .. MaxFiles + 1,
     key : StorageKeys \cup {NoKey}, case : Reports \cup {NoCase}, docs : SUBSET StorageKeys]

(* What holds of one reporter: the key under way, the report the request   *)
(* is about, and the files it and the form speak of.                       *)
KeyIsSound(p) ==
    /\ request[p].key # NoKey <=> request[p].step \in {"stored", "undo"}
    /\ request[p].key # NoKey => request[p].key \in disk \ leftover
    /\ request[p].step = "stored" => evidence[request[p].key] = NoCase
    /\ request[p].step = "undo" =>
          evidence[request[p].key] = NoCase \/ request[p].key \in unacknowledged

CaseIsSound(p) ==
    /\ request[p].step = "submitted" =>
          /\ request[p].choice \in Members \cup {Unmatched}
          /\ request[p].left <= MaxFiles
          /\ form[p].told = {}
    /\ request[p].step \in {"uploading", "stored", "undo"} => request[p].case # NoCase
    /\ request[p].step \in {"uploading", "stored"} => request[p].left # 0
    /\ request[p].case # NoCase => cases[request[p].case].status # "none"
    /\ form[p].case # NoCase => cases[form[p].case].status # "none"
    /\ form[p].told = {} \/ request[p].case \in {NoCase, form[p].case}

FilesAreSound(p) ==
    /\ \A k \in request[p].docs :
          /\ k \in disk /\ k \notin unacknowledged
          /\ evidence[k] = request[p].case /\ request[p].case # NoCase
    /\ \A k \in form[p].told :
          /\ k \in disk /\ k \notin unacknowledged
          /\ evidence[k] = form[p].case /\ form[p].case # NoCase

Sound(p) == KeyIsSound(p) /\ CaseIsSound(p) /\ FilesAreSound(p)

KeysAreOwned ==
    \A p, q \in Reporters : request[p].key # NoKey /\ request[p].key = request[q].key => p = q

UnacknowledgedAreRows == \A k \in unacknowledged : evidence[k] # NoCase

IntakeInv ==
    /\ IntakeTypeOK
    /\ \A p \in Reporters : Sound(p)
    /\ KeysAreOwned
    /\ UnacknowledgedAreRows
    /\ EvidenceMatchesDisk

CasesStay == \A r \in Reports : cases[r].status # "none" => cases'[r].status # "none"

(* A step that touches only keys a reporter has nothing to do with leaves  *)
(* that reporter sound.                                                    *)
LEMMA OthersStaySound ==
    ASSUME IntakeInv, CasesStay, NEW p \in Reporters, NEW K \in SUBSET StorageKeys,
           request'[p] = request[p], form'[p] = form[p],
           request[p].key \notin K,
           \A k \in K : evidence[k] = NoCase \/ k \in unacknowledged,
           \A k \in StorageKeys \ K :
              /\ k \in disk <=> k \in disk'
              /\ evidence'[k] = evidence[k]
              /\ k \in unacknowledged <=> k \in unacknowledged'
              /\ k \in leftover <=> k \in leftover'
    PROVE  Sound(p)'
  <1>1. Sound(p) /\ IntakeTypeOK
    BY DEF IntakeInv
  <1>2. /\ request[p].key \in StorageKeys \cup {NoKey}
        /\ request[p].docs \subseteq StorageKeys
        /\ form[p].told \subseteq StorageKeys
        /\ request[p].case \in Reports \cup {NoCase}
        /\ form[p].case \in Reports \cup {NoCase}
    BY <1>1 DEF IntakeTypeOK
  <1>3. KeyIsSound(p)'
    BY <1>1, <1>2, IntakeAssumption DEF Sound, KeyIsSound
  <1>4. CaseIsSound(p)'
    BY <1>1, <1>2 DEF Sound, CaseIsSound, CasesStay
  <1>5. (request[p].docs \cup form[p].told) \cap K = {}
    BY <1>1 DEF Sound, FilesAreSound
  <1>6. FilesAreSound(p)'
    BY <1>1, <1>2, <1>5 DEF Sound, FilesAreSound
  <1> QED
    BY <1>3, <1>4, <1>6 DEF Sound

(* A step that touches neither a file nor this reporter leaves it sound. *)
LEMMA UntouchedStaySound ==
    ASSUME IntakeInv, CasesStay, NEW p \in Reporters,
           request'[p] = request[p], form'[p] = form[p],
           UNCHANGED <<disk, evidence, leftover, unacknowledged>>
    PROVE  Sound(p)'
  <1> DEFINE K == {}
  <1>1. K \in SUBSET StorageKeys /\ \A k : k \notin K
    OBVIOUS
  <1> HIDE DEF K
  <1> QED
    BY <1>1, OthersStaySound

(* A step that leaves the forms and files alone keeps all of this. *)
LEMMA ElsewhereKeepsIntake ==
    ASSUME IntakeInv, CasesStay, UNCHANGED intake
    PROVE  IntakeInv'
  <1>1. UNCHANGED <<form, request, disk, evidence, leftover, unacknowledged>>
    BY DEF intake
  <1>2. \A p \in Reporters : Sound(p)'
    BY <1>1, UntouchedStaySound
  <1>3. IntakeTypeOK' /\ KeysAreOwned' /\ UnacknowledgedAreRows' /\ EvidenceMatchesDisk'
    BY <1>1 DEF IntakeInv, IntakeTypeOK, KeysAreOwned, UnacknowledgedAreRows, EvidenceMatchesDisk
  <1> QED
    BY <1>2, <1>3 DEF IntakeInv

(* A step of one reporter that changes no file, row or key under way.      *)
LEMMA FormStepKeeps ==
    ASSUME IntakeInv, CasesStay, NEW p \in Reporters,
           UNCHANGED <<disk, evidence, leftover, unacknowledged>>,
           \A x \in Reporters \ {p} : request'[x] = request[x] /\ form'[x] = form[x],
           IntakeTypeOK', request[p].key = NoKey, request'[p].key = NoKey, Sound(p)'
    PROVE  IntakeInv'
  <1>1. \A x \in Reporters : Sound(x)'
    BY UntouchedStaySound
  <1>2. KeysAreOwned'
    BY DEF IntakeInv, KeysAreOwned
  <1>3. UnacknowledgedAreRows'
    BY DEF IntakeInv, UnacknowledgedAreRows
  <1>4. EvidenceMatchesDisk'
    BY IntakeAssumption DEF IntakeInv, EvidenceMatchesDisk, IntakeTypeOK
  <1> QED
    BY <1>1, <1>2, <1>3, <1>4 DEF IntakeInv

(* Steps that leave the reports alone take none away. *)
LEMMA SameTablesStay ==
    ASSUME UNCHANGED vars
    PROVE  CasesStay
  BY DEF vars, CasesStay

(* A new report begins without files and without a token. *)
LEMMA SubmitFormKeeps ==
    ASSUME IntakeInv, NEW p \in Reporters, NEW m \in Members \cup {Unmatched},
           NEW files \in 0 .. MaxFiles, SubmitForm(p, m, files)
    PROVE  IntakeInv'
  <1> DEFINE row == Request("submitted", m, files, NoKey, NoCase, {})
  <1>1. /\ request' = [request EXCEPT ![p] = row]
        /\ form' = [form EXCEPT ![p] = BlankForm]
        /\ request[p].step = "idle"
        /\ UNCHANGED <<vars, disk, evidence, leftover, unacknowledged>>
    BY DEF SubmitForm
  <1>2. /\ row.step = "submitted" /\ row.choice = m /\ row.left = files
        /\ row.key = NoKey /\ row.case = NoCase /\ row.docs = {}
        /\ row \in RequestRows
    BY IntakeAssumption DEF Request, RequestRows, Steps
  <1>3. BlankForm.case = NoCase /\ BlankForm.told = {}
    BY DEF BlankForm
  <1>4. BlankForm \in [case : Reports \cup {NoCase}, told : SUBSET StorageKeys]
    BY DEF BlankForm
  <1> HIDE DEF row
  <1>5. /\ request'[p] = row /\ form'[p] = BlankForm
        /\ \A x \in Reporters \ {p} : request'[x] = request[x] /\ form'[x] = form[x]
    BY <1>1 DEF IntakeInv, IntakeTypeOK
  <1>6. IntakeTypeOK'
    BY <1>1, <1>2, <1>4 DEF IntakeInv, IntakeTypeOK, RequestRows
  <1>7. Sound(p)'
    BY <1>2, <1>3, <1>5, IntakeAssumption DEF Sound, KeyIsSound, CaseIsSound, FilesAreSound
  <1>8. request[p].key = NoKey
    BY <1>1 DEF IntakeInv, Sound, KeyIsSound
  <1> QED
    BY <1>1, <1>2, <1>5, <1>6, <1>7, <1>8, SameTablesStay, FormStepKeeps

(* An additional file is for the case whose token the form holds. *)
LEMMA UploadAdditionalKeeps ==
    ASSUME IntakeInv, NEW p \in Reporters, UploadAdditionalEvidence(p)
    PROVE  IntakeInv'
  <1> DEFINE row == Request("uploading", Nobody, 1, NoKey, form[p].case, {})
  <1>1. /\ request' = [request EXCEPT ![p] = row]
        /\ request[p].step = "idle"
        /\ form[p].case # NoCase
        /\ UNCHANGED <<vars, form, disk, evidence, leftover, unacknowledged>>
    BY DEF UploadAdditionalEvidence
  <1>2. /\ row.step = "uploading" /\ row.left = 1
        /\ row.key = NoKey /\ row.case = form[p].case /\ row.docs = {}
        /\ row \in RequestRows
    BY IntakeAssumption DEF Request, RequestRows, Steps, IntakeInv, IntakeTypeOK
  <1> HIDE DEF row
  <1>3. /\ request'[p] = row /\ form'[p] = form[p]
        /\ \A x \in Reporters \ {p} : request'[x] = request[x] /\ form'[x] = form[x]
    BY <1>1 DEF IntakeInv, IntakeTypeOK
  <1>4. IntakeTypeOK'
    BY <1>1, <1>2 DEF IntakeInv, IntakeTypeOK, RequestRows
  <1>5. UNCHANGED cases
    BY <1>1 DEF vars
  <1>6. Sound(p)'
    BY <1>1, <1>2, <1>3, <1>5, IntakeAssumption
    DEF IntakeInv, Sound, KeyIsSound, CaseIsSound, FilesAreSound
  <1>7. request[p].key = NoKey
    BY <1>1 DEF IntakeInv, Sound, KeyIsSound
  <1> QED
    BY <1>1, <1>2, <1>3, <1>4, <1>6, <1>7, SameTablesStay, FormStepKeeps

(* The report exists before its first file is stored. *)
LEMMA ReceiveReportKeeps ==
    ASSUME IntakeInv, NEW p \in Reporters, NEW r \in Reports, NEW dod \in Time,
           ReceiveReport(p, r, dod), CasesStay, cases'[r].status # "none"
    PROVE  IntakeInv'
  <1> DEFINE left == request[p].left
             row == Request(IF left = 0 THEN "answered" ELSE "uploading", Nobody, left, NoKey, r, {})
  <1>1. /\ request' = [request EXCEPT ![p] = row]
        /\ request[p].step = "submitted"
        /\ UNCHANGED <<form, disk, evidence, leftover, unacknowledged>>
    BY DEF ReceiveReport, Continue
  <1>2. /\ row.step \in {"answered", "uploading"} /\ row.left = left /\ (row.step = "uploading" => left # 0)
        /\ row.key = NoKey /\ row.case = r /\ row.docs = {}
        /\ row \in RequestRows
    BY IntakeAssumption DEF Request, RequestRows, Steps, IntakeInv, IntakeTypeOK
  <1> HIDE DEF row
  <1>3. /\ request'[p] = row /\ form'[p] = form[p]
        /\ \A x \in Reporters \ {p} : request'[x] = request[x] /\ form'[x] = form[x]
    BY <1>1 DEF IntakeInv, IntakeTypeOK
  <1>4. IntakeTypeOK'
    BY <1>1, <1>2 DEF IntakeInv, IntakeTypeOK, RequestRows
  <1>5. Sound(p) /\ form[p].case \in Reports \cup {NoCase} /\ r # NoCase
    BY IntakeAssumption DEF IntakeInv, IntakeTypeOK
  <1>6. KeyIsSound(p)'
    BY <1>2, <1>3
    DEF KeyIsSound
  <1>7. CaseIsSound(p)'
    BY <1>1, <1>2, <1>3, <1>5 DEF Sound, CaseIsSound, CasesStay
  <1>8. FilesAreSound(p)'
    BY <1>1, <1>2, <1>3, <1>5 DEF Sound, CaseIsSound, FilesAreSound
  <1>9. request[p].key = NoKey
    BY <1>1, <1>5 DEF Sound, KeyIsSound
  <1> QED
    BY <1>1, <1>2, <1>3, <1>4, <1>6, <1>7, <1>8, <1>9, FormStepKeeps DEF Sound

(* A refusal answers with no case and no file. *)
LEMMA RefuseReportKeeps ==
    ASSUME IntakeInv, NEW p \in Reporters, RefuseReport(p)
    PROVE  IntakeInv'
  <1> DEFINE row == Request("answered", Nobody, 0, NoKey, request[p].case, request[p].docs)
  <1>1. /\ request' = [request EXCEPT ![p] = row]
        /\ request[p].step = "submitted"
        /\ UNCHANGED <<vars, form, disk, evidence, leftover, unacknowledged>>
    BY DEF RefuseReport, Answer, IntakeInv, IntakeTypeOK
  <1>2. /\ row.step = "answered"
        /\ row.key = NoKey /\ row.case = request[p].case /\ row.docs = request[p].docs
        /\ row \in RequestRows
    BY IntakeAssumption DEF Request, RequestRows, Steps, IntakeInv, IntakeTypeOK
  <1> HIDE DEF row
  <1>3. /\ request'[p] = row /\ form'[p] = form[p]
        /\ \A x \in Reporters \ {p} : request'[x] = request[x] /\ form'[x] = form[x]
    BY <1>1 DEF IntakeInv, IntakeTypeOK
  <1>4. IntakeTypeOK'
    BY <1>1, <1>2 DEF IntakeInv, IntakeTypeOK, RequestRows
  <1>5. UNCHANGED cases
    BY <1>1 DEF vars
  <1>6. Sound(p)
    BY DEF IntakeInv
  <1>7. Sound(p)'
    BY <1>1, <1>2, <1>3, <1>5, <1>6 DEF Sound, KeyIsSound, CaseIsSound, FilesAreSound
  <1>8. request[p].key = NoKey
    BY <1>1, <1>6 DEF Sound, KeyIsSound
  <1> QED
    BY <1>1, <1>2, <1>3, <1>4, <1>7, <1>8, SameTablesStay, FormStepKeeps

(* What the form is told has a row and a file. *)
LEMMA ShowAnswerKeeps ==
    ASSUME IntakeInv, NEW p \in Reporters, ShowAnswer(p)
    PROVE  IntakeInv'
  <1> DEFINE answer == request[p]
             shown == IF answer.case = NoCase THEN form[p]
                      ELSE [case |-> answer.case, told |-> form[p].told \cup answer.docs]
  <1>1. /\ answer.step = "answered"
        /\ request' = [request EXCEPT ![p] = NoRequest]
        /\ form' = [form EXCEPT ![p] = shown]
        /\ UNCHANGED <<vars, disk, evidence, leftover, unacknowledged>>
    BY DEF ShowAnswer, IntakeInv, IntakeTypeOK
  <1>2. /\ NoRequest.step = "idle" /\ NoRequest.key = NoKey /\ NoRequest.case = NoCase /\ NoRequest.docs = {}
        /\ NoRequest \in RequestRows
    BY IntakeAssumption DEF NoRequest, Request, RequestRows, Steps
  <1>3. /\ shown \in [case : Reports \cup {NoCase}, told : SUBSET StorageKeys]
        /\ shown.case = IF answer.case = NoCase THEN form[p].case ELSE answer.case
        /\ shown.told = IF answer.case = NoCase THEN form[p].told ELSE form[p].told \cup answer.docs
    BY DEF IntakeInv, IntakeTypeOK
  <1> HIDE DEF shown
  <1>4. /\ request'[p] = NoRequest /\ form'[p] = shown
        /\ \A x \in Reporters \ {p} : request'[x] = request[x] /\ form'[x] = form[x]
    BY <1>1 DEF IntakeInv, IntakeTypeOK
  <1>5. IntakeTypeOK'
    BY <1>1, <1>2, <1>3 DEF IntakeInv, IntakeTypeOK, RequestRows
  <1>6. UNCHANGED cases
    BY <1>1 DEF vars
  <1>7. Sound(p)
    BY DEF IntakeInv
  <1>8. KeyIsSound(p)' /\ CaseIsSound(p)'
    BY <1>1, <1>2, <1>3, <1>4, <1>6, <1>7 DEF Sound, KeyIsSound, CaseIsSound
  <1>9. FilesAreSound(p)'
    BY <1>1, <1>2, <1>3, <1>4, <1>7 DEF Sound, CaseIsSound, FilesAreSound
  <1>10. request[p].key = NoKey
    BY <1>1, <1>7 DEF Sound, KeyIsSound
  <1> QED
    BY <1>1, <1>2, <1>4, <1>5, <1>8, <1>9, <1>10, SameTablesStay, FormStepKeeps DEF Sound

(* A step of one reporter on the file and the row of one key, which no     *)
(* other reporter is working on.                                           *)
LEMMA FileStepKeeps ==
    ASSUME IntakeInv, UNCHANGED vars, UNCHANGED form,
           NEW p \in Reporters, NEW row \in RequestRows, NEW k \in StorageKeys,
           request' = [request EXCEPT ![p] = row],
           disk' \subseteq StorageKeys, leftover' \subseteq disk', unacknowledged' \subseteq StorageKeys,
           evidence' \in [StorageKeys -> Reports \cup {NoCase}],
           \A j \in StorageKeys \ {k} :
              /\ j \in disk <=> j \in disk'
              /\ evidence'[j] = evidence[j]
              /\ j \in unacknowledged <=> j \in unacknowledged'
              /\ j \in leftover <=> j \in leftover',
           \A x \in Reporters \ {p} : request[x].key # k,
           evidence[k] = NoCase \/ k \in unacknowledged,
           request[p].key \in {k, NoKey}, row.key \in {k, NoKey},
           k \in unacknowledged' => evidence'[k] # NoCase,
           evidence'[k] # NoCase => k \in disk' \/ k \in unacknowledged',
           k \in disk' /\ k \notin leftover' => evidence'[k] # NoCase \/ row.key = k,
           Sound(p)'
    PROVE  IntakeInv'
  <1>1. /\ request'[p] = row
        /\ \A x \in Reporters \ {p} : request'[x] = request[x] /\ form'[x] = form[x]
    BY DEF IntakeInv, IntakeTypeOK
  <1>2. IntakeTypeOK'
    BY DEF IntakeInv, IntakeTypeOK, RequestRows
  <1>3. ASSUME NEW x \in Reporters
        PROVE  Sound(x)'
    <2>1. CASE x # p
      <3> DEFINE K == {k}
      <3>1. K \in SUBSET StorageKeys /\ \A j : j \in K <=> j = k
        OBVIOUS
      <3> HIDE DEF K
      <3>2. \A j \in StorageKeys \ K : j \in StorageKeys \ {k}
        BY <3>1
      <3> QED
        BY <1>1, <2>1, <3>1, <3>2, SameTablesStay, OthersStaySound
    <2> QED
      BY <2>1
  <1>4. KeysAreOwned'
    BY <1>1 DEF IntakeInv, KeysAreOwned
  <1>5. UnacknowledgedAreRows'
    BY DEF IntakeInv, UnacknowledgedAreRows
  <1>6. EvidenceMatchesDisk'
    <2>1. \A j \in StorageKeys \ unacknowledged' : evidence'[j] # NoCase => j \in disk'
      BY DEF IntakeInv, EvidenceMatchesDisk
    <2>2. ASSUME NEW j \in disk' \ leftover', evidence'[j] = NoCase
          PROVE  \E q \in Reporters : request'[q].key = j
      <3>1. CASE j = k
        BY <1>1, <2>2, <3>1
      <3>2. CASE j # k
        <4>1. j \in disk \ leftover /\ evidence[j] = NoCase
          BY <2>2, <3>2
        <4>2. PICK q \in Reporters : request[q].key = j
          BY <4>1 DEF IntakeInv, EvidenceMatchesDisk
        <4>3. q # p
          BY <4>2, <3>2, <2>2, IntakeAssumption
        <4> QED
          BY <1>1, <4>2, <4>3
      <3> QED
        BY <3>1, <3>2
    <2> QED
      BY <2>1, <2>2 DEF EvidenceMatchesDisk
  <1> QED
    BY <1>2, <1>3, <1>4, <1>5, <1>6 DEF IntakeInv

(* A stored file is the one of the request under way. *)
LEMMA StoreEvidenceKeeps ==
    ASSUME IntakeInv, NEW p \in Reporters, NEW k \in StorageKeys, StoreEvidence(p, k)
    PROVE  IntakeInv'
  <1> DEFINE row == [request[p] EXCEPT !.step = "stored", !.key = k]
  <1>1. /\ request' = [request EXCEPT ![p] = row]
        /\ request[p].step = "uploading"
        /\ disk' = disk \cup {k}
        /\ UNCHANGED <<vars, form, evidence, leftover, unacknowledged>>
    BY DEF StoreEvidence
  <1>2. /\ row.step = "stored" /\ row.left = request[p].left
        /\ row.key = k /\ row.case = request[p].case /\ row.docs = request[p].docs
        /\ row \in RequestRows
    BY DEF RequestRows, Steps, IntakeInv, IntakeTypeOK
  <1> HIDE DEF row
  <1>3. /\ k \notin disk /\ evidence[k] = NoCase /\ (\A x \in Reporters : request[x].key # k)
        /\ k \notin leftover
    BY DEF StoreEvidence, FreshKey, IntakeInv, IntakeTypeOK
  <1>4. request'[p] = row
    BY <1>1 DEF IntakeInv, IntakeTypeOK
  <1>5. Sound(p) /\ k # NoKey /\ request[p].key = NoKey
    BY <1>1, IntakeAssumption DEF IntakeInv, Sound, KeyIsSound
  <1>6. UNCHANGED cases
    BY <1>1 DEF vars
  <1>7. Sound(p)'
    BY <1>1, <1>2, <1>3, <1>4, <1>5, <1>6 DEF Sound, KeyIsSound, CaseIsSound, FilesAreSound
  <1>8. k \notin unacknowledged
    BY <1>3 DEF IntakeInv, UnacknowledgedAreRows
  <1>9. /\ disk' \subseteq StorageKeys /\ leftover' \subseteq disk' /\ unacknowledged' \subseteq StorageKeys
        /\ evidence' \in [StorageKeys -> Reports \cup {NoCase}]
    BY <1>1 DEF IntakeInv, IntakeTypeOK
  <1> QED
    BY <1>1, <1>2, <1>3, <1>5, <1>7, <1>8, <1>9, FileStepKeeps

(* What a failing disk wrote is a leftover. *)
LEMMA StoreFailsKeeps ==
    ASSUME IntakeInv, NEW p \in Reporters, NEW k \in StorageKeys, StoreFails(p, k)
    PROVE  IntakeInv'
  <1> DEFINE row == Request("answered", Nobody, 0, NoKey, request[p].case, request[p].docs)
  <1>1. /\ request' = [request EXCEPT ![p] = row]
        /\ request[p].step = "uploading"
        /\ \/ UNCHANGED <<disk, leftover>>
           \/ disk' = disk \cup {k} /\ leftover' = leftover \cup {k}
        /\ UNCHANGED <<vars, form, evidence, unacknowledged>>
    BY DEF StoreFails, Answer, IntakeInv, IntakeTypeOK
  <1>2. /\ row.step = "answered"
        /\ row.key = NoKey /\ row.case = request[p].case /\ row.docs = request[p].docs
        /\ row \in RequestRows
    BY IntakeAssumption DEF Request, RequestRows, Steps, IntakeInv, IntakeTypeOK
  <1> HIDE DEF row
  <1>3. k \notin disk /\ evidence[k] = NoCase /\ (\A x \in Reporters : request[x].key # k)
    BY DEF StoreFails, FreshKey
  <1>4. request'[p] = row
    BY <1>1 DEF IntakeInv, IntakeTypeOK
  <1>5. Sound(p) /\ k # NoKey /\ request[p].key = NoKey
    BY <1>1, IntakeAssumption DEF IntakeInv, Sound, KeyIsSound
  <1>6. UNCHANGED cases
    BY <1>1 DEF vars
  <1>7. Sound(p)'
    BY <1>1, <1>2, <1>3, <1>4, <1>5, <1>6 DEF Sound, KeyIsSound, CaseIsSound, FilesAreSound
  <1>8. k \notin unacknowledged
    BY <1>3 DEF IntakeInv, UnacknowledgedAreRows
  <1>9. /\ disk' \subseteq StorageKeys /\ leftover' \subseteq disk' /\ unacknowledged' \subseteq StorageKeys
        /\ evidence' \in [StorageKeys -> Reports \cup {NoCase}]
    BY <1>1 DEF IntakeInv, IntakeTypeOK
  <1> QED
    BY <1>1, <1>2, <1>3, <1>5, <1>7, <1>8, <1>9, FileStepKeeps

(* The key of an upload that has been stored belongs to nobody else. *)
LEMMA StoredKeyIsOwn ==
    ASSUME IntakeInv, NEW p \in Reporters, request[p].step \in {"stored", "undo"}
    PROVE  /\ request[p].key \in StorageKeys /\ request[p].key # NoKey
           /\ \A x \in Reporters \ {p} : request[x].key # request[p].key
           /\ evidence[request[p].key] = NoCase \/ request[p].key \in unacknowledged
           /\ request[p].case \in Reports
           /\ request[p].key \notin request[p].docs \cup form[p].told
  <1>1. Sound(p)
    BY DEF IntakeInv
  <1>2. /\ request[p].key \in StorageKeys \cup {NoKey}
        /\ request[p].case \in Reports \cup {NoCase}
    BY DEF IntakeInv, IntakeTypeOK
  <1>3. request[p].key # NoKey /\ request[p].case # NoCase
    BY <1>1 DEF Sound, KeyIsSound, CaseIsSound
  <1>4. \A x \in Reporters \ {p} : request[x].key # request[p].key
    BY <1>3 DEF IntakeInv, KeysAreOwned
  <1>5. evidence[request[p].key] = NoCase \/ request[p].key \in unacknowledged
    BY <1>1 DEF Sound, KeyIsSound
  <1>6. request[p].key \notin request[p].docs \cup form[p].told
    BY <1>1, <1>5 DEF Sound, FilesAreSound
  <1> QED
    BY <1>2, <1>3, <1>4, <1>5, <1>6

(* The row is of a file that is there, and of the case of the request. *)
LEMMA InsertEvidenceKeeps ==
    ASSUME IntakeInv, NEW p \in Reporters, InsertEvidence(p)
    PROVE  IntakeInv'
  <1> DEFINE k == request[p].key
             left == request[p].left - 1
             row == Request(IF left = 0 THEN "answered" ELSE "uploading", Nobody, left, NoKey,
                            request[p].case, request[p].docs \cup {k})
  <1>1. /\ request' = [request EXCEPT ![p] = row]
        /\ request[p].step = "stored"
        /\ evidence' = [evidence EXCEPT ![k] = request[p].case]
        /\ UNCHANGED <<vars, form, disk, leftover, unacknowledged>>
    BY DEF InsertEvidence, Continue, AttachEvidence
  <1>2. Sound(p)
    BY DEF IntakeInv
  <1>3. /\ k \in StorageKeys /\ k # NoKey
        /\ \A x \in Reporters \ {p} : request[x].key # k
        /\ request[p].case \in Reports
        /\ k \notin request[p].docs \cup form[p].told
    BY <1>1, StoredKeyIsOwn
  <1>4. k \in disk \ leftover /\ evidence[k] = NoCase /\ k \notin unacknowledged
    BY <1>1, <1>2, <1>3 DEF Sound, KeyIsSound, IntakeInv, UnacknowledgedAreRows
  <1>5. left \in 0 .. MaxFiles + 1
    <2>1. request[p].left \in 0 .. MaxFiles + 1
      BY DEF IntakeInv, IntakeTypeOK
    <2>2. request[p].left # 0
      BY <1>1, <1>2 DEF Sound, CaseIsSound
    <2> QED
      BY <2>1, <2>2, IntakeAssumption
  <1>6. /\ row.step \in {"answered", "uploading"} /\ row.left = left /\ (row.step = "uploading" => left # 0)
        /\ row.key = NoKey /\ row.case = request[p].case /\ row.docs = request[p].docs \cup {k}
        /\ row \in RequestRows
    BY <1>3, <1>5 DEF Request, RequestRows, Steps, IntakeInv, IntakeTypeOK
  <1> HIDE DEF row
  <1>7. request'[p] = row
    BY <1>1 DEF IntakeInv, IntakeTypeOK
  <1>8. UNCHANGED cases
    BY <1>1 DEF vars
  <1>9. /\ evidence' \in [StorageKeys -> Reports \cup {NoCase}]
        /\ evidence'[k] = request[p].case /\ request[p].case # NoCase
        /\ \A j \in StorageKeys \ {k} : evidence'[j] = evidence[j]
    BY <1>1, <1>3, IntakeAssumption DEF IntakeInv, IntakeTypeOK
  <1>10. /\ disk' \subseteq StorageKeys /\ leftover' \subseteq disk' /\ unacknowledged' \subseteq StorageKeys
         /\ request[p].docs \subseteq StorageKeys /\ form[p].told \subseteq StorageKeys
    BY <1>1 DEF IntakeInv, IntakeTypeOK
  <1>11. KeyIsSound(p)' /\ CaseIsSound(p)'
    BY <1>1, <1>2, <1>6, <1>7, <1>8 DEF Sound, KeyIsSound, CaseIsSound
  <1>12. FilesAreSound(p)'
    BY <1>1, <1>2, <1>3, <1>4, <1>6, <1>7, <1>9, <1>10 DEF Sound, FilesAreSound
  <1> QED
    BY <1>1, <1>3, <1>4, <1>6, <1>9, <1>10, <1>11, <1>12, FileStepKeeps DEF Sound

(* A row whose commit was reported as an error is unacknowledged. *)
LEMMA InsertFailsKeeps ==
    ASSUME IntakeInv, NEW p \in Reporters, InsertFails(p)
    PROVE  IntakeInv'
  <1> DEFINE k == request[p].key
             row == [request[p] EXCEPT !.step = "undo"]
  <1>1. /\ request' = [request EXCEPT ![p] = row]
        /\ request[p].step = "stored"
        /\ \/ UNCHANGED <<evidence, unacknowledged>>
           \/ /\ evidence' = [evidence EXCEPT ![k] = request[p].case]
              /\ unacknowledged' = unacknowledged \cup {k}
        /\ UNCHANGED <<vars, form, disk, leftover>>
    BY DEF InsertFails, AttachEvidence
  <1>2. Sound(p)
    BY DEF IntakeInv
  <1>3. /\ k \in StorageKeys /\ k # NoKey
        /\ \A x \in Reporters \ {p} : request[x].key # k
        /\ request[p].case \in Reports
        /\ k \notin request[p].docs \cup form[p].told
    BY <1>1, StoredKeyIsOwn
  <1>4. k \in disk \ leftover /\ evidence[k] = NoCase /\ k \notin unacknowledged
    BY <1>1, <1>2, <1>3 DEF Sound, KeyIsSound, IntakeInv, UnacknowledgedAreRows
  <1>5. /\ row.step = "undo" /\ row.left = request[p].left
        /\ row.key = k /\ row.case = request[p].case /\ row.docs = request[p].docs
        /\ row \in RequestRows
    BY DEF RequestRows, Steps, IntakeInv, IntakeTypeOK
  <1> HIDE DEF row
  <1>6. request'[p] = row
    BY <1>1 DEF IntakeInv, IntakeTypeOK
  <1>7. UNCHANGED cases
    BY <1>1 DEF vars
  <1>8. /\ evidence' \in [StorageKeys -> Reports \cup {NoCase}]
        /\ evidence'[k] = NoCase \/ k \in unacknowledged'
        /\ k \in unacknowledged' => evidence'[k] # NoCase
        /\ \A j \in StorageKeys \ {k} : /\ evidence'[j] = evidence[j]
                                        /\ j \in unacknowledged <=> j \in unacknowledged'
    BY <1>1, <1>3, <1>4, IntakeAssumption DEF IntakeInv, IntakeTypeOK
  <1>9. /\ disk' \subseteq StorageKeys /\ leftover' \subseteq disk' /\ unacknowledged' \subseteq StorageKeys
        /\ request[p].docs \subseteq StorageKeys /\ form[p].told \subseteq StorageKeys
    BY <1>1, <1>3 DEF IntakeInv, IntakeTypeOK
  <1>10. KeyIsSound(p)' /\ CaseIsSound(p)'
    BY <1>1, <1>2, <1>3, <1>4, <1>5, <1>6, <1>7, <1>8 DEF Sound, KeyIsSound, CaseIsSound
  <1>11. FilesAreSound(p)'
    BY <1>1, <1>2, <1>3, <1>5, <1>6, <1>8, <1>9 DEF Sound, FilesAreSound
  <1> QED
    BY <1>1, <1>3, <1>4, <1>5, <1>8, <1>9, <1>10, <1>11, FileStepKeeps DEF Sound

(* The clean-up removes a file without a row, or of an unacknowledged one. *)
LEMMA RemoveEvidenceKeeps ==
    ASSUME IntakeInv, NEW p \in Reporters, RemoveEvidence(p)
    PROVE  IntakeInv'
  <1> DEFINE k == request[p].key
             row == Request("answered", Nobody, 0, NoKey, request[p].case, request[p].docs)
  <1>1. /\ request' = [request EXCEPT ![p] = row]
        /\ request[p].step = "undo"
        /\ \/ disk' = disk \ {k} /\ UNCHANGED leftover
           \/ leftover' = leftover \cup {k} /\ UNCHANGED disk
        /\ UNCHANGED <<vars, form, evidence, unacknowledged>>
    BY DEF RemoveEvidence, Answer, IntakeInv, IntakeTypeOK
  <1>2. Sound(p)
    BY DEF IntakeInv
  <1>3. /\ k \in StorageKeys /\ k # NoKey
        /\ \A x \in Reporters \ {p} : request[x].key # k
        /\ evidence[k] = NoCase \/ k \in unacknowledged
        /\ k \notin request[p].docs \cup form[p].told
    BY <1>1, StoredKeyIsOwn
  <1>4. k \in disk \ leftover
    BY <1>2, <1>3 DEF Sound, KeyIsSound
  <1>5. /\ row.step = "answered"
        /\ row.key = NoKey /\ row.case = request[p].case /\ row.docs = request[p].docs
        /\ row \in RequestRows
    BY IntakeAssumption DEF Request, RequestRows, Steps, IntakeInv, IntakeTypeOK
  <1> HIDE DEF row
  <1>6. request'[p] = row
    BY <1>1 DEF IntakeInv, IntakeTypeOK
  <1>7. UNCHANGED cases
    BY <1>1 DEF vars
  <1>8. /\ disk' \subseteq StorageKeys /\ leftover' \subseteq disk' /\ unacknowledged' \subseteq StorageKeys
        /\ evidence' \in [StorageKeys -> Reports \cup {NoCase}]
        /\ request[p].docs \subseteq StorageKeys /\ form[p].told \subseteq StorageKeys
    BY <1>1, <1>4 DEF IntakeInv, IntakeTypeOK
  <1>9. k \in unacknowledged => evidence[k] # NoCase
    BY DEF IntakeInv, UnacknowledgedAreRows
  <1>10. KeyIsSound(p)' /\ CaseIsSound(p)'
    BY <1>1, <1>2, <1>5, <1>6, <1>7 DEF Sound, KeyIsSound, CaseIsSound
  <1>11. FilesAreSound(p)'
    BY <1>1, <1>2, <1>3, <1>5, <1>6, <1>8 DEF Sound, FilesAreSound
  <1> QED
    BY <1>1, <1>3, <1>4, <1>5, <1>8, <1>9, <1>10, <1>11, FileStepKeeps DEF Sound

(* A request that dies leaves its file behind. *)
LEMMA LoseRequestKeeps ==
    ASSUME IntakeInv, NEW p \in Reporters, LoseRequest(p)
    PROVE  IntakeInv'
  <1> DEFINE k == request[p].key
  <1>1. /\ request' = [request EXCEPT ![p] = NoRequest]
        /\ leftover' = IF k \in disk /\ evidence[k] = NoCase THEN leftover \cup {k} ELSE leftover
        /\ UNCHANGED <<vars, form, disk, evidence, unacknowledged>>
    BY DEF LoseRequest
  <1>2. /\ NoRequest.step = "idle" /\ NoRequest.key = NoKey /\ NoRequest.case = NoCase /\ NoRequest.docs = {}
        /\ NoRequest \in RequestRows
    BY IntakeAssumption DEF NoRequest, Request, RequestRows, Steps
  <1>3. /\ request'[p] = NoRequest
        /\ \A x \in Reporters \ {p} : request'[x] = request[x] /\ form'[x] = form[x]
    BY <1>1 DEF IntakeInv, IntakeTypeOK
  <1>4. UNCHANGED cases
    BY <1>1 DEF vars
  <1>5. Sound(p)
    BY DEF IntakeInv
  <1>6. Sound(p)'
    BY <1>1, <1>2, <1>3, <1>4, <1>5 DEF Sound, KeyIsSound, CaseIsSound, FilesAreSound
  <1>7. CASE k = NoKey
    <2>1. NoKey \notin disk
      BY IntakeAssumption DEF IntakeInv, IntakeTypeOK
    <2>2. UNCHANGED leftover
      BY <1>1, <1>7, <2>1
    <2>3. IntakeTypeOK'
      BY <1>1, <1>2, <2>2 DEF IntakeInv, IntakeTypeOK, RequestRows
    <2> QED
      BY <1>1, <1>2, <1>3, <1>6, <1>7, <2>2, <2>3, SameTablesStay, FormStepKeeps
  <1>8. CASE k # NoKey
    <2>1. request[p].step \in {"stored", "undo"}
      BY <1>5, <1>8 DEF Sound, KeyIsSound
    <2>2. /\ k \in StorageKeys
          /\ \A x \in Reporters \ {p} : request[x].key # k
          /\ evidence[k] = NoCase \/ k \in unacknowledged
      BY <2>1, StoredKeyIsOwn
    <2>3. k \in disk
      BY <1>5, <1>8 DEF Sound, KeyIsSound
    <2>4. k \in unacknowledged => evidence[k] # NoCase
      BY DEF IntakeInv, UnacknowledgedAreRows
    <2>5. /\ disk' \subseteq StorageKeys /\ leftover' \subseteq disk' /\ unacknowledged' \subseteq StorageKeys
          /\ evidence' \in [StorageKeys -> Reports \cup {NoCase}]
      BY <1>1 DEF IntakeInv, IntakeTypeOK
    <2> QED
      BY <1>1, <1>2, <1>6, <2>2, <2>3, <2>4, <2>5, FileStepKeeps
  <1> QED
    BY <1>7, <1>8

(* No form, request or file at the start. *)
LEMMA IntakeInitEstablishes == IntakeInit => IntakeInv
  <1> SUFFICES ASSUME IntakeInit
               PROVE  IntakeInv
    OBVIOUS
  <1>1. NoRequest.step = "idle" /\ NoRequest.key = NoKey /\ NoRequest.case = NoCase
        /\ NoRequest.docs = {} /\ NoRequest \in RequestRows
    BY IntakeAssumption DEF NoRequest, Request, RequestRows, Steps
  <1>2. BlankForm.case = NoCase /\ BlankForm.told = {}
        /\ BlankForm \in [case : Reports \cup {NoCase}, told : SUBSET StorageKeys]
    BY DEF BlankForm
  <1>3. IntakeTypeOK
    BY <1>1, <1>2 DEF IntakeInit, IntakeTypeOK, RequestRows
  <1>4. \A p \in Reporters : Sound(p)
    BY <1>1, <1>2 DEF IntakeInit, Sound, KeyIsSound, CaseIsSound, FilesAreSound
  <1> QED
    BY <1>1, <1>3, <1>4 DEF IntakeInit, IntakeInv, KeysAreOwned, UnacknowledgedAreRows, EvidenceMatchesDisk

(* Every step of intake is one of DeathSupport or leaves its tables alone. *)
LEMMA IntakeRefines ==
    ASSUME IntakeInv, IntakeNext
    PROVE  [Next]_vars
  <1>1. PICK p \in Reporters : Reporter(p) \/ Routes(p)
    BY DEF IntakeNext
  <1>2. CASE Reporter(p)
    <2>1. UNCHANGED vars
      BY <1>2 DEF Reporter, SubmitForm, UploadAdditionalEvidence, ShowAnswer, LoseRequest
    <2> QED
      BY <2>1
  <1>3. CASE \E r \in Reports, dod \in Time : ReceiveReport(p, r, dod)
    <2>1. PICK r \in Reports, dod \in Time : ReceiveReport(p, r, dod)
      BY <1>3
    <2>2. request[p].choice \in Members \cup {Unmatched}
      BY <2>1 DEF ReceiveReport, IntakeInv, Sound, CaseIsSound
    <2> QED
      BY <2>1, <2>2 DEF ReceiveReport, Next, Reporting
  <1>4. CASE \/ RefuseReport(p) \/ InsertEvidence(p) \/ InsertFails(p) \/ RemoveEvidence(p)
             \/ \E k \in StorageKeys : StoreEvidence(p, k) \/ StoreFails(p, k)
    <2>1. UNCHANGED vars
      BY <1>4 DEF RefuseReport, InsertEvidence, InsertFails, RemoveEvidence, StoreEvidence, StoreFails
    <2> QED
      BY <2>1
  <1> QED
    BY <1>1, <1>2, <1>3, <1>4 DEF Routes

(* Every step of the intake preserves its invariant. *)
LEMMA IntakeNextKeeps ==
    ASSUME IInv, IntakeInv, IntakeNext
    PROVE  IntakeInv'
  <1>1. PICK p \in Reporters : Reporter(p) \/ Routes(p)
    BY DEF IntakeNext
  <1>2. CASE Reporter(p)
    BY <1>2, SubmitFormKeeps, UploadAdditionalKeeps, ShowAnswerKeeps, LoseRequestKeeps DEF Reporter
  <1>3. CASE \E r \in Reports, dod \in Time : ReceiveReport(p, r, dod)
    <2>1. PICK r \in Reports, dod \in Time : ReceiveReport(p, r, dod)
      BY <1>3
    <2>2. CasesStay
      BY IntakeRefines, DecisionsStay DEF CasesStay, CaseStays
    <2>3. cases'[r].status # "none"
      BY <2>1 DEF ReceiveReport, SubmitDeathReport, IInv, DeathTypeOK
    <2> QED
      BY <2>1, <2>2, <2>3, ReceiveReportKeeps
  <1>4. CASE \/ RefuseReport(p) \/ InsertEvidence(p) \/ InsertFails(p) \/ RemoveEvidence(p)
             \/ \E k \in StorageKeys : StoreEvidence(p, k) \/ StoreFails(p, k)
    BY <1>4, RefuseReportKeeps, InsertEvidenceKeeps, InsertFailsKeeps, RemoveEvidenceKeeps,
       StoreEvidenceKeeps, StoreFailsKeeps
  <1> QED
    BY <1>1, <1>2, <1>3, <1>4 DEF Routes

-----------------------------------------------------------------------------
(* The desks. *)

Messages == [deed : Deeds \cup {"none"}, report : Reports \cup {NoCase},
             member : Members \cup {Nobody}, condolence : Condolences \cup {NoCondolence}]

(* A message speaks of a row that exists, and what it says stands. *)
Firm(t) ==
    /\ t.deed \notin {"none", "moderated"} => t.report \in Reports
    /\ t.deed = "linked" => t.member \in Members /\ cases[t.report].status # "none"
    /\ t.deed = "confirmed" => cases[t.report].status # "none"
    /\ t.deed = "moderated" => t.condolence \in Condolences
    /\ Stands(t)

CondolencesStay ==
    \A k \in Condolences : condolences[k].status = "MODERATED" => condolences'[k].status = "MODERATED"

DeskTables ==
    /\ screen \in [Staff -> [reports : [Reports -> ReportStatuses],
                             events : [Reports -> EventStatuses]]]
    /\ told \in [Staff -> Messages]
    /\ condolences \in [Condolences -> [event : Reports \cup {NoCase},
                                        status : {"none", "PUBLISHED", "MODERATED"}]]

DeskInv ==
    /\ IInv
    /\ IntakeInv
    /\ DeskTables
    /\ \A s \in Staff : Firm(told[s])

(* What stands, stands after any step of DeathSupport. *)
LEMMA FirmStays ==
    ASSUME IInv, [Next]_vars, CondolencesStay, NEW t \in Messages, Firm(t)
    PROVE  Firm(t)'
  <1>1. CASE t.deed \in {"none", "moderated"}
    BY <1>1 DEF Firm, Stands, CondolencesStay
  <1>2. CASE t.deed \notin {"none", "moderated"}
    <2>1. t.report \in Reports
      BY <1>2 DEF Firm
    <2>2. CaseStays(t.report) /\ EventStays(t.report)
      BY <2>1, DecisionsStay
    <2>3. t.deed = "linked" => cases[t.report].member # Unmatched
      BY DeathSupportAssumption DEF Firm, Stands
    <2> QED
      BY <1>2, <2>1, <2>2, <2>3 DEF Firm, Stands, CaseStays, EventStays
  <1> QED
    BY <1>1, <1>2

(* What the lists show is typed. *)
LEMMA ShowsType ==
    ASSUME NEW c \in [Reports -> CaseRows], NEW e \in [Reports -> EventRows], NEW s
    PROVE  Shows(s, c, e) \in [reports : [Reports -> ReportStatuses], events : [Reports -> EventStatuses]]
  <1>1. ReportsShown(s, c) \in [Reports -> ReportStatuses]
    BY DEF ReportsShown, ReportStatuses, CaseRows
  <1>2. EventsShown(s, c, e) \in [Reports -> EventStatuses]
    BY DEF EventsShown, EventStatuses, EventRows
  <1> QED
    BY <1>1, <1>2 DEF Shows

(* Saying nothing promises nothing. *)
LEMMA NoMessageIsFirm == NoMessage \in Messages /\ NoMessage.deed = "none"
  BY DEF NoMessage, Message, Messages

(* An answered click whose message stands keeps all of this. *)
LEMMA AnsweredKeeps ==
    ASSUME DeskInv, [Next]_vars, UNCHANGED <<intake, condolences>>,
           NEW s \in Staff, NEW t \in Messages, Firm(t)', Answered(s, t)
    PROVE  DeskInv'
  <1>1. IInv'
    BY NextKeeps DEF DeskInv
  <1>2. CasesStay
    BY DecisionsStay DEF DeskInv, CasesStay, CaseStays
  <1>3. IntakeInv'
    BY <1>2, ElsewhereKeepsIntake DEF DeskInv
  <1>4. cases' \in [Reports -> CaseRows] /\ events' \in [Reports -> EventRows]
    BY <1>1 DEF IInv, DeathTypeOK, CaseRows, EventRows
  <1>5. Shows(s, cases', events') \in
            [reports : [Reports -> ReportStatuses], events : [Reports -> EventStatuses]]
    BY <1>4, ShowsType
  <1>6. PICK u \in {t, NoMessage} : told' = [told EXCEPT ![s] = u]
    BY DEF Answered
  <1>7. u \in Messages /\ Firm(u)'
    BY <1>6, NoMessageIsFirm DEF Firm, Stands
  <1>8. DeskTables'
    BY <1>5, <1>6, <1>7 DEF Answered, DeskInv, DeskTables
  <1>9. ASSUME NEW x \in Staff
        PROVE  Firm(told[x])'
    <2>1. CASE x = s
      BY <1>6, <1>7, <2>1 DEF DeskInv, DeskTables, Firm, Stands
    <2>2. CASE x # s
      <3>1. told'[x] = told[x] /\ told[x] \in Messages /\ Firm(told[x])
        BY <1>6, <2>2 DEF DeskInv, DeskTables
      <3>2. PICK v \in Messages : v = told[x]
        BY <3>1
      <3>3. Firm(v)
        BY <3>1, <3>2 DEF Firm, Stands
      <3>4. CondolencesStay
        BY DEF CondolencesStay
      <3>5. Firm(v)'
        BY <3>3, <3>4, FirmStays DEF DeskInv
      <3> QED
        BY <3>1, <3>2, <3>5 DEF Firm, Stands
    <2> QED
      BY <2>1, <2>2
  <1> QED
    BY <1>1, <1>3, <1>8, <1>9 DEF DeskInv

(* A step after which the desks say what they said before.                 *)
LEMMA SameDesksKeep ==
    ASSUME DeskInv, [Next]_vars, IntakeInv', CondolencesStay, DeskTables', UNCHANGED told
    PROVE  DeskInv'
  <1>1. IInv'
    BY NextKeeps DEF DeskInv
  <1>2. ASSUME NEW x \in Staff
        PROVE  Firm(told[x])'
    <2>1. told'[x] = told[x] /\ told[x] \in Messages /\ Firm(told[x])
      BY DEF DeskInv, DeskTables
    <2>2. PICK v \in Messages : v = told[x]
      BY <2>1
    <2>3. Firm(v)
      BY <2>1, <2>2 DEF Firm, Stands
    <2>4. Firm(v)'
      BY <2>3, FirmStays DEF DeskInv
    <2> QED
      BY <2>1, <2>2, <2>4 DEF Firm, Stands
  <1> QED
    BY <1>1, <1>2 DEF DeskInv

(* What is done to a report is what the message says. *)
LEMMA DoneIsFirm ==
    ASSUME DeskInv, NEW r \in Reports,
           NEW deed \in {"approved", "rejected", "confirmed", "published", "edited", "cancelled", "closed"},
           deed = "approved" => cases'[r].status \in {"APPROVED", "CANCELLED"},
           deed = "rejected" => cases'[r].status = "REJECTED",
           deed = "confirmed" => cases'[r].status \notin {"none", "REPORTED"},
           deed \in {"published", "edited"} => events'[r].publishedAt # NoTime,
           deed = "cancelled" => events'[r].status = "CANCELLED",
           deed = "closed" => events'[r].status \in {"CLOSED", "CANCELLED"}
    PROVE  Done(deed, r) \in Messages /\ Firm(Done(deed, r))'
  <1>1. /\ Done(deed, r).deed = deed /\ Done(deed, r).report = r
        /\ Done(deed, r) \in Messages
    BY DEF Done, Message, Messages, Deeds
  <1> DEFINE t == Done(deed, r)
  <1> HIDE DEF t
  <1>2. t.deed = deed /\ t.report = r
    BY <1>1 DEF t
  <1>3. Firm(t)'
    BY <1>2 DEF Firm, Stands
  <1> QED
    BY <1>1, <1>3 DEF t

(* A decision about a report. *)
LEMMA ClickReviewKeeps ==
    ASSUME DeskInv, NEW a \in Administrators, NEW r \in Reports, ClickReview(a, r)
    PROVE  DeskInv'
  <1>1. /\ cases[r] \in CaseRows /\ cases \in [Reports -> CaseRows]
        /\ a \in Staff /\ UNCHANGED <<intake, condolences>>
    BY DEF ClickReview, Elsewhere, Staff, DeskInv, IInv, DeathTypeOK, CaseRows
  <1>2. CASE ApproveReport(r) /\ Answered(a, Done("approved", r))
    <2>1. cases'[r].status = "APPROVED"
      BY <1>1, <1>2 DEF ApproveReport, CaseRows
    <2>2. [Next]_vars
      BY <1>2 DEF Next, Reporting
    <2> QED
      BY <1>1, <1>2, <2>1, <2>2, DoneIsFirm, AnsweredKeeps
  <1>3. CASE RejectReport(r) /\ Answered(a, Done("rejected", r))
    <2>1. cases'[r].status = "REJECTED"
      BY <1>1, <1>3 DEF RejectReport, CaseRows
    <2>2. [Next]_vars
      BY <1>3 DEF Next, Reporting
    <2> QED
      BY <1>1, <1>3, <2>1, <2>2, DoneIsFirm, AnsweredKeeps
  <1> QED
    BY <1>2, <1>3 DEF ClickReview

(* A report is linked to a member. *)
LEMMA ClickLinkKeeps ==
    ASSUME DeskInv, NEW a \in Administrators, NEW r \in Reports, NEW m \in Members, ClickLink(a, r, m)
    PROVE  DeskInv'
  <1>1. /\ cases \in [Reports -> CaseRows]
        /\ a \in Staff /\ UNCHANGED <<intake, condolences>>
        /\ LinkReport(r, m) /\ Answered(a, Message("linked", r, m, NoCondolence))
    BY DEF ClickLink, Elsewhere, Staff, DeskInv, IInv, DeathTypeOK, CaseRows
  <1>2. cases'[r].member = m /\ cases'[r].status # "none"
    BY <1>1 DEF LinkReport, CaseRows
  <1>3. [Next]_vars
    BY <1>1 DEF Next, Reporting
  <1> DEFINE t == Message("linked", r, m, NoCondolence)
  <1>4. t \in Messages /\ t.deed = "linked" /\ t.report = r /\ t.member = m
    BY DEF Message, Messages, Deeds
  <1>5. Answered(a, t)
    BY <1>1
  <1> HIDE DEF t
  <1>6. Firm(t)'
    BY <1>2, <1>4 DEF Firm, Stands
  <1> QED
    BY <1>1, <1>3, <1>4, <1>5, <1>6, AnsweredKeeps

(* An event is published. *)
LEMMA ClickPublishKeeps ==
    ASSUME DeskInv, NEW a \in Administrators, NEW r \in Reports, ClickPublish(a, r)
    PROVE  DeskInv'
  <1>1. /\ events \in [Reports -> EventRows] /\ now # NoTime
        /\ a \in Staff /\ UNCHANGED <<intake, condolences>>
        /\ PublishEvent(r) /\ Answered(a, Done("published", r))
    BY DeathSupportAssumption
    DEF ClickPublish, Elsewhere, Staff, DeskInv, IInv, DeathTypeOK, EventRows, Time
  <1>2. events'[r].publishedAt # NoTime
    BY <1>1 DEF PublishEvent, EventRows
  <1>3. [Next]_vars
    BY <1>1 DEF Next, EventWork
  <1> QED
    BY <1>1, <1>2, <1>3, DoneIsFirm, AnsweredKeeps

(* A published event is edited, cancelled or closed. *)
LEMMA ClickPublishedKeeps ==
    ASSUME DeskInv, NEW a \in Administrators, NEW r \in Reports, ClickPublished(a, r)
    PROVE  DeskInv'
  <1>1. /\ events \in [Reports -> EventRows]
        /\ a \in Staff /\ UNCHANGED <<intake, condolences>>
    BY DEF ClickPublished, Elsewhere, Staff, DeskInv, IInv, DeathTypeOK, EventRows
  <1>2. CASE \E dod \in Time : EditEvent(r, dod) /\ Answered(a, Done("edited", r))
    <2>1. events'[r].publishedAt # NoTime
      BY <1>2 DEF EditEvent, DeskInv, IInv, Tables, EventsAreDated
    <2>2. [Next]_vars
      BY <1>2 DEF Next, EventWork
    <2> QED
      BY <1>1, <1>2, <2>1, <2>2, DoneIsFirm, AnsweredKeeps
  <1>3. CASE CancelEvent(r) /\ Answered(a, Done("cancelled", r))
    <2>1. events'[r].status = "CANCELLED"
      BY <1>1, <1>3 DEF CancelEvent, EventRows
    <2>2. [Next]_vars
      BY <1>3 DEF Next, EventWork
    <2> QED
      BY <1>1, <1>3, <2>1, <2>2, DoneIsFirm, AnsweredKeeps
  <1>4. CASE CloseEvent(r) /\ Answered(a, Done("closed", r))
    <2>1. events'[r].status = "CLOSED"
      BY <1>1, <1>4 DEF CloseEvent, EventRows
    <2>2. [Next]_vars
      BY <1>4 DEF Next, EventWork
    <2> QED
      BY <1>1, <1>4, <2>1, <2>2, DoneIsFirm, AnsweredKeeps
  <1> QED
    BY <1>2, <1>3, <1>4 DEF ClickPublished

(* A Coordinator confirms a report. *)
LEMMA ClickConfirmKeeps ==
    ASSUME DeskInv, NEW c \in Coordinators, NEW r \in Reports, ClickConfirm(c, r)
    PROVE  DeskInv'
  <1>1. /\ cases \in [Reports -> CaseRows]
        /\ c \in Staff /\ UNCHANGED <<intake, condolences>>
        /\ ConfirmReport(r) /\ Answered(c, Done("confirmed", r))
    BY DEF ClickConfirm, Elsewhere, Staff, DeskInv, IInv, DeathTypeOK, CaseRows
  <1>2. cases'[r].status = "COORDINATOR_CONFIRMED"
    BY <1>1 DEF ConfirmReport, CaseRows
  <1>3. [Next]_vars
    BY <1>1 DEF Next, Reporting
  <1> QED
    BY <1>1, <1>2, <1>3, DoneIsFirm, AnsweredKeeps

(* A refusal. *)
LEMMA RefusedKeeps ==
    ASSUME DeskInv, NEW s \in Staff, Refused(s)
    PROVE  DeskInv'
  <1>1. UNCHANGED vars /\ UNCHANGED <<intake, condolences>> /\ Answered(s, NoMessage)
    BY DEF Refused
  <1>2. NoMessage \in Messages /\ Firm(NoMessage)'
    BY NoMessageIsFirm DEF Firm, Stands
  <1> QED
    BY <1>1, <1>2, AnsweredKeeps

(* A load. *)
LEMMA LoadKeeps ==
    ASSUME DeskInv, NEW s \in Staff, Load(s)
    PROVE  DeskInv'
  <1>1. UNCHANGED vars /\ UNCHANGED <<intake, condolences>>
    BY DEF Load
  <1>2. UNCHANGED <<cases, events>>
    BY <1>1 DEF vars
  <1>3. NoMessage \in Messages /\ Firm(NoMessage)'
    BY NoMessageIsFirm DEF Firm, Stands
  <1>4. Answered(s, NoMessage)
    BY <1>2 DEF Load, Answered
  <1> QED
    BY <1>1, <1>3, <1>4, AnsweredKeeps

(* A new comment has not been moderated. *)
LEMMA AddCondolenceKeeps ==
    ASSUME DeskInv, NEW r \in Reports, NEW k \in Condolences, AddCondolence(r, k)
    PROVE  DeskInv'
  <1>1. /\ UNCHANGED vars /\ UNCHANGED intake /\ UNCHANGED <<screen, told>>
        /\ condolences[k].status = "none"
        /\ condolences' = [condolences EXCEPT ![k] = [event |-> r, status |-> "PUBLISHED"]]
    BY DEF AddCondolence
  <1>2. CondolencesStay
    BY <1>1 DEF CondolencesStay, DeskInv, DeskTables
  <1>3. DeskTables'
    BY <1>1 DEF DeskInv, DeskTables
  <1>4. IntakeInv'
    BY <1>1, SameTablesStay, ElsewhereKeepsIntake DEF DeskInv
  <1> QED
    BY <1>1, <1>2, <1>3, <1>4, SameDesksKeep

(* A moderated comment stays moderated. *)
LEMMA ClickModerateKeeps ==
    ASSUME DeskInv, NEW s \in Staff, NEW k \in Condolences, ClickModerate(s, k)
    PROVE  DeskInv'
  <1> DEFINE r == condolences[k].event
             t == Message("moderated", r, Nobody, k)
  <1>1. /\ UNCHANGED vars /\ UNCHANGED intake /\ UNCHANGED screen
        /\ condolences' = [condolences EXCEPT ![k].status = "MODERATED"]
        /\ \E message \in {NoMessage, t} : told' = [told EXCEPT ![s] = message]
    BY DEF ClickModerate, ModerateCondolence
  <1>2. CondolencesStay
    BY <1>1 DEF CondolencesStay, DeskInv, DeskTables
  <1>3. t \in Messages /\ t.deed = "moderated" /\ t.condolence = k
    BY DEF Message, Messages, Deeds, DeskInv, DeskTables
  <1> HIDE DEF t
  <1>4. PICK u \in {NoMessage, t} : told' = [told EXCEPT ![s] = u]
    BY <1>1
  <1>5. condolences'[k].status = "MODERATED"
    BY <1>1 DEF DeskInv, DeskTables
  <1>6. u \in Messages /\ Firm(u)'
    BY <1>3, <1>4, <1>5, NoMessageIsFirm DEF Firm, Stands
  <1>7. DeskTables'
    BY <1>1, <1>4, <1>6 DEF DeskInv, DeskTables
  <1>8. IntakeInv'
    BY <1>1, SameTablesStay, ElsewhereKeepsIntake DEF DeskInv
  <1>9. IInv'
    BY <1>1, NextKeeps DEF DeskInv
  <1>10. ASSUME NEW x \in Staff
         PROVE  Firm(told[x])'
    <2>1. CASE x = s
      BY <1>4, <1>6, <2>1 DEF DeskInv, DeskTables, Firm, Stands
    <2>2. CASE x # s
      <3>1. told'[x] = told[x] /\ told[x] \in Messages /\ Firm(told[x])
        BY <1>4, <2>2 DEF DeskInv, DeskTables
      <3>2. PICK v \in Messages : v = told[x]
        BY <3>1
      <3>3. Firm(v)
        BY <3>1, <3>2 DEF Firm, Stands
      <3>4. Firm(v)'
        BY <1>1, <1>2, <3>3, FirmStays DEF DeskInv
      <3> QED
        BY <3>1, <3>2, <3>4 DEF Firm, Stands
    <2> QED
      BY <2>1, <2>2
  <1> QED
    BY <1>7, <1>8, <1>9, <1>10 DEF DeskInv

(* A step of DeathSupport that no form or desk takes. *)
LEMMA ElsewhereKeeps ==
    ASSUME DeskInv, [Next]_vars, UNCHANGED <<intake, desk>>
    PROVE  DeskInv'
  <1>1. UNCHANGED intake /\ UNCHANGED <<screen, told, condolences>>
    BY DEF desk
  <1>2. CasesStay
    BY DecisionsStay DEF DeskInv, CasesStay, CaseStays
  <1>3. IntakeInv'
    BY <1>1, <1>2, ElsewhereKeepsIntake DEF DeskInv
  <1>4. DeskTables' /\ CondolencesStay
    BY <1>1 DEF DeskInv, DeskTables, CondolencesStay
  <1> QED
    BY <1>1, <1>3, <1>4, SameDesksKeep

(* A step of the intake, which no message is about. *)
LEMMA IntakeStepKeeps ==
    ASSUME DeskInv, IntakeNext, UNCHANGED desk
    PROVE  DeskInv'
  <1>1. UNCHANGED <<screen, told, condolences>>
    BY DEF desk
  <1>2. [Next]_vars
    BY IntakeRefines DEF DeskInv
  <1>3. IntakeInv'
    BY IntakeNextKeeps DEF DeskInv
  <1>4. DeskTables' /\ CondolencesStay
    BY <1>1 DEF DeskInv, DeskTables, CondolencesStay
  <1> QED
    BY <1>1, <1>2, <1>3, <1>4, SameDesksKeep

(* Every step at a desk. *)
LEMMA DeskWorkKeeps ==
    ASSUME DeskInv, DeskWork
    PROVE  DeskInv'
  <1>1. CASE \E a \in Administrators : AdministratorWork(a)
    BY <1>1, ClickReviewKeeps, ClickLinkKeeps, ClickPublishKeeps, ClickPublishedKeeps
    DEF AdministratorWork
  <1>2. CASE \E c \in Coordinators : CoordinatorWork(c)
    BY <1>2, ClickConfirmKeeps DEF CoordinatorWork
  <1>3. CASE \E s \in Staff :
                \/ Load(s) \/ Refused(s)
                \/ \E k \in Condolences : ClickModerate(s, k)
    BY <1>3, LoadKeeps, RefusedKeeps, ClickModerateKeeps
  <1>4. CASE Visitor
    BY <1>4, AddCondolenceKeeps DEF Visitor
  <1> QED
    BY <1>1, <1>2, <1>3, <1>4 DEF DeskWork

(* Every step preserves the invariant. *)
LEMMA DeskNextKeeps == DeskInv /\ [DeskNext]_deskVars => DeskInv'
  <1> SUFFICES ASSUME DeskInv, [DeskNext]_deskVars
               PROVE  DeskInv'
    OBVIOUS
  <1>1. CASE (Tick \/ Membership) /\ UNCHANGED <<intake, desk>>
    BY <1>1, ElsewhereKeeps DEF Next
  <1>2. CASE UNCHANGED deskVars
    BY <1>2, ElsewhereKeeps DEF deskVars
  <1> QED
    BY <1>1, <1>2, IntakeStepKeeps, DeskWorkKeeps DEF DeskNext

(* Nobody has been told anything at the start. *)
LEMMA DeskInitEstablishes == DeskInit => DeskInv
  <1> SUFFICES ASSUME DeskInit
               PROVE  DeskInv
    OBVIOUS
  <1>1. IInv /\ IntakeInv
    BY InitEstablishes, IntakeInitEstablishes DEF DeskInit, IntakeInit
  <1>2. BlankScreen \in [reports : [Reports -> ReportStatuses], events : [Reports -> EventStatuses]]
    BY DEF BlankScreen, ReportStatuses, EventStatuses
  <1>3. DeskTables
    BY <1>2, NoMessageIsFirm DEF DeskInit, DeskTables
  <1>4. ASSUME NEW s \in Staff
        PROVE  Firm(told[s])
    BY NoMessageIsFirm DEF DeskInit, Firm, Stands
  <1> QED
    BY <1>1, <1>3, <1>4 DEF DeskInv

(* A step at a desk is a step of DeathSupport or leaves its tables alone.  *)
LEMMA DeskRefines == DeskInv /\ [DeskNext]_deskVars => [Next]_vars
  <1> SUFFICES ASSUME DeskInv, [DeskNext]_deskVars
               PROVE  [Next]_vars
    OBVIOUS
  <1>1. CASE \E a \in Administrators : AdministratorWork(a)
    <2>1. Next
      BY <1>1 DEF AdministratorWork, ClickReview, ClickLink, ClickPublish, ClickPublished,
                  Next, Reporting, EventWork
    <2> QED
      BY <2>1
  <1>2. CASE \E c \in Coordinators : CoordinatorWork(c)
    <2>1. Next
      BY <1>2 DEF CoordinatorWork, ClickConfirm, Next, Reporting
    <2> QED
      BY <2>1
  <1>3. CASE \/ \E s \in Staff :
                   \/ Load(s) \/ Refused(s)
                   \/ \E k \in Condolences : ClickModerate(s, k)
             \/ Visitor
    <2>1. UNCHANGED vars
      BY <1>3 DEF Load, Refused, ClickModerate, ModerateCondolence, Visitor, AddCondolence
    <2> QED
      BY <2>1
  <1>4. CASE Tick \/ Membership
    BY <1>4 DEF Next
  <1>5. CASE IntakeNext
    BY <1>5, IntakeRefines DEF DeskInv
  <1>6. CASE UNCHANGED deskVars
    BY <1>6 DEF deskVars
  <1> QED
    BY <1>1, <1>2, <1>3, <1>4, <1>5, <1>6 DEF DeskNext, DeskWork

(* The invariant of the forms, files, screens and tables. *)
THEOREM DeskInvariance == DeskSpec => []DeskInv
  BY DeskInitEstablishes, DeskNextKeeps, PTL DEF DeskSpec

(* Whatever is clicked, on screens however old, and whatever requests are  *)
(* lost half-way, reports and events behave as DeathSupport says: each     *)
(* click is one of its steps or none, so all that is proved of it holds.   *)
THEOREM DeskImplementsDeathSupport == DeskSpec => Spec
  <1>1. DeskInit => Init
    BY DEF DeskInit, IntakeInit
  <1> QED
    BY <1>1, DeskInvariance, DeskRefines, PTL DEF DeskSpec, Spec

(* In particular, with forms, old screens and lost requests in between,    *)
(* contributions stay pledges, the history tells the status, whoever is    *)
(* ACTIVE is in good standing, and the expiry job spares the deceased.     *)
THEOREM DeskKeepsPromises ==
    DeskSpec => /\ ImplementsPledges
                /\ ExpirySparesTheDeceased
                /\ [](HistoryTellsStatus /\ ActiveInGoodStanding)
  BY DeskImplementsDeathSupport, PledgesAreKept, DeathOutlastsTheJob, HistoryIsTold,
     ActiveMembersAreInGoodStanding, PTL

(* The forms, requests, screens and tables stay typed, for any number of   *)
(* reporters, staff, reports and files.                                    *)
THEOREM DeskTypeCorrect == DeskSpec => []DeskTypeOK
  <1>1. DeskInv => DeskTypeOK
    BY DEF DeskInv, IInv, IntakeInv, DeskTables, Messages, DeskTypeOK
  <1> QED
    BY <1>1, DeskInvariance, PTL

(* Wherever an upload fails, a row of evidence has its file and a file has *)
(* its row, but for those a fault left (uploadDeathReportDocument).        *)
THEOREM EvidenceOnDisk == DeskSpec => []EvidenceMatchesDisk
  <1>1. DeskInv => EvidenceMatchesDisk
    BY DEF DeskInv, IntakeInv
  <1> QED
    BY <1>1, DeskInvariance, PTL

(* A reporter is never told that a file is attached which is not, however  *)
(* many files are sent and whichever of them fails.                        *)
THEOREM WhatIsToldIsAttached == DeskSpec => []ToldIsAttached
  <1>1. ASSUME DeskInv, NEW p \in Reporters, NEW k \in form[p].told
        PROVE  k \in disk /\ evidence[k] = form[p].case /\ cases[form[p].case].status # "none"
    <2>1. Sound(p)
      BY <1>1 DEF DeskInv, IntakeInv
    <2> QED
      BY <1>1, <2>1 DEF Sound, FilesAreSound, CaseIsSound
  <1>2. DeskInv => ToldIsAttached
    BY <1>1 DEF ToldIsAttached
  <1> QED
    BY <1>2, DeskInvariance, PTL

(* What staff have been told of their decisions stays true, for any number *)
(* of people deciding at the same time from screens however old.           *)
THEOREM WhatIsToldStands == DeskSpec => []ToldStands
  <1>1. DeskInv => ToldStands
    BY DEF DeskInv, Firm, ToldStands
  <1> QED
    BY <1>1, DeskInvariance, PTL
=============================================================================
