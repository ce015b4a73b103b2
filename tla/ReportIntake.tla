---------------------------- MODULE ReportIntake ----------------------------
(***************************************************************************)
(* How a death report and its evidence reach the Foundation: the public    *)
(* form, the two routes behind it and the storage of evidence files, on    *)
(* top of DeathSupport.  A report is one transaction, but its files follow *)
(* one by one, each first as a file and then as a row, and any of these    *)
(* steps may fail or be the last before a crash.  The answer carries the   *)
(* token that alone allows to add evidence later; it may be lost.          *)
(*                                                                         *)
(* A reporter is one open form, which sends one request at a time.  A file *)
(* is named by its storage key.  The throttles are not modelled: a request *)
(* may be refused at any time.                                             *)
(***************************************************************************)
EXTENDS DeathSupport

CONSTANTS
    Reporters,
    StorageKeys,    \* storage keys, never used twice
    NoKey, NoCase,
    Nobody,         \* no member
    MaxFiles        \* bound: files sent with a report

ASSUME IntakeAssumption ==
    /\ NoKey \notin StorageKeys
    /\ NoCase \notin Reports
    /\ Nobody \notin Members \cup {Unmatched}
    /\ MaxFiles \in Nat

VARIABLES
    form,           \* what the form holds: a case and its token, files told of
    request,        \* the request of a form, as far as it has come
    disk,           \* storage keys with a file
    evidence,       \* DeathDocument.deathCaseId, by storage key
    leftover,       \* files a crash or a failing disk left behind
    unacknowledged  \* rows whose commit was reported as an error

intake == <<form, request, disk, evidence, leftover, unacknowledged>>

Steps == {"idle", "submitted", "uploading", "stored", "undo", "answered"}

(* A request: the member it is about, files still to come, the key under   *)
(* way, and what it answers.                                               *)
Request(step, choice, left, key, case, docs) ==
    [step |-> step, choice |-> choice, left |-> left, key |-> key, case |-> case, docs |-> docs]

NoRequest == Request("idle", Nobody, 0, NoKey, NoCase, {})

BlankForm == [case |-> NoCase, told |-> {}]

IntakeInit ==
    /\ Init
    /\ form = [p \in Reporters |-> BlankForm]
    /\ request = [p \in Reporters |-> NoRequest]
    /\ disk = {}
    /\ evidence = [k \in StorageKeys |-> NoCase]
    /\ leftover = {}
    /\ unacknowledged = {}

-----------------------------------------------------------------------------
(* The form. *)

(* A search found the member, who could be reported as far as it tells; or *)
(* it found nobody, or needs a sign-in the reporter does not have.         *)
Selectable(m) == m # Unmatched => CanBeReported(m)

(* A new report drops the token of an earlier one.                         *)
SubmitForm(p, m, files) ==
    /\ request[p].step = "idle"
    /\ Selectable(m)
    /\ request' = [request EXCEPT ![p] = Request("submitted", m, files, NoKey, NoCase, {})]
    /\ form' = [form EXCEPT ![p] = BlankForm]
    /\ UNCHANGED <<vars, disk, evidence, leftover, unacknowledged>>

UploadAdditionalEvidence(p) ==
    /\ request[p].step = "idle"
    /\ form[p].case # NoCase
    /\ request' = [request EXCEPT ![p] = Request("uploading", Nobody, 1, NoKey, form[p].case, {})]
    /\ UNCHANGED <<vars, form, disk, evidence, leftover, unacknowledged>>

-----------------------------------------------------------------------------
(* The routes. *)

(* Wrong variant: one file more than there are. *)
ContinueTooFar(p, left, case, docs) ==
    request' = [request EXCEPT ![p] =
        Request(IF left < 0 THEN "answered" ELSE "uploading", Nobody, left, NoKey, case, docs)]

Continue(p, left, case, docs) ==
    request' = [request EXCEPT ![p] =
        Request(IF left = 0 THEN "answered" ELSE "uploading", Nobody, left, NoKey, case, docs)]

(* Wrong variant: the file that failed is answered, too. *)
AnswerTried(p) ==
    request' = [request EXCEPT ![p] =
        Request("answered", Nobody, 0, NoKey, @.case, @.docs \cup ({@.key} \ {NoKey}))]

(* Whatever fails from here on, what has been attached is answered.        *)
Answer(p) ==
    request' = [request EXCEPT ![p] = Request("answered", Nobody, 0, NoKey, @.case, @.docs)]

ReceiveReport(p, r, dod) ==
    /\ request[p].step = "submitted"
    /\ SubmitDeathReport(r, request[p].choice, dod)
    /\ Continue(p, request[p].left, r, {})
    /\ UNCHANGED <<form, disk, evidence, leftover, unacknowledged>>

(* A duplicate, an invalid form or file, or too many requests.             *)
RefuseReport(p) ==
    /\ request[p].step = "submitted"
    /\ Answer(p)
    /\ UNCHANGED <<vars, form, disk, evidence, leftover, unacknowledged>>

FreshKey(k) ==
    k \notin disk /\ evidence[k] = NoCase /\ \A p \in Reporters : request[p].key # k

(* storeDeathEvidence *)
StoreEvidence(p, k) ==
    /\ request[p].step = "uploading"
    /\ FreshKey(k)
    /\ disk' = disk \cup {k}
    /\ request' = [request EXCEPT ![p].step = "stored", ![p].key = k]
    /\ UNCHANGED <<vars, form, evidence, leftover, unacknowledged>>

(* The contents are not what the file claims, or the disk fails, perhaps   *)
(* half-way: nobody removes what it wrote.                                 *)
StoreFails(p, k) ==
    /\ request[p].step = "uploading"
    /\ FreshKey(k)
    /\ \/ UNCHANGED <<disk, leftover>>
       \/ disk' = disk \cup {k} /\ leftover' = leftover \cup {k}
    /\ Answer(p)
    /\ UNCHANGED <<vars, form, evidence, unacknowledged>>

AttachEvidence(p) == evidence' = [evidence EXCEPT ![request[p].key] = request[p].case]

(* uploadDeathReportDocument: the row, in a transaction of its own.        *)
InsertEvidence(p) ==
    /\ request[p].step = "stored"
    /\ AttachEvidence(p)
    /\ Continue(p, request[p].left - 1, request[p].case, request[p].docs \cup {request[p].key})
    /\ UNCHANGED <<vars, form, disk, leftover, unacknowledged>>

(* The transaction fails; or it commits and only the answer fails.         *)
InsertFails(p) ==
    /\ request[p].step = "stored"
    /\ \/ UNCHANGED <<evidence, unacknowledged>>
       \/ AttachEvidence(p) /\ unacknowledged' = unacknowledged \cup {request[p].key}
    /\ request' = [request EXCEPT ![p].step = "undo"]
    /\ UNCHANGED <<vars, form, disk, leftover>>

(* Wrong variant: nothing is removed. *)
KeepEvidence(p) ==
    /\ request[p].step = "undo"
    /\ Answer(p)
    /\ UNCHANGED <<vars, form, disk, evidence, leftover, unacknowledged>>

(* removeDeathEvidence, which may fail, too. *)
RemoveEvidence(p) ==
    /\ request[p].step = "undo"
    /\ \/ disk' = disk \ {request[p].key} /\ UNCHANGED leftover
       \/ leftover' = leftover \cup {request[p].key} /\ UNCHANGED disk
    /\ Answer(p)
    /\ UNCHANGED <<vars, form, evidence, unacknowledged>>

(* The form takes the token, the case and its files from the answer.       *)
ShowAnswer(p) ==
    LET answer == request[p] IN
    /\ answer.step = "answered"
    /\ form' = IF answer.case = NoCase THEN form
               ELSE [form EXCEPT ![p] =
                        [case |-> answer.case, told |-> @.told \cup answer.docs]]
    /\ request' = [request EXCEPT ![p] = NoRequest]
    /\ UNCHANGED <<vars, disk, evidence, leftover, unacknowledged>>

(* The server dies, or its answer is lost: the form only says that it      *)
(* could not submit.                                                       *)
LoseRequest(p) ==
    /\ request[p].step # "idle"
    /\ leftover' = IF request[p].key \in disk /\ evidence[request[p].key] = NoCase
                   THEN leftover \cup {request[p].key} ELSE leftover
    /\ request' = [request EXCEPT ![p] = NoRequest]
    /\ UNCHANGED <<vars, form, disk, evidence, unacknowledged>>

Reporter(p) ==
    \/ \E m \in Members \cup {Unmatched}, files \in 0 .. MaxFiles : SubmitForm(p, m, files)
    \/ UploadAdditionalEvidence(p)
    \/ ShowAnswer(p)
    \/ LoseRequest(p)

Routes(p) ==
    \/ \E r \in Reports, dod \in Time : ReceiveReport(p, r, dod)
    \/ RefuseReport(p)
    \/ \E k \in StorageKeys : StoreEvidence(p, k) \/ StoreFails(p, k)
    \/ InsertEvidence(p)
    \/ InsertFails(p)
    \/ RemoveEvidence(p)

IntakeNext == \E p \in Reporters : Reporter(p) \/ Routes(p)
-----------------------------------------------------------------------------
(* Properties. *)

IntakeTypeOK ==
    /\ form \in [Reporters -> [case : Reports \cup {NoCase}, told : SUBSET StorageKeys]]
    /\ request \in [Reporters -> [step : Steps, choice : Members \cup {Unmatched, Nobody},
                                  left : 0 .. MaxFiles + 1,
                                  key : StorageKeys \cup {NoKey},
                                  case : Reports \cup {NoCase},
                                  docs : SUBSET StorageKeys]]
    /\ disk \subseteq StorageKeys
    /\ evidence \in [StorageKeys -> Reports \cup {NoCase}]
    /\ leftover \subseteq disk
    /\ unacknowledged \subseteq StorageKeys

(* Rows and files agree: evidence a reviewer is offered has its file, and  *)
(* a file without a row is one whose upload is under way, unless a fault   *)
(* in between left it (the clean-up of uploadDeathReportDocument).         *)
EvidenceMatchesDisk ==
    /\ \A k \in StorageKeys \ unacknowledged : evidence[k] # NoCase => k \in disk
    /\ \A k \in disk \ leftover :
          evidence[k] # NoCase \/ \E p \in Reporters : request[p].key = k

(* What the form tells a reporter is attached is attached to the report    *)
(* whose token it holds, also after an upload of several files failed      *)
(* half-way and was continued with the token.                              *)
ToldIsAttached ==
    \A p \in Reporters : \A k \in form[p].told :
        k \in disk /\ evidence[k] = form[p].case /\ cases[form[p].case].status # "none"
=============================================================================
