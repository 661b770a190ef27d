--------------------------- MODULE SecurityIncident ---------------------------
(***************************************************************************)
(* One security incident: its assessment, the decisions about the          *)
(* authority and about the people concerned, the notices sent to them one  *)
(* by one, and the documents around it, which expire thirty days after     *)
(* they were written unless a legal hold keeps them.  Firestore's TTL      *)
(* collects them one at a time and in any order.                           *)
(*                                                                         *)
(* Every action carries the revision its operator has seen and is refused  *)
(* if it has moved, so that an action reads the state it changes.          *)
(***************************************************************************)
EXTENDS Naturals, FiniteSets

CONSTANTS Subjects,        \* people concerned
          Notices,         \* deliveries; each is also the request that sends it
          Nobody,
          MaxVersion,      \* bound on the snapshots of the notification
          MaxIncidentRev   \* bound on the revision

ASSUME IncidentAssumption ==
  /\ IsFiniteSet(Subjects) /\ Nobody \notin Subjects
  /\ MaxVersion \in Nat /\ MaxIncidentRev \in Nat

VARIABLES
  incident,  \* securityIncidents/{id}
  snapshot,  \* the prepared notifications: whom they name, and their expiry
  notice,    \* securityIncidentDeliveries, with the request that sends each
  noticeKey, \* securityIncidentDeliveryKeys, by recipient and version
  reached,   \* history: notices the mail server took, or an operator vouches for
  lapsed     \* history: recipients and versions whose key was collected

incidentVars == <<incident, snapshot, notice, noticeKey, reached, lapsed>>

Versions  == 1 .. MaxVersion
\* none; no expiresAt; one that lies ahead; one that has passed; the archive's.
Life      == {"none", "kept", "dated", "due", "archived", "gone"}
Decisions == {"undecided", "required", "not_required"}

Incident ==
  [status : {"none", "open", "closed"}, revision : Nat, aware : BOOLEAN,
   classification : {"triage", "breach_confirmed", "not_a_breach"},
   authority : Decisions, authorityException : BOOLEAN, exported : BOOLEAN, submitted : BOOLEAN,
   subject : Decisions, subjectException : BOOLEAN, version : 0 .. MaxVersion,
   notification : {"not_started", "prepared", "pending", "sent", "failed", "unknown"},
   hold : BOOLEAN]

NoIncident ==
  [status |-> "none", revision |-> 0, aware |-> FALSE, classification |-> "triage",
   authority |-> "undecided", authorityException |-> FALSE, exported |-> FALSE, submitted |-> FALSE,
   subject |-> "undecided", subjectException |-> FALSE, version |-> 0,
   notification |-> "not_started", hold |-> FALSE]

NoNotice == [status |-> "none", to |-> Nobody, version |-> 0, life |-> "none",
             pc |-> "idle", outcome |-> "unknown"]

IncidentStart(first) ==
  /\ incident = first
  /\ snapshot = [v \in Versions |-> [to |-> {}, life |-> "none"]]
  /\ notice = [n \in Notices |-> NoNotice]
  /\ noticeKey = [r \in Subjects |-> [v \in Versions |-> "none"]]
  /\ reached = {}
  /\ lapsed = {}

IncidentInit == IncidentStart(NoIncident)

Lives(life) == life \notin {"none", "gone"}
\* What a new document's expiresAt is.
NewLife     == IF incident.hold THEN "kept" ELSE "dated"

-----------------------------------------------------------------------------
(* applyAction *)

Act(r) ==
  /\ incident.revision < MaxIncidentRev
  /\ incident' = [r EXCEPT !.revision = incident.revision + 1]

OpenAct(r) == incident.status = "open" /\ Act(r)

CreateIncident ==
  /\ incident.status = "none"
  /\ incident' = [incident EXCEPT !.status = "open"]
  /\ UNCHANGED <<snapshot, notice, noticeKey, reached, lapsed>>

AcknowledgeAwareness ==
  /\ ~incident.aware
  /\ OpenAct([incident EXCEPT !.aware = TRUE])
  /\ UNCHANGED <<snapshot, notice, noticeKey, reached, lapsed>>

Classify(c) ==
  /\ OpenAct([incident EXCEPT !.classification = c])
  /\ UNCHANGED <<snapshot, notice, noticeKey, reached, lapsed>>

CorrectAssessment ==
  /\ OpenAct(incident)
  /\ UNCHANGED <<snapshot, notice, noticeKey, reached, lapsed>>

DecideAuthority(d, exception) ==
  /\ OpenAct([incident EXCEPT !.authority = d, !.authorityException = exception])
  /\ UNCHANGED <<snapshot, notice, noticeKey, reached, lapsed>>

PrepareAuthorityExport ==
  /\ incident.authority = "required"
  /\ OpenAct([incident EXCEPT !.exported = TRUE])
  /\ UNCHANGED <<snapshot, notice, noticeKey, reached, lapsed>>

RecordAuthoritySubmission ==
  /\ incident.authority = "required" /\ incident.exported
  /\ OpenAct([incident EXCEPT !.submitted = TRUE])
  /\ UNCHANGED <<snapshot, notice, noticeKey, reached, lapsed>>

DecideSubject(d, exception) ==
  /\ OpenAct([incident EXCEPT !.subject = d, !.subjectException = exception])
  /\ UNCHANGED <<snapshot, notice, noticeKey, reached, lapsed>>

PrepareNotification(people) ==
  LET v == incident.version + 1
  IN  /\ incident.subject = "required" /\ v \in Versions
      /\ OpenAct([incident EXCEPT !.version = v, !.notification = "prepared"])
      /\ snapshot' = [snapshot EXCEPT ![v] = [to |-> people, life |-> NewLife]]
      /\ UNCHANGED <<notice, noticeKey, reached, lapsed>>

Current(n) == notice[n].status # "none" /\ notice[n].version = incident.version

\* A delivery that has been pending for fifteen minutes is called unknown.
ReconcileNotifications(old) ==
  /\ \A n \in old : Current(n) /\ notice[n].status = "pending"
  /\ OpenAct([incident EXCEPT !.notification = "unknown"])
  /\ notice' = [n \in Notices |-> IF n \in old THEN [notice[n] EXCEPT !.status = "unknown"]
                                  ELSE notice[n]]
  /\ UNCHANGED <<snapshot, noticeKey, reached, lapsed>>

ResolveUnknown(n, outcome) ==
  /\ notice[n].status = "unknown"
  /\ OpenAct([incident EXCEPT !.notification = outcome])
  /\ notice' = [notice EXCEPT ![n].status = outcome]
  /\ reached' = IF outcome = "sent" THEN reached \cup {n} ELSE reached
  /\ UNCHANGED <<snapshot, noticeKey, lapsed>>

\* setArtifactsHold and setRetentionOnClose: what becomes of the expiry of the
\* documents that are there.
All(life)     == [l \in Life |-> IF Lives(l) THEN life ELSE l]
Untouched     == [l \in Life |-> l]
SetLives(ofSnapshot, ofNotice, ofKey) ==
  /\ snapshot' = [v \in Versions |-> [snapshot[v] EXCEPT !.life = ofSnapshot[@]]]
  /\ notice' = [n \in Notices |-> [notice[n] EXCEPT !.life = ofNotice[@]]]
  /\ noticeKey' = [r \in Subjects |-> [v \in Versions |-> ofKey[noticeKey[r][v]]]]

\* A slip: the keys are left to their expiry.
HoldsKeys_Not == Untouched
HoldsKeys     == All("kept")

HoldIncident ==
  /\ incident.status # "none" /\ ~incident.hold
  /\ Act([incident EXCEPT !.hold = TRUE])
  /\ SetLives(All("kept"), All("kept"), HoldsKeys)
  /\ UNCHANGED <<reached, lapsed>>

\* The evidence of a breach is archived with it, the rest is dated anew.
Evidence == IF incident.classification = "breach_confirmed" THEN "archived" ELSE "dated"

ReleaseIncident ==
  LET closed == incident.status = "closed"
      Proof  == IF closed THEN All(Evidence) ELSE Untouched
      Others == IF closed THEN All("dated") ELSE Untouched
  IN  /\ incident.hold
      /\ Act([incident EXCEPT !.hold = FALSE])
      /\ SetLives(Proof, Others, Others)
      /\ UNCHANGED <<reached, lapsed>>

ReviewIncident ==
  /\ incident.status = "closed" \/ incident.hold
  /\ Act(incident)
  /\ UNCHANGED <<snapshot, notice, noticeKey, reached, lapsed>>

AuthorityComplete ==
  IF incident.authority = "not_required" THEN incident.authorityException
  ELSE incident.authority = "required" /\ incident.submitted

\* As many deliveries of the current version as it names people, all of them
\* sent.  A slip: the aggregate, which the last outcome overwrites.
SubjectsNotified_Aggregate == incident.notification = "sent"
SubjectsNotified ==
  LET current == {n \in Notices : Current(n)}
      v       == incident.version
  IN  /\ v \in Versions /\ Lives(snapshot[v].life)
      /\ Cardinality(current) = Cardinality(snapshot[v].to)
      /\ \A n \in current : notice[n].status = "sent"

SubjectComplete ==
  CASE incident.subject = "not_required" -> incident.subjectException
    [] incident.subject = "required"     -> SubjectsNotified
    [] OTHER                             -> FALSE

\* That containment, remediation and post-mortem must be written down as well is left
\* out: here an incident may be closed sooner, never later.
CloseIncident ==
  LET Proof  == All(IF incident.hold THEN "kept" ELSE Evidence)
      Others == All(IF incident.hold THEN "kept" ELSE "dated")
  IN  /\ incident.aware /\ incident.classification # "triage"
      /\ AuthorityComplete /\ SubjectComplete
      /\ OpenAct([incident EXCEPT !.status = "closed"])
      /\ SetLives(Proof, Others, Others)
      /\ UNCHANGED <<reached, lapsed>>

-----------------------------------------------------------------------------
(* sendSubjectNotification and finishDelivery *)

\* A slip: the key of an earlier attempt is not looked at.
NotAttempted_Unchecked(r) == TRUE
NotAttempted(r)           == ~Lives(noticeKey[r][incident.version])

StageNotice(n, r) ==
  LET v == incident.version
  IN  /\ notice[n] = NoNotice
      /\ incident.subject = "required" /\ v \in Versions
      /\ Lives(snapshot[v].life) /\ r \in snapshot[v].to /\ NotAttempted(r)
      /\ OpenAct([incident EXCEPT !.notification = "pending"])
      /\ notice' = [notice EXCEPT ![n] = [NoNotice EXCEPT !.status = "pending", !.to = r,
                                            !.version = v, !.life = NewLife, !.pc = "send"]]
      /\ noticeKey' = [noticeKey EXCEPT ![r][v] = NewLife]
      /\ UNCHANGED <<snapshot, reached, lapsed>>

SendNotice(n, outcome) ==
  /\ notice[n].pc = "send"
  /\ notice' = [notice EXCEPT ![n].pc = "finish", ![n].outcome = outcome]
  /\ reached' \in CASE outcome = "sent"    -> {reached \cup {n}}
                    [] outcome = "failed"  -> {reached}
                    [] outcome = "unknown" -> {reached, reached \cup {n}}
  /\ UNCHANGED <<incident, snapshot, noticeKey, lapsed>>

Aggregate(statuses) ==
  CASE "unknown" \in statuses  -> "unknown"
    [] "unknown" \notin statuses /\ "failed" \in statuses -> "failed"
    [] statuses = {"sent"}     -> "sent"
    [] OTHER                   -> "pending"

FinishDelivery(n) ==
  LET d       == notice[n]
      current == incident.subject = "required" /\ incident.status = "open" /\ Current(n)
      others  == {m \in Notices \ {n} : notice[m].status # "none" /\ notice[m].version = d.version}
  IN  /\ d.pc = "finish"
      /\ CASE d.status # "pending" ->
                notice' = [notice EXCEPT ![n].pc = "done"] /\ UNCHANGED incident
           [] d.status = "pending" /\ ~current ->
                /\ notice' = [notice EXCEPT ![n].pc = "done", ![n].status = "superseded"]
                /\ UNCHANGED incident
           [] d.status = "pending" /\ current ->
                /\ notice' = [notice EXCEPT ![n].pc = "done", ![n].status = d.outcome]
                /\ Act([incident EXCEPT !.notification =
                          Aggregate({d.outcome} \cup {notice[m].status : m \in others})])
      /\ UNCHANGED <<snapshot, noticeKey, reached, lapsed>>

\* The first transaction failed although the mail was sent: it is repeated with
\* an outcome that is not known.
FinishAgain(n) ==
  /\ notice[n].pc = "finish" /\ notice[n].outcome = "sent"
  /\ notice' = [notice EXCEPT ![n].outcome = "unknown"]
  /\ UNCHANGED <<incident, snapshot, noticeKey, reached, lapsed>>

DropNotice(n) ==
  /\ notice[n].pc \in {"send", "finish"}
  /\ notice' = [notice EXCEPT ![n].pc = "done"]
  /\ UNCHANGED <<incident, snapshot, noticeKey, reached, lapsed>>

-----------------------------------------------------------------------------
(* Thirty days pass; Firestore's TTL *)

MonthPasses ==
  LET Due == [Untouched EXCEPT !["dated"] = "due"]
  IN  /\ \/ \E v \in Versions : snapshot[v].life = "dated"
         \/ \E n \in Notices : notice[n].life = "dated"
         \/ \E r \in Subjects, v \in Versions : noticeKey[r][v] = "dated"
      /\ \A n \in Notices : notice[n].pc \in {"idle", "done"}
      /\ SetLives(Due, Due, Due)
      /\ UNCHANGED <<incident, reached, lapsed>>

CollectSnapshot(v) ==
  /\ snapshot[v].life = "due"
  /\ snapshot' = [snapshot EXCEPT ![v].life = "gone"]
  /\ UNCHANGED <<incident, notice, noticeKey, reached, lapsed>>

CollectNotice(n) ==
  /\ notice[n].life = "due"
  /\ notice' = [notice EXCEPT ![n] = [NoNotice EXCEPT !.life = "gone"]]
  /\ UNCHANGED <<incident, snapshot, noticeKey, reached, lapsed>>

CollectKey(r, v) ==
  /\ noticeKey[r][v] = "due"
  /\ noticeKey' = [noticeKey EXCEPT ![r][v] = "gone"]
  /\ lapsed' = lapsed \cup {<<r, v>>}
  /\ UNCHANGED <<incident, snapshot, notice, reached>>

IncidentNext ==
  \/ CreateIncident \/ AcknowledgeAwareness \/ CorrectAssessment
  \/ \E c \in {"triage", "breach_confirmed", "not_a_breach"} : Classify(c)
  \/ \E d \in Decisions \ {"undecided"}, e \in BOOLEAN : DecideAuthority(d, e) \/ DecideSubject(d, e)
  \/ PrepareAuthorityExport \/ RecordAuthoritySubmission
  \/ \E people \in SUBSET Subjects \ {{}} : PrepareNotification(people)
  \/ \E old \in SUBSET Notices : ReconcileNotifications(old)
  \/ \E n \in Notices, o \in {"sent", "failed"} : ResolveUnknown(n, o)
  \/ HoldIncident \/ ReleaseIncident \/ ReviewIncident \/ CloseIncident
  \/ \E n \in Notices, r \in Subjects : StageNotice(n, r)
  \/ \E n \in Notices, o \in {"sent", "failed", "unknown"} : SendNotice(n, o)
  \/ \E n \in Notices : FinishDelivery(n) \/ FinishAgain(n) \/ DropNotice(n) \/ CollectNotice(n)
  \/ MonthPasses
  \/ \E v \in Versions : CollectSnapshot(v) \/ \E r \in Subjects : CollectKey(r, v)

IncidentSpec == IncidentInit /\ [][IncidentNext]_incidentVars

-----------------------------------------------------------------------------
(* Correctness *)

\* The incident and its documents are well formed.
IncidentTypeOK ==
  /\ incident \in Incident
  /\ snapshot \in [Versions -> [to : SUBSET Subjects, life : Life]]
  /\ notice \in [Notices ->
       [status : {"none", "pending", "sent", "failed", "unknown", "superseded"},
        to : Subjects \cup {Nobody}, version : 0 .. MaxVersion, life : Life,
        pc : {"idle", "send", "finish", "done"}, outcome : {"sent", "failed", "unknown"}]]
  /\ noticeKey \in [Subjects -> [Versions -> Life]]
  /\ reached \subseteq Notices
  /\ lapsed \subseteq Subjects \X Versions

\* Nobody is sent a version of the notification twice, unless the thirty days
\* of the earlier delivery were over; while the incident is held they never are.
NoticeSentOnce ==
  \A m, n \in Notices :
    /\ m # n /\ notice[m].status # "none" /\ notice[n].status # "none"
    /\ notice[m].to = notice[n].to /\ notice[m].version = notice[n].version
    => <<notice[n].to, notice[n].version>> \in lapsed

\* An incident whose people had to be told is closed only when each person the
\* current version names was reached by it: the mail server took the mail, or
\* an operator vouches for it.  Excepted is a version whose keys began to expire.
ClosedMeansNotified ==
  [][incident.status = "open" /\ incident'.status = "closed" /\ incident.subject = "required" =>
       \A r \in snapshot[incident.version].to :
         \/ \E n \in reached : Current(n) /\ notice[n].to = r
         \/ \E s \in Subjects : <<s, incident.version>> \in lapsed]_incidentVars

\* While the incident is held, no snapshot, notice or key of its is on its way out.
\* Its audit is not spoken of here: a review dates its own entry (DeskAudit).
HeldDocumentsStay ==
  incident.hold =>
    /\ \A v \in Versions : snapshot[v].life \notin {"dated", "due", "archived"}
    /\ \A n \in Notices : notice[n].life \notin {"dated", "due"}
    /\ \A r \in Subjects, v \in Versions : noticeKey[r][v] \notin {"dated", "due"}

\* Nobody is told twice, and a hold keeps every notice and key that says who was told.
NoticesHold == IncidentTypeOK /\ NoticeSentOnce /\ HeldDocumentsStay
=============================================================================
