--------------------------- MODULE MCOperatorDesk ---------------------------
(***************************************************************************)
(* The four queues of the operators' desk.  They share no document, so one *)
(* behaviour is a behaviour of one of them: `queue' says of which, and the *)
(* others stand still.                                                     *)
(***************************************************************************)
EXTENDS PrivacyRequest, LegalRequest, SecurityIncident, ContentReports, TLC

CONSTANTS w1, w2, m1, m2, m3, a1, a2

VARIABLE queue

\* There is a version for an incident to begin prepared with.
ASSUME PreparedAssumption == MaxVersion # 0

deskVars == <<vars, legalVars, incidentVars, reportsVars, queue>>

MCSymmetry == Permutations({w1, w2}) \cup Permutations({m1, m2, m3}) \cup Permutations({a1, a2})

\* An incident whose notification has been prepared, with nobody told yet.
Prepared ==
  [NoIncident EXCEPT !.status = "open", !.revision = 5, !.aware = TRUE,
     !.classification = "breach_confirmed", !.authority = "not_required",
     !.authorityException = TRUE, !.subject = "required", !.version = 1,
     !.notification = "prepared"]

PreparedInit ==
  /\ incident = Prepared
  /\ snapshot = [v \in Versions |-> [to |-> Subjects, life |-> "dated"]]
  /\ notice = [n \in Notices |-> NoNotice]
  /\ noticeKey = [r \in Subjects |-> [v \in Versions |-> "none"]]
  /\ reached = {}
  /\ lapsed = {}

NoReports == [i \in Reports |-> "none"]

DeskInit ==
  /\ queue \in {"privacy", "legal", "incidents", "reports"}
  /\ Init
  /\ queue # "privacy" => channel = "account"
  /\ LegalInit
  /\ IF queue = "incidents" THEN IncidentInit \/ PreparedInit ELSE IncidentInit
  /\ ReportsInit
  /\ queue # "reports" => report = NoReports

Only(q) ==
  /\ queue = q
  /\ UNCHANGED queue
  /\ q # "privacy"   => UNCHANGED vars
  /\ q # "legal"     => UNCHANGED legalVars
  /\ q # "incidents" => UNCHANGED incidentVars
  /\ q # "reports"   => UNCHANGED reportsVars

\* The early decisions about an incident are taken from its creation on, two of
\* them at most; the later ones from the prepared one on.
EarlyOrPrepared == incident.revision < 2 \/ incident.revision >= 5

DeskNext ==
  \/ Only("privacy")   /\ Next
  \/ Only("legal")     /\ LegalNext
  \/ Only("incidents") /\ IncidentNext
  \/ Only("reports")   /\ ReportsNext

DeskSpec == DeskInit /\ [][DeskNext]_deskVars

\* The documents of every queue are well formed, and the incidents' notices hold.
DeskHolds == TypeOK /\ LegalTypeOK /\ ReportsTypeOK /\ NoticesHold
=============================================================================
