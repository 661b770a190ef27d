---------------------------- MODULE ContentReports ----------------------------
(***************************************************************************)
(* Reports about content, and the queue in which operators read them page  *)
(* by page (readOperatorPage, which the other queues of the operators use  *)
(* as well).  Reports are in the order of their document ids, which the    *)
(* clients choose: a new one may come anywhere.                            *)
(***************************************************************************)
EXTENDS Naturals, FiniteSets

CONSTANTS LastReport,   \* reports are 1 .. LastReport, in the order of their ids
          PageSize,     \* 100
          ScanPages,    \* a request reads at most so many pages: 5
          ReportLimit,  \* reports per window
          MaxChanges    \* bound on the changes while the queue is read

ASSUME ReportsAssumption ==
  /\ LastReport \in Nat /\ PageSize \in Nat \ {0} /\ ScanPages \in Nat \ {0}
  /\ ReportLimit \in Nat /\ MaxChanges \in Nat

VARIABLES
  report,   \* contentReports: the status of each
  bucket,   \* rateLimitBuckets: reports of the current window
  reading,  \* the operator's walk through the queue
  listed,   \* history: how often each report was shown during the walk
  lasting,  \* history: reports due for review all through it
  changes   \* bounded

reportsVars == <<report, bucket, reading, listed, lasting, changes>>

Reports == 1 .. LastReport
Expired == {"expired", "gone"}
Pending(i) == report[i] \in {"open", "in_review", "resolved"}   \* dueOnly, not expired
There      == {i \in Reports : report[i] \notin {"none", "gone"}}

Unread == [pc |-> "idle", after |-> 0, scanned |-> 0, found |-> 0]

ReportsInit ==
  /\ report \in [Reports -> {"none", "open", "closed"}]
  /\ bucket = 0
  /\ reading = Unread
  /\ listed = [i \in Reports |-> 0]
  /\ lasting = {}
  /\ changes = 0

Change(i, status) ==
  /\ changes < MaxChanges /\ changes' = changes + 1
  /\ report' = [report EXCEPT ![i] = status]
  /\ lasting' = IF status \in {"in_review", "resolved"} THEN lasting ELSE lasting \ {i}

-----------------------------------------------------------------------------
(* create, transitionStatus *)

\* A submission that is repeated finds its report, whatever has become of it.
CreateReport(i) ==
  /\ report[i] \in {"none", "gone"}
  /\ bucket < ReportLimit
  /\ bucket' = bucket + 1
  /\ Change(i, "open")
  /\ UNCHANGED <<reading, listed>>

WindowEnds ==
  /\ bucket > 0
  /\ bucket' = 0
  /\ UNCHANGED <<report, reading, listed, lasting, changes>>

IsAllowedTransition(from, to) ==
  <<from, to>> \in {<<"open", "in_review">>, <<"in_review", "resolved">>, <<"resolved", "closed">>}

TransitionReport(i, to) ==
  /\ IsAllowedTransition(report[i], to)
  /\ Change(i, to)
  /\ UNCHANGED <<bucket, reading, listed>>

\* Thirty days after it was made; the purge or Firestore's TTL removes it later.
ReportExpires(i) ==
  /\ report[i] \notin {"none"} \cup Expired
  /\ Change(i, "expired")
  /\ UNCHANGED <<bucket, reading, listed>>

RemoveReport(i) ==
  /\ report[i] = "expired"
  /\ Change(i, "gone")
  /\ UNCHANGED <<bucket, reading, listed>>

-----------------------------------------------------------------------------
(* readOperatorPage: a walk is a series of requests, each of which scans pages *)
(* until it has PageSize reports to show, or has read ScanPages pages.        *)

StartWalk ==
  /\ reading.pc = "idle"
  /\ reading' = [Unread EXCEPT !.pc = "scan"]
  /\ listed' = [i \in Reports |-> 0]
  /\ lasting' = {i \in Reports : Pending(i)}
  /\ UNCHANGED <<report, bucket, changes>>

\* The documents of the next query: the first PageSize behind the cursor.
Page == {i \in There : i > reading.after /\
                       Cardinality({j \in There : reading.after < j /\ j <= i}) <= PageSize}

\* Those it looks at: it stops when it has enough to show.
Looked == {i \in Page : reading.found + Cardinality({j \in Page : Pending(j) /\ j < i}) < PageSize}

Highest(s) == CHOOSE i \in s : \A j \in s : j <= i

\* A page that was not full ends the collection, if all of it was looked at.
AtTheEnd == Cardinality(Page) < PageSize /\ Looked = Page

\* Where the next query begins.  A slip: behind the page, looked at or not.
NextAfter_EndOfPage == Highest(Page)
NextAfter           == Highest(Looked)

Scan ==
  /\ reading.pc = "scan" /\ reading.scanned < ScanPages * PageSize /\ reading.found < PageSize
  /\ IF Page = {}
       THEN reading' = [reading EXCEPT !.pc = "ended"] /\ UNCHANGED listed
       ELSE /\ reading' = [pc      |-> IF AtTheEnd THEN "ended" ELSE "scan",
                           after   |-> NextAfter,
                           scanned |-> reading.scanned + Cardinality(Looked),
                           found   |-> reading.found + Cardinality({i \in Looked : Pending(i)})]
            /\ listed' = [i \in Reports |-> IF i \in Looked /\ Pending(i) THEN listed[i] + 1 ELSE listed[i]]
  /\ UNCHANGED <<report, bucket, lasting, changes>>

\* The loop is over; one more query tells whether there is a next cursor.
NextCursor ==
  /\ reading.pc = "scan"
  /\ reading.scanned >= ScanPages * PageSize \/ reading.found >= PageSize
  /\ reading' = IF \E i \in There : i > reading.after
                  THEN [Unread EXCEPT !.pc = "scan", !.after = reading.after]
                  ELSE [reading EXCEPT !.pc = "ended"]
  /\ UNCHANGED <<report, bucket, listed, lasting, changes>>

EndWalk ==
  /\ reading.pc = "ended"
  /\ reading' = Unread
  /\ UNCHANGED <<report, bucket, listed, lasting, changes>>

ReportsNext ==
  \/ \E i \in Reports : \/ CreateReport(i) \/ ReportExpires(i) \/ RemoveReport(i)
                       \/ \E s \in {"in_review", "resolved", "closed"} : TransitionReport(i, s)
  \/ WindowEnds
  \/ StartWalk \/ Scan \/ NextCursor \/ EndWalk

ReportsSpec == ReportsInit /\ [][ReportsNext]_reportsVars

-----------------------------------------------------------------------------
(* Correctness *)

\* Every part is well formed.
ReportsTypeOK ==
  /\ report \in [Reports -> {"none", "open", "in_review", "resolved", "closed"} \cup Expired]
  /\ bucket \in 0 .. ReportLimit
  /\ reading \in [pc : {"idle", "scan", "ended"}, after : 0 .. LastReport, scanned : Nat, found : Nat]
  /\ listed \in [Reports -> Nat]
  /\ lasting \subseteq Reports
  /\ changes \in 0 .. MaxChanges

\* Pages read one after the other show no report twice, and when the last one
\* says that nothing follows, none that was due all the while was left out,
\* whatever came and went in between.
WalkShowsEverything ==
  /\ \A i \in Reports : listed[i] <= 1
  /\ reading.pc = "ended" => \A i \in lasting : listed[i] = 1
=============================================================================
