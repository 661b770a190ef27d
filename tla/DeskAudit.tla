------------------------------- MODULE DeskAudit -------------------------------
(***************************************************************************)
(* When the audit entries of a case expire.  A case of the privacy desk    *)
(* looks its entries up and dates them after it is closed, in calls of     *)
(* their own; one of the incidents desk dates them in the transaction that *)
(* closes, holds or releases it.  Operators read the case meanwhile, and   *)
(* each reading leaves an entry, which the privacy desk dates by what it   *)
(* read before, and everyone else by what the entry's own transaction      *)
(* reads.  Some entries are never dated by who writes them: those of a     *)
(* guest's code and of a mail that has ended; and a review dates its own   *)
(* although the case is held.                                              *)
(*                                                                         *)
(* A dated entry has an expiresAt, which Firestore's TTL acts on; without  *)
(* one it stays: the TTL of the case does not reach its subcollection.     *)
(* LegalRequest has the entries of the legal desk.                         *)
(***************************************************************************)
EXTENDS Naturals

CONSTANTS Clerks, LastEntry, MaxHolds   \* the last two are bounds

ASSUME AuditAssumption == LastEntry \in Nat /\ MaxHolds \in Nat

VARIABLES
  kind,     \* the desk: "privacy" or "incidents"
  docket,   \* the case: closed, on legal hold, holds so far; history: unaligned, a closing died before it dated the entries
  trail,    \* its audit: each entry dated or not; history: open, its writer had read the case before it was closed,
            \* late, one that its writer never dates, written after it; review, of a held case's review
  clerk     \* handlers

auditVars == <<kind, docket, trail, clerk>>

NoEntry == [there |-> FALSE, dated |-> FALSE, from |-> "none"]
Off     == [pc |-> "off", dates |-> FALSE, listed |-> {}]

AuditInit ==
  /\ kind \in {"privacy", "incidents"}
  /\ docket = [closed |-> FALSE, hold |-> FALSE, holds |-> 0, unaligned |-> FALSE]
  /\ trail = [e \in 1 .. LastEntry |-> NoEntry]
  /\ clerk = [c \in Clerks |-> Off]

Present       == {e \in 1 .. LastEntry : trail[e].there}
NextEntry     == CHOOSE e \in 1 .. LastEntry : e \notin Present /\ \A f \in 1 .. LastEntry : f < e => f \in Present
Room          == Present # 1 .. LastEntry
Expires(d)    == d.closed /\ ~d.hold
Now(c, pc)    == clerk' = [clerk EXCEPT ![c].pc = pc]
LogsOff(c)    == clerk' = [clerk EXCEPT ![c] = Off]

Log(t, dated, from) == [t EXCEPT ![NextEntry] = [there |-> TRUE, dated |-> dated, from |-> from]]
Redated(dated)      == [e \in 1 .. LastEntry |-> [trail[e] EXCEPT !.dated = trail[e].there /\ dated]]

\* An entry that its writer does not date, whatever the case.
LogUndated ==
  /\ Room
  /\ trail' = Log(trail, FALSE, IF docket.closed THEN "late" ELSE "desk")
  /\ UNCHANGED <<kind, docket, clerk>>

-----------------------------------------------------------------------------
(* Reading *)

\* The page of the queue, or the case, is read.
LookAtCase(c) ==
  /\ clerk[c].pc = "off"
  /\ clerk' = [clerk EXCEPT ![c] = [pc |-> "looked", dates |-> Expires(docket), listed |-> {}]]
  /\ UNCHANGED <<kind, docket, trail>>

\* The entry of the privacy desk is dated by what was read before.
LogPrivacyReading(c) ==
  /\ kind = "privacy" /\ clerk[c].pc = "looked" /\ Room
  /\ trail' = Log(trail, clerk[c].dates, IF ~clerk[c].dates /\ docket.closed THEN "open" ELSE "desk")
  /\ LogsOff(c)
  /\ UNCHANGED <<kind, docket>>

\* That of the incidents desk by what its transaction reads; a slip: as the other.
DatedBy_Look(c) == clerk[c].dates
DatedBy(c)      == Expires(docket)

LogIncidentReading(c) ==
  /\ kind = "incidents" /\ clerk[c].pc = "looked" /\ Room
  /\ trail' = Log(trail, DatedBy(c), "desk")
  /\ LogsOff(c)
  /\ UNCHANGED <<kind, docket>>

\* recordReadAudit: the subject reads the response.
ReadResponse ==
  /\ kind = "privacy" /\ Room
  /\ trail' = Log(trail, Expires(docket), "desk")
  /\ UNCHANGED <<kind, docket, clerk>>

\* A guest redeems a code; a resent one, of a case that is closed as well.
RedeemCode == kind = "privacy" /\ LogUndated

\* The mail on an extension is out, by when the case may be closed.
DeliverExtensionNotice == kind = "privacy" /\ LogUndated

-----------------------------------------------------------------------------
(* Closing *)

ClosePrivacyCase(c) ==
  /\ kind = "privacy" /\ clerk[c].pc = "off" /\ ~docket.closed /\ Room
  /\ docket' = [docket EXCEPT !.closed = TRUE]
  /\ trail' = Log(trail, FALSE, "desk")
  /\ Now(c, "list")
  /\ UNCHANGED kind

\* alignAuditRetentionWithClosure: a query, a get, and a batch.
ListEntries(c) ==
  /\ clerk[c].pc = "list"
  /\ clerk' = [clerk EXCEPT ![c] = [@ EXCEPT !.pc = "align", !.listed = Present]]
  /\ UNCHANGED <<kind, docket, trail>>

AlignEntries(c) ==
  /\ clerk[c].pc = "align"
  /\ trail' = [e \in 1 .. LastEntry |->
                 IF e \in clerk[c].listed THEN [trail[e] EXCEPT !.dated = Expires(docket)] ELSE trail[e]]
  /\ LogsOff(c)
  /\ UNCHANGED <<kind, docket>>

\* One transaction of the incidents desk; a slip: the entries there are keep their dates.
DateAll_Own(d) == Log(trail, Expires(d), "desk")
DateAll(d)     == Log(Redated(Expires(d)), Expires(d), "desk")

CloseIncidentCase ==
  /\ kind = "incidents" /\ ~docket.closed /\ Room
  /\ docket' = [docket EXCEPT !.closed = TRUE]
  /\ trail' = DateAll(docket')
  /\ UNCHANGED <<kind, clerk>>

HoldCase(hold) ==
  /\ kind = "incidents" /\ docket.hold # hold /\ docket.holds < MaxHolds /\ Room
  /\ docket' = [docket EXCEPT !.hold = hold, !.holds = @ + 1]
  /\ trail' = DateAll(docket')
  /\ UNCHANGED <<kind, clerk>>

\* A notification that was under way when the incident was closed is superseded.
SupersedeNotice == kind = "incidents" /\ docket.closed /\ LogUndated

\* review_retention: its entry is dated by the closing, hold or not.
ReviewCase ==
  /\ kind = "incidents" /\ (docket.closed \/ docket.hold) /\ Room
  /\ trail' = Log(trail, docket.closed, IF docket.hold THEN "review" ELSE "desk")
  /\ UNCHANGED <<kind, docket, clerk>>

\* A crash, or a refused call.
LeaveCase(c) ==
  /\ clerk[c].pc # "off" /\ LogsOff(c)
  /\ docket' = [docket EXCEPT !.unaligned = @ \/ clerk[c].pc \in {"list", "align"}]
  /\ UNCHANGED <<kind, trail>>

AuditNext ==
  \/ \E c \in Clerks : \/ LookAtCase(c) \/ LogPrivacyReading(c) \/ LogIncidentReading(c)
                       \/ ClosePrivacyCase(c) \/ ListEntries(c) \/ AlignEntries(c) \/ LeaveCase(c)
  \/ ReadResponse \/ RedeemCode \/ DeliverExtensionNotice
  \/ CloseIncidentCase \/ SupersedeNotice \/ ReviewCase
  \/ \E b \in BOOLEAN : HoldCase(b)

AuditSpec == AuditInit /\ [][AuditNext]_auditVars

-----------------------------------------------------------------------------
\* Nothing of the audit outlives or predeceases its case but for what is named here: an
\* entry expires if and only if the case does.  Excepted are the entries a closing has
\* yet to date or died before it dated; those left by an operator who had read the case
\* before it was closed; those of a guest's code and of a mail, written after it; and,
\* as long as the case is held, those of a review.  A hold, and a release, make good
\* all that were there.
TrailExpiresWithCase ==
  \/ docket.unaligned
  \/ \E c \in Clerks : clerk[c].pc \in {"list", "align"}
  \/ \A e \in Present : \/ trail[e].from \in {"open", "late"}
                        \/ trail[e].from = "review" /\ docket.hold
                        \/ trail[e].dated = Expires(docket)

=============================================================================
