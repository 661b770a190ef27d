----------------------------- MODULE LegalRequest -----------------------------
(***************************************************************************)
(* One legal request (a complaint, a withdrawal, an appeal) from its       *)
(* intake to the end of its retention: the confirmation mail, an answer    *)
(* that is staged, mailed and only then recorded, the closing with what    *)
(* evidence it leaves, legal holds and disputes, and the audit whose       *)
(* expiry is aligned with the request's in a transaction of its own.       *)
(*                                                                         *)
(* Every decision carries the revision its operator has seen; one whose    *)
(* revision has moved is refused, so that a decision reads what it         *)
(* changes.  Dates are whether they are set.                               *)
(***************************************************************************)
EXTENDS Naturals

CONSTANTS Desks,       \* requests being served
          Answers,     \* texts of responses
          NoAnswer,
          MaxLegalRev  \* bound on the revision

ASSUME LegalAssumption == NoAnswer \notin Answers /\ MaxLegalRev \in Nat

VARIABLES
  legal,         \* legalRequests/{id}
  auditExpires,  \* whether an entry of its audit has an expiresAt
  mailed,        \* history: what the mail server took
  desk           \* the handlers

legalVars == <<legal, auditExpires, mailed, desk>>

\* legalEvidenceFields; what the person wrote, narrative and transactionId, is one.
LegalFields == {"email", "narrative", "response"}
Received    == "received"                           \* the confirmation, as a mail

LegalRecord ==
  [status : {"none", "received", "in_review", "answered", "closed", "gone"}, revision : Nat,
   archivable : BOOLEAN,            \* data_recovery, suspension_appeal
   confirmation : {"pending", "sent", "failed", "unknown"},
   pending : Answers \cup {NoAnswer}, delivery : {"none", "pending", "sent", "failed"},
   response : Answers \cup {NoAnswer},
   fields : SUBSET LegalFields,     \* evidence that is still stored
   claim : BOOLEAN, necessary : SUBSET LegalFields,   \* necessaryFields, once set
   hold : BOOLEAN, dispute : BOOLEAN,
   until : BOOLEAN, expires : BOOLEAN]                \* retentionUntil, expiresAt

NoLegal ==
  [status |-> "none", revision |-> 0, archivable |-> FALSE, confirmation |-> "pending",
   pending |-> NoAnswer, delivery |-> "none", response |-> NoAnswer, fields |-> {},
   claim |-> FALSE, necessary |-> {}, hold |-> FALSE, dispute |-> FALSE,
   until |-> FALSE, expires |-> FALSE]

DeskIdle == [pc |-> "idle", answer |-> NoAnswer, outcome |-> "unknown"]

LegalInit ==
  /\ legal = NoLegal
  /\ auditExpires = FALSE
  /\ mailed = {}
  /\ desk = [d \in Desks |-> DeskIdle]

DeskTo(d, pc) == desk' = [desk EXCEPT ![d].pc = pc]
DeskDone(d)   == desk' = [desk EXCEPT ![d] = DeskIdle]
Stored        == legal.status \notin {"none", "gone"}

-----------------------------------------------------------------------------
(* The intake and its confirmation *)

CreateLegal(d, archivable) ==
  /\ desk[d].pc = "idle" /\ legal.status = "none"
  /\ legal' = [NoLegal EXCEPT !.status = "received", !.archivable = archivable,
                              !.fields = LegalFields \ {"response"}]
  /\ DeskTo(d, "confirm")
  /\ UNCHANGED <<auditExpires, mailed>>

\* A mail whose fate is unknown may have been taken; a refused one was not.
SendConfirmation(d, outcome) ==
  /\ desk[d].pc = "confirm"
  /\ desk' = [desk EXCEPT ![d].pc = "confirmed", ![d].outcome = outcome]
  /\ mailed' \in CASE outcome = "sent"    -> {mailed \cup {Received}}
                   [] outcome = "failed"  -> {mailed}
                   [] outcome = "unknown" -> {mailed, mailed \cup {Received}}
  /\ UNCHANGED <<legal, auditExpires>>

\* finalizeReceivedConfirmation; the commit may happen and its answer be lost.
Confirm(d, lost) ==
  /\ desk[d].pc \in {"confirmed", "confirm_again"} /\ Stored
  /\ \/ /\ legal.confirmation = "pending"
        /\ legal' = [legal EXCEPT !.confirmation = desk[d].outcome]
     \/ /\ legal.confirmation # "pending" \/ lost
        /\ UNCHANGED legal
  /\ IF lost /\ desk[d].pc = "confirmed"
       THEN desk' = [desk EXCEPT ![d].pc = "confirm_again", ![d].outcome = "unknown"]
       ELSE DeskDone(d)
  /\ UNCHANGED <<auditExpires, mailed>>

-----------------------------------------------------------------------------
(* transitionAdmin *)

\* A transaction on the request, and the entry it adds to the audit.
Transition(r) ==
  /\ legal.revision < MaxLegalRev
  /\ legal' = [r EXCEPT !.revision = legal.revision + 1]
  /\ auditExpires' = (auditExpires \/ r.expires \/ legal.expires)

StartLegalReview(d) ==
  /\ desk[d].pc = "idle" /\ legal.status = "received"
  /\ Transition([legal EXCEPT !.status = "in_review"])
  /\ UNCHANGED <<mailed, desk>>

StageAnswer(d, a) ==
  /\ desk[d].pc = "idle" /\ legal.status \in {"received", "in_review"}
  /\ Transition([legal EXCEPT !.pending = a, !.delivery = "pending"])
  /\ desk' = [desk EXCEPT ![d].pc = "answer", ![d].answer = a]
  /\ UNCHANGED mailed

SendAnswer(d) ==
  /\ desk[d].pc = "answer"
  /\ \/ mailed' = mailed \cup {desk[d].answer} /\ DeskTo(d, "mailed")
     \/ mailed' \in {mailed, mailed \cup {desk[d].answer}} /\ DeskTo(d, "failed")
  /\ UNCHANGED <<legal, auditExpires>>

\* What this handler has staged is still to be delivered.  A slip: the request
\* waits for a delivery, whichever.
AnswerStaged_Unfenced(d) == legal.status \notin {"none", "gone"}
AnswerStaged(d)          == legal.delivery = "pending" /\ legal.pending = desk[d].answer

FinishAnswer(d) ==
  /\ desk[d].pc = "mailed" /\ Stored /\ AnswerStaged(d)
  /\ Transition([legal EXCEPT !.status = "answered", !.response = desk[d].answer,
                              !.pending = NoAnswer, !.delivery = "sent",
                              !.fields = @ \cup {"response"}])
  /\ DeskDone(d) \/ DeskTo(d, "failed")   \* the commit's answer may be lost
  /\ UNCHANGED mailed

\* Another answer took its place, or the transaction failed.
AnswerLost(d) ==
  /\ desk[d].pc = "mailed"
  /\ DeskTo(d, "failed")
  /\ UNCHANGED <<legal, auditExpires, mailed>>

\* The catch of the delivery looks at nothing before it gives up what is staged.
FailAnswer(d) ==
  /\ desk[d].pc = "failed" /\ Stored
  /\ legal' = [legal EXCEPT !.delivery = "failed", !.pending = NoAnswer]
  /\ DeskDone(d)
  /\ UNCHANGED <<auditExpires, mailed>>

\* The evidence that a hold keeps.  A slip: what an earlier claim has listed.
HeldFields_Claimed == legal.necessary
HeldFields         == IF legal.claim THEN legal.necessary ELSE legal.fields

CloseAsArchive(d) ==
  /\ desk[d].pc = "idle" /\ legal.status = "answered"
  /\ legal.archivable /\ ~legal.hold
  /\ Transition([legal EXCEPT !.status = "closed", !.fields = {}, !.until = TRUE, !.expires = TRUE])
  /\ DeskTo(d, "align")
  /\ UNCHANGED mailed

CloseAsClaim(d, kept) ==
  /\ desk[d].pc = "idle" /\ legal.status = "answered"
  /\ legal.hold => HeldFields \subseteq kept
  /\ Transition([legal EXCEPT !.status = "closed", !.claim = TRUE, !.necessary = kept,
                              !.fields = @ \cap kept, !.until = TRUE, !.expires = ~legal.hold])
  /\ DeskTo(d, "align")
  /\ UNCHANGED mailed

ReviewRetention(d, kept, dispute) ==
  LET held == \/ dispute = "ongoing"
              \/ (legal.hold \/ legal.dispute) /\ dispute # "resolved_executed"
  IN  /\ desk[d].pc = "idle" /\ legal.status = "closed"
      /\ dispute = "resolved_executed" => legal.hold
      /\ held => HeldFields \subseteq kept
      /\ Transition([legal EXCEPT
           !.hold = held, !.dispute = (@ \/ dispute = "ongoing") /\ dispute # "resolved_executed",
           !.claim = TRUE, !.necessary = kept, !.fields = @ \cap kept,
           !.until = TRUE, !.expires = ~held])
      /\ DeskTo(d, "align")
      /\ UNCHANGED mailed

SetLegalHold(d, active) ==
  /\ desk[d].pc = "idle" /\ Stored
  /\ legal.dispute => active
  /\ Transition([legal EXCEPT !.hold = active, !.expires = IF active THEN FALSE ELSE legal.until])
  /\ DeskTo(d, "align")
  /\ UNCHANGED mailed

\* alignAuditExpiry, in a transaction of its own.
Align(d) ==
  /\ desk[d].pc = "align"
  /\ auditExpires' = IF Stored THEN legal.expires ELSE auditExpires
  /\ DeskDone(d)
  /\ UNCHANGED <<legal, mailed>>

-----------------------------------------------------------------------------
(* readAdmin and listOperatorQueue leave an entry that expires as the request  *)
(* does at that moment; Firestore's TTL; a handler that dies or is refused.    *)

ReadLegal ==
  /\ Stored
  /\ auditExpires' = (auditExpires \/ legal.expires)
  /\ UNCHANGED <<legal, mailed, desk>>

CollectLegal ==
  /\ Stored /\ legal.expires
  /\ legal' = [NoLegal EXCEPT !.status = "gone"]
  /\ UNCHANGED <<auditExpires, mailed, desk>>

LeaveDesk(d) ==
  /\ desk[d].pc # "idle"
  /\ DeskDone(d)
  /\ UNCHANGED <<legal, auditExpires, mailed>>

LegalNext ==
  \/ \E d \in Desks, b \in BOOLEAN : CreateLegal(d, b) \/ Confirm(d, b) \/ SetLegalHold(d, b)
  \/ \E d \in Desks, o \in {"sent", "failed", "unknown"} : SendConfirmation(d, o)
  \/ \E d \in Desks, a \in Answers : StageAnswer(d, a)
  \/ \E d \in Desks, kept \in SUBSET LegalFields :
       \/ CloseAsClaim(d, kept)
       \/ \E u \in {"unchanged", "ongoing", "resolved_executed"} : ReviewRetention(d, kept, u)
  \/ \E d \in Desks : \/ StartLegalReview(d) \/ SendAnswer(d) \/ FinishAnswer(d) \/ AnswerLost(d)
                      \/ FailAnswer(d) \/ CloseAsArchive(d) \/ Align(d) \/ LeaveDesk(d)
  \/ ReadLegal \/ CollectLegal

LegalSpec == LegalInit /\ [][LegalNext]_legalVars

-----------------------------------------------------------------------------
(* Correctness *)

\* The request, its mails and its handlers are well formed.
LegalTypeOK ==
  /\ legal \in LegalRecord
  /\ auditExpires \in BOOLEAN
  /\ mailed \subseteq Answers \cup {Received}
  /\ desk \in [Desks -> [pc : {"idle", "confirm", "confirmed", "confirm_again", "answer", "mailed",
                               "failed", "align"},
                         answer : Answers \cup {NoAnswer}, outcome : {"sent", "failed", "unknown"}]]

\* The response a request shows is one the person was mailed, and no late
\* delivery, of whatever operator, replaces it.
AnswerIsFinal ==
  [][legal'.response # legal.response =>
       \/ legal.response = NoAnswer /\ legal'.response \in mailed
       \/ legal'.status = "gone"]_legalVars

\* While a request is held, in a dispute or without one, no evidence it had is
\* erased and nothing lets it expire, whatever is closed, reviewed or mailed.
HeldEvidenceStays ==
  [][legal.hold => /\ legal'.status # "gone"
                   /\ legal'.hold => legal.fields \subseteq legal'.fields /\ ~legal'.expires]_legalVars

\* What was answered and what is held stand: no late delivery replaces the one
\* answer, no review, claim or dispute erases evidence that a hold keeps.
RecordStands == AnswerIsFinal /\ HeldEvidenceStays
=============================================================================
