----------------------------- MODULE PrivacyRequest -----------------------------
(***************************************************************************)
(* One data subject's request from its intake to its closure               *)
(* (privacy-requests/store.ts): guests prove by mailed codes that an       *)
(* address is theirs, operators decide under the request's revision, and   *)
(* answers and notices to guests go out by mail.                           *)
(*                                                                         *)
(* A mailing is a transaction that stages a code, the mail, and a write    *)
(* that records what became of it; requests of operators and guests come   *)
(* between, and a handler may die at any point.                            *)
(***************************************************************************)
EXTENDS Naturals

CONSTANTS
  Handlers,  \* requests being served
  Mails,     \* mailings: the token and the attemptId each makes are its own
  None,
  MaxRev     \* bound on revision

ASSUME NoneAssumption == None \notin Mails
ASSUME RevAssumption  == MaxRev \in Nat

VARIABLES
  channel,  \* "account" or "public", fixed at the intake
  req,      \* privacyRequests/{id}
  secret,   \* whether privacyRequestSecrets/{id} is there
  linked,   \* the account of the request is not erased
  purpose,  \* what each mailing was staged for
  taken,    \* mailings whose mail the mail server took
  h         \* the handlers

vars == <<channel, req, secret, linked, purpose, taken, h>>

-----------------------------------------------------------------------------
Outcomes  == {"fulfilled", "partially_fulfilled", "refused"}
Open      == {"received", "identity_verification_required"}
Statuses  == Open \cup Outcomes \cup {"none", "in_review", "response_ready", "closed"}
Purposes  == {"verify", "response", "extension"}

Request ==
  [status : Statuses, outcome : Outcomes \cup {None}, revision : Nat,
   possession : BOOLEAN,   \* emailPossessionVerifiedAt
   subject : BOOLEAN,      \* subjectVerifiedAt
   extended : BOOLEAN, delivered : BOOLEAN, unverified : BOOLEAN,
   code : Mails \cup {None},      \* verificationTokenHash, until it expires
   attempt : Mails \cup {None},   \* deliveryAttemptId
   notice : {"available_in_app", "pending", "delivered", "failed", None}]

NoRequest ==
  [status |-> "none", outcome |-> None, revision |-> 0,
   possession |-> FALSE, subject |-> FALSE,
   extended |-> FALSE, delivered |-> FALSE, unverified |-> FALSE,
   code |-> None, attempt |-> None, notice |-> None]

Handler == [pc : {"idle", "issue", "notify", "export", "send", "finish", "fail"},
            expected : Nat, mail : Mails \cup {None}]
Idle    == [pc |-> "idle", expected |-> 0, mail |-> None]

Exists == req.status # "none"
Guest  == channel = "public"

Init ==
  /\ channel \in {"account", "public"}
  /\ req = NoRequest
  /\ secret = FALSE
  /\ linked = (channel = "account")
  /\ purpose = [m \in Mails |-> None]
  /\ taken = {}
  /\ h = [w \in Handlers |-> Idle]

-----------------------------------------------------------------------------
(* Intake *)

\* createAccount
CreateAccount ==
  /\ ~Guest /\ ~Exists /\ linked
  /\ req' = [NoRequest EXCEPT !.status = "received"]
  /\ secret' = TRUE
  /\ UNCHANGED <<channel, linked, purpose, taken, h>>

\* createGuest: a request repeated under the same clientRequestId finds the
\* first one, and does not send a code.
CreateGuest(w) ==
  /\ Guest /\ ~Exists /\ h[w].pc = "idle"
  /\ req' = [NoRequest EXCEPT !.status = "identity_verification_required"]
  /\ secret' = TRUE
  /\ h' = [h EXCEPT ![w].pc = "issue"]
  /\ UNCHANGED <<channel, linked, purpose, taken>>

-----------------------------------------------------------------------------
(* Codes *)

Fresh(m) == purpose[m] = None /\ m \notin taken

\* issueGuestCode, at the intake (which stops at a verified address) or for a
\* guest who asks again (who may be verified, and the request closed).
Issue(w, m) ==
  /\ Guest /\ Exists /\ secret /\ Fresh(m)
  /\ h[w].pc = "idle" \/ (h[w].pc = "issue" /\ ~req.possession)
  /\ req' = [req EXCEPT !.code = m, !.attempt = m]
  /\ purpose' = [purpose EXCEPT ![m] = "verify"]
  /\ h' = [h EXCEPT ![w] = [pc |-> "send", expected |-> 0, mail |-> m]]
  /\ UNCHANGED <<channel, secret, linked, taken>>

\* sender.send: it answers or throws, and may throw after the mail was taken.
\* deliveryFailure, which is then all that is recorded of a code, and of a response
\* that was not sent, is read by reports alone: such a handler is done.
Recorded == {"extension", "response"}

Send(w) ==
  /\ h[w].pc = "send"
  /\ \/ /\ taken' = taken \cup {h[w].mail}
        /\ h' = [h EXCEPT ![w] = IF purpose[h[w].mail] \in Recorded
                                 THEN [h[w] EXCEPT !.pc = "finish"] ELSE Idle]
     \/ /\ taken' \in {taken, taken \cup {h[w].mail}}
        /\ h' = [h EXCEPT ![w] = IF purpose[h[w].mail] = "extension"
                                 THEN [h[w] EXCEPT !.pc = "fail"] ELSE Idle]
  /\ UNCHANGED <<channel, req, secret, linked, purpose>>

\* exchangeCodeToken: the recipient of a mail redeems its code.  The session it
\* opens (publicSessionHash) serves reads alone.
\* Slip: the revision is left as it is, the guest being no operator.
Redeemed_Silent ==
  [req EXCEPT !.code = None, !.possession = TRUE,
              !.status = IF @ = "identity_verification_required" THEN "received" ELSE @]

Redeemed ==
  [req EXCEPT !.code = None, !.possession = TRUE,
              !.status = IF @ = "identity_verification_required" THEN "received" ELSE @,
              !.revision = @ + 1]

Redeem(m) ==
  /\ Exists /\ m \in taken
  /\ req.code = m
  /\ req.revision < MaxRev
  /\ req' = Redeemed
  /\ UNCHANGED <<channel, secret, linked, purpose, taken, h>>

-----------------------------------------------------------------------------
(* Operators: each names the revision it has seen, and the transaction       *)
(* refuses any other; so the decision is on the present request.             *)

Decide(r) ==
  /\ Exists /\ req.revision < MaxRev
  /\ req' = [r EXCEPT !.revision = req.revision + 1]

RequireVerification ==
  /\ req.status = "received"
  /\ Decide([req EXCEPT !.status = "identity_verification_required"])
  /\ UNCHANGED <<channel, secret, linked, purpose, taken, h>>

VerifySubject ==
  /\ Guest /\ req.possession
  /\ req.status \in Open
  /\ Decide([req EXCEPT !.status = "received", !.subject = TRUE])
  /\ UNCHANGED <<channel, secret, linked, purpose, taken, h>>

\* Slip: a guest's possession of the address is taken for the subject's identity.
Reviewable_Possession == req.status \in Open /\ (Guest => req.possession)
Reviewable            == req.status \in Open /\ (Guest => req.subject)

StartReview ==
  /\ Reviewable
  /\ Decide([req EXCEPT !.status = "in_review"])
  /\ UNCHANGED <<channel, secret, linked, purpose, taken, h>>

\* The next review date does not matter, the revision does.
RecordReview ==
  /\ req.status \notin Outcomes \cup {"closed"}
  /\ Decide(req)
  /\ UNCHANGED <<channel, secret, linked, purpose, taken, h>>

\* prepare_response: operators refuse; what is granted, an executor grants.
PrepareRefusal ==
  /\ req.status = "in_review"
  /\ Decide([req EXCEPT !.status = "response_ready", !.outcome = "refused"])
  /\ UNCHANGED <<channel, secret, linked, purpose, taken, h>>

\* executePrivacyRequestExport: the revision is read, the account exported, and
\* prepareExecutedResponse stores the export if the revision is still that one.
ReadContext(w) ==
  /\ h[w].pc = "idle" /\ Exists /\ ~Guest /\ linked
  /\ h' = [h EXCEPT ![w] = [pc |-> "export", expected |-> req.revision, mail |-> None]]
  /\ UNCHANGED <<channel, req, secret, linked, purpose, taken>>

PrepareExecuted(w) ==
  /\ h[w].pc = "export" /\ h[w].expected = req.revision
  /\ req.status = "in_review" /\ ~Guest /\ linked
  /\ Decide([req EXCEPT !.status = "response_ready", !.outcome = "fulfilled"])
  /\ h' = [h EXCEPT ![w] = Idle]
  /\ UNCHANGED <<channel, secret, linked, purpose, taken>>

\* deliver: an account's holder finds the response in the app; a guest's delivery
\* goes another way.  A slip: any request is delivered here.
Answered == req.status = "response_ready" /\ req.outcome # None

Deliverable_Any    == Answered
Deliverable        == ~Guest /\ Answered

DeliverAccount ==
  /\ Deliverable
  /\ Decide([req EXCEPT !.status = req.outcome, !.delivered = TRUE])
  /\ UNCHANGED <<channel, secret, linked, purpose, taken, h>>

Close ==
  /\ req.status \in Outcomes /\ req.delivered
  /\ Decide([req EXCEPT !.status = "closed", !.code = None, !.attempt = None])
  /\ UNCHANGED <<channel, secret, linked, purpose, taken, h>>

\* close_unverified
CloseUnverified ==
  /\ Guest /\ ~req.subject /\ ~req.possession /\ req.status \in Open
  /\ Decide([req EXCEPT !.status = "closed", !.unverified = TRUE, !.code = None, !.attempt = None])
  /\ UNCHANGED <<channel, secret, linked, purpose, taken, h>>

-----------------------------------------------------------------------------
(* The response, mailed to a guest (deliverPublic) *)

Stage(w, m) ==
  /\ h[w].pc = "idle" /\ Guest /\ secret /\ Fresh(m)
  /\ Answered
  /\ Decide([req EXCEPT !.attempt = m, !.code = m])
  /\ purpose' = [purpose EXCEPT ![m] = "response"]
  /\ h' = [h EXCEPT ![w] = [pc |-> "send", expected |-> req.revision + 1, mail |-> m]]
  /\ UNCHANGED <<channel, secret, linked, taken>>

FinishResponse(w) ==
  /\ h[w].pc = "finish" /\ purpose[h[w].mail] = "response"
  /\ req.attempt = h[w].mail /\ req.revision = h[w].expected
  /\ Answered
  /\ Decide([req EXCEPT !.status = req.outcome, !.delivered = TRUE, !.attempt = None])
  /\ h' = [h EXCEPT ![w] = Idle]
  /\ UNCHANGED <<channel, secret, linked, purpose, taken>>

-----------------------------------------------------------------------------
(* The extension and its notice *)

\* extend: once, and before the deadline, which is when the operator asks.
Extend(w) ==
  /\ h[w].pc = "idle" /\ secret
  /\ req.status \in Open \cup {"in_review"}
  /\ ~req.extended
  /\ Decide([req EXCEPT !.extended = TRUE, !.notice = IF Guest THEN "pending" ELSE "available_in_app"])
  /\ h' = IF Guest THEN [h EXCEPT ![w] = [pc |-> "notify", expected |-> req.revision + 1, mail |-> None]] ELSE h
  /\ UNCHANGED <<channel, secret, linked, purpose, taken>>

\* retry_extension_notice
Retry(w) ==
  /\ h[w].pc = "idle" /\ Guest /\ Exists
  /\ h' = [h EXCEPT ![w] = [pc |-> "notify", expected |-> req.revision, mail |-> None]]
  /\ UNCHANGED <<channel, req, secret, linked, purpose, taken>>

\* notifyPublicExtension stages a code without touching revision or attempt.
Notify(w, m) ==
  /\ h[w].pc = "notify" /\ Guest /\ secret /\ Fresh(m)
  /\ h[w].expected = req.revision
  /\ req.extended /\ req.notice \in {"pending", "failed"}
  /\ req' = [req EXCEPT !.code = m, !.notice = "pending"]
  /\ purpose' = [purpose EXCEPT ![m] = "extension"]
  /\ h' = [h EXCEPT ![w] = [@ EXCEPT !.pc = "send", !.mail = m]]
  /\ UNCHANGED <<channel, secret, linked, taken>>

FinishNotice(w) ==
  /\ h[w].pc \in {"finish", "fail"} /\ purpose[h[w].mail] = "extension"
  /\ req' = [req EXCEPT !.notice = IF h[w].pc = "fail" THEN "failed" ELSE "delivered"]
  /\ h' = [h EXCEPT ![w] = Idle]
  /\ UNCHANGED <<channel, secret, linked, purpose, taken>>

-----------------------------------------------------------------------------
(* Time, the account's erasure, and death *)

\* Codes expire after 24 hours.
Expire ==
  /\ req.code # None
  /\ req' = [req EXCEPT !.code = None]
  /\ UNCHANGED <<channel, secret, linked, purpose, taken, h>>

\* The secret carries an expiry once the request is closed.
SecretExpires ==
  /\ secret /\ req.status = "closed"
  /\ secret' = FALSE
  /\ UNCHANGED <<channel, req, linked, purpose, taken, h>>

\* unlinkOwnedPrivacyRequests
Unlink ==
  /\ linked /\ linked' = FALSE
  /\ UNCHANGED <<channel, req, secret, purpose, taken, h>>

\* The answer is given, the transaction throws, or the process dies.
Stop(w) ==
  /\ h[w].pc # "idle"
  /\ h' = [h EXCEPT ![w] = Idle]
  /\ UNCHANGED <<channel, req, secret, linked, purpose, taken>>

HandlerStep(w) ==
  \/ CreateGuest(w) \/ Send(w)
  \/ ReadContext(w) \/ PrepareExecuted(w)
  \/ FinishResponse(w)
  \/ Extend(w) \/ Retry(w) \/ FinishNotice(w) \/ Stop(w)
  \/ \E m \in Mails : Issue(w, m) \/ Stage(w, m) \/ Notify(w, m)

Next ==
  \/ \E w \in Handlers : HandlerStep(w)
  \/ \E m \in Mails : Redeem(m)
  \/ CreateAccount
  \/ RequireVerification \/ VerifySubject \/ StartReview \/ RecordReview
  \/ PrepareRefusal \/ DeliverAccount \/ Close \/ CloseUnverified
  \/ Expire \/ SecretExpires \/ Unlink

Spec == Init /\ [][Next]_vars

-----------------------------------------------------------------------------
(* Properties *)

\* The request, the mailings and the handlers keep their shapes.
TypeOK ==
  /\ channel \in {"account", "public"}
  /\ req \in Request
  /\ secret \in BOOLEAN /\ linked \in BOOLEAN
  /\ purpose \in [Mails -> Purposes \cup {None}]
  /\ taken \subseteq Mails
  /\ h \in [Handlers -> Handler]
  /\ \A w \in Handlers : h[w].pc \in {"send", "finish", "fail"} => h[w].mail \in Mails

\* No guest's request is reviewed, answered or closed as answered before a code
\* mailed to the address was redeemed and an operator has verified the subject.
\* What is closed was delivered, or nobody was verified.
NobodyUnverified ==
  /\ Guest /\ req.status \notin Open \cup {"none", "closed"} => req.possession /\ req.subject
  /\ req.subject => req.possession
  /\ req.possession => \E m \in taken : TRUE
  /\ req.status = "closed" => IF req.unverified THEN ~req.subject /\ ~req.delivered ELSE req.delivered
  /\ Guest /\ req.delivered => req.subject

\* A guest's request counts as delivered only if the mail server took a mail of
\* the response, with whatever else was mailed at the time.
DeliveredWasMailed ==
  Guest /\ req.delivered => \E m \in taken : purpose[m] = "response"

\* What an operator decides by: the revision he names stands for it.
Seen(r) == <<r.status, r.outcome, r.possession, r.subject, r.extended, r.delivered, r.unverified>>

\* As long as the revision stays, so does everything that decisions are made by;
\* whoever changes it, guest or operator, raises the revision.
RevisionNamesRequest ==
  [][/\ req'.revision >= req.revision
     /\ Exists /\ req'.revision = req.revision => Seen(req') = Seen(req)]_vars

\* What a request is shown to be is what happened: nobody unverified was served,
\* and what counts as delivered was mailed.
ServedAsVerified == NobodyUnverified /\ DeliveredWasMailed
=============================================================================
