-------------------------- MODULE OperatorDeskProofs --------------------------
(***************************************************************************)
(* What holds of the operators' queues, for any number of handlers, mails, *)
(* answers, notices, people and reports: a privacy request, a legal        *)
(* request, a security incident, the reports about content, and the desk   *)
(* that has all four.                                                      *)
(***************************************************************************)
EXTENDS MCOperatorDesk, FiniteSetTheorems, NaturalsInduction, WellFoundedInduction, TLAPS

HandlersOK ==
  /\ h \in [Handlers -> Handler]
  /\ \A w \in Handlers : h[w].pc \in {"send", "finish", "fail"} => h[w].mail \in Mails

\* A request that is decided on keeps its shape.
LEMMA DecideType ==
  ASSUME TypeOK, NEW r \in Request, Decide(r)
  PROVE  req' \in Request
BY DEF TypeOK, Decide, Request

\* A handler that takes a well-formed state leaves the others as they are.
LEMMA HandlerType ==
  ASSUME TypeOK, NEW w \in Handlers, NEW x \in Handler,
         x.pc \in {"send", "finish", "fail"} => x.mail \in Mails,
         h' = [h EXCEPT ![w] = x]
  PROVE  HandlersOK'
<1>1. h \in [Handlers -> Handler]
  BY DEF TypeOK
<1>2. h' \in [Handlers -> Handler]
  BY <1>1
<1>3. \A v \in Handlers : h'[v] = IF v = w THEN x ELSE h[v]
  BY <1>1
<1> QED
  BY <1>2, <1>3 DEF TypeOK, HandlersOK

LEMMA IdleType == Idle \in Handler /\ Idle.pc = "idle"
BY DEF Idle, Handler

LEMMA TypeStep == TypeOK /\ [Next]_vars => TypeOK'
<1> SUFFICES ASSUME TypeOK, [Next]_vars PROVE TypeOK'
  OBVIOUS
<1> USE NoneAssumption
<1>1. ASSUME NEW w \in Handlers, CreateGuest(w) PROVE TypeOK'
  <2>1. req' \in Request
    BY <1>1 DEF CreateGuest, TypeOK, NoRequest, Request, Statuses, Outcomes, Open,
       Purposes
  <2>2. PICK x : x = [h[w] EXCEPT !.pc = "issue"]
    OBVIOUS
  <2>3. x \in Handler /\ x.pc = "issue"
    BY <2>2 DEF TypeOK, Handler
  <2>4. HandlersOK'
    BY <1>1, <2>2, <2>3, HandlerType DEF CreateGuest
  <2> QED
    BY <1>1, <2>1, <2>4 DEF CreateGuest, TypeOK, HandlersOK
<1>2. ASSUME NEW w \in Handlers, Send(w) PROVE TypeOK'
  <2>1. h[w] \in Handler /\ h[w].mail \in Mails
    BY <1>2 DEF Send, TypeOK
  <2>2. [h[w] EXCEPT !.pc = "finish"] \in Handler /\ [h[w] EXCEPT !.pc = "finish"].mail \in Mails
    BY <2>1 DEF Handler
  <2>3. [h[w] EXCEPT !.pc = "fail"] \in Handler /\ [h[w] EXCEPT !.pc = "fail"].mail \in Mails
    BY <2>1 DEF Handler
  <2>4. PICK x \in {Idle, [h[w] EXCEPT !.pc = "finish"], [h[w] EXCEPT !.pc = "fail"]} :
         h' = [h EXCEPT ![w] = x]
    BY <1>2 DEF Send
  <2>5. HandlersOK'
    BY <2>2, <2>3, <2>4, IdleType, HandlerType
  <2>6. taken' \subseteq Mails
    BY <1>2, <2>1 DEF Send, TypeOK
  <2> QED
    BY <1>2, <2>5, <2>6 DEF Send, TypeOK, HandlersOK
<1>3. ASSUME NEW w \in Handlers, ReadContext(w) PROVE TypeOK'
  <2>1. [pc |-> "export", expected |-> req.revision, mail |-> None] \in Handler
    BY DEF TypeOK, Request, Handler
  <2>2. h' = [h EXCEPT ![w] = [pc |-> "export", expected |-> req.revision, mail |-> None]]
    BY <1>3 DEF ReadContext
  <2>3. HandlersOK'
    BY <2>1, <2>2, HandlerType
  <2> QED
    BY <1>3, <2>3 DEF ReadContext, TypeOK, HandlersOK
<1>4. ASSUME NEW w \in Handlers, PrepareExecuted(w) PROVE TypeOK'
  <2>1. [req EXCEPT !.status = "response_ready", !.outcome = "fulfilled"] \in Request
    BY <1>4 DEF TypeOK, Request, Statuses, Outcomes, Open, Purposes
  <2>2. req' \in Request
    BY <1>4, <2>1, DecideType DEF PrepareExecuted
  <2>3. HandlersOK'
    BY <1>4, IdleType, HandlerType DEF PrepareExecuted
  <2> QED
    BY <1>4, <2>2, <2>3 DEF PrepareExecuted, TypeOK, HandlersOK
<1>5. ASSUME NEW w \in Handlers, FinishResponse(w) PROVE TypeOK'
  <2>0. req.outcome \in Statuses
    BY <1>5 DEF FinishResponse, Answered, TypeOK, Request, Statuses, Outcomes, Open,
       Purposes
  <2>1. [req EXCEPT !.status = req.outcome, !.delivered = TRUE, !.attempt = None] \in Request
    BY <2>0, <1>5 DEF TypeOK, Request, Statuses, Outcomes, Open, Purposes
  <2>2. req' \in Request
    BY <1>5, <2>1, DecideType DEF FinishResponse
  <2>3. HandlersOK'
    BY <1>5, IdleType, HandlerType DEF FinishResponse
  <2> QED
    BY <1>5, <2>2, <2>3 DEF FinishResponse, TypeOK, HandlersOK
<1>6. ASSUME NEW w \in Handlers, Extend(w) PROVE TypeOK'
  <2>1. [req EXCEPT !.extended = TRUE, !.notice = IF Guest THEN "pending" ELSE "available_in_app"] \in Request
    <3>1. req \in Request
      BY DEF TypeOK
    <3>2. (IF Guest THEN "pending" ELSE "available_in_app") \in {"available_in_app", "pending"}
      OBVIOUS
    <3> QED  BY <3>1, <3>2 DEF Request
  <2>2. req' \in Request
    BY <1>6, <2>1, DecideType DEF Extend
  <2>3. [pc |-> "notify", expected |-> req.revision + 1, mail |-> None] \in Handler
    BY DEF TypeOK, Request, Handler
  <2>4. Guest => HandlersOK'
    BY <1>6, <2>3, HandlerType DEF Extend, TypeOK
  <2>5. ~Guest => HandlersOK'
    BY <1>6 DEF Extend, TypeOK, HandlersOK
  <2> QED
    BY <1>6, <2>2, <2>4, <2>5 DEF Extend, TypeOK, HandlersOK
<1>7. ASSUME NEW w \in Handlers, Retry(w) PROVE TypeOK'
  <2>1. [pc |-> "notify", expected |-> req.revision, mail |-> None] \in Handler
    BY DEF TypeOK, Request, Handler
  <2>2. h' = [h EXCEPT ![w] = [pc |-> "notify", expected |-> req.revision, mail |-> None]]
    BY <1>7 DEF Retry
  <2>3. HandlersOK'
    BY <2>1, <2>2, HandlerType
  <2> QED
    BY <1>7, <2>3 DEF Retry, TypeOK, HandlersOK
<1>8. ASSUME NEW w \in Handlers, FinishNotice(w) PROVE TypeOK'
  <2>1. req' \in Request
    BY <1>8 DEF FinishNotice, TypeOK, Request, Statuses, Outcomes, Open, Purposes
  <2>2. HandlersOK'
    BY <1>8, IdleType, HandlerType DEF FinishNotice
  <2> QED
    BY <1>8, <2>1, <2>2 DEF FinishNotice, TypeOK, HandlersOK
<1>9. ASSUME NEW w \in Handlers, Stop(w) PROVE TypeOK'
  <2>1. HandlersOK'
    BY <1>9, IdleType, HandlerType DEF Stop
  <2> QED
    BY <1>9, <2>1 DEF Stop, TypeOK, HandlersOK
<1>10. ASSUME NEW w \in Handlers, NEW m \in Mails, Issue(w, m) PROVE TypeOK'
  <2>1. req' \in Request
    BY <1>10 DEF Issue, TypeOK, Request, Statuses, Outcomes, Open, Purposes
  <2>2. [pc |-> "send", expected |-> 0, mail |-> m] \in Handler
    BY DEF TypeOK, Request, Handler
  <2>3. h' = [h EXCEPT ![w] = [pc |-> "send", expected |-> 0, mail |-> m]]
    BY <1>10 DEF Issue
  <2>4. HandlersOK'
    BY <2>2, <2>3, HandlerType
  <2> QED
    BY <1>10, <2>1, <2>4 DEF Issue, TypeOK, Purposes, HandlersOK
<1>11. ASSUME NEW w \in Handlers, NEW m \in Mails, Stage(w, m) PROVE TypeOK'
  <2>1. [req EXCEPT !.attempt = m, !.code = m] \in Request
    BY <1>11 DEF TypeOK, Request, Statuses, Outcomes, Open, Purposes
  <2>2. req' \in Request
    BY <1>11, <2>1, DecideType DEF Stage
  <2>3. [pc |-> "send", expected |-> req.revision + 1, mail |-> m] \in Handler
    BY DEF TypeOK, Request, Handler
  <2>4. h' = [h EXCEPT ![w] = [pc |-> "send", expected |-> req.revision + 1, mail |-> m]]
    BY <1>11 DEF Stage
  <2>5. HandlersOK'
    BY <2>3, <2>4, HandlerType
  <2> QED
    BY <1>11, <2>2, <2>5 DEF Stage, TypeOK, Purposes, HandlersOK
<1>12. ASSUME NEW w \in Handlers, NEW m \in Mails, Notify(w, m) PROVE TypeOK'
  <2>1. req' \in Request
    BY <1>12 DEF Notify, TypeOK, Request, Statuses, Outcomes, Open, Purposes
  <2>2. PICK x : x = [h[w] EXCEPT !.pc = "send", !.mail = m]
    OBVIOUS
  <2>3. x \in Handler /\ x.mail \in Mails
    BY <2>2 DEF TypeOK, Handler
  <2>4. HandlersOK'
    BY <1>12, <2>2, <2>3, HandlerType DEF Notify
  <2> QED
    BY <1>12, <2>1, <2>4 DEF Notify, TypeOK, Purposes, HandlersOK
<1>13. ASSUME NEW m \in Mails, Redeem(m) PROVE TypeOK'
  <2>1. PICK s \in Statuses :
         s = IF req.status = "identity_verification_required" THEN "received" ELSE req.status
    BY DEF TypeOK, Request, Statuses, Open
  <2>2. PICK n \in Nat : n = req.revision + 1
    BY DEF TypeOK, Request
  <2>3. req' = [req EXCEPT !.code = None, !.possession = TRUE,
                           !.status = s, !.revision = n]
    BY <1>13, <2>1, <2>2 DEF Redeem, Redeemed
  <2>4. req' \in Request
    <3> DEFINE q == [req EXCEPT !.code = None, !.possession = TRUE]
    <3>1. q \in Request
      BY DEF TypeOK, Request
    <3>2. req' = [q EXCEPT !.status = s, !.revision = n]
      BY <2>3
    <3> QED
      BY <3>1, <3>2 DEF Request
  <2> QED
    BY <1>13, <2>4 DEF Redeem, TypeOK
<1>14. CASE CreateAccount
  <2>1. req' \in Request
    BY <1>14 DEF CreateAccount, TypeOK, NoRequest, Request, Statuses, Outcomes, Open,
       Purposes
  <2> QED
    BY <1>14, <2>1 DEF CreateAccount, TypeOK
<1>15. CASE RequireVerification
  <2>1. [req EXCEPT !.status = "identity_verification_required"] \in Request
    BY <1>15 DEF TypeOK, Request, Statuses, Outcomes, Open, Purposes
  <2>2. req' \in Request
    BY <1>15, <2>1, DecideType DEF RequireVerification
  <2> QED
    BY <1>15, <2>2 DEF RequireVerification, TypeOK
<1>16. CASE VerifySubject
  <2>1. [req EXCEPT !.status = "received", !.subject = TRUE] \in Request
    BY <1>16 DEF TypeOK, Request, Statuses, Outcomes, Open, Purposes
  <2>2. req' \in Request
    BY <1>16, <2>1, DecideType DEF VerifySubject
  <2> QED
    BY <1>16, <2>2 DEF VerifySubject, TypeOK
<1>17. CASE StartReview
  <2>1. [req EXCEPT !.status = "in_review"] \in Request
    BY <1>17 DEF TypeOK, Request, Statuses, Outcomes, Open, Purposes
  <2>2. req' \in Request
    BY <1>17, <2>1, DecideType DEF StartReview
  <2> QED
    BY <1>17, <2>2 DEF StartReview, TypeOK
<1>18. CASE RecordReview
  BY <1>18, DecideType DEF RecordReview, TypeOK
<1>19. CASE PrepareRefusal
  <2>1. [req EXCEPT !.status = "response_ready", !.outcome = "refused"] \in Request
    BY <1>19 DEF TypeOK, Request, Statuses, Outcomes, Open, Purposes
  <2>2. req' \in Request
    BY <1>19, <2>1, DecideType DEF PrepareRefusal
  <2> QED
    BY <1>19, <2>2 DEF PrepareRefusal, TypeOK
<1>20. CASE DeliverAccount
  <2>0. req.outcome \in Statuses
    BY <1>20 DEF DeliverAccount, Deliverable, Answered, TypeOK, Request, Statuses,
       Outcomes, Open, Purposes
  <2>1. [req EXCEPT !.status = req.outcome, !.delivered = TRUE] \in Request
    BY <2>0, <1>20 DEF TypeOK, Request, Statuses, Outcomes, Open, Purposes
  <2>2. req' \in Request
    BY <1>20, <2>1, DecideType DEF DeliverAccount
  <2> QED
    BY <1>20, <2>2 DEF DeliverAccount, TypeOK
<1>21. CASE Close
  <2>1. [req EXCEPT !.status = "closed", !.code = None, !.attempt = None] \in Request
    BY <1>21 DEF TypeOK, Request, Statuses, Outcomes, Open, Purposes
  <2>2. req' \in Request
    BY <1>21, <2>1, DecideType DEF Close
  <2> QED
    BY <1>21, <2>2 DEF Close, TypeOK
<1>22. CASE CloseUnverified
  <2>1. [req EXCEPT !.status = "closed", !.unverified = TRUE, !.code = None, !.attempt = None] \in Request
    BY <1>22 DEF TypeOK, Request, Statuses, Outcomes, Open, Purposes
  <2>2. req' \in Request
    BY <1>22, <2>1, DecideType DEF CloseUnverified
  <2> QED
    BY <1>22, <2>2 DEF CloseUnverified, TypeOK
<1>23. CASE Expire
  <2>1. req' \in Request
    BY <1>23 DEF Expire, TypeOK, Request
  <2> QED
    BY <1>23, <2>1 DEF Expire, TypeOK
<1>24. CASE SecretExpires
  BY <1>24 DEF SecretExpires, TypeOK
<1>25. CASE Unlink
  BY <1>25 DEF Unlink, TypeOK
<1>26. CASE UNCHANGED vars
  BY <1>26 DEF vars, TypeOK
<1> QED
  BY <1>1, <1>2, <1>3, <1>4, <1>5, <1>6, <1>7, <1>8, <1>9, <1>10, <1>11, <1>12, <1>13,
     <1>14, <1>15, <1>16, <1>17, <1>18, <1>19, <1>20, <1>21, <1>22, <1>23, <1>24, <1>25,
     <1>26 DEF Next, HandlerStep

LEMMA InitType == Init => TypeOK
<1> SUFFICES ASSUME Init PROVE TypeOK
  OBVIOUS
<1>1. req \in Request
  BY DEF Init, NoRequest, Request, Statuses, Outcomes, Open, Purposes
<1>2. HandlersOK
  BY IdleType DEF Init, HandlersOK
<1> QED
  BY <1>1, <1>2 DEF Init, TypeOK, HandlersOK

\* Every reachable state is well typed.
THEOREM TypeCorrect == Spec => []TypeOK
<1> QED
  BY InitType, TypeStep, PTL DEF Spec

-----------------------------------------------------------------------------
(* NobodyUnverified says nothing of what a request may still become: one that *)
(* is not answered has not been delivered, one given up stays closed, and     *)
(* revisions begin at 0.                                                     *)

Orderly ==
  /\ req.delivered => req.status \in Outcomes \cup {"closed"}
  /\ req.unverified => req.status = "closed"
  /\ ~Exists => req.revision = 0

IInv == TypeOK /\ NobodyUnverified /\ Orderly

LEMMA Inductive == IInv /\ [Next]_vars => IInv'
<1> SUFFICES ASSUME IInv, [Next]_vars PROVE NobodyUnverified' /\ Orderly'
  BY TypeStep DEF IInv
<1> USE NoneAssumption
<1>1. ASSUME NEW w \in Handlers, CreateGuest(w) PROVE NobodyUnverified' /\ Orderly'
  BY <1>1 DEF CreateGuest, Exists, NoRequest, IInv, NobodyUnverified, Orderly, Guest,
     TypeOK, NoRequest, Request, Statuses, Outcomes, Open, Purposes
<1>2. ASSUME NEW w \in Handlers, Send(w) PROVE NobodyUnverified' /\ Orderly'
  BY <1>2 DEF Exists, Send, IInv, NobodyUnverified, Orderly, Guest
<1>3. ASSUME NEW w \in Handlers, ReadContext(w) PROVE NobodyUnverified' /\ Orderly'
  BY <1>3 DEF Exists, ReadContext, IInv, NobodyUnverified, Orderly, Guest
<1>4. ASSUME NEW w \in Handlers, PrepareExecuted(w) PROVE NobodyUnverified' /\ Orderly'
  BY <1>4 DEF PrepareExecuted, Decide, Exists, IInv, NobodyUnverified, Orderly, Guest,
     TypeOK, NoRequest, Request, Statuses, Outcomes, Open, Purposes
<1>5. ASSUME NEW w \in Handlers, FinishResponse(w) PROVE NobodyUnverified' /\ Orderly'
  BY <1>5 DEF FinishResponse, Answered, Decide, Exists, IInv, NobodyUnverified, Orderly,
     Guest, TypeOK, NoRequest, Request, Statuses, Outcomes, Open, Purposes
<1>6. ASSUME NEW w \in Handlers, Extend(w) PROVE NobodyUnverified' /\ Orderly'
  BY <1>6 DEF Extend, Decide, Exists, IInv, NobodyUnverified, Orderly, Guest, TypeOK,
     NoRequest, Request, Statuses, Outcomes, Open, Purposes
<1>7. ASSUME NEW w \in Handlers, Retry(w) PROVE NobodyUnverified' /\ Orderly'
  BY <1>7 DEF Exists, Retry, IInv, NobodyUnverified, Orderly, Guest
<1>8. ASSUME NEW w \in Handlers, FinishNotice(w) PROVE NobodyUnverified' /\ Orderly'
  BY <1>8 DEF Exists, FinishNotice, IInv, NobodyUnverified, Orderly, Guest, TypeOK, NoRequest,
     Request, Statuses, Outcomes, Open, Purposes
<1>9. ASSUME NEW w \in Handlers, Stop(w) PROVE NobodyUnverified' /\ Orderly'
  BY <1>9 DEF Exists, Stop, IInv, NobodyUnverified, Orderly, Guest
<1>10. ASSUME NEW w \in Handlers, NEW m \in Mails, Issue(w, m) PROVE NobodyUnverified' /\ Orderly'
  BY <1>10 DEF Issue, Exists, IInv, NobodyUnverified, Orderly, Guest, TypeOK, NoRequest,
     Request, Statuses, Outcomes, Open, Purposes
<1>11. ASSUME NEW w \in Handlers, NEW m \in Mails, Stage(w, m) PROVE NobodyUnverified' /\ Orderly'
  BY <1>11 DEF Stage, Answered, Decide, Exists, IInv, NobodyUnverified, Orderly, Guest,
     TypeOK, NoRequest, Request, Statuses, Outcomes, Open, Purposes
<1>12. ASSUME NEW w \in Handlers, NEW m \in Mails, Notify(w, m) PROVE NobodyUnverified' /\ Orderly'
  BY <1>12 DEF Exists, Notify, IInv, NobodyUnverified, Orderly, Guest, TypeOK, NoRequest,
     Request, Statuses, Outcomes, Open, Purposes
<1>13. ASSUME NEW m \in Mails, Redeem(m) PROVE NobodyUnverified' /\ Orderly'
  BY <1>13 DEF Redeem, Redeemed, Exists, IInv, NobodyUnverified, Orderly, Guest, TypeOK,
     NoRequest, Request, Statuses, Outcomes, Open, Purposes
<1>14. CASE CreateAccount
  BY <1>14 DEF CreateAccount, Exists, NoRequest, IInv, NobodyUnverified, Orderly, Guest,
     TypeOK, NoRequest, Request, Statuses, Outcomes, Open, Purposes
<1>15. CASE RequireVerification
  BY <1>15 DEF RequireVerification, Decide, Exists, IInv, NobodyUnverified, Orderly,
     Guest, TypeOK, NoRequest, Request, Statuses, Outcomes, Open, Purposes
<1>16. CASE VerifySubject
  BY <1>16 DEF VerifySubject, Decide, Exists, IInv, NobodyUnverified, Orderly, Guest,
     TypeOK, NoRequest, Request, Statuses, Outcomes, Open, Purposes
<1>17. CASE StartReview
  BY <1>17 DEF StartReview, Reviewable, Decide, Exists, IInv, NobodyUnverified, Orderly,
     Guest, TypeOK, NoRequest, Request, Statuses, Outcomes, Open, Purposes
<1>18. CASE RecordReview
  BY <1>18 DEF RecordReview, Decide, Exists, IInv, NobodyUnverified, Orderly, Guest,
     TypeOK, NoRequest, Request, Statuses, Outcomes, Open, Purposes
<1>19. CASE PrepareRefusal
  BY <1>19 DEF PrepareRefusal, Decide, Exists, IInv, NobodyUnverified, Orderly, Guest,
     TypeOK, NoRequest, Request, Statuses, Outcomes, Open, Purposes
<1>20. CASE DeliverAccount
  BY <1>20 DEF DeliverAccount, Deliverable, Answered, Decide, Exists, IInv,
     NobodyUnverified, Orderly, Guest, TypeOK, NoRequest, Request, Statuses, Outcomes,
     Open, Purposes
<1>21. CASE Close
  BY <1>21 DEF Close, Decide, Exists, IInv, NobodyUnverified, Orderly, Guest, TypeOK,
     NoRequest, Request, Statuses, Outcomes, Open, Purposes
<1>22. CASE CloseUnverified
  BY <1>22 DEF CloseUnverified, Decide, Exists, IInv, NobodyUnverified, Orderly, Guest,
     TypeOK, NoRequest, Request, Statuses, Outcomes, Open, Purposes
<1>23. CASE Expire
  BY <1>23 DEF Exists, Expire, IInv, NobodyUnverified, Orderly, Guest, TypeOK, NoRequest,
     Request, Statuses, Outcomes, Open, Purposes
<1>24. CASE SecretExpires
  BY <1>24 DEF Exists, SecretExpires, IInv, NobodyUnverified, Orderly, Guest
<1>25. CASE Unlink
  BY <1>25 DEF Exists, Unlink, IInv, NobodyUnverified, Orderly, Guest
<1>26. CASE UNCHANGED vars
  BY <1>26 DEF Exists, vars, IInv, NobodyUnverified, Orderly, Guest
<1> QED
  BY <1>1, <1>2, <1>3, <1>4, <1>5, <1>6, <1>7, <1>8, <1>9, <1>10, <1>11, <1>12, <1>13,
     <1>14, <1>15, <1>16, <1>17, <1>18, <1>19, <1>20, <1>21, <1>22, <1>23, <1>24, <1>25,
     <1>26 DEF Next, HandlerStep

\* The invariant holds of every reachable state.
THEOREM Invariance == Spec => []IInv
<1>1. Init => IInv
  <2> SUFFICES ASSUME Init PROVE NobodyUnverified /\ Orderly
    BY InitType DEF IInv
  <2> QED
    BY NoneAssumption DEF Init, Exists, NobodyUnverified, Orderly, Guest, NoRequest, Open
<1> QED
  BY <1>1, Inductive, PTL DEF Spec

\* Nobody's request is reviewed or answered on the strength of an address alone,
\* whatever is mailed, redeemed and decided in whatever order.
THEOREM UnverifiedStaysUnserved == Spec => []NobodyUnverified
<1>1. IInv => NobodyUnverified
  BY DEF IInv
<1> QED
  BY <1>1, Invariance, PTL
-----------------------------------------------------------------------------
(* A handler records a delivery after its mail was taken, and what a mail was   *)
(* staged for does not change.                                                 *)

SentFirst == \A w \in Handlers : h[w].pc = "finish" => h[w].mail \in taken

LEMMA MailedStep ==
  TypeOK /\ SentFirst /\ DeliveredWasMailed /\ [Next]_vars => SentFirst' /\ DeliveredWasMailed'
<1> SUFFICES ASSUME TypeOK, SentFirst, DeliveredWasMailed, [Next]_vars
             PROVE  SentFirst' /\ DeliveredWasMailed'
  OBVIOUS
<1> USE NoneAssumption
<1>1. ASSUME NEW w \in Handlers, CreateGuest(w) PROVE SentFirst' /\ DeliveredWasMailed'
  BY <1>1 DEF CreateGuest, Exists, NoRequest, TypeOK, SentFirst, DeliveredWasMailed,
     Guest, Handler, Request
<1>2. ASSUME NEW w \in Handlers, Send(w) PROVE SentFirst' /\ DeliveredWasMailed'
  BY <1>2 DEF Send, TypeOK, SentFirst, DeliveredWasMailed, Guest, Handler, Request, Idle
<1>3. ASSUME NEW w \in Handlers, ReadContext(w) PROVE SentFirst' /\ DeliveredWasMailed'
  BY <1>3 DEF ReadContext, TypeOK, SentFirst, DeliveredWasMailed, Guest, Handler,
     Request
<1>4. ASSUME NEW w \in Handlers, PrepareExecuted(w) PROVE SentFirst' /\ DeliveredWasMailed'
  BY <1>4 DEF PrepareExecuted, Decide, TypeOK, SentFirst, DeliveredWasMailed, Guest,
     Handler, Request, Idle
<1>5. ASSUME NEW w \in Handlers, FinishResponse(w) PROVE SentFirst' /\ DeliveredWasMailed'
  BY <1>5 DEF FinishResponse, Answered, Decide, TypeOK, SentFirst, DeliveredWasMailed,
     Guest, Handler, Request, Idle
<1>6. ASSUME NEW w \in Handlers, Extend(w) PROVE SentFirst' /\ DeliveredWasMailed'
  BY <1>6 DEF Extend, Decide, TypeOK, SentFirst, DeliveredWasMailed, Guest, Handler,
     Request
<1>7. ASSUME NEW w \in Handlers, Retry(w) PROVE SentFirst' /\ DeliveredWasMailed'
  BY <1>7 DEF Retry, TypeOK, SentFirst, DeliveredWasMailed, Guest, Handler, Request
<1>8. ASSUME NEW w \in Handlers, FinishNotice(w) PROVE SentFirst' /\ DeliveredWasMailed'
  BY <1>8 DEF FinishNotice, TypeOK, SentFirst, DeliveredWasMailed, Guest, Handler,
     Request, Idle
<1>9. ASSUME NEW w \in Handlers, Stop(w) PROVE SentFirst' /\ DeliveredWasMailed'
  BY <1>9 DEF Stop, TypeOK, SentFirst, DeliveredWasMailed, Guest, Handler, Request, Idle
<1>10. ASSUME NEW w \in Handlers, NEW m \in Mails, Issue(w, m) PROVE SentFirst' /\ DeliveredWasMailed'
  BY <1>10 DEF Issue, Fresh, TypeOK, SentFirst, DeliveredWasMailed, Guest, Handler,
     Request
<1>11. ASSUME NEW w \in Handlers, NEW m \in Mails, Stage(w, m) PROVE SentFirst' /\ DeliveredWasMailed'
  BY <1>11 DEF Stage, Answered, Decide, Fresh, TypeOK, SentFirst, DeliveredWasMailed,
     Guest, Handler, Request
<1>12. ASSUME NEW w \in Handlers, NEW m \in Mails, Notify(w, m) PROVE SentFirst' /\ DeliveredWasMailed'
  BY <1>12 DEF Notify, Fresh, TypeOK, SentFirst, DeliveredWasMailed, Guest, Handler,
     Request
<1>13. ASSUME NEW m \in Mails, Redeem(m) PROVE SentFirst' /\ DeliveredWasMailed'
  BY <1>13 DEF Redeem, Redeemed, Exists, TypeOK, SentFirst, DeliveredWasMailed, Guest,
     Handler, Request
<1>14. CASE CreateAccount
  BY <1>14 DEF CreateAccount, Exists, NoRequest, TypeOK, SentFirst, DeliveredWasMailed,
     Guest, Handler, Request
<1>15. CASE RequireVerification
  BY <1>15 DEF RequireVerification, Decide, TypeOK, SentFirst, DeliveredWasMailed,
     Guest, Handler, Request
<1>16. CASE VerifySubject
  BY <1>16 DEF VerifySubject, Decide, TypeOK, SentFirst, DeliveredWasMailed, Guest,
     Handler, Request
<1>17. CASE StartReview
  BY <1>17 DEF StartReview, Reviewable, Decide, TypeOK, SentFirst, DeliveredWasMailed,
     Guest, Handler, Request
<1>18. CASE RecordReview
  BY <1>18 DEF RecordReview, Decide, TypeOK, SentFirst, DeliveredWasMailed, Guest,
     Handler, Request
<1>19. CASE PrepareRefusal
  BY <1>19 DEF PrepareRefusal, Decide, TypeOK, SentFirst, DeliveredWasMailed, Guest,
     Handler, Request
<1>20. CASE DeliverAccount
  BY <1>20 DEF DeliverAccount, Deliverable, Answered, Decide, TypeOK, SentFirst,
     DeliveredWasMailed, Guest, Handler, Request
<1>21. CASE Close
  BY <1>21 DEF Close, Decide, TypeOK, SentFirst, DeliveredWasMailed, Guest, Handler,
     Request
<1>22. CASE CloseUnverified
  BY <1>22 DEF CloseUnverified, Decide, TypeOK, SentFirst, DeliveredWasMailed, Guest,
     Handler, Request
<1>23. CASE Expire
  BY <1>23 DEF Expire, TypeOK, SentFirst, DeliveredWasMailed, Guest, Handler, Request
<1>24. CASE SecretExpires
  BY <1>24 DEF SecretExpires, TypeOK, SentFirst, DeliveredWasMailed, Guest, Handler,
     Request
<1>25. CASE Unlink
  BY <1>25 DEF Unlink, TypeOK, SentFirst, DeliveredWasMailed, Guest, Handler, Request
<1>26. CASE UNCHANGED vars
  BY <1>26 DEF vars, SentFirst, DeliveredWasMailed, Guest
<1> QED
  BY <1>1, <1>2, <1>3, <1>4, <1>5, <1>6, <1>7, <1>8, <1>9, <1>10, <1>11, <1>12, <1>13,
     <1>14, <1>15, <1>16, <1>17, <1>18, <1>19, <1>20, <1>21, <1>22, <1>23, <1>24, <1>25,
     <1>26 DEF Next, HandlerStep

\* A guest's response counts as delivered only after the mail server took it.
THEOREM DeliveredIsMailed == Spec => []DeliveredWasMailed
<1>1. Init => SentFirst /\ DeliveredWasMailed
  BY DEF Init, SentFirst, DeliveredWasMailed, NoRequest, Idle
<1> QED
  BY <1>1, MailedStep, TypeCorrect, PTL DEF Spec

-----------------------------------------------------------------------------
(* The revision *)

Told ==
  /\ req'.revision >= req.revision
  /\ Exists /\ req'.revision = req.revision => Seen(req') = Seen(req)

LEMMA ToldStep == IInv /\ [Next]_vars => Told
<1> SUFFICES ASSUME IInv, [Next]_vars PROVE Told
  OBVIOUS
<1>a. TypeOK /\ req.revision \in Nat
  BY DEF IInv, TypeOK, Request
<1>1. ASSUME NEW w \in Handlers, CreateGuest(w) PROVE Told
  BY <1>a, <1>1 DEF CreateGuest, IInv, Orderly, Exists, NoRequest, Told
<1>2. ASSUME NEW w \in Handlers, Send(w) PROVE Told
  BY <1>a, <1>2 DEF Send, Exists, Told, Seen, TypeOK, Request
<1>3. ASSUME NEW w \in Handlers, ReadContext(w) PROVE Told
  BY <1>a, <1>3 DEF ReadContext, Exists, Told, Seen, TypeOK, Request
<1>4. ASSUME NEW w \in Handlers, PrepareExecuted(w) PROVE Told
  <2>1. req'.revision = req.revision + 1
    BY <1>a, <1>4 DEF PrepareExecuted, Decide, TypeOK, Request
  <2> QED
    BY <1>a, <2>1 DEF Told
<1>5. ASSUME NEW w \in Handlers, FinishResponse(w) PROVE Told
  <2>1. req'.revision = req.revision + 1
    BY <1>a, <1>5 DEF FinishResponse, Answered, Decide, TypeOK, Request
  <2> QED
    BY <1>a, <2>1 DEF Told
<1>6. ASSUME NEW w \in Handlers, Extend(w) PROVE Told
  <2>1. req'.revision = req.revision + 1
    BY <1>a, <1>6 DEF Extend, Decide, TypeOK, Request
  <2> QED
    BY <1>a, <2>1 DEF Told
<1>7. ASSUME NEW w \in Handlers, Retry(w) PROVE Told
  BY <1>a, <1>7 DEF Retry, Exists, Told, Seen, TypeOK, Request
<1>8. ASSUME NEW w \in Handlers, FinishNotice(w) PROVE Told
  BY <1>a, <1>8 DEF FinishNotice, Exists, Told, Seen, TypeOK, Request
<1>9. ASSUME NEW w \in Handlers, Stop(w) PROVE Told
  BY <1>a, <1>9 DEF Stop, Exists, Told, Seen, TypeOK, Request
<1>10. ASSUME NEW w \in Handlers, NEW m \in Mails, Issue(w, m) PROVE Told
  BY <1>a, <1>10 DEF Issue, Fresh, Exists, Told, Seen, TypeOK, Request
<1>11. ASSUME NEW w \in Handlers, NEW m \in Mails, Stage(w, m) PROVE Told
  <2>1. req'.revision = req.revision + 1
    BY <1>a, <1>11 DEF Stage, Answered, Decide, Fresh, TypeOK, Request
  <2> QED
    BY <1>a, <2>1 DEF Told
<1>12. ASSUME NEW w \in Handlers, NEW m \in Mails, Notify(w, m) PROVE Told
  <2>1. req'.revision = req.revision /\ Seen(req') = Seen(req)
    BY <1>a, <1>12 DEF Notify, Seen, TypeOK, Request
  <2> QED
    BY <1>a, <2>1 DEF Told
<1>13. ASSUME NEW m \in Mails, Redeem(m) PROVE Told
  <2>1. req'.revision = req.revision + 1
    BY <1>a, <1>13 DEF Redeem, Redeemed, TypeOK, Request
  <2> QED
    BY <1>a, <2>1 DEF Told
<1>14. CASE CreateAccount
  BY <1>a, <1>14 DEF CreateAccount, IInv, Orderly, Exists, NoRequest, Told
<1>15. CASE RequireVerification
  <2>1. req'.revision = req.revision + 1
    BY <1>a, <1>15 DEF RequireVerification, Decide, TypeOK, Request
  <2> QED
    BY <1>a, <2>1 DEF Told
<1>16. CASE VerifySubject
  <2>1. req'.revision = req.revision + 1
    BY <1>a, <1>16 DEF VerifySubject, Decide, TypeOK, Request
  <2> QED
    BY <1>a, <2>1 DEF Told
<1>17. CASE StartReview
  <2>1. req'.revision = req.revision + 1
    BY <1>a, <1>17 DEF StartReview, Reviewable, Decide, TypeOK, Request
  <2> QED
    BY <1>a, <2>1 DEF Told
<1>18. CASE RecordReview
  <2>1. req'.revision = req.revision + 1
    BY <1>a, <1>18 DEF RecordReview, Decide, TypeOK, Request
  <2> QED
    BY <1>a, <2>1 DEF Told
<1>19. CASE PrepareRefusal
  <2>1. req'.revision = req.revision + 1
    BY <1>a, <1>19 DEF PrepareRefusal, Decide, TypeOK, Request
  <2> QED
    BY <1>a, <2>1 DEF Told
<1>20. CASE DeliverAccount
  <2>1. req'.revision = req.revision + 1
    BY <1>a, <1>20 DEF DeliverAccount, Deliverable, Answered, Decide, TypeOK, Request
  <2> QED
    BY <1>a, <2>1 DEF Told
<1>21. CASE Close
  <2>1. req'.revision = req.revision + 1
    BY <1>a, <1>21 DEF Close, Decide, TypeOK, Request
  <2> QED
    BY <1>a, <2>1 DEF Told
<1>22. CASE CloseUnverified
  <2>1. req'.revision = req.revision + 1
    BY <1>a, <1>22 DEF CloseUnverified, Decide, TypeOK, Request
  <2> QED
    BY <1>a, <2>1 DEF Told
<1>23. CASE Expire
  BY <1>a, <1>23 DEF Expire, Exists, Told, Seen, TypeOK, Request
<1>24. CASE SecretExpires
  BY <1>a, <1>24 DEF SecretExpires, Exists, Told, Seen, TypeOK, Request
<1>25. CASE Unlink
  BY <1>a, <1>25 DEF Unlink, Exists, Told, Seen, TypeOK, Request
<1>26. CASE UNCHANGED vars
  BY <1>a, <1>26 DEF vars, Told, Seen
<1> QED
  BY <1>1, <1>2, <1>3, <1>4, <1>5, <1>6, <1>7, <1>8, <1>9, <1>10, <1>11, <1>12, <1>13,
     <1>14, <1>15, <1>16, <1>17, <1>18, <1>19, <1>20, <1>21, <1>22, <1>23, <1>24, <1>25,
     <1>26 DEF Next, HandlerStep

\* Whoever changes what decisions are made by raises the revision.
THEOREM RevisionTells == Spec => RevisionNamesRequest
<1>1. IInv /\ [Next]_vars => [Told]_vars
  BY ToldStep
<1> QED
  BY <1>1, Invariance, PTL DEF Spec, RevisionNamesRequest, Told

\* A request is never shown served to somebody unverified, nor delivered
\* without the message having gone out.
THEOREM RequestIsServedAsVerified == Spec => []ServedAsVerified
BY UnverifiedStaysUnserved, DeliveredIsMailed, PTL DEF ServedAsVerified

-----------------------------------------------------------------------------
(* The legal request *)

Desking == [pc : {"idle", "confirm", "confirmed", "confirm_again", "answer", "mailed",
                  "failed", "align"},
            answer : Answers \cup {NoAnswer}, outcome : {"sent", "failed", "unknown"}]

\* What a handler is about to do: an answer is staged before it is mailed, and
\* mailed before it is recorded.
DeskingOK(x) ==
  /\ x \in Desking
  /\ x.pc \in {"answer", "mailed"} => x.answer \in Answers

DesksOK ==
  /\ desk \in [Desks -> Desking]
  /\ \A d \in Desks : DeskingOK(desk[d]) /\ (desk[d].pc = "mailed" => desk[d].answer \in mailed)
  /\ mailed \subseteq Answers \cup {Received}

\* A request is answered once, a staged answer waits for no other end, a hold
\* suspends the expiry, and a claim comes with the closing and lists what is left.
RecordOK(r) ==
  /\ r \in LegalRecord
  /\ r.status \in {"none", "received", "in_review", "gone"} => r.response = NoAnswer
  /\ r.delivery = "pending" => r.status \in {"received", "in_review"}
  /\ r.hold => ~r.expires /\ r.status \notin {"none", "gone"}
  /\ r.claim => r.status = "closed" /\ r.fields \subseteq r.necessary

LInv == RecordOK(legal) /\ DesksOK /\ auditExpires \in BOOLEAN

\* What a step may do to the record: the two action properties, for any pair.
RecordStandsFrom(r, s) ==
  /\ s.response # r.response =>
       \/ r.response = NoAnswer /\ s.response \in mailed
       \/ s.status = "gone"
  /\ r.hold => s.status # "gone" /\ (s.hold => r.fields \subseteq s.fields /\ ~s.expires)

\* A handler that takes a well-formed state leaves the others as they are.
LEMMA DeskMoves ==
  ASSUME DesksOK, NEW d \in Desks, NEW x, DeskingOK(x),
         x.pc = "mailed" => x.answer \in mailed',
         mailed \subseteq mailed', mailed' \subseteq Answers \cup {Received},
         desk' = [desk EXCEPT ![d] = x]
  PROVE  DesksOK'
<1>1. desk' \in [Desks -> Desking]
  BY DEF DesksOK, DeskingOK
<1>2. \A e \in Desks : desk'[e] = IF e = d THEN x ELSE desk[e]
  BY DEF DesksOK
<1> QED
  BY <1>1, <1>2 DEF DesksOK

LEMMA DeskIdleOK == DeskingOK(DeskIdle) /\ DeskIdle.pc = "idle"
BY LegalAssumption DEF DeskingOK, Desking, DeskIdle

LEMMA DeskEnds ==
  ASSUME DesksOK, NEW d \in Desks, DeskDone(d), UNCHANGED mailed
  PROVE  DesksOK'
BY DeskIdleOK, DeskMoves DEF DeskDone, DesksOK

LEMMA DeskGoesOn ==
  ASSUME DesksOK, NEW d \in Desks,
         NEW pc \in {"confirm", "confirmed", "confirm_again", "mailed", "failed", "align"}, DeskTo(d, pc),
         pc = "mailed" => desk[d].answer \in Answers \cap mailed',
         mailed \subseteq mailed', mailed' \subseteq Answers \cup {Received}
  PROVE  DesksOK'
<1> DEFINE x == [desk[d] EXCEPT !.pc = pc]
<1>1. desk[d] \in Desking
  BY DEF DesksOK
<1>2. x \in Desking /\ x.pc = pc /\ x.answer = desk[d].answer
  BY <1>1 DEF Desking
<1>3. desk' = [desk EXCEPT ![d] = x]
  BY DEF DeskTo
<1> HIDE DEF x
<1>4. DeskingOK(x)
  BY <1>2 DEF DeskingOK
<1> QED
  BY <1>2, <1>3, <1>4, DeskMoves

\* A transaction adds one to the revision of what it writes.
LEMMA TransitionKeeps ==
  ASSUME NEW r, RecordOK(r), RecordOK(legal), auditExpires \in BOOLEAN, Transition(r)
  PROVE  /\ RecordOK(legal') /\ auditExpires' \in BOOLEAN
         /\ RecordStandsFrom(legal, r) => RecordStandsFrom(legal, legal')
<1> DEFINE n == legal.revision + 1
<1>1. n \in Nat
  BY DEF RecordOK, LegalRecord
<1>2. legal' = [r EXCEPT !.revision = n]
  BY DEF Transition
<1> HIDE DEF n
<1>3. r \in LegalRecord /\ legal \in LegalRecord
  BY DEF RecordOK
<1>4. /\ legal' \in LegalRecord /\ legal'.status = r.status /\ legal'.response = r.response
      /\ legal'.delivery = r.delivery /\ legal'.hold = r.hold /\ legal'.expires = r.expires
      /\ legal'.claim = r.claim /\ legal'.fields = r.fields /\ legal'.necessary = r.necessary
  BY <1>1, <1>2, <1>3 DEF LegalRecord
<1>5. RecordOK(legal')
  BY <1>4 DEF RecordOK
<1>6. r.expires \in BOOLEAN /\ legal.expires \in BOOLEAN
  BY <1>3 DEF LegalRecord
<1>7. auditExpires' \in BOOLEAN
  BY <1>6 DEF Transition
<1>8. RecordStandsFrom(legal, r) => RecordStandsFrom(legal, legal')
  BY <1>4 DEF RecordStandsFrom
<1> QED
  BY <1>5, <1>7, <1>8

LEMMA NoLegalOK ==
  /\ RecordOK(NoLegal)
  /\ \A b \in BOOLEAN : RecordOK([NoLegal EXCEPT !.status = "received", !.archivable = b,
                                                 !.fields = LegalFields \ {"response"}])
  /\ RecordOK([NoLegal EXCEPT !.status = "gone"])
<1>1. RecordOK(NoLegal)
  BY LegalAssumption DEF NoLegal, RecordOK, LegalRecord, LegalFields
<1>2. ASSUME NEW b \in BOOLEAN
      PROVE  RecordOK([NoLegal EXCEPT !.status = "received", !.archivable = b,
                                      !.fields = LegalFields \ {"response"}])
  BY LegalAssumption DEF NoLegal, RecordOK, LegalRecord, LegalFields
<1>3. RecordOK([NoLegal EXCEPT !.status = "gone"])
  BY LegalAssumption DEF NoLegal, RecordOK, LegalRecord, LegalFields
<1> QED
  BY <1>1, <1>2, <1>3

\* The writers of the request, one by one.
LEMMA LegalWrites ==
  ASSUME LInv, NEW d \in Desks
  PROVE  /\ \A b \in BOOLEAN : CreateLegal(d, b) => RecordOK(legal') /\ RecordStandsFrom(legal, legal')
         /\ \A b \in BOOLEAN : Confirm(d, b) => RecordOK(legal') /\ RecordStandsFrom(legal, legal')
         /\ FailAnswer(d) => RecordOK(legal') /\ RecordStandsFrom(legal, legal')
<1>1. RecordOK(legal) /\ legal \in LegalRecord
  BY DEF LInv, RecordOK
<1>2. desk[d] \in Desking
  BY DEF LInv, DesksOK
<1>3. ASSUME NEW b \in BOOLEAN, CreateLegal(d, b)
      PROVE  RecordOK(legal') /\ RecordStandsFrom(legal, legal')
  <2>1. RecordOK(legal')
    BY <1>3, NoLegalOK DEF CreateLegal
  <2>2. legal'.response = NoAnswer /\ legal'.status # "gone" /\ ~legal'.hold
    BY <1>3 DEF CreateLegal, NoLegal
  <2>3. legal.response = NoAnswer
    BY <1>1, <1>3 DEF CreateLegal, RecordOK
  <2> QED
    BY <2>1, <2>2, <2>3 DEF RecordStandsFrom
<1>4. ASSUME NEW b \in BOOLEAN, Confirm(d, b)
      PROVE  RecordOK(legal') /\ RecordStandsFrom(legal, legal')
  <2>1. CASE UNCHANGED legal
    BY <1>1, <2>1, <1>4 DEF Confirm, RecordStandsFrom, RecordOK, Stored
  <2>2. CASE legal' = [legal EXCEPT !.confirmation = desk[d].outcome]
    <3>1. legal' \in LegalRecord
      BY <1>1, <1>2, <2>2 DEF LegalRecord, Desking
    <3>2. /\ legal'.status = legal.status /\ legal'.response = legal.response
          /\ legal'.delivery = legal.delivery /\ legal'.hold = legal.hold
          /\ legal'.expires = legal.expires /\ legal'.claim = legal.claim
          /\ legal'.fields = legal.fields /\ legal'.necessary = legal.necessary
      BY <1>1, <2>2 DEF LegalRecord
    <3>3. legal.status # "gone"
      BY <1>4 DEF Confirm, Stored
    <3> QED
      BY <1>1, <3>1, <3>2, <3>3 DEF RecordOK, RecordStandsFrom
  <2> QED
    BY <1>4, <2>1, <2>2 DEF Confirm
<1>5. ASSUME FailAnswer(d) PROVE RecordOK(legal') /\ RecordStandsFrom(legal, legal')
  <2>1. legal' = [legal EXCEPT !.delivery = "failed", !.pending = NoAnswer] /\ legal.status # "gone"
    BY <1>5 DEF FailAnswer, Stored
  <2>2. legal' \in LegalRecord
    BY <1>1, <2>1 DEF LegalRecord
  <2>3. /\ legal'.status = legal.status /\ legal'.response = legal.response
        /\ legal'.delivery = "failed" /\ legal'.hold = legal.hold
        /\ legal'.expires = legal.expires /\ legal'.claim = legal.claim
        /\ legal'.fields = legal.fields /\ legal'.necessary = legal.necessary
    BY <1>1, <2>1 DEF LegalRecord
  <2> QED
    BY <1>1, <2>1, <2>2, <2>3 DEF RecordOK, RecordStandsFrom
<1> QED
  BY <1>3, <1>4, <1>5

LEMMA LegalCollected ==
  ASSUME LInv, CollectLegal PROVE RecordOK(legal') /\ RecordStandsFrom(legal, legal')
<1>1. RecordOK(legal') /\ legal'.status = "gone" /\ ~legal.hold
  BY NoLegalOK DEF CollectLegal, NoLegal, RecordOK, LInv
<1> QED
  BY <1>1 DEF RecordStandsFrom

\* The transactions of the operators, one by one.
LEMMA LegalTransitions ==
  ASSUME LInv, NEW d \in Desks
  PROVE  /\ StartLegalReview(d) => RecordOK(legal') /\ RecordStandsFrom(legal, legal') /\ auditExpires' \in BOOLEAN
         /\ \A a \in Answers : StageAnswer(d, a) =>
              RecordOK(legal') /\ RecordStandsFrom(legal, legal') /\ auditExpires' \in BOOLEAN
         /\ FinishAnswer(d) => RecordOK(legal') /\ RecordStandsFrom(legal, legal') /\ auditExpires' \in BOOLEAN
<1>1. RecordOK(legal) /\ legal \in LegalRecord /\ auditExpires \in BOOLEAN
  BY DEF LInv, RecordOK
<1>2. ASSUME StartLegalReview(d)
      PROVE  RecordOK(legal') /\ RecordStandsFrom(legal, legal') /\ auditExpires' \in BOOLEAN
  <2> DEFINE r == [legal EXCEPT !.status = "in_review"]
  <2>1. r \in LegalRecord
    BY <1>1 DEF LegalRecord
  <2>2. /\ r.status = "in_review" /\ r.response = legal.response /\ r.delivery = legal.delivery
        /\ r.hold = legal.hold /\ r.expires = legal.expires /\ r.claim = legal.claim
        /\ r.fields = legal.fields /\ r.necessary = legal.necessary
    BY <1>1 DEF LegalRecord
  <2>3. Transition(r) /\ legal.status = "received"
    BY <1>2 DEF StartLegalReview
  <2> HIDE DEF r
  <2>4. RecordOK(r) /\ RecordStandsFrom(legal, r)
    BY <1>1, <2>1, <2>2, <2>3 DEF RecordOK, RecordStandsFrom
  <2> QED
    BY <1>1, <2>3, <2>4, TransitionKeeps
<1>3. ASSUME NEW a \in Answers, StageAnswer(d, a)
      PROVE  RecordOK(legal') /\ RecordStandsFrom(legal, legal') /\ auditExpires' \in BOOLEAN
  <2> DEFINE r == [legal EXCEPT !.pending = a, !.delivery = "pending"]
  <2>1. r \in LegalRecord
    BY <1>1 DEF LegalRecord
  <2>2. /\ r.status = legal.status /\ r.response = legal.response /\ r.delivery = "pending"
        /\ r.hold = legal.hold /\ r.expires = legal.expires /\ r.claim = legal.claim
        /\ r.fields = legal.fields /\ r.necessary = legal.necessary
    BY <1>1 DEF LegalRecord
  <2>3. Transition(r) /\ legal.status \in {"received", "in_review"}
    BY <1>3 DEF StageAnswer
  <2> HIDE DEF r
  <2>4. RecordOK(r) /\ RecordStandsFrom(legal, r)
    BY <1>1, <2>1, <2>2, <2>3 DEF RecordOK, RecordStandsFrom
  <2> QED
    BY <1>1, <2>3, <2>4, TransitionKeeps
<1>4. ASSUME FinishAnswer(d)
      PROVE  RecordOK(legal') /\ RecordStandsFrom(legal, legal') /\ auditExpires' \in BOOLEAN
  <2> DEFINE a == desk[d].answer
  <2> DEFINE r == [legal EXCEPT !.status = "answered", !.response = a,
                                !.pending = NoAnswer, !.delivery = "sent",
                                !.fields = @ \cup {"response"}]
  <2>1. a \in Answers /\ a \in mailed
    BY <1>4 DEF FinishAnswer, LInv, DesksOK, DeskingOK
  <2>2. Transition(r) /\ legal.delivery = "pending"
    BY <1>4 DEF FinishAnswer, AnswerStaged
  <2> HIDE DEF a
  <2>3. r \in LegalRecord
    BY <1>1, <2>1 DEF LegalRecord, LegalFields
  <2>4. /\ r.status = "answered" /\ r.response = a /\ r.delivery = "sent"
        /\ r.hold = legal.hold /\ r.expires = legal.expires /\ r.claim = legal.claim
        /\ r.fields = legal.fields \cup {"response"} /\ r.necessary = legal.necessary
    BY <1>1 DEF LegalRecord
  <2> HIDE DEF r
  <2>5. legal.status \in {"received", "in_review"} /\ legal.response = NoAnswer /\ ~legal.claim
    BY <1>1, <2>2 DEF RecordOK
  <2>6. RecordOK(r) /\ RecordStandsFrom(legal, r)
    BY <1>1, <2>1, <2>3, <2>4, <2>5 DEF RecordOK, RecordStandsFrom
  <2> QED
    BY <1>1, <2>2, <2>6, TransitionKeeps
<1> QED
  BY <1>2, <1>3, <1>4

\* A closing, a review and a hold: what a hold keeps stays.
LEMMA LegalClosings ==
  ASSUME LInv, NEW d \in Desks
  PROVE  /\ CloseAsArchive(d) => RecordOK(legal') /\ RecordStandsFrom(legal, legal') /\ auditExpires' \in BOOLEAN
         /\ \A kept \in SUBSET LegalFields : CloseAsClaim(d, kept) =>
              RecordOK(legal') /\ RecordStandsFrom(legal, legal') /\ auditExpires' \in BOOLEAN
         /\ \A kept \in SUBSET LegalFields, u \in {"unchanged", "ongoing", "resolved_executed"} :
              ReviewRetention(d, kept, u) =>
                RecordOK(legal') /\ RecordStandsFrom(legal, legal') /\ auditExpires' \in BOOLEAN
         /\ \A b \in BOOLEAN : SetLegalHold(d, b) =>
              RecordOK(legal') /\ RecordStandsFrom(legal, legal') /\ auditExpires' \in BOOLEAN
<1>1. RecordOK(legal) /\ legal \in LegalRecord /\ auditExpires \in BOOLEAN
  BY DEF LInv, RecordOK
<1>2. HeldFields \in SUBSET LegalFields /\ (legal.fields \subseteq HeldFields)
  BY <1>1 DEF HeldFields, RecordOK, LegalRecord
<1>3. ASSUME CloseAsArchive(d)
      PROVE  RecordOK(legal') /\ RecordStandsFrom(legal, legal') /\ auditExpires' \in BOOLEAN
  <2> DEFINE r == [legal EXCEPT !.status = "closed", !.fields = {}, !.until = TRUE, !.expires = TRUE]
  <2>1. r \in LegalRecord
    BY <1>1 DEF LegalRecord
  <2>2. /\ r.status = "closed" /\ r.response = legal.response /\ r.delivery = legal.delivery
        /\ r.hold = legal.hold /\ r.expires = TRUE /\ r.claim = legal.claim
        /\ r.fields = {} /\ r.necessary = legal.necessary
    BY <1>1 DEF LegalRecord
  <2>3. Transition(r) /\ legal.status = "answered" /\ ~legal.hold
    BY <1>3 DEF CloseAsArchive
  <2> HIDE DEF r
  <2>4. RecordOK(r) /\ RecordStandsFrom(legal, r)
    BY <1>1, <2>1, <2>2, <2>3 DEF RecordOK, RecordStandsFrom
  <2> QED
    BY <1>1, <2>3, <2>4, TransitionKeeps
<1>4. ASSUME NEW kept \in SUBSET LegalFields, CloseAsClaim(d, kept)
      PROVE  RecordOK(legal') /\ RecordStandsFrom(legal, legal') /\ auditExpires' \in BOOLEAN
  <2> DEFINE expires == ~legal.hold
  <2> DEFINE left == legal.fields \cap kept
  <2> DEFINE r == [legal EXCEPT !.status = "closed", !.claim = TRUE, !.necessary = kept,
                                !.fields = left, !.until = TRUE, !.expires = expires]
  <2>1. expires \in BOOLEAN /\ left \in SUBSET LegalFields /\ left \subseteq kept
    BY <1>1 DEF LegalRecord
  <2>2. Transition(r) /\ legal.status = "answered" /\ (legal.hold => left = legal.fields)
        /\ expires = ~legal.hold
    BY <1>2, <1>4 DEF CloseAsClaim
  <2> HIDE DEF expires, left
  <2>3. r \in LegalRecord
    BY <1>1, <2>1 DEF LegalRecord
  <2>4. /\ r.status = "closed" /\ r.response = legal.response /\ r.delivery = legal.delivery
        /\ r.hold = legal.hold /\ r.expires = expires /\ r.claim = TRUE
        /\ r.fields = left /\ r.necessary = kept
    BY <1>1 DEF LegalRecord
  <2> HIDE DEF r
  <2>5. RecordOK(r) /\ RecordStandsFrom(legal, r)
    BY <1>1, <2>1, <2>2, <2>3, <2>4 DEF RecordOK, RecordStandsFrom
  <2> QED
    BY <1>1, <2>2, <2>5, TransitionKeeps
<1>5. ASSUME NEW kept \in SUBSET LegalFields, NEW u \in {"unchanged", "ongoing", "resolved_executed"},
             ReviewRetention(d, kept, u)
      PROVE  RecordOK(legal') /\ RecordStandsFrom(legal, legal') /\ auditExpires' \in BOOLEAN
  <2> DEFINE held == \/ u = "ongoing"
                     \/ (legal.hold \/ legal.dispute) /\ u # "resolved_executed"
  <2> DEFINE expires == ~held
  <2> DEFINE dispute == (legal.dispute \/ u = "ongoing") /\ u # "resolved_executed"
  <2> DEFINE left == legal.fields \cap kept
  <2> DEFINE r == [legal EXCEPT !.hold = held, !.dispute = dispute, !.claim = TRUE, !.necessary = kept,
                                !.fields = left, !.until = TRUE, !.expires = expires]
  <2>1. /\ held \in BOOLEAN /\ expires \in BOOLEAN /\ dispute \in BOOLEAN
        /\ left \in SUBSET LegalFields /\ left \subseteq kept
    BY <1>1 DEF LegalRecord
  <2>2. Transition(r) /\ legal.status = "closed" /\ (held => left = legal.fields)
        /\ expires = ~held
    BY <1>2, <1>5 DEF ReviewRetention
  <2> HIDE DEF expires, left, held, dispute
  <2>3. r \in LegalRecord
    BY <1>1, <2>1 DEF LegalRecord
  <2>4. /\ r.status = legal.status /\ r.response = legal.response /\ r.delivery = legal.delivery
        /\ r.hold = held /\ r.expires = expires /\ r.claim = TRUE
        /\ r.fields = left /\ r.necessary = kept
    BY <1>1 DEF LegalRecord
  <2> HIDE DEF r
  <2>5. RecordOK(r) /\ RecordStandsFrom(legal, r)
    BY <1>1, <2>1, <2>2, <2>3, <2>4 DEF RecordOK, RecordStandsFrom
  <2> QED
    BY <1>1, <2>2, <2>5, TransitionKeeps
<1>6. ASSUME NEW b \in BOOLEAN, SetLegalHold(d, b)
      PROVE  RecordOK(legal') /\ RecordStandsFrom(legal, legal') /\ auditExpires' \in BOOLEAN
  <2> DEFINE expires == IF b THEN FALSE ELSE legal.until
  <2> DEFINE r == [legal EXCEPT !.hold = b, !.expires = expires]
  <2>1. expires \in BOOLEAN /\ (b => ~expires)
    BY <1>1 DEF LegalRecord
  <2>2. Transition(r) /\ legal.status # "gone"
    BY <1>6 DEF SetLegalHold, Stored
  <2>6. legal.status # "none"
    BY <1>6 DEF SetLegalHold, Stored
  <2> HIDE DEF expires
  <2>3. r \in LegalRecord
    BY <1>1, <2>1 DEF LegalRecord
  <2>4. /\ r.status = legal.status /\ r.response = legal.response /\ r.delivery = legal.delivery
        /\ r.hold = b /\ r.expires = expires /\ r.claim = legal.claim
        /\ r.fields = legal.fields /\ r.necessary = legal.necessary
    BY <1>1 DEF LegalRecord
  <2> HIDE DEF r
  <2>5. RecordOK(r) /\ RecordStandsFrom(legal, r)
    BY <1>1, <2>1, <2>2, <2>3, <2>4, <2>6 DEF RecordOK, RecordStandsFrom
  <2> QED
    BY <1>1, <2>2, <2>5, TransitionKeeps
<1> QED
  BY <1>3, <1>4, <1>5, <1>6

LEMMA LegalInitially == LegalInit => LInv
<1> SUFFICES ASSUME LegalInit PROVE LInv
  OBVIOUS
<1>1. RecordOK(legal)
  BY NoLegalOK DEF LegalInit
<1>2. DesksOK
  BY DeskIdleOK DEF LegalInit, DesksOK, DeskingOK
<1> QED
  BY <1>1, <1>2 DEF LegalInit, LInv

LEMMA LegalStep == LInv /\ [LegalNext]_legalVars => LInv' /\ RecordStandsFrom(legal, legal')
<1> SUFFICES ASSUME LInv, [LegalNext]_legalVars PROVE LInv' /\ RecordStandsFrom(legal, legal')
  OBVIOUS
<1>1. RecordOK(legal) /\ legal \in LegalRecord /\ DesksOK /\ auditExpires \in BOOLEAN
  BY DEF LInv, RecordOK
<1>2. mailed \subseteq Answers \cup {Received} /\ legal.expires \in BOOLEAN
  BY <1>1 DEF DesksOK, LegalRecord
<1>3. UNCHANGED legal => RecordOK(legal') /\ RecordStandsFrom(legal, legal')
  BY <1>1 DEF RecordOK, RecordStandsFrom
<1>5. UNCHANGED <<mailed, desk>> => DesksOK'
  BY <1>1 DEF DesksOK
<1>6. ASSUME NEW d \in Desks, NEW b \in BOOLEAN, CreateLegal(d, b) PROVE LInv' /\ RecordStandsFrom(legal, legal')
  <2>1. DesksOK'
    BY <1>1, <1>2, <1>6, DeskGoesOn DEF CreateLegal
  <2> QED
    BY <1>1, <1>6, <2>1, LegalWrites DEF CreateLegal, LInv
<1>7. ASSUME NEW d \in Desks, NEW b \in BOOLEAN, Confirm(d, b) PROVE LInv' /\ RecordStandsFrom(legal, legal')
  <2>1. CASE DeskDone(d)
    BY <1>1, <1>7, <2>1, DeskEnds, LegalWrites DEF Confirm, LInv
  <2>2. CASE desk' = [desk EXCEPT ![d].pc = "confirm_again", ![d].outcome = "unknown"]
    <3> DEFINE x == [desk[d] EXCEPT !.pc = "confirm_again", !.outcome = "unknown"]
    <3>1. desk[d] \in Desking
      BY <1>1 DEF DesksOK
    <3>2. x \in Desking /\ x.pc = "confirm_again"
      BY <3>1 DEF Desking
    <3>3. desk' = [desk EXCEPT ![d] = x]
      BY <1>1, <2>2 DEF DesksOK
    <3> HIDE DEF x
    <3>4. DesksOK'
      BY <1>1, <1>2, <1>7, <3>2, <3>3, DeskMoves DEF DeskingOK, Confirm
    <3> QED
      BY <1>1, <1>7, <3>4, LegalWrites DEF Confirm, LInv
  <2> QED
    BY <1>7, <2>1, <2>2 DEF Confirm
<1>8. ASSUME NEW d \in Desks, NEW b \in BOOLEAN, SetLegalHold(d, b) PROVE LInv' /\ RecordStandsFrom(legal, legal')
  BY <1>1, <1>2, <1>8, DeskGoesOn, LegalClosings DEF SetLegalHold, LInv
<1>9. ASSUME NEW d \in Desks, NEW o \in {"sent", "failed", "unknown"}, SendConfirmation(d, o)
      PROVE  LInv' /\ RecordStandsFrom(legal, legal')
  <2> DEFINE x == [desk[d] EXCEPT !.pc = "confirmed", !.outcome = o]
  <2>1. desk[d] \in Desking
    BY <1>1 DEF DesksOK
  <2>2. x \in Desking /\ x.pc = "confirmed"
    BY <2>1 DEF Desking
  <2>3. desk' = [desk EXCEPT ![d] = x]
    BY <1>1, <1>9 DEF DesksOK, SendConfirmation
  <2> HIDE DEF x
  <2>4. mailed' \in {mailed, mailed \cup {Received}}
    BY <1>9 DEF SendConfirmation
  <2>5. DesksOK'
    BY <1>1, <1>2, <2>2, <2>3, <2>4, DeskMoves DEF DeskingOK
  <2>6. RecordStandsFrom(legal, legal')
    BY <1>1, <1>9 DEF SendConfirmation, RecordStandsFrom, RecordOK
  <2> QED
    BY <1>1, <1>9, <2>5 , <2>6 DEF SendConfirmation, LInv
<1>10. ASSUME NEW d \in Desks, NEW a \in Answers, StageAnswer(d, a) PROVE LInv' /\ RecordStandsFrom(legal, legal')
  <2> DEFINE x == [desk[d] EXCEPT !.pc = "answer", !.answer = a]
  <2>1. desk[d] \in Desking
    BY <1>1 DEF DesksOK
  <2>2. x \in Desking /\ x.pc = "answer" /\ x.answer \in Answers
    BY <2>1 DEF Desking
  <2>3. desk' = [desk EXCEPT ![d] = x]
    BY <1>1, <1>10 DEF DesksOK, StageAnswer
  <2> HIDE DEF x
  <2>4. DesksOK'
    BY <1>1, <1>2, <1>10, <2>2, <2>3, DeskMoves DEF DeskingOK, StageAnswer
  <2> QED
    BY <1>1, <1>10, <2>4, LegalTransitions DEF StageAnswer, LInv
<1>11. ASSUME NEW d \in Desks, NEW kept \in SUBSET LegalFields, CloseAsClaim(d, kept)
       PROVE  LInv' /\ RecordStandsFrom(legal, legal')
  BY <1>1, <1>2, <1>11, DeskGoesOn, LegalClosings DEF CloseAsClaim, LInv
<1>12. ASSUME NEW d \in Desks, NEW kept \in SUBSET LegalFields,
              NEW u \in {"unchanged", "ongoing", "resolved_executed"}, ReviewRetention(d, kept, u)
       PROVE  LInv' /\ RecordStandsFrom(legal, legal')
  <2>1. DeskTo(d, "align") /\ UNCHANGED mailed
    BY <1>12 DEF ReviewRetention
  <2> QED
    BY <1>1, <1>2, <1>12, <2>1, DeskGoesOn, LegalClosings DEF LInv
<1>13. ASSUME NEW d \in Desks, StartLegalReview(d) PROVE LInv' /\ RecordStandsFrom(legal, legal')
  BY <1>5, <1>13, LegalTransitions DEF StartLegalReview, LInv
<1>14. ASSUME NEW d \in Desks, SendAnswer(d) PROVE LInv' /\ RecordStandsFrom(legal, legal')
  <2>1. desk[d].answer \in Answers
    BY <1>1, <1>14 DEF SendAnswer, DesksOK, DeskingOK
  <2>2. DesksOK'
    BY <1>1, <1>2, <1>14, <2>1, DeskGoesOn DEF SendAnswer
  <2>3. RecordStandsFrom(legal, legal')
    BY <1>1, <1>14 DEF SendAnswer, RecordStandsFrom, RecordOK
  <2> QED
    BY <1>1, <1>14, <2>2, <2>3 DEF SendAnswer, LInv
<1>15. ASSUME NEW d \in Desks, FinishAnswer(d) PROVE LInv' /\ RecordStandsFrom(legal, legal')
  <2>1. DesksOK'
    BY <1>1, <1>2, <1>15, DeskGoesOn, DeskEnds DEF FinishAnswer
  <2> QED
    BY <1>15, <2>1, LegalTransitions DEF LInv
<1>16. ASSUME NEW d \in Desks, AnswerLost(d) PROVE LInv' /\ RecordStandsFrom(legal, legal')
  <2>1. DesksOK'
    BY <1>1, <1>2, <1>16, DeskGoesOn DEF AnswerLost
  <2>2. RecordStandsFrom(legal, legal')
    BY <1>1, <1>16 DEF AnswerLost, RecordStandsFrom, RecordOK
  <2> QED
    BY <1>1, <1>16, <2>1, <2>2 DEF AnswerLost, LInv
<1>17. ASSUME NEW d \in Desks, FailAnswer(d) PROVE LInv' /\ RecordStandsFrom(legal, legal')
  BY <1>1, <1>17, DeskEnds, LegalWrites DEF FailAnswer, LInv
<1>18. ASSUME NEW d \in Desks, CloseAsArchive(d) PROVE LInv' /\ RecordStandsFrom(legal, legal')
  BY <1>1, <1>2, <1>18, DeskGoesOn, LegalClosings DEF CloseAsArchive, LInv
<1>19. ASSUME NEW d \in Desks, Align(d) PROVE LInv' /\ RecordStandsFrom(legal, legal')
  <2>1. RecordStandsFrom(legal, legal') /\ UNCHANGED legal
    BY <1>1, <1>19 DEF Align, RecordStandsFrom, RecordOK
  <2>2. auditExpires' \in BOOLEAN
    BY <1>1, <1>2, <1>19 DEF Align
  <2> QED
    BY <1>1, <1>19, <2>1, <2>2, DeskEnds DEF Align, LInv
<1>20. ASSUME NEW d \in Desks, LeaveDesk(d) PROVE LInv' /\ RecordStandsFrom(legal, legal')
  <2>1. RecordStandsFrom(legal, legal')
    BY <1>1, <1>20 DEF LeaveDesk, RecordStandsFrom, RecordOK
  <2> QED
    BY <1>1, <1>20, <2>1, DeskEnds DEF LeaveDesk, LInv
<1>21. ASSUME ReadLegal PROVE LInv' /\ RecordStandsFrom(legal, legal')
  BY <1>1, <1>2, <1>3, <1>5, <1>21 DEF ReadLegal, LInv, Stored
<1>22. ASSUME CollectLegal PROVE LInv' /\ RecordStandsFrom(legal, legal')
  BY <1>1, <1>5, <1>22, LegalCollected DEF CollectLegal, LInv
<1>23. ASSUME UNCHANGED legalVars PROVE LInv' /\ RecordStandsFrom(legal, legal')
  BY <1>1, <1>5, <1>23 DEF legalVars, LInv, RecordStandsFrom, RecordOK
<1> QED
  BY <1>6, <1>7, <1>8, <1>9, <1>10, <1>11, <1>12, <1>13, <1>14, <1>15, <1>16, <1>17, <1>18,
     <1>19, <1>20, <1>21, <1>22, <1>23 DEF LegalNext

THEOREM LegalInvariance == LegalSpec => []LInv
BY LegalInitially, LegalStep, PTL DEF LegalSpec

\* The answer a request shows is one the person was mailed and no late delivery
\* replaces it, and no closing, review or claim erases what a hold keeps.
THEOREM LegalRecordStands == LegalSpec => RecordStands
<1> DEFINE Final == legal'.response # legal.response =>
                          \/ legal.response = NoAnswer /\ legal'.response \in mailed
                          \/ legal'.status = "gone"
           Kept == legal.hold => /\ legal'.status # "gone"
                                 /\ legal'.hold => legal.fields \subseteq legal'.fields /\ ~legal'.expires
<1>1. LInv /\ [LegalNext]_legalVars => [Final]_legalVars
  BY LegalStep DEF RecordStandsFrom
<1>2. LInv /\ [LegalNext]_legalVars => [Kept]_legalVars
  BY LegalStep DEF RecordStandsFrom
<1>3. LegalSpec => [][Final]_legalVars
  BY <1>1, LegalInvariance, PTL DEF LegalSpec
<1>4. LegalSpec => [][Kept]_legalVars
  BY <1>2, LegalInvariance, PTL DEF LegalSpec
<1> QED
  BY <1>3, <1>4 DEF RecordStands, AnswerIsFinal, HeldEvidenceStays

-----------------------------------------------------------------------------
(* The reports about content: what a page holds *)

LEMMA LeastOf ==
  ASSUME NEW S, S \subseteq Nat, S # {}
  PROVE  \E m \in S : \A k \in S : m <= k
<1>1. PICK m \in S : \A k \in S : <<k, m>> \notin OpToRel(<, Nat)
  BY WFMin, NatLessThanWellFounded, Zenon
<1>2. \A k \in S : ~(k < m)
  BY <1>1, Zenon DEF OpToRel
<1> QED
  BY <1>2

LEMMA HighestOf ==
  ASSUME NEW S, S \subseteq Reports, S # {}
  PROVE  Highest(S) \in S /\ \A j \in S : j <= Highest(S)
<1> USE ReportsAssumption
<1> DEFINE Short == {LastReport - i : i \in S}
<1>1. S \subseteq Nat /\ \A i \in S : LastReport - i \in Nat
  BY DEF Reports
<1>2. PICK d \in Short : \A x \in Short : d <= x
  <2>1. Short \subseteq Nat /\ Short # {}
    BY <1>1
  <2> HIDE DEF Short
  <2> QED
    BY <2>1, LeastOf
<1>3. PICK m \in S : d = LastReport - m
  BY <1>2
<1>4. ASSUME NEW j \in S PROVE j <= m
  <2>1. LastReport - m <= LastReport - j
    BY <1>2, <1>3
  <2>2. m \in Nat /\ j \in Nat /\ LastReport \in Nat
    BY <1>1
  <2> QED
    BY <2>1, <2>2
<1>5. \E i \in S : \A j \in S : j <= i
  BY <1>4
<1> QED
  BY <1>5 DEF Highest

LEMMA SubsetsCount ==
  ASSUME NEW S, S \subseteq Reports
  PROVE  IsFiniteSet(S) /\ Cardinality(S) \in Nat /\ \A T \in SUBSET S : Cardinality(T) <= Cardinality(S)
<1>1. IsFiniteSet(Reports)
  BY ReportsAssumption, FS_Interval DEF Reports
<1>2. IsFiniteSet(S)
  BY <1>1, FS_Subset
<1> QED
  BY <1>2, FS_Subset, FS_CardinalityType

LEMMA PageOfReports ==
  /\ There \subseteq Reports /\ Page \subseteq There /\ Looked \subseteq Page
  /\ \A i \in Page : i > reading.after
BY DEF There, Page, Looked

\* A page that is not full has all that follows.
LEMMA LastPage ==
  ASSUME ReportsTypeOK, Cardinality(Page) < PageSize, NEW i \in There, i > reading.after
  PROVE  i \in Page
<1> USE ReportsAssumption
<1> DEFINE Beyond == {j \in There : j > reading.after /\ j \notin Page}
<1>1. SUFFICES ASSUME Beyond # {} PROVE FALSE
  OBVIOUS
<1>2. There \subseteq Nat /\ reading.after \in Nat
  BY PageOfReports DEF Reports, ReportsTypeOK
<1>3. PICK k \in Beyond : \A j \in Beyond : k <= j
  BY <1>1, <1>2, LeastOf
<1> DEFINE Upto == {j \in There : reading.after < j /\ j <= k}
<1>4. Upto \subseteq Page \cup {k}
  <2>1. ASSUME NEW j \in Upto, j # k PROVE j \in Page
    <3>1. ~(k <= j)
      BY <1>2, <1>3, <2>1
    <3> QED
      BY <1>2, <1>3, <2>1, <3>1
  <2> QED
    BY <2>1
<1>5. IsFiniteSet(Page) /\ Cardinality(Page) \in Nat
  BY PageOfReports, SubsetsCount
<1>6. IsFiniteSet(Page \cup {k}) /\ Cardinality(Page \cup {k}) <= Cardinality(Page) + 1
  <2>1. Cardinality(Page \cup {k}) = IF k \in Page THEN Cardinality(Page) ELSE Cardinality(Page) + 1
    BY <1>5, FS_AddElement
  <2>2. IsFiniteSet(Page \cup {k})
    BY <1>5, FS_AddElement
  <2> HIDE DEF Upto, Beyond
  <2> QED
    BY <1>5, <2>1, <2>2
<1>7. Cardinality(Upto) \in Nat /\ Cardinality(Upto) <= Cardinality(Page \cup {k})
  BY <1>4, <1>6, FS_Subset, FS_CardinalityType
<1>8. Cardinality(Page \cup {k}) \in Nat
  BY <1>6, FS_CardinalityType
<1>9. Cardinality(Upto) <= PageSize
  BY <1>5, <1>6, <1>7, <1>8
<1>10. k \in There /\ k > reading.after /\ k \notin Page
  BY <1>3
<1> QED
  BY <1>9, <1>10 DEF Page

\* What is looked at begins right behind the cursor and has no gap.
LEMMA LookedHasNoGap ==
  ASSUME ReportsTypeOK, NEW k \in Looked, NEW i \in There, reading.after < i, i <= k
  PROVE  i \in Looked
<1> USE ReportsAssumption
<1>1. There \subseteq Nat /\ reading.after \in Nat /\ reading.found \in Nat
  BY PageOfReports DEF Reports, ReportsTypeOK
<1>2. k \in There /\ k \in Page
  BY PageOfReports
<1>3. i \in Page
  <2> DEFINE A == {j \in There : reading.after < j /\ j <= i}
             B == {j \in There : reading.after < j /\ j <= k}
  <2>1. A \subseteq B
    <3>1. ASSUME NEW j \in There, j <= i PROVE j <= k
      <4>1. j \in Nat /\ i \in Nat /\ k \in Nat
        BY <1>1, <1>2
      <4> QED
        BY <3>1, <4>1
    <3> QED
      BY <3>1
  <2>2. Cardinality(A) <= Cardinality(B) /\ Cardinality(B) \in Nat /\ Cardinality(A) \in Nat
    <3>1. B \subseteq Reports /\ A \subseteq Reports
      BY PageOfReports
    <3> QED
      BY <2>1, <3>1, SubsetsCount
  <2>3. Cardinality(B) <= PageSize
    BY <1>2 DEF Page
  <2>4. Cardinality(A) <= PageSize
    BY <2>2, <2>3
  <2> QED
    BY <2>4 DEF Page
<1>4. QED
  <2> DEFINE A == {j \in Page : Pending(j) /\ j < i}
             B == {j \in Page : Pending(j) /\ j < k}
  <2>1. A \subseteq B
    <3>1. ASSUME NEW j \in Page, j < i PROVE j < k
      <4>1. j \in Nat /\ i \in Nat /\ k \in Nat
        BY <1>1, <1>2, PageOfReports
      <4> QED
        BY <3>1, <4>1
    <3> QED
      BY <3>1
  <2>2. Cardinality(A) <= Cardinality(B) /\ Cardinality(B) \in Nat /\ Cardinality(A) \in Nat
    <3>1. B \subseteq Reports /\ A \subseteq Reports
      BY PageOfReports
    <3> QED
      BY <2>1, <3>1, SubsetsCount
  <2>3. reading.found + Cardinality(B) < PageSize
    BY DEF Looked
  <2>4. reading.found + Cardinality(A) < PageSize
    BY <1>1, <2>2, <2>3
  <2> QED
    BY <1>3, <2>4 DEF Looked

\* A page that is not empty is looked at.
LEMMA SomethingIsLookedAt ==
  ASSUME ReportsTypeOK, reading.found < PageSize, Page # {}
  PROVE  Looked # {}
<1> USE ReportsAssumption
<1>1. Page \subseteq Nat /\ reading.found \in Nat
  BY PageOfReports DEF Reports, ReportsTypeOK
<1>2. PICK k \in Page : \A j \in Page : k <= j
  BY <1>1, LeastOf
<1>3. {j \in Page : Pending(j) /\ j < k} = {}
  <2>1. ASSUME NEW j \in Page PROVE ~(j < k)
    <3>1. j \in Nat /\ k \in Nat /\ k <= j
      BY <1>1, <1>2
    <3> QED
      BY <3>1
  <2> QED
    BY <2>1
<1>4. reading.found + Cardinality({j \in Page : Pending(j) /\ j < k}) < PageSize
  BY <1>1, <1>3, FS_EmptySet
<1> QED
  BY <1>4 DEF Looked

\* How far the walk has come: what is behind the cursor and was due all the while
\* has been shown, what is ahead of it has not.
RInv ==
  /\ ReportsTypeOK
  /\ \A i \in lasting : Pending(i)
  /\ \A i \in Reports : listed[i] <= 1
  /\ reading.pc = "scan" =>
       /\ \A i \in Reports : i > reading.after => listed[i] = 0
       /\ \A i \in lasting : i <= reading.after => listed[i] = 1
  /\ reading.pc = "ended" => \A i \in lasting : listed[i] = 1

LEMMA ReportsInitially == ReportsInit => RInv
BY ReportsAssumption DEF ReportsInit, RInv, ReportsTypeOK, Unread, Reports

\* A report that changes: the walk stands still, and only what is no longer due
\* leaves those that lasted.
LEMMA ReportChanges ==
  ASSUME RInv, NEW i \in Reports, NEW s \in {"open", "in_review", "resolved", "closed", "expired", "gone"},
         Change(i, s), bucket' \in 0 .. ReportLimit, UNCHANGED <<reading, listed>>
  PROVE  RInv'
<1>1. report \in [Reports -> {"none", "open", "in_review", "resolved", "closed"} \cup Expired]
  BY DEF RInv, ReportsTypeOK
<1>2. /\ report' \in [Reports -> {"none", "open", "in_review", "resolved", "closed"} \cup Expired]
      /\ \A k \in Reports : report'[k] = IF k = i THEN s ELSE report[k]
  BY <1>1 DEF Change, Expired
<1>3. lasting' \subseteq lasting /\ (s \notin {"in_review", "resolved"} => i \notin lasting')
  BY DEF Change
<1>4. changes' \in 0 .. MaxChanges
  BY ReportsAssumption DEF Change, RInv, ReportsTypeOK
<1>5. ReportsTypeOK'
  BY <1>2, <1>3, <1>4 DEF RInv, ReportsTypeOK
<1>6. \A k \in lasting' : Pending(k)'
  BY <1>2, <1>3 DEF RInv, ReportsTypeOK, Pending
<1> QED
  BY <1>3, <1>5, <1>6 DEF RInv

\* A page is shown: those that were due all the while and are not behind the new
\* cursor are among those looked at, and were not shown before.
LEMMA ReportScanned == RInv /\ Scan => RInv'
<1> USE ReportsAssumption
<1> SUFFICES ASSUME RInv, Scan PROVE RInv'
  OBVIOUS
<1>1. /\ ReportsTypeOK /\ reading.pc = "scan" /\ reading.found < PageSize
      /\ UNCHANGED <<report, bucket, lasting, changes>>
  BY DEF RInv, Scan
<1>2. /\ lasting \subseteq Reports /\ listed \in [Reports -> Nat] /\ reading.after \in 0 .. LastReport
      /\ reading.scanned \in Nat /\ reading.found \in Nat
      /\ reading \in [pc : {"idle", "scan", "ended"}, after : 0 .. LastReport, scanned : Nat, found : Nat]
  BY <1>1 DEF ReportsTypeOK
<1>3. \A i \in lasting : Pending(i) /\ i \in There /\ Pending(i)'
  BY <1>1, <1>2 DEF RInv, Pending, There
<1>4. Reports \subseteq Nat
  BY DEF Reports
<1>5. /\ \A i \in Reports : listed[i] <= 1
      /\ \A i \in Reports : i > reading.after => listed[i] = 0
      /\ \A i \in lasting : i <= reading.after => listed[i] = 1
  BY <1>1 DEF RInv
<1>6. \A i \in lasting : i \in Nat /\ reading.after \in Nat
  BY <1>2, <1>4
<1>7. CASE Page = {}
  <2>1. reading' = [reading EXCEPT !.pc = "ended"] /\ UNCHANGED listed
    BY <1>7 DEF Scan
  <2>2. Cardinality(Page) < PageSize
    BY <1>7, FS_EmptySet
  <2>3. \A i \in lasting : i <= reading.after
    BY <1>1, <1>3, <1>6, <1>7, <2>2, LastPage
  <2>4. reading'.pc = "ended"
    BY <1>2, <2>1
  <2>5. ReportsTypeOK'
    BY <1>1, <2>1 DEF ReportsTypeOK
  <2> QED
    BY <1>1, <1>3, <1>5, <2>1, <2>3, <2>4, <2>5 DEF RInv
<1>8. CASE Page # {}
  <2> DEFINE top == Highest(Looked)
             pc == IF AtTheEnd THEN "ended" ELSE "scan"
             more == reading.scanned + Cardinality(Looked)
             shown == reading.found + Cardinality({i \in Looked : Pending(i)})
  <2>1. /\ reading' = [pc |-> pc, after |-> top, scanned |-> more, found |-> shown]
        /\ listed' = [i \in Reports |-> IF i \in Looked /\ Pending(i) THEN listed[i] + 1 ELSE listed[i]]
    BY <1>8 DEF Scan, NextAfter
  <2>2. Looked # {} /\ Looked \subseteq Reports
    BY <1>1, <1>8, SomethingIsLookedAt, PageOfReports
  <2>3. top \in Looked /\ \A j \in Looked : j <= top
    BY <2>2, HighestOf
  <2>4. top \in Reports /\ top > reading.after
    BY <2>3, PageOfReports
  <2>5. more \in Nat /\ shown \in Nat
    <3>1. Cardinality(Looked) \in Nat /\ Cardinality({i \in Looked : Pending(i)}) \in Nat
      BY <2>2, SubsetsCount
    <3> QED
      BY <1>2, <3>1
  <2>6. pc \in {"scan", "ended"} /\ (pc = "ended" => Cardinality(Page) < PageSize /\ Looked = Page)
    BY DEF AtTheEnd
  <2> HIDE DEF top, pc, more, shown
  <2>7. reading'.pc = pc /\ reading'.after = top
    BY <2>1
  <2>8. ReportsTypeOK'
    <3>1. listed' \in [Reports -> Nat]
      BY <1>2, <2>1
    <3>2. top \in 0 .. LastReport
      BY <2>4 DEF Reports
    <3> QED
      BY <1>1, <2>1, <2>5, <2>6, <3>1, <3>2 DEF ReportsTypeOK
  <2>9. \A i \in Looked : listed[i] = 0
    BY <1>5, PageOfReports
  <2>10. \A i \in Reports : listed'[i] <= 1
    BY <1>2, <1>5, <2>1, <2>9
  <2>11. \A i \in Reports : i > top => listed'[i] = 0
    <3>1. ASSUME NEW i \in Reports, i > top PROVE listed'[i] = 0
      <4>1. i \in Nat /\ top \in Nat /\ reading.after \in Nat
        BY <1>2, <1>4, <2>4
      <4>2. i \notin Looked
        BY <2>3, <3>1, <4>1
      <4>3. i > reading.after
        BY <2>4, <3>1, <4>1
      <4> QED
        BY <1>5, <2>1, <4>2, <4>3
    <3> QED
      BY <3>1
  <2>12. \A i \in lasting : i <= top => listed'[i] = 1
    <3>1. ASSUME NEW i \in lasting, i <= top PROVE listed'[i] = 1
      <4>1. CASE i <= reading.after
        <5>1. i \notin Looked
          BY <1>6, <4>1, PageOfReports
        <5> QED
          BY <1>2, <1>5, <2>1, <4>1, <5>1
      <4>2. CASE reading.after < i
        <5>1. i \in Looked
          BY <1>1, <1>3, <2>3, <3>1, <4>2, LookedHasNoGap
        <5> QED
          BY <1>2, <1>3, <2>1, <2>9, <5>1
      <4> QED
        BY <1>6, <4>1, <4>2
    <3> QED
      BY <3>1
  <2>13. ASSUME pc = "ended" PROVE \A i \in lasting : listed'[i] = 1
    <3>1. ASSUME NEW i \in lasting PROVE i <= top
      <4>1. CASE i <= reading.after
        BY <1>4, <1>6, <2>4, <3>1, <4>1
      <4>2. CASE reading.after < i
        <5>1. i \in Page
          BY <1>1, <1>3, <2>6, <2>13, <3>1, <4>2, LastPage
        <5> QED
          BY <2>3, <2>6, <2>13, <5>1
      <4> QED
        BY <1>6, <3>1, <4>1, <4>2
    <3> QED
      BY <2>12, <3>1
  <2> QED
    BY <1>1, <1>3, <2>7, <2>8, <2>10, <2>11, <2>12, <2>13 DEF RInv
<1> QED
  BY <1>7, <1>8

LEMMA ReportsStep == RInv /\ [ReportsNext]_reportsVars => RInv'
<1> USE ReportsAssumption
<1> SUFFICES ASSUME RInv, [ReportsNext]_reportsVars PROVE RInv'
  OBVIOUS
<1>1. ReportsTypeOK /\ reading \in [pc : {"idle", "scan", "ended"}, after : 0 .. LastReport, scanned : Nat, found : Nat]
  BY DEF RInv, ReportsTypeOK
<1>2. ASSUME NEW i \in Reports, CreateReport(i) PROVE RInv'
  <2>1. bucket' \in 0 .. ReportLimit
    BY <1>1, <1>2 DEF CreateReport, ReportsTypeOK
  <2> QED
    BY <1>2, <2>1, ReportChanges DEF CreateReport
<1>3. ASSUME NEW i \in Reports, ReportExpires(i) PROVE RInv'
  BY <1>1, <1>3, ReportChanges DEF ReportExpires, ReportsTypeOK
<1>4. ASSUME NEW i \in Reports, RemoveReport(i) PROVE RInv'
  BY <1>1, <1>4, ReportChanges DEF RemoveReport, ReportsTypeOK
<1>5. ASSUME NEW i \in Reports, NEW s \in {"in_review", "resolved", "closed"}, TransitionReport(i, s)
      PROVE  RInv'
  BY <1>1, <1>5, ReportChanges DEF TransitionReport, ReportsTypeOK
<1>6. ASSUME WindowEnds PROVE RInv'
  BY <1>6 DEF WindowEnds, RInv, ReportsTypeOK, Pending
<1>7. ASSUME StartWalk PROVE RInv'
  <2>1. reading' = [pc |-> "scan", after |-> 0, scanned |-> 0, found |-> 0]
    BY <1>7 DEF StartWalk, Unread
  <2>2. reading'.pc = "scan" /\ reading'.after = 0
    BY <2>1
  <2>3. ReportsTypeOK'
    <3>1. lasting' \subseteq Reports /\ listed' \in [Reports -> Nat]
      BY <1>7 DEF StartWalk
    <3>2. reading' \in [pc : {"idle", "scan", "ended"}, after : 0 .. LastReport, scanned : Nat, found : Nat]
      BY <2>1
    <3>3. UNCHANGED <<report, bucket, changes>>
      BY <1>7 DEF StartWalk
    <3> QED
      BY <1>1, <3>1, <3>2, <3>3 DEF ReportsTypeOK
  <2>4. \A i \in Reports : i \in Nat /\ ~(i <= 0) /\ listed'[i] = 0
    BY <1>7 DEF StartWalk, Reports
  <2>5. lasting' \subseteq Reports /\ \A i \in lasting' : Pending(i)'
    BY <1>7 DEF StartWalk, Pending
  <2> QED
    BY <2>2, <2>3, <2>4, <2>5 DEF RInv
<1>8. ASSUME NextCursor PROVE RInv'
  <2>1. UNCHANGED <<report, bucket, listed, lasting, changes>> /\ reading.pc = "scan"
    BY <1>8 DEF NextCursor
  <2>2. \A i \in lasting : Pending(i)'
    BY <2>1 DEF RInv, Pending
  <2>3. CASE \E i \in There : i > reading.after
    <3>1. reading' = [pc |-> "scan", after |-> reading.after, scanned |-> 0, found |-> 0]
      BY <1>8, <2>3 DEF NextCursor, Unread
    <3>2. ReportsTypeOK'
      BY <1>1, <2>1, <3>1 DEF ReportsTypeOK
    <3> QED
      BY <2>1, <2>2, <3>1, <3>2 DEF RInv
  <2>4. CASE ~\E i \in There : i > reading.after
    <3>1. reading' = [reading EXCEPT !.pc = "ended"]
      BY <1>8, <2>4 DEF NextCursor
    <3>2. ReportsTypeOK' /\ reading'.pc = "ended"
      BY <1>1, <2>1, <3>1 DEF ReportsTypeOK
    <3>3. ASSUME NEW i \in lasting PROVE listed[i] = 1
      <4>1. i \in Reports /\ Pending(i)
        BY <1>1 DEF RInv, ReportsTypeOK
      <4>2. i \in There
        BY <4>1 DEF There, Pending
      <4>3. i <= reading.after
        BY <1>1, <2>4, <4>1, <4>2 DEF Reports
      <4> QED
        BY <2>1, <4>3 DEF RInv
    <3> QED
      BY <2>1, <2>2, <3>2, <3>3 DEF RInv
  <2> QED
    BY <2>3, <2>4
<1>9. ASSUME EndWalk PROVE RInv'
  <2>1. reading' = [pc |-> "idle", after |-> 0, scanned |-> 0, found |-> 0]
    BY <1>9 DEF EndWalk, Unread
  <2> QED
    BY <1>1, <1>9, <2>1 DEF EndWalk, RInv, ReportsTypeOK, Pending
<1>10. ASSUME UNCHANGED reportsVars PROVE RInv'
  BY <1>10 DEF reportsVars, RInv, ReportsTypeOK, Pending
<1> QED
  BY <1>2, <1>3, <1>4, <1>5, <1>6, <1>7, <1>8, <1>9, <1>10, ReportScanned DEF ReportsNext

THEOREM ReportsInvariance == ReportsSpec => []RInv
BY ReportsInitially, ReportsStep, PTL DEF ReportsSpec

\* Whatever is made, decided or expires while the queue is read page by page, no
\* report is shown twice and none that was due all the while is left out.
THEOREM WalkIsWhole == ReportsSpec => []WalkShowsEverything
<1>1. RInv => WalkShowsEverything
  BY DEF RInv, WalkShowsEverything
<1> QED
  BY <1>1, ReportsInvariance, PTL

-----------------------------------------------------------------------------
(* The security incident *)

NoticeRecord ==
  [status : {"none", "pending", "sent", "failed", "unknown", "superseded"},
   to : Subjects \cup {Nobody}, version : 0 .. MaxVersion, life : Life,
   pc : {"idle", "send", "finish", "done"}, outcome : {"sent", "failed", "unknown"}]

\* A notice names somebody whom its version names, and its key is there unless
\* it was collected; what is called sent, or is about to be, has reached somebody.
NoticeOK(n) ==
  /\ notice[n].status # "none" =>
       /\ notice[n].to \in Subjects /\ notice[n].version \in Versions
       /\ notice[n].version <= incident.version
       /\ notice[n].to \in snapshot[notice[n].version].to
       /\ \/ Lives(noticeKey[notice[n].to][notice[n].version])
          \/ <<notice[n].to, notice[n].version>> \in lapsed
  /\ notice[n].status = "sent" => n \in reached
  /\ notice[n].pc = "finish" /\ notice[n].outcome = "sent" => n \in reached

NInv == IncidentTypeOK /\ (\A n \in Notices : NoticeOK(n)) /\ NoticeSentOnce /\ HeldDocumentsStay

LEMMA NoticeTypes ==
  ASSUME IncidentTypeOK
  PROVE  /\ notice \in [Notices -> NoticeRecord]
         /\ \A n \in Notices : notice[n] \in NoticeRecord
         /\ incident.version \in Nat /\ incident.hold \in BOOLEAN
BY IncidentAssumption DEF IncidentTypeOK, NoticeRecord, Incident

\* A decision adds one to the revision of what it writes.
LEMMA ActKeeps ==
  ASSUME NEW r \in Incident, incident \in Incident, Act(r)
  PROVE  /\ incident' \in Incident /\ incident'.status = r.status /\ incident'.version = r.version
         /\ incident'.hold = r.hold
<1> DEFINE k == incident.revision + 1
<1>1. k \in Nat
  BY DEF Incident
<1>2. incident' = [r EXCEPT !.revision = k]
  BY DEF Act
<1> HIDE DEF k
<1> QED
  BY <1>1, <1>2 DEF Incident

\* A decision about the incident alone.
LEMMA IncidentAlone ==
  ASSUME NInv, incident' \in Incident, incident'.version = incident.version,
         incident'.hold => incident.hold,
         UNCHANGED <<snapshot, notice, noticeKey, reached, lapsed>>
  PROVE  NInv'
<1>1. IncidentTypeOK'
  BY DEF NInv, IncidentTypeOK
<1>2. \A n \in Notices : NoticeOK(n)'
  BY DEF NInv, NoticeOK, Lives
<1>3. NoticeSentOnce' /\ HeldDocumentsStay'
  BY DEF NInv, NoticeSentOnce, HeldDocumentsStay
<1> QED
  BY <1>1, <1>2, <1>3 DEF NInv

\* Notices go on: whom they name and of which version stays.
LEMMA NoticesGoOn ==
  ASSUME NInv, incident' \in Incident, incident'.version = incident.version, incident'.hold = incident.hold,
         UNCHANGED <<snapshot, noticeKey, lapsed>>, reached \subseteq reached', reached' \subseteq Notices,
         notice' \in [Notices -> NoticeRecord],
         \A n \in Notices :
           /\ notice'[n].to = notice[n].to /\ notice'[n].version = notice[n].version
           /\ notice'[n].life = notice[n].life
           /\ notice'[n].status # "none" => notice[n].status # "none"
           /\ notice'[n].status = "sent" => n \in reached'
           /\ notice'[n].pc = "finish" /\ notice'[n].outcome = "sent" => n \in reached'
  PROVE  NInv'
<1>1. IncidentTypeOK'
  BY DEF NInv, IncidentTypeOK, NoticeRecord
<1>2. \A n \in Notices : NoticeOK(n)'
  BY DEF NInv, NoticeOK, Lives
<1>3. NoticeSentOnce'
  BY DEF NInv, NoticeSentOnce
<1>4. HeldDocumentsStay'
  BY DEF NInv, HeldDocumentsStay
<1> QED
  BY <1>1, <1>2, <1>3, <1>4 DEF NInv

\* Expiries are set anew: no document comes or goes.
LEMMA LivesChange ==
  ASSUME NInv, incident' \in Incident, incident'.version = incident.version, UNCHANGED <<reached, lapsed>>,
         NEW f \in [Life -> Life], NEW g \in [Life -> Life], NEW k \in [Life -> Life], SetLives(f, g, k),
         \A l \in Life : Lives(k[l]) = Lives(l),
         incident'.hold =>
           /\ \A v \in Versions : f[snapshot[v].life] \notin {"dated", "due", "archived"}
           /\ \A n \in Notices : g[notice[n].life] \notin {"dated", "due"}
           /\ \A r \in Subjects, v \in Versions : k[noticeKey[r][v]] \notin {"dated", "due"}
  PROVE  NInv'
<1>1. /\ snapshot \in [Versions -> [to : SUBSET Subjects, life : Life]]
      /\ notice \in [Notices -> NoticeRecord] /\ noticeKey \in [Subjects -> [Versions -> Life]]
  BY NoticeTypes DEF NInv, IncidentTypeOK
<1>2. \A v \in Versions :
        /\ snapshot'[v] \in [to : SUBSET Subjects, life : Life]
        /\ snapshot'[v].to = snapshot[v].to /\ snapshot'[v].life = f[snapshot[v].life]
  BY <1>1 DEF SetLives
<1>3. \A n \in Notices :
        /\ notice'[n] \in NoticeRecord
        /\ notice'[n].to = notice[n].to /\ notice'[n].version = notice[n].version
        /\ notice'[n].status = notice[n].status /\ notice'[n].pc = notice[n].pc
        /\ notice'[n].outcome = notice[n].outcome /\ notice'[n].life = g[notice[n].life]
  <2> TAKE n \in Notices
  <2> DEFINE life == g[notice[n].life]
  <2>1. notice[n] \in NoticeRecord /\ life \in Life
    BY <1>1 DEF NoticeRecord
  <2>2. notice'[n] = [notice[n] EXCEPT !.life = life]
    BY <1>1 DEF SetLives
  <2> HIDE DEF life
  <2>3. /\ notice'[n] \in NoticeRecord
        /\ notice'[n].to = notice[n].to /\ notice'[n].version = notice[n].version
        /\ notice'[n].status = notice[n].status /\ notice'[n].pc = notice[n].pc
        /\ notice'[n].outcome = notice[n].outcome /\ notice'[n].life = life
    BY <2>1, <2>2 DEF NoticeRecord
  <2> QED
    BY <2>3 DEF life
<1>4. \A r \in Subjects, v \in Versions : noticeKey'[r][v] = k[noticeKey[r][v]] /\ noticeKey[r][v] \in Life
  BY <1>1 DEF SetLives
<1>5. /\ snapshot' \in [Versions -> [to : SUBSET Subjects, life : Life]]
      /\ notice' \in [Notices -> NoticeRecord] /\ noticeKey' \in [Subjects -> [Versions -> Life]]
  BY <1>1, <1>2, <1>3, <1>4 DEF SetLives
<1>6. IncidentTypeOK'
  BY <1>5 DEF NInv, IncidentTypeOK, NoticeRecord
<1>7. \A r \in Subjects, v \in Versions : Lives(noticeKey[r][v])' = Lives(noticeKey[r][v])
  BY <1>4 DEF Lives
<1>8. \A n \in Notices : NoticeOK(n)'
  BY <1>2, <1>3, <1>7 DEF NInv, NoticeOK
<1>9. NoticeSentOnce'
  BY <1>3 DEF NInv, NoticeSentOnce
<1>10. HeldDocumentsStay'
  BY <1>2, <1>3, <1>4 DEF HeldDocumentsStay
<1> QED
  BY <1>6, <1>8, <1>9, <1>10 DEF NInv

LEMMA AllLives ==
  ASSUME NEW life \in {"kept", "dated", "archived"}
  PROVE  /\ All(life) \in [Life -> Life]
         /\ \A l \in Life : Lives(All(life)[l]) = Lives(l)
         /\ \A l \in Life : All(life)[l] \in {life, "none", "gone"}
BY DEF All, Life, Lives

LEMMA UntouchedLives ==
  Untouched \in [Life -> Life] /\ \A l \in Life : Untouched[l] = l
BY DEF Untouched

LEMMA IncidentDecisions ==
  ASSUME NInv, NEW r \in Incident, r.version = incident.version, r.hold = incident.hold,
         Act(r), UNCHANGED <<snapshot, notice, noticeKey, reached, lapsed>>
  PROVE  NInv'
<1>1. incident \in Incident
  BY DEF NInv, IncidentTypeOK
<1>2. incident' \in Incident /\ incident'.version = r.version /\ incident'.hold = r.hold
  BY <1>1, ActKeeps
<1> QED
  BY <1>2, IncidentAlone

\* Every decision about the incident alone.
LEMMA DecisionsAlone ==
  ASSUME NInv,
         \/ AcknowledgeAwareness \/ CorrectAssessment \/ PrepareAuthorityExport
         \/ RecordAuthoritySubmission \/ ReviewIncident
         \/ \E c \in {"triage", "breach_confirmed", "not_a_breach"} : Classify(c)
         \/ \E d \in Decisions, e \in BOOLEAN : DecideAuthority(d, e) \/ DecideSubject(d, e)
  PROVE  NInv'
<1>1. incident \in Incident
  BY DEF NInv, IncidentTypeOK
<1>2. ASSUME AcknowledgeAwareness PROVE NInv'
  <2> DEFINE r == [incident EXCEPT !.aware = TRUE]
  <2>1. r \in Incident /\ r.version = incident.version /\ r.hold = incident.hold
    BY <1>1 DEF Incident, Decisions
  <2>2. Act(r) /\ UNCHANGED <<snapshot, notice, noticeKey, reached, lapsed>>
    BY <1>2 DEF AcknowledgeAwareness, OpenAct
  <2> HIDE DEF r
  <2> QED
    BY <2>1, <2>2, IncidentDecisions
<1>3. ASSUME NEW c \in {"triage", "breach_confirmed", "not_a_breach"}, Classify(c) PROVE NInv'
  <2> DEFINE r == [incident EXCEPT !.classification = c]
  <2>1. r \in Incident /\ r.version = incident.version /\ r.hold = incident.hold
    BY <1>1 DEF Incident, Decisions
  <2>2. Act(r) /\ UNCHANGED <<snapshot, notice, noticeKey, reached, lapsed>>
    BY <1>3 DEF Classify, OpenAct
  <2> HIDE DEF r
  <2> QED
    BY <2>1, <2>2, IncidentDecisions
<1>4. ASSUME CorrectAssessment PROVE NInv'
  BY <1>1, <1>4, IncidentDecisions DEF CorrectAssessment, OpenAct
<1>5. ASSUME NEW d \in Decisions, NEW e \in BOOLEAN, DecideAuthority(d, e) PROVE NInv'
  <2> DEFINE r == [incident EXCEPT !.authority = d, !.authorityException = e]
  <2>1. r \in Incident /\ r.version = incident.version /\ r.hold = incident.hold
    BY <1>1 DEF Incident, Decisions
  <2>2. Act(r) /\ UNCHANGED <<snapshot, notice, noticeKey, reached, lapsed>>
    BY <1>5 DEF DecideAuthority, OpenAct
  <2> HIDE DEF r
  <2> QED
    BY <2>1, <2>2, IncidentDecisions
<1>6. ASSUME NEW d \in Decisions, NEW e \in BOOLEAN, DecideSubject(d, e) PROVE NInv'
  <2> DEFINE r == [incident EXCEPT !.subject = d, !.subjectException = e]
  <2>1. r \in Incident /\ r.version = incident.version /\ r.hold = incident.hold
    BY <1>1 DEF Incident, Decisions
  <2>2. Act(r) /\ UNCHANGED <<snapshot, notice, noticeKey, reached, lapsed>>
    BY <1>6 DEF DecideSubject, OpenAct
  <2> HIDE DEF r
  <2> QED
    BY <2>1, <2>2, IncidentDecisions
<1>7. ASSUME PrepareAuthorityExport PROVE NInv'
  <2> DEFINE r == [incident EXCEPT !.exported = TRUE]
  <2>1. r \in Incident /\ r.version = incident.version /\ r.hold = incident.hold
    BY <1>1 DEF Incident, Decisions
  <2>2. Act(r) /\ UNCHANGED <<snapshot, notice, noticeKey, reached, lapsed>>
    BY <1>7 DEF PrepareAuthorityExport, OpenAct
  <2> HIDE DEF r
  <2> QED
    BY <2>1, <2>2, IncidentDecisions
<1>8. ASSUME RecordAuthoritySubmission PROVE NInv'
  <2> DEFINE r == [incident EXCEPT !.submitted = TRUE]
  <2>1. r \in Incident /\ r.version = incident.version /\ r.hold = incident.hold
    BY <1>1 DEF Incident, Decisions
  <2>2. Act(r) /\ UNCHANGED <<snapshot, notice, noticeKey, reached, lapsed>>
    BY <1>8 DEF RecordAuthoritySubmission, OpenAct
  <2> HIDE DEF r
  <2> QED
    BY <2>1, <2>2, IncidentDecisions
<1>9. ASSUME ReviewIncident PROVE NInv'
  BY <1>1, <1>9, IncidentDecisions DEF ReviewIncident, OpenAct
<1> QED
  BY <1>2, <1>3, <1>4, <1>5, <1>6, <1>7, <1>8, <1>9

LEMMA IncidentCreated == NInv /\ CreateIncident => NInv'
<1> SUFFICES ASSUME NInv, CreateIncident PROVE NInv'
  OBVIOUS
<1>1. incident \in Incident /\ incident' = [incident EXCEPT !.status = "open"]
  BY DEF NInv, IncidentTypeOK, CreateIncident
<1>2. incident' \in Incident /\ incident'.version = incident.version /\ incident'.hold = incident.hold
  BY <1>1 DEF Incident
<1> QED
  BY <1>2, IncidentAlone DEF CreateIncident

\* A hold, a release, the closing and thirty days: only expiries change.
LEMMA HoldsAndCloses ==
  ASSUME NInv, HoldIncident \/ ReleaseIncident \/ CloseIncident \/ MonthPasses
  PROVE  NInv'
<1>1. incident \in Incident /\ IncidentTypeOK
  BY DEF NInv, IncidentTypeOK
<1>2. /\ \A v \in Versions : snapshot[v].life \in Life
      /\ \A n \in Notices : notice[n].life \in Life
      /\ \A r \in Subjects, v \in Versions : noticeKey[r][v] \in Life
  BY <1>1 DEF IncidentTypeOK
<1>3. Evidence \in {"archived", "dated"}
  BY DEF Evidence
<1>4. ASSUME HoldIncident PROVE NInv'
  <2> DEFINE r == [incident EXCEPT !.hold = TRUE]
  <2>1. r \in Incident /\ r.version = incident.version
    BY <1>1 DEF Incident
  <2>2. Act(r) /\ UNCHANGED <<reached, lapsed>> /\ SetLives(All("kept"), All("kept"), All("kept"))
    BY <1>4 DEF HoldIncident, HoldsKeys
  <2> HIDE DEF r
  <2>3. incident' \in Incident /\ incident'.version = incident.version
    BY <1>1, <2>1, <2>2, ActKeeps
  <2>4. /\ All("kept") \in [Life -> Life] /\ \A l \in Life : Lives(All("kept")[l]) = Lives(l)
        /\ \A l \in Life : All("kept")[l] \in {"kept", "none", "gone"}
    BY AllLives
  <2> QED
    BY <1>2, <2>2, <2>3, <2>4, LivesChange
<1>5. ASSUME ReleaseIncident PROVE NInv'
  <2> DEFINE r == [incident EXCEPT !.hold = FALSE]
             Proof == IF incident.status = "closed" THEN All(Evidence) ELSE Untouched
             Others == IF incident.status = "closed" THEN All("dated") ELSE Untouched
  <2>1. r \in Incident /\ r.version = incident.version /\ r.hold = FALSE
    BY <1>1 DEF Incident
  <2>2. Act(r) /\ UNCHANGED <<reached, lapsed>> /\ SetLives(Proof, Others, Others)
    BY <1>5 DEF ReleaseIncident
  <2>3. Proof \in [Life -> Life] /\ Others \in [Life -> Life] /\ \A l \in Life : Lives(Others[l]) = Lives(l)
    BY <1>3, AllLives, UntouchedLives
  <2> HIDE DEF r, Proof, Others
  <2>4. incident' \in Incident /\ incident'.version = incident.version /\ ~incident'.hold
    BY <1>1, <2>1, <2>2, ActKeeps
  <2> QED
    BY <2>2, <2>3, <2>4, LivesChange
<1>6. ASSUME CloseIncident PROVE NInv'
  <2> DEFINE r == [incident EXCEPT !.status = "closed"]
             proof == IF incident.hold THEN "kept" ELSE Evidence
             other == IF incident.hold THEN "kept" ELSE "dated"
             Proof == All(proof)
             Others == All(other)
  <2>1. r \in Incident /\ r.version = incident.version /\ r.hold = incident.hold
    BY <1>1 DEF Incident
  <2>2. Act(r) /\ UNCHANGED <<reached, lapsed>> /\ SetLives(Proof, Others, Others)
    BY <1>6 DEF CloseIncident, OpenAct
  <2>3. /\ proof \in {"kept", "dated", "archived"} /\ other \in {"kept", "dated", "archived"}
        /\ incident.hold => proof = "kept" /\ other = "kept"
    BY <1>3
  <2> HIDE DEF r, proof, other
  <2>4. /\ Proof \in [Life -> Life] /\ Others \in [Life -> Life]
        /\ \A l \in Life : Lives(Others[l]) = Lives(l)
        /\ \A l \in Life : Proof[l] \in {proof, "none", "gone"} /\ Others[l] \in {other, "none", "gone"}
    BY <2>3, AllLives
  <2> HIDE DEF Proof, Others
  <2>5. incident' \in Incident /\ incident'.version = incident.version /\ incident'.hold = incident.hold
    BY <1>1, <2>1, <2>2, ActKeeps
  <2> QED
    BY <1>2, <2>2, <2>3, <2>4, <2>5, LivesChange
<1>7. ASSUME MonthPasses PROVE NInv'
  <2> DEFINE Due == [Untouched EXCEPT !["dated"] = "due"]
  <2>1. SetLives(Due, Due, Due) /\ UNCHANGED <<incident, reached, lapsed>>
    BY <1>7 DEF MonthPasses
  <2>2. /\ Due \in [Life -> Life] /\ \A l \in Life : Lives(Due[l]) = Lives(l)
        /\ \A l \in Life : Due[l] = IF l = "dated" THEN "due" ELSE l
    BY DEF Untouched, Life, Lives
  <2> HIDE DEF Due
  <2> QED
    BY <1>1, <1>2, <2>1, <2>2, LivesChange DEF NInv, HeldDocumentsStay
<1> QED
  BY <1>4, <1>5, <1>6, <1>7

\* A new version of the notification: no notice is of it yet.
LEMMA NotificationPrepared ==
  ASSUME NInv, NEW people \in SUBSET Subjects, PrepareNotification(people)
  PROVE  NInv'
<1> USE IncidentAssumption
<1> DEFINE v == incident.version + 1
           new == [to |-> people, life |-> NewLife]
           r == [incident EXCEPT !.version = v, !.notification = "prepared"]
<1>1. IncidentTypeOK /\ incident \in Incident /\ incident.version \in Nat
  BY NoticeTypes DEF NInv, IncidentTypeOK
<1>2. /\ v \in Versions /\ Act(r) /\ snapshot' = [snapshot EXCEPT ![v] = new]
      /\ UNCHANGED <<notice, noticeKey, reached, lapsed>>
  BY DEF PrepareNotification, OpenAct
<1>3. v \in 0 .. MaxVersion
  BY <1>2 DEF Versions
<1>4. r \in Incident /\ r.version = v /\ r.hold = incident.hold
  BY <1>1, <1>3 DEF Incident
<1> HIDE DEF r
<1>5. incident' \in Incident /\ incident'.version = v /\ incident'.hold = incident.hold
  BY <1>1, <1>2, <1>4, ActKeeps
<1>6. new \in [to : SUBSET Subjects, life : Life] /\ new.life = NewLife
  BY DEF NewLife, Life
<1>7. snapshot \in [Versions -> [to : SUBSET Subjects, life : Life]]
  BY <1>1 DEF IncidentTypeOK
<1> HIDE DEF new
<1>8. /\ snapshot' \in [Versions -> [to : SUBSET Subjects, life : Life]]
      /\ \A u \in Versions : snapshot'[u] = IF u = v THEN new ELSE snapshot[u]
  BY <1>2, <1>6, <1>7
<1>9. IncidentTypeOK'
  BY <1>1, <1>2, <1>5, <1>8 DEF IncidentTypeOK
<1>10. \A n \in Notices : NoticeOK(n)'
  <2>1. ASSUME NEW n \in Notices, notice[n].status # "none", notice[n].version <= incident.version
        PROVE  notice[n].version # v /\ notice[n].version <= v
    <3>1. notice[n].version \in Nat
      BY <1>1 DEF IncidentTypeOK
    <3> QED
      BY <1>1, <2>1, <3>1
  <2> HIDE DEF v
  <2> QED
    BY <1>2, <1>5, <1>8, <2>1 DEF NInv, NoticeOK, Lives
<1>11. NoticeSentOnce'
  BY <1>2 DEF NInv, NoticeSentOnce
<1>12. HeldDocumentsStay'
  BY <1>2, <1>5, <1>6, <1>8 DEF NInv, HeldDocumentsStay, NewLife
<1> QED
  BY <1>9, <1>10, <1>11, <1>12 DEF NInv

LEMMA NoNoticeType ==
  NoNotice \in NoticeRecord /\ NoNotice.status = "none" /\ NoNotice.outcome = "unknown"
BY IncidentAssumption DEF NoNotice, NoticeRecord, Life

\* A notice is staged: its key was not there, so that whoever has a notice of this
\* version already had a key that was collected.
LEMMA NoticeStaged ==
  ASSUME NInv, NEW n \in Notices, NEW r \in Subjects, StageNotice(n, r)
  PROVE  NInv'
<1> USE IncidentAssumption
<1> DEFINE v == incident.version
           life == NewLife
           new == [NoNotice EXCEPT !.status = "pending", !.to = r, !.version = v, !.life = life,
                                   !.pc = "send"]
           s == [incident EXCEPT !.notification = "pending"]
<1>1. IncidentTypeOK /\ incident \in Incident /\ incident.version \in Nat
  BY NoticeTypes DEF NInv, IncidentTypeOK
<1>2. /\ v \in Versions /\ r \in snapshot[v].to /\ ~Lives(noticeKey[r][v])
      /\ Act(s) /\ UNCHANGED <<snapshot, reached, lapsed>>
      /\ notice[n] = NoNotice
  BY DEF StageNotice, OpenAct, NotAttempted
<1>3. notice' = [notice EXCEPT ![n] = new]
  BY DEF StageNotice
<1>4. noticeKey' = [noticeKey EXCEPT ![r][v] = life]
  BY DEF StageNotice
<1>5. s \in Incident /\ s.version = v /\ s.hold = incident.hold
  BY <1>1 DEF Incident
<1>6. life \in {"kept", "dated"} /\ (incident.hold => life = "kept")
  BY DEF NewLife
<1> HIDE DEF s, life
<1>7. incident' \in Incident /\ incident'.version = v /\ incident'.hold = incident.hold
  BY <1>1, <1>2, <1>5, ActKeeps
<1>8. /\ new \in NoticeRecord /\ new.status = "pending" /\ new.to = r /\ new.version = v
      /\ new.life = life /\ new.pc = "send"
  <2>1. v \in 0 .. MaxVersion /\ life \in Life
    BY <1>2, <1>6 DEF Versions, Life
  <2> HIDE DEF v
  <2> QED
    BY <2>1, NoNoticeType DEF NoticeRecord
<1>9. /\ notice \in [Notices -> NoticeRecord] /\ noticeKey \in [Subjects -> [Versions -> Life]]
  BY <1>1, NoticeTypes DEF IncidentTypeOK
<1> HIDE DEF v, new
<1>10. /\ notice' \in [Notices -> NoticeRecord]
       /\ \A m \in Notices : notice'[m] = IF m = n THEN new ELSE notice[m]
  BY <1>3, <1>8, <1>9
<1>11. /\ noticeKey' \in [Subjects -> [Versions -> Life]]
       /\ \A q \in Subjects, u \in Versions :
            noticeKey'[q][u] = IF q = r /\ u = v THEN life ELSE noticeKey[q][u]
  BY <1>2, <1>4, <1>6, <1>9 DEF Life
<1>12. IncidentTypeOK'
  BY <1>1, <1>2, <1>7, <1>10, <1>11 DEF IncidentTypeOK, NoticeRecord
<1>13. ASSUME NEW m \in Notices PROVE NoticeOK(m)'
  <2>1. CASE m = n
    <3>1. Lives(noticeKey'[r][v])
      BY <1>2, <1>6, <1>11 DEF Lives
    <3>2. v <= v /\ v \in Nat
      BY <1>1 DEF v
    <3> QED
      BY <1>2, <1>7, <1>8, <1>10, <2>1, <3>1, <3>2 DEF NoticeOK, Lives
  <2>2. CASE m # n
    <3>1. notice'[m] = notice[m] /\ NoticeOK(m)
      BY <1>10, <2>2 DEF NInv
    <3>2. \A q \in Subjects, u \in Versions : Lives(noticeKey[q][u]) => Lives(noticeKey'[q][u])
      BY <1>6, <1>11 DEF Lives
    <3> QED
      BY <1>2, <1>7, <3>1, <3>2 DEF NoticeOK, Lives, v
  <2> QED
    BY <2>1, <2>2
<1>14. \A m \in Notices : m # n /\ notice[m].status # "none" /\ notice[m].to = r /\ notice[m].version = v
                          => <<r, v>> \in lapsed
  BY <1>2 DEF NInv, NoticeOK
<1>15. NoticeSentOnce'
  BY <1>2, <1>8, <1>10, <1>14 DEF NInv, NoticeSentOnce
<1>16. HeldDocumentsStay'
  BY <1>2, <1>6, <1>7, <1>8, <1>10, <1>11 DEF NInv, HeldDocumentsStay
<1> QED
  BY <1>12, <1>13, <1>15, <1>16 DEF NInv

\* One notice goes on.
LEMMA NoticeGoesOn ==
  ASSUME NInv, incident' \in Incident, incident'.version = incident.version, incident'.hold = incident.hold,
         UNCHANGED <<snapshot, noticeKey, lapsed>>, reached \subseteq reached', reached' \subseteq Notices,
         NEW n \in Notices, NEW x \in NoticeRecord, notice' = [notice EXCEPT ![n] = x],
         x.to = notice[n].to, x.version = notice[n].version, x.life = notice[n].life,
         x.status # "none" => notice[n].status # "none",
         x.status = "sent" => n \in reached',
         x.pc = "finish" /\ x.outcome = "sent" => n \in reached'
  PROVE  NInv'
<1>1. notice \in [Notices -> NoticeRecord]
  BY NoticeTypes DEF NInv
<1>2. /\ notice' \in [Notices -> NoticeRecord]
      /\ \A m \in Notices : notice'[m] = IF m = n THEN x ELSE notice[m]
  BY <1>1
<1>3. \A m \in Notices :
           /\ notice'[m].to = notice[m].to /\ notice'[m].version = notice[m].version
           /\ notice'[m].life = notice[m].life
           /\ notice'[m].status # "none" => notice[m].status # "none"
           /\ notice'[m].status = "sent" => m \in reached'
           /\ notice'[m].pc = "finish" /\ notice'[m].outcome = "sent" => m \in reached'
  BY <1>2 DEF NInv, NoticeOK
<1> QED
  BY <1>2, <1>3, NoticesGoOn

\* The deliveries, one by one.
LEMMA NoticeSteps ==
  ASSUME NInv, NEW n \in Notices
  PROVE  /\ \A o \in {"sent", "failed"} : ResolveUnknown(n, o) => NInv'
         /\ \A o \in {"sent", "failed", "unknown"} : SendNotice(n, o) => NInv'
         /\ FinishAgain(n) => NInv'
         /\ DropNotice(n) => NInv'
<1> DEFINE d == notice[n]
<1>1. /\ IncidentTypeOK /\ incident \in Incident /\ notice \in [Notices -> NoticeRecord]
      /\ d \in NoticeRecord /\ reached \subseteq Notices /\ NoticeOK(n)
  BY NoticeTypes DEF NInv, IncidentTypeOK
<1>2. ASSUME NEW o \in {"sent", "failed"}, ResolveUnknown(n, o) PROVE NInv'
  <2> DEFINE x == [d EXCEPT !.status = o]
             r == [incident EXCEPT !.notification = o]
  <2>1. r \in Incident /\ r.version = incident.version /\ r.hold = incident.hold
    BY <1>1 DEF Incident
  <2>2. /\ Act(r) /\ d.status = "unknown" /\ UNCHANGED <<snapshot, noticeKey, lapsed>>
        /\ reached' = IF o = "sent" THEN reached \cup {n} ELSE reached
    BY <1>2 DEF ResolveUnknown, OpenAct
  <2>3. notice' = [notice EXCEPT ![n] = x]
    BY <1>1, <1>2 DEF ResolveUnknown
  <2> HIDE DEF r
  <2>4. incident' \in Incident /\ incident'.version = incident.version /\ incident'.hold = incident.hold
    BY <1>1, <2>1, <2>2, ActKeeps
  <2> HIDE DEF d
  <2>5. /\ x \in NoticeRecord /\ x.to = d.to /\ x.version = d.version /\ x.life = d.life
        /\ x.status = o /\ x.pc = d.pc /\ x.outcome = d.outcome
    BY <1>1 DEF NoticeRecord
  <2> HIDE DEF x
  <2>6. d.pc = "finish" /\ d.outcome = "sent" => n \in reached
    BY <1>1 DEF NoticeOK, d
  <2>7. x.pc = "finish" /\ x.outcome = "sent" => n \in reached'
    BY <2>2, <2>5, <2>6
  <2>8. reached \subseteq reached' /\ reached' \subseteq Notices
    BY <1>1, <2>2
  <2> QED
    BY <2>2, <2>3, <2>4, <2>5, <2>7, <2>8, NoticeGoesOn DEF d
<1>3. ASSUME NEW o \in {"sent", "failed", "unknown"}, SendNotice(n, o) PROVE NInv'
  <2> DEFINE x == [d EXCEPT !.pc = "finish", !.outcome = o]
  <2>1. notice' = [notice EXCEPT ![n] = x]
    BY <1>1, <1>3 DEF SendNotice
  <2>2. /\ UNCHANGED <<incident, snapshot, noticeKey, lapsed>>
        /\ reached' \in {reached, reached \cup {n}} /\ (o = "sent" => n \in reached')
    BY <1>3 DEF SendNotice
  <2> HIDE DEF d
  <2>3. /\ x \in NoticeRecord /\ x.to = d.to /\ x.version = d.version /\ x.life = d.life
        /\ x.status = d.status /\ x.outcome = o
    BY <1>1 DEF NoticeRecord
  <2> HIDE DEF x
  <2>4. reached \subseteq reached' /\ reached' \subseteq Notices
    BY <1>1, <2>2
  <2>5. d.status = "sent" => n \in reached
    BY <1>1 DEF NoticeOK, d
  <2>6. x.status = "sent" => n \in reached'
    BY <2>3, <2>4, <2>5
  <2> QED
    BY <1>1, <2>1, <2>2, <2>3, <2>4, <2>6, NoticeGoesOn DEF d
<1>4. ASSUME FinishAgain(n) PROVE NInv'
  <2> DEFINE x == [d EXCEPT !.outcome = "unknown"]
  <2>1. notice' = [notice EXCEPT ![n] = x] /\ UNCHANGED <<incident, snapshot, noticeKey, reached, lapsed>>
    BY <1>1, <1>4 DEF FinishAgain
  <2> HIDE DEF d
  <2>2. /\ x \in NoticeRecord /\ x.to = d.to /\ x.version = d.version /\ x.life = d.life
        /\ x.status = d.status /\ x.outcome = "unknown"
    BY <1>1 DEF NoticeRecord
  <2> HIDE DEF x
  <2>3. d.status = "sent" => n \in reached
    BY <1>1 DEF NoticeOK, d
  <2> QED
    BY <1>1, <2>1, <2>2, <2>3, NoticeGoesOn DEF d
<1>5. ASSUME DropNotice(n) PROVE NInv'
  <2> DEFINE x == [d EXCEPT !.pc = "done"]
  <2>1. notice' = [notice EXCEPT ![n] = x] /\ UNCHANGED <<incident, snapshot, noticeKey, reached, lapsed>>
    BY <1>1, <1>5 DEF DropNotice
  <2> HIDE DEF d
  <2>2. /\ x \in NoticeRecord /\ x.to = d.to /\ x.version = d.version /\ x.life = d.life
        /\ x.status = d.status /\ x.pc = "done"
    BY <1>1 DEF NoticeRecord
  <2> HIDE DEF x
  <2>3. d.status = "sent" => n \in reached
    BY <1>1 DEF NoticeOK, d
  <2> QED
    BY <1>1, <2>1, <2>2, <2>3, NoticeGoesOn DEF d
<1> QED
  BY <1>2, <1>3, <1>4, <1>5

\* What became of a mail is recorded: as sent only what the mail server took.
LEMMA DeliveryFinished ==
  ASSUME NInv, NEW n \in Notices, FinishDelivery(n)
  PROVE  NInv'
<1> DEFINE d == notice[n]
           current == incident.subject = "required" /\ incident.status = "open" /\ Current(n)
           others == {m \in Notices \ {n} : notice[m].status # "none" /\ notice[m].version = d.version}
           sum == Aggregate({d.outcome} \cup {notice[m].status : m \in others})
           r == [incident EXCEPT !.notification = sum]
           x == [d EXCEPT !.pc = "done"]
           y == [d EXCEPT !.pc = "done", !.status = "superseded"]
           z == [d EXCEPT !.pc = "done", !.status = d.outcome]
<1>1. /\ IncidentTypeOK /\ incident \in Incident /\ notice \in [Notices -> NoticeRecord]
      /\ d \in NoticeRecord /\ reached \subseteq Notices /\ NoticeOK(n)
  BY NoticeTypes DEF NInv, IncidentTypeOK
<1>2. d.pc = "finish" /\ UNCHANGED <<snapshot, noticeKey, reached, lapsed>>
  BY DEF FinishDelivery
<1>3. \/ d.status # "pending" /\ notice' = [notice EXCEPT ![n].pc = "done"] /\ UNCHANGED incident
      \/ /\ d.status = "pending" /\ UNCHANGED incident
         /\ notice' = [notice EXCEPT ![n].pc = "done", ![n].status = "superseded"]
      \/ /\ d.status = "pending" /\ Act(r)
         /\ notice' = [notice EXCEPT ![n].pc = "done", ![n].status = d.outcome]
  <2> HIDE DEF sum
  <2>1. CASE d.status # "pending"
    BY <2>1 DEF FinishDelivery
  <2>2. CASE d.status = "pending" /\ ~current
    BY <2>2 DEF FinishDelivery
  <2>3. CASE d.status = "pending" /\ current
    BY <2>3 DEF FinishDelivery, sum
  <2> QED
    BY <2>1, <2>2, <2>3
<1>4. sum \in {"unknown", "failed", "sent", "pending"}
  BY DEF Aggregate
<1> HIDE DEF sum
<1>5. r \in Incident /\ r.version = incident.version /\ r.hold = incident.hold
  BY <1>1, <1>4 DEF Incident
<1> HIDE DEF r
<1>6. d.outcome = "sent" => n \in reached
  BY <1>1, <1>2 DEF NoticeOK
<1>7. d.status = "sent" => n \in reached
  BY <1>1 DEF NoticeOK
<1>8. \/ d.status # "pending" /\ notice' = [notice EXCEPT ![n] = x] /\ UNCHANGED incident
      \/ d.status = "pending" /\ UNCHANGED incident /\ notice' = [notice EXCEPT ![n] = y]
      \/ d.status = "pending" /\ Act(r) /\ notice' = [notice EXCEPT ![n] = z]
  BY <1>1, <1>3
<1> HIDE DEF d
<1>9. /\ x \in NoticeRecord /\ x.to = d.to /\ x.version = d.version /\ x.life = d.life
      /\ x.status = d.status /\ x.pc = "done"
  BY <1>1 DEF NoticeRecord
<1>10. /\ y \in NoticeRecord /\ y.to = d.to /\ y.version = d.version /\ y.life = d.life
       /\ y.status = "superseded" /\ y.pc = "done"
  BY <1>1 DEF NoticeRecord
<1>11. /\ z \in NoticeRecord /\ z.to = d.to /\ z.version = d.version /\ z.life = d.life
       /\ z.status = d.outcome /\ z.pc = "done"
  BY <1>1 DEF NoticeRecord
<1> HIDE DEF x, y, z
<1>12. CASE UNCHANGED incident /\ notice' = [notice EXCEPT ![n] = x]
  BY <1>1, <1>2, <1>7, <1>9, <1>12, NoticeGoesOn DEF d
<1>13. CASE d.status = "pending" /\ UNCHANGED incident /\ notice' = [notice EXCEPT ![n] = y]
  BY <1>1, <1>2, <1>10, <1>13, NoticeGoesOn DEF d
<1>14. CASE d.status = "pending" /\ Act(r) /\ notice' = [notice EXCEPT ![n] = z]
  <2>1. incident' \in Incident /\ incident'.version = incident.version /\ incident'.hold = incident.hold
    BY <1>1, <1>5, <1>14, ActKeeps
  <2> QED
    BY <1>1, <1>2, <1>6, <1>11, <1>14, <2>1, NoticeGoesOn DEF d
<1> QED
  BY <1>8, <1>12, <1>13, <1>14

LEMMA NoticesReconciled ==
  ASSUME NInv, NEW old \in SUBSET Notices, ReconcileNotifications(old)
  PROVE  NInv'
<1> DEFINE r == [incident EXCEPT !.notification = "unknown"]
<1>1. IncidentTypeOK /\ incident \in Incident /\ notice \in [Notices -> NoticeRecord] /\ reached \subseteq Notices
  BY NoticeTypes DEF NInv, IncidentTypeOK
<1>2. r \in Incident /\ r.version = incident.version /\ r.hold = incident.hold
  BY <1>1 DEF Incident
<1>3. Act(r) /\ UNCHANGED <<snapshot, noticeKey, reached, lapsed>>
  BY DEF ReconcileNotifications, OpenAct
<1> HIDE DEF r
<1>4. incident' \in Incident /\ incident'.version = incident.version /\ incident'.hold = incident.hold
  BY <1>1, <1>2, <1>3, ActKeeps
<1>5. notice' = [n \in Notices |-> IF n \in old THEN [notice[n] EXCEPT !.status = "unknown"] ELSE notice[n]]
  BY DEF ReconcileNotifications
<1>6. \A n \in old : notice[n].status = "pending"
  BY DEF ReconcileNotifications
<1>7. \A n \in Notices :
           /\ notice'[n] \in NoticeRecord
           /\ notice'[n].to = notice[n].to /\ notice'[n].version = notice[n].version
           /\ notice'[n].life = notice[n].life
           /\ notice'[n].status # "none" => notice[n].status # "none"
           /\ notice'[n].status = "sent" => n \in reached
           /\ notice'[n].pc = "finish" /\ notice'[n].outcome = "sent" => n \in reached
  <2> TAKE n \in Notices
  <2>1. NoticeOK(n) /\ notice[n] \in NoticeRecord
    BY <1>1 DEF NInv
  <2>2. CASE n \in old
    <3> DEFINE x == [notice[n] EXCEPT !.status = "unknown"]
    <3>1. notice'[n] = x
      BY <1>5, <2>2
    <3>2. /\ x \in NoticeRecord /\ x.to = notice[n].to /\ x.version = notice[n].version
          /\ x.life = notice[n].life /\ x.status = "unknown" /\ x.pc = notice[n].pc
          /\ x.outcome = notice[n].outcome
      BY <2>1 DEF NoticeRecord
    <3> HIDE DEF x
    <3> QED
      BY <1>6, <2>1, <2>2, <3>1, <3>2 DEF NoticeOK
  <2>3. CASE n \notin old
    <3>1. notice'[n] = notice[n]
      BY <1>5, <2>3
    <3> QED
      BY <2>1, <3>1 DEF NoticeOK
  <2> QED
    BY <2>2, <2>3
<1>8. notice' \in [Notices -> NoticeRecord]
  BY <1>5, <1>7
<1> QED
  BY <1>1, <1>3, <1>4, <1>7, <1>8, NoticesGoOn

\* Firestore's TTL takes one document.
LEMMA Collected ==
  ASSUME NInv
  PROVE  /\ \A v \in Versions : CollectSnapshot(v) => NInv'
         /\ \A n \in Notices : CollectNotice(n) => NInv'
         /\ \A v \in Versions, r \in Subjects : CollectKey(r, v) => NInv'
<1>1. /\ IncidentTypeOK /\ incident \in Incident /\ notice \in [Notices -> NoticeRecord]
      /\ snapshot \in [Versions -> [to : SUBSET Subjects, life : Life]]
      /\ noticeKey \in [Subjects -> [Versions -> Life]] /\ lapsed \subseteq Subjects \X Versions
  BY NoticeTypes DEF NInv, IncidentTypeOK
<1>2. ASSUME NEW v \in Versions, CollectSnapshot(v) PROVE NInv'
  <2> DEFINE s == [snapshot[v] EXCEPT !.life = "gone"]
  <2>1. /\ snapshot' = [snapshot EXCEPT ![v] = s]
        /\ UNCHANGED <<incident, notice, noticeKey, reached, lapsed>>
    BY <1>1, <1>2 DEF CollectSnapshot
  <2>2. s \in [to : SUBSET Subjects, life : Life] /\ s.to = snapshot[v].to /\ s.life = "gone"
    BY <1>1 DEF Life
  <2> HIDE DEF s
  <2>3. /\ snapshot' \in [Versions -> [to : SUBSET Subjects, life : Life]]
        /\ \A u \in Versions : snapshot'[u] = IF u = v THEN s ELSE snapshot[u]
    BY <1>1, <2>1, <2>2
  <2>4. IncidentTypeOK'
    BY <1>1, <2>1, <2>3 DEF IncidentTypeOK
  <2>5. \A n \in Notices : NoticeOK(n)'
    BY <2>1, <2>2, <2>3 DEF NInv, NoticeOK, Lives
  <2>6. NoticeSentOnce' /\ HeldDocumentsStay'
    BY <2>1, <2>2, <2>3 DEF NInv, NoticeSentOnce, HeldDocumentsStay
  <2> QED
    BY <2>4, <2>5, <2>6 DEF NInv
<1>3. ASSUME NEW n \in Notices, CollectNotice(n) PROVE NInv'
  <2> DEFINE x == [NoNotice EXCEPT !.life = "gone"]
  <2>1. /\ notice' = [notice EXCEPT ![n] = x]
        /\ UNCHANGED <<incident, snapshot, noticeKey, reached, lapsed>>
    BY <1>3 DEF CollectNotice
  <2>2. x \in NoticeRecord /\ x.life = "gone" /\ x.status = "none" /\ x.outcome = "unknown"
    BY NoNoticeType DEF NoticeRecord, Life
  <2> HIDE DEF x
  <2>3. /\ notice' \in [Notices -> NoticeRecord]
        /\ \A m \in Notices : notice'[m] = IF m = n THEN x ELSE notice[m]
    BY <1>1, <2>1, <2>2
  <2>4. IncidentTypeOK'
    BY <1>1, <2>1, <2>3 DEF IncidentTypeOK, NoticeRecord
  <2>5. \A m \in Notices : NoticeOK(m)'
    BY <2>1, <2>2, <2>3 DEF NInv, NoticeOK, Lives
  <2>6. NoticeSentOnce' /\ HeldDocumentsStay'
    BY <2>1, <2>2, <2>3 DEF NInv, NoticeSentOnce, HeldDocumentsStay
  <2> QED
    BY <2>4, <2>5, <2>6 DEF NInv
<1>4. ASSUME NEW v \in Versions, NEW r \in Subjects, CollectKey(r, v) PROVE NInv'
  <2>1. /\ noticeKey' = [noticeKey EXCEPT ![r][v] = "gone"] /\ lapsed' = lapsed \cup {<<r, v>>}
        /\ UNCHANGED <<incident, snapshot, notice, reached>>
    BY <1>4 DEF CollectKey
  <2>2. /\ noticeKey' \in [Subjects -> [Versions -> Life]]
        /\ \A q \in Subjects, u \in Versions :
             noticeKey'[q][u] = IF q = r /\ u = v THEN "gone" ELSE noticeKey[q][u]
    BY <1>1, <2>1 DEF Life
  <2>3. IncidentTypeOK'
    BY <1>1, <2>1, <2>2 DEF IncidentTypeOK
  <2>4. \A m \in Notices : NoticeOK(m)'
    BY <2>1, <2>2 DEF NInv, NoticeOK, Lives
  <2>5. NoticeSentOnce' /\ HeldDocumentsStay'
    BY <2>1, <2>2 DEF NInv, NoticeSentOnce, HeldDocumentsStay
  <2> QED
    BY <2>3, <2>4, <2>5 DEF NInv
<1> QED
  BY <1>2, <1>3, <1>4

LEMMA NoticesStep == NInv /\ [IncidentNext]_incidentVars => NInv'
<1> SUFFICES ASSUME NInv, [IncidentNext]_incidentVars PROVE NInv'
  OBVIOUS
<1>1. ASSUME UNCHANGED incidentVars PROVE NInv'
  <2>1. incident \in Incident
    BY DEF NInv, IncidentTypeOK
  <2> QED
    BY <1>1, <2>1, IncidentAlone DEF incidentVars
<1>2. CASE \/ CreateIncident \/ AcknowledgeAwareness \/ CorrectAssessment
           \/ \E c \in {"triage", "breach_confirmed", "not_a_breach"} : Classify(c)
           \/ \E d \in Decisions \ {"undecided"}, e \in BOOLEAN : DecideAuthority(d, e) \/ DecideSubject(d, e)
           \/ PrepareAuthorityExport \/ RecordAuthoritySubmission \/ ReviewIncident
  BY <1>2, IncidentCreated, DecisionsAlone
<1>3. CASE HoldIncident \/ ReleaseIncident \/ CloseIncident \/ MonthPasses
  BY <1>3, HoldsAndCloses
<1>4. CASE \/ \E people \in SUBSET Subjects \ {{}} : PrepareNotification(people)
           \/ \E old \in SUBSET Notices : ReconcileNotifications(old)
           \/ \E n \in Notices, r \in Subjects : StageNotice(n, r)
  BY <1>4, NotificationPrepared, NoticesReconciled, NoticeStaged
<1>5. CASE \/ \E n \in Notices, o \in {"sent", "failed"} : ResolveUnknown(n, o)
           \/ \E n \in Notices, o \in {"sent", "failed", "unknown"} : SendNotice(n, o)
           \/ \E n \in Notices : FinishDelivery(n) \/ FinishAgain(n) \/ DropNotice(n)
  BY <1>5, NoticeSteps, DeliveryFinished
<1>6. CASE \/ \E n \in Notices : CollectNotice(n)
           \/ \E v \in Versions : CollectSnapshot(v) \/ \E r \in Subjects : CollectKey(r, v)
  BY <1>6, Collected
<1> QED
  BY <1>1, <1>2, <1>3, <1>4, <1>5, <1>6 DEF IncidentNext

LEMMA NoticesInitially == IncidentInit => NInv
<1> SUFFICES ASSUME IncidentInit PROVE NInv
  OBVIOUS
<1>1. /\ incident = NoIncident /\ snapshot = [v \in Versions |-> [to |-> {}, life |-> "none"]]
      /\ notice = [n \in Notices |-> NoNotice] /\ reached = {} /\ lapsed = {}
      /\ noticeKey = [r \in Subjects |-> [v \in Versions |-> "none"]]
  BY DEF IncidentInit, IncidentStart
<1>2. NoIncident \in Incident /\ ~NoIncident.hold
  BY IncidentAssumption DEF NoIncident, Incident, Decisions
<1>3. \A n \in Notices : notice[n] \in NoticeRecord /\ notice[n].status = "none" /\ notice[n].outcome = "unknown"
  BY <1>1, NoNoticeType
<1>4. IncidentTypeOK
  <2>1. notice \in [Notices -> NoticeRecord]
    BY <1>1, NoNoticeType
  <2> QED
    BY <1>1, <1>2, <2>1 DEF IncidentTypeOK, NoticeRecord, Life
<1>5. HeldDocumentsStay
  BY <1>1, <1>2 DEF HeldDocumentsStay
<1>6. NoticeSentOnce /\ \A n \in Notices : NoticeOK(n)
  BY <1>3 DEF NoticeSentOnce, NoticeOK
<1> QED
  BY <1>4, <1>5, <1>6 DEF NInv

THEOREM IncidentInvariance == IncidentSpec => []NInv
BY NoticesInitially, NoticesStep, PTL DEF IncidentSpec

\* Nobody is sent a version of the notification twice before its thirty days are
\* over, and a hold keeps every document of the incident.
THEOREM IncidentNoticesHold == IncidentSpec => []NoticesHold
<1>1. NInv => NoticesHold
  BY DEF NInv, NoticesHold
<1> QED
  BY <1>1, IncidentInvariance, PTL

\* Nothing but the closing closes an incident.
LEMMA OnlyClosingCloses ==
  ASSUME NInv, IncidentNext, incident.status = "open", incident'.status = "closed"
  PROVE  CloseIncident
<1>1. incident \in Incident
  BY DEF NInv, IncidentTypeOK
<1> DEFINE Stays == incident.status = "open" => incident'.status = "open"
<1>2. ASSUME CreateIncident PROVE Stays
  BY <1>1, <1>2 DEF CreateIncident, OpenAct, Act, Incident
<1>3. ASSUME AcknowledgeAwareness PROVE Stays
  BY <1>1, <1>3 DEF AcknowledgeAwareness, OpenAct, Act, Incident
<1>4. ASSUME CorrectAssessment PROVE Stays
  BY <1>1, <1>4 DEF CorrectAssessment, OpenAct, Act, Incident
<1>5. ASSUME NEW c \in {"triage", "breach_confirmed", "not_a_breach"}, Classify(c) PROVE Stays
  BY <1>1, <1>5 DEF Classify, OpenAct, Act, Incident
<1>6. ASSUME NEW d \in Decisions, NEW e \in BOOLEAN, DecideAuthority(d, e) PROVE Stays
  BY <1>1, <1>6 DEF DecideAuthority, OpenAct, Act, Incident
<1>7. ASSUME NEW d \in Decisions, NEW e \in BOOLEAN, DecideSubject(d, e) PROVE Stays
  BY <1>1, <1>7 DEF DecideSubject, OpenAct, Act, Incident
<1>8. ASSUME PrepareAuthorityExport PROVE Stays
  BY <1>1, <1>8 DEF PrepareAuthorityExport, OpenAct, Act, Incident
<1>9. ASSUME RecordAuthoritySubmission PROVE Stays
  BY <1>1, <1>9 DEF RecordAuthoritySubmission, OpenAct, Act, Incident
<1>10. ASSUME NEW people \in SUBSET Subjects, PrepareNotification(people) PROVE Stays
  BY <1>1, <1>10 DEF PrepareNotification, OpenAct, Act, Incident
<1>11. ASSUME NEW old \in SUBSET Notices, ReconcileNotifications(old) PROVE Stays
  BY <1>1, <1>11 DEF ReconcileNotifications, OpenAct, Act, Incident
<1>12. ASSUME NEW n \in Notices, NEW o \in {"sent", "failed"}, ResolveUnknown(n, o) PROVE Stays
  BY <1>1, <1>12 DEF ResolveUnknown, OpenAct, Act, Incident
<1>13. ASSUME HoldIncident PROVE Stays
  BY <1>1, <1>13 DEF HoldIncident, OpenAct, Act, Incident
<1>14. ASSUME ReleaseIncident PROVE Stays
  BY <1>1, <1>14 DEF ReleaseIncident, OpenAct, Act, Incident
<1>15. ASSUME ReviewIncident PROVE Stays
  BY <1>1, <1>15 DEF ReviewIncident, OpenAct, Act, Incident
<1>16. ASSUME NEW n \in Notices, NEW r \in Subjects, StageNotice(n, r) PROVE Stays
  BY <1>1, <1>16 DEF StageNotice, OpenAct, Act, Incident
<1>17. ASSUME NEW n \in Notices, FinishDelivery(n) PROVE Stays
  <2> DEFINE d == notice[n]
             others == {m \in Notices \ {n} : notice[m].status # "none" /\ notice[m].version = d.version}
             sum == Aggregate({d.outcome} \cup {notice[m].status : m \in others})
  <2>1. UNCHANGED incident \/ Act([incident EXCEPT !.notification = sum])
    BY <1>17 DEF FinishDelivery
  <2> HIDE DEF sum
  <2> QED
    BY <1>1, <2>1 DEF Act, Incident
<1>18. ASSUME UNCHANGED incident PROVE Stays
  BY <1>18
<1> HIDE DEF Stays
<1>19. CloseIncident \/ Stays
  <2>1. CASE \/ \E n \in Notices, o \in {"sent", "failed", "unknown"} : SendNotice(n, o)
             \/ \E n \in Notices : FinishAgain(n) \/ DropNotice(n) \/ CollectNotice(n)
             \/ MonthPasses
             \/ \E v \in Versions : CollectSnapshot(v) \/ \E r \in Subjects : CollectKey(r, v)
    BY <1>18, <2>1 DEF SendNotice, FinishAgain, DropNotice, CollectNotice, MonthPasses, CollectSnapshot, CollectKey
  <2> QED
    BY <2>1, <1>2, <1>3, <1>4, <1>5, <1>6, <1>7, <1>8, <1>9, <1>10, <1>11, <1>12, <1>13, <1>14, <1>15, <1>16, <1>17 DEF IncidentNext
<1> QED
  BY <1>19 DEF Stays

\* As many sent notices as people named, and no two of them to one person: each
\* person was sent one.
LEMMA EveryoneIsNotified ==
  ASSUME NInv, SubjectsNotified, NEW r \in snapshot[incident.version].to,
         \A s \in Subjects : <<s, incident.version>> \notin lapsed
  PROVE  \E n \in reached : Current(n) /\ notice[n].to = r
<1> DEFINE v == incident.version
           People == snapshot[v].to
           Of == {n \in Notices : Current(n)}
           f == [n \in Of |-> notice[n].to]
<1>1. /\ v \in Versions /\ Cardinality(Of) = Cardinality(People)
      /\ \A n \in Of : notice[n].status = "sent"
  BY DEF SubjectsNotified
<1>2. People \subseteq Subjects /\ IsFiniteSet(People)
  <2>1. People \subseteq Subjects
    BY <1>1 DEF NInv, IncidentTypeOK
  <2> QED
    BY <2>1, IncidentAssumption, FS_Subset
<1>3. \A n \in Of : /\ n \in Notices /\ notice[n].status # "none" /\ notice[n].version = v
                     /\ notice[n].to \in People /\ n \in reached
  BY <1>1 DEF NInv, NoticeOK, Current
<1>4. \A m, n \in Of : notice[m].to = notice[n].to => m = n
  BY <1>2, <1>3 DEF NInv, NoticeSentOnce
<1> HIDE DEF Of, People, v
<1>5. f \in Injection(Of, People)
  BY <1>3, <1>4 DEF Injection, IsInjective
<1>6. f \in Surjection(Of, People)
  BY <1>1, <1>2, <1>5, FS_Injection
<1>7. PICK n \in Of : f[n] = r
  BY <1>6 DEF Surjection, People, v
<1>8. n \in reached /\ notice[n].to = r
  BY <1>3, <1>7
<1> QED
  BY <1>8 DEF Of

\* What a closing finds, as ClosedMeansNotified says it of a step.
Notified ==
  incident.status = "open" /\ incident'.status = "closed" /\ incident.subject = "required" =>
    \A r \in snapshot[incident.version].to :
      \/ \E n \in reached : Current(n) /\ notice[n].to = r
      \/ \E s \in Subjects : <<s, incident.version>> \in lapsed

LEMMA ClosingNotified == NInv /\ [IncidentNext]_incidentVars => [Notified]_incidentVars
<1> SUFFICES ASSUME NInv, IncidentNext, incident.status = "open", incident'.status = "closed",
                    incident.subject = "required"
             PROVE  \A r \in snapshot[incident.version].to :
                      \/ \E n \in reached : Current(n) /\ notice[n].to = r
                      \/ \E s \in Subjects : <<s, incident.version>> \in lapsed
  BY DEF Notified
<1>1. CloseIncident
  BY OnlyClosingCloses
<1>2. SubjectsNotified
  BY <1>1 DEF CloseIncident, SubjectComplete
<1> QED
  BY <1>2, EveryoneIsNotified

\* An incident whose people had to be told is closed only when each of them was
\* reached, for as long as no key of the version was collected.
THEOREM ClosedWhenNotified == IncidentSpec => ClosedMeansNotified
<1>1. IncidentSpec => [][Notified]_incidentVars
  BY ClosingNotified, IncidentInvariance, PTL DEF IncidentSpec
<1> QED
  BY <1>1 DEF ClosedMeansNotified, Notified

-----------------------------------------------------------------------------
(* The desk: its queues share nothing, so that each keeps what is its own. *)

LEMMA LegalTypes == LInv => LegalTypeOK
<1> SUFFICES ASSUME LInv PROVE LegalTypeOK
  OBVIOUS
<1>1. legal \in LegalRecord /\ auditExpires \in BOOLEAN /\ mailed \subseteq Answers \cup {Received}
      /\ desk \in [Desks -> Desking]
  BY DEF LInv, RecordOK, DesksOK
<1> QED
  BY <1>1 DEF LegalTypeOK, Desking

DInv == IInv /\ LInv /\ NInv /\ RInv

LEMMA PreparedHolds == PreparedInit => NInv
<1> SUFFICES ASSUME PreparedInit PROVE NInv
  OBVIOUS
<1>1. /\ incident = Prepared /\ snapshot = [v \in Versions |-> [to |-> Subjects, life |-> "dated"]]
      /\ notice = [n \in Notices |-> NoNotice] /\ reached = {} /\ lapsed = {}
      /\ noticeKey = [r \in Subjects |-> [v \in Versions |-> "none"]]
  BY DEF PreparedInit
<1>2. Prepared \in Incident /\ ~Prepared.hold
  <2>1. NoIncident \in Incident /\ ~NoIncident.hold
    BY IncidentAssumption DEF NoIncident, Incident, Decisions
  <2>2. 1 \in 0 .. MaxVersion
    BY IncidentAssumption, PreparedAssumption
  <2>3. ~Prepared.hold
    BY <2>1 DEF Prepared, Incident
  <2> QED
    BY <2>1, <2>2, <2>3 DEF Prepared, Incident, Decisions
<1>3. \A n \in Notices : notice[n] \in NoticeRecord /\ notice[n].status = "none" /\ notice[n].outcome = "unknown"
  BY <1>1, NoNoticeType
<1>4. IncidentTypeOK
  <2>1. notice \in [Notices -> NoticeRecord]
    BY <1>1, NoNoticeType
  <2> QED
    BY <1>1, <1>2, <2>1 DEF IncidentTypeOK, NoticeRecord, Life
<1>5. HeldDocumentsStay
  BY <1>1, <1>2 DEF HeldDocumentsStay
<1>6. NoticeSentOnce /\ \A n \in Notices : NoticeOK(n)
  BY <1>3 DEF NoticeSentOnce, NoticeOK
<1> QED
  BY <1>4, <1>5, <1>6 DEF NInv

LEMMA DeskInitially == DeskInit => DInv
<1> SUFFICES ASSUME DeskInit PROVE DInv
  OBVIOUS
<1>1. Init /\ LegalInit /\ ReportsInit /\ (IncidentInit \/ PreparedInit)
  BY DEF DeskInit
<1>2. IInv
  BY <1>1, InitType DEF IInv, Init, NobodyUnverified, Orderly, NoRequest, Guest, Exists, Outcomes
<1> QED
  BY <1>1, <1>2, LegalInitially, ReportsInitially, NoticesInitially, PreparedHolds DEF DInv

\* A step of the desk is a step of one queue, and the others stand still.
LEMMA DeskIsItsQueues ==
  [DeskNext]_deskVars =>
    [Next]_vars /\ [LegalNext]_legalVars /\ [IncidentNext]_incidentVars /\ [ReportsNext]_reportsVars
BY DEF DeskNext, deskVars, Only

LEMMA DeskStep == DInv /\ [DeskNext]_deskVars => DInv'
BY DeskIsItsQueues, Inductive, LegalStep, NoticesStep, ReportsStep DEF DInv

THEOREM DeskInvariance == DeskSpec => []DInv
BY DeskInitially, DeskStep, PTL DEF DeskSpec

\* Whatever is done at the desk, the documents of every queue are well formed, and
\* the notices of an incident hold.
THEOREM TheDeskHolds == DeskSpec => []DeskHolds
<1>1. DInv => DeskHolds
  BY LegalTypes DEF DInv, DeskHolds, IInv, RInv, NInv, NoticesHold
<1> QED
  BY <1>1, DeskInvariance, PTL

\* A behaviour of the desk is one of each queue, so that what was shown of a queue
\* by itself holds at the desk.
THEOREM DeskHasItsQueues == DeskSpec => Spec /\ LegalSpec /\ ReportsSpec
<1>1. DeskInit => Init /\ LegalInit /\ ReportsInit
  BY DEF DeskInit
<1> QED
  BY <1>1, DeskIsItsQueues, PTL DEF DeskSpec, Spec, LegalSpec, ReportsSpec

\* The same of the closing of an incident, which may begin prepared.
THEOREM DeskClosesNotified == DeskSpec => ClosedMeansNotified
<1>1. DInv /\ [DeskNext]_deskVars => [Notified]_incidentVars
  BY DeskIsItsQueues, ClosingNotified DEF DInv
<1>2. DeskSpec => [][Notified]_incidentVars
  BY <1>1, DeskInvariance, PTL DEF DeskSpec
<1> QED
  BY <1>2 DEF ClosedMeansNotified, Notified
=============================================================================
