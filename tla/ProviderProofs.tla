----------------------------- MODULE ProviderProofs -----------------------------
(***************************************************************************)
(* Theorems about what the service and its providers tell each other, for  *)
(* every number of requests, claims, subscriptions, identifiers and keys,  *)
(* and whatever the bounds: the webhook and its receipts, the read of an   *)
(* account's subscriptions, the erasing of the customer, operators' keys.  *)
(***************************************************************************)
EXTENDS MCProvider, FiniteSetTheorems, NaturalsInduction, WellFoundedInduction, TLAPS

-----------------------------------------------------------------------------
(* The inductive invariants *)

Holding(w) == h[w].pc \in {"send", "mark"}

\* A handler that is about to send, or has sent, holds a claim of its own.
HolderOwns(w) ==
  Holding(w) /\ Active => delivery[h[w].claim] # "none"

OwnClaims == \A w, v \in Handlers : Holding(w) /\ Holding(v) /\ h[w].claim = h[v].claim => w = v

\* Who is about to send is alone in that, nothing was sent before, and the
\* receipt, while there is one, waits for it.
SenderIsAlone(w) ==
  h[w].pc = "send" => /\ accepted = {}
                      /\ \A v \in Handlers : h[v].pc = "send" => v = w
                      /\ Active \/ receipt.status # "none" =>
                           receipt.claim = h[w].claim /\ receipt.status \in {"sending", "unknown"}

\* A handler tells the truth about the mail it sent.
Truthful(w) ==
  h[w].pc = "mark" => /\ h[w].verdict = "sent" => h[w].claim \in accepted
                      /\ h[w].verdict = "failed" => h[w].claim \notin accepted

\* Only the last claim of a receipt can have been taken, and not if it failed.
LastClaim ==
  /\ Active => accepted \subseteq {receipt.claim}
  /\ receipt.status \in {"none", "ready"} => receipt.claim = None
  /\ receipt.status \notin {"none", "ready"} => receipt.claim \in Claims
  /\ receipt.status = "failed" => receipt.claim \notin accepted

ReceiptInv ==
  /\ TypeOK
  /\ MailedOnce
  /\ DeliveriesTellTheStory
  /\ LastClaim
  /\ OwnClaims
  /\ \A w \in Handlers : HolderOwns(w) /\ SenderIsAlone(w) /\ Truthful(w)

\* No handler's fence is ahead of the stored one while there can be one.
FencesFollow ==
  Active \/ entitlement.exists =>
    \A w \in Handlers : h[w].pc \in Refreshing => h[w].fence <= entitlement.fence

\* Who may complete the refresh has read what every recorded event announced,
\* and nothing older than what is stored.
HolderIsCurrent(w) ==
  /\ h[w].pc = "complete" => h[w].seen # None
  /\ h[w].pc = "complete" /\ Fenced(w) =>
       /\ \A e \in recorded : e <= h[w].seen
       /\ entitlement.seen # None => entitlement.seen <= h[w].seen

RefreshInv ==
  /\ TypeOK
  /\ entitlement.status = "observed" => entitlement.seen # None
  /\ ~entitlement.exists => ~entitlement.pending
  /\ ObservationIsCurrent
  /\ FencesFollow
  /\ \A w \in Handlers : HolderIsCurrent(w)

-----------------------------------------------------------------------------
(* Types *)

LEMMA TypeStep == TypeOK /\ [Next]_vars => TypeOK'
<1> SUFFICES ASSUME TypeOK, [Next]_vars PROVE TypeOK'
  OBVIOUS
<1> USE NoneAssumption, BoundAssumption
<1> USE DEF TypeOK, Events, Seen, Verdicts, Refreshing, Entitlement, Receipt, Handler
<1>1. ASSUME NEW w \in Handlers, NEW e \in Events, NEW clash \in BOOLEAN, Receive(w, e, clash)
      PROVE  TypeOK'
  <2>1. CASE RefreshDone(e)
    BY <1>1, <2>1 DEF Receive, Idle
  <2>2. CASE ~RefreshDone(e)
    <3>1. NextFence(e) \in Nat
      BY DEF NextFence
    <3> DEFINE new == [Idle EXCEPT !.pc = "read", !.fence = NextFence(e)]
    <3>2. new \in Handler /\ new.pc = "read" /\ h' = [h EXCEPT ![w] = new]
      BY <1>1, <2>2, <3>1 DEF Receive, Idle
    <3>3. [entitlement EXCEPT !.exists = TRUE, !.fence = NextFence(e), !.pending = TRUE] \in Entitlement
      BY <3>1
    <3>4. Entitlement' = Entitlement /\ Handler' = Handler /\ Events' = Events
      BY <1>1 DEF Receive
    <3>5. \A v \in Handlers : v # w => h'[v] = h[v]
      BY <1>1, <2>2 DEF Receive
    <3>6. h'[w].pc = "read" /\ h' \in [Handlers -> Handler]
      <4> HIDE DEF new, Handler
      <4> QED  BY <3>2
    <3>7. entitlement' \in Entitlement'
      BY <1>1, <2>2, <3>3, <3>4 DEF Receive
    <3>8. \A v \in Handlers : h'[v].pc \in {"send", "mark"} => h'[v].claim \in Claims
      BY <3>5, <3>6
    <3>9. h' \in [Handlers -> Handler']
      BY <3>4, <3>6
    <3>10. recorded' \subseteq Events' /\ account' \in {"active", "conflict", "deleted"}
      BY <1>1, <3>4 DEF Receive
    <3> HIDE DEF Entitlement, Handler, Events
    <3> QED  BY <1>1, <3>7, <3>8, <3>9, <3>10 DEF Receive
  <2> QED  BY <2>1, <2>2
<1>2. ASSUME NEW w \in Handlers, Read(w) \/ ReadConflict(w) \/ Ask(w) \/ Stop(w) \/ MarkThrows(w)
      PROVE  TypeOK'
  BY <1>2 DEF Read, ReadConflict, Ask, Stop, MarkThrows, Idle
<1>3. ASSUME NEW w \in Handlers, RefreshFails(w) \/ MarkConflict(w) \/ CompleteRefresh(w) \/ CompleteConflict(w)
      PROVE  TypeOK'
  <2>1. CASE RefreshFails(w) \/ MarkConflict(w)
    BY <2>1 DEF RefreshFails, MarkConflict, Idle
  <2>2. CASE CompleteRefresh(w)
    BY <2>2 DEF CompleteRefresh, Idle
  <2>3. CASE CompleteConflict(w)
    BY <2>3 DEF CompleteConflict, Idle
  <2> QED  BY <1>3, <2>1, <2>2, <2>3
<1>4. ASSUME NEW w \in Handlers, NEW c \in Claims, Claim(w, c)
      PROVE  TypeOK'
  BY <1>4 DEF Claim, Idle
<1>5. ASSUME NEW w \in Handlers, ClaimExpired(w)
      PROVE  TypeOK'
  BY <1>5 DEF ClaimExpired, Unclear, Idle
<1>6. ASSUME NEW w \in Handlers, Send(w)
      PROVE  TypeOK'
  <2>1. PICK o \in Outcomes : h' = [h EXCEPT ![w] = [@ EXCEPT !.pc = "mark", !.verdict = o.verdict]]
                           /\ accepted' = IF o.taken THEN accepted \cup {h[w].claim} ELSE accepted
    BY <1>6 DEF Send
  <2>2. [h[w] EXCEPT !.pc = "mark", !.verdict = o.verdict] \in Handler
    <3>1. h[w] \in Handler /\ o.verdict \in Verdicts
      BY DEF Outcomes
    <3> QED  BY <3>1 DEF Handler
  <2>3. h[w].claim \in Claims /\ h'[w].claim = h[w].claim
    BY <1>6, <2>1 DEF Send
  <2>4. h' \in [Handlers -> Handler] /\ \A v \in Handlers : v # w => h'[v] = h[v]
    BY <2>1, <2>2
  <2> QED  BY <1>6, <2>1, <2>3, <2>4 DEF Send
<1>7. ASSUME NEW w \in Handlers, Mark(w)
      PROVE  TypeOK'
  <2>1. h' \in [Handlers -> Handler] /\ \A v \in Handlers : v # w => h'[v] = h[v]
    BY <1>7 DEF Mark, Idle
  <2>2. \A v \in Handlers : h'[v].pc \in {"send", "mark"} => h'[v].claim \in Claims
    <3>1. h'[w].pc = "idle"
      BY <1>7 DEF Mark, Idle
    <3> QED  BY <2>1, <3>1
  <2>3. h[w] \in Handler /\ h[w].verdict \in Verdicts /\ h[w].claim \in Claims
    BY <1>7 DEF Mark
  <2>4. receipt' \in Receipt'
    BY <1>7, <2>3 DEF Mark
  <2>5. delivery' \in [Claims -> {"none", "pending"} \cup Verdicts]
    BY <1>7, <2>3 DEF Mark
  <2> QED  BY <1>7, <2>1, <2>2, <2>4, <2>5 DEF Mark
<1>8. ASSUME NEW c \in Claims, Reconcile(c)
      PROVE  TypeOK'
  BY <1>8 DEF Reconcile
<1>9. ASSUME Bind \/ LeaseRunsOut \/ IdentityClash \/ ContactChanges \/ DeleteAccount
      PROVE  TypeOK'
  BY <1>9 DEF Bind, LeaseRunsOut, IdentityClash, ContactChanges, DeleteAccount, NoReceipt
<1>10. CASE SubscriptionChanges
  BY <1>10 DEF SubscriptionChanges
<1>11. CASE EraseEntitlement
  BY <1>11 DEF EraseEntitlement, NoEntitlement
<1>12. CASE EraseReceipt
  BY <1>12 DEF EraseReceipt, NoReceipt
<1>13. CASE UNCHANGED vars
  BY <1>13 DEF vars
<1> QED
  BY <1>1, <1>2, <1>3, <1>4, <1>5, <1>6, <1>7, <1>8, <1>9, <1>10, <1>11, <1>12, <1>13 DEF Next, HandlerStep

LEMMA InitTypes == Init => TypeOK
  <1> SUFFICES ASSUME Init PROVE TypeOK
    OBVIOUS
  <1>1. Idle \in Handler
    BY DEF Idle, Handler, Seen, Refreshing, Verdicts
  <1>2. NoEntitlement \in Entitlement /\ NoReceipt \in Receipt
    BY DEF NoEntitlement, NoReceipt, Entitlement, Receipt, Seen, Verdicts
  <1>3. h \in [Handlers -> Handler] /\ \A w \in Handlers : h[w].pc = "idle"
    BY <1>1 DEF Init, Idle
  <1> QED  BY <1>2, <1>3 DEF Init, TypeOK, Events, Verdicts

\* The documents and the handlers' copies keep their types.
THEOREM TypeCorrect == Spec => []TypeOK
BY InitTypes, TypeStep, PTL DEF Spec

-----------------------------------------------------------------------------
(* The receipt *)

\* A step that leaves the receipt alone, and lets handlers go but not begin to
\* hold a claim.
LEMMA ReceiptFrame ==
  ASSUME ReceiptInv, TypeOK',
         UNCHANGED <<receipt, delivery, accepted>>,
         Active' => Active,
         \A v \in Handlers : h'[v] = h[v] \/ h'[v].pc \notin {"send", "mark"}
  PROVE  ReceiptInv'
<1> USE DEF ReceiptInv, Holding
<1>1. DeliveriesTellTheStory' /\ LastClaim' /\ MailedOnce'
  BY DEF DeliveriesTellTheStory, LastClaim, MailedOnce
<1>2. OwnClaims'
  BY DEF OwnClaims
<1>3. ASSUME NEW w \in Handlers PROVE HolderOwns(w)' /\ SenderIsAlone(w)' /\ Truthful(w)'
  BY <1>3 DEF HolderOwns, SenderIsAlone, Truthful
<1> QED  BY <1>1, <1>2, <1>3

LEMMA BindReceipt == ReceiptInv /\ TypeOK' /\ Bind => ReceiptInv'
<1> SUFFICES ASSUME ReceiptInv, TypeOK', Bind PROVE ReceiptInv'
  OBVIOUS
<1> USE DEF ReceiptInv, Holding, Bind, NoReceipt, Active
<1>1. DeliveriesTellTheStory' /\ LastClaim' /\ MailedOnce'
  BY NoneAssumption DEF DeliveriesTellTheStory, LastClaim, MailedOnce, Verdicts
<1>2. OwnClaims'
  BY DEF OwnClaims
<1>3. ASSUME NEW w \in Handlers PROVE HolderOwns(w)' /\ SenderIsAlone(w)' /\ Truthful(w)'
  BY <1>3 DEF HolderOwns, SenderIsAlone, Truthful
<1> QED  BY <1>1, <1>2, <1>3

\* A claim is granted when nobody is about to send and nothing was taken.
LEMMA ClaimReceipt ==
  ASSUME NEW w \in Handlers, NEW c \in Claims, ReceiptInv, TypeOK', Claim(w, c)
  PROVE  ReceiptInv'
<1> USE DEF ReceiptInv, Holding, Active
<1> DEFINE new == [Idle EXCEPT !.pc = "send", !.claim = c]
<1>1. /\ new.pc = "send" /\ new.claim = c
      /\ h' = [h EXCEPT ![w] = new] /\ h[w].pc = "claim"
  BY DEF Claim, Idle
<1> HIDE DEF new
<1>2. /\ h'[w].pc = "send" /\ h'[w].claim = c
      /\ \A v \in Handlers : v # w => h'[v] = h[v]
  BY <1>1 DEF TypeOK
<1>3. /\ receipt'.status = "sending" /\ receipt'.claim = c
      /\ receipt.status \in {"ready", "failed"}
      /\ account = "active" /\ account' = account /\ accepted' = accepted
      /\ delivery[c] = "none" /\ delivery'[c] = "pending"
      /\ \A d \in Claims : d # c => delivery'[d] = delivery[d]
  BY DEF Claim, Deliverable, TypeOK
<1>4. accepted = {}
  BY <1>3, NoneAssumption DEF LastClaim, TypeOK
<1>5. \A v \in Handlers : h[v].pc # "send" /\ (Holding(v) => h[v].claim # c)
  BY <1>3 DEF SenderIsAlone, HolderOwns
<1>6. \A d \in Claims : delivery[d] \in {"none", "failed"}
  BY <1>3 DEF DeliveriesTellTheStory, Verdicts
<1>7. DeliveriesTellTheStory' /\ LastClaim' /\ MailedOnce'
  BY <1>3, <1>4, <1>6 DEF DeliveriesTellTheStory, LastClaim, MailedOnce, Verdicts
<1>8. OwnClaims'
  BY <1>2, <1>5 DEF OwnClaims
<1>9. ASSUME NEW v \in Handlers PROVE HolderOwns(v)' /\ SenderIsAlone(v)' /\ Truthful(v)'
  <2>1. CASE v = w
    BY <1>2, <1>3, <1>4, <1>5, <2>1 DEF HolderOwns, SenderIsAlone, Truthful
  <2>2. CASE v # w
    <3>1. h'[v] = h[v] /\ h[v].pc # "send"
      BY <1>2, <1>5, <2>2
    <3>2. Holding(v) => h[v].claim \in Claims /\ h[v].claim # c
      BY <1>5 DEF TypeOK
    <3> QED  BY <1>3, <3>1, <3>2 DEF HolderOwns, SenderIsAlone, Truthful
  <2> QED  BY <2>1, <2>2
<1> QED  BY <1>7, <1>8, <1>9

LEMMA ExpireReceipt ==
  ASSUME NEW w \in Handlers, ReceiptInv, TypeOK', ClaimExpired(w)
  PROVE  ReceiptInv'
<1> USE DEF ReceiptInv, Holding, Active
<1>1. h'[w].pc = "idle" /\ \A v \in Handlers : v # w => h'[v] = h[v]
  BY DEF ClaimExpired, Idle, TypeOK
<1>2. /\ receipt.status = "sending" /\ receipt'.status = "unknown" /\ receipt'.claim = receipt.claim
      /\ receipt.claim \in Claims
      /\ account' = account /\ accepted' = accepted
      /\ delivery'[receipt.claim] = "unknown"
      /\ \A d \in Claims : d # receipt.claim => delivery'[d] = delivery[d]
  BY DEF ClaimExpired, Unclear, TypeOK, Receipt, LastClaim
<1>3. DeliveriesTellTheStory' /\ LastClaim' /\ MailedOnce'
  BY <1>2 DEF DeliveriesTellTheStory, LastClaim, MailedOnce, Verdicts
<1>4. OwnClaims'
  BY <1>1 DEF OwnClaims
<1>5. ASSUME NEW v \in Handlers PROVE HolderOwns(v)' /\ SenderIsAlone(v)' /\ Truthful(v)'
  <2>1. Holding(v)' => v # w /\ Holding(v) /\ h'[v] = h[v] /\ h[v].claim \in Claims
    BY <1>1 DEF TypeOK
  <2>2. \A u \in Handlers : h'[u].pc = "send" => h[u].pc = "send"
    BY <1>1
  <2> QED  BY <1>2, <2>1, <2>2 DEF HolderOwns, SenderIsAlone, Truthful
<1> QED  BY <1>3, <1>4, <1>5

\* The mail is the first: its sender was alone.
LEMMA SendReceipt ==
  ASSUME NEW w \in Handlers, ReceiptInv, TypeOK', Send(w)
  PROVE  ReceiptInv'
<1> USE DEF ReceiptInv, Holding, Active
<1>1. PICK o \in Outcomes :
        /\ h' = [h EXCEPT ![w] = [@ EXCEPT !.pc = "mark", !.verdict = o.verdict]]
        /\ accepted' = IF o.taken THEN accepted \cup {h[w].claim} ELSE accepted
  BY DEF Send
<1>2. /\ h[w].pc = "send" /\ h'[w].pc = "mark" /\ h'[w].claim = h[w].claim /\ h'[w].verdict = o.verdict
      /\ \A v \in Handlers : v # w => h'[v] = h[v]
  <2>1. h[w] \in Handler
    BY DEF TypeOK
  <2> QED  BY <1>1, <2>1 DEF Send, TypeOK, Handler
<1>3. /\ o.verdict = "sent" => o.taken
      /\ o.verdict = "failed" => ~o.taken
  BY DEF Outcomes
<1>4. /\ receipt' = receipt /\ delivery' = delivery /\ account' = account
      /\ accepted = {} /\ h[w].claim \in Claims
      /\ Active \/ receipt.status # "none" =>
           receipt.claim = h[w].claim /\ receipt.status \in {"sending", "unknown"}
      /\ \A v \in Handlers : h[v].pc = "send" => v = w
  BY <1>2 DEF Send, SenderIsAlone, TypeOK
<1>5. accepted' = IF o.taken THEN {h[w].claim} ELSE {}
  BY <1>1, <1>4
<1>6. DeliveriesTellTheStory'
  BY <1>4 DEF DeliveriesTellTheStory
<1>7. receipt.status # "failed"
  BY <1>4
<1>8. LastClaim' /\ MailedOnce'
  BY <1>4, <1>5, <1>7 DEF LastClaim, MailedOnce
<1>9. OwnClaims'
  BY <1>2 DEF OwnClaims
<1>10. ASSUME NEW v \in Handlers PROVE HolderOwns(v)' /\ SenderIsAlone(v)' /\ Truthful(v)'
  <2>1. CASE v = w
    BY <1>2, <1>3, <1>4, <1>5, <2>1 DEF HolderOwns, SenderIsAlone, Truthful
  <2>2. CASE v # w
    <3>1. h'[v] = h[v] /\ h'[v].pc # "send" /\ (Holding(v) => h[v].claim # h[w].claim)
      BY <1>2, <1>4, <2>2 DEF OwnClaims
    <3> QED  BY <1>4, <1>5, <3>1 DEF HolderOwns, SenderIsAlone, Truthful
  <2> QED  BY <2>1, <2>2
<1> QED  BY <1>6, <1>8, <1>9, <1>10

\* A late or mistaken mark changes nothing; the others say what happened.
LEMMA MarkReceipt ==
  ASSUME NEW w \in Handlers, ReceiptInv, TypeOK', Mark(w)
  PROVE  ReceiptInv'
<1> USE DEF ReceiptInv, Holding, Active
<1>1. h'[w].pc = "idle" /\ \A v \in Handlers : v # w => h'[v] = h[v]
  BY DEF Mark, Idle, TypeOK
<1>2. CASE ~Markable(w)
  <2>1. UNCHANGED <<receipt, delivery, accepted, account>>
    BY <1>2 DEF Mark
  <2> QED  BY <1>1, <2>1, ReceiptFrame
<1>3. CASE Markable(w)
  <2> DEFINE c == h[w].claim
             verdict == h[w].verdict
  <2>1. /\ h[w].pc = "mark" /\ c \in Claims /\ verdict \in Verdicts
        /\ account' = account /\ accepted' = accepted
        /\ receipt.status = "sending" /\ receipt.claim = c /\ delivery[c] = "pending"
        /\ receipt'.status = verdict /\ receipt'.claim = c
        /\ delivery'[c] = verdict
        /\ \A d \in Claims : d # c => delivery'[d] = delivery[d]
    BY <1>3 DEF Mark, Markable, TypeOK, Receipt, Handler
  <2>2. /\ verdict = "sent" => c \in accepted
        /\ verdict = "failed" => c \notin accepted
    BY <2>1 DEF Truthful
  <2> HIDE DEF c, verdict
  <2>3. DeliveriesTellTheStory' /\ LastClaim' /\ MailedOnce'
    BY <2>1, <2>2 DEF DeliveriesTellTheStory, LastClaim, MailedOnce, Verdicts
  <2>4. OwnClaims'
    BY <1>1 DEF OwnClaims
  <2>5. ASSUME NEW v \in Handlers PROVE HolderOwns(v)' /\ SenderIsAlone(v)' /\ Truthful(v)'
    <3>1. Holding(v)' => v # w /\ Holding(v) /\ h'[v] = h[v] /\ h[v].claim \in Claims /\ h[v].claim # c
      BY <1>1, <2>1 DEF OwnClaims, TypeOK, c
    <3>2. \A u \in Handlers : h'[u].pc = "send" => h[u].pc = "send"
      BY <1>1
    <3>3. h'[v].pc = "send" => ~Active'
      BY <2>1, <3>1 DEF SenderIsAlone
    <3> QED  BY <2>1, <3>1, <3>2, <3>3 DEF HolderOwns, SenderIsAlone, Truthful
  <2> QED  BY <2>3, <2>4, <2>5
<1> QED  BY <1>2, <1>3

LEMMA MarkThrowsReceipt ==
  ASSUME NEW w \in Handlers, ReceiptInv, TypeOK', MarkThrows(w)
  PROVE  ReceiptInv'
<1> USE DEF ReceiptInv, Holding, Active
<1>1. /\ h'[w].pc = "mark" /\ h[w].pc = "mark" /\ h'[w].claim = h[w].claim /\ h'[w].verdict = "unknown"
      /\ \A v \in Handlers : v # w => h'[v] = h[v]
  BY DEF MarkThrows, TypeOK, Handler
<1>2. UNCHANGED <<receipt, delivery, accepted, account>>
  BY DEF MarkThrows
<1>3. DeliveriesTellTheStory' /\ LastClaim' /\ MailedOnce'
  BY <1>2 DEF DeliveriesTellTheStory, LastClaim, MailedOnce
<1>4. \A v \in Handlers : h'[v].claim = h[v].claim /\ h'[v].pc = h[v].pc
  BY <1>1
<1>5. OwnClaims'
  BY <1>4 DEF OwnClaims
<1>6. ASSUME NEW v \in Handlers PROVE HolderOwns(v)' /\ SenderIsAlone(v)' /\ Truthful(v)'
  BY <1>1, <1>2, <1>4 DEF HolderOwns, SenderIsAlone, Truthful
<1> QED  BY <1>3, <1>5, <1>6

LEMMA LeaseReceipt == ReceiptInv /\ TypeOK' /\ LeaseRunsOut => ReceiptInv'
<1> SUFFICES ASSUME ReceiptInv, TypeOK', LeaseRunsOut PROVE ReceiptInv'
  OBVIOUS
<1> USE DEF ReceiptInv, Holding, Active
<1>1. /\ receipt'.status = receipt.status /\ receipt'.claim = receipt.claim
      /\ UNCHANGED <<delivery, accepted, account, h>>
  BY DEF LeaseRunsOut, TypeOK, Receipt
<1>2. DeliveriesTellTheStory' /\ LastClaim' /\ MailedOnce'
  BY <1>1 DEF DeliveriesTellTheStory, LastClaim, MailedOnce
<1>3. OwnClaims' /\ \A v \in Handlers : HolderOwns(v)' /\ SenderIsAlone(v)' /\ Truthful(v)'
  BY <1>1 DEF OwnClaims, HolderOwns, SenderIsAlone, Truthful
<1> QED  BY <1>2, <1>3

\* An operator decides for a mail that was taken, so nobody is about to send.
LEMMA ReconcileReceipt ==
  ASSUME NEW c \in Claims, ReceiptInv, TypeOK', Reconcile(c)
  PROVE  ReceiptInv'
<1> USE DEF ReceiptInv, Holding, Active
<1>1. /\ UNCHANGED <<accepted, account, h>> /\ c \in accepted /\ receipt.claim = c
      /\ receipt.status \in {"sending", "unknown"}
      /\ receipt'.status = "sent" /\ receipt'.claim = c
      /\ delivery'[c] = "sent" /\ \A d \in Claims : d # c => delivery'[d] = delivery[d]
  BY DEF Reconcile, Undecided, TypeOK, Receipt
<1>2. DeliveriesTellTheStory' /\ LastClaim' /\ MailedOnce'
  BY <1>1 DEF DeliveriesTellTheStory, LastClaim, MailedOnce, Verdicts
<1>3. OwnClaims'
  BY <1>1 DEF OwnClaims
<1>4. ASSUME NEW v \in Handlers PROVE HolderOwns(v)' /\ SenderIsAlone(v)' /\ Truthful(v)'
  BY <1>1 DEF HolderOwns, SenderIsAlone, Truthful, TypeOK
<1> QED  BY <1>2, <1>3, <1>4

LEMMA EraseReceiptStep == ReceiptInv /\ TypeOK' /\ EraseReceipt => ReceiptInv'
<1> SUFFICES ASSUME ReceiptInv, TypeOK', EraseReceipt PROVE ReceiptInv'
  OBVIOUS
<1> USE DEF ReceiptInv, Holding, Active, EraseReceipt, NoReceipt
<1>1. DeliveriesTellTheStory' /\ LastClaim' /\ MailedOnce'
  <2>1. \A c \in Claims : delivery'[c] = "none"
    OBVIOUS
  <2>2. receipt'.claim = None /\ receipt'.status = "none"
    OBVIOUS
  <2> QED  BY <2>1, <2>2, NoneAssumption
           DEF DeliveriesTellTheStory, LastClaim, MailedOnce, Verdicts
<1>2. OwnClaims' /\ \A v \in Handlers : HolderOwns(v)' /\ SenderIsAlone(v)' /\ Truthful(v)'
  BY DEF OwnClaims, HolderOwns, SenderIsAlone, Truthful
<1> QED  BY <1>1, <1>2

LEMMA ReceiptStep == ReceiptInv /\ [Next]_vars => ReceiptInv'
<1> SUFFICES ASSUME ReceiptInv, [Next]_vars PROVE ReceiptInv'
  OBVIOUS
<1>1. TypeOK /\ TypeOK'
  BY TypeStep DEF ReceiptInv
<1>2. ASSUME NEW w \in Handlers, NEW e \in Events, NEW clash \in BOOLEAN, Receive(w, e, clash)
      PROVE  ReceiptInv'
  <2>1. UNCHANGED <<receipt, delivery, accepted>> /\ Active
    BY <1>2 DEF Receive
  <2>2. h \in [Handlers -> Handler]
    BY <1>1 DEF TypeOK
  <2>3. \A v \in Handlers : h'[v] = h[v] \/ h'[v].pc \in {"claim", "read"}
    <3>1. CASE RefreshDone(e)
      BY <1>2, <2>2, <3>1 DEF Receive, Idle
    <3>2. CASE ~RefreshDone(e)
      BY <1>2, <2>2, <3>2 DEF Receive, Idle
    <3> QED  BY <3>1, <3>2
  <2>4. \A v \in Handlers : h'[v] = h[v] \/ h'[v].pc \notin {"send", "mark"}
    BY <2>3
  <2> QED  BY <1>1, <2>1, <2>4, ReceiptFrame
<1>3. ASSUME NEW w \in Handlers,
             \/ Read(w) \/ ReadConflict(w) \/ RefreshFails(w) \/ Ask(w) \/ Stop(w)
             \/ MarkConflict(w) \/ CompleteRefresh(w) \/ CompleteConflict(w)
      PROVE  ReceiptInv'
  <2>1. UNCHANGED <<receipt, delivery, accepted>> /\ (Active' => Active)
    BY <1>3 DEF Read, ReadConflict, RefreshFails, Ask, Stop, MarkConflict, CompleteRefresh,
       CompleteConflict, Active
  <2>2. \A v \in Handlers : h'[v] = h[v] \/ h'[v].pc \notin {"send", "mark"}
    <3>1. CASE Read(w) \/ ReadConflict(w) \/ Ask(w) \/ MarkConflict(w)
      BY <1>1, <3>1 DEF Read, ReadConflict, Ask, MarkConflict, TypeOK, Handler
    <3>2. CASE RefreshFails(w) \/ Stop(w) \/ CompleteRefresh(w) \/ CompleteConflict(w)
      BY <1>1, <3>2 DEF RefreshFails, Stop, CompleteRefresh, CompleteConflict, Idle, TypeOK
    <3> QED  BY <1>3, <3>1, <3>2
  <2> QED  BY <1>1, <2>1, <2>2, ReceiptFrame
<1>4. ASSUME \/ IdentityClash \/ SubscriptionChanges \/ ContactChanges \/ DeleteAccount \/ EraseEntitlement
             \/ UNCHANGED vars
      PROVE  ReceiptInv'
  <2>1. UNCHANGED <<receipt, delivery, accepted, h>>
    BY <1>4 DEF IdentityClash, SubscriptionChanges, ContactChanges, DeleteAccount, EraseEntitlement, vars
  <2>2. Active' => Active
    BY <1>4 DEF IdentityClash, SubscriptionChanges, ContactChanges, DeleteAccount, EraseEntitlement, vars, Active
  <2> QED  BY <1>1, <2>1, <2>2, ReceiptFrame
<1> QED
  BY <1>1, <1>2, <1>3, <1>4, BindReceipt, ClaimReceipt, ExpireReceipt, SendReceipt, MarkReceipt,
     MarkThrowsReceipt, LeaseReceipt, ReconcileReceipt, EraseReceiptStep DEF Next, HandlerStep

THEOREM ReceiptInvariance == Spec => []ReceiptInv
<1>1. Init => ReceiptInv
  <2> SUFFICES ASSUME Init PROVE ReceiptInv
    OBVIOUS
  <2>1. TypeOK
    BY InitTypes
  <2>2. DeliveriesTellTheStory /\ LastClaim /\ MailedOnce
    BY NoneAssumption DEF Init, NoReceipt, DeliveriesTellTheStory, LastClaim, MailedOnce, Verdicts
  <2>3. \A w \in Handlers : h[w].pc = "idle"
    BY DEF Init, Idle
  <2> QED  BY <2>1, <2>2, <2>3 DEF ReceiptInv, OwnClaims, HolderOwns, SenderIsAlone, Truthful, Holding
<1> QED  BY <1>1, ReceiptStep, PTL DEF Spec

\* The mail server takes at most one mail of a receipt, however its handlers
\* overlap, die or come late.
THEOREM MailsOnce == Spec => []MailedOnce
<1>1. ReceiptInv => MailedOnce
  BY DEF ReceiptInv
<1> QED  BY <1>1, ReceiptInvariance, PTL

\* The receipt's status and its deliveries never contradict each other, or the
\* mail server.
THEOREM DeliveriesAgree == Spec => []DeliveriesTellTheStory
<1>1. ReceiptInv => DeliveriesTellTheStory
  BY DEF ReceiptInv
<1> QED  BY <1>1, ReceiptInvariance, PTL

\* No late answer overwrites that a receipt was sent.
THEOREM SentStays == Spec => SentIsFinal
<1>1. ReceiptInv /\ [Next]_vars => [receipt.status = "sent" => receipt'.status \in {"sent", "none"}]_vars
  <2> SUFFICES ASSUME ReceiptInv, Next, receipt.status = "sent"
               PROVE  receipt'.status \in {"sent", "none"}
    OBVIOUS
  <2>1. ASSUME NEW w \in Handlers, HandlerStep(w)
        PROVE  receipt' = receipt
    BY <2>1 DEF HandlerStep, Receive, Read, ReadConflict, RefreshFails, CompleteRefresh, MarkConflict,
       CompleteConflict, Ask, Claim, Deliverable, ClaimExpired, Send, Mark, Markable, MarkThrows, Stop
  <2>2. ASSUME NEW c \in Claims, Reconcile(c)
        PROVE  FALSE
    BY <2>2 DEF Reconcile, Undecided
  <2>3. CASE Bind \/ IdentityClash \/ SubscriptionChanges \/ ContactChanges \/ DeleteAccount
    BY <2>3 DEF Bind, IdentityClash, SubscriptionChanges, ContactChanges, DeleteAccount
  <2>4. CASE LeaseRunsOut
    BY <2>4 DEF LeaseRunsOut, ReceiptInv, TypeOK, Receipt
  <2>5. CASE EraseEntitlement \/ EraseReceipt
    BY <2>5 DEF EraseEntitlement, EraseReceipt, NoReceipt
  <2> QED  BY <2>1, <2>2, <2>3, <2>4, <2>5 DEF Next
<1> QED  BY <1>1, ReceiptInvariance, PTL DEF Spec, SentIsFinal

-----------------------------------------------------------------------------
(* The refresh *)

\* A step that leaves the stored entitlement, the recorded events and what
\* happened at the provider alone, and starts or ends no completion.
LEMMA RefreshFrame ==
  ASSUME RefreshInv, TypeOK',
         UNCHANGED <<recorded, entitlement>>,
         Active' => Active,
         \A v \in Handlers :
           \/ h'[v] = h[v]
           \/ h'[v].pc \notin Refreshing
           \/ h[v].pc \in Refreshing /\ h'[v].pc # "complete" /\ h'[v].fence = h[v].fence
  PROVE  RefreshInv'
<1> USE DEF RefreshInv
<1>1. ObservationIsCurrent'
  BY DEF ObservationIsCurrent
<1>2. FencesFollow'
  BY DEF FencesFollow, TypeOK, Handler, Entitlement, Refreshing
<1>3. ASSUME NEW w \in Handlers PROVE HolderIsCurrent(w)'
  BY DEF HolderIsCurrent, Fenced, Refreshing
<1> QED  BY <1>1, <1>2, <1>3

\* A new event's fence is ahead of every handler's.
LEMMA ReceiveRefresh ==
  ASSUME NEW w \in Handlers, NEW e \in Events, NEW clash \in BOOLEAN,
         RefreshInv, TypeOK', Receive(w, e, clash)
  PROVE  RefreshInv'
<1> USE DEF RefreshInv
<1>1. CASE RefreshDone(e)
  <2>1. /\ recorded' = recorded /\ entitlement' = entitlement /\ (Active' => Active)
        /\ \A v \in Handlers : h'[v] = h[v] \/ h'[v].pc \notin Refreshing
    BY <1>1 DEF Receive, RefreshDone, Idle, Active, TypeOK, Refreshing
  <2> QED  BY <2>1, RefreshFrame
<1>2. CASE ~RefreshDone(e)
  <2> DEFINE new == [Idle EXCEPT !.pc = "read", !.fence = NextFence(e)]
  <2>1. /\ new.pc = "read" /\ new.fence = entitlement.fence + 1
        /\ h' = [h EXCEPT ![w] = new]
    BY <1>2 DEF Receive, Idle, NextFence
  <2> HIDE DEF new
  <2>2. /\ h'[w].pc = "read" /\ h'[w].fence = entitlement.fence + 1
        /\ \A v \in Handlers : v # w => h'[v] = h[v]
    BY <2>1 DEF TypeOK
  <2>3. /\ entitlement'.exists /\ entitlement'.pending /\ entitlement'.fence = entitlement.fence + 1
        /\ entitlement'.status = entitlement.status /\ entitlement'.seen = entitlement.seen
        /\ entitlement.fence \in Nat
    BY <1>2 DEF Receive, NextFence, TypeOK, Entitlement
  <2>4. \A v \in Handlers : h[v].pc \in Refreshing => h[v].fence \in Nat /\ h[v].fence <= entitlement.fence
    BY DEF Receive, FencesFollow, TypeOK, Handler
  <2>5. ObservationIsCurrent'
    BY <2>3 DEF ObservationIsCurrent
  <2>6. FencesFollow'
    BY <2>2, <2>3, <2>4 DEF FencesFollow
  <2>7. ASSUME NEW v \in Handlers PROVE HolderIsCurrent(v)'
    BY <2>2, <2>3, <2>4 DEF HolderIsCurrent, Fenced, Refreshing
  <2> QED  BY <2>3, <2>5, <2>6, <2>7
<1> QED  BY <1>1, <1>2

\* What is read now is as new as anything recorded or stored.
LEMMA ReadRefresh ==
  ASSUME NEW w \in Handlers, RefreshInv, TypeOK', Read(w)
  PROVE  RefreshInv'
<1> USE DEF RefreshInv
<1>1. /\ h[w].pc = "read" /\ h'[w].pc = "complete" /\ h'[w].seen = truth /\ h'[w].fence = h[w].fence
      /\ \A v \in Handlers : v # w => h'[v] = h[v]
      /\ UNCHANGED <<account, truth, recorded, entitlement>>
  BY DEF Read, TypeOK, Handler
<1>2. /\ truth \in Nat /\ truth # None
      /\ \A e \in recorded : e <= truth
      /\ entitlement.seen # None => entitlement.seen <= truth
  BY NoneAssumption DEF TypeOK, Events, Entitlement, Seen
<1>3. ObservationIsCurrent'
  BY <1>1 DEF ObservationIsCurrent
<1>4. FencesFollow'
  BY <1>1 DEF FencesFollow, Active, Refreshing
<1>5. ASSUME NEW v \in Handlers PROVE HolderIsCurrent(v)'
  BY <1>1, <1>2 DEF HolderIsCurrent, Fenced
<1> QED  BY <1>1, <1>3, <1>4, <1>5

\* A refresh completes only for its fence, and nobody completes it after.
LEMMA CompleteRefreshStep ==
  ASSUME NEW w \in Handlers, RefreshInv, TypeOK', CompleteRefresh(w) \/ CompleteConflict(w)
  PROVE  RefreshInv'
<1> USE DEF RefreshInv
<1>1. /\ h'[w].pc = "claim" /\ \A v \in Handlers : v # w => h'[v] = h[v]
      /\ UNCHANGED <<account, truth, recorded>>
  BY DEF CompleteRefresh, CompleteConflict, Idle, TypeOK
<1>2. CASE ~Fenced(w)
  <2>1. entitlement' = entitlement
    BY <1>2 DEF CompleteRefresh, CompleteConflict
  <2> QED  BY <1>1, <2>1, RefreshFrame DEF Active, Refreshing
<1>3. CASE Fenced(w)
  <2>1. /\ entitlement'.exists /\ ~entitlement'.pending /\ entitlement'.fence = entitlement.fence
        /\ \/ /\ h[w].pc = "complete"
              /\ entitlement'.status = "observed" /\ entitlement'.seen = h[w].seen
           \/ entitlement'.status = "unavailable" /\ entitlement'.seen = entitlement.seen
    BY <1>3 DEF CompleteRefresh, CompleteConflict, Fenced, TypeOK, Entitlement
  <2>2. ObservationIsCurrent' /\ (entitlement'.status = "observed" => entitlement'.seen # None)
    BY <1>1, <1>3, <2>1 DEF HolderIsCurrent, ObservationIsCurrent
  <2>3. FencesFollow'
    BY <1>1, <1>3, <2>1 DEF FencesFollow, Fenced, Refreshing
  <2>4. ASSUME NEW v \in Handlers PROVE HolderIsCurrent(v)'
    BY <1>1, <2>1 DEF HolderIsCurrent, Fenced
  <2> QED  BY <2>1, <2>2, <2>3, <2>4
<1> QED  BY <1>2, <1>3

LEMMA EraseRefresh == RefreshInv /\ TypeOK' /\ EraseEntitlement => RefreshInv'
BY DEF RefreshInv, EraseEntitlement, NoEntitlement, ObservationIsCurrent, FencesFollow, HolderIsCurrent,
   Fenced, Active

LEMMA RefreshStep == RefreshInv /\ [Next]_vars => RefreshInv'
<1> SUFFICES ASSUME RefreshInv, [Next]_vars PROVE RefreshInv'
  OBVIOUS
<1>1. TypeOK /\ TypeOK'
  BY TypeStep DEF RefreshInv
<1>2. ASSUME NEW w \in Handlers,
             \/ ReadConflict(w) \/ RefreshFails(w) \/ MarkConflict(w) \/ Ask(w) \/ Stop(w)
             \/ \E c \in Claims : Claim(w, c)
             \/ ClaimExpired(w) \/ Send(w) \/ Mark(w) \/ MarkThrows(w)
      PROVE  RefreshInv'
  <2>1. UNCHANGED <<recorded, entitlement>> /\ (Active' => Active)
    BY <1>2 DEF ReadConflict, RefreshFails, MarkConflict, Ask, Stop, Claim, ClaimExpired, Send, Mark,
       MarkThrows, Active
  <2>2. \A v \in Handlers : v # w => h'[v] = h[v]
    <3> h \in [Handlers -> Handler]
      BY <1>1 DEF TypeOK
    <3>1. CASE Send(w)
      BY <3>1 DEF Send
    <3>2. CASE ~Send(w)
      BY <1>2, <3>2 DEF ReadConflict, RefreshFails, MarkConflict, Ask, Stop, Claim, ClaimExpired, Mark, MarkThrows
    <3> QED  BY <3>1, <3>2
  <2>3. \/ h'[w].pc \notin Refreshing
        \/ h[w].pc \in Refreshing /\ h'[w].pc # "complete" /\ h'[w].fence = h[w].fence
    <3>1. h[w] \in Handler
      BY <1>1 DEF TypeOK
    <3>2. CASE ReadConflict(w) \/ MarkConflict(w)
      BY <1>1, <3>1, <3>2 DEF ReadConflict, MarkConflict, TypeOK, Handler, Refreshing
    <3>3. CASE RefreshFails(w) \/ Ask(w) \/ Stop(w) \/ ClaimExpired(w) \/ Mark(w)
      BY <1>1, <3>1, <3>3 DEF RefreshFails, Ask, Stop, ClaimExpired, Mark, Idle, TypeOK, Handler, Refreshing
    <3>4. ASSUME NEW c \in Claims, Claim(w, c)
          PROVE  h'[w].pc = "send"
      BY <1>1, <3>4 DEF Claim, Idle, TypeOK
    <3>5. CASE Send(w)
      <4>1. PICK o \in Outcomes : h' = [h EXCEPT ![w] = [@ EXCEPT !.pc = "mark", !.verdict = o.verdict]]
        BY <3>5 DEF Send
      <4>2. h'[w].pc = "mark"
        BY <1>1, <3>1, <4>1 DEF TypeOK, Handler
      <4> QED  BY <4>2 DEF Refreshing
    <3>6. CASE MarkThrows(w)
      BY <1>1, <3>1, <3>6 DEF MarkThrows, TypeOK, Handler, Refreshing
    <3> QED  BY <1>2, <3>2, <3>3, <3>4, <3>5, <3>6 DEF Refreshing
  <2> QED  BY <1>1, <2>1, <2>2, <2>3, RefreshFrame
<1>3. ASSUME \/ IdentityClash \/ SubscriptionChanges \/ ContactChanges \/ DeleteAccount \/ EraseReceipt
             \/ Bind \/ LeaseRunsOut \/ (\E c \in Claims : Reconcile(c)) \/ UNCHANGED vars
      PROVE  RefreshInv'
  <2>1. UNCHANGED <<recorded, entitlement, h>>
    BY <1>3 DEF IdentityClash, SubscriptionChanges, ContactChanges, DeleteAccount, EraseReceipt, Bind,
       LeaseRunsOut, Reconcile, vars
  <2>2. Active' => Active
    BY <1>3 DEF IdentityClash, SubscriptionChanges, ContactChanges, DeleteAccount, EraseReceipt, Bind,
       LeaseRunsOut, Reconcile, vars, Active
  <2> QED  BY <1>1, <2>1, <2>2, RefreshFrame
<1> QED
  BY <1>1, <1>2, <1>3, ReceiveRefresh, ReadRefresh, CompleteRefreshStep, EraseRefresh DEF Next, HandlerStep

THEOREM RefreshInvariance == Spec => []RefreshInv
<1>1. Init => RefreshInv
  BY InitTypes DEF Init, RefreshInv, NoEntitlement, Idle, ObservationIsCurrent, FencesFollow,
     HolderIsCurrent, Refreshing
<1> QED  BY <1>1, RefreshStep, PTL DEF Spec

\* An entitlement no refresh is due for reflects every recorded event.
THEOREM StoredIsCurrent == Spec => []ObservationIsCurrent
<1>1. RefreshInv => ObservationIsCurrent
  BY DEF RefreshInv
<1> QED  BY <1>1, RefreshInvariance, PTL

\* The stored observation never goes back to an older one.
THEOREM StoredNeverGoesBack == Spec => ObservationNeverGoesBack
<1>1. RefreshInv /\ [Next]_vars => [GoesOn]_vars
  <2> SUFFICES ASSUME RefreshInv, Next PROVE GoesOn
    OBVIOUS
  <2>1. entitlement.seen # None => entitlement.seen \in Nat
    BY DEF RefreshInv, TypeOK, Entitlement, Seen
  <2>2. CASE entitlement'.seen = entitlement.seen
    BY <2>1, <2>2 DEF GoesOn
  <2>3. ASSUME NEW w \in Handlers, CompleteRefresh(w)
        PROVE  GoesOn
    <3>1. CASE Fenced(w)
      <4>1. h[w].seen \in Nat /\ (entitlement.seen # None => entitlement.seen <= h[w].seen)
        BY <2>3, <3>1 DEF CompleteRefresh, RefreshInv, HolderIsCurrent, TypeOK, Handler, Seen
      <4>2. entitlement'.seen = h[w].seen
        BY <2>3, <3>1 DEF CompleteRefresh, RefreshInv, TypeOK, Entitlement
      <4> QED  BY <2>1, <4>1, <4>2 DEF GoesOn
    <3>2. CASE ~Fenced(w)
      BY <2>3, <2>2, <3>2 DEF CompleteRefresh
    <3> QED  BY <3>1, <3>2
  <2>4. ASSUME EraseEntitlement
        PROVE  GoesOn
    BY <2>4 DEF EraseEntitlement, NoEntitlement, GoesOn
  <2>5. ASSUME NEW w \in Handlers, HandlerStep(w), ~CompleteRefresh(w)
        PROVE  entitlement'.seen = entitlement.seen
    BY <2>5 DEF HandlerStep, Receive, Read, ReadConflict, RefreshFails, MarkConflict,
       CompleteConflict, Ask, Claim, ClaimExpired, Send, Mark, MarkThrows, Stop, RefreshInv, TypeOK, Entitlement
  <2>6. ASSUME \/ IdentityClash \/ SubscriptionChanges \/ ContactChanges \/ DeleteAccount \/ EraseReceipt
               \/ Bind \/ LeaseRunsOut \/ \E c \in Claims : Reconcile(c)
        PROVE  entitlement'.seen = entitlement.seen
    BY <2>6 DEF IdentityClash, SubscriptionChanges, ContactChanges, DeleteAccount, EraseReceipt, Bind,
       LeaseRunsOut, Reconcile
  <2> QED  BY <2>2, <2>3, <2>4, <2>5, <2>6 DEF Next
<1> QED  BY <1>1, RefreshInvariance, PTL DEF Spec, ObservationNeverGoesBack

\* Overlapping refreshes: what is stored is what its own question was answered,
\* and never an older state of the provider than was stored before.
THEOREM ObservationAlwaysHolds == Spec => ObservationHolds
BY StoredIsCurrent, StoredNeverGoesBack, PTL DEF ObservationHolds, ObservationNeverGoesBack

-----------------------------------------------------------------------------
(* OperatorKeys *)

\* The inductive invariant: what a key set is told by its age.  A key that is
\* published was published until now; a fetch brings keys of its own time, and a
\* cache that is fresh has keys of no more than an age and a fetch ago.
KTypes ==
  /\ tick \in Nat /\ nextForced \in Nat
  /\ jwks.now \subseteq Kids /\ jwks.last \in [Kids -> Nat] /\ DOMAIN jwks = {"now", "last"}
  /\ cache.keys \subseteq Kids /\ cache.until \in Nat
  /\ refresh \in [pc : {"none", "asked", "answered"}, since : Nat, keys : SUBSET Kids]
  /\ DOMAIN asker = Askers
  /\ \A a \in Askers : asker[a].pc # "none" => asker[a].kid \in Kids
  /\ \A a \in Askers : asker[a].pc = "accepted" => asker[a].at \in Nat

Published == \A k \in Kids : jwks.last[k] <= tick /\ (k \in jwks.now => jwks.last[k] = tick)

Fetching ==
  refresh.pc # "none" => /\ refresh.since <= tick /\ tick <= refresh.since + FetchLimit
                         /\ refresh.pc = "answered" =>
                              \A k \in refresh.keys : jwks.last[k] >= refresh.since

CacheIsRecent == \A k \in cache.keys : jwks.last[k] + MaxAge + FetchLimit >= cache.until

Accepted ==
  \A a \in Askers : asker[a].pc = "accepted" =>
    jwks.last[asker[a].kid] + MaxAge + FetchLimit >= asker[a].at

Spaced ==
  /\ spaced.ok
  /\ spaced.ever => spaced.at \in Nat /\ spaced.at <= tick /\ nextForced >= spaced.at + Cooldown

KInv == KTypes /\ Published /\ Fetching /\ CacheIsRecent /\ Accepted /\ Spaced

LEMMA KeysStart == KeysInit => KInv
<1> SUFFICES ASSUME KeysInit PROVE KInv
  OBVIOUS
<1> USE KeysAssumption
<1>1. PICK k \in Kids : jwks = [now |-> {k}, last |-> [i \in Kids |-> 0]]
  BY DEF KeysInit
<1>2. KTypes /\ Published
  BY <1>1 DEF KeysInit, KTypes, Published, NoFetch, Silent
<1>3. QED BY <1>2 DEF KeysInit, KInv, Fetching, CacheIsRecent, Accepted, Spaced, NoFetch, Silent

\* Time and the provider only move the dates of keys forward.
LEMMA DatesGoOn ==
  ASSUME KTypes, Published, [KeysNext]_keyVars
  PROVE  /\ tick' \in Nat /\ tick' >= tick
         /\ jwks'.last \in [Kids -> Nat] /\ jwks'.now \subseteq Kids /\ DOMAIN jwks' = {"now", "last"}
         /\ \A k \in Kids : jwks'.last[k] >= jwks.last[k] /\ jwks'.last[k] <= tick'
                            /\ (k \in jwks'.now => jwks'.last[k] = tick')
<1> USE DEF KTypes, Published
<1>1. CASE Tick
  <2>1. /\ jwks' = [now |-> jwks.now, last |-> [k \in Kids |-> IF k \in jwks.now THEN tick' ELSE jwks.last[k]]]
        /\ tick' = tick + 1
    BY <1>1 DEF Tick
  <2>2. QED BY <2>1
<1>2. ASSUME NEW ks \in (SUBSET Kids) \ {{}}, RotateKeys(ks) 
      PROVE  /\ tick' = tick
             /\ jwks' = [now |-> ks, last |-> [k \in Kids |-> IF k \in ks THEN tick ELSE jwks.last[k]]]
  BY <1>2 DEF RotateKeys
<1>3. CASE UNCHANGED <<tick, jwks>>
  BY <1>3
<1>4. ASSUME KeysNext, ~Tick, ~\E ks \in (SUBSET Kids) \ {{}} : RotateKeys(ks)
      PROVE  UNCHANGED <<tick, jwks>>
  BY <1>4 DEF KeysNext, AskerLeaves, AskWithoutKeys, AskKnown, AskTooSoon, AskUnknown,
              FetchAnswered, FetchEnds, FetchFails
<1>5. CASE UNCHANGED keyVars
  BY <1>3, <1>5 DEF keyVars
<1>6. CASE \E ks \in (SUBSET Kids) \ {{}} : RotateKeys(ks)
  BY <1>2, <1>6
<1>7. QED BY <1>1, <1>3, <1>4, <1>5, <1>6

LEMMA KeysStep == KInv /\ [KeysNext]_keyVars => KInv'
<1> SUFFICES ASSUME KInv, [KeysNext]_keyVars PROVE KInv'
  OBVIOUS
<1> USE KeysAssumption
<1>1. KTypes /\ Published /\ Fetching /\ CacheIsRecent /\ Accepted /\ Spaced
  BY DEF KInv
<1>2. /\ tick' \in Nat /\ tick' >= tick
      /\ jwks'.last \in [Kids -> Nat] /\ jwks'.now \subseteq Kids /\ DOMAIN jwks' = {"now", "last"}
      /\ \A k \in Kids : jwks'.last[k] >= jwks.last[k] /\ jwks'.last[k] <= tick'
                         /\ (k \in jwks'.now => jwks'.last[k] = tick')
  BY <1>1, DatesGoOn
\* What does not move goes on holding while the dates move forward.
<1>3. UNCHANGED cache => CacheIsRecent'
  BY <1>1, <1>2 DEF KTypes, CacheIsRecent
<1>4. UNCHANGED asker => Accepted'
  BY <1>1, <1>2 DEF KTypes, Accepted
<1>5. UNCHANGED refresh /\ (refresh.pc # "none" => tick' <= refresh.since + FetchLimit) => Fetching'
  <2>1. SUFFICES ASSUME UNCHANGED refresh, refresh.pc # "none", tick' <= refresh.since + FetchLimit
        PROVE  refresh.since <= tick' /\ (refresh.pc = "answered" => \A k \in refresh.keys : jwks'.last[k] >= refresh.since)
    BY DEF Fetching
  <2>2. refresh.since \in Nat /\ refresh.keys \subseteq Kids
    BY <1>1 DEF KTypes
  <2>3. QED BY <1>1, <1>2, <2>1, <2>2 DEF KTypes, Fetching
<1>6. UNCHANGED <<nextForced, spaced>> => Spaced'
  BY <1>1, <1>2 DEF KTypes, Spaced
<1>7. Published'
  BY <1>2 DEF Published
<1>8. UNCHANGED <<cache, refresh, asker, nextForced>> => KTypes'
  BY <1>1, <1>2 DEF KTypes
<1>9. UNCHANGED tick /\ UNCHANGED refresh => Fetching'
  BY <1>1, <1>5 DEF Fetching
<1>10. CASE UNCHANGED keyVars
  BY <1>3, <1>4, <1>6, <1>7, <1>8, <1>9, <1>10 DEF keyVars, KInv
<1>11. CASE Tick
  BY <1>1, <1>3, <1>4, <1>5, <1>6, <1>7, <1>8, <1>11 DEF Tick, KInv, KTypes
<1>12. ASSUME NEW ks \in (SUBSET Kids) \ {{}}, RotateKeys(ks) PROVE KInv'
  BY <1>3, <1>4, <1>6, <1>7, <1>8, <1>9, <1>12 DEF RotateKeys, KInv
\* The requests.
<1> DEFINE Joined == /\ refresh' \in [pc : {"none", "asked", "answered"}, since : Nat, keys : SUBSET Kids]
                     /\ Fetching'
           AskersOK == /\ Accepted'
                       /\ DOMAIN asker' = Askers
                       /\ \A b \in Askers : asker'[b].pc # "none" => asker'[b].kid \in Kids
                       /\ \A b \in Askers : asker'[b].pc = "accepted" => asker'[b].at \in Nat
<1>13. ASSUME UNCHANGED <<tick, jwks>>, Join PROVE Joined
  <2>1. CASE refresh.pc = "none"
    <3>1. refresh' = [pc |-> "asked", since |-> tick, keys |-> {}]
      BY <1>13, <2>1 DEF Join, NoFetch
    <3>2. tick \in Nat
      BY <1>1 DEF KTypes
    <3>3. QED BY <1>13, <3>1, <3>2 DEF Fetching
  <2>2. CASE refresh.pc # "none"
    BY <1>1, <1>9, <1>13, <2>2 DEF Join, KTypes
  <2>3. QED BY <2>1, <2>2
<1>14. ASSUME NEW a \in Askers, NEW y, asker' = [asker EXCEPT ![a] = y],
              y.pc # "none" => y.kid \in Kids, y.pc = "accepted" => y.at \in Nat,
              y.pc = "accepted" => jwks'.last[y.kid] + MaxAge + FetchLimit >= y.at
       PROVE  AskersOK
  <2>1. \A b \in Askers : asker'[b] = IF b = a THEN y ELSE asker[b]
    BY <1>1, <1>14 DEF KTypes
  <2>2. \A b \in Askers : asker[b].pc = "accepted" =>
          asker[b].kid \in Kids /\ asker[b].at \in Nat /\ jwks.last[asker[b].kid] \in Nat
    BY <1>1 DEF KTypes
  <2>3. Accepted'
    BY <1>1, <1>2, <1>14, <2>1, <2>2 DEF Accepted
  <2>4. QED BY <1>1, <1>14, <2>1, <2>3 DEF KTypes
<1> HIDE DEF Joined, AskersOK
<1>15. ASSUME NEW a \in Askers, NEW k \in Kids, AskWithoutKeys(a, k) PROVE KInv'
  <2>1. Joined
    BY <1>13, <1>15 DEF AskWithoutKeys
  <2>2. asker' = [asker EXCEPT ![a] = [pc |-> "first", kid |-> k]]
    BY <1>15 DEF AskWithoutKeys, WaitFor
  <2> DEFINE y == [pc |-> "first", kid |-> k]
  <2>3. y.pc = "first" /\ y.kid = k
    OBVIOUS
  <2> HIDE DEF y
  <2>5. AskersOK
    BY <1>14, <2>2, <2>3 DEF y
  <2>6. KTypes'
    BY <1>1, <1>2, <1>15, <2>1, <2>5 DEF AskWithoutKeys, KTypes, Joined, AskersOK
  <2>4. QED BY <1>3, <1>6, <1>7, <1>15, <2>1, <2>5, <2>6 DEF AskWithoutKeys, KInv, Joined, AskersOK
<1>16. ASSUME NEW a \in Askers, NEW k \in Kids, AskKnown(a, k) PROVE KInv'
  <2> DEFINE y == [pc |-> "accepted", kid |-> k, at |-> tick]
  <2>1. asker' = [asker EXCEPT ![a] = y]
    BY <1>16 DEF AskKnown, Reply
  <2>2. jwks'.last[k] + MaxAge + FetchLimit >= tick /\ tick \in Nat
    BY <1>1, <1>2, <1>16 DEF AskKnown, CacheFresh, CacheIsRecent, KTypes
  <2>3. y.pc = "accepted" /\ y.kid = k /\ y.at = tick
    OBVIOUS
  <2> HIDE DEF y
  <2>4. AskersOK
    BY <1>14, <2>1, <2>2, <2>3
  <2>5. KTypes'
    BY <1>1, <1>2, <1>16, <2>4 DEF AskKnown, KTypes, AskersOK
  <2>6. QED BY <1>3, <1>6, <1>7, <1>9, <1>16, <2>4, <2>5 DEF AskKnown, KInv, AskersOK
<1>17. ASSUME NEW a \in Askers, NEW k \in Kids, AskTooSoon(a, k) PROVE KInv'
  <2>1. asker' = [asker EXCEPT ![a] = [pc |-> "refused", kid |-> k, at |-> tick]]
    BY <1>17 DEF AskTooSoon, Reply
  <2> DEFINE y == [pc |-> "refused", kid |-> k, at |-> tick]
  <2>3. y.pc = "refused" /\ y.kid = k
    OBVIOUS
  <2> HIDE DEF y
  <2>4. AskersOK
    BY <1>14, <2>1, <2>3 DEF y
  <2>5. KTypes'
    BY <1>1, <1>2, <1>17, <2>4 DEF AskTooSoon, KTypes, AskersOK
  <2>6. QED BY <1>3, <1>6, <1>7, <1>9, <1>17, <2>4, <2>5 DEF AskTooSoon, KInv, AskersOK
<1>18. ASSUME NEW a \in Askers, NEW k \in Kids, AskUnknown(a, k) PROVE KInv'
  <2>1. Joined
    BY <1>13, <1>18 DEF AskUnknown
  <2>2. asker' = [asker EXCEPT ![a] = [pc |-> "forced", kid |-> k]]
    BY <1>18 DEF AskUnknown, WaitFor
  <2>3. nextForced' = tick + Cooldown /\ tick \in Nat /\ tick' = tick
    BY <1>1, <1>18 DEF AskUnknown, NextForced, KTypes
  <2> DEFINE y == [pc |-> "forced", kid |-> k]
  <2>7. y.pc = "forced" /\ y.kid = k
    OBVIOUS
  <2> HIDE DEF y
  <2>8. AskersOK
    BY <1>14, <2>2, <2>7 DEF y
  <2>4. KTypes'
    BY <1>1, <1>2, <1>18, <2>1, <2>3, <2>8 DEF AskUnknown, KTypes, Joined, AskersOK
  <2>5. Spaced'
    <3>1. CASE refresh.pc # "none"
      BY <1>1, <1>18, <2>3, <3>1 DEF AskUnknown, Spaced
    <3>2. CASE refresh.pc = "none"
      <4>1. spaced' = [at |-> tick, ever |-> TRUE, ok |-> spaced.ok /\ (spaced.ever => tick >= spaced.at + Cooldown)]
        BY <1>18, <3>2 DEF AskUnknown
      <4>2. spaced.ever => tick >= spaced.at + Cooldown
        BY <1>1, <1>18 DEF AskUnknown, Spaced, KTypes
      <4>3. spaced.ok
        BY <1>1 DEF Spaced
      <4>4. spaced'.ok
        BY <4>1, <4>2, <4>3, Zenon
      <4>5. spaced'.at = tick
        BY <4>1
      <4>6. QED BY <2>3, <4>4, <4>5 DEF Spaced
    <3>3. QED BY <3>1, <3>2
  <2>6. QED BY <1>3, <1>7, <1>18, <2>1, <2>4, <2>5, <2>8 DEF AskUnknown, KInv, Joined, AskersOK
<1>19. ASSUME NEW a \in Askers, AskerLeaves(a) PROVE KInv'
  <2>1. asker' = [asker EXCEPT ![a] = [pc |-> "none"]]
    BY <1>19 DEF AskerLeaves, Silent
  <2>2. AskersOK
    BY <1>14, <2>1
  <2>3. KTypes'
    BY <1>1, <1>2, <1>19, <2>2 DEF AskerLeaves, KTypes, AskersOK
  <2>4. QED BY <1>3, <1>6, <1>7, <1>9, <1>19, <2>2, <2>3 DEF AskerLeaves, KInv, AskersOK
\* The fetch.
<1>20. CASE FetchAnswered
  <2>1. refresh' = [pc |-> "answered", since |-> refresh.since, keys |-> jwks.now] /\ refresh.pc = "asked"
    BY <1>1, <1>20 DEF FetchAnswered, KTypes
  <2>2. refresh.since \in Nat /\ refresh.since <= tick /\ tick <= refresh.since + FetchLimit
    BY <1>1, <2>1 DEF KTypes, Fetching
  <2>3. KTypes' /\ Fetching'
    BY <1>1, <1>2, <1>20, <2>1, <2>2 DEF FetchAnswered, KTypes, Fetching, Published
  <2>4. QED BY <1>3, <1>4, <1>6, <1>7, <1>20, <2>3 DEF FetchAnswered, KInv
<1>21. CASE FetchEnds
  <2>1. /\ refresh.pc = "answered" /\ refresh.since \in Nat /\ refresh.keys \subseteq Kids /\ tick \in Nat
        /\ tick <= refresh.since + FetchLimit
        /\ \A k \in refresh.keys : jwks.last[k] >= refresh.since /\ jwks.last[k] \in Nat
    BY <1>1, <1>21 DEF FetchEnds, Fetching, KTypes
  <2>2. refresh' = [pc |-> "none", since |-> 0, keys |-> {}] /\ tick' = tick /\ jwks' = jwks
        /\ cache' = [keys |-> refresh.keys, until |-> tick + MaxAge]
    BY <1>21 DEF FetchEnds, NoFetch
  <2>3. CacheIsRecent' /\ Fetching'
    BY <2>1, <2>2 DEF CacheIsRecent, Fetching
  <2>4. \A a \in Askers : asker'[a] = IF ~InWait(a) THEN asker[a]
                          ELSE [pc |-> IF asker[a].kid \in refresh.keys THEN "accepted" ELSE "refused",
                                kid |-> asker[a].kid, at |-> tick]
    BY <1>21 DEF FetchEnds, Reply
  <2>5. DOMAIN asker' = Askers
    BY <1>21 DEF FetchEnds
  <2>6. ASSUME NEW a \in Askers
        PROVE  /\ asker'[a].pc # "none" => asker'[a].kid \in Kids
               /\ asker'[a].pc = "accepted" =>
                    asker'[a].at \in Nat /\ jwks.last[asker'[a].kid] + MaxAge + FetchLimit >= asker'[a].at
    <3>1. CASE ~InWait(a)
      BY <1>1, <2>4, <3>1 DEF KTypes, Accepted
    <3>2. CASE InWait(a)
      <4>1. asker[a].kid \in Kids
        BY <1>1, <3>2 DEF KTypes, InWait
      <4>2. asker'[a].kid = asker[a].kid /\ asker'[a].at = tick
            /\ (asker'[a].pc = "accepted" => asker[a].kid \in refresh.keys)
        <5> DEFINE y == [pc |-> IF asker[a].kid \in refresh.keys THEN "accepted" ELSE "refused",
                         kid |-> asker[a].kid, at |-> tick]
        <5>1. asker'[a] = y
          BY <2>4, <3>2
        <5>2. y.kid = asker[a].kid /\ y.at = tick /\ (y.pc = "accepted" => asker[a].kid \in refresh.keys)
          OBVIOUS
        <5> HIDE DEF y
        <5>3. QED BY <5>1, <5>2
      <4>3. QED BY <2>1, <4>1, <4>2
    <3>3. QED BY <3>1, <3>2
  <2>7. KTypes' /\ Accepted'
    BY <1>1, <1>2, <1>21, <2>1, <2>2, <2>5, <2>6 DEF KTypes, Accepted, FetchEnds
  <2>8. QED BY <1>6, <1>7, <1>21, <2>3, <2>7 DEF FetchEnds, KInv
<1>22. CASE FetchFails
  <2>1. refresh' = [pc |-> "none", since |-> 0, keys |-> {}] /\ tick' = tick /\ jwks' = jwks
    BY <1>22 DEF FetchFails, NoFetch
  <2>2. \A a \in Askers : asker'[a] = IF InWait(a) THEN [pc |-> "refused", kid |-> asker[a].kid, at |-> tick]
                                      ELSE asker[a]
    BY <1>22 DEF FetchFails, Reply
  <2>3. DOMAIN asker' = Askers
    BY <1>22 DEF FetchFails
  <2>4. KTypes' /\ Accepted' /\ Fetching'
    <3>1. ASSUME NEW a \in Askers
          PROVE  /\ asker'[a].pc # "none" => asker'[a].kid \in Kids
                 /\ asker'[a].pc = "accepted" => asker'[a] = asker[a]
      <4>1. InWait(a) => asker[a].kid \in Kids
        BY <1>1 DEF KTypes, InWait
      <4>2. InWait(a) => asker'[a].pc = "refused" /\ asker'[a].kid = asker[a].kid
        <5> DEFINE y == [pc |-> "refused", kid |-> asker[a].kid, at |-> tick]
        <5>1. InWait(a) => asker'[a] = y
          BY <2>2
        <5>2. y.kid = asker[a].kid /\ y.pc = "refused"
          OBVIOUS
        <5> HIDE DEF y
        <5>3. QED BY <5>1, <5>2
      <4>3. QED BY <1>1, <2>2, <4>1, <4>2 DEF KTypes
    <3>2. QED BY <1>1, <1>2, <1>22, <2>1, <2>3, <3>1 DEF KTypes, Accepted, Fetching, FetchFails
  <2>5. QED BY <1>3, <1>6, <1>7, <1>22, <2>4 DEF FetchFails, KInv
<1>23. QED
  BY <1>10, <1>11, <1>12, <1>15, <1>16, <1>17, <1>18, <1>19, <1>20, <1>21, <1>22 DEF KeysNext

\* However requests share fetches and the provider rotates its keys: no token is
\* accepted by a key longer gone than an age and a fetch, and the provider is asked
\* for unknown keys once per cooldown.
THEOREM KeysStayRecent == KeysSpec => []KeysAreRecent
<1>1. KInv => KeysAreRecent
  BY DEF KInv, KeysAreRecent, Accepted, Spaced
<1>2. QED BY <1>1, KeysStart, KeysStep, PTL DEF KeysSpec

-----------------------------------------------------------------------------
(* ProviderCustomer *)

Call == [pc : {"none", "search", "aliases", "ready", "delete", "verify", "failed", "accepted", "absent"},
         target : AppUserIds \cup {NoCustomer}, read : SUBSET AppUserIds, found : BOOLEAN,
         pages : Nat, free : BOOLEAN, late : SUBSET AppUserIds]

\* Every identifier with a customer belongs to one that is itself.
Rooted == /\ customer \in [AppUserIds -> AppUserIds \cup {NoCustomer}]
          /\ \A i \in AppUserIds : customer[i] # NoCustomer => customer[customer[i]] = customer[i]

\* The inductive invariant: what a call knows of its target outlives what the
\* provider does meanwhile.  Aliases it has not read are late; a target that was the
\* account's is so, or lost all it had and left the account without a customer.
Target(e) ==
  /\ e.pc = "search" => e.read = {}
  /\ e.pc \in {"aliases", "ready", "delete"} =>
       /\ e.target \in AppUserIds \ {NoCustomer} /\ Canonical(e.target)
       /\ e.read \subseteq {Me} \cup Anonymous
       /\ e.found => customer[Me] = e.target \/ (e.free /\ AliasesOf(e.target) \subseteq e.late)

WholeRead(e) == e.pc \in {"ready", "delete"} => e.found /\ AliasesOf(e.target) \ e.late \subseteq e.read

Answered(e) == e.pc \in {"accepted", "absent"} => e.free

Taken == \A e \in erased : e.ids \subseteq {Me} \cup Anonymous /\ (e.ids # {} => e.mine)

CInv == Rooted /\ erasure \in Call /\ Target(erasure) /\ WholeRead(erasure) /\ Answered(erasure) /\ Taken

LEMMA CustomerStart == CustomerInit => CInv
<1> SUFFICES ASSUME CustomerInit PROVE CInv
  OBVIOUS
<1>1. erasure = [pc |-> "none", target |-> NoCustomer, read |-> {}, found |-> FALSE, pages |-> 0,
                 free |-> FALSE, late |-> {}]
  BY DEF CustomerInit, NoCall
<1>2. erasure.pc = "none" /\ erasure \in Call
  BY <1>1 DEF Call
<1>3. QED BY <1>2 DEF CustomerInit, CInv, Rooted, Target, WholeRead, Answered, Taken

LEMMA CustomerStep == CInv /\ [CustomerNext]_customerVars => CInv'
<1> SUFFICES ASSUME CInv, [CustomerNext]_customerVars PROVE CInv'
  OBVIOUS
<1> USE CustomerAssumption
<1>1. Rooted /\ erasure \in Call /\ Target(erasure) /\ WholeRead(erasure) /\ Answered(erasure) /\ Taken
  BY DEF CInv
<1>2. Me \in AppUserIds /\ (\A c : Canonical(c) <=> c \in {Me} \cup Anonymous)
  BY DEF AppUserIds, Canonical
<1>3. CASE UNCHANGED customerVars
  BY <1>1, <1>3 DEF customerVars, CInv, Rooted, Target, WholeRead, Answered, Taken, AliasesOf
\* A call that only moves on, or fails.
<1>4. ASSUME NEW pc \in {"failed", "delete", "verify"}, CallTo(pc), SameProvider, pc = "delete" => InCall("ready")
      PROVE  CInv'
  <2>1. erasure' \in Call /\ erasure'.pc = pc /\ erasure'.target = erasure.target /\ erasure'.read = erasure.read
        /\ erasure'.found = erasure.found /\ erasure'.free = erasure.free /\ erasure'.late = erasure.late
    BY <1>1, <1>4 DEF CallTo, Call
  <2>2. QED BY <1>1, <1>4, <2>1 DEF SameProvider, CInv, Rooted, Target, WholeRead, Answered, Taken, AliasesOf, InCall
<1>5. ASSUME NEW i \in AppUserIds, NEW c \in AppUserIds, LogIn(i, c) PROVE CInv'
  <2>1. erasure' = [erasure EXCEPT !.late = @ \cup {i}] /\ UNCHANGED erased
        /\ customer' = [customer EXCEPT ![i] = c] /\ customer[i] = NoCustomer /\ c \in AllCustomers \cup {i}
    BY <1>5 DEF LogIn
  <2>2. erasure' \in Call /\ erasure'.pc = erasure.pc /\ erasure'.target = erasure.target /\ erasure'.read = erasure.read
        /\ erasure'.found = erasure.found /\ erasure'.free = erasure.free /\ erasure'.late = erasure.late \cup {i}
    BY <1>1, <2>1 DEF Call
  <2>3. Rooted'
    <3>1. c # i => c # NoCustomer /\ customer[c] = c
      BY <1>1, <2>1 DEF AllCustomers, Rooted
    <3>2. \A j \in AppUserIds : customer'[j] = IF j = i THEN c ELSE customer[j]
      BY <1>1, <2>1 DEF Rooted
    <3>3. \A j \in AppUserIds : customer[j] # NoCustomer => customer[j] # i \/ i = NoCustomer
      BY <1>1, <2>1 DEF Rooted
    <3>4. QED BY <1>1, <2>1, <3>1, <3>2, <3>3 DEF Rooted
  <2>4. \A t \in AppUserIds \ {NoCustomer} :
          AliasesOf(t)' \subseteq AliasesOf(t) \cup {i} /\ (customer[Me] = t => customer'[Me] = t)
    BY <1>1, <2>1 DEF AliasesOf, Rooted
  <2>5. Target(erasure)' /\ WholeRead(erasure)'
    BY <1>1, <2>2, <2>4 DEF Target, WholeRead
  <2>6. QED BY <1>1, <2>1, <2>2, <2>3, <2>5 DEF CInv, Answered, Taken
\* The provider removes a customer, by itself or because it was asked.
<1>6. ASSUME NEW c \in AppUserIds \ {NoCustomer}, customer' = Without(c)
      PROVE  /\ Rooted'
             /\ \A t \in AppUserIds \ {NoCustomer} : AliasesOf(t)' = IF t = c THEN {} ELSE AliasesOf(t)
             /\ customer'[Me] = IF customer[Me] = c THEN NoCustomer ELSE customer[Me]
  <2>1. \A i \in AppUserIds : customer'[i] = IF customer[i] = c THEN NoCustomer ELSE customer[i]
    BY <1>6 DEF Without
  <2>2. customer' \in [AppUserIds -> AppUserIds \cup {NoCustomer}]
    BY <1>1, <1>6 DEF Without, Rooted
  <2>3. Rooted'
    BY <1>1, <1>6, <2>1, <2>2 DEF Rooted
  <2>4. ASSUME NEW t \in AppUserIds \ {NoCustomer} PROVE AliasesOf(t)' = IF t = c THEN {} ELSE AliasesOf(t)
    BY <2>1 DEF AliasesOf
  <2>5. QED BY <1>2, <2>1, <2>3, <2>4
<1>7. ASSUME NEW c \in AppUserIds, CustomerRemoved(c) PROVE CInv'
  <2>1. c # NoCustomer /\ customer' = Without(c) /\ erasure' = [erasure EXCEPT !.free = FreeAfter] /\ UNCHANGED erased
    BY <1>7 DEF CustomerRemoved, AllCustomers
  <2>2. FreeAfter \in BOOLEAN /\ (FreeAfter <=> erasure.free \/ customer'[Me] = NoCustomer)
    BY <1>1 DEF FreeAfter, Call
  <2>3. erasure' \in Call /\ erasure'.pc = erasure.pc /\ erasure'.target = erasure.target /\ erasure'.read = erasure.read
        /\ erasure'.found = erasure.found /\ erasure'.free = FreeAfter /\ erasure'.late = erasure.late
    BY <1>1, <2>1, <2>2 DEF Call
  <2>4. Target(erasure)' /\ WholeRead(erasure)' /\ Answered(erasure)'
    BY <1>1, <1>6, <2>1, <2>2, <2>3 DEF Target, WholeRead, Answered
  <2>5. QED BY <1>1, <1>6, <2>1, <2>3, <2>4 DEF CInv, Taken
<1>8. CASE BeginCall
  <2>1. erasure' = [pc |-> "search", target |-> NoCustomer, read |-> {}, found |-> FALSE, pages |-> 0,
                    free |-> FALSE, late |-> {}] /\ UNCHANGED <<customer, erased>>
    BY <1>8 DEF BeginCall, NoCall
  <2>2. erasure'.pc = "search" /\ erasure' \in Call
    BY <2>1 DEF Call
  <2>3. QED BY <1>1, <2>1, <2>2 DEF CInv, Rooted, Target, WholeRead, Answered, Taken
<1>9. ASSUME NEW hits \in SUBSET AppUserIds, Search(hits) PROVE CInv'
  <2>1. UNCHANGED <<customer, erased>> /\ MayList(hits)
    BY <1>9 DEF Search, SameProvider
  <2>2. CASE hits = {}
    <3>1. erasure' = [erasure EXCEPT !.pc = "absent", !.free = customer[Me] = NoCustomer]
      BY <1>9, <2>2 DEF Search
    <3>2. customer[Me] = NoCustomer
      BY <2>1, <2>2 DEF MayList
    <3>3. erasure' \in Call /\ erasure'.pc = "absent" /\ erasure'.free
      BY <1>1, <3>1, <3>2 DEF Call
    <3>4. QED BY <1>1, <2>1, <3>3 DEF CInv, Rooted, Target, WholeRead, Answered, Taken
  <2>3. ASSUME NEW c \in hits, hits = {c}, Canonical(c) PROVE CInv'
    <3> DEFINE none == customer[Me] = NoCustomer
               mine == Me \in hits
    <3>1. erasure' = [erasure EXCEPT !.pc = "aliases", !.target = CHOOSE d \in hits : TRUE,
                                     !.found = mine, !.free = none, !.late = {}]
      BY <1>9, <2>3 DEF Search
    <3>2. (CHOOSE d \in hits : TRUE) = c
      BY <2>3
    <3>3. c \in AllCustomers /\ c \in AppUserIds /\ c # NoCustomer /\ customer[c] = c
      BY <1>1, <2>1, <2>3 DEF MayList, AllCustomers, Rooted
    <3>4. none \in BOOLEAN /\ mine \in BOOLEAN /\ (mine => c = Me)
      BY <2>3
    <3> HIDE DEF none, mine
    <3>5. erasure' \in Call /\ erasure'.pc = "aliases" /\ erasure'.target = c /\ erasure'.read = erasure.read
          /\ erasure'.found = mine
      BY <1>1, <3>1, <3>2, <3>3, <3>4 DEF Call
    <3>6. erasure.read = {}
      BY <1>1, <1>9 DEF Search, InCall, Target
    <3>7. QED BY <1>1, <2>1, <2>3, <3>3, <3>4, <3>5, <3>6 DEF CInv, Rooted, Target, WholeRead, Answered, Taken
  <2>4. CASE hits # {} /\ ~\E c \in hits : hits = {c} /\ Canonical(c)
    <3>1. erasure' = [erasure EXCEPT !.pc = "failed"]
      BY <1>9, <2>4 DEF Search
    <3>2. QED BY <1>4, <1>9, <3>1 DEF CallTo, Search
  <2>5. QED BY <2>2, <2>3, <2>4
<1>10. ASSUME NEW rows \in SUBSET AppUserIds, NEW more \in BOOLEAN, AliasPage(rows, more) PROVE CInv'
  <2> DEFINE left  == AliasesOf(erasure.target) \ erasure.read
             named == erasure.found \/ Me \in rows
             bad   == ~Own(rows) \/ (more /\ erasure.pages + 1 = MaxPages) \/ (~more /\ ~IsTheirs(named))
  <2>1. /\ erasure.pc = "aliases" /\ rows \subseteq left
        /\ ~more => left \ rows \subseteq erasure.late
        /\ SameProvider
        /\ erasure' = CASE bad -> [erasure EXCEPT !.pc = "failed"]
                        [] OTHER -> [erasure EXCEPT !.pc = IF more THEN "aliases" ELSE "ready", !.found = named,
                                            !.read = @ \cup rows, !.pages = @ + 1]
    BY <1>10 DEF AliasPage, InCall
  <2>2. CASE bad
    <3>1. erasure' = [erasure EXCEPT !.pc = "failed"]
      BY <2>1, <2>2
    <3>2. QED BY <1>4, <2>1, <3>1 DEF CallTo
  <2>3. CASE ~bad
    <3>1. rows \subseteq {Me, erasure.target} \cup Anonymous /\ (~more => named)
      BY <2>3 DEF Own, IsTheirs
    <3>2. erasure' = [erasure EXCEPT !.pc = IF more THEN "aliases" ELSE "ready", !.found = named,
                                     !.read = @ \cup rows, !.pages = @ + 1]
      BY <2>1, <2>3
    <3>3. named \in BOOLEAN /\ (Me \in rows => customer[Me] = erasure.target)
      BY <1>1, <2>1 DEF Call, AliasesOf
    <3>4. erasure' \in Call /\ erasure'.pc = (IF more THEN "aliases" ELSE "ready") /\ erasure'.target = erasure.target
          /\ erasure'.read = erasure.read \cup rows /\ erasure'.found = named /\ erasure'.free = erasure.free
          /\ erasure'.late = erasure.late
      <4> DEFINE stage == IF more THEN "aliases" ELSE "ready"
                 read  == erasure.read \cup rows
      <4>1. stage \in {"aliases", "ready"} /\ read \in SUBSET AppUserIds /\ erasure.pages + 1 \in Nat
        BY <1>1 DEF Call
      <4>2. erasure' = [erasure EXCEPT !.pc = stage, !.found = named, !.read = read, !.pages = erasure.pages + 1]
        BY <3>2
      <4> HIDE DEF named, stage, read
      <4>3. erasure' \in Call /\ erasure'.pc = stage /\ erasure'.target = erasure.target /\ erasure'.read = read
            /\ erasure'.found = named /\ erasure'.free = erasure.free /\ erasure'.late = erasure.late
        BY <1>1, <3>3, <4>1, <4>2 DEF Call
      <4> QED BY <4>3 DEF stage, read
    <3>5. erasure'.read \subseteq {Me} \cup Anonymous
      BY <1>1, <1>2, <2>1, <3>1, <3>4 DEF Target
    <3>6. ~more => AliasesOf(erasure.target) \ erasure.late \subseteq erasure'.read
      BY <2>1, <3>4
    <3>7. UNCHANGED <<customer, erased>>
      BY <2>1 DEF SameProvider
    <3>8. named => customer[Me] = erasure.target \/ (erasure.free /\ AliasesOf(erasure.target) \subseteq erasure.late)
      BY <1>1, <2>1, <3>3 DEF Target
    <3> HIDE DEF named, left
    <3>9. Target(erasure)'
      BY <1>1, <2>1, <3>4, <3>5, <3>7, <3>8 DEF Target, AliasesOf
    <3>10. WholeRead(erasure)' /\ Answered(erasure)'
      BY <3>1, <3>4, <3>6, <3>7 DEF WholeRead, Answered, AliasesOf
    <3>11. QED BY <1>1, <3>4, <3>7, <3>9, <3>10 DEF CInv, Rooted, Taken
  <2>4. QED BY <2>2, <2>3
<1>11. ASSUME NEW b \in BOOLEAN, BeforeDelete(b) PROVE CInv'
  BY <1>4, <1>11 DEF BeforeDelete
<1>12. ASSUME NEW b \in BOOLEAN, Delete(b) PROVE CInv'
  <2> DEFINE t == erasure.target
             e == [ids |-> AliasesOf(t) \ erasure.late, mine |-> customer[Me] = t]
  <2>1. /\ erasure.pc = "delete" /\ customer' = Without(t) /\ erased' = erased \cup {e}
        /\ erasure' = [erasure EXCEPT !.pc = IF b THEN "failed" ELSE "accepted", !.free = FreeAfter]
    BY <1>12 DEF Delete, InCall
  <2>2. FreeAfter \in BOOLEAN /\ (FreeAfter <=> erasure.free \/ customer'[Me] = NoCustomer)
    BY <1>1 DEF FreeAfter, Call
  <2>3. erasure' \in Call /\ erasure'.pc = (IF b THEN "failed" ELSE "accepted") /\ erasure'.free = FreeAfter
    BY <1>1, <2>1, <2>2 DEF Call
  <2>4. /\ t \in AppUserIds \ {NoCustomer}
        /\ AliasesOf(t) \ erasure.late \subseteq {Me} \cup Anonymous
        /\ customer[Me] = t \/ (erasure.free /\ AliasesOf(t) \subseteq erasure.late)
    BY <1>1, <2>1 DEF Target, WholeRead
  <2>5. FreeAfter /\ Rooted'
    BY <1>6, <2>1, <2>2, <2>4
  <2>6. Taken'
    <3>1. e.ids = AliasesOf(t) \ erasure.late /\ (e.mine <=> customer[Me] = t)
      OBVIOUS
    <3> HIDE DEF e
    <3>2. QED BY <1>1, <2>1, <2>4, <3>1 DEF Taken
  <2>7. QED BY <2>3, <2>5, <2>6 DEF CInv, Target, WholeRead, Answered
<1>13. ASSUME NEW hits \in SUBSET AppUserIds, VerifyAbsence(hits) PROVE CInv'
  <2> DEFINE free == erasure.free \/ customer[Me] = NoCustomer
  <2>1. erasure' = [erasure EXCEPT !.pc = IF hits = {} THEN "absent" ELSE "failed", !.free = free]
        /\ UNCHANGED <<customer, erased>> /\ MayList(hits)
    BY <1>13 DEF VerifyAbsence, SameProvider
  <2>2. free \in BOOLEAN /\ (hits = {} => free)
    BY <1>1, <2>1 DEF MayList, Call
  <2> HIDE DEF free
  <2>3. erasure' \in Call /\ erasure'.pc = (IF hits = {} THEN "absent" ELSE "failed") /\ erasure'.free = free
    BY <1>1, <2>1, <2>2 DEF Call
  <2>4. QED BY <1>1, <2>1, <2>2, <2>3 DEF CInv, Rooted, Target, WholeRead, Answered, Taken
<1>14. CASE CallFails
  BY <1>4, <1>14 DEF CallFails
<1>15. CASE DeleteGone
  BY <1>4, <1>15 DEF DeleteGone
<1>16. QED
  BY <1>3, <1>5, <1>7, <1>8, <1>9, <1>10, <1>11, <1>12, <1>13, <1>14, <1>15 DEF CustomerNext

\* Whatever the provider and its devices do meanwhile: a call deletes the customer of
\* the account, and nothing that was another's before; and an answer that says it is
\* gone is of a customer that was.
THEOREM CustomerDeletionExact == CustomerSpec => []DeletionIsExact
<1>1. CInv => DeletionIsExact
  BY DEF CInv, DeletionIsExact, Answered, Taken
<1>2. QED BY <1>1, CustomerStart, CustomerStep, PTL DEF CustomerSpec

-----------------------------------------------------------------------------
(* EntitlementReader: least and greatest *)

LEMMA LeastNatural ==
  ASSUME NEW S, S \subseteq Nat, S # {}
  PROVE  \E m \in S : \A k \in S : m <= k
<1>1. PICK m \in S : \A k \in S : <<k, m>> \notin OpToRel(<, Nat)
  BY WFMin, NatLessThanWellFounded, Zenon
<1>2. \A k \in S : ~(k < m)
  BY <1>1, Zenon DEF OpToRel
<1>3. QED BY <1>2

\* Of finitely many dates one is the latest: the bound is by the least number of
\* dates that would have none.
LEMMA DatesBounded ==
  ASSUME NEW n \in Nat, NEW e \in [1 .. n -> Nat]
  PROVE  \E b \in Nat : \A i \in 1 .. n : e[i] <= b
<1> DEFINE Bounded(k) == \E b \in Nat : \A i \in 1 .. k : e[i] <= b
           Wrong      == {k \in 0 .. n : ~Bounded(k)}
<1> HIDE DEF Bounded
<1>1. SUFFICES ASSUME Wrong # {} PROVE FALSE
  <2>1. n \in 0 .. n
    OBVIOUS
  <2>2. Wrong = {} => Bounded(n)
    BY <2>1
  <2>3. QED BY <2>2 DEF Bounded
<1>2. PICK k \in Wrong : \A j \in Wrong : k <= j
  <2>1. Wrong \subseteq Nat
    OBVIOUS
  <2>2. QED BY <1>1, <2>1, LeastNatural
<1>3. k \in 0 .. n /\ ~Bounded(k)
  OBVIOUS
<1>4. k # 0
  <2>1. \A i \in 1 .. 0 : e[i] <= 0
    OBVIOUS
  <2>2. QED BY <1>3, <2>1 DEF Bounded
<1>5. Bounded(k - 1)
  <2>1. k - 1 \in 0 .. n /\ ~(k <= k - 1)
    BY <1>3, <1>4
  <2>2. k - 1 \notin Wrong
    BY <1>2, <2>1
  <2>3. QED BY <2>1, <2>2
<1>6. PICK b \in Nat : \A i \in 1 .. k - 1 : e[i] <= b
  BY <1>5 DEF Bounded
<1>7. e[k] \in Nat
  BY <1>3, <1>4
<1>8. PICK top \in Nat : b <= top /\ e[k] <= top
  <2>1. CASE b <= e[k]
    BY <1>7, <2>1
  <2>2. CASE ~(b <= e[k])
    BY <1>7, <2>2
  <2>3. QED BY <2>1, <2>2
<1>9. \A i \in 1 .. k : e[i] <= top
  <2>1. SUFFICES ASSUME NEW i \in 1 .. k PROVE e[i] <= top
    OBVIOUS
  <2>2. e[i] \in Nat
    BY <1>3
  <2>3. CASE i = k
    BY <1>8, <2>3
  <2>4. CASE i # k
    <3>1. i \in 1 .. k - 1
      BY <1>3, <2>4
    <3>2. e[i] <= b
      BY <1>6, <3>1
    <3>3. QED BY <1>8, <2>2, <3>2
  <2>5. QED BY <2>3, <2>4
<1>10. QED BY <1>3, <1>9 DEF Bounded

LEMMA LatestExists ==
  ASSUME NEW n \in Nat, NEW S, S \subseteq 1 .. n, S # {}, NEW e \in [1 .. n -> Nat]
  PROVE  \E i \in S : \A j \in S : e[j] < e[i] \/ (e[j] = e[i] /\ i <= j)
<1>1. PICK b \in Nat : \A i \in 1 .. n : e[i] <= b
  BY DatesBounded
<1>2. \A i \in S : e[i] \in Nat /\ e[i] <= b /\ i \in Nat
  BY <1>1
<1> DEFINE Short == {b - e[i] : i \in S}
<1>3. PICK d \in Short : \A x \in Short : d <= x
  <2>1. \A i \in S : b - e[i] \in Nat
    BY <1>2
  <2>2. Short \subseteq Nat /\ Short # {}
    BY <2>1
  <2>3. QED BY <2>2, LeastNatural
<1>4. PICK w \in S : d = b - e[w]
  BY <1>3
<1>5. \A j \in S : e[j] <= e[w]
  <2>1. ASSUME NEW j \in S PROVE e[j] <= e[w]
    <3>1. b - e[j] \in Short
      OBVIOUS
    <3>2. b - e[w] <= b - e[j]
      BY <1>3, <1>4, <3>1
    <3>3. QED BY <1>2, <3>2
  <2>2. QED BY <2>1
<1> DEFINE Ties == {i \in S : e[i] = e[w]}
<1>6. PICK i \in Ties : \A j \in Ties : i <= j
  <2>1. Ties \subseteq Nat /\ Ties # {}
    BY <1>2
  <2>2. QED BY <2>1, LeastNatural
<1>7. i \in S /\ e[i] = e[w]
  BY <1>6
<1>8. ASSUME NEW j \in S PROVE e[j] < e[i] \/ (e[j] = e[i] /\ i <= j)
  <2>1. e[j] \in Nat /\ e[w] \in Nat /\ e[j] <= e[w]
    BY <1>2, <1>5
  <2>2. CASE e[j] = e[w]
    BY <1>6, <1>7, <2>2
  <2>3. CASE e[j] # e[w]
    BY <1>7, <2>1, <2>3
  <2>4. QED BY <2>2, <2>3
<1>9. QED BY <1>7, <1>8

-----------------------------------------------------------------------------
(* EntitlementReader: one page *)

Row   == [sub : Subs, form : Forms]
Dates == [Subs -> ({f.tx : f \in Forms} \cup {0}) \X Nat]

Shelved == shelf \in [Subs -> Forms \cup {NoSub}]

LEMMA PageFacts ==
  ASSUME NEW c \in Nat, c <= LastSub
  PROVE  LET next == Further(c)
         IN  /\ Page(c) \subseteq Listed(c)
             /\ next \in Nat /\ c <= next
             /\ \A s \in Page(c) : s <= next
             /\ \A s \in Listed(c) : s <= next => s \in Page(c)
<1> DEFINE listed == Listed(c)  page == Page(c)  next == Further(c)
           upTo(s) == {t \in listed : t <= s}
<1>0. LastSub \in Nat /\ PageRows \in Nat \ {0}
  BY ReaderAssumption
<1>1. listed \subseteq Subs /\ listed \subseteq Nat /\ page \subseteq listed
      /\ (\A s \in listed : s > c /\ s <= LastSub)
  BY <1>0 DEF Listed, Page, Subs
<1>2. CASE listed = page
  BY <1>0, <1>1, <1>2 DEF Further
<1>3. CASE listed # page
  <2>1. IsFiniteSet(listed)
    <3>1. IsFiniteSet(1 .. LastSub)
      BY <1>0, FS_Interval
    <3>2. QED BY <1>1, <3>1, FS_Subset DEF Subs
  <2>2. ASSUME NEW s \in listed
        PROVE  /\ IsFiniteSet(upTo(s)) /\ Cardinality(upTo(s)) \in Nat
               /\ s \in page <=> Cardinality(upTo(s)) <= PageRows
               /\ \A t \in listed : t <= s => Cardinality(upTo(t)) <= Cardinality(upTo(s))
    <3>1. upTo(s) \subseteq listed
      OBVIOUS
    <3>2. IsFiniteSet(upTo(s)) /\ Cardinality(upTo(s)) \in Nat
      BY <2>1, <3>1, FS_Subset, FS_CardinalityType
    <3>3. s \in page <=> Cardinality(upTo(s)) <= PageRows
      BY DEF Page
    <3>4. ASSUME NEW t \in listed, t <= s PROVE Cardinality(upTo(t)) <= Cardinality(upTo(s))
      <4>1. upTo(t) \subseteq upTo(s)
        BY <1>1, <3>4
      <4> HIDE DEF upTo
      <4>2. QED BY <3>2, <4>1, FS_Subset
    <3>5. QED BY <3>2, <3>3, <3>4
  <2>3. page # {}
    <3>1. PICK s \in listed : \A t \in listed : s <= t
      BY <1>1, <1>3, LeastNatural
    <3>2. upTo(s) = {s}
      BY <1>1, <3>1
    <3>3. Cardinality(upTo(s)) = 1
      BY <3>2, FS_Singleton
    <3>4. s \in page
      <4> HIDE DEF page, upTo, listed
      <4>1. 1 <= PageRows
        BY <1>0
      <4>2. QED BY <2>2, <3>3, <4>1
    <3>5. QED BY <3>4
  <2>4. \E s \in page : \A t \in page : t <= s
    <3> DEFINE e == [i \in 1 .. LastSub |-> i]
    <3>1. e \in [1 .. LastSub -> Nat] /\ page \subseteq 1 .. LastSub
      BY <1>1 DEF Subs
    <3>2. PICK i \in page : \A j \in page : e[j] < e[i] \/ (e[j] = e[i] /\ i <= j)
      <4> HIDE DEF e
      <4> QED BY <1>0, <2>3, <3>1, LatestExists
    <3>3. \A j \in page : e[j] = j /\ j \in Nat
      BY <1>1 DEF Subs
    <3> HIDE DEF e, page
    <3>4. QED BY <3>2, <3>3
  <2>5. next \in page /\ \A t \in page : t <= next
    BY <1>3, <2>4 DEF Further
  <2>6. \A s \in listed : s <= next => s \in page
    <3> HIDE DEF next, page, listed, upTo
    <3>1. ASSUME NEW s \in listed, s <= next PROVE s \in page
      <4>1. Cardinality(upTo(next)) <= PageRows /\ Cardinality(upTo(s)) <= Cardinality(upTo(next))
            /\ Cardinality(upTo(next)) \in Nat /\ Cardinality(upTo(s)) \in Nat
        BY <1>1, <2>2, <2>5, <3>1
      <4>2. QED BY <1>0, <2>2, <4>1
    <3>2. QED BY <3>1
  <2>7. next \in Nat /\ c <= next
    BY <1>1, <2>5
  <2>8. QED BY <1>1, <2>5, <2>6, <2>7
<1>4. QED BY <1>2, <1>3

-----------------------------------------------------------------------------
(* EntitlementReader: the inductive invariant *)

Answers == {"none", "thrown", "unavailable", "conflict", "active", "grace", "hold", "expired"}

Look == [pc : {"idle", "owner", "lists", "done"}, asked : Nat, v1 : {<<>>} \cup Dates, rows : SUBSET Row,
         cursor : Nat, catalog : BOOLEAN, answer : Answers, ends : Nat, gift : BOOLEAN,
         ever : SUBSET Subs, held : SUBSET Subs]

Gives(f) == f.kind = "premium" /\ f.gives /\ f.mine

\* What gave access at some moment, and at every moment, of a read that goes on.
Followed ==
  Reading => Giving(shelf) \subseteq look.ever /\ look.held \subseteq Giving(shelf)

\* The rows of the pages so far: one of each subscription, none that gave access
\* unnoticed, and one that gives it of each that did all along.
RowsOK(l) ==
  /\ \A p \in l.rows : p.sub <= l.cursor
  /\ \A p, q \in l.rows : p.sub = q.sub => p = q
  /\ \A p \in l.rows : Gives(p.form) => p.sub \in l.ever
  /\ \A s \in l.held : s <= l.cursor => \E p \in l.rows : p.sub = s /\ Gives(p.form)

ReadOK(l) ==
  /\ l.pc \in {"owner", "lists"} => ~l.gift /\ RowsOK(l)
  /\ l.pc = "lists" => l.v1 \in Dates

EInv ==
  /\ instant \in Nat /\ promo \in Nat /\ Shelved
  /\ look \in Look
  /\ Followed /\ ReadOK(look)
  /\ AnswerIsEarned

\* What an answer must be, of a read that ends.
Earned(l) ==
  /\ l.answer \in {"active", "grace"} => l.ends > l.asked /\ (l.gift \/ l.ever # {})
  /\ l.gift => l.ends <= PolicyUntil
  /\ l.answer \in {"hold", "expired"} /\ ~l.gift => l.held = {}

LEMMA Settled ==
  ASSUME NEW l \in Look, NEW a \in Answers, NEW e \in Nat
  PROVE  LET m == Settle(l, a, e)
         IN  /\ m \in Look /\ m.pc = "done" /\ m.answer = a /\ m.ends = e
             /\ m.asked = l.asked /\ m.gift = l.gift /\ m.ever = l.ever /\ m.held = l.held
BY DEF Settle, Look

LEMMA EndsWell ==
  ASSUME NEW l \in Look, NEW a \in Answers, NEW e \in Nat,
         a \in {"active", "grace"} => e > l.asked /\ (l.gift \/ l.ever # {}),
         l.gift => e <= PolicyUntil,
         a \in {"hold", "expired"} /\ ~l.gift => l.held = {}
  PROVE  Settle(l, a, e) \in Look /\ Settle(l, a, e).pc = "done" /\ Earned(Settle(l, a, e))
<1> DEFINE m == Settle(l, a, e)
<1>1. m \in Look /\ m.pc = "done" /\ m.answer = a /\ m.ends = e
      /\ m.asked = l.asked /\ m.gift = l.gift /\ m.ever = l.ever /\ m.held = l.held
  BY Settled
<1> HIDE DEF m
<1>2. Earned(m)
  BY <1>1 DEF Earned
<1>3. QED BY <1>1, <1>2 DEF m

\* A form says what its row says.
LEMMA SourceSays ==
  ASSUME NEW l \in Look, l.v1 \in Dates, NEW row \in Row
  PROVE  /\ Source(l, row) \in {"conflict", "skipped", "unreadable", "active", "grace", "paused", "hold", "expired"}
         /\ Source(l, row) \in {"active", "grace"} =>
              Gives(row.form) /\ AccessEnd(l, row) \in Nat /\ AccessEnd(l, row) > l.asked
         /\ Gives(row.form) => Source(l, row) \in {"active", "grace", "unreadable"}
<1> DEFINE f == row.form
<1>1. /\ f \in Forms /\ row.sub \in Subs
      /\ f.kind \in {"premium", "gift", "stray", "other"} /\ f.mine \in BOOLEAN /\ f.gives \in BOOLEAN
      /\ f.ends \in Nat /\ f.grace \in Nat /\ l.asked \in Nat
  BY ReaderAssumption DEF Row, Look
<1>2. GraceEnd(l, row) \in Nat
  BY <1>1 DEF GraceEnd, Dates
<1>3. /\ SourceState(l, row) \in {"active", "grace", "paused", "expired", "hold", "unreadable"}
      /\ SourceState(l, row) = "active" => f.gives /\ f.ends > l.asked
      /\ SourceState(l, row) = "grace" => f.gives /\ GraceEnd(l, row) > l.asked
      /\ f.gives => SourceState(l, row) \in {"active", "grace", "unreadable"}
  <2> HIDE DEF f
  <2>1. CASE f.gives /\ f.status = "active" /\ f.ends > l.asked
    BY <2>1 DEF SourceState, f
  <2>2. CASE ~(f.gives /\ f.status = "active" /\ f.ends > l.asked)
             /\ f.gives /\ f.status = "in_grace_period" /\ GraceEnd(l, row) > l.asked
    BY <2>2 DEF SourceState, f
  <2>3. CASE ~f.gives /\ f.status \in {"paused", "expired"}
    BY <2>3 DEF SourceState, f
  <2>4. CASE ~f.gives /\ f.status = "in_billing_retry"
    BY <2>4 DEF SourceState, f
  <2>5. CASE /\ ~(f.gives /\ f.status = "active" /\ f.ends > l.asked)
             /\ ~(f.gives /\ f.status = "in_grace_period" /\ GraceEnd(l, row) > l.asked)
             /\ ~(~f.gives /\ f.status \in {"paused", "expired"})
             /\ ~(~f.gives /\ f.status = "in_billing_retry")
    BY <2>5 DEF SourceState, f
  <2>6. QED BY <2>1, <2>2, <2>3, <2>4, <2>5
<1> HIDE DEF f
<1>4. CASE ~f.mine
  BY <1>1, <1>4 DEF Source, Gives, f
<1>5. CASE f.mine /\ Skipped(f)
  BY <1>1, <1>5 DEF Source, Gives, f, Skipped
<1>6. CASE f.mine /\ ~Skipped(f) /\ f.kind = "stray" /\ f.gives
  BY <1>1, <1>6 DEF Source, Gives, f, Skipped
<1>7. CASE f.mine /\ f.kind = "premium"
  <2>1. Source(l, row) = SourceState(l, row)
    BY <1>1, <1>7 DEF Source, f, Skipped
  <2>2. QED BY <1>1, <1>2, <1>3, <1>7, <2>1 DEF Gives, f, AccessEnd
<1>8. QED BY <1>1, <1>4, <1>5, <1>6, <1>7 DEF Skipped

\* The winner of the rows that give access is one of them.
LEMMA WinnerIsOne ==
  ASSUME NEW l \in Look, l.v1 \in Dates, RowsOK(l), RowsOf(l, {"active", "grace"}) # {}
  PROVE  LatestOf(l, RowsOf(l, {"active", "grace"})) \in RowsOf(l, {"active", "grace"})
<1> DEFINE access == RowsOf(l, {"active", "grace"})
           S      == {row.sub : row \in access}
           rowOf(i) == CHOOSE row \in access : row.sub = i
           e      == [i \in 1 .. LastSub |-> IF i \in S THEN AccessEnd(l, rowOf(i)) ELSE 0]
<1>1. LastSub \in Nat
  BY ReaderAssumption
<1>2. access \subseteq l.rows /\ l.rows \subseteq Row
  BY DEF RowsOf, Look
<1>3. \A row \in access : AccessEnd(l, row) \in Nat /\ row.sub \in 1 .. LastSub
  <2>1. \A row \in access : row \in Row /\ Source(l, row) \in {"active", "grace"}
    BY <1>2 DEF RowsOf
  <2>2. \A row \in access : AccessEnd(l, row) \in Nat
    BY <2>1, SourceSays
  <2>3. \A row \in access : row.sub \in 1 .. LastSub
    BY <2>1 DEF Row, Subs
  <2>4. QED BY <2>2, <2>3
<1> HIDE DEF access
<1>4. \A row \in access : row.sub \in S /\ rowOf(row.sub) = row
  <2>1. ASSUME NEW row \in access PROVE row.sub \in S /\ rowOf(row.sub) = row
    <3>1. \A q \in access : q.sub = row.sub => q = row
      BY <1>2 DEF RowsOK
    <3>2. QED BY <3>1
  <2>2. QED BY <2>1
<1>5. S \subseteq 1 .. LastSub /\ S # {}
  BY <1>3 DEF access
<1>6. \A i \in S : rowOf(i) \in access /\ rowOf(i).sub = i
  <2>1. ASSUME NEW i \in S PROVE rowOf(i) \in access /\ rowOf(i).sub = i
    <3>1. PICK row \in access : row.sub = i
      OBVIOUS
    <3>2. QED BY <1>4, <3>1
  <2>2. QED BY <2>1
<1> HIDE DEF S, rowOf
<1>7. e \in [1 .. LastSub -> Nat] /\ \A i \in S : e[i] = AccessEnd(l, rowOf(i))
  BY <1>3, <1>5, <1>6
<1> HIDE DEF e
<1>8. PICK i \in S : \A j \in S : e[j] < e[i] \/ (e[j] = e[i] /\ i <= j)
  BY <1>1, <1>5, <1>7, LatestExists
<1> DEFINE best == rowOf(i)
<1>9. best \in access /\ best.sub = i /\ AccessEnd(l, best) = e[i]
  BY <1>6, <1>7, <1>8
<1> HIDE DEF best
<1>10. \A q \in access : \/ AccessEnd(l, q) < AccessEnd(l, best)
                         \/ AccessEnd(l, q) = AccessEnd(l, best) /\ best.sub <= q.sub
  <2>1. ASSUME NEW q \in access PROVE AccessEnd(l, q) = e[q.sub] /\ q.sub \in S
    BY <1>4, <1>7
  <2>2. QED BY <1>8, <1>9, <2>1
<1>11. QED BY <1>9, <1>10 DEF LatestOf, access

\* The verdict over rows of different moments is earned all the same.
LEMMA VerdictEarned ==
  ASSUME NEW l \in Look, l.pc = "lists", ReadOK(l), l.cursor > LastSub
  PROVE  Verdict(l) \in Look /\ Verdict(l).pc = "done" /\ Earned(Verdict(l))
<1> DEFINE bad    == RowsOf(l, {"conflict", "unreadable"})
           access == RowsOf(l, {"active", "grace"})
           win    == LatestOf(l, access)
<1>1. l.v1 \in Dates /\ RowsOK(l) /\ ~l.gift /\ l.rows \subseteq Row /\ l.held \subseteq Subs /\ LastSub \in Nat
      /\ l.asked \in Nat /\ l.cursor \in Nat
  BY ReaderAssumption DEF ReadOK, Look
<1>2. CASE bad # {}
  <2> DEFINE a == IF Source(l, FirstOf(bad)) = "conflict" THEN "conflict" ELSE "unavailable"
  <2>1. Verdict(l) = Settle(l, a, 0)
    BY <1>2 DEF Verdict
  <2>2. a \in {"conflict", "unavailable"} /\ a \in Answers
    BY DEF Answers
  <2> HIDE DEF a
  <2>3. QED BY <1>1, <2>1, <2>2, EndsWell
<1>3. CASE bad = {} /\ access = {}
  <2> DEFINE a == IF RowsOf(l, {"paused", "hold"}) # {} THEN "hold" ELSE "expired"
  <2>1. Verdict(l) = Settle(l, a, 0)
    BY <1>3 DEF Verdict
  <2>2. a \in {"hold", "expired"} /\ a \in Answers
    BY DEF Answers
  <2>3. l.held = {}
    <3>1. SUFFICES ASSUME NEW s \in l.held PROVE FALSE
      OBVIOUS
    <3>2. s <= l.cursor
      BY <1>1 DEF Subs
    <3>3. PICK p \in l.rows : p.sub = s /\ Gives(p.form)
      BY <1>1, <3>2 DEF RowsOK
    <3>4. Source(l, p) \in {"active", "grace", "unreadable"}
      BY <1>1, <3>3, SourceSays
    <3>5. QED BY <1>3, <3>4 DEF RowsOf
  <2> HIDE DEF a
  <2>4. QED BY <1>1, <2>1, <2>2, <2>3, EndsWell
<1>4. CASE bad = {} /\ access # {}
  <2>1. win \in access
    BY <1>1, <1>4, WinnerIsOne
  <2>2. win \in Row /\ win \in l.rows /\ Source(l, win) \in {"active", "grace"}
    BY <1>1, <2>1 DEF RowsOf
  <2>3. Gives(win.form) /\ AccessEnd(l, win) \in Nat /\ AccessEnd(l, win) > l.asked
    BY <1>1, <2>2, SourceSays
  <2>4. win.sub \in l.ever
    BY <1>1, <2>2, <2>3 DEF RowsOK
  <2>5. \/ Verdict(l) = Settle(l, "unavailable", 0)
        \/ Verdict(l) = Settle(l, Source(l, win), AccessEnd(l, win))
    BY <1>4 DEF Verdict
  <2>6. Source(l, win) \in Answers /\ "unavailable" \in Answers
    BY <2>2 DEF Answers
  <2> HIDE DEF win
  <2>7. CASE Verdict(l) = Settle(l, "unavailable", 0)
    BY <1>1, <2>6, <2>7, EndsWell
  <2>8. CASE Verdict(l) = Settle(l, Source(l, win), AccessEnd(l, win))
    <3> DEFINE a == Source(l, win)  e == AccessEnd(l, win)
    <3>1. a \in {"active", "grace"} /\ a \in Answers /\ e \in Nat /\ e > l.asked /\ Verdict(l) = Settle(l, a, e)
      BY <2>2, <2>3, <2>6, <2>8
    <3> HIDE DEF a, e
    <3>2. QED BY <1>1, <2>4, <3>1, EndsWell
  <2>9. QED BY <2>5, <2>7, <2>8
<1>5. QED BY <1>2, <1>3, <1>4

LEMMA ReaderStart == ReaderInit => EInv
<1> SUFFICES ASSUME ReaderInit PROVE EInv
  OBVIOUS
<1>1. look.pc = "idle" /\ look \in Look
  BY DEF ReaderInit, Unread, Look, Answers
<1>2. QED BY <1>1 DEF ReaderInit, EInv, Shelved, Followed, Reading, ReadOK, AnswerIsEarned

\* The provider changes: a read under way keeps count.
LEMMA TurnKeeps ==
  ASSUME EInv, NEW sh \in [Subs -> Forms \cup {NoSub}], Turn(sh)
  PROVE  Shelved' /\ look' \in Look /\ Followed' /\ ReadOK(look)' /\ AnswerIsEarned'
<1>1. look \in Look /\ ReadOK(look) /\ AnswerIsEarned /\ shelf' = sh
  BY DEF EInv, Turn
<1>2. Giving(sh) \subseteq Subs /\ Giving(shelf)' = Giving(sh)
  BY <1>1 DEF Giving
<1>3. CASE ~Reading
  <2>1. look' = look
    BY <1>3 DEF Turn
  <2>2. QED BY <1>1, <1>3, <2>1 DEF Shelved, Followed, Reading, ReadOK, AnswerIsEarned, RowsOK
<1>4. CASE Reading
  <2> DEFINE gives == Giving(sh)
  <2>1. look' = [look EXCEPT !.ever = @ \cup gives, !.held = @ \cap gives]
    BY <1>4 DEF Turn
  <2>2. gives \in SUBSET Subs
    BY <1>2
  <2> HIDE DEF gives
  <2>3. /\ look' \in Look /\ look'.pc = look.pc /\ look'.gift = look.gift /\ look'.v1 = look.v1
        /\ look'.rows = look.rows /\ look'.cursor = look.cursor
        /\ look'.ever = look.ever \cup gives /\ look'.held = look.held \cap gives
    BY <1>1, <2>1, <2>2 DEF Look
  <2>4. look.pc # "done" /\ RowsOK(look)
    BY <1>1, <1>4 DEF Reading, ReadOK
  <2>5. RowsOK(look)'
    BY <2>3, <2>4 DEF RowsOK
  <2>6. ReadOK(look)' /\ AnswerIsEarned'
    BY <1>1, <2>3, <2>4, <2>5 DEF ReadOK, AnswerIsEarned
  <2>7. Followed'
    BY <1>2, <2>3 DEF Followed, gives
  <2>8. QED BY <1>1, <2>3, <2>6, <2>7 DEF Shelved
<1>5. QED BY <1>3, <1>4

\* The read ends with what it has earned.
LEMMA ReadEnds ==
  ASSUME EInv, NEW l \in Look, look' = l, l.pc = "done", Earned(l), UNCHANGED <<instant, shelf, owner, promo, changes>>
  PROVE  EInv'
BY DEF EInv, Shelved, Followed, Reading, ReadOK, AnswerIsEarned, Earned

LEMMA ReaderStep == EInv /\ [ReaderNext]_readerVars => EInv'
<1> SUFFICES ASSUME EInv, [ReaderNext]_readerVars PROVE EInv'
  OBVIOUS
<1>1. /\ instant \in Nat /\ promo \in Nat /\ Shelved /\ look \in Look
      /\ Followed /\ ReadOK(look) /\ AnswerIsEarned /\ PolicyUntil \in Nat /\ LastSub \in Nat
  BY ReaderAssumption DEF EInv
<1>2. CASE UNCHANGED readerVars
  BY <1>1, <1>2 DEF readerVars, EInv, Shelved, Followed, Reading, ReadOK, AnswerIsEarned, RowsOK
<1>3. ASSUME NEW s \in Subs, NEW f \in Forms, SubChanges(s, f) PROVE EInv'
  <2> DEFINE sh == [shelf EXCEPT ![s] = f]
  <2>1. sh \in [Subs -> Forms \cup {NoSub}] /\ Turn(sh) /\ instant' = instant /\ promo' = promo
    BY <1>1, <1>3 DEF SubChanges, Shelved
  <2> HIDE DEF sh
  <2>2. QED BY <1>1, <2>1, TurnKeeps DEF EInv
<1>4. CASE OwnerChanges
  BY <1>1, <1>4, TurnKeeps DEF OwnerChanges, EInv, Shelved
<1>5. ASSUME NEW e \in 0 .. MaxInstant, PromoChanges(e) PROVE EInv'
  <2>1. promo' \in Nat /\ instant' = instant /\ Turn(shelf)
    BY <1>5, ReaderAssumption DEF PromoChanges
  <2>2. QED BY <1>1, <2>1, TurnKeeps DEF EInv, Shelved
<1>6. CASE InstantPasses
  BY <1>1, <1>6 DEF InstantPasses, EInv, Shelved, Followed, Reading, ReadOK, AnswerIsEarned, RowsOK
<1>7. CASE StartRead
  <2> DEFINE gives == Giving(shelf)
  <2>1. look' = [Unread EXCEPT !.pc = "owner", !.ever = gives, !.held = gives]
        /\ UNCHANGED <<instant, shelf, owner, promo, changes>>
    BY <1>7 DEF StartRead
  <2>2. gives \in SUBSET Subs
    BY DEF Giving
  <2> HIDE DEF gives
  <2>3. /\ look' \in Look /\ look'.pc = "owner" /\ look'.rows = {} /\ look'.cursor = 0 /\ ~look'.gift
        /\ look'.ever = gives /\ look'.held = gives
    BY <2>1, <2>2 DEF Unread, Look, Answers
  <2>4. RowsOK(look)'
    <3>1. \A s \in gives : s \in Nat /\ ~(s <= 0)
      BY <2>2 DEF Subs
    <3>2. QED BY <2>3, <3>1 DEF RowsOK
  <2>5. Giving(shelf)' = gives
    BY <2>1 DEF gives, Giving
  <2>6. QED BY <1>1, <2>1, <2>3, <2>4, <2>5 DEF EInv, Shelved, Followed, ReadOK, AnswerIsEarned
<1>8. CASE Fault
  <2>1. look' = Settle(look, "thrown", 0) /\ UNCHANGED <<instant, shelf, owner, promo, changes>>
        /\ look.pc \in {"owner", "lists"} /\ ~look.gift
    BY <1>1, <1>8 DEF Fault, Reading, ReadOK
  <2>2. QED BY <1>1, <2>1, EndsWell, ReadEnds DEF Answers
<1>9. ASSUME NEW proper \in BOOLEAN, OwnerAnswer(proper) PROVE EInv'
  <2> DEFINE l == [look EXCEPT !.asked = instant]
  <2>1. /\ l \in Look /\ l.pc = "owner" /\ ~l.gift /\ l.ever = look.ever /\ l.held = look.held
        /\ l.rows = look.rows /\ l.cursor = look.cursor /\ l.asked = instant
    BY <1>1, <1>9 DEF OwnerAnswer, ReadOK, Look
  <2> DEFINE row(s) == IF shelf[s] = NoSub THEN <<0, 0>> ELSE <<shelf[s].tx, shelf[s].grace>>
             first == [s \in Subs |-> row(s)]
  <2>2. UNCHANGED <<instant, shelf, owner, promo, changes>>
        /\ look' = IF owner # "me" THEN Settle(l, "conflict", 0)
                   ELSE IF promo # 0 THEN Gift([l EXCEPT !.gift = TRUE], proper)
                   ELSE [l EXCEPT !.pc = "lists", !.v1 = first]
    BY <1>9 DEF OwnerAnswer
  <2>3. first \in Dates
    <3>1. ASSUME NEW s \in Subs PROVE row(s) \in ({f.tx : f \in Forms} \cup {0}) \X Nat
      <4>1. CASE shelf[s] = NoSub
        BY <4>1
      <4>2. CASE shelf[s] # NoSub
        <5>1. shelf[s] \in Forms /\ shelf[s].grace \in Nat
          BY <1>1, <4>2, ReaderAssumption DEF Shelved
        <5>2. QED BY <4>2, <5>1
      <4>3. QED BY <4>1, <4>2
    <3> HIDE DEF row
    <3>2. QED BY <3>1 DEF Dates
  <2> HIDE DEF l, first
  <2>4. CASE owner # "me"
    BY <2>1, <2>2, <2>4, EndsWell, ReadEnds DEF Answers
  <2>5. CASE owner = "me" /\ promo # 0
    <3> DEFINE g == [l EXCEPT !.gift = TRUE]
               until == IF promo < PolicyUntil THEN promo ELSE PolicyUntil
               a == IF until <= g.asked THEN "expired" ELSE "active"
    <3>1. g \in Look /\ g.gift
      BY <2>1 DEF Look
    <3>2. until \in Nat /\ until <= PolicyUntil
      BY <1>1
    <3>3. look' = Settle(g, "unavailable", 0) \/ look' = Settle(g, a, until)
      BY <2>2, <2>5 DEF Gift
    <3>4. a \in {"expired", "active"} /\ (a = "active" => until > g.asked) /\ g.asked \in Nat
      BY <3>1, <3>2 DEF Look
    <3> HIDE DEF g, until, a
    <3>5. CASE look' = Settle(g, "unavailable", 0)
      <4> DEFINE m == Settle(g, "unavailable", 0)
      <4>1. m \in Look /\ m.pc = "done" /\ Earned(m)
        <5>1. "unavailable" \in Answers /\ 0 \in Nat /\ 0 <= PolicyUntil
          BY <1>1 DEF Answers
        <5>2. QED BY <3>1, <5>1, EndsWell
      <4>2. look' = m
        BY <3>5
      <4> HIDE DEF m
      <4>3. QED BY <2>2, <4>1, <4>2, ReadEnds
    <3>6. CASE look' = Settle(g, a, until)
      <4>1. a \in Answers
        BY <3>4 DEF Answers
      <4> DEFINE m == Settle(g, a, until)
      <4>2. m \in Look /\ m.pc = "done" /\ Earned(m)
        BY <3>1, <3>2, <3>4, <4>1, EndsWell
      <4>3. look' = m
        BY <3>6
      <4> HIDE DEF m
      <4>4. QED BY <2>2, <4>2, <4>3, ReadEnds
    <3>7. QED BY <3>3, <3>5, <3>6
  <2>6. CASE owner = "me" /\ promo = 0
    <3>1. look' = [l EXCEPT !.pc = "lists", !.v1 = first]
      BY <2>2, <2>6
    <3>2. /\ look' \in Look /\ look'.pc = "lists" /\ look'.v1 = first /\ ~look'.gift /\ look'.ever = look.ever
          /\ look'.held = look.held /\ look'.rows = look.rows /\ look'.cursor = look.cursor
      BY <2>1, <2>3, <3>1 DEF Look
    <3>3. RowsOK(look) /\ Reading
      BY <1>1, <1>9 DEF ReadOK, OwnerAnswer, Reading
    <3>4. RowsOK(look)' /\ Followed'
      BY <1>1, <2>2, <3>2, <3>3 DEF RowsOK, Followed, Giving
    <3>5. QED BY <1>1, <2>2, <2>3, <3>2, <3>4 DEF EInv, Shelved, ReadOK, AnswerIsEarned
  <2>7. QED BY <2>4, <2>5, <2>6
<1>10. CASE CatalogAnswer
  <2>1. look' = [look EXCEPT !.catalog = TRUE] /\ look.pc = "lists" /\ UNCHANGED <<instant, shelf, owner, promo, changes>>
    BY <1>10 DEF CatalogAnswer
  <2>2. /\ look' \in Look /\ look'.pc = "lists" /\ look'.v1 = look.v1 /\ look'.gift = look.gift /\ look'.ever = look.ever
        /\ look'.held = look.held /\ look'.rows = look.rows /\ look'.cursor = look.cursor
    BY <1>1, <2>1 DEF Look
  <2>3. RowsOK(look)' /\ Followed'
    BY <1>1, <2>1, <2>2 DEF ReadOK, RowsOK, Followed, Giving, Reading
  <2>4. QED BY <1>1, <2>1, <2>2, <2>3 DEF EInv, Shelved, ReadOK, AnswerIsEarned
<1>11. CASE PageAnswer
  <2> DEFINE c == look.cursor  next == Further(c)  page == Page(c)
             new == {[sub |-> s, form |-> shelf[s]] : s \in page}
  <2>1. look' = [look EXCEPT !.rows = @ \cup new, !.cursor = next] /\ look.pc = "lists" /\ c <= LastSub
        /\ UNCHANGED <<instant, shelf, owner, promo, changes>>
    BY <1>11 DEF PageAnswer
  <2>2. c \in Nat /\ RowsOK(look) /\ look.held \subseteq Subs /\ look.rows \subseteq Row
        /\ Giving(shelf) \subseteq look.ever /\ look.held \subseteq Giving(shelf)
    BY <1>1, <2>1 DEF Look, ReadOK, Followed, Reading
  <2>3. page \subseteq Listed(c) /\ next \in Nat /\ c <= next /\ (\A s \in page : s <= next)
        /\ \A s \in Listed(c) : s <= next => s \in page
    BY <2>1, <2>2, PageFacts
  <2>4. \A s \in Listed(c) : s \in Subs /\ s > c /\ shelf[s] \in Forms
    BY <1>1 DEF Listed, Shelved
  <2> HIDE DEF next, page
  <2>5. \A p \in new : p.sub \in page /\ p.form = shelf[p.sub] /\ p \in Row
    BY <2>3, <2>4 DEF Row
  <2>6. \A s \in page : [sub |-> s, form |-> shelf[s]] \in new
    OBVIOUS
  <2>7. \A p, q \in new : p.sub = q.sub => p = q
    BY <2>5 DEF Row
  <2> HIDE DEF new
  <2>8. /\ look' \in Look /\ look'.pc = "lists" /\ look'.v1 = look.v1 /\ look'.gift = look.gift /\ look'.ever = look.ever
        /\ look'.held = look.held /\ look'.rows = look.rows \cup new /\ look'.cursor = next
    <3>1. look.rows \cup new \in SUBSET Row
      BY <2>2, <2>5
    <3>2. QED BY <1>1, <2>1, <2>3, <3>1 DEF Look
  <2>9. \A p \in look.rows : p.sub \in Nat /\ p.sub <= c
    BY <2>2 DEF RowsOK, Row, Subs
  <2>10. \A p \in new : p.sub \in Nat /\ p.sub > c /\ p.sub <= next
    BY <2>3, <2>4, <2>5 DEF Subs
  <2>11. RowsOK(look)'
    <3>1. \A p \in look'.rows : p.sub <= next
      BY <2>2, <2>3, <2>8, <2>9, <2>10
    <3>2. ASSUME NEW p \in look'.rows, NEW q \in look'.rows, p.sub = q.sub PROVE p = q
      <4>1. CASE p \in look.rows /\ q \in look.rows
        BY <2>2, <3>2, <4>1 DEF RowsOK
      <4>2. CASE p \in new /\ q \in new
        BY <2>7, <3>2, <4>2
      <4>3. CASE (p \in new /\ q \in look.rows) \/ (p \in look.rows /\ q \in new)
        BY <2>2, <2>9, <2>10, <3>2, <4>3
      <4>4. QED BY <2>8, <4>1, <4>2, <4>3
    <3>3. ASSUME NEW p \in look'.rows, Gives(p.form) PROVE p.sub \in look'.ever
      <4>1. CASE p \in look.rows
        BY <2>2, <2>8, <3>3, <4>1 DEF RowsOK
      <4>2. CASE p \in new
        <5>1. p.sub \in Giving(shelf)
          BY <2>3, <2>4, <2>5, <3>3, <4>2 DEF Giving, Gives
        <5>2. QED BY <2>2, <2>8, <5>1
      <4>3. QED BY <2>8, <4>1, <4>2
    <3>4. ASSUME NEW s \in look'.held, s <= next PROVE \E p \in look'.rows : p.sub = s /\ Gives(p.form)
      <4>1. s \in look.held /\ s \in Subs /\ s \in Nat
        BY <2>2, <2>8, <3>4 DEF Subs
      <4>2. CASE s <= c
        BY <2>2, <2>8, <4>1, <4>2 DEF RowsOK
      <4>3. CASE ~(s <= c)
        <5>1. shelf[s].kind = "premium" /\ shelf[s].gives /\ shelf[s].mine
          BY <2>2, <4>1 DEF Giving
        <5>2. s \in Listed(c)
          BY <2>2, <4>1, <4>3, <5>1 DEF Listed, NoSub
        <5>3. s \in page
          BY <2>3, <3>4, <5>2
        <5>4. PICK p \in new : p = [sub |-> s, form |-> shelf[s]]
          BY <2>6, <5>3
        <5>5. QED BY <2>8, <5>1, <5>4 DEF Gives
      <4>4. QED BY <4>2, <4>3
    <3>5. QED BY <2>8, <3>1, <3>2, <3>3, <3>4 DEF RowsOK
  <2>12. Followed'
    BY <2>1, <2>2, <2>8 DEF Followed, Giving
  <2>13. QED BY <1>1, <2>1, <2>8, <2>11, <2>12 DEF EInv, Shelved, ReadOK, AnswerIsEarned
<1>12. CASE Finish
  <2>1. look' = Verdict(look) /\ look.pc = "lists" /\ look.cursor > LastSub
        /\ UNCHANGED <<instant, shelf, owner, promo, changes>>
    BY <1>12 DEF Finish
  <2>2. QED BY <1>1, <2>1, VerdictEarned, ReadEnds
<1>13. QED
  BY <1>2, <1>3, <1>4, <1>5, <1>6, <1>7, <1>8, <1>9, <1>10, <1>11, <1>12 DEF ReaderNext

\* The read's rows are of different moments, and its verdict is earned: access only
\* of a subscription that gave it meanwhile, loss only when none gave it throughout.
THEOREM AnswersAreEarned == ReaderSpec => []AnswerIsEarned
<1>1. EInv => AnswerIsEarned
  BY DEF EInv
<1>2. QED BY <1>1, ReaderStart, ReaderStep, PTL DEF ReaderSpec

-----------------------------------------------------------------------------
(* The parts together *)

LEMMA PartsStep ==
  [ProviderNext]_providerVars =>
    /\ [Next]_vars /\ [ReaderNext]_readerVars /\ [CustomerNext]_customerVars /\ [KeysNext]_keyVars
<1> SUFFICES ASSUME [ProviderNext]_providerVars
             PROVE  /\ [Next]_vars /\ [ReaderNext]_readerVars
                    /\ [CustomerNext]_customerVars /\ [KeysNext]_keyVars
  OBVIOUS
<1>1. CASE UNCHANGED providerVars
  BY <1>1 DEF providerVars
<1>2. CASE ProviderNext
  BY <1>2 DEF ProviderNext, Explore
<1>3. QED BY <1>1, <1>2

\* A behaviour of MCProvider is one of the webhook, of a read of the subscriptions,
\* of the erasing of the customer and of the key cache, so that what was shown of
\* one by itself holds of them together.
THEOREM PartsAreApart == ProviderSpec => Spec /\ ReaderSpec /\ CustomerSpec /\ KeysSpec
<1>1. ProviderInit => Init /\ ReaderInit /\ CustomerInit /\ KeysInit
  BY DEF ProviderInit
<1>2. QED
  BY <1>1, PartsStep, PTL DEF ProviderSpec, Spec, ReaderSpec, CustomerSpec, KeysSpec
=============================================================================
