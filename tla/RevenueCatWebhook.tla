--------------------------- MODULE RevenueCatWebhook ---------------------------
(***************************************************************************)
(* What follows a trusted RevenueCat event of one account, from the        *)
(* webhook's transaction to the mailed receipt: the stored entitlement is  *)
(* refreshed from the provider under a fence, and the receipt of the bound *)
(* transaction is claimed, mailed and marked (revenuecatWebhookStore.ts,   *)
(* purchaseReceiptDispatcher.ts).  The buyer's and the operator's requests *)
(* enter at the claim.                                                     *)
(*                                                                         *)
(* Every transaction, provider read and e-mail is a step; a handler may    *)
(* die before any of them, and events are delivered again and in any order.*)
(***************************************************************************)
EXTENDS Naturals

CONSTANTS
  Handlers,  \* requests being served
  Claims,    \* deliveryClaimIds, random and never used twice
  None,
  MaxTruth,  \* bound on changes of the subscription
  MaxFence   \* bound on refreshFence

ASSUME NoneAssumption  == None \notin Claims \cup Nat
ASSUME BoundAssumption == MaxTruth \in Nat /\ MaxFence \in Nat

VARIABLES
  account,      \* users/{id}: active, in billingIdentityConflict, or deleted
  contact,      \* whether it has a verified contact e-mail
  truth,        \* the subscription as RevenueCat knows it: how often it changed
  recorded,     \* revenueCatEvents: change n is announced by event n
  entitlement,  \* users/{id}/entitlements/premium; seen is the truth that was read
  receipt,      \* users/{id}/purchaseReceipts/{receiptId}
  delivery,     \* its deliveryAttempts/{claim}: their status
  accepted,     \* the claims whose mail the mail server took
  h             \* the handlers

vars == <<account, contact, truth, recorded, entitlement, receipt, delivery, accepted, h>>

-----------------------------------------------------------------------------
Events   == 1..truth
Seen     == (0..truth) \cup {None}
Verdicts == {"sent", "failed", "unknown"}

Refreshing == {"read", "complete", "mark_conflict", "complete_conflict"}

Entitlement == [exists : BOOLEAN, fence : Nat, pending : BOOLEAN,
                status : {"none", "observed", "unavailable"}, seen : Seen]
Receipt     == [status : {"none", "ready", "sending"} \cup Verdicts,
                claim : Claims \cup {None}, leased : BOOLEAN]
Handler     == [pc : Refreshing \cup {"idle", "claim", "send", "mark"}, fence : Nat,
                seen : Seen, claim : Claims \cup {None}, verdict : Verdicts]

NoEntitlement == [exists |-> FALSE, fence |-> 0, pending |-> FALSE, status |-> "none", seen |-> None]
NoReceipt     == [status |-> "none", claim |-> None, leased |-> FALSE]
Idle          == [pc |-> "idle", fence |-> 0, seen |-> None, claim |-> None, verdict |-> "unknown"]

Active == account # "deleted"

Init ==
  /\ account = "active" /\ contact = FALSE
  /\ truth = 0 /\ recorded = {}
  /\ entitlement = NoEntitlement
  /\ receipt = NoReceipt
  /\ delivery = [c \in Claims |-> "none"]
  /\ accepted = {}
  /\ h = [w \in Handlers |-> Idle]

-----------------------------------------------------------------------------
(* The event *)

\* The fence a refresh would run under: none if the event was seen and its
\* refresh is done.  A slip: a refresh that is pending keeps its fence.
RefreshDone(e) == e \in recorded /\ ~entitlement.pending

NextFence_Kept(e) == IF entitlement.pending THEN entitlement.fence ELSE entitlement.fence + 1
NextFence(e)      == entitlement.fence + 1

\* process: the event's transaction.  An event whose transaction belongs to
\* another account, or is reported differently, is a clash of identities, and
\* refreshes all the same.
Receive(w, e, clash) ==
  /\ Active /\ h[w].pc = "idle"
  /\ entitlement.fence < MaxFence
  /\ recorded' = recorded \cup {e}
  /\ account' = IF clash THEN "conflict" ELSE account
  /\ IF RefreshDone(e)
       THEN /\ h' = [h EXCEPT ![w] = [Idle EXCEPT !.pc = "claim"]]
            /\ UNCHANGED entitlement
       ELSE /\ entitlement' = [entitlement EXCEPT !.exists = TRUE, !.fence = NextFence(e), !.pending = TRUE]
            /\ h' = [h EXCEPT ![w] = [Idle EXCEPT !.pc = "read", !.fence = NextFence(e)]]
  /\ UNCHANGED <<contact, truth, receipt, delivery, accepted>>

\* A TRANSFER, an event with two identities, or another endpoint's reading of
\* the provider puts the account into conflict.
IdentityClash ==
  /\ account = "active"
  /\ account' = "conflict"
  /\ UNCHANGED <<contact, truth, recorded, entitlement, receipt, delivery, accepted, h>>

-----------------------------------------------------------------------------
(* The refresh *)

\* refreshReader.read: the subscription at one moment, an identity conflict, or
\* no answer (RefreshFails).
Read(w) ==
  /\ h[w].pc = "read"
  /\ h' = [h EXCEPT ![w].pc = "complete", ![w].seen = truth]
  /\ UNCHANGED <<account, contact, truth, recorded, entitlement, receipt, delivery, accepted>>

ReadConflict(w) ==
  /\ h[w].pc = "read"
  /\ h' = [h EXCEPT ![w].pc = "mark_conflict"]
  /\ UNCHANGED <<account, contact, truth, recorded, entitlement, receipt, delivery, accepted>>

\* Slip: any handler with a refresh to report may report it.
Fenced_Pending(w) == entitlement.exists /\ entitlement.pending
Fenced(w)         == entitlement.exists /\ entitlement.pending /\ entitlement.fence = h[w].fence

\* completeRefresh
CompleteRefresh(w) ==
  /\ h[w].pc = "complete"
  /\ entitlement' = IF Fenced(w)
                      THEN [entitlement EXCEPT !.status = "observed", !.seen = h[w].seen, !.pending = FALSE]
                      ELSE entitlement
  /\ h' = [h EXCEPT ![w] = [Idle EXCEPT !.pc = "claim"]]
  /\ UNCHANGED <<account, contact, truth, recorded, receipt, delivery, accepted>>

\* markIdentityConflict
MarkConflict(w) ==
  /\ h[w].pc = "mark_conflict"
  /\ account' = IF Active THEN "conflict" ELSE account
  /\ h' = [h EXCEPT ![w].pc = "complete_conflict"]
  /\ UNCHANGED <<contact, truth, recorded, entitlement, receipt, delivery, accepted>>

\* completeIdentityConflict: the status is unavailable, updatedAt is left alone.
CompleteConflict(w) ==
  /\ h[w].pc = "complete_conflict"
  /\ entitlement' = IF Fenced(w)
                      THEN [entitlement EXCEPT !.status = "unavailable", !.pending = FALSE]
                      ELSE entitlement
  /\ h' = [h EXCEPT ![w] = [Idle EXCEPT !.pc = "claim"]]
  /\ UNCHANGED <<account, contact, truth, recorded, receipt, delivery, accepted>>

\* No reader, an unavailable state, or anything thrown on the way: the refresh
\* stays pending and the handler goes on.
RefreshFails(w) ==
  /\ h[w].pc \in Refreshing
  /\ h' = [h EXCEPT ![w] = [Idle EXCEPT !.pc = "claim"]]
  /\ UNCHANGED <<account, contact, truth, recorded, entitlement, receipt, delivery, accepted>>

-----------------------------------------------------------------------------
(* The receipt *)

\* The resolver's binding creates the receipt (module PurchaseAttempts).
Bind ==
  /\ account = "active" /\ contact
  /\ receipt.status = "none"
  /\ receipt' = [NoReceipt EXCEPT !.status = "ready"]
  /\ UNCHANGED <<account, contact, truth, recorded, entitlement, delivery, accepted, h>>

\* The buyer's command and the operator's decision end with a delivery too.
Ask(w) ==
  /\ h[w].pc = "idle" /\ receipt.status # "none"
  /\ h' = [h EXCEPT ![w].pc = "claim"]
  /\ UNCHANGED <<account, contact, truth, recorded, entitlement, receipt, delivery, accepted>>

\* claimReceipt.  A slip: a receipt whose delivery is unclear is sent again.
Deliverable_Again == receipt.status \in {"ready", "failed", "unknown"}
Deliverable       == receipt.status \in {"ready", "failed"}

Claim(w, c) ==
  /\ h[w].pc = "claim"
  /\ account = "active" /\ contact /\ Deliverable
  /\ delivery[c] = "none" /\ c \notin accepted
  /\ delivery' = [delivery EXCEPT ![c] = "pending"]
  /\ receipt' = [status |-> "sending", claim |-> c, leased |-> TRUE]
  /\ h' = [h EXCEPT ![w] = [Idle EXCEPT !.pc = "send", !.claim = c]]
  /\ UNCHANGED <<account, contact, truth, recorded, entitlement, accepted>>

\* A claim that ran out is never sent again by itself.  A slip: its delivery is
\* left as it is.
Unclear_Receipt(c) == delivery
Unclear(c)         == [delivery EXCEPT ![c] = "unknown"]

ClaimExpired(w) ==
  /\ h[w].pc = "claim"
  /\ account = "active" /\ receipt.status = "sending" /\ ~receipt.leased
  /\ delivery' = Unclear(receipt.claim)
  /\ receipt' = [receipt EXCEPT !.status = "unknown"]
  /\ h' = [h EXCEPT ![w] = Idle]
  /\ UNCHANGED <<account, contact, truth, recorded, entitlement, accepted>>

\* dispatchPurchaseReceipt: the mail is refused for certain (or there is no
\* sender), taken, or taken or not without our knowing.
Outcomes == {o \in [verdict : Verdicts, taken : BOOLEAN] :
               /\ o.verdict = "sent" => o.taken
               /\ o.verdict = "failed" => ~o.taken}

Send(w) ==
  /\ h[w].pc = "send"
  /\ \E o \in Outcomes :
       /\ h' = [h EXCEPT ![w] = [@ EXCEPT !.pc = "mark", !.verdict = o.verdict]]
       /\ accepted' = IF o.taken THEN accepted \cup {h[w].claim} ELSE accepted
  /\ UNCHANGED <<account, contact, truth, recorded, entitlement, receipt, delivery>>

\* markReceiptDelivery.
Markable(w) ==
  /\ Active
  /\ receipt.status = "sending" /\ receipt.claim = h[w].claim /\ receipt.leased
  /\ delivery[h[w].claim] = "pending"

Mark(w) ==
  /\ h[w].pc = "mark"
  /\ IF Markable(w)
       THEN /\ delivery' = [delivery EXCEPT ![h[w].claim] = h[w].verdict]
            /\ receipt' = [receipt EXCEPT !.status = h[w].verdict, !.leased = FALSE]
       ELSE UNCHANGED <<delivery, receipt>>
  /\ h' = [h EXCEPT ![w] = Idle]
  /\ UNCHANGED <<account, contact, truth, recorded, entitlement, accepted>>

\* mark("sent") throws: the dispatcher tries mark("unknown").
MarkThrows(w) ==
  /\ h[w].pc = "mark" /\ h[w].verdict = "sent"
  /\ h' = [h EXCEPT ![w].verdict = "unknown"]
  /\ UNCHANGED <<account, contact, truth, recorded, entitlement, receipt, delivery, accepted>>

\* Five minutes pass since the claim.
LeaseRunsOut ==
  /\ receipt.leased
  /\ receipt' = [receipt EXCEPT !.leased = FALSE]
  /\ UNCHANGED <<account, contact, truth, recorded, entitlement, delivery, accepted, h>>

\* reconcileReceipt: an operator attests that the mail of this very claim was
\* taken, and is right.
Undecided(c) ==
  \/ receipt.status = "unknown" /\ delivery[c] = "unknown"
  \/ receipt.status = "sending" /\ ~receipt.leased /\ delivery[c] = "pending"

Reconcile(c) ==
  /\ account = "active"
  /\ receipt.claim = c /\ Undecided(c)
  /\ c \in accepted
  /\ delivery' = [delivery EXCEPT ![c] = "sent"]
  /\ receipt' = [receipt EXCEPT !.status = "sent", !.leased = FALSE]
  /\ UNCHANGED <<account, contact, truth, recorded, entitlement, accepted, h>>

-----------------------------------------------------------------------------
(* Everybody else *)

SubscriptionChanges ==
  /\ truth < MaxTruth
  /\ truth' = truth + 1
  /\ UNCHANGED <<account, contact, recorded, entitlement, receipt, delivery, accepted, h>>

\* No code writes the contact after the registration (users/store.ts:164); the
\* claim is written for one that changes, as whoever administers the data may do.
ContactChanges ==
  /\ Active
  /\ contact' = ~contact
  /\ UNCHANGED <<account, truth, recorded, entitlement, receipt, delivery, accepted, h>>

\* The deletion is accepted, and erases what is stored (module AccountDeletion).
DeleteAccount ==
  /\ Active
  /\ account' = "deleted"
  /\ UNCHANGED <<contact, truth, recorded, entitlement, receipt, delivery, accepted, h>>

EraseEntitlement ==
  /\ ~Active
  /\ entitlement' = NoEntitlement
  /\ UNCHANGED <<account, contact, truth, recorded, receipt, delivery, accepted, h>>

EraseReceipt ==
  /\ ~Active
  /\ receipt' = NoReceipt
  /\ delivery' = [c \in Claims |-> "none"]
  /\ UNCHANGED <<account, contact, truth, recorded, entitlement, accepted, h>>

\* The answer is given, or the process dies.
Stop(w) ==
  /\ h[w].pc # "idle"
  /\ h' = [h EXCEPT ![w] = Idle]
  /\ UNCHANGED <<account, contact, truth, recorded, entitlement, receipt, delivery, accepted>>

HandlerStep(w) ==
  \/ \E e \in Events, clash \in BOOLEAN : Receive(w, e, clash)
  \/ Read(w) \/ ReadConflict(w) \/ RefreshFails(w)
  \/ CompleteRefresh(w) \/ MarkConflict(w) \/ CompleteConflict(w)
  \/ Ask(w)
  \/ \E c \in Claims : Claim(w, c)
  \/ ClaimExpired(w) \/ Send(w) \/ Mark(w) \/ MarkThrows(w)
  \/ Stop(w)

Next ==
  \/ \E w \in Handlers : HandlerStep(w)
  \/ \E c \in Claims : Reconcile(c)
  \/ Bind \/ LeaseRunsOut \/ IdentityClash
  \/ SubscriptionChanges \/ ContactChanges
  \/ DeleteAccount \/ EraseEntitlement \/ EraseReceipt

Spec == Init /\ [][Next]_vars

-----------------------------------------------------------------------------
(* Properties *)

\* The stored documents and the handlers' copies keep their shapes; nothing
\* claims to have seen more than there was.
TypeOK ==
  /\ account \in {"active", "conflict", "deleted"}
  /\ contact \in BOOLEAN
  /\ truth \in Nat
  /\ recorded \subseteq Events
  /\ entitlement \in Entitlement
  /\ receipt \in Receipt
  /\ delivery \in [Claims -> {"none", "pending"} \cup Verdicts]
  /\ accepted \subseteq Claims
  /\ h \in [Handlers -> Handler]
  /\ \A w \in Handlers : h[w].pc \in {"send", "mark"} => h[w].claim \in Claims

\* The mail server takes one mail of a receipt at most, however often the
\* delivery is asked for, dies on the way, or outlives its claim.
MailedOnce == \A c, d \in accepted : c = d

\* The receipt and its deliveries agree: the last one is what the receipt is,
\* every earlier one was refused for certain, and a sent one was taken.
DeliveriesTellTheStory ==
  /\ receipt.status \in {"none", "ready"} => \A c \in Claims : delivery[c] = "none"
  /\ receipt.status = "sending" => delivery[receipt.claim] = "pending"
  /\ receipt.status \in Verdicts => delivery[receipt.claim] = receipt.status
  /\ \A c \in Claims \ {receipt.claim} : delivery[c] \in {"none", "failed"}
  /\ receipt.status = "sent" => receipt.claim \in accepted

\* What an operator has decided, or a handler has seen the mail server take,
\* stays: no late answer overwrites it.
SentIsFinal == [][receipt.status = "sent" => receipt'.status \in {"sent", "none"}]_vars

\* An entitlement that no refresh is due for reflects every event that was
\* recorded.
ObservationIsCurrent ==
  entitlement.exists /\ ~entitlement.pending =>
    /\ entitlement.status # "none"
    /\ entitlement.status = "observed" => \A e \in recorded : e <= entitlement.seen

\* The stored observation never goes back to an older one.
GoesOn == entitlement.seen # None /\ entitlement'.exists => entitlement'.seen >= entitlement.seen
ObservationNeverGoesBack == [][GoesOn]_vars

\* Every stored entitlement whose refresh is done is one the account's export
\* can read (data-export/store.ts:336, readEntitlement): it has a status and the
\* time of its observation.
SettledEntitlementReadable ==
  entitlement.exists /\ ~entitlement.pending => entitlement.status # "none" /\ entitlement.seen # None

\* The stored observation is the newest that was asked for: it reflects every
\* recorded event once its refresh is done, and an older one never replaces it.
ObservationHolds == [][ObservationIsCurrent' /\ GoesOn]_vars
=============================================================================
