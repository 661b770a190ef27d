--------------------------- MODULE PurchaseAttempts ---------------------------
(***************************************************************************)
(* FirestorePurchaseCorrelation (src/modules/billing/purchaseCorrelation.ts) *)
(* and what the RevenueCat webhook stores for it: purchase attempts of one *)
(* account, the lock that admits one of them at a time, and the facts that *)
(* trusted events report, which are bound to the attempt they pay for.     *)
(*                                                                         *)
(* Every action is one Firestore transaction.  Requests are repeated and   *)
(* answers are lost, so any of them may run at any time and again.  record *)
(* and command read the clock before their transaction, resolve before it  *)
(* reads anything, and each may wait: the time it goes by is that of some  *)
(* earlier moment.  The store's sheet is outside the system: it may sell   *)
(* late, or not at all.                                                    *)
(***************************************************************************)
EXTENDS Naturals, FiniteSets

CONSTANTS
  Attempts,    \* confirmation ids the client may choose
  Txs,         \* store transactions
  None,
  Window,      \* PURCHASE_WINDOW_MS
  Resolution,  \* RESOLUTION_WINDOW_MS
  MaxTime,     \* bound on the clock
  MaxWait      \* bound on what passes from reading the clock to the commit

ASSUME NoneAssumption   == None \notin Attempts \cup Txs \cup Nat
ASSUME WindowAssumption == Window \in Nat /\ Resolution \in Nat /\ Window <= Resolution
ASSUME ClockAssumption  == MaxTime \in Nat /\ MaxWait \in Nat

VARIABLES
  now,
  user,     \* users/{id}: no verified contact e-mail yet, verified, in
            \* billingIdentityConflict (which hides the contact), or deleted
  attempt,  \* users/{id}/purchaseAttempts/{confirmationId}
  lock,     \* users/{id}/purchaseLocks/{product}: the attempt it names
  fact,     \* revenueCatTransactions/{key}
  case,     \* revenueCatTransactions/attempt-{...}: an attempt without a transaction
  sold      \* what the store did: which sheet sold the transaction, and when

vars == <<now, user, attempt, lock, fact, case, sold>>

-----------------------------------------------------------------------------
Terminal == {"bound", "cancelled", "closed_unresolved", "expired_unresolved"}
Outcomes == Terminal \cup {"none", "accepted", "initiated", "pending", "reconciliation_required"}
Statuses == {"none", "reconciliation_required", "bound", "closed_unresolved", "expired_unresolved"}
Reasons  == {"missing_exact_binding", "conflicting_attempt", "identity_conflict", "contact",
             "expired_unresolved", "outside_confirmation_window", "resolved"}

NoAttempt == [outcome |-> "none", accepted |-> None, initiated |-> None,
              candidate |-> None, bound |-> None]
NoFact    == [status |-> "none", reason |-> "missing_exact_binding", conflict |-> FALSE,
              attempt |-> None, bound |-> None]

Active      == user # "deleted"
InConflict  == user = "conflict"

Exists(a)   == attempt[a].outcome # "none"
Open(a)     == Exists(a) /\ attempt[a].outcome \notin Terminal
Started(a)  == attempt[a].initiated # None
StartEnd(a) == attempt[a].accepted + Window
ResolveBy(a) == attempt[a].accepted + Resolution

\* The moments at which a request that commits now may have read the clock.
Time == 0 .. MaxTime
Sampled == {s \in Time : s <= now /\ now <= s + MaxWait}

\* publicAttempt: what time has made of an attempt's outcome.
Aged(a, s, otherwise) ==
  IF attempt[a].outcome \in Terminal THEN attempt[a].outcome
  ELSE IF s >= ResolveBy(a) THEN "expired_unresolved"
  ELSE IF s >= StartEnd(a) THEN "reconciliation_required" ELSE otherwise

Init ==
  /\ now = 0
  /\ user = "unverified"
  /\ attempt = [a \in Attempts |-> NoAttempt]
  /\ lock = None
  /\ fact = [t \in Txs |-> NoFact]
  /\ case = [a \in Attempts |-> "none"]
  /\ sold = [t \in Txs |-> [by |-> None, at |-> None]]

-----------------------------------------------------------------------------
(* The client's requests *)

\* record: a consent opens an attempt, one at a time.  A slip: only the other
\* attempts that have gone to the store are in the way.
LockFree_Started == \A b \in Attempts : Open(b) => ~Started(b)
LockFree         == lock = None

Record(a) ==
  /\ Active /\ ~Exists(a) /\ ~InConflict /\ LockFree
  /\ \E s \in Sampled :
       attempt' = [attempt EXCEPT ![a] = [NoAttempt EXCEPT !.outcome = "accepted", !.accepted = s]]
  /\ lock' = a
  /\ UNCHANGED <<now, user, fact, case, sold>>

\* command "claim": the answer allows the client to open the sheet.  A replay
\* does not.
Claimable(a, s) == ~Started(a) /\ s < StartEnd(a) /\ attempt[a].outcome \notin Terminal

Claim(a) ==
  /\ Active /\ Exists(a) /\ ~InConflict
  /\ \E s \in Sampled :
       /\ Claimable(a, s)
       /\ attempt' = [attempt EXCEPT ![a].initiated = s, ![a].outcome = "initiated"]
  /\ UNCHANGED <<now, user, lock, fact, case, sold>>

\* command "cancelled".  A slip: a closed attempt can still be cancelled.
Cancellable_Closed(a) == attempt[a].candidate = None /\ attempt[a].bound = None
Cancellable(a) == attempt[a].candidate = None /\ attempt[a].bound = None /\ Open(a)

Cancel(a) ==
  /\ Active /\ Exists(a) /\ Started(a)
  /\ attempt[a].outcome # "cancelled" /\ Cancellable(a)
  /\ attempt' = [attempt EXCEPT ![a].outcome = "cancelled"]
  /\ lock' = None
  /\ UNCHANGED <<now, user, fact, case, sold>>

\* command "candidate": the transaction the SDK returned.  Resolve follows.
Candidate(a, t) ==
  /\ Active /\ Exists(a) /\ Started(a)
  /\ sold[t].by # None
  /\ attempt[a].candidate \in {None, t}
  /\ Open(a) \/ attempt[a].outcome = "bound"
  /\ attempt' = [attempt EXCEPT ![a].candidate = t]
  /\ UNCHANGED <<now, user, lock, fact, case, sold>>

\* command "pending"
Pending(a) ==
  /\ Active /\ Open(a) /\ Started(a)
  /\ \E s \in Sampled : attempt' = [attempt EXCEPT ![a].outcome = Aged(a, s, "pending")]
  /\ UNCHANGED <<now, user, lock, fact, case, sold>>

\* status: an attempt that has come to nothing is given a case for an operator.
Status(a) ==
  LET o == Aged(a, now, attempt[a].outcome)
  IN  /\ Active /\ Exists(a)
      /\ attempt' = [attempt EXCEPT ![a].outcome = o]
      /\ case' = IF /\ o \in {"reconciliation_required", "expired_unresolved"}
                    /\ attempt[a].candidate = None /\ case[a] = "none"
                 THEN [case EXCEPT ![a] = "reconciliation_required"] ELSE case
      /\ UNCHANGED <<now, user, lock, fact, sold>>

-----------------------------------------------------------------------------
(* Trusted events *)

\* process, INITIAL_PURCHASE: the fact is stored once.  Resolve follows.
\* A slip: the account's authorization is not looked at.
EventAccepted_Unread == TRUE
EventAccepted        == Active

Purchased(t) ==
  /\ EventAccepted /\ sold[t].by # None /\ fact[t].status = "none"
  /\ fact' = [fact EXCEPT ![t].status = "reconciliation_required"]
  /\ UNCHANGED <<now, user, attempt, lock, case, sold>>

\* process: an event about the transaction that names somebody else, or a
\* transfer, which names no transaction.  A second one is not followed: the
\* account stays in conflict for good.  The fact of a deleted account that is
\* not erased yet is marked as well.
IdentityConflict(ts) ==
  /\ ~InConflict
  /\ user' = IF Active THEN "conflict" ELSE user
  /\ fact' = [t \in Txs |-> IF t \in ts /\ fact[t].status # "none"
                THEN [fact[t] EXCEPT !.conflict = TRUE, !.status = "reconciliation_required",
                                     !.reason = "identity_conflict"]
                ELSE fact[t]]
  /\ UNCHANGED <<now, attempt, lock, case, sold>>

-----------------------------------------------------------------------------
(* resolveInTransaction *)

\* An earlier attempt that went to the store and whose result is unknown: the
\* transaction may be its own.  A slip: only attempts that are open count.
Unknown_Open(b, a, t) ==
  /\ b # a /\ Started(b) /\ Open(b) /\ attempt[b].bound = None
  /\ attempt[b].accepted <= attempt[a].accepted
  /\ attempt[b].candidate \in {None, t}
Unknown(b, a, t) ==
  /\ b # a /\ Started(b) /\ attempt[b].bound = None
  /\ attempt[b].accepted <= attempt[a].accepted
  /\ attempt[b].candidate \in {None, t}

InWindow(a, t, manual) ==
  /\ Started(a)
  /\ attempt[a].accepted <= attempt[a].initiated /\ attempt[a].initiated < StartEnd(a)
  /\ attempt[a].initiated <= sold[t].at
  /\ manual \/ sold[t].at < StartEnd(a)

Consumed(a, s) ==
  attempt[a].bound # None \/ attempt[a].outcome \in Terminal \/ s >= ResolveBy(a)

\* Why the transaction cannot be bound to the only attempt that matches.
Verdict(t, matches, manual, s) ==
  IF Cardinality(matches) > 1 THEN "conflicting_attempt"
  ELSE IF matches = {} THEN "missing_exact_binding"
  ELSE LET a == CHOOSE x \in matches : TRUE
       IN  CASE fact[t].conflict \/ InConflict        -> "identity_conflict"
             [] attempt[a].candidate \notin {None, t}    -> "conflicting_attempt"
             [] Consumed(a, s)                           -> "expired_unresolved"
             [] ~manual /\ \E b \in Attempts : Unknown(b, a, t) -> "conflicting_attempt"
             [] ~InWindow(a, t, manual)                  -> "outside_confirmation_window"
             [] user # "verified"                            -> "contact"
             [] OTHER                                    -> "resolved"

\* The receipt is created, attempt and fact name each other, the lock goes.
Bind(a, t) ==
  /\ attempt' = [attempt EXCEPT ![a].bound = t, ![a].outcome = "bound"]
  /\ fact' = [fact EXCEPT ![t].bound = a, ![t].status = "bound", ![t].reason = "resolved"]
  /\ lock' = None

\* What is left of an attempt that could not be bound.
Lapsed(a, s) == IF s >= ResolveBy(a) THEN "expired_unresolved" ELSE "reconciliation_required"

\* The fact records why not, for the operator.
Refuse(t, matches, verdict, s) ==
  LET reason == IF fact[t].conflict \/ InConflict THEN "identity_conflict" ELSE verdict
      single == Cardinality(matches) = 1
      a      == CHOOSE x \in matches : TRUE
      late   == IF single THEN Lapsed(a, s) ELSE "reconciliation_required"
  IN  /\ fact' = IF fact[t].reason # reason \/ fact[t].status # "reconciliation_required"
                 THEN [fact EXCEPT ![t].status = late, ![t].reason = reason,
                                   ![t].attempt = IF single THEN a ELSE @]
                 ELSE fact
      /\ attempt' = IF single /\ Open(a) THEN [attempt EXCEPT ![a].outcome = late] ELSE attempt
      /\ UNCHANGED lock

Unresolved(t) == fact[t].status \notin {"none", "closed_unresolved"} /\ fact[t].bound = None

ResolveWith(t, matches, manual, s) ==
  LET verdict == Verdict(t, matches, manual, s)
  IN  IF verdict = "resolved" THEN Bind(CHOOSE x \in matches : TRUE, t)
      ELSE Refuse(t, matches, verdict, s)

\* resolve, after an event or a candidate.
Resolve(t) ==
  /\ Unresolved(t) /\ Active
  /\ \E s \in Sampled : ResolveWith(t, {a \in Attempts : attempt[a].candidate = t}, FALSE, s)
  /\ UNCHANGED <<now, user, case, sold>>

-----------------------------------------------------------------------------
(* resolveCase: an operator who has verified with the provider which sheet    *)
(* sold the transaction.  The expected revision is part of the request; one   *)
(* that is out of date is refused and changes nothing.                        *)

OperatorBind(t, a) ==
  /\ Unresolved(t) /\ ~fact[t].conflict /\ fact[t].attempt \in {None, a}
  /\ Active /\ Exists(a) /\ Started(a)
  /\ sold[t].by = a
  /\ now < ResolveBy(a) /\ attempt[a].outcome \notin Terminal
  /\ ResolveWith(t, {a}, TRUE, now)
  /\ UNCHANGED <<now, user, case, sold>>

\* Close an attempt on behalf of a fact or of its own case.  A slip: it may be
\* bound already.
Closable_Bound(a) == Active /\ Exists(a)
Closable(a) == Active /\ Exists(a) /\ attempt[a].bound = None

OperatorClose(a, release) ==
  /\ Closable(a)
  /\ \/ \E t \in Txs :
          /\ Unresolved(t) /\ ~fact[t].conflict /\ fact[t].attempt \in {None, a}
          /\ fact' = [fact EXCEPT ![t].status = "closed_unresolved"]
          /\ UNCHANGED case
     \/ /\ case[a] \notin {"none", "closed_unresolved"}
        /\ case' = [case EXCEPT ![a] = "closed_unresolved"]
        /\ UNCHANGED fact
  /\ attempt' = [attempt EXCEPT ![a].outcome = "closed_unresolved"]
  /\ lock' = IF release /\ lock = a THEN None ELSE lock
  /\ UNCHANGED <<now, user, sold>>

-----------------------------------------------------------------------------
(* Everybody else *)

\* The retention purge writes the expiry down; it never releases the lock.
\* That it marks an open case too is left out: nothing looks at that mark.
PurgeExpire(a) ==
  /\ Exists(a) /\ now >= ResolveBy(a)
  /\ \/ /\ Open(a)
        /\ attempt' = [attempt EXCEPT ![a].outcome = "expired_unresolved"]
        /\ UNCHANGED fact
     \/ \E t \in Txs :
          /\ fact[t].attempt = a /\ fact[t].status = "reconciliation_required"
          /\ fact' = [fact EXCEPT ![t].status = "expired_unresolved"]
          /\ UNCHANGED attempt
  /\ UNCHANGED <<now, user, lock, case, sold>>

\* The store sells what a sheet was opened for, now or after a late approval,
\* even when the SDK has reported a cancellation.  Neither it nor the clock is
\* followed past the account's deletion: only the requests in flight are.
Sell(a, t) ==
  /\ Active /\ Started(a) /\ sold[t].by = None /\ \A u \in Txs : sold[u].by # a
  /\ sold' = [sold EXCEPT ![t] = [by |-> a, at |-> now]]
  /\ UNCHANGED <<now, user, attempt, lock, fact, case>>

\* Not by this code, which sets it at the registration (users/store.ts:164) and
\* still looks again whenever it resolves.
ContactVerified ==
  /\ user = "unverified" /\ user' = "verified"
  /\ UNCHANGED <<now, attempt, lock, fact, case, sold>>

DeleteAccount ==
  /\ Active /\ user' = "deleted"
  /\ UNCHANGED <<now, attempt, lock, fact, case, sold>>

Tick ==
  /\ Active /\ now < MaxTime /\ now' = now + 1
  /\ UNCHANGED <<user, attempt, lock, fact, case, sold>>

Client(a) ==
  \/ Record(a) \/ Claim(a) \/ Cancel(a) \/ Pending(a) \/ Status(a)
  \/ \E t \in Txs : Candidate(a, t)

Operator(a) ==
  \/ \E t \in Txs : OperatorBind(t, a)
  \/ \E release \in BOOLEAN : OperatorClose(a, release)

Next ==
  \/ \E a \in Attempts : Client(a) \/ Operator(a) \/ PurgeExpire(a)
  \/ \E t \in Txs : Purchased(t) \/ Resolve(t)
  \/ \E ts \in SUBSET Txs : Cardinality(ts) <= 1 /\ IdentityConflict(ts)
  \/ \E a \in Attempts, t \in Txs : Sell(a, t)
  \/ ContactVerified \/ DeleteAccount \/ Tick

Spec == Init /\ [][Next]_vars

-----------------------------------------------------------------------------
(* Correctness *)

\* Every document is well formed.
TypeOK ==
  /\ now \in Time
  /\ user \in {"unverified", "verified", "conflict", "deleted"}
  /\ attempt \in [Attempts -> [outcome: Outcomes, accepted: Time \cup {None},
                               initiated: Time \cup {None}, candidate: Txs \cup {None},
                               bound: Txs \cup {None}]]
  /\ \A a \in Attempts : Exists(a) <=> attempt[a].accepted # None
  /\ lock \in Attempts \cup {None}
  /\ fact \in [Txs -> [status: Statuses, reason: Reasons, conflict: BOOLEAN,
                       attempt: Attempts \cup {None}, bound: Attempts \cup {None}]]
  /\ case \in [Attempts -> {"none", "reconciliation_required", "closed_unresolved"}]
  /\ sold \in [Txs -> [by: Attempts \cup {None}, at: Time \cup {None}]]

\* The lock admits one attempt at a time: whatever is closed, cancelled, bound
\* or released, an attempt that is open still owns it.
OpenAttemptOwnsLock == \A a \in Attempts : Open(a) => lock = a

\* A binding is mutual and exclusive: attempt and fact name each other, so no
\* transaction pays for two consents and no consent covers two transactions.
BindingIsMutual ==
  \A a \in Attempts, t \in Txs : attempt[a].bound = t <=> fact[t].bound = a

\* Both: the lock names the attempt that is open, attempt and fact name each other.
LockAndBindingsAgree == OpenAttemptOwnsLock /\ BindingIsMutual

\* No transaction was reported under two attempts.
ReportedOnce ==
  \A a, b \in Attempts : a # b => attempt[a].candidate = None
                               \/ attempt[a].candidate \notin {attempt[b].candidate, attempt[b].bound}

\* No attempt that has gone to the store was accepted later.
LastAccepted(a) ==
  \A b \in Attempts : Started(b) => attempt[b].accepted <= attempt[a].accepted

\* A transaction is bound to the attempt whose sheet sold it.  Late approvals
\* of an abandoned, cancelled or closed attempt are not taken for the result of
\* the next one, as long as the client reports a transaction once and the next
\* one bears no earlier time of acceptance.  It may bear one: its record reads
\* the clock, waits, and commits when a later consent has come and gone.  The
\* resolver then looks past that consent (purchaseCorrelation.ts:251), whose
\* sheet may be the one that sold.
BindsWhatTheSheetSold ==
  [][\A t \in Txs : \A a \in Attempts :
       fact[t].bound = None /\ fact'[t].bound = a /\ ReportedOnce /\ LastAccepted(a) =>
         sold[t].by = a]_vars

\* A consent opens the sheet once, and never while another attempt is open.
OneSheetAtATime ==
  [][\A a \in Attempts : attempt'[a].initiated # attempt[a].initiated =>
       /\ attempt[a].initiated = None
       /\ \A b \in Attempts \ {a} : ~Open(b)]_vars

\* A binding is final: nobody who closes, expires or cancels attempts undoes it.
BindingIsFinal ==
  [][\A a \in Attempts : attempt[a].bound # None =>
       attempt'[a].bound = attempt[a].bound /\ attempt'[a].outcome = "bound"]_vars

\* What was consented to and paid stands: one sheet for a consent, and a binding
\* that no closing, cancelling, expiring or repeated claim undoes.
ConsentsStand == OneSheetAtATime /\ BindingIsFinal

\* Events and requests still in flight when the account is deleted add no fact,
\* case, attempt or lock: the erasure finds everything there is of them.  (The
\* webhook's own record of an event, revenuecatWebhookStore.ts:146, names no
\* account, is no part of this state, and is written all the same.)
NothingAppearsAfterDeletion ==
  [][~Active =>
       /\ \A t \in Txs : fact[t].status = "none" => fact'[t].status = "none"
       /\ \A a \in Attempts : /\ case[a] = "none" => case'[a] = "none"
                              /\ attempt[a].outcome = "none" => attempt'[a].outcome = "none"
       /\ lock' = lock]_vars
=============================================================================
