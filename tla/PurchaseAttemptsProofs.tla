------------------------ MODULE PurchaseAttemptsProofs ------------------------
(***************************************************************************)
(* Proofs about PurchaseAttempts, for any number of attempts and           *)
(* transactions and any windows: the lock, the bindings, the consents, and *)
(* that a transaction is bound to the attempt whose sheet sold it.         *)
(***************************************************************************)
EXTENDS PurchaseAttempts, FiniteSetTheorems, TLAPS

Documents == [outcome: Outcomes, accepted: Time \cup {None}, initiated: Time \cup {None},
              candidate: Txs \cup {None}, bound: Txs \cup {None}]
Facts     == [status: Statuses, reason: Reasons, conflict: BOOLEAN,
              attempt: Attempts \cup {None}, bound: Attempts \cup {None}]

\* An attempt is bound exactly when its outcome says so.
OutcomeTells == \A a \in Attempts : attempt[a].bound # None <=> attempt[a].outcome = "bound"

\* What is not there has nothing in it.
Begun == \A a \in Attempts : ~Exists(a) => attempt[a] = NoAttempt

\* The store sells once from a sheet, and what it has not sold is not reported.
Sales ==
  /\ \A t \in Txs : sold[t].by # None => Started(sold[t].by)
  /\ \A t, u \in Txs : sold[t].by = sold[u].by => t = u \/ sold[t].by = None
  /\ \A a \in Attempts, t \in Txs : attempt[a].candidate = t => sold[t].by # None

\* What is bound without a report was bound by an operator, who knows.
OperatorsKnow ==
  \A a \in Attempts, t \in Txs :
    attempt[a].bound = t /\ attempt[a].candidate # t => sold[t].by = a

\* An attempt that went to the store and was closed with nothing to show for it:
\* it stays so, and the resolver binds nothing accepted later by itself.
Lost(d) == Started(d) /\ ~Open(d) /\ attempt[d].bound = None /\ attempt[d].candidate = None

\* Where one attempt reported another's transaction, some attempt is lost, or the
\* other is about to be and the report came from an attempt an operator bound.
StrayReport(b, t) ==
  LET c == sold[t].by
  IN  \/ \E d \in Attempts : Lost(d)
      \/ /\ attempt[b].bound \notin {None, t}
         /\ Started(c) /\ attempt[c].bound = None /\ attempt[c].candidate = None

StrayReportsShow ==
  \A b \in Attempts, t \in Txs :
    attempt[b].candidate = t /\ sold[t].by # b => StrayReport(b, t)

PInv ==
  /\ TypeOK /\ LockAndBindingsAgree /\ OutcomeTells /\ Begun /\ Sales /\ OperatorsKnow
  /\ ReportedOnce => StrayReportsShow

-----------------------------------------------------------------------------
(* What a step may do to attempts, lock, bindings and sales *)

\* The document of one attempt changes, no other.
Becomes(a, doc) ==
  attempt'[a] = doc /\ \A b \in Attempts \ {a} : attempt'[b] = attempt[b]

BindingsSame == \A t \in Txs : fact'[t].bound = fact[t].bound

Opens(a) ==
  /\ ~Exists(a) /\ lock = None /\ lock' = a
  /\ \E s \in Time : Becomes(a, [NoAttempt EXCEPT !.outcome = "accepted", !.accepted = s])
  /\ BindingsSame /\ UNCHANGED sold

Starts(a) ==
  /\ Open(a) /\ ~Started(a)
  /\ \E s \in Time : Becomes(a, [attempt[a] EXCEPT !.initiated = s, !.outcome = "initiated"])
  /\ BindingsSame /\ UNCHANGED <<lock, sold>>

\* An outcome is written, a terminal one stays terminal.
Moves(a, o) ==
  /\ Exists(a) /\ o \in Outcomes \ {"none"}
  /\ o = "bound" <=> attempt[a].outcome = "bound"
  /\ ~Open(a) => o \in Terminal
  /\ Becomes(a, [attempt[a] EXCEPT !.outcome = o])
  /\ lock' = lock \/ (lock' = None /\ lock = a /\ o \in Terminal)
  /\ BindingsSame /\ UNCHANGED sold

Reports(a, t) ==
  /\ Open(a) \/ attempt[a].outcome = "bound"
  /\ Started(a) /\ sold[t].by # None /\ attempt[a].candidate \in {None, t}
  /\ Becomes(a, [attempt[a] EXCEPT !.candidate = t])
  /\ BindingsSame /\ UNCHANGED <<lock, sold>>

Binds(a, t) ==
  /\ Open(a) /\ Started(a) /\ attempt[a].bound = None /\ fact[t].bound = None
  /\ attempt[a].candidate \in {None, t}
  /\ \/ sold[t].by = a
     \/ attempt[a].candidate = t /\ \A b \in Attempts : ~Unknown(b, a, t)
  /\ Becomes(a, [attempt[a] EXCEPT !.bound = t, !.outcome = "bound"])
  /\ lock' = None
  /\ fact'[t].bound = a /\ \A u \in Txs \ {t} : fact'[u].bound = fact[u].bound
  /\ UNCHANGED sold

Sells(a, t) ==
  /\ Started(a) /\ sold[t].by = None /\ \A u \in Txs : sold[u].by # a
  /\ sold'[t].by = a /\ \A u \in Txs \ {t} : sold'[u].by = sold[u].by
  /\ BindingsSame /\ UNCHANGED <<attempt, lock>>

Idles == BindingsSame /\ UNCHANGED <<attempt, lock, sold>>

Effect ==
  \/ Idles
  \/ \E a \in Attempts : Opens(a) \/ Starts(a) \/ \E o \in Outcomes : Moves(a, o)
  \/ \E a \in Attempts, t \in Txs : Reports(a, t) \/ Binds(a, t) \/ Sells(a, t)

-----------------------------------------------------------------------------
(* Typing *)

\* The changes the module makes to one document leave it well formed.
LEMMA DocumentTyped ==
  ASSUME NEW x \in Documents, NEW o \in Outcomes, NEW m \in Time, NEW t \in Txs
  PROVE  /\ [x EXCEPT !.outcome = o] \in Documents
         /\ [x EXCEPT !.initiated = m, !.outcome = o] \in Documents
         /\ [x EXCEPT !.candidate = t] \in Documents
         /\ [x EXCEPT !.bound = t, !.outcome = o] \in Documents
BY DEF Documents

\* The document a consent opens is well formed.
LEMMA FreshTyped ==
  ASSUME NEW m \in Time
  PROVE  LET doc == [NoAttempt EXCEPT !.outcome = "accepted", !.accepted = m]
         IN  doc \in Documents /\ doc.outcome = "accepted" /\ doc.accepted = m
BY DEF Documents, NoAttempt, Outcomes, Terminal

\* The same of a fact.
LEMMA FactTyped ==
  ASSUME NEW x \in Facts, NEW st \in Statuses, NEW r \in Reasons, NEW a \in Attempts,
         NEW n \in Attempts \cup {None}
  PROVE  /\ [x EXCEPT !.status = st] \in Facts
         /\ [x EXCEPT !.bound = a, !.status = st, !.reason = r] \in Facts
         /\ [x EXCEPT !.status = st, !.reason = r, !.attempt = n] \in Facts
BY DEF Facts

\* The initial state is well typed.
LEMMA TypeStart == Init => TypeOK
<1> SUFFICES ASSUME Init PROVE TypeOK
  OBVIOUS
<1>1. NoFact \in Facts
  BY DEF Facts, NoFact, Statuses, Reasons
<1>2. fact \in [Txs -> Facts]
  BY <1>1 DEF Init
<1>3. attempt = [a \in Attempts |-> [outcome |-> "none", accepted |-> None, initiated |-> None,
                                     candidate |-> None, bound |-> None]]
  BY DEF Init, NoAttempt
<1>4. QED
  BY <1>2, <1>3, ClockAssumption DEF Init, TypeOK, Facts, Outcomes, Terminal, Time, Exists

\* What time makes of an outcome is an outcome, a terminal one itself.
LEMMA AgedTyped ==
  ASSUME NEW a \in Attempts, NEW s, NEW other \in Outcomes \ {"none"}
  PROVE  /\ Aged(a, s, other) \in Outcomes \ {"none"}
         /\ attempt[a].outcome \in Terminal => Aged(a, s, other) = attempt[a].outcome
         /\ Aged(a, s, other) = "bound" => "bound" \in {other, attempt[a].outcome}
BY DEF Aged, Outcomes, Terminal

ResolverBinds(t, M, manual) ==
  \E a \in M :
    /\ Bind(a, t)
    /\ attempt[a].bound = None /\ attempt[a].outcome \notin Terminal
    /\ Started(a)
    /\ attempt[a].candidate \in {None, t}
    /\ manual \/ (\A b \in Attempts : ~Unknown(b, a, t))

Late == {"expired_unresolved", "reconciliation_required"}

LapsesOne(M) == \E a \in M, o \in Late : Open(a) /\ attempt' = [attempt EXCEPT ![a].outcome = o]

NotesReason(t) ==
  \E st \in Statuses, r \in Reasons, n \in Attempts \cup {None} :
    fact' = [fact EXCEPT ![t].status = st, ![t].reason = r, ![t].attempt = n]

ResolverRefuses(t, M) ==
  /\ lock' = lock
  /\ attempt' = attempt \/ LapsesOne(M)
  /\ fact' = fact \/ NotesReason(t)

\* A transaction is bound to one of the attempts that match, or what keeps it
\* from being bound is written on the fact and on the only match.
LEMMA ResolveShape ==
  ASSUME TypeOK, NEW t \in Txs, NEW M \in SUBSET Attempts, NEW manual \in BOOLEAN, NEW s,
         ResolveWith(t, M, manual, s)
  PROVE  ResolverBinds(t, M, manual) \/ ResolverRefuses(t, M)
<1> DEFINE verdict == Verdict(t, M, manual, s)
           a == CHOOSE x \in M : TRUE
           single == Cardinality(M) = 1
<1>1. CASE verdict = "resolved"
  <2>1. Bind(a, t)
    BY <1>1 DEF ResolveWith
  <2>2. M # {}
    BY <1>1 DEF Verdict
  <2>3. a \in M
    BY <2>2
  <2>4. /\ attempt[a].bound = None /\ attempt[a].outcome \notin Terminal
        /\ Started(a) /\ attempt[a].candidate \in {None, t}
        /\ manual \/ \A b \in Attempts : ~Unknown(b, a, t)
    BY <1>1 DEF Verdict, InWindow, Consumed
  <2>5. QED BY <2>1, <2>3, <2>4 DEF ResolverBinds
<1>2. CASE verdict # "resolved"
  <2> DEFINE reason == IF fact[t].conflict \/ InConflict THEN "identity_conflict" ELSE verdict
             late == IF single THEN Lapsed(a, s) ELSE "reconciliation_required"
  <2>1. Refuse(t, M, verdict, s)
    BY <1>2 DEF ResolveWith
  <2>2. single => a \in Attempts /\ a \in M
    <3>1. M = {} => Cardinality(M) = 0
      BY FS_EmptySet
    <3>2. QED BY <3>1
  <2>3. late \in Late
    BY DEF Lapsed, Late
  <2>4. reason \in Reasons
    BY DEF Verdict, Reasons
  <2>5. lock' = lock
    BY <2>1 DEF Refuse
  <2>6. \/ attempt' = attempt
        \/ single /\ Open(a) /\ attempt' = [attempt EXCEPT ![a].outcome = late]
    BY <2>1 DEF Refuse
  <2>7. fact' = fact \/ NotesReason(t)
    <3> DEFINE n == IF single THEN a ELSE fact[t].attempt
    <3>1. n \in Attempts \cup {None} /\ late \in Statuses
      BY <2>2, <2>3 DEF TypeOK, Statuses, Late
    <3>2. \/ fact' = fact
          \/ fact' = [fact EXCEPT ![t].status = late, ![t].reason = reason,
                                  ![t].attempt = IF single THEN a ELSE @]
      BY <2>1 DEF Refuse
    <3>3. \/ fact' = fact
          \/ fact' = [fact EXCEPT ![t].status = late, ![t].reason = reason, ![t].attempt = n]
      BY <3>2 DEF TypeOK
    <3> HIDE DEF n, late, reason
    <3>4. QED BY <2>4, <3>1, <3>3 DEF NotesReason
  <2> HIDE DEF late, a, single
  <2>8. attempt' = attempt \/ LapsesOne(M)
    BY <2>2, <2>3, <2>6 DEF LapsesOne
  <2>9. QED BY <2>5, <2>7, <2>8 DEF ResolverRefuses
<1>3. QED BY <1>1, <1>2

\* A change of one attempt keeps the attempts well formed.
LEMMA AttemptsTyped ==
  ASSUME TypeOK, NEW a \in Attempts, NEW doc \in Documents,
         doc.outcome # "none" <=> doc.accepted # None,
         attempt' = [attempt EXCEPT ![a] = doc]
  PROVE  /\ attempt' \in [Attempts -> Documents]
         /\ \A b \in Attempts : Exists(b)' <=> attempt'[b].accepted # None
BY DEF TypeOK, Documents, Exists

\* A change of one outcome does.
LEMMA OutcomeTyped ==
  ASSUME TypeOK, NEW a \in Attempts, Exists(a), NEW o \in Outcomes \ {"none"},
         attempt' = [attempt EXCEPT ![a].outcome = o]
  PROVE  /\ attempt' \in [Attempts -> Documents]
         /\ \A b \in Attempts : Exists(b)' <=> attempt'[b].accepted # None
<1> DEFINE doc == [attempt[a] EXCEPT !.outcome = o]
<1>1. attempt[a] \in Documents
  BY DEF TypeOK, Documents
<1>2. doc \in Documents /\ doc.outcome = o /\ doc.accepted = attempt[a].accepted
  BY <1>1 DEF Documents
<1>3. attempt' = [attempt EXCEPT ![a] = doc]
  OBVIOUS
<1> HIDE DEF doc
<1>4. doc.outcome # "none" <=> doc.accepted # None
  BY <1>2 DEF TypeOK, Exists
<1>5. QED BY <1>2, <1>3, <1>4, AttemptsTyped

\* An attempt that has gone to the store is there.
LEMMA StartedExists ==
  ASSUME Begun, NEW a \in Attempts
  PROVE  Started(a) \/ attempt[a].candidate # None \/ attempt[a].bound # None => Exists(a)
BY DEF Begun, NoAttempt, Started

\* The resolver's writes are well formed.
LEMMA ResolveTyped ==
  ASSUME TypeOK, Begun, NEW t \in Txs, NEW M \in SUBSET Attempts, NEW manual \in BOOLEAN,
         NEW s, ResolveWith(t, M, manual, s), UNCHANGED <<now, user, case, sold>>
  PROVE  TypeOK'
<1>a. /\ "bound" \in Outcomes /\ "bound" \in Statuses /\ "resolved" \in Reasons
      /\ fact \in [Txs -> Facts]
  BY DEF Outcomes, Statuses, Reasons, Terminal, TypeOK, Facts
<1>1. ASSUME NEW a \in M, Bind(a, t), Started(a) PROVE TypeOK'
  <2> DEFINE doc == [attempt[a] EXCEPT !.bound = t, !.outcome = "bound"]
             new == [fact[t] EXCEPT !.bound = a, !.status = "bound", !.reason = "resolved"]
  <2>1. attempt[a] \in Documents /\ attempt[a].accepted # None
    BY <1>1, StartedExists DEF TypeOK, Documents
  <2>2. doc \in Documents /\ doc.outcome = "bound" /\ doc.accepted = attempt[a].accepted
    BY <1>a, <2>1 DEF Documents
  <2>3. attempt' = [attempt EXCEPT ![a] = doc]
    BY <1>1 DEF Bind
  <2>4. new \in Facts
    BY <1>a, FactTyped
  <2>5. fact' = [fact EXCEPT ![t] = new]
    BY <1>1 DEF Bind
  <2>6. lock' = None
    BY <1>1 DEF Bind
  <2> HIDE DEF doc, new
  <2>7. fact' \in [Txs -> Facts]
    BY <1>a, <2>4, <2>5
  <2>8. /\ attempt' \in [Attempts -> Documents]
        /\ \A b \in Attempts : Exists(b)' <=> attempt'[b].accepted # None
    BY <2>1, <2>2, <2>3, AttemptsTyped
  <2>9. QED BY <2>6, <2>7, <2>8 DEF TypeOK, Documents, Facts
<1>2. ASSUME ResolverRefuses(t, M) PROVE TypeOK'
  <2>1. fact' \in [Txs -> Facts]
    <3>1. CASE fact' = fact
      BY <1>a, <3>1
    <3>2. ASSUME NEW st \in Statuses, NEW r \in Reasons, NEW n \in Attempts \cup {None},
                 fact' = [fact EXCEPT ![t].status = st, ![t].reason = r, ![t].attempt = n]
          PROVE  fact' \in [Txs -> Facts]
      <4> DEFINE new == [fact[t] EXCEPT !.status = st, !.reason = r, !.attempt = n]
      <4>1. new \in Facts
        BY <1>a DEF Facts
      <4>2. fact' = [fact EXCEPT ![t] = new]
        BY <3>2
      <4> HIDE DEF new
      <4>3. QED BY <1>a, <4>1, <4>2
    <3>3. QED BY <1>2, <3>1, <3>2 DEF ResolverRefuses, NotesReason
  <2>2. /\ attempt' \in [Attempts -> Documents]
        /\ \A b \in Attempts : Exists(b)' <=> attempt'[b].accepted # None
    <3>1. CASE attempt' = attempt
      BY <3>1 DEF TypeOK, Documents, Exists
    <3>2. ASSUME NEW a \in M, NEW o \in Late, Open(a),
                 attempt' = [attempt EXCEPT ![a].outcome = o]
          PROVE  /\ attempt' \in [Attempts -> Documents]
                 /\ \A b \in Attempts : Exists(b)' <=> attempt'[b].accepted # None
      <4>1. o \in Outcomes \ {"none"} /\ Exists(a)
        BY <3>2 DEF Outcomes, Terminal, Open, Late
      <4>2. QED BY <3>2, <4>1, OutcomeTyped
    <3>3. QED BY <1>2, <3>1, <3>2 DEF ResolverRefuses, LapsesOne
  <2>3. lock' = lock
    BY <1>2 DEF ResolverRefuses
  <2>4. QED BY <2>1, <2>2, <2>3 DEF TypeOK, Documents, Facts
<1>3. CASE ResolverBinds(t, M, manual)
  <2>1. PICK a \in M : Bind(a, t) /\ Started(a)
    BY <1>3, Zenon DEF ResolverBinds
  <2>2. QED BY <1>1, <2>1
<1>4. QED BY <1>2, <1>3, ResolveShape

\* Every step keeps every document well formed.
LEMMA TypeStep == TypeOK /\ Begun /\ [Next]_vars => TypeOK'
<1> SUFFICES ASSUME TypeOK, Begun, [Next]_vars PROVE TypeOK'
  OBVIOUS
<1> USE NoneAssumption, ClockAssumption
<1> DEFINE AttemptsOK == /\ attempt' \in [Attempts -> Documents]
                         /\ \A b \in Attempts : Exists(b)' <=> attempt'[b].accepted # None
<1>a. fact \in [Txs -> Facts] /\ \A a \in Attempts : attempt[a] \in Documents
  BY DEF TypeOK, Facts, Documents
<1>b. ASSUME AttemptsOK, lock' \in Attempts \cup {None}, fact' = fact, UNCHANGED <<now, user, sold>>,
             case' \in [Attempts -> {"none", "reconciliation_required", "closed_unresolved"}]
      PROVE  TypeOK'
  BY <1>b DEF TypeOK, Documents
<1>1. ASSUME NEW a \in Attempts, Record(a) PROVE TypeOK'
  <2>0. PICK s \in Time :
          attempt' = [attempt EXCEPT ![a] = [NoAttempt EXCEPT !.outcome = "accepted", !.accepted = s]]
    BY <1>1 DEF Record, Sampled
  <2> DEFINE doc == [NoAttempt EXCEPT !.outcome = "accepted", !.accepted = s]
  <2>1. doc \in Documents /\ doc.outcome # "none" /\ doc.accepted # None
    <3>1. s # None
      BY DEF Time
    <3>2. doc \in Documents /\ doc.outcome = "accepted" /\ doc.accepted = s
      BY FreshTyped
    <3> HIDE DEF doc
    <3>3. QED BY <3>1, <3>2
  <2>2. attempt' = [attempt EXCEPT ![a] = doc]
    BY <2>0
  <2> HIDE DEF doc
  <2>3. AttemptsOK
    BY <2>1, <2>2, AttemptsTyped
  <2>4. lock' = a /\ UNCHANGED <<now, user, fact, case, sold>>
    BY <1>1 DEF Record
  <2> HIDE DEF AttemptsOK
  <2>5. QED BY <1>b, <2>3, <2>4 DEF TypeOK
<1>2. ASSUME NEW a \in Attempts, Claim(a) PROVE TypeOK'
  <2>0. PICK s \in Time :
          attempt' = [attempt EXCEPT ![a].initiated = s, ![a].outcome = "initiated"]
    BY <1>2 DEF Claim, Sampled
  <2> DEFINE doc == [attempt[a] EXCEPT !.initiated = s, !.outcome = "initiated"]
  <2>1. attempt[a].accepted # None
    BY <1>2 DEF Claim, TypeOK
  <2>2. doc \in Documents /\ doc.outcome # "none" /\ doc.accepted # None
    BY <1>a, <2>1 DEF Documents, Outcomes, TypeOK
  <2>3. attempt' = [attempt EXCEPT ![a] = doc]
    BY <2>0
  <2> HIDE DEF doc
  <2>4. AttemptsOK
    BY <2>2, <2>3, AttemptsTyped
  <2>5. UNCHANGED <<now, user, lock, fact, case, sold>>
    BY <1>2 DEF Claim
  <2> HIDE DEF AttemptsOK
  <2>6. QED BY <1>b, <2>4, <2>5 DEF TypeOK
<1>3. ASSUME NEW a \in Attempts, Cancel(a) PROVE TypeOK'
  <2>1. "cancelled" \in Outcomes \ {"none"}
    BY DEF Outcomes, Terminal
  <2>2. AttemptsOK
    BY <1>3, <2>1, OutcomeTyped DEF Cancel
  <2>3. lock' = None /\ UNCHANGED <<now, user, fact, case, sold>>
    BY <1>3 DEF Cancel
  <2> HIDE DEF AttemptsOK
  <2>4. QED BY <1>b, <2>2, <2>3 DEF TypeOK
<1>4. ASSUME NEW a \in Attempts, NEW t \in Txs, Candidate(a, t) PROVE TypeOK'
  <2> DEFINE doc == [attempt[a] EXCEPT !.candidate = t]
  <2>1. attempt[a].accepted # None /\ attempt[a].outcome # "none"
    BY <1>4 DEF Candidate, TypeOK, Exists
  <2>2. doc \in Documents /\ doc.outcome # "none" /\ doc.accepted # None
    BY <1>a, <2>1 DEF Documents
  <2>3. attempt' = [attempt EXCEPT ![a] = doc]
    BY <1>4 DEF Candidate
  <2> HIDE DEF doc
  <2>4. AttemptsOK
    BY <2>2, <2>3, AttemptsTyped
  <2>5. UNCHANGED <<now, user, lock, fact, case, sold>>
    BY <1>4 DEF Candidate
  <2> HIDE DEF AttemptsOK
  <2>6. QED BY <1>b, <2>4, <2>5 DEF TypeOK
<1>5. ASSUME NEW a \in Attempts, Pending(a) PROVE TypeOK'
  <2>1. "pending" \in Outcomes \ {"none"} /\ Exists(a)
    BY <1>5 DEF Outcomes, Pending, Open
  <2>2. PICK s \in Sampled : attempt' = [attempt EXCEPT ![a].outcome = Aged(a, s, "pending")]
    BY <1>5 DEF Pending
  <2>3. AttemptsOK
    BY <2>1, <2>2, AgedTyped, OutcomeTyped
  <2>4. UNCHANGED <<now, user, lock, fact, case, sold>>
    BY <1>5 DEF Pending
  <2> HIDE DEF AttemptsOK
  <2>5. QED BY <1>b, <2>3, <2>4 DEF TypeOK
<1>6. ASSUME NEW a \in Attempts, Status(a) PROVE TypeOK'
  <2> DEFINE o == Aged(a, now, attempt[a].outcome)
  <2>1. attempt[a].outcome \in Outcomes \ {"none"} /\ Exists(a)
    BY <1>6 DEF Status, TypeOK, Exists
  <2>2. o \in Outcomes \ {"none"}
    BY <2>1, AgedTyped
  <2>3. attempt' = [attempt EXCEPT ![a].outcome = o]
    BY <1>6 DEF Status
  <2>4. case' = case \/ case' = [case EXCEPT ![a] = "reconciliation_required"]
    BY <1>6 DEF Status
  <2>5. UNCHANGED <<now, user, lock, fact, sold>>
    BY <1>6 DEF Status
  <2> HIDE DEF o
  <2>6. AttemptsOK
    BY <2>1, <2>2, <2>3, OutcomeTyped
  <2>7. case' \in [Attempts -> {"none", "reconciliation_required", "closed_unresolved"}]
    BY <2>4 DEF TypeOK
  <2> HIDE DEF AttemptsOK
  <2>8. QED BY <1>b, <2>5, <2>6, <2>7 DEF TypeOK
<1>7. ASSUME NEW t \in Txs, Purchased(t) PROVE TypeOK'
  <2>1. "reconciliation_required" \in Statuses
    BY DEF Statuses
  <2>2. fact' = [fact EXCEPT ![t] = [@ EXCEPT !.status = "reconciliation_required"]]
    BY <1>7 DEF Purchased
  <2>3. fact' \in [Txs -> Facts]
    BY <1>a, <2>1, <2>2 DEF Facts
  <2>4. UNCHANGED <<now, user, attempt, lock, case, sold>>
    BY <1>7 DEF Purchased
  <2>5. QED BY <2>3, <2>4 DEF TypeOK, Facts, Exists
<1>8. ASSUME NEW ts \in SUBSET Txs, IdentityConflict(ts) PROVE TypeOK'
  <2>1. \A t \in Txs : [fact[t] EXCEPT !.conflict = TRUE, !.status = "reconciliation_required",
                                       !.reason = "identity_conflict"] \in Facts
    <3>1. "reconciliation_required" \in Statuses /\ "identity_conflict" \in Reasons
      BY DEF Statuses, Reasons
    <3>2. \A x \in Facts, st \in Statuses, r \in Reasons :
            [x EXCEPT !.conflict = TRUE, !.status = st, !.reason = r] \in Facts
      BY DEF Facts
    <3>3. QED BY <1>a, <3>1, <3>2
  <2>2. fact' \in [Txs -> Facts]
    BY <1>a, <1>8, <2>1 DEF IdentityConflict
  <2>3. user' \in {"unverified", "verified", "conflict", "deleted"}
    BY <1>8 DEF IdentityConflict, TypeOK
  <2>4. UNCHANGED <<now, attempt, lock, case, sold>>
    BY <1>8 DEF IdentityConflict
  <2>5. QED BY <2>2, <2>3, <2>4 DEF TypeOK, Facts, Exists
<1>9. ASSUME NEW t \in Txs, Resolve(t) PROVE TypeOK'
  <2> DEFINE M == {a \in Attempts : attempt[a].candidate = t}
  <2>1. PICK s \in Sampled : ResolveWith(t, M, FALSE, s)
    BY <1>9 DEF Resolve
  <2>2. M \in SUBSET Attempts
    OBVIOUS
  <2>3. UNCHANGED <<now, user, case, sold>>
    BY <1>9 DEF Resolve
  <2> HIDE DEF M
  <2>4. QED BY <2>1, <2>2, <2>3, ResolveTyped
<1>10. ASSUME NEW t \in Txs, NEW a \in Attempts, OperatorBind(t, a) PROVE TypeOK'
  <2>1. ResolveWith(t, {a}, TRUE, now) /\ UNCHANGED <<now, user, case, sold>>
    BY <1>10 DEF OperatorBind
  <2>2. {a} \in SUBSET Attempts
    OBVIOUS
  <2>3. QED BY <2>1, <2>2, ResolveTyped
<1>11. ASSUME NEW a \in Attempts, NEW release \in BOOLEAN, OperatorClose(a, release) PROVE TypeOK'
  <2>1. "closed_unresolved" \in Outcomes \ {"none"} /\ "closed_unresolved" \in Statuses /\ Exists(a)
    BY <1>11 DEF Outcomes, Terminal, Statuses, OperatorClose, Closable
  <2>2. AttemptsOK
    BY <1>11, <2>1, OutcomeTyped DEF OperatorClose
  <2>3. fact' = fact \/ \E t \in Txs : fact' = [fact EXCEPT ![t] = [@ EXCEPT !.status = "closed_unresolved"]]
    BY <1>11 DEF OperatorClose
  <2>4. fact' \in [Txs -> Facts]
    BY <1>a, <2>1, <2>3 DEF Facts
  <2>5. case' = case \/ case' = [case EXCEPT ![a] = "closed_unresolved"]
    BY <1>11 DEF OperatorClose
  <2>6. case' \in [Attempts -> {"none", "reconciliation_required", "closed_unresolved"}]
    BY <2>5 DEF TypeOK
  <2>7. lock' \in {lock, None} /\ UNCHANGED <<now, user, sold>>
    BY <1>11 DEF OperatorClose
  <2>8. QED BY <2>2, <2>4, <2>6, <2>7 DEF TypeOK, Facts, Documents
<1>12. ASSUME NEW a \in Attempts, PurgeExpire(a) PROVE TypeOK'
  <2>1. "expired_unresolved" \in Outcomes \ {"none"} /\ "expired_unresolved" \in Statuses /\ Exists(a)
    BY <1>12 DEF Outcomes, Terminal, Statuses, PurgeExpire
  <2>2. UNCHANGED <<now, user, lock, case, sold>>
    BY <1>12 DEF PurgeExpire
  <2>3. CASE attempt' = [attempt EXCEPT ![a].outcome = "expired_unresolved"] /\ fact' = fact
    <3>1. AttemptsOK
      BY <2>1, <2>3, OutcomeTyped
    <3> HIDE DEF AttemptsOK
    <3>2. QED BY <1>b, <2>2, <2>3, <3>1 DEF TypeOK
  <2>4. ASSUME NEW t \in Txs, attempt' = attempt,
               fact' = [fact EXCEPT ![t] = [@ EXCEPT !.status = "expired_unresolved"]]
        PROVE  TypeOK'
    <3>1. fact' \in [Txs -> Facts]
      BY <1>a, <2>1, <2>4 DEF Facts
    <3>2. QED BY <2>2, <2>4, <3>1 DEF TypeOK, Facts, Exists
  <2>5. QED BY <1>12, <2>3, <2>4 DEF PurgeExpire
<1>13. ASSUME NEW a \in Attempts, NEW t \in Txs, Sell(a, t) PROVE TypeOK'
  BY <1>13 DEF Sell, TypeOK, Exists
<1>14. CASE ContactVerified \/ DeleteAccount
  BY <1>14 DEF ContactVerified, DeleteAccount, TypeOK, Exists
<1>15. CASE Tick
  BY <1>15 DEF Tick, TypeOK, Exists, Time
<1>16. CASE UNCHANGED vars
  BY <1>16 DEF vars, TypeOK, Exists
<1>17. QED
  BY <1>1, <1>2, <1>3, <1>4, <1>5, <1>6, <1>7, <1>8, <1>9, <1>10, <1>11, <1>12, <1>13, <1>14,
     <1>15, <1>16 DEF Next, Client, Operator

-----------------------------------------------------------------------------
(* Every step has one of the effects *)

\* An attempt whose document is replaced, and no other.
LEMMA BecomesLemma ==
  ASSUME TypeOK, NEW a \in Attempts, NEW doc, attempt' = [attempt EXCEPT ![a] = doc]
  PROVE  Becomes(a, doc)
BY DEF Becomes, TypeOK

\* An outcome that is written.
LEMMA MovesLemma ==
  ASSUME TypeOK, NEW a \in Attempts, NEW o \in Outcomes \ {"none"}, Exists(a),
         o = "bound" <=> attempt[a].outcome = "bound", Open(a) \/ o \in Terminal,
         attempt' = [attempt EXCEPT ![a].outcome = o],
         lock' = lock \/ (lock' = None /\ lock = a /\ o \in Terminal),
         BindingsSame, UNCHANGED sold
  PROVE  Effect
<1>1. attempt' = [attempt EXCEPT ![a] = [attempt[a] EXCEPT !.outcome = o]]
  OBVIOUS
<1>2. Becomes(a, [attempt[a] EXCEPT !.outcome = o])
  BY <1>1, BecomesLemma
<1>3. Moves(a, o)
  BY <1>2 DEF Moves
<1>4. QED BY <1>3 DEF Effect

\* The resolver binds, or writes one outcome, or none.
LEMMA ResolverEffect ==
  ASSUME PInv, NEW t \in Txs, NEW M \in SUBSET Attempts, NEW manual \in BOOLEAN,
         NEW s, ResolveWith(t, M, manual, s), UNCHANGED <<now, user, case, sold>>,
         fact[t].bound = None,
         (manual /\ \A a \in M : sold[t].by = a)
           \/ (~manual /\ \A a \in M : attempt[a].candidate = t)
  PROVE  Effect
<1>1. TypeOK /\ Begun /\ OutcomeTells
  BY DEF PInv
<1>2. CASE ResolverBinds(t, M, manual)
  <2>1. PICK a \in M : /\ Bind(a, t) /\ Started(a)
                       /\ attempt[a].bound = None /\ attempt[a].outcome \notin Terminal
                       /\ attempt[a].candidate \in {None, t}
                       /\ (manual \/ (\A b \in Attempts : ~Unknown(b, a, t)))
    BY <1>2, Zenon DEF ResolverBinds
  <2>2. a \in Attempts /\ Open(a) /\ attempt[a].bound = None
    BY <1>1, <2>1, StartedExists DEF Open
  <2>3. attempt' = [attempt EXCEPT ![a] = [attempt[a] EXCEPT !.bound = t, !.outcome = "bound"]]
    BY <2>1 DEF Bind
  <2>4. Becomes(a, [attempt[a] EXCEPT !.bound = t, !.outcome = "bound"])
    BY <1>1, <2>2, <2>3, BecomesLemma
  <2>5. lock' = None /\ fact'[t].bound = a /\ \A u \in Txs \ {t} : fact'[u].bound = fact[u].bound
    BY <1>1, <2>1 DEF Bind, TypeOK
  <2>6. sold[t].by = a \/ (attempt[a].candidate = t /\ \A b \in Attempts : ~Unknown(b, a, t))
    BY <2>1
  <2>7. Binds(a, t)
    BY <2>1, <2>2, <2>4, <2>5, <2>6 DEF Binds
  <2>8. QED BY <2>2, <2>7 DEF Effect
<1>3. CASE ResolverRefuses(t, M)
  <2>1. BindingsSame
    <3>1. CASE fact' = fact
      BY <3>1 DEF BindingsSame
    <3>2. ASSUME NEW st \in Statuses, NEW r \in Reasons, NEW n \in Attempts \cup {None},
                 fact' = [fact EXCEPT ![t].status = st, ![t].reason = r, ![t].attempt = n]
          PROVE  BindingsSame
      BY <1>1, <3>2 DEF BindingsSame, TypeOK
    <3>3. QED BY <1>3, <3>1, <3>2 DEF ResolverRefuses, NotesReason
  <2>2. lock' = lock
    BY <1>3 DEF ResolverRefuses
  <2>3. CASE attempt' = attempt
    BY <2>1, <2>2, <2>3 DEF Effect, Idles
  <2>4. ASSUME NEW a \in M, NEW o \in Late, Open(a), attempt' = [attempt EXCEPT ![a].outcome = o]
        PROVE  Effect
    <3>1. /\ o \in Outcomes \ {"none"} /\ Exists(a) /\ a \in Attempts
          /\ o # "bound" /\ attempt[a].outcome # "bound"
      BY <2>4 DEF Late, Outcomes, Terminal, Open
    <3>2. QED BY <1>1, <2>1, <2>2, <2>4, <3>1, MovesLemma
  <2>5. QED BY <1>3, <2>3, <2>4 DEF ResolverRefuses, LapsesOne
<1>4. QED BY <1>1, <1>2, <1>3, ResolveShape

\* So does every step of the module.
LEMMA EveryEffect == PInv /\ [Next]_vars => Effect
<1> SUFFICES ASSUME PInv, [Next]_vars PROVE Effect
  OBVIOUS
<1> USE NoneAssumption, ClockAssumption
<1>a. TypeOK /\ Begun /\ OutcomeTells /\ OpenAttemptOwnsLock
  BY DEF PInv, LockAndBindingsAgree
<1>c. fact' = fact => BindingsSame
  BY DEF BindingsSame
<1>1. ASSUME NEW a \in Attempts, Record(a) PROVE Effect
  <2>0. PICK s \in Time :
          attempt' = [attempt EXCEPT ![a] = [NoAttempt EXCEPT !.outcome = "accepted", !.accepted = s]]
    BY <1>1 DEF Record, Sampled
  <2>1. Becomes(a, [NoAttempt EXCEPT !.outcome = "accepted", !.accepted = s])
    BY <1>a, <2>0, BecomesLemma
  <2>2. ~Exists(a) /\ lock = None /\ lock' = a /\ BindingsSame /\ UNCHANGED sold
    BY <1>1, <1>c DEF Record, LockFree
  <2>3. Opens(a)
    BY <2>1, <2>2 DEF Opens
  <2>4. QED BY <2>3 DEF Effect
<1>2. ASSUME NEW a \in Attempts, Claim(a) PROVE Effect
  <2>1. PICK s \in Time :
          attempt' = [attempt EXCEPT ![a] = [attempt[a] EXCEPT !.initiated = s,
                                                             !.outcome = "initiated"]]
    BY <1>2 DEF Claim, Sampled
  <2>2. Becomes(a, [attempt[a] EXCEPT !.initiated = s, !.outcome = "initiated"])
    BY <1>a, <2>1, BecomesLemma
  <2>3. Open(a) /\ ~Started(a) /\ BindingsSame /\ UNCHANGED <<lock, sold>>
    BY <1>2, <1>c DEF Claim, Claimable, Open
  <2>4. Starts(a)
    BY <2>2, <2>3 DEF Starts
  <2>5. QED BY <2>4 DEF Effect
<1>3. ASSUME NEW a \in Attempts, Cancel(a) PROVE Effect
  <2>1. Open(a) /\ Exists(a) /\ lock = a /\ attempt[a].outcome # "bound"
    BY <1>3, <1>a DEF Cancel, Cancellable, OpenAttemptOwnsLock, Open, Terminal
  <2>2. "cancelled" \in Terminal /\ "cancelled" \in Outcomes \ {"none"}
    BY DEF Terminal, Outcomes
  <2>3. /\ attempt' = [attempt EXCEPT ![a].outcome = "cancelled"] /\ lock' = None
        /\ BindingsSame /\ UNCHANGED sold
    BY <1>3, <1>c DEF Cancel
  <2>4. QED BY <1>a, <2>1, <2>2, <2>3, MovesLemma
<1>4. ASSUME NEW a \in Attempts, NEW t \in Txs, Candidate(a, t) PROVE Effect
  <2>1. attempt' = [attempt EXCEPT ![a] = [attempt[a] EXCEPT !.candidate = t]]
    BY <1>4 DEF Candidate
  <2>2. Becomes(a, [attempt[a] EXCEPT !.candidate = t])
    BY <1>a, <2>1, BecomesLemma
  <2>3. Reports(a, t)
    BY <1>4, <1>c, <2>2 DEF Candidate, Reports
  <2>4. QED BY <2>3 DEF Effect
<1>5. ASSUME NEW a \in Attempts, Pending(a) PROVE Effect
  <2>0. PICK s \in Sampled : attempt' = [attempt EXCEPT ![a].outcome = Aged(a, s, "pending")]
    BY <1>5 DEF Pending
  <2> DEFINE o == Aged(a, s, "pending")
  <2>1. "pending" \in Outcomes \ {"none"} /\ Exists(a) /\ Open(a) /\ attempt[a].outcome # "bound"
    BY <1>5 DEF Outcomes, Pending, Open, Terminal
  <2>2. o \in Outcomes \ {"none"} /\ o # "bound"
    BY <2>1, AgedTyped
  <2>3. attempt' = [attempt EXCEPT ![a].outcome = o] /\ UNCHANGED <<lock, sold>> /\ BindingsSame
    BY <1>5, <1>c, <2>0 DEF Pending
  <2> HIDE DEF o
  <2>4. QED BY <1>a, <2>1, <2>2, <2>3, MovesLemma
<1>6. ASSUME NEW a \in Attempts, Status(a) PROVE Effect
  <2> DEFINE o == Aged(a, now, attempt[a].outcome)
  <2>1. attempt[a].outcome \in Outcomes \ {"none"} /\ Exists(a)
    BY <1>a, <1>6 DEF Status, TypeOK, Exists
  <2>2. /\ o \in Outcomes \ {"none"}
        /\ attempt[a].outcome \in Terminal => o = attempt[a].outcome
        /\ o = "bound" => attempt[a].outcome = "bound"
    BY <2>1, AgedTyped
  <2>3. "bound" \in Terminal
    BY DEF Terminal
  <2>4. (o = "bound" <=> attempt[a].outcome = "bound") /\ (Open(a) \/ o \in Terminal)
    BY <2>1, <2>2, <2>3 DEF Open
  <2>5. attempt' = [attempt EXCEPT ![a].outcome = o] /\ UNCHANGED <<lock, sold>> /\ BindingsSame
    BY <1>6, <1>c DEF Status
  <2> HIDE DEF o
  <2>6. QED BY <1>a, <2>1, <2>2, <2>4, <2>5, MovesLemma
<1>7. ASSUME NEW t \in Txs, Purchased(t) PROVE Effect
  <2>1. BindingsSame
    BY <1>7, <1>a DEF Purchased, BindingsSame, TypeOK
  <2>2. QED BY <1>7, <2>1 DEF Purchased, Effect, Idles
<1>8. ASSUME NEW ts \in SUBSET Txs, IdentityConflict(ts) PROVE Effect
  <2>1. BindingsSame
    <3>1. \A t \in Txs : \/ fact'[t] = fact[t]
                        \/ fact'[t] = [fact[t] EXCEPT !.conflict = TRUE,
                                         !.status = "reconciliation_required",
                                         !.reason = "identity_conflict"]
      BY <1>8, Zenon DEF IdentityConflict
    <3>2. \A x \in Facts : [x EXCEPT !.conflict = TRUE, !.status = "reconciliation_required",
                                   !.reason = "identity_conflict"].bound = x.bound
      BY DEF Facts
    <3>3. \A t \in Txs : fact[t] \in Facts
      BY <1>a DEF TypeOK, Facts
    <3>4. QED BY <3>1, <3>2, <3>3 DEF BindingsSame
  <2>2. UNCHANGED <<attempt, lock, sold>>
    BY <1>8 DEF IdentityConflict
  <2>3. QED BY <2>1, <2>2 DEF Effect, Idles
<1>9. ASSUME NEW t \in Txs, Resolve(t) PROVE Effect
  <2> DEFINE M == {a \in Attempts : attempt[a].candidate = t}
  <2>1. PICK s \in Sampled : ResolveWith(t, M, FALSE, s)
    BY <1>9 DEF Resolve
  <2>2. M \in SUBSET Attempts /\ \A a \in M : attempt[a].candidate = t
    OBVIOUS
  <2>3. UNCHANGED <<now, user, case, sold>> /\ fact[t].bound = None
    BY <1>9 DEF Resolve, Unresolved
  <2> HIDE DEF M
  <2>4. QED BY <2>1, <2>2, <2>3, ResolverEffect
<1>10. ASSUME NEW t \in Txs, NEW a \in Attempts, OperatorBind(t, a) PROVE Effect
  <2>1. /\ ResolveWith(t, {a}, TRUE, now) /\ UNCHANGED <<now, user, case, sold>>
        /\ fact[t].bound = None /\ sold[t].by = a
    BY <1>10 DEF OperatorBind, Unresolved
  <2>2. {a} \in SUBSET Attempts /\ \A x \in {a} : sold[t].by = x
    BY <2>1
  <2>3. QED BY <2>1, <2>2, ResolverEffect
<1>11. ASSUME NEW a \in Attempts, NEW release \in BOOLEAN, OperatorClose(a, release) PROVE Effect
  <2>1. "closed_unresolved" \in Outcomes \ {"none"} /\ "closed_unresolved" \in Terminal
    BY DEF Outcomes, Terminal
  <2>2. Exists(a) /\ attempt[a].outcome # "bound"
    BY <1>11, <1>a DEF OperatorClose, Closable, OutcomeTells
  <2>3. BindingsSame
    <3>1. fact' = fact \/ \E t \in Txs : fact' = [fact EXCEPT ![t].status = "closed_unresolved"]
      BY <1>11 DEF OperatorClose
    <3>2. QED BY <3>1, <1>a DEF BindingsSame, TypeOK
  <2>4. /\ attempt' = [attempt EXCEPT ![a].outcome = "closed_unresolved"]
        /\ lock' = lock \/ (lock' = None /\ lock = a)
        /\ UNCHANGED sold
    BY <1>11 DEF OperatorClose
  <2>5. QED BY <1>a, <2>1, <2>2, <2>3, <2>4, MovesLemma
<1>12. ASSUME NEW a \in Attempts, PurgeExpire(a) PROVE Effect
  <2>1. "expired_unresolved" \in Outcomes \ {"none"} /\ "expired_unresolved" \in Terminal
    BY DEF Outcomes, Terminal
  <2>2. CASE /\ Open(a) /\ attempt' = [attempt EXCEPT ![a].outcome = "expired_unresolved"]
             /\ fact' = fact
    <3>1. Exists(a) /\ attempt[a].outcome # "bound" /\ UNCHANGED <<lock, sold>> /\ BindingsSame
      BY <1>12, <1>c, <2>2 DEF PurgeExpire, Open, Terminal
    <3>2. QED BY <1>a, <2>1, <2>2, <3>1, MovesLemma
  <2>3. ASSUME NEW t \in Txs, fact' = [fact EXCEPT ![t].status = "expired_unresolved"],
               attempt' = attempt
        PROVE  Effect
    <3>1. BindingsSame
      BY <2>3, <1>a DEF BindingsSame, TypeOK
    <3>2. QED BY <1>12, <2>3, <3>1 DEF PurgeExpire, Effect, Idles
  <2>4. QED BY <1>12, <2>2, <2>3 DEF PurgeExpire
<1>13. ASSUME NEW a \in Attempts, NEW t \in Txs, Sell(a, t) PROVE Effect
  <2>1. Sells(a, t)
    <3>1. sold' = [sold EXCEPT ![t] = [by |-> a, at |-> now]] /\ UNCHANGED <<attempt, lock, fact>>
      BY <1>13 DEF Sell
    <3>2. sold'[t].by = a /\ \A u \in Txs \ {t} : sold'[u].by = sold[u].by
      BY <1>a, <3>1 DEF TypeOK
    <3>3. Started(a) /\ sold[t].by = None /\ \A u \in Txs : sold[u].by # a
      BY <1>13 DEF Sell
    <3>4. QED BY <1>c, <3>1, <3>2, <3>3 DEF Sells
  <2>2. QED BY <2>1 DEF Effect
<1>14. CASE ContactVerified \/ DeleteAccount \/ Tick
  <2>1. UNCHANGED <<attempt, lock, sold>> /\ BindingsSame
    BY <1>14, <1>c DEF ContactVerified, DeleteAccount, Tick
  <2>2. QED BY <2>1 DEF Effect, Idles
<1>15. CASE UNCHANGED vars
  BY <1>15, <1>c DEF vars, Effect, Idles
<1>16. QED
  BY <1>1, <1>2, <1>3, <1>4, <1>5, <1>6, <1>7, <1>8, <1>9, <1>10, <1>11, <1>12, <1>13, <1>14,
     <1>15 DEF Next, Client, Operator

-----------------------------------------------------------------------------
(* Every effect keeps the invariant *)

\* The clock may go on, a fact be noted, the account change.
LEMMA IdlesKeeps == PInv /\ TypeOK' /\ Idles => PInv'
<1> SUFFICES ASSUME PInv, TypeOK', Idles PROVE PInv'
  OBVIOUS
<1>1. /\ attempt' = attempt /\ lock' = lock /\ sold' = sold
      /\ \A t \in Txs : fact'[t].bound = fact[t].bound
  BY DEF Idles, BindingsSame
<1>2. LockAndBindingsAgree'
  BY <1>1 DEF PInv, LockAndBindingsAgree, OpenAttemptOwnsLock, BindingIsMutual, Open, Exists
<1>3. OutcomeTells' /\ Sales' /\ OperatorsKnow'
  BY <1>1 DEF PInv, OutcomeTells, Sales, OperatorsKnow, Started
<1>4. Begun'
  BY <1>1 DEF PInv, Begun, Exists
<1>5. (ReportedOnce => StrayReportsShow)'
  BY <1>1 DEF PInv, ReportedOnce, StrayReportsShow, StrayReport, Lost, Open, Exists, Started
<1>6. QED BY <1>2, <1>3, <1>4, <1>5 DEF PInv

\* A consent finds no other attempt open.
LEMMA OpensKeeps ==
  ASSUME PInv, TypeOK', NEW a \in Attempts, Opens(a) PROVE PInv'
<1>t. TypeOK /\ Begun
  BY DEF PInv
<1>1. /\ attempt'[a].outcome = "accepted"
      /\ attempt'[a].initiated = None /\ attempt'[a].candidate = None
      /\ attempt'[a].bound = None
  BY DEF Opens, Becomes, NoAttempt
<1>2. /\ \A b \in Attempts \ {a} : attempt'[b] = attempt[b]
      /\ ~Exists(a) /\ attempt[a] = NoAttempt
      /\ lock = None /\ lock' = a /\ sold' = sold
      /\ \A t \in Txs : fact'[t].bound = fact[t].bound
  BY <1>t DEF Opens, Becomes, BindingsSame, Begun
<1>3. attempt[a].bound = None /\ attempt[a].candidate = None /\ attempt[a].initiated = None
  BY <1>2 DEF NoAttempt
<1>4. \A b \in Attempts : ~Open(b)
  BY <1>2, NoneAssumption DEF PInv, LockAndBindingsAgree, OpenAttemptOwnsLock
<1>5. \A b \in Attempts : (Open(b)' <=> b = a) /\ (Exists(b)' <=> b = a \/ Exists(b))
  BY <1>1, <1>2, <1>4 DEF Open, Exists, Terminal
<1>6. OpenAttemptOwnsLock'
  BY <1>2, <1>5 DEF OpenAttemptOwnsLock
<1>7. BindingIsMutual'
  BY <1>1, <1>2, <1>3 DEF PInv, LockAndBindingsAgree, BindingIsMutual
<1>8. OutcomeTells' /\ Begun'
  BY <1>1, <1>2, <1>5, <1>t DEF PInv, OutcomeTells, Begun, Exists
<1>10. \A t \in Txs : sold[t].by # a
  BY <1>3, NoneAssumption DEF PInv, Sales, Started
<1>11. Sales'
  <2>1. /\ sold' = sold /\ Sales
        /\ \A b \in Attempts : b # a => Started(b)' = Started(b)
    BY <1>1, <1>2 DEF PInv, Started
  <2>2. \A t \in Txs : sold[t].by # None => Started(sold[t].by)'
    <3>1. \A t \in Txs : sold[t].by # None => sold[t].by \in Attempts \ {a}
      BY <1>10, <1>t DEF TypeOK
    <3>2. QED BY <2>1, <3>1 DEF Sales
  <2>3. \A b \in Attempts, t \in Txs : attempt'[b].candidate = t => sold[t].by # None
    <3>1. \A t \in Txs : attempt'[a].candidate # t
      BY <1>1, <1>3, NoneAssumption
    <3>2. QED BY <1>2, <2>1, <3>1 DEF Sales
  <2>4. QED BY <2>1, <2>2, <2>3 DEF Sales
<1>12. OperatorsKnow'
  BY <1>1, <1>2, <1>3, NoneAssumption DEF PInv, OperatorsKnow
<1>13. (ReportedOnce => StrayReportsShow)'
  <2> SUFFICES ASSUME ReportedOnce' PROVE StrayReportsShow'
    OBVIOUS
  <2>1. ReportedOnce
    BY <1>1, <1>2, <1>3 DEF ReportedOnce
  <2>3. \A d \in Attempts : Lost(d) => d # a /\ Lost(d)'
    BY <1>2, <1>3, <1>5 DEF Lost, Started
  <2>4. StrayReportsShow'
    <3> SUFFICES ASSUME NEW b \in Attempts, NEW t \in Txs, attempt'[b].candidate = t,
                        sold'[t].by # b
                 PROVE  StrayReport(b, t)'
      BY DEF StrayReportsShow
    <3>1. b # a /\ attempt[b].candidate = t /\ sold[t].by # b /\ sold[t].by \in Attempts \ {a}
      <4>1. b # a /\ t # None
        BY <1>1, NoneAssumption
      <4>2. attempt[b].candidate = t /\ sold'[t].by = sold[t].by
        BY <1>2, <4>1
      <4>3. sold[t].by # None /\ sold[t].by # a
        BY <1>10, <4>2 DEF PInv, Sales
      <4>4. sold[t].by \in Attempts \cup {None}
        BY <1>t DEF TypeOK
      <4>5. QED BY <4>1, <4>2, <4>3, <4>4
    <3>2. StrayReport(b, t)
      BY <2>1, <3>1 DEF PInv, StrayReportsShow
    <3> DEFINE c == sold[t].by
    <3>3. sold'[t].by = c /\ c \in Attempts \ {a} /\ attempt'[c] = attempt[c] /\ attempt'[b] = attempt[b]
      BY <1>2, <3>1
    <3>5. CASE \E d \in Attempts : Lost(d)
      BY <2>3, <3>5 DEF StrayReport
    <3>6. CASE attempt[b].bound \notin {None, t} /\ Started(c) /\ attempt[c].bound = None
               /\ attempt[c].candidate = None
      BY <3>3, <3>6 DEF StrayReport, Started
    <3>7. QED BY <3>2, <3>5, <3>6 DEF StrayReport
  <2>5. QED BY <2>4
<1>14. QED BY <1>6, <1>7, <1>8, <1>11, <1>12, <1>13 DEF PInv, LockAndBindingsAgree

\* What opens a sheet, and what writes an outcome, leave reports, bindings and
\* sales alone; what was lost stays lost.
LEMMA RestKeeps ==
  ASSUME PInv, TypeOK', sold' = sold, BindingsSame,
         \A b \in Attempts : /\ attempt'[b].candidate = attempt[b].candidate
                             /\ attempt'[b].bound = attempt[b].bound
                             /\ Exists(b)' <=> Exists(b)
                             /\ Open(b)' => Open(b)
                             /\ Started(b) => Started(b)',
         OutcomeTells', OpenAttemptOwnsLock',
         \A b \in Attempts : ~Exists(b)' => attempt'[b] = NoAttempt
  PROVE  PInv'
<1>1. BindingIsMutual' /\ Begun' /\ OperatorsKnow'
  BY DEF PInv, LockAndBindingsAgree, BindingIsMutual, Begun, OperatorsKnow, BindingsSame
<1>2. Sales'
  BY NoneAssumption DEF PInv, Sales, TypeOK
<1>4. (ReportedOnce => StrayReportsShow)'
  <2> SUFFICES ASSUME ReportedOnce' PROVE StrayReportsShow'
    OBVIOUS
  <2>1. ReportedOnce
    BY DEF ReportedOnce
  <2>3. \A d \in Attempts : Lost(d) => Lost(d)'
    BY DEF Lost
  <2>4. StrayReportsShow'
    <3> SUFFICES ASSUME NEW b \in Attempts, NEW t \in Txs, attempt'[b].candidate = t,
                        sold'[t].by # b
                 PROVE  StrayReport(b, t)'
      BY DEF StrayReportsShow
    <3> DEFINE c == sold[t].by
    <3>1. sold'[t].by = c /\ c \in Attempts
      BY NoneAssumption DEF PInv, Sales, TypeOK
    <3>2. StrayReport(b, t)
      BY <2>1 DEF PInv, StrayReportsShow
    <3>3. CASE \E d \in Attempts : Lost(d)
      BY <2>3, <3>3 DEF StrayReport
    <3>4. CASE attempt[b].bound \notin {None, t} /\ Started(c) /\ attempt[c].bound = None
               /\ attempt[c].candidate = None
      BY <3>1, <3>4 DEF StrayReport
    <3>5. QED BY <3>2, <3>3, <3>4 DEF StrayReport
  <2>5. QED BY <2>4
<1>5. QED BY <1>1, <1>2, <1>4 DEF PInv, LockAndBindingsAgree

\* A claim marks the open attempt.
LEMMA StartsKeeps ==
  ASSUME PInv, TypeOK', NEW a \in Attempts, Starts(a) PROVE PInv'
<1>t. TypeOK /\ Begun
  BY DEF PInv
<1>d. attempt[a] \in Documents
  BY <1>t DEF TypeOK, Documents
<1>0. PICK s \in Time : Becomes(a, [attempt[a] EXCEPT !.initiated = s, !.outcome = "initiated"])
  BY DEF Starts
<1>s. s # None
  BY NoneAssumption DEF Time
<1>1. /\ attempt'[a] = [attempt[a] EXCEPT !.initiated = s, !.outcome = "initiated"]
      /\ \A b \in Attempts \ {a} : attempt'[b] = attempt[b]
      /\ Open(a) /\ lock' = lock /\ sold' = sold /\ BindingsSame
  BY <1>0 DEF Starts, Becomes
<1>2. /\ attempt'[a].outcome = "initiated" /\ attempt'[a].initiated = s
      /\ attempt'[a].candidate = attempt[a].candidate /\ attempt'[a].bound = attempt[a].bound
  BY <1>1, <1>d DEF Documents
<1>3. Exists(a) /\ Exists(a)' /\ Open(a)' /\ Started(a)' /\ attempt[a].outcome # "bound"
  BY <1>1, <1>2, <1>s DEF Exists, Open, Terminal, Started
<1>4. \A b \in Attempts : /\ attempt'[b].candidate = attempt[b].candidate
                          /\ attempt'[b].bound = attempt[b].bound
                          /\ Exists(b)' <=> Exists(b)
                          /\ Open(b)' <=> Open(b)
                          /\ Started(b) => Started(b)'
  <2> TAKE b \in Attempts
  <2>1. CASE b = a
    BY <1>1, <1>2, <1>3, <2>1 DEF Started
  <2>2. CASE b # a
    <3>1. attempt'[b] = attempt[b]
      BY <1>1, <2>2
    <3>2. QED BY <3>1 DEF Exists, Open, Started
  <2>3. QED BY <2>1, <2>2
<1>5. OutcomeTells' /\ OpenAttemptOwnsLock'
  <2>1. \A b \in Attempts : attempt[b].bound # None <=> attempt[b].outcome = "bound"
    BY DEF PInv, OutcomeTells
  <2>2. \A b \in Attempts : attempt'[b].bound # None <=> attempt'[b].outcome = "bound"
    <3> TAKE b \in Attempts
    <3>1. CASE b = a
      BY <1>2, <1>3, <2>1, <3>1
    <3>2. CASE b # a
      BY <1>1, <2>1, <3>2
    <3>3. QED BY <3>1, <3>2
  <2>3. OpenAttemptOwnsLock'
    BY <1>1, <1>4 DEF PInv, LockAndBindingsAgree, OpenAttemptOwnsLock
  <2>4. QED BY <2>2, <2>3 DEF OutcomeTells
<1>6. \A b \in Attempts : ~Exists(b)' => attempt'[b] = NoAttempt
  <2> SUFFICES ASSUME NEW b \in Attempts, ~Exists(b)' PROVE attempt'[b] = NoAttempt
    OBVIOUS
  <2>1. b # a /\ ~Exists(b)
    BY <1>3, <1>4
  <2>2. QED BY <1>1, <1>t, <2>1 DEF Begun
<1>7. QED BY <1>1, <1>4, <1>5, <1>6, RestKeeps

\* An outcome is written; an attempt that is closed may be lost from then on.
LEMMA MovesKeeps ==
  ASSUME PInv, TypeOK', NEW a \in Attempts, NEW o \in Outcomes, Moves(a, o) PROVE PInv'
<1>t. TypeOK /\ Begun
  BY DEF PInv
<1>d. attempt[a] \in Documents
  BY <1>t DEF TypeOK, Documents
<1>1. /\ attempt'[a] = [attempt[a] EXCEPT !.outcome = o]
      /\ \A b \in Attempts \ {a} : attempt'[b] = attempt[b]
      /\ Exists(a) /\ o # "none" /\ sold' = sold /\ BindingsSame
      /\ o = "bound" <=> attempt[a].outcome = "bound"
      /\ ~Open(a) => o \in Terminal
      /\ lock' = lock \/ (lock' = None /\ lock = a /\ o \in Terminal)
  BY DEF Moves, Becomes
<1>2. /\ attempt'[a].outcome = o /\ attempt'[a].initiated = attempt[a].initiated
      /\ attempt'[a].candidate = attempt[a].candidate /\ attempt'[a].bound = attempt[a].bound
  BY <1>1, <1>d DEF Documents
<1>3. Exists(a)' /\ (Open(a)' <=> o \notin Terminal)
  BY <1>1, <1>2 DEF Exists, Open
<1>4. \A b \in Attempts : /\ attempt'[b].candidate = attempt[b].candidate
                          /\ attempt'[b].bound = attempt[b].bound
                          /\ Exists(b)' <=> Exists(b)
                          /\ Open(b)' => Open(b)
                          /\ Started(b) => Started(b)'
  <2> TAKE b \in Attempts
  <2>1. CASE b = a
    BY <1>1, <1>2, <1>3, <2>1 DEF Started
  <2>2. CASE b # a
    <3>1. attempt'[b] = attempt[b]
      BY <1>1, <2>2
    <3>2. QED BY <3>1 DEF Exists, Open, Started
  <2>3. QED BY <2>1, <2>2
<1>5. OutcomeTells'
  <2>1. \A b \in Attempts : attempt[b].bound # None <=> attempt[b].outcome = "bound"
    BY DEF PInv, OutcomeTells
  <2>2. \A b \in Attempts : attempt'[b].bound # None <=> attempt'[b].outcome = "bound"
    <3> TAKE b \in Attempts
    <3>1. CASE b = a
      BY <1>1, <1>2, <2>1, <3>1
    <3>2. CASE b # a
      BY <1>1, <2>1, <3>2
    <3>3. QED BY <3>1, <3>2
  <2>3. QED BY <2>2 DEF OutcomeTells
<1>6. OpenAttemptOwnsLock'
  BY <1>1, <1>3, <1>4 DEF PInv, LockAndBindingsAgree, OpenAttemptOwnsLock
<1>7. \A b \in Attempts : ~Exists(b)' => attempt'[b] = NoAttempt
  <2> SUFFICES ASSUME NEW b \in Attempts, ~Exists(b)' PROVE attempt'[b] = NoAttempt
    OBVIOUS
  <2>1. b # a /\ ~Exists(b)
    BY <1>3, <1>4
  <2>2. QED BY <1>1, <1>t, <2>1 DEF Begun
<1>8. QED BY <1>1, <1>4, <1>5, <1>6, <1>7, RestKeeps

\* The store sells what nobody has reported yet.
LEMMA SellsKeeps ==
  ASSUME PInv, TypeOK', NEW a \in Attempts, NEW t \in Txs, Sells(a, t) PROVE PInv'
<1>t. TypeOK
  BY DEF PInv
<1>1. /\ attempt' = attempt /\ lock' = lock /\ BindingsSame
      /\ Started(a) /\ sold[t].by = None /\ \A u \in Txs : sold[u].by # a
      /\ sold'[t].by = a /\ \A u \in Txs \ {t} : sold'[u].by = sold[u].by
  BY DEF Sells
<1>2. LockAndBindingsAgree'
  BY <1>1 DEF PInv, LockAndBindingsAgree, OpenAttemptOwnsLock, BindingIsMutual, Open, Exists,
              BindingsSame
<1>3. OutcomeTells' /\ Begun'
  BY <1>1 DEF PInv, OutcomeTells, Begun, Exists
<1>4. Sales'
  BY <1>1, NoneAssumption DEF PInv, Sales, Started
<1>5. \A b \in Attempts, u \in Txs : attempt[b].candidate = u => u # t
  BY <1>1 DEF PInv, Sales
<1>6. OperatorsKnow'
  BY <1>1, NoneAssumption DEF PInv, OperatorsKnow
<1>7. (ReportedOnce => StrayReportsShow)'
  <2> SUFFICES ASSUME ReportedOnce PROVE StrayReportsShow'
    BY <1>1 DEF ReportedOnce
  <2>2. StrayReportsShow'
    <3> SUFFICES ASSUME NEW b \in Attempts, NEW u \in Txs, attempt[b].candidate = u,
                        sold'[u].by # b
                 PROVE  StrayReport(b, u)'
      BY <1>1 DEF StrayReportsShow
    <3>1. u # t /\ sold'[u].by = sold[u].by
      BY <1>1, <1>5
    <3>2. StrayReport(b, u)
      BY <3>1 DEF PInv, StrayReportsShow
    <3>3. QED BY <1>1, <3>1, <3>2 DEF StrayReport, Lost, Open, Exists, Started
  <2>3. QED BY <2>2
<1>8. QED BY <1>2, <1>3, <1>4, <1>6, <1>7 DEF PInv

\* Reports and bindings only grow: that a transaction was reported once has
\* been so all along.
LEMMA OnceBefore ==
  ASSUME ReportedOnce',
         \A b \in Attempts : /\ attempt[b].candidate \in {None, attempt'[b].candidate}
                             /\ attempt[b].bound \in {None, attempt'[b].bound}
  PROVE  ReportedOnce
BY DEF ReportedOnce

\* Where an attempt reports what another sold, one is lost, or the other may be.
LEMMA StrayIsSeen ==
  ASSUME PInv, ReportedOnce, NEW b \in Attempts, NEW t \in Txs, sold[t].by # b, sold[t].by # None,
         Open(b) \/ attempt[b].outcome = "bound",
         attempt[sold[t].by].candidate # t, attempt[sold[t].by].bound # t
  PROVE  \/ \E d \in Attempts : Lost(d)
         \/ /\ attempt[b].bound # None
            /\ Started(sold[t].by) /\ attempt[sold[t].by].bound = None
            /\ attempt[sold[t].by].candidate = None
<1> DEFINE c == sold[t].by
<1>t. TypeOK /\ Begun
  BY DEF PInv
<1>1. c \in Attempts /\ Started(c)
  BY <1>t, NoneAssumption DEF PInv, Sales, TypeOK
<1>2. ASSUME NEW x \in Txs, attempt[c].bound = x PROVE attempt[c].candidate = x
  \* An operator would have bound what c sold, and that is t.
  <2> SUFFICES ASSUME attempt[c].candidate # x PROVE FALSE
    OBVIOUS
  <2>1. sold[x].by = c
    BY <1>1, <1>2 DEF PInv, OperatorsKnow
  <2>2. x = t
    BY <2>1 DEF PInv, Sales
  <2>3. QED BY <1>2, <2>2
<1>3. CASE attempt[c].candidate = None
  <2>1. attempt[c].bound = None
    BY <1>1, <1>2, <1>3, <1>t, NoneAssumption DEF TypeOK
  <2>2. CASE Open(c)
    <3>1. ~Open(b)
      BY <1>1, <2>2 DEF PInv, LockAndBindingsAgree, OpenAttemptOwnsLock
    <3>2. attempt[b].bound # None
      BY <3>1 DEF PInv, OutcomeTells
    <3>3. QED BY <1>1, <1>3, <2>1, <3>2
  <2>3. CASE ~Open(c)
    BY <1>1, <1>3, <2>1, <2>3 DEF Lost
  <2>4. QED BY <2>2, <2>3
<1>4. CASE attempt[c].candidate # None
  <2>1. PICK y \in Txs : attempt[c].candidate = y
    BY <1>1, <1>4, <1>t DEF TypeOK
  <2>2. y # t /\ sold[y].by # c
    BY <1>1, <2>1 DEF PInv, Sales
  <2>3. StrayReport(c, y)
    BY <1>1, <2>1, <2>2 DEF PInv, StrayReportsShow
  <2>4. attempt[c].bound \in {None, y}
    BY <1>1, <1>2, <1>t, <2>1 DEF TypeOK
  <2>5. QED BY <2>3, <2>4 DEF StrayReport
<1>5. QED BY <1>3, <1>4

\* A report adds at most one stray one.
LEMMA ReportsKeeps ==
  ASSUME PInv, TypeOK', NEW a \in Attempts, NEW t \in Txs, Reports(a, t) PROVE PInv'
<1>t. TypeOK /\ Begun
  BY DEF PInv
<1>d. attempt[a] \in Documents /\ t # None
  BY <1>t, NoneAssumption DEF TypeOK, Documents
<1>1. /\ attempt'[a] = [attempt[a] EXCEPT !.candidate = t]
      /\ \A b \in Attempts \ {a} : attempt'[b] = attempt[b]
      /\ Open(a) \/ attempt[a].outcome = "bound"
      /\ Started(a) /\ sold[t].by # None /\ attempt[a].candidate \in {None, t}
      /\ lock' = lock /\ sold' = sold
      /\ \A u \in Txs : fact'[u].bound = fact[u].bound
  BY DEF Reports, Becomes, BindingsSame
<1>2. /\ attempt'[a].outcome = attempt[a].outcome /\ attempt'[a].initiated = attempt[a].initiated
      /\ attempt'[a].candidate = t /\ attempt'[a].bound = attempt[a].bound
  BY <1>1, <1>d DEF Documents
<1>3. \A b \in Attempts : /\ attempt'[b].outcome = attempt[b].outcome
                          /\ attempt'[b].initiated = attempt[b].initiated
                          /\ attempt'[b].bound = attempt[b].bound
                          /\ attempt'[b].candidate = IF b = a THEN t ELSE attempt[b].candidate
  <2> TAKE b \in Attempts
  <2>1. CASE b = a
    BY <1>2, <2>1
  <2>2. CASE b # a
    BY <1>1, <2>2
  <2>3. QED BY <2>1, <2>2
<1>4. \A b \in Attempts : /\ Exists(b)' <=> Exists(b)
                          /\ Open(b)' <=> Open(b)
                          /\ Started(b)' <=> Started(b)
  BY <1>3 DEF Exists, Open, Started
<1>5. LockAndBindingsAgree' /\ OutcomeTells'
  BY <1>1, <1>3, <1>4 DEF PInv, LockAndBindingsAgree, OpenAttemptOwnsLock, BindingIsMutual,
                          OutcomeTells
<1>6. Begun'
  <2>1. Exists(a)
    BY <1>1, <1>t, StartedExists
  <2>2. QED BY <1>1, <1>3, <1>4, <1>t, <2>1 DEF Begun
<1>b. \A u \in Txs : sold[u].by \in Attempts \cup {None}
  BY <1>t DEF TypeOK
<1>o. sold' = sold /\ Sales
  BY <1>1 DEF PInv
<1>7. Sales'
  <2>1. \A u \in Txs : sold'[u].by # None => attempt'[sold'[u].by].initiated # None
    <3> SUFFICES ASSUME NEW u \in Txs, sold[u].by # None
                 PROVE  attempt'[sold[u].by].initiated # None
      BY <1>o
    <3>1. sold[u].by \in Attempts /\ Started(sold[u].by)
      BY <1>b, <1>o DEF Sales
    <3>2. attempt'[sold[u].by].initiated = attempt[sold[u].by].initiated
      BY <1>3, <3>1
    <3>3. QED BY <3>1, <3>2 DEF Started
  <2>2. \A x, u \in Txs : sold'[x].by = sold'[u].by => x = u \/ sold'[x].by = None
    BY <1>o DEF Sales
  <2>3. \A b \in Attempts, u \in Txs : attempt'[b].candidate = u => sold'[u].by # None
    <3> SUFFICES ASSUME NEW b \in Attempts, NEW u \in Txs, attempt'[b].candidate = u
                 PROVE  sold[u].by # None
      BY <1>o
    <3>1. CASE b = a
      BY <1>1, <1>2, <3>1
    <3>2. CASE b # a
      <4>1. attempt[b].candidate = u
        BY <1>3, <3>2
      <4>2. QED BY <1>o, <4>1 DEF Sales
    <3>3. QED BY <3>1, <3>2
  <2>4. QED BY <2>1, <2>2, <2>3 DEF Sales, Started
<1>8. OperatorsKnow'
  <2> SUFFICES ASSUME NEW b \in Attempts, NEW u \in Txs, attempt[b].bound = u,
                      attempt'[b].candidate # u
               PROVE  sold[u].by = b
    BY <1>1, <1>3 DEF OperatorsKnow
  <2>1. attempt[b].candidate # u
    BY <1>1, <1>3, NoneAssumption
  <2>2. QED BY <2>1 DEF PInv, OperatorsKnow
<1>9. (ReportedOnce => StrayReportsShow)'
  <2> SUFFICES ASSUME ReportedOnce' PROVE StrayReportsShow'
    OBVIOUS
  <2>1. \A b \in Attempts : /\ attempt[b].candidate \in {None, attempt'[b].candidate}
                            /\ attempt[b].bound \in {None, attempt'[b].bound}
    BY <1>1, <1>3
  <2>2. ReportedOnce
    BY <2>1, OnceBefore
  <2>4. \A x \in Attempts \ {a} : attempt[x].candidate # t /\ attempt[x].bound # t
    BY <1>d, <1>3 DEF ReportedOnce
  <2>5. \A d \in Attempts : Lost(d) => Lost(d)'
    <3> SUFFICES ASSUME NEW d \in Attempts, Lost(d) PROVE Lost(d)'
      OBVIOUS
    <3>1. d # a
      BY <1>1 DEF Lost, PInv, OutcomeTells
    <3>2. QED BY <1>3, <1>4, <3>1 DEF Lost
  <2>6. StrayReportsShow'
    <3> SUFFICES ASSUME NEW b \in Attempts, NEW u \in Txs, attempt'[b].candidate = u, sold'[u].by # b
                 PROVE  StrayReport(b, u)'
      BY DEF StrayReportsShow
    <3> DEFINE c == sold[u].by
    <3>1. c \in Attempts /\ sold'[u].by = c /\ c # b /\ c # None
      BY <1>1, <1>7, <1>t, NoneAssumption DEF Sales, TypeOK
    <3>2. \/ \E d \in Attempts : Lost(d)
          \/ /\ attempt[b].bound \notin {None, u}
             /\ Started(c) /\ attempt[c].bound = None /\ attempt[c].candidate = None
      <4>1. CASE attempt[b].candidate # u
        <5>1. b = a /\ u = t
          BY <1>3, <4>1
        <5>2. attempt[c].candidate # t /\ attempt[c].bound # t
          BY <2>4, <3>1, <5>1
        <5>3. attempt[b].bound # u
          BY <3>1, <4>1 DEF PInv, OperatorsKnow
        <5>4. QED BY <1>1, <2>2, <3>1, <5>1, <5>2, <5>3, StrayIsSeen
      <4>2. CASE attempt[b].candidate = u
        <5>1. StrayReport(b, u)
          BY <2>2, <3>1, <4>2 DEF PInv, StrayReportsShow
        <5>2. QED BY <5>1 DEF StrayReport
      <4>3. QED BY <4>1, <4>2
    <3>3. CASE \E d \in Attempts : Lost(d)
      BY <2>5, <3>3 DEF StrayReport
    <3>4. CASE /\ attempt[b].bound \notin {None, u}
               /\ Started(c) /\ attempt[c].bound = None /\ attempt[c].candidate = None
      <4>1. CASE c # a
        BY <1>3, <1>4, <3>1, <3>4, <4>1 DEF StrayReport
      <4>2. CASE c = a
        <5>1. attempt'[b].candidate = u /\ b # a
          BY <3>1, <4>2
        <5>2. u # t
          BY <1>3, <2>4, <5>1
        <5>3. sold[t].by # a
          BY <1>1, <3>1, <4>2, <5>2 DEF PInv, Sales
        <5>4. sold[t].by \in Attempts \ {a}
          BY <1>1, <1>b, <5>3
        <5>5. attempt[sold[t].by].candidate # t /\ attempt[sold[t].by].bound # t
          BY <2>4, <5>4
        <5>6. \E d \in Attempts : Lost(d)
          BY <1>1, <2>2, <3>4, <4>2, <5>3, <5>5, StrayIsSeen
        <5>7. QED BY <2>5, <5>6 DEF StrayReport
      <4>3. QED BY <4>1, <4>2
    <3>5. QED BY <3>2, <3>3, <3>4
  <2>7. QED BY <2>6
<1>10. QED BY <1>5, <1>6, <1>7, <1>8, <1>9 DEF PInv

\* A binding leaves nothing open, and what it binds without a report was sold by
\* that very sheet.
LEMMA BindsKeeps ==
  ASSUME PInv, TypeOK', NEW a \in Attempts, NEW t \in Txs, Binds(a, t) PROVE PInv'
<1>t. TypeOK /\ Begun /\ OutcomeTells /\ OpenAttemptOwnsLock /\ BindingIsMutual
  BY DEF PInv, LockAndBindingsAgree
<1>d. attempt[a] \in Documents /\ t # None /\ a # None
  BY <1>t, NoneAssumption DEF TypeOK, Documents
<1>1. /\ attempt'[a] = [attempt[a] EXCEPT !.bound = t, !.outcome = "bound"]
      /\ \A b \in Attempts \ {a} : attempt'[b] = attempt[b]
      /\ Open(a) /\ Started(a) /\ attempt[a].bound = None /\ fact[t].bound = None
      /\ attempt[a].candidate \in {None, t}
      /\ lock' = None /\ sold' = sold
      /\ fact'[t].bound = a /\ \A u \in Txs \ {t} : fact'[u].bound = fact[u].bound
  BY DEF Binds, Becomes
<1>2. /\ attempt'[a].outcome = "bound" /\ attempt'[a].initiated = attempt[a].initiated
      /\ attempt'[a].accepted = attempt[a].accepted
      /\ attempt'[a].candidate = attempt[a].candidate /\ attempt'[a].bound = t
  BY <1>1, <1>d DEF Documents
<1>3. \A b \in Attempts : /\ attempt'[b].accepted = attempt[b].accepted
                          /\ attempt'[b].candidate = attempt[b].candidate
                          /\ attempt'[b].initiated = attempt[b].initiated
  <2> TAKE b \in Attempts
  <2>1. CASE b = a
    BY <1>2, <2>1
  <2>2. CASE b # a
    BY <1>1, <2>2
  <2>3. QED BY <2>1, <2>2
<1>4. \A b \in Attempts : (Exists(b)' <=> Exists(b)) /\ ~Open(b)'
  <2> TAKE b \in Attempts
  <2>1. CASE b = a
    BY <1>1, <1>2, <2>1 DEF Exists, Open, Terminal
  <2>2. CASE b # a
    <3>1. attempt'[b] = attempt[b] /\ lock = a /\ ~Open(b)
      BY <1>1, <1>t, <2>2 DEF OpenAttemptOwnsLock
    <3>2. QED BY <3>1 DEF Exists, Open
  <2>3. QED BY <2>1, <2>2
<1>5. BindingIsMutual'
  <2> SUFFICES ASSUME NEW b \in Attempts, NEW u \in Txs
               PROVE  attempt'[b].bound = u <=> fact'[u].bound = b
    BY DEF BindingIsMutual
  <2>1. attempt[b].bound = u <=> fact[u].bound = b
    BY <1>t DEF BindingIsMutual
  <2>2. CASE b = a /\ u = t
    BY <1>1, <1>2, <2>2
  <2>3. CASE b = a /\ u # t
    BY <1>1, <1>2, <1>d, NoneAssumption, <2>1, <2>3
  <2>4. CASE b # a /\ u = t
    BY <1>1, <1>2, <1>d, NoneAssumption, <2>1, <2>4
  <2>5. CASE b # a /\ u # t
    BY <1>1, <2>1, <2>5
  <2>6. QED BY <2>2, <2>3, <2>4, <2>5
<1>6. OutcomeTells'
  <2> SUFFICES ASSUME NEW b \in Attempts
               PROVE  attempt'[b].bound # None <=> attempt'[b].outcome = "bound"
    BY DEF OutcomeTells
  <2>1. CASE b = a
    BY <1>2, <1>d, <2>1
  <2>2. CASE b # a
    BY <1>1, <1>t, <2>2 DEF OutcomeTells
  <2>3. QED BY <2>1, <2>2
<1>7. OpenAttemptOwnsLock'
  BY <1>4 DEF OpenAttemptOwnsLock
<1>8. Begun'
  <2> SUFFICES ASSUME NEW b \in Attempts PROVE ~Exists(b)' => attempt'[b] = NoAttempt
    BY DEF Begun
  <2>1. ~Exists(b) => attempt[b] = NoAttempt
    BY <1>t DEF Begun
  <2>2. ~Exists(b) => b # a
    BY <1>1 DEF Open
  <2>3. QED BY <1>1, <1>3, <1>4, <2>1, <2>2
<1>o. sold' = sold /\ Sales
  BY <1>1 DEF PInv
<1>b. \A u \in Txs : sold[u].by \in Attempts \cup {None}
  BY <1>t DEF TypeOK
<1>9. Sales'
  <2>1. \A u \in Txs : sold'[u].by # None => attempt'[sold'[u].by].initiated # None
    BY <1>3, <1>b, <1>o DEF Sales, Started
  <2>2. \A x, u \in Txs : sold'[x].by = sold'[u].by => x = u \/ sold'[x].by = None
    BY <1>o DEF Sales
  <2>3. \A b \in Attempts, u \in Txs : attempt'[b].candidate = u => sold'[u].by # None
    BY <1>3, <1>o DEF Sales
  <2>4. QED BY <2>1, <2>2, <2>3 DEF Sales, Started
<1>10. OperatorsKnow'
  <2> SUFFICES ASSUME NEW b \in Attempts, NEW u \in Txs, attempt'[b].bound = u,
                      attempt'[b].candidate # u
               PROVE  sold[u].by = b
    BY <1>1 DEF OperatorsKnow
  <2>1. CASE b = a
    <3>1. u = t /\ attempt[a].candidate # t
      BY <1>2, <2>1
    <3>2. QED BY <2>1, <3>1 DEF Binds
  <2>2. CASE b # a
    BY <1>1, <2>2 DEF PInv, OperatorsKnow
  <2>3. QED BY <2>1, <2>2
<1>11. (ReportedOnce => StrayReportsShow)'
  <2> SUFFICES ASSUME ReportedOnce' PROVE StrayReportsShow'
    OBVIOUS
  <2>1. \A b \in Attempts : /\ attempt[b].candidate \in {None, attempt'[b].candidate}
                            /\ attempt[b].bound \in {None, attempt'[b].bound}
    BY <1>1, <1>3
  <2>2. ReportedOnce
    BY <2>1, OnceBefore
  <2>6. StrayReportsShow'
    <3> SUFFICES ASSUME NEW b \in Attempts, NEW u \in Txs, attempt'[b].candidate = u, sold'[u].by # b
                 PROVE  StrayReport(b, u)'
      BY DEF StrayReportsShow
    <3> DEFINE c == sold[u].by
    <3>1. attempt[b].candidate = u /\ c # b /\ c \in Attempts /\ sold'[u].by = c
      BY <1>3, <1>b, <1>o DEF Sales
    <3>2. StrayReport(b, u)
      BY <2>2, <3>1 DEF PInv, StrayReportsShow
    <3>3. CASE \E d \in Attempts : Lost(d)
      <4>1. PICK d \in Attempts : Lost(d)
        BY <3>3
      <4>2. d # a
        BY <1>1, <4>1 DEF Lost
      <4>3. attempt'[d] = attempt[d]
        BY <1>1, <4>2
      <4>4. Lost(d)'
        BY <4>1, <4>3 DEF Lost, Started, Open, Exists
      <4>5. QED BY <4>4 DEF StrayReport
    <3>4. CASE /\ attempt[b].bound \notin {None, u}
               /\ Started(c) /\ attempt[c].bound = None /\ attempt[c].candidate = None
      <4>1. b # a /\ attempt'[b] = attempt[b]
        BY <1>1, <3>4
      <4>2. CASE c = a
        \* An operator bound what the sheet of a sold, which b has reported.
        <5>1. attempt[a].candidate # t
          BY <1>d, <3>4, <4>2
        <5>2. sold[t].by = a
          BY <5>1 DEF Binds
        <5>3. u = t
          BY <1>o, <1>d, <4>2, <5>2 DEF Sales
        <5>4. attempt'[a].bound = t /\ attempt'[b].candidate = t
          BY <1>2, <5>3
        <5>5. QED BY <1>d, <4>1, <5>4 DEF ReportedOnce
      <4>3. CASE c # a
        <5>1. attempt'[c] = attempt[c]
          BY <1>1, <3>1, <4>3
        <5>2. QED BY <3>1, <3>4, <4>1, <5>1 DEF StrayReport, Started
      <4>4. QED BY <4>2, <4>3
    <3>5. QED BY <3>2, <3>3, <3>4 DEF StrayReport
  <2>7. QED BY <2>6
<1>12. QED BY <1>5, <1>6, <1>7, <1>8, <1>9, <1>10, <1>11 DEF PInv, LockAndBindingsAgree

-----------------------------------------------------------------------------
(* The invariant, and what follows *)

\* Nothing is there at first.
LEMMA InvariantStart == Init => PInv
<1> SUFFICES ASSUME Init PROVE PInv
  OBVIOUS
<1>1. TypeOK
  BY TypeStart
<1>2. /\ lock = None /\ \A a \in Attempts : attempt[a] = NoAttempt
      /\ \A t \in Txs : fact[t] = NoFact /\ sold[t].by = None
  BY DEF Init
<1>3. \A a \in Attempts : /\ ~Exists(a) /\ ~Open(a) /\ ~Started(a)
                          /\ attempt[a].bound = None /\ attempt[a].candidate = None
                          /\ attempt[a].outcome = "none"
  BY <1>2 DEF Exists, Open, Started, NoAttempt
<1>4. \A t \in Txs : fact[t].bound = None
  BY <1>2 DEF NoFact
<1>5. LockAndBindingsAgree
  BY <1>3, <1>4, NoneAssumption DEF LockAndBindingsAgree, OpenAttemptOwnsLock, BindingIsMutual
<1>6. OutcomeTells /\ Begun
  BY <1>2, <1>3 DEF OutcomeTells, Begun
<1>7. Sales /\ OperatorsKnow /\ StrayReportsShow
  BY <1>2, <1>3, <1>4, NoneAssumption DEF Sales, OperatorsKnow, StrayReportsShow
<1>8. QED BY <1>1, <1>5, <1>6, <1>7 DEF PInv

\* Every effect keeps it.
LEMMA InvariantStep == PInv /\ [Next]_vars => PInv'
<1> SUFFICES ASSUME PInv, [Next]_vars PROVE PInv'
  OBVIOUS
<1>1. TypeOK'
  BY TypeStep DEF PInv
<1>2. Effect
  BY EveryEffect
<1>3. CASE Idles
  BY <1>1, <1>3, IdlesKeeps
<1>4. ASSUME NEW a \in Attempts, Opens(a) \/ Starts(a) \/ \E o \in Outcomes : Moves(a, o)
      PROVE  PInv'
  BY <1>1, <1>4, OpensKeeps, StartsKeeps, MovesKeeps
<1>5. ASSUME NEW a \in Attempts, NEW t \in Txs, Reports(a, t) \/ Binds(a, t) \/ Sells(a, t)
      PROVE  PInv'
  BY <1>1, <1>5, ReportsKeeps, BindsKeeps, SellsKeeps
<1>6. QED BY <1>2, <1>3, <1>4, <1>5 DEF Effect

\* The invariant holds in every state.
LEMMA Invariant == Spec => []PInv
BY InvariantStart, InvariantStep, PTL DEF Spec

\* An attempt that is open owns the lock, attempt and fact name each other
\* (record, command, bind, close): for any number of attempts and transactions.
THEOREM LockAgrees == Spec => []LockAndBindingsAgree
<1>1. PInv => LockAndBindingsAgree
  BY DEF PInv
<1>2. QED BY <1>1, Invariant, PTL

\* What a binding takes was sold by the sheet of the attempt it binds.
BindingIsSold ==
  \A t \in Txs : \A a \in Attempts :
    fact[t].bound = None /\ fact'[t].bound = a /\ ReportedOnce /\ LastAccepted(a) =>
      sold[t].by = a

\* A stray report shows an attempt that is lost, which the resolver sees.
LEMMA BindingStepSold == PInv /\ [Next]_vars => [BindingIsSold]_vars
<1> SUFFICES ASSUME PInv, [Next]_vars, NEW t \in Txs, NEW a \in Attempts, fact[t].bound = None,
                    fact'[t].bound = a, ReportedOnce, LastAccepted(a), sold[t].by # a
             PROVE  FALSE
  BY DEF BindingIsSold
<1>t. TypeOK /\ a # None
  BY NoneAssumption DEF PInv
<1>1. ~BindingsSame
  BY <1>t DEF BindingsSame
<1>2. PICK x \in Attempts, u \in Txs : Binds(x, u)
  BY <1>1, EveryEffect DEF Effect, Idles, Opens, Starts, Moves, Reports, Sells
<1>3. x = a /\ u = t
  BY <1>2, <1>t DEF Binds
<1>4. /\ Open(a) /\ attempt[a].bound = None /\ attempt[a].candidate = t
      /\ \A b \in Attempts : ~Unknown(b, a, t)
  BY <1>2, <1>3 DEF Binds
<1>5. PICK d \in Attempts : Lost(d)
  BY <1>4 DEF PInv, StrayReportsShow, StrayReport
<1>6. d # a /\ attempt[d].accepted <= attempt[a].accepted
  BY <1>4, <1>5 DEF Lost, LastAccepted
<1>7. Unknown(d, a, t)
  BY <1>5, <1>6 DEF Lost, Unknown
<1>8. QED BY <1>4, <1>7

\* resolveInTransaction binds a transaction to the attempt whose sheet sold it,
\* as long as the client reports a transaction under one attempt and none that
\* went to the store was accepted later.  A report under another attempt leaves
\* one lost, which blocks every attempt accepted no earlier.
THEOREM BindsTheSold == Spec => BindsWhatTheSheetSold
BY Invariant, BindingStepSold, PTL DEF Spec, BindsWhatTheSheetSold, BindingIsSold

\* One sheet for a consent.
LEMMA SheetStep ==
  PInv /\ [Next]_vars =>
    [\A a \in Attempts : attempt'[a].initiated # attempt[a].initiated =>
       /\ attempt[a].initiated = None
       /\ \A b \in Attempts \ {a} : ~Open(b)]_vars
<1> SUFFICES ASSUME PInv, [Next]_vars, NEW a \in Attempts,
                    attempt'[a].initiated # attempt[a].initiated
             PROVE  attempt[a].initiated = None /\ \A b \in Attempts \ {a} : ~Open(b)
  OBVIOUS
<1>1. TypeOK /\ Begun /\ \A x \in Attempts : Open(x) => lock = x
  BY DEF PInv, LockAndBindingsAgree, OpenAttemptOwnsLock
<1>2. \A x \in Attempts : attempt[x] \in Documents
  BY <1>1 DEF TypeOK, Documents
<1>3. Effect
  BY EveryEffect
<1>4. ~Idles /\ \A x \in Attempts, t \in Txs : ~Sells(x, t)
  BY DEF Idles, Sells
<1>5. ASSUME NEW x \in Attempts, NEW o \in Outcomes, Moves(x, o) PROVE FALSE
  <2>1. x # a => attempt'[a] = attempt[a]
    BY <1>5 DEF Moves, Becomes
  <2>2. attempt'[x] = [attempt[x] EXCEPT !.outcome = o]
    BY <1>5 DEF Moves, Becomes
  <2>3. attempt'[x].initiated = attempt[x].initiated
    BY <1>2, <2>2 DEF Documents
  <2>4. QED BY <2>1, <2>3
<1>6. ASSUME NEW x \in Attempts, NEW t \in Txs, Reports(x, t) \/ Binds(x, t) PROVE FALSE
  <2>1. x # a => attempt'[a] = attempt[a]
    BY <1>6 DEF Reports, Binds, Becomes
  <2>2. \/ attempt'[x] = [attempt[x] EXCEPT !.candidate = t]
        \/ attempt'[x] = [attempt[x] EXCEPT !.bound = t, !.outcome = "bound"]
    BY <1>6 DEF Reports, Binds, Becomes
  <2>3. attempt'[x].initiated = attempt[x].initiated
    BY <1>2, <2>2 DEF Documents
  <2>4. QED BY <2>1, <2>3
<1>7. ASSUME NEW x \in Attempts, Opens(x) PROVE FALSE
  <2>1. x # a => attempt'[a] = attempt[a]
    BY <1>7 DEF Opens, Becomes
  <2>2. attempt'[x].initiated = None /\ attempt[x] = NoAttempt
    BY <1>1, <1>7 DEF Opens, Becomes, NoAttempt, Begun
  <2>3. QED BY <2>1, <2>2 DEF NoAttempt
<1>8. ASSUME NEW x \in Attempts, Starts(x)
      PROVE  attempt[a].initiated = None /\ \A b \in Attempts \ {a} : ~Open(b)
  <2>1. x = a
    BY <1>8 DEF Starts, Becomes
  <2>2. Open(a) /\ ~Started(a)
    BY <1>8, <2>1 DEF Starts
  <2>3. QED BY <1>1, <2>2 DEF Started
<1>9. QED BY <1>3, <1>4, <1>5, <1>6, <1>7, <1>8 DEF Effect

\* A binding stays.
LEMMA BindingStep ==
  PInv /\ [Next]_vars =>
    [\A a \in Attempts : attempt[a].bound # None =>
       attempt'[a].bound = attempt[a].bound /\ attempt'[a].outcome = "bound"]_vars
<1> SUFFICES ASSUME PInv, [Next]_vars, NEW a \in Attempts, attempt[a].bound # None
             PROVE  attempt'[a].bound = attempt[a].bound /\ attempt'[a].outcome = "bound"
  OBVIOUS
<1>1. TypeOK /\ Begun /\ attempt[a].outcome = "bound"
  BY DEF PInv, OutcomeTells
<1>2. \A x \in Attempts : attempt[x] \in Documents
  BY <1>1 DEF TypeOK, Documents
<1>3. Effect
  BY EveryEffect
<1>4. ~Open(a) /\ Exists(a)
  BY <1>1 DEF Open, Exists, Terminal
<1>5. CASE Idles \/ \E x \in Attempts, t \in Txs : Sells(x, t)
  BY <1>1, <1>5 DEF Idles, Sells
<1>6. ASSUME NEW x \in Attempts, NEW o \in Outcomes, Moves(x, o)
      PROVE  attempt'[a].bound = attempt[a].bound /\ attempt'[a].outcome = "bound"
  <2>1. CASE x # a
    BY <1>1, <1>6, <2>1 DEF Moves, Becomes
  <2>2. CASE x = a
    <3>1. o = "bound" /\ attempt'[a] = [attempt[a] EXCEPT !.outcome = o]
      BY <1>1, <1>6, <2>2 DEF Moves, Becomes
    <3>2. QED BY <1>2, <3>1 DEF Documents
  <2>3. QED BY <2>1, <2>2
<1>7. ASSUME NEW x \in Attempts, NEW t \in Txs, Reports(x, t)
      PROVE  attempt'[a].bound = attempt[a].bound /\ attempt'[a].outcome = "bound"
  <2>1. CASE x # a
    BY <1>1, <1>7, <2>1 DEF Reports, Becomes
  <2>2. CASE x = a
    <3>1. attempt'[a] = [attempt[a] EXCEPT !.candidate = t]
      BY <1>7, <2>2 DEF Reports, Becomes
    <3>2. QED BY <1>1, <1>2, <3>1 DEF Documents
  <2>3. QED BY <2>1, <2>2
<1>8. ASSUME NEW x \in Attempts, NEW t \in Txs, Opens(x) \/ Starts(x) \/ Binds(x, t)
      PROVE  attempt'[a].bound = attempt[a].bound /\ attempt'[a].outcome = "bound"
  <2>1. x # a
    BY <1>4, <1>8 DEF Opens, Starts, Binds
  <2>2. attempt'[a] = attempt[a]
    BY <1>8, <2>1 DEF Opens, Starts, Binds, Becomes
  <2>3. QED BY <1>1, <2>2
<1>9. ASSUME NEW x \in Attempts, Opens(x) \/ Starts(x)
      PROVE  attempt'[a].bound = attempt[a].bound /\ attempt'[a].outcome = "bound"
  <2>1. x # a
    BY <1>4, <1>9 DEF Opens, Starts
  <2>2. attempt'[a] = attempt[a]
    BY <1>9, <2>1 DEF Opens, Starts, Becomes
  <2>3. QED BY <1>1, <2>2
<1>10. QED BY <1>3, <1>5, <1>6, <1>7, <1>8, <1>9 DEF Effect

\* A consent opens its sheet once, alone, and what was paid for stays bound.
THEOREM ConsentsAlwaysStand == Spec => ConsentsStand
BY Invariant, SheetStep, BindingStep, PTL DEF Spec, ConsentsStand, OneSheetAtATime, BindingIsFinal

\* What an account that is deleted does not gain.
NothingAppears ==
  ~Active =>
    /\ \A t \in Txs : fact[t].status = "none" => fact'[t].status = "none"
    /\ \A a \in Attempts : /\ case[a] = "none" => case'[a] = "none"
                           /\ attempt[a].outcome = "none" => attempt'[a].outcome = "none"
    /\ lock' = lock

\* No step adds to a deleted account.
LEMMA DeletedStep == TypeOK /\ [Next]_vars => [NothingAppears]_vars
<1> SUFFICES ASSUME TypeOK, [Next]_vars, ~Active PROVE NothingAppears
  BY DEF NothingAppears
<1>1. CASE UNCHANGED vars
  BY <1>1 DEF vars, NothingAppears
<1>2. ASSUME NEW a \in Attempts, PurgeExpire(a) PROVE NothingAppears
  <2>1. lock' = lock /\ case' = case
    BY <1>2 DEF PurgeExpire
  <2>2. \A t \in Txs : fact[t].status = "none" => fact'[t].status = "none"
    BY <1>2 DEF PurgeExpire, TypeOK
  <2>3. \A b \in Attempts : attempt[b].outcome = "none" => attempt'[b].outcome = "none"
    BY <1>2 DEF PurgeExpire, TypeOK, Exists
  <2>4. QED BY <2>1, <2>2, <2>3 DEF NothingAppears
<1>3. ASSUME NEW ts \in SUBSET Txs, IdentityConflict(ts) PROVE NothingAppears
  BY <1>3 DEF IdentityConflict, NothingAppears
<1>4. ASSUME NEW a \in Attempts, Client(a) \/ Operator(a) PROVE FALSE
  BY <1>4 DEF Client, Operator, Record, Claim, Cancel, Pending, Status, Candidate, OperatorBind,
              OperatorClose, Closable
<1>5. ASSUME NEW t \in Txs, Purchased(t) \/ Resolve(t) PROVE FALSE
  BY <1>5 DEF Purchased, EventAccepted, Resolve
<1>6. CASE \/ \E a \in Attempts, t \in Txs : Sell(a, t)
           \/ ContactVerified \/ DeleteAccount \/ Tick
  BY <1>6 DEF Sell, ContactVerified, DeleteAccount, Tick, Active
<1>7. QED BY <1>1, <1>2, <1>3, <1>4, <1>5, <1>6 DEF Next

\* Events, requests and operators add no document, no case and no lock to an
\* account that is deleted.
THEOREM NothingIsAddedAfterDeletion == Spec => NothingAppearsAfterDeletion
<1>1. PInv => TypeOK
  BY DEF PInv
<1>2. QED BY <1>1, Invariant, DeletedStep, PTL DEF Spec, NothingAppearsAfterDeletion, NothingAppears
=============================================================================
