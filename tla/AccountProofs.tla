----------------------------- MODULE AccountProofs -----------------------------
(***************************************************************************)
(* What holds of the parts of an account's API, for any handlers and any   *)
(* times: the revocation of sessions, the operators' audit trail, the      *)
(* content packages, the erasing of a restored database, the exports, and  *)
(* the routes.                                                             *)
(***************************************************************************)
EXTENDS MCAccount, FiniteSetTheorems, NaturalsInduction, WellFoundedInduction, SequenceTheorems,
        TLAPS

-----------------------------------------------------------------------------
(* Revocations: one on record is one that happened, it happens once for an *)
(* operation id, and none is recorded once the account goes.               *)

\* Only the handler whose claim holds the slot can have its answer recorded, and
\* when Firebase has answered it the sessions its claim found are gone.
AnswersAreGood ==
  \A w \in Workers :
    call[w].pc = "revoked" /\ Claimed(w) => revocation[call[w].op].before \cap live = {}

\* A record that is there was made late enough for its id, and not in the future.
RecordsAreTimely ==
  \A o \in Operations :
    /\ revocation[o].at <= clock
    /\ o \notin Legacy /\ revocation[o].status # "none" =>
         Issued[o] <= revocation[o].at + Skew

\* The id of a collected record is too old to be used for the first time.
CollectedIsTooOld ==
  \A o \in finished :
    revocation[o].status = "none" => o \in Legacy \/ Issued[o] + FirstUse < clock

RInv ==
  /\ RevocationTypeOK /\ AnswersAreGood /\ RevokedIsRevoked
  /\ RecordsAreTimely /\ CollectedIsTooOld /\ RevokesOnce

-----------------------------------------------------------------------------

Handlers == [pc: {"idle", "revoke", "revoked", "failed", "check", "mint", "recheck"},
             op: Operations \cup {None}]
Records  == [status: {"none", "pending", "failed", "revoked"},
             at: Nat, legacy: BOOLEAN, before: SUBSET Sessions]

\* The documents the module writes are well formed.
LEMMA NoSlotTyped == NoSlot \in Slots
BY DEF Slots, NoSlot

LEMMA SlotTyped ==
  ASSUME NEW x \in Slots
  PROVE  /\ [x EXCEPT !.leased = FALSE] \in Slots
         /\ [x EXCEPT !.kind = "recovery", !.leased = TRUE] \in Slots
         /\ [x EXCEPT !.kind = "account_delete", !.leased = TRUE] \in Slots
BY DEF Slots

LEMMA AbsentTyped ==
  /\ Absent \in Records
  /\ [Absent EXCEPT !.status = "revoked", !.legacy = TRUE] \in Records
<1>1. Absent \in Records
  BY DEF Absent, Records
<1>2. \A x \in Records : [x EXCEPT !.status = "revoked", !.legacy = TRUE] \in Records
  BY DEF Records
<1>3. QED BY <1>1, <1>2

\* The initial states are well typed.
LEMMA TypeStart == RevocationInit => RevocationTypeOK
<1> SUFFICES ASSUME RevocationInit PROVE RevocationTypeOK
  OBVIOUS
<1>1. slot \in Slots
  BY NoSlotTyped, SlotTyped DEF RevocationInit
<1>2. revocation \in [Operations -> Records]
  BY AbsentTyped DEF RevocationInit
<1>3. call = [w \in Workers |-> [pc |-> "idle", op |-> None]]
  BY DEF RevocationInit, Resting
<1>4. /\ user = "active" /\ recovery \in {"none", "pending"} /\ live \in SUBSET Sessions
      /\ clock = 0 /\ handed = FALSE /\ finished \in SUBSET Operations
  BY RevocationAssumption DEF RevocationInit
<1>5. QED BY <1>1, <1>2, <1>3, <1>4 DEF RevocationTypeOK, Records

\* Every step keeps documents and handlers well formed.
LEMMA TypeStep == RevocationTypeOK /\ [RevocationNext]_revocationVars => RevocationTypeOK'
<1> SUFFICES ASSUME RevocationTypeOK, [RevocationNext]_revocationVars
             PROVE  RevocationTypeOK'
  OBVIOUS
<1> USE DEF RevocationTypeOK
<1>1. ASSUME NEW w \in Workers, NEW o \in Operations, RevocationClaim(w, o)
      PROVE  RevocationTypeOK'
  <2>1. slot' \in Slots
    BY <1>1 DEF RevocationClaim, Slots
  <2>2. revocation' \in [Operations -> Records]
    <3>1. revocation[o] \in Records
      BY DEF Records
    <3>2. [revocation[o] EXCEPT !.status = "pending", !.at = clock, !.before = live] \in Records
      BY <3>1 DEF Records
    <3>3. QED BY <1>1, <3>2 DEF RevocationClaim, Records
  <2>3. call' = [call EXCEPT ![w] = [pc |-> "revoke", op |-> o]]
    BY <1>1 DEF RevocationClaim
  <2>4. recovery' \in {"none", "pending", "superseded"}
    BY <1>1 DEF RevocationClaim, Superseded
  <2>5. UNCHANGED <<user, live, clock, handed, finished>>
    BY <1>1 DEF RevocationClaim
  <2>6. QED BY <2>1, <2>2, <2>3, <2>4, <2>5 DEF Records
<1>2. ASSUME NEW w \in Workers, NEW o \in Operations, RevocationAgain(w, o)
      PROVE  RevocationTypeOK'
  <2>1. revocation' \in [Operations -> Records]
    <3>1. revocation[o] \in Records
      BY DEF Records
    <3>2. [revocation[o] EXCEPT !.legacy = FALSE] \in Records
      BY <3>1 DEF Records
    <3>3. QED BY <1>2, <3>2 DEF RevocationAgain, Records
  <2>2. call' = call \/ call' = [call EXCEPT ![w] = [pc |-> "check", op |-> o]]
    BY <1>2 DEF RevocationAgain
  <2>3. /\ call' \in [Workers -> Handlers]
        /\ \A v \in Workers : call'[v].pc # "idle" => call'[v].op \in Operations
    <3>1. CASE call' = call
      BY <3>1 DEF Handlers
    <3>2. CASE call' = [call EXCEPT ![w] = [pc |-> "check", op |-> o]]
      BY <3>2 DEF Handlers
    <3>3. QED BY <2>2, <3>1, <3>2
  <2>4. UNCHANGED <<user, slot, recovery, live, clock, handed, finished>>
    BY <1>2 DEF RevocationAgain
  <2>5. QED BY <2>1, <2>3, <2>4 DEF Records, Handlers
<1>3. ASSUME NEW w \in Workers, Revoke(w) PROVE RevocationTypeOK'
  BY <1>3 DEF Revoke, To
<1>4. ASSUME NEW w \in Workers, RevokeFails(w) PROVE RevocationTypeOK'
  BY <1>4 DEF RevokeFails, To
<1>5. ASSUME NEW w \in Workers, Finalize(w) PROVE RevocationTypeOK'
  <2> DEFINE o == call[w].op
  <2>1. o \in Operations /\ call[w].pc \in {"revoked", "failed"}
    BY <1>5 DEF Finalize
  <2>2. revocation' \in [Operations -> Records]
    <3>1. revocation[o] \in Records
      BY <2>1 DEF Records
    <3>2. [revocation[o] EXCEPT !.status = call[w].pc, !.at = clock] \in Records
      BY <2>1, <3>1 DEF Records
    <3>3. revocation' = [revocation EXCEPT ![o] = [@ EXCEPT !.status = call[w].pc, !.at = clock]]
      BY <1>5 DEF Finalize
    <3>4. QED BY <3>2, <3>3 DEF Records
  <2>3. slot' \in Slots
    BY <1>5, NoSlotTyped DEF Finalize
  <2>4. finished' \in SUBSET Operations
    BY <1>5, <2>1 DEF Finalize
  <2>5. \/ call' = [call EXCEPT ![w].pc = "check"]
        \/ call' = [call EXCEPT ![w] = [pc |-> "idle", op |-> None]]
    BY <1>5 DEF Finalize, To, End, Resting
  <2>6. /\ call' \in [Workers -> Handlers]
        /\ \A v \in Workers : call'[v].pc # "idle" => call'[v].op \in Operations
    BY <2>1, <2>5 DEF Handlers
  <2>7. UNCHANGED <<user, recovery, live, clock, handed>>
    BY <1>5 DEF Finalize
  <2>8. QED BY <2>2, <2>3, <2>4, <2>6, <2>7 DEF Records, Handlers
<1>6. ASSUME NEW w \in Workers, Check(w) PROVE RevocationTypeOK'
  BY <1>6 DEF Check, To
<1>7. ASSUME NEW w \in Workers, Mint(w) PROVE RevocationTypeOK'
  BY <1>7 DEF Mint, To
<1>8. ASSUME NEW w \in Workers, HandOver(w) PROVE RevocationTypeOK'
  BY <1>8 DEF HandOver, End, Resting
<1>9. ASSUME NEW w \in Workers, Abandon(w) PROVE RevocationTypeOK'
  BY <1>9 DEF Abandon, End, Resting
<1>10. CASE TakeOver
  BY <1>10, NoSlotTyped, SlotTyped DEF TakeOver, Superseded
<1>11. CASE SlotLeaseEnds
  BY <1>11, SlotTyped DEF SlotLeaseEnds
<1>12. ASSUME NEW s \in Sessions, SignIn(s) PROVE RevocationTypeOK'
  <2>1. revocation' \in [Operations -> Records]
    <3>1. \A o \in Operations : [revocation[o] EXCEPT !.before = @ \ {s}] \in Records
      BY DEF Records
    <3>2. QED BY <1>12, <3>1 DEF SignIn
  <2>2. QED BY <1>12, <2>1 DEF SignIn, Records
<1>13. ASSUME NEW o \in Operations, CollectRevocation(o) PROVE RevocationTypeOK'
  <2>1. revocation' \in [Operations -> Records]
    BY <1>13, AbsentTyped DEF CollectRevocation, Records
  <2>2. QED BY <1>13, <2>1 DEF CollectRevocation, Records
<1>14. CASE Day
  BY <1>14 DEF Day
<1>15. CASE UNCHANGED revocationVars
  BY <1>15 DEF revocationVars
<1>16. QED
  BY <1>1, <1>2, <1>3, <1>4, <1>5, <1>6, <1>7, <1>8, <1>9, <1>10, <1>11, <1>12, <1>13, <1>14,
     <1>15 DEF RevocationNext

-----------------------------------------------------------------------------

\* The inductive invariant holds at the start.
LEMMA InvariantStart == RevocationInit => RInv
<1> SUFFICES ASSUME RevocationInit PROVE RInv
  OBVIOUS
<1>1. RevocationTypeOK
  BY TypeStart
<1>2. AnswersAreGood /\ RevokedIsRevoked
  BY DEF RevocationInit, AnswersAreGood, RevokedIsRevoked, Absent, Resting
<1>3. RecordsAreTimely /\ CollectedIsTooOld /\ RevokesOnce
  BY RevocationAssumption
     DEF RevocationInit, RecordsAreTimely, CollectedIsTooOld, RevokesOnce, Absent
<1>4. QED BY <1>1, <1>2, <1>3 DEF RInv

\* A claim takes the slot from whoever had it, so that an answer still on its
\* way counts for nothing; an id of a collected record is too old to claim with.
LEMMA ClaimKeeps ==
  ASSUME RInv, NEW w \in Workers, NEW o \in Operations, RevocationClaim(w, o)
  PROVE  /\ AnswersAreGood' /\ RevokedIsRevoked'
         /\ RecordsAreTimely' /\ CollectedIsTooOld' /\ RevokesOnce'
<1> USE RevocationAssumption DEF RInv, RevocationTypeOK
<1>1. /\ revocation' = [revocation EXCEPT ![o].status = "pending", ![o].at = clock,
                                          ![o].before = live]
      /\ call' = [call EXCEPT ![w] = [pc |-> "revoke", op |-> o]]
      /\ slot'.fence = w
      /\ live' = live /\ clock' = clock /\ finished' = finished
      /\ revocation[o].status # "revoked"
      /\ revocation[o].status = "none" => FirstUseAllowed(o)
  BY DEF RevocationClaim
<1>2. /\ revocation'[o].status = "pending" /\ revocation'[o].at = clock
      /\ \A p \in Operations \ {o} : revocation'[p] = revocation[p]
  BY <1>1
<1>3. AnswersAreGood'
  BY <1>1 DEF AnswersAreGood, Claimed
<1>4. RevokedIsRevoked'
  BY <1>1, <1>2 DEF RevokedIsRevoked
<1>5. o \notin finished
  BY <1>1 DEF RevokesOnce, CollectedIsTooOld, FirstUseAllowed
<1>6. RecordsAreTimely'
  BY <1>1, <1>2 DEF RecordsAreTimely, FirstUseAllowed
<1>7. CollectedIsTooOld' /\ RevokesOnce'
  BY <1>1, <1>2, <1>5 DEF CollectedIsTooOld, RevokesOnce
<1>8. QED BY <1>3, <1>4, <1>6, <1>7

\* The record of an answer is good because the claim still was its handler's.
LEMMA FinalizeKeeps ==
  ASSUME RInv, NEW w \in Workers, Finalize(w)
  PROVE  /\ AnswersAreGood' /\ RevokedIsRevoked'
         /\ RecordsAreTimely' /\ CollectedIsTooOld' /\ RevokesOnce'
<1> USE RevocationAssumption DEF RInv, RevocationTypeOK
<1> DEFINE o == call[w].op
<1>1. /\ o \in Operations /\ Claimed(w) /\ revocation[o].status = "pending"
      /\ call[w].pc \in {"revoked", "failed"}
      /\ revocation' = [revocation EXCEPT ![o].status = call[w].pc, ![o].at = clock]
      /\ slot' = NoSlot
      /\ live' = live /\ clock' = clock
      /\ finished' = IF call[w].pc = "revoked" THEN finished \cup {o} ELSE finished
  BY DEF Finalize
<1>2. /\ revocation'[o].status = call[w].pc /\ revocation'[o].at = clock
      /\ revocation'[o].before = revocation[o].before
      /\ \A p \in Operations \ {o} : revocation'[p] = revocation[p]
  BY <1>1
<1> HIDE DEF o
<1>3. AnswersAreGood'
  BY <1>1 DEF AnswersAreGood, Claimed, NoSlot
<1>4. RevokedIsRevoked'
  <2>1. call[w].pc = "revoked" => revocation[o].before \cap live = {}
    BY <1>1 DEF AnswersAreGood, o
  <2>2. QED BY <1>1, <1>2, <2>1 DEF RevokedIsRevoked
<1>5. o \notin finished
  BY <1>1 DEF RevokesOnce
<1>6. RecordsAreTimely'
  BY <1>1, <1>2 DEF RecordsAreTimely
<1>7. CollectedIsTooOld' /\ RevokesOnce'
  BY <1>1, <1>2, <1>5 DEF CollectedIsTooOld, RevokesOnce
<1>8. QED BY <1>3, <1>4, <1>6, <1>7

\* A step that leaves the records and the slot's claim alone, and adds no live
\* session, keeps all of it, handlers that get their answer aside.
LEMMA QuietKeeps ==
  ASSUME RInv, UNCHANGED <<revocation, finished, clock>>, live' \subseteq live,
         \A w \in Workers : call'[w].pc = "revoked" /\ Claimed(w)' =>
                              \/ live' = {}
                              \/ call'[w] = call[w] /\ Claimed(w)
  PROVE  /\ AnswersAreGood' /\ RevokedIsRevoked'
         /\ RecordsAreTimely' /\ CollectedIsTooOld' /\ RevokesOnce'
<1>1. AnswersAreGood'
  <2> SUFFICES ASSUME NEW w \in Workers, call'[w].pc = "revoked", Claimed(w)'
               PROVE  revocation'[call'[w].op].before \cap live' = {}
    BY DEF AnswersAreGood
  <2>1. CASE live' = {}
    BY <2>1
  <2>2. CASE call'[w] = call[w] /\ Claimed(w)
    BY <2>2 DEF RInv, AnswersAreGood
  <2>3. QED BY <2>1, <2>2
<1>2. RevokedIsRevoked'
  BY DEF RInv, RevokedIsRevoked
<1>3. RecordsAreTimely' /\ CollectedIsTooOld' /\ RevokesOnce'
  BY DEF RInv, RecordsAreTimely, CollectedIsTooOld, RevokesOnce
<1>4. QED BY <1>1, <1>2, <1>3

\* Every step keeps the inductive invariant.
LEMMA InvariantStep == RInv /\ [RevocationNext]_revocationVars => RInv'
<1> SUFFICES ASSUME RInv, [RevocationNext]_revocationVars
             PROVE  /\ AnswersAreGood' /\ RevokedIsRevoked'
                    /\ RecordsAreTimely' /\ CollectedIsTooOld' /\ RevokesOnce'
  BY TypeStep DEF RInv
<1> DEFINE Rest == /\ AnswersAreGood' /\ RevokedIsRevoked'
                   /\ RecordsAreTimely' /\ CollectedIsTooOld' /\ RevokesOnce'
<1> USE RevocationAssumption
<1>a. RevocationTypeOK
  BY DEF RInv
<1>1. ASSUME NEW w \in Workers, NEW o \in Operations, RevocationClaim(w, o) PROVE Rest
  BY <1>1, ClaimKeeps
<1>2. ASSUME NEW w \in Workers, NEW o \in Operations, RevocationAgain(w, o) PROVE Rest
  <2>1. /\ revocation' = [revocation EXCEPT ![o].legacy = FALSE]
        /\ UNCHANGED <<slot, live, clock, finished>>
        /\ \A v \in Workers : call'[v] = call[v] \/ call'[v].pc = "check"
    BY <1>2, <1>a DEF RevocationAgain, RevocationTypeOK
  <2>2. \A p \in Operations : /\ revocation'[p].status = revocation[p].status
                              /\ revocation'[p].at = revocation[p].at
                              /\ revocation'[p].before = revocation[p].before
    BY <2>1, <1>a DEF RevocationTypeOK
  <2>3. AnswersAreGood'
    BY <2>1, <2>2, <1>a DEF RInv, AnswersAreGood, Claimed, RevocationTypeOK
  <2>4. RevokedIsRevoked'
    BY <2>1, <2>2 DEF RInv, RevokedIsRevoked
  <2>5. RecordsAreTimely'
    BY <2>1, <2>2 DEF RInv, RecordsAreTimely
  <2>6. CollectedIsTooOld' /\ RevokesOnce'
    BY <2>1, <2>2, <1>a DEF RInv, CollectedIsTooOld, RevokesOnce, RevocationTypeOK
  <2>7. QED BY <2>3, <2>4, <2>5, <2>6
<1>3. ASSUME NEW w \in Workers, Revoke(w) PROVE Rest
  <2>1. UNCHANGED <<revocation, finished, clock>> /\ live' = {}
    BY <1>3 DEF Revoke
  <2>2. QED BY <2>1, QuietKeeps
<1>4. ASSUME NEW w \in Workers,
             RevokeFails(w) \/ Check(w) \/ Mint(w) \/ HandOver(w) \/ Abandon(w)
      PROVE  Rest
  <2>1. UNCHANGED <<revocation, finished, clock, slot>> /\ live' \in {live, {}}
    BY <1>4 DEF RevokeFails, Check, Mint, HandOver, Abandon
  <2>2. \A v \in Workers : call'[v] = call[v] \/ call'[v].pc # "revoked"
    BY <1>4, <1>a
       DEF RevokeFails, Check, Mint, HandOver, Abandon, To, End, Resting, RevocationTypeOK
  <2>3. QED BY <2>1, <2>2, QuietKeeps DEF Claimed
<1>5. ASSUME NEW w \in Workers, Finalize(w) PROVE Rest
  BY <1>5, FinalizeKeeps
<1>6. CASE TakeOver \/ SlotLeaseEnds
  <2>1. /\ UNCHANGED <<revocation, finished, clock, live, call>>
        /\ \/ slot'.kind = "account_delete"
           \/ slot' = [slot EXCEPT !.leased = FALSE]
    BY <1>6 DEF TakeOver, SlotLeaseEnds, NoSlot
  <2>2. \A v \in Workers : Claimed(v)' => Claimed(v)
    BY <2>1, <1>a DEF Claimed, RevocationTypeOK, Slots
  <2>3. QED BY <2>1, <2>2, QuietKeeps
<1>7. ASSUME NEW s \in Sessions, SignIn(s) PROVE Rest
  <2>1. /\ live' = live \cup {s} /\ UNCHANGED <<clock, finished, slot, call>>
        /\ \A p \in Operations : /\ revocation'[p].status = revocation[p].status
                                 /\ revocation'[p].at = revocation[p].at
                                 /\ revocation'[p].before = revocation[p].before \ {s}
    BY <1>7, <1>a DEF SignIn, RevocationTypeOK
  <2>2. AnswersAreGood'
    BY <2>1, <1>a DEF RInv, AnswersAreGood, Claimed, RevocationTypeOK
  <2>3. RevokedIsRevoked'
    BY <2>1 DEF RInv, RevokedIsRevoked
  <2>4. RecordsAreTimely'
    BY <2>1 DEF RInv, RecordsAreTimely
  <2>5. CollectedIsTooOld' /\ RevokesOnce'
    BY <2>1, <1>a DEF RInv, CollectedIsTooOld, RevokesOnce, RevocationTypeOK
  <2>6. QED BY <2>2, <2>3, <2>4, <2>5
<1>8. ASSUME NEW o \in Operations, CollectRevocation(o) PROVE Rest
  <2>1. /\ UNCHANGED <<clock, finished, slot, call, live>>
        /\ revocation[o].status = "revoked" /\ revocation[o].at + Retention <= clock
        /\ revocation'[o] = Absent
        /\ \A p \in Operations \ {o} : revocation'[p] = revocation[p]
    BY <1>8, <1>a DEF CollectRevocation, RevocationTypeOK, Expired
  <2>2. AnswersAreGood'
    BY <2>1, <1>a DEF RInv, AnswersAreGood, Claimed, RevocationTypeOK, Absent
  <2>3. RevokedIsRevoked' /\ RevokesOnce'
    BY <2>1, <1>a DEF RInv, RevokedIsRevoked, RevokesOnce, Absent, RevocationTypeOK
  <2>4. RecordsAreTimely'
    BY <2>1, <1>a DEF RInv, RecordsAreTimely, Absent, RevocationTypeOK
  <2>5. o \notin Legacy => Issued[o] + FirstUse < clock
    <3>1. ASSUME o \notin Legacy PROVE Issued[o] + FirstUse < clock
      <4>1. Issued[o] \in Nat /\ revocation[o].at \in Nat /\ clock \in Nat
        BY <3>1, <1>a DEF RevocationTypeOK
      <4>2. Issued[o] <= revocation[o].at + Skew
        BY <2>1, <3>1 DEF RInv, RecordsAreTimely
      <4>3. QED BY <2>1, <4>1, <4>2
    <3>2. QED BY <3>1
  <2>6. CollectedIsTooOld'
    BY <2>1, <2>5, <1>a DEF RInv, CollectedIsTooOld, RevocationTypeOK
  <2>7. QED BY <2>2, <2>3, <2>4, <2>6
<1>9. CASE Day
  <2>1. UNCHANGED <<revocation, finished, slot, call, live>> /\ clock' = clock + 1
    BY <1>9 DEF Day
  <2>2. AnswersAreGood' /\ RevokedIsRevoked' /\ RevokesOnce'
    BY <2>1 DEF RInv, AnswersAreGood, RevokedIsRevoked, RevokesOnce, Claimed
  <2>3. RecordsAreTimely'
    BY <2>1, <1>a DEF RInv, RecordsAreTimely, RevocationTypeOK
  <2>4. CollectedIsTooOld'
    <3> SUFFICES ASSUME NEW o \in finished, revocation[o].status = "none", o \notin Legacy
                 PROVE  Issued[o] + FirstUse < clock + 1
      BY <2>1 DEF CollectedIsTooOld
    <3>1. Issued[o] \in Nat /\ clock \in Nat
      BY <1>a DEF RevocationTypeOK
    <3>2. QED BY <3>1 DEF RInv, CollectedIsTooOld
  <2>5. QED BY <2>2, <2>3, <2>4
<1>10. CASE UNCHANGED revocationVars
  BY <1>10, QuietKeeps DEF revocationVars, Claimed
<1>11. QED
  BY <1>1, <1>2, <1>3, <1>4, <1>5, <1>6, <1>7, <1>8, <1>9, <1>10 DEF RevocationNext

-----------------------------------------------------------------------------

\* Whatever leases run out and whoever claims, retries, crashes or deletes: what
\* is recorded as revoked is revoked, and an operation id revokes once.
THEOREM RevocationsAreTrue == RevocationSpec => []RevocationsHold
<1>1. RInv => RevocationsHold
  BY DEF RInv, RevocationsHold
<1>2. QED BY InvariantStart, InvariantStep, <1>1, PTL DEF RevocationSpec

\* Once the account is being deleted, a handler in the middle of a revocation
\* records none and returns no token.
THEOREM DeletionEndsThem == RevocationSpec => DeletionEndsRevocations
<1>1. ASSUME RevocationNext, user = "deleting"
      PROVE  handed' = handed /\ finished' = finished
  BY <1>1 DEF RevocationNext, RevocationClaim, RevocationAgain, Revoke, RevokeFails, Finalize,
              Check, Mint, HandOver, MintAllowed, HandOverAllowed, Abandon, TakeOver,
              SlotLeaseEnds, SignIn, CollectRevocation, Day
<1>2. [RevocationNext]_revocationVars =>
        [user = "deleting" => handed' = handed /\ finished' = finished]_revocationVars
  BY <1>1 DEF revocationVars
<1>3. QED BY <1>2, PTL DEF RevocationSpec, DeletionEndsRevocations

-----------------------------------------------------------------------------
(* The operators' audit trail.                                             *)

Entries == [there: BOOLEAN, dated: BOOLEAN, from: {"none", "desk", "open", "late", "review"}]
Dockets == [closed: BOOLEAN, hold: BOOLEAN, holds: Nat, unaligned: BOOLEAN]
Desks   == [pc: {"off", "looked", "list", "align"}, dates: BOOLEAN, listed: SUBSET (1 .. LastEntry)]

AuditTypeOK ==
  /\ kind \in {"privacy", "incidents"}
  /\ docket \in Dockets
  /\ trail \in [1 .. LastEntry -> Entries]
  /\ clerk \in [Clerks -> Desks]

\* Only the privacy desk dates in calls of their own, and it knows no legal hold.
DeskApart ==
  /\ kind = "privacy" => ~docket.hold
  /\ \A c \in Clerks : clerk[c].pc \in {"list", "align"} => kind = "privacy" /\ docket.closed

\* Who read a case that expires has read one that does: it stays closed.
ReadBefore ==
  \A c \in Clerks : clerk[c].pc = "looked" /\ clerk[c].dates /\ kind = "privacy" => docket.closed

\* What a closing has yet to date once it has listed the entries was left by those
\* who had read the case before it was closed.
ListedOrDated ==
  \A c \in Clerks, e \in Present :
    clerk[c].pc = "align" =>
      e \in clerk[c].listed \/ trail[e].from \in {"open", "late"} \/ trail[e].dated = Expires(docket)

AInv == AuditTypeOK /\ DeskApart /\ ReadBefore /\ ListedOrDated /\ TrailExpiresWithCase

LEMMA AuditStart == AuditInit => AInv
<1> SUFFICES ASSUME AuditInit PROVE AInv
  OBVIOUS
<1>1. NoEntry \in Entries /\ Off \in Desks
  BY DEF NoEntry, Entries, Off, Desks
<1>2. AuditTypeOK
  BY <1>1 DEF AuditInit, AuditTypeOK, Dockets
<1>3. Present = {}
  BY DEF Present, AuditInit, NoEntry
<1>4. QED
  BY <1>2, <1>3 DEF AInv, AuditInit, DeskApart, ReadBefore, ListedOrDated, TrailExpiresWithCase, Off

\* An entry that is written leaves the others as they were.
LEMMA WriteKeeps ==
  ASSUME NEW t \in [1 .. LastEntry -> Entries], NEW n, NEW x \in Entries
  PROVE  /\ [t EXCEPT ![n] = x] \in [1 .. LastEntry -> Entries]
         /\ \A e \in 1 .. LastEntry : [t EXCEPT ![n] = x][e] = t[e] \/ [t EXCEPT ![n] = x][e] = x
OBVIOUS

\* A handler that goes on with a step of its own.
LEMMA ClerkMoves ==
  ASSUME AuditTypeOK, NEW c \in Clerks, NEW x \in Desks, clerk' = [clerk EXCEPT ![c] = x]
  PROVE  clerk' \in [Clerks -> Desks] /\ clerk'[c] = x /\ \A d \in Clerks \ {c} : clerk'[d] = clerk[d]
BY DEF AuditTypeOK

LEMMA OffTyped == Off \in Desks /\ Off.pc = "off"
BY DEF Off, Desks

\* An entry with the date the case has, or one of those the property leaves out,
\* keeps the invariant.
LEMMA EntryKeeps ==
  ASSUME AInv, NEW dated \in BOOLEAN, NEW from \in {"desk", "open", "late", "review"},
         from \in {"open", "late"} \/ (from = "review" /\ docket.hold) \/ dated = Expires(docket),
         trail' = Log(trail, dated, from), UNCHANGED <<kind, docket>>,
         clerk' = clerk \/ \E c \in Clerks : clerk[c].pc \notin {"list", "align"} /\ LogsOff(c)
  PROVE  AInv'
<1>a. AuditTypeOK
  BY DEF AInv
<1>1. /\ trail' \in [1 .. LastEntry -> Entries]
      /\ \A e \in 1 .. LastEntry :
           \/ trail'[e] = trail[e]
           \/ trail'[e].dated = dated /\ trail'[e].from = from
  <2>1. trail \in [1 .. LastEntry -> Entries]
    BY <1>a DEF AuditTypeOK
  <2> DEFINE x == [there |-> TRUE, dated |-> dated, from |-> from]
             n == NextEntry
  <2>2. x \in Entries /\ x.dated = dated /\ x.from = from
    BY DEF Entries
  <2>3. trail' = [trail EXCEPT ![n] = x]
    BY DEF Log
  <2> HIDE DEF x, n
  <2>4. /\ trail' \in [1 .. LastEntry -> Entries]
        /\ \A e \in 1 .. LastEntry : trail'[e] = trail[e] \/ trail'[e] = x
    BY <2>1, <2>2, <2>3, WriteKeeps
  <2>5. QED BY <2>2, <2>4
<1>2. /\ clerk' \in [Clerks -> Desks]
      /\ \A d \in Clerks : clerk'[d] = clerk[d] \/ clerk'[d].pc = "off"
      /\ \A d \in Clerks : clerk[d].pc \in {"list", "align"} => clerk'[d] = clerk[d]
  <2>1. CASE clerk' = clerk
    BY <2>1, <1>a DEF AuditTypeOK
  <2>2. CASE \E c \in Clerks : clerk[c].pc \notin {"list", "align"} /\ LogsOff(c)
    BY <2>2, <1>a, ClerkMoves, OffTyped DEF LogsOff
  <2>3. QED BY <2>1, <2>2
<1>3. Expires(docket)' = Expires(docket)
  BY DEF Expires
<1>4. AuditTypeOK'
  BY <1>1, <1>2, <1>a DEF AuditTypeOK
<1>5. DeskApart' /\ ReadBefore'
  BY <1>2 DEF AInv, DeskApart, ReadBefore
<1>6. \A e \in Present' : \/ e \in Present /\ trail'[e] = trail[e]
                          \/ trail'[e].from \in {"open", "late"} \/ trail'[e].dated = Expires(docket)
                          \/ trail'[e].from = "review" /\ docket.hold
  BY <1>1 DEF Present
<1>7. ListedOrDated'
  BY <1>2, <1>3, <1>6 DEF AInv, ListedOrDated, DeskApart
<1>8. TrailExpiresWithCase'
  BY <1>2, <1>3, <1>6 DEF AInv, TrailExpiresWithCase
<1>9. QED BY <1>4, <1>5, <1>7, <1>8 DEF AInv

\* So does one that is left undated: while the case is open, as it should be.
LEMMA UndatedKeeps ==
  ASSUME AInv, LogUndated
  PROVE  AInv'
<1> DEFINE from == IF docket.closed THEN "late" ELSE "desk"
<1>1. from \in {"desk", "open", "late", "review"} /\ (from = "late" \/ FALSE = Expires(docket))
  BY DEF Expires
<1>2. trail' = Log(trail, FALSE, from) /\ UNCHANGED <<kind, docket, clerk>>
  BY DEF LogUndated
<1> HIDE DEF from
<1>3. QED BY <1>1, <1>2, EntryKeeps

\* Every entry of a case of the incidents desk is dated in the transaction that
\* closes it, holds it or lets it go.
LEMMA AllDated ==
  ASSUME AInv, kind = "incidents", NEW d \in Dockets, docket' = d, trail' = DateAll(d),
         UNCHANGED <<kind, clerk>>
  PROVE  AInv'
<1> DEFINE t == Redated(Expires(d))
<1>a. AuditTypeOK
  BY DEF AInv
<1>1. t \in [1 .. LastEntry -> Entries] /\ \A e \in 1 .. LastEntry : t[e].there => t[e].dated = Expires(d)
  <2>1. Expires(d) \in BOOLEAN
    BY DEF Expires, Dockets
  <2>2. \A x \in Entries, b \in BOOLEAN :
          /\ [x EXCEPT !.dated = x.there /\ b] \in Entries
          /\ [x EXCEPT !.dated = x.there /\ b].there => [x EXCEPT !.dated = x.there /\ b].dated = b
    BY DEF Entries
  <2>3. \A e \in 1 .. LastEntry : trail[e] \in Entries
    BY <1>a DEF AuditTypeOK
  <2>4. QED BY <2>1, <2>2, <2>3 DEF Redated
<1>2. Expires(d) \in BOOLEAN
  BY DEF Expires, Dockets
<1>3. trail' = Log(t, Expires(d), "desk")
  BY DEF DateAll
<1> HIDE DEF t
<1>4. /\ trail' \in [1 .. LastEntry -> Entries]
      /\ \A e \in 1 .. LastEntry : trail'[e] = t[e] \/ trail'[e].dated = Expires(d)
  <2> DEFINE x == [there |-> TRUE, dated |-> Expires(d), from |-> "desk"]
             n == NextEntry
  <2>1. x \in Entries /\ x.dated = Expires(d)
    BY <1>2 DEF Entries
  <2>2. trail' = [t EXCEPT ![n] = x]
    BY <1>3 DEF Log
  <2> HIDE DEF x, n
  <2>3. /\ trail' \in [1 .. LastEntry -> Entries]
        /\ \A e \in 1 .. LastEntry : trail'[e] = t[e] \/ trail'[e] = x
    BY <1>1, <2>1, <2>2, WriteKeeps
  <2>4. QED BY <2>1, <2>3
<1>5. \A c \in Clerks : clerk[c].pc \notin {"list", "align"}
  BY DEF AInv, DeskApart
<1>6. AuditTypeOK' /\ DeskApart' /\ ReadBefore' /\ ListedOrDated'
  BY <1>4, <1>5, <1>a DEF AInv, AuditTypeOK, DeskApart, ReadBefore, ListedOrDated
<1>7. TrailExpiresWithCase'
  BY <1>1, <1>4 DEF TrailExpiresWithCase, Present, Expires
<1>8. QED BY <1>6, <1>7 DEF AInv

\* Each step keeps the invariant.
LEMMA AuditStep == AInv /\ [AuditNext]_auditVars => AInv'
<1> SUFFICES ASSUME AInv, [AuditNext]_auditVars PROVE AInv'
  OBVIOUS
<1>a. AuditTypeOK
  BY DEF AInv
<1>t. docket \in Dockets /\ \A c \in Clerks : clerk[c] \in Desks
  BY <1>a DEF AuditTypeOK
<1>1. ASSUME NEW c \in Clerks, LookAtCase(c) PROVE AInv'
  <2> DEFINE x == [pc |-> "looked", dates |-> Expires(docket), listed |-> {}]
  <2>1. x \in Desks /\ x.pc = "looked" /\ (x.dates => docket.closed)
    BY <1>t DEF Desks, Expires, Dockets
  <2>2. clerk' = [clerk EXCEPT ![c] = x] /\ UNCHANGED <<kind, docket, trail>> /\ clerk[c].pc = "off"
    BY <1>1 DEF LookAtCase
  <2> HIDE DEF x
  <2>3. clerk' \in [Clerks -> Desks] /\ clerk'[c] = x /\ \A d \in Clerks \ {c} : clerk'[d] = clerk[d]
    BY <2>1, <2>2, <1>a, ClerkMoves
  <2>4. AuditTypeOK' /\ DeskApart' /\ ReadBefore'
    BY <2>1, <2>2, <2>3, <1>a DEF AInv, AuditTypeOK, DeskApart, ReadBefore
  <2>5. ListedOrDated' /\ TrailExpiresWithCase'
    BY <2>1, <2>2, <2>3 DEF AInv, ListedOrDated, TrailExpiresWithCase, Present, Expires
  <2>6. QED BY <2>4, <2>5 DEF AInv
<1>2. ASSUME NEW c \in Clerks, LogPrivacyReading(c) PROVE AInv'
  <2> DEFINE dated == clerk[c].dates
             from  == IF ~clerk[c].dates /\ docket.closed THEN "open" ELSE "desk"
  <2>1. dated \in BOOLEAN /\ from \in {"desk", "open", "late", "review"}
    BY <1>t DEF Desks
  <2>2. from = "open" \/ dated = Expires(docket)
    <3>1. ~docket.hold /\ (clerk[c].dates => docket.closed)
      BY <1>2 DEF LogPrivacyReading, AInv, DeskApart, ReadBefore
    <3>2. QED BY <3>1, <1>t DEF Expires, Dockets, Desks
  <2>3. /\ trail' = Log(trail, dated, from) /\ UNCHANGED <<kind, docket>>
        /\ clerk[c].pc \notin {"list", "align"} /\ LogsOff(c)
    BY <1>2 DEF LogPrivacyReading
  <2> HIDE DEF dated, from
  <2>4. QED BY <2>1, <2>2, <2>3, EntryKeeps
<1>3. ASSUME NEW c \in Clerks, LogIncidentReading(c) PROVE AInv'
  <2>1. Expires(docket) \in BOOLEAN
    BY <1>t DEF Expires, Dockets
  <2>2. QED BY <1>3, <2>1, EntryKeeps DEF LogIncidentReading, DatedBy
<1>4. ASSUME NEW c \in Clerks, ClosePrivacyCase(c) PROVE AInv'
  <2> DEFINE x == [clerk[c] EXCEPT !.pc = "list"]
             d == [docket EXCEPT !.closed = TRUE]
  <2>1. x \in Desks /\ x.pc = "list" /\ d \in Dockets /\ d.closed /\ d.hold = docket.hold
    BY <1>t DEF Desks, Dockets
  <2>2. clerk' = [clerk EXCEPT ![c] = x]
    BY <1>4, <1>a DEF ClosePrivacyCase, Now, AuditTypeOK
  <2>3. docket' = d /\ kind' = kind /\ kind = "privacy" /\ ~docket.closed /\ trail' = Log(trail, FALSE, "desk")
    BY <1>4 DEF ClosePrivacyCase
  <2> HIDE DEF x, d
  <2>4. clerk' \in [Clerks -> Desks] /\ clerk'[c] = x /\ \A e \in Clerks \ {c} : clerk'[e] = clerk[e]
    BY <2>1, <2>2, <1>a, ClerkMoves
  <2>5. trail' \in [1 .. LastEntry -> Entries]
    <3> DEFINE y == [there |-> TRUE, dated |-> FALSE, from |-> "desk"]
               n == NextEntry
    <3>1. y \in Entries
      BY DEF Entries
    <3>2. trail' = [trail EXCEPT ![n] = y]
      BY <2>3 DEF Log
    <3> HIDE DEF y, n
    <3>3. QED BY <3>1, <3>2, <1>a, WriteKeeps DEF AuditTypeOK
  <2>6. AuditTypeOK'
    BY <2>1, <2>3, <2>4, <2>5, <1>a DEF AuditTypeOK
  <2>7. \A e \in Clerks : clerk[e].pc \notin {"list", "align"}
    BY <2>3 DEF AInv, DeskApart
  <2>8. DeskApart' /\ ReadBefore' /\ ListedOrDated'
    BY <2>1, <2>3, <2>4, <2>7 DEF AInv, DeskApart, ReadBefore, ListedOrDated
  <2>9. TrailExpiresWithCase'
    BY <2>1, <2>4 DEF TrailExpiresWithCase
  <2>10. QED BY <2>6, <2>8, <2>9 DEF AInv
<1>5. ASSUME NEW c \in Clerks, ListEntries(c) PROVE AInv'
  <2> DEFINE x == [clerk[c] EXCEPT !.pc = "align", !.listed = Present]
  <2>1. x \in Desks /\ x.pc = "align" /\ x.listed = Present
    <3>1. Present \subseteq 1 .. LastEntry
      BY DEF Present
    <3>2. QED BY <3>1, <1>t DEF Desks
  <2>2. clerk' = [clerk EXCEPT ![c] = x]
    BY <1>5, <1>a DEF ListEntries, AuditTypeOK
  <2>3. UNCHANGED <<kind, docket, trail>> /\ clerk[c].pc = "list"
    BY <1>5 DEF ListEntries
  <2> HIDE DEF x
  <2>4. clerk' \in [Clerks -> Desks] /\ clerk'[c] = x /\ \A e \in Clerks \ {c} : clerk'[e] = clerk[e]
    BY <2>1, <2>2, <1>a, ClerkMoves
  <2>5. AuditTypeOK' /\ DeskApart' /\ ReadBefore'
    BY <2>1, <2>3, <2>4, <1>a DEF AInv, AuditTypeOK, DeskApart, ReadBefore
  <2>6. Present' = Present
    BY <2>3 DEF Present
  <2>7. ListedOrDated' /\ TrailExpiresWithCase'
    BY <2>1, <2>3, <2>4, <2>6 DEF AInv, ListedOrDated, TrailExpiresWithCase, Expires
  <2>8. QED BY <2>5, <2>7 DEF AInv
<1>6. ASSUME NEW c \in Clerks, AlignEntries(c) PROVE AInv'
  <2>1. clerk[c].pc = "align" /\ UNCHANGED <<kind, docket>> /\ clerk' = [clerk EXCEPT ![c] = Off]
    BY <1>6 DEF AlignEntries, LogsOff
  <2>2. clerk' \in [Clerks -> Desks] /\ clerk'[c] = Off /\ \A e \in Clerks \ {c} : clerk'[e] = clerk[e]
    BY <2>1, OffTyped, <1>a, ClerkMoves
  <2>3. /\ trail' \in [1 .. LastEntry -> Entries]
        /\ \A e \in 1 .. LastEntry :
             /\ trail'[e].there = trail[e].there /\ trail'[e].from = trail[e].from
             /\ e \in clerk[c].listed => trail'[e].dated = Expires(docket)
             /\ e \notin clerk[c].listed => trail'[e] = trail[e]
    <3>1. Expires(docket) \in BOOLEAN
      BY <1>t DEF Expires, Dockets
    <3>2. \A y \in Entries, b \in BOOLEAN :
            /\ [y EXCEPT !.dated = b] \in Entries /\ [y EXCEPT !.dated = b].dated = b
            /\ [y EXCEPT !.dated = b].there = y.there /\ [y EXCEPT !.dated = b].from = y.from
      BY DEF Entries
    <3>3. \A e \in 1 .. LastEntry : trail[e] \in Entries
      BY <1>a DEF AuditTypeOK
    <3>4. trail' = [e \in 1 .. LastEntry |->
                      IF e \in clerk[c].listed THEN [trail[e] EXCEPT !.dated = Expires(docket)] ELSE trail[e]]
      BY <1>6 DEF AlignEntries
    <3>5. QED BY <3>1, <3>2, <3>3, <3>4
  <2>4. Present' = Present /\ Expires(docket)' = Expires(docket)
    BY <2>1, <2>3 DEF Present, Expires
  <2>5. Present \subseteq 1 .. LastEntry
    BY DEF Present
  <2>6. AuditTypeOK' /\ DeskApart' /\ ReadBefore'
    BY <2>1, <2>2, <2>3, OffTyped, <1>a DEF AInv, AuditTypeOK, DeskApart, ReadBefore
  <2>7. \A e \in Present' : trail'[e].from \in {"open", "late"} \/ trail'[e].dated = Expires(docket)
    BY <2>1, <2>3, <2>4, <2>5 DEF AInv, ListedOrDated
  <2>8. ListedOrDated' /\ TrailExpiresWithCase'
    BY <2>4, <2>7 DEF ListedOrDated, TrailExpiresWithCase
  <2>9. QED BY <2>6, <2>8 DEF AInv
<1>7. ASSUME CloseIncidentCase PROVE AInv'
  <2> DEFINE d == [docket EXCEPT !.closed = TRUE]
  <2>1. d \in Dockets
    BY <1>t DEF Dockets
  <2>2. kind = "incidents" /\ docket' = d /\ trail' = DateAll(d) /\ UNCHANGED <<kind, clerk>>
    BY <1>7 DEF CloseIncidentCase
  <2> HIDE DEF d
  <2>3. QED BY <2>1, <2>2, AllDated
<1>8. ASSUME SupersedeNotice PROVE AInv'
  BY <1>8, UndatedKeeps DEF SupersedeNotice
<1>9. ASSUME NEW b \in BOOLEAN, HoldCase(b) PROVE AInv'
  <2> DEFINE n == docket.holds + 1
             d == [docket EXCEPT !.hold = b, !.holds = n]
  <2>n. n \in Nat
    BY <1>t DEF Dockets
  <2> HIDE DEF n
  <2>1. d \in Dockets
    BY <2>n, <1>t DEF Dockets
  <2>2. kind = "incidents" /\ docket' = d /\ trail' = DateAll(d) /\ UNCHANGED <<kind, clerk>>
    BY <1>9 DEF HoldCase, n
  <2> HIDE DEF d
  <2>3. QED BY <2>1, <2>2, AllDated
<1>10. ASSUME NEW c \in Clerks, LeaveCase(c) PROVE AInv'
  <2> DEFINE u == docket.unaligned \/ clerk[c].pc \in {"list", "align"}
  <2>1. docket' = [docket EXCEPT !.unaligned = u] /\ u \in BOOLEAN
    BY <1>10, <1>t DEF LeaveCase, Dockets
  <2>2. UNCHANGED <<kind, trail>> /\ clerk' = [clerk EXCEPT ![c] = Off]
    BY <1>10 DEF LeaveCase, LogsOff
  <2>3. u \/ clerk[c].pc \notin {"list", "align"}
    OBVIOUS
  <2>e. docket.unaligned => u
    OBVIOUS
  <2> HIDE DEF u
  <2>4. docket' \in Dockets /\ docket'.closed = docket.closed /\ docket'.hold = docket.hold /\ docket'.unaligned = u
    BY <2>1, <1>t DEF Dockets
  <2>5. clerk' \in [Clerks -> Desks] /\ clerk'[c] = Off /\ \A e \in Clerks \ {c} : clerk'[e] = clerk[e]
    BY <2>2, OffTyped, <1>a, ClerkMoves
  <2>6. AuditTypeOK' /\ DeskApart' /\ ReadBefore'
    BY <2>2, <2>4, <2>5, OffTyped, <1>a DEF AInv, AuditTypeOK, DeskApart, ReadBefore
  <2>7. Present' = Present /\ Expires(docket)' = Expires(docket)
    BY <2>2, <2>4 DEF Present, Expires
  <2>8. ListedOrDated'
    BY <2>2, <2>5, <2>7, OffTyped DEF AInv, ListedOrDated
  <2>9. TrailExpiresWithCase'
    BY <2>2, <2>3, <2>4, <2>5, <2>7, <2>e DEF AInv, TrailExpiresWithCase
  <2>10. QED BY <2>6, <2>8, <2>9 DEF AInv
<1>11. ASSUME UNCHANGED auditVars PROVE AInv'
  <2>1. UNCHANGED <<kind, docket, trail, clerk>>
    BY <1>11 DEF auditVars
  <2>2. Present' = Present /\ Expires(docket)' = Expires(docket)
    BY <2>1 DEF Present, Expires
  <2>3. QED
    BY <2>1, <2>2 DEF AInv, AuditTypeOK, DeskApart, ReadBefore, ListedOrDated, TrailExpiresWithCase
<1>12. ASSUME ReadResponse PROVE AInv'
  <2>1. Expires(docket) \in BOOLEAN
    BY <1>t DEF Expires, Dockets
  <2>2. QED BY <1>12, <2>1, EntryKeeps DEF ReadResponse
<1>13. ASSUME RedeemCode \/ DeliverExtensionNotice PROVE AInv'
  BY <1>13, UndatedKeeps DEF RedeemCode, DeliverExtensionNotice
<1>14. ASSUME ReviewCase PROVE AInv'
  <2> DEFINE dated == docket.closed
             from  == IF docket.hold THEN "review" ELSE "desk"
  <2>1. dated \in BOOLEAN /\ from \in {"desk", "open", "late", "review"}
    BY <1>t DEF Dockets
  <2>2. (from = "review" /\ docket.hold) \/ dated = Expires(docket)
    BY <1>t DEF Expires, Dockets
  <2>3. trail' = Log(trail, dated, from) /\ UNCHANGED <<kind, docket, clerk>>
    BY <1>14 DEF ReviewCase
  <2> HIDE DEF dated, from
  <2>4. QED BY <2>1, <2>2, <2>3, EntryKeeps
<1>15. QED
  BY <1>1, <1>2, <1>3, <1>4, <1>5, <1>6, <1>7, <1>8, <1>9, <1>10, <1>11, <1>12, <1>13, <1>14
     DEF AuditNext

\* Whoever reads a case while another closes it, and whichever closing dies: an
\* entry of the trail expires if and only if its case does, but for those the
\* property names.
THEOREM TrailsExpire == AuditSpec => []TrailExpiresWithCase
<1>1. AInv => TrailExpiresWithCase
  BY DEF AInv
<1>2. QED BY AuditStart, AuditStep, <1>1, PTL DEF AuditSpec

-----------------------------------------------------------------------------
(* The content packages.                                                   *)

Objects    == [bytes: Packages \cup {Foreign, Missing}, links: {0, 1, 2}]
Publishing == [pc: {"write", "linked", "taken", "check", "compare", "manifest", "create",
                    "activate", "done"}, manifest: Manifests]
Following  == [pc: {"object"}, id: Packages, manifest: Manifests]
Described  == [pc: {"described"}, id: Packages, manifest: Manifests,
               bytes: Packages \cup {Foreign, Missing}]

PackagesTypeOK ==
  /\ backend \in {"bucket", "directory"}
  /\ stored \in [Packages -> Objects]
  /\ manifests \in [Packages -> Manifests \cup {Missing}]
  /\ pointer \in Packages \cup {Missing}
  /\ publisher \in [Publishers -> {AtRest} \cup Publishing]
  /\ download \in [Downloads -> {AtRest} \cup [pc: {"pointed"}, id: Packages] \cup Following \cup Described]

\* The object of a package can be read, and is the package of the manifest.
Serves(p, m) == Legible(p) /\ ShaOf[m] = p /\ VerifyPackage(m, stored[p].bytes)

\* A manifest that is stored has its object.
StoredServe == \A p \in Packages : manifests[p] # Missing => Serves(p, manifests[p])

\* A publisher names the package it has read back, and no other.
VerifiedServe ==
  \A w \in Publishers :
    publisher[w].pc \in {"manifest", "create", "activate"} => Serves(Sha(w), publisher[w].manifest)

\* The pointer names a stored manifest, and who follows it has that one.
PointerNames == pointer # Missing => manifests[pointer] # Missing
FollowersHold ==
  \A d \in Downloads :
    /\ download[d].pc \in {"object", "described"} =>
         /\ download[d].manifest # Missing
         /\ manifests[download[d].id] = download[d].manifest
    /\ download[d].pc = "described" => download[d].bytes = ShaOf[download[d].manifest]

PInv == PackagesTypeOK /\ StoredServe /\ VerifiedServe /\ PointerNames /\ FollowersHold

LEMMA PackagesStart == PackagesInit => PInv
<1> SUFFICES ASSUME PackagesInit PROVE PInv
  OBVIOUS
<1>1. NoObject \in Objects /\ [bytes |-> Foreign, links |-> 1] \in Objects
  BY DEF NoObject, Objects
<1>2. stored \in [Packages -> Objects]
  BY <1>1 DEF PackagesInit
<1>3. PackagesTypeOK
  BY <1>2 DEF PackagesInit, PackagesTypeOK
<1>4. QED
  BY <1>3 DEF PInv, PackagesInit, StoredServe, VerifiedServe, PointerNames, FollowersHold, AtRest

\* No step takes a readable object away, changes its bytes, or changes a manifest.
Lasting ==
  /\ stored' \in [Packages -> Objects] /\ backend' = backend
  /\ \A p \in Packages : Legible(p) => Legible(p)' /\ stored'[p].bytes = stored[p].bytes
  /\ manifests' \in [Packages -> Manifests \cup {Missing}]
  /\ \A p \in Packages : manifests[p] # Missing => manifests'[p] = manifests[p]

\* What those at work hold is not disturbed by another's step.
LEMMA PublisherKeeps ==
  ASSUME PInv, Lasting,
         UNCHANGED <<pointer, download>>,
         NEW w \in Publishers, NEW x \in {AtRest} \cup Publishing,
         publisher' = [publisher EXCEPT ![w] = x],
         x.pc \in {"manifest", "create", "activate"} =>
           Serves(ShaOf[x.manifest], x.manifest)',
         \A p \in Packages : manifests'[p] = manifests[p] \/ Serves(p, manifests[p])'
  PROVE  PInv'
<1>a. PackagesTypeOK
  BY DEF PInv
<1>1. PackagesTypeOK'
  BY <1>a DEF PackagesTypeOK, Lasting
<1>2. StoredServe'
  <2> SUFFICES ASSUME NEW p \in Packages, manifests'[p] # Missing
               PROVE  Serves(p, manifests[p])'
    BY DEF StoredServe
  <2>1. CASE manifests'[p] = manifests[p]
    <3> DEFINE m == manifests[p]
    <3>1. Serves(p, m)
      BY <2>1 DEF PInv, StoredServe
    <3> HIDE DEF m
    <3>2. m = manifests'[p]
      BY <2>1 DEF m
    <3>3. QED BY <3>1, <3>2 DEF Serves, Lasting, VerifyPackage
  <2>2. CASE Serves(p, manifests[p])'
    BY <2>2
  <2>3. QED BY <2>1, <2>2
<1>3. VerifiedServe'
  <2> SUFFICES ASSUME NEW v \in Publishers, publisher'[v].pc \in {"manifest", "create", "activate"}
               PROVE  Serves(Sha(v), publisher[v].manifest)'
    BY DEF VerifiedServe
  <2>1. CASE v = w
    BY <2>1, <1>a DEF Sha, PackagesTypeOK
  <2>2. CASE v # w
    <3>1. publisher'[v] = publisher[v]
      BY <2>2, <1>a DEF PackagesTypeOK
    <3>2. publisher[v].manifest \in Manifests
      BY <3>1, <1>a DEF PackagesTypeOK, AtRest, Publishing
    <3>3. Sha(v) \in Packages
      BY <3>2, PackageAssumption DEF Sha
    <3>4. Serves(Sha(v), publisher[v].manifest)
      BY <3>1 DEF PInv, VerifiedServe
    <3>5. QED BY <3>1, <3>3, <3>4 DEF Sha, Serves, Lasting, VerifyPackage
  <2>3. QED BY <2>1, <2>2
<1>4. PointerNames'
  BY <1>a DEF PInv, PointerNames, Lasting, PackagesTypeOK
<1>5. FollowersHold'
  <2> SUFFICES ASSUME NEW d \in Downloads, download[d].pc \in {"object", "described"}
               PROVE  manifests'[download[d].id] = download[d].manifest
    BY DEF PInv, FollowersHold
  <2>1. download[d].id \in Packages
    BY <1>a DEF PackagesTypeOK, AtRest, Following, Described
  <2>2. manifests[download[d].id] = download[d].manifest /\ download[d].manifest # Missing
    BY DEF PInv, FollowersHold
  <2>3. QED BY <2>1, <2>2 DEF Lasting
<1>6. QED BY <1>1, <1>2, <1>3, <1>4, <1>5 DEF PInv

\* A step of a download's own.
LEMMA FollowKeeps ==
  ASSUME PInv, SamePackages, NEW d \in Downloads,
         NEW r \in {AtRest} \cup [pc: {"pointed"}, id: Packages] \cup Following \cup Described,
         Follow(d, r),
         r.pc \in {"object", "described"} =>
           /\ r.manifest # Missing /\ manifests[r.id] = r.manifest
           /\ r.pc = "described" => r.bytes = ShaOf[r.manifest]
  PROVE  PInv'
<1>a. PackagesTypeOK
  BY DEF PInv
<1>1. UNCHANGED <<backend, stored, manifests, pointer, publisher>> /\ download' = [download EXCEPT ![d] = r]
  BY DEF SamePackages, Follow
<1>2. PackagesTypeOK'
  BY <1>1, <1>a DEF PackagesTypeOK
<1>3. FollowersHold'
  BY <1>1, <1>a DEF PInv, FollowersHold, PackagesTypeOK
<1>4. StoredServe' /\ VerifiedServe' /\ PointerNames'
  BY <1>1 DEF PInv, StoredServe, VerifiedServe, PointerNames, Serves, Legible, VerifyPackage, Sha
<1>5. QED BY <1>2, <1>3, <1>4 DEF PInv

\* A publisher at work takes its next step, or gives up.
LEMMA PublisherGoesOn ==
  ASSUME PInv, Lasting, UNCHANGED <<pointer, download>>,
         NEW w \in Publishers, ~InPublisher(w, "idle"), NEW m, m = publisher[w].manifest,
         NEW pc \in {"write", "linked", "taken", "check", "compare", "manifest", "create", "activate", "done"},
         \/ GivesUp(w)
         \/ /\ PublishTo(w, pc)
            /\ pc \in {"manifest", "create", "activate"} => Serves(ShaOf[m], m)',
         \A p \in Packages : manifests'[p] = manifests[p] \/ Serves(p, manifests[p])'
  PROVE  PInv'
<1>a. publisher \in [Publishers -> {AtRest} \cup Publishing]
  BY DEF PInv, PackagesTypeOK
<1>b. publisher[w] \in Publishing
  BY <1>a DEF InPublisher, AtRest
<1>1. CASE GivesUp(w)
  <2>1. publisher' = [publisher EXCEPT ![w] = AtRest] /\ AtRest.pc = "idle"
    BY <1>1 DEF GivesUp, AtRest
  <2>2. QED BY <2>1, PublisherKeeps
<1>2. CASE PublishTo(w, pc) /\ (pc \in {"manifest", "create", "activate"} => Serves(ShaOf[m], m)')
  <2>0. PICK x : x = [publisher[w] EXCEPT !.pc = pc]
    OBVIOUS
  <2>1. x \in Publishing /\ x.pc = pc /\ x.manifest = m
    BY <2>0, <1>b DEF Publishing
  <2>2. publisher' = [publisher EXCEPT ![w] = x]
    BY <2>0, <1>2, <1>a DEF PublishTo
  <2>3. x.pc \in {"manifest", "create", "activate"} => Serves(ShaOf[x.manifest], x.manifest)'
    BY <2>1, <1>2
  <2>4. QED BY <2>1, <2>2, <2>3, PublisherKeeps
<1>3. QED BY <1>1, <1>2

\* A step that touches no package leaves all as it is.
LEMMA SameLasts ==
  ASSUME PInv, UNCHANGED <<backend, stored, manifests>>
  PROVE  /\ Lasting /\ \A p \in Packages : manifests'[p] = manifests[p]
         /\ \A m, p : Serves(p, m) => Serves(p, m)'
BY DEF PInv, PackagesTypeOK, Lasting, Legible, Serves, VerifyPackage

\* A publisher writes an object only where there is none.
LEMMA WriteLasts ==
  ASSUME PInv, UNCHANGED <<backend, manifests>>, NEW k \in Packages, NEW x \in Objects,
         stored' = [stored EXCEPT ![k] = x],
         stored[k] = NoObject \/ (x.bytes = stored[k].bytes /\ x.links = 1)
  PROVE  Lasting
<1>1. stored \in [Packages -> Objects] /\ manifests \in [Packages -> Manifests \cup {Missing}]
  BY DEF PInv, PackagesTypeOK
<1>2. stored' \in [Packages -> Objects] /\ stored'[k] = x /\ \A p \in Packages \ {k} : stored'[p] = stored[p]
  BY <1>1
<1>3. \A p \in Packages : Legible(p) => Legible(p)' /\ stored'[p].bytes = stored[p].bytes
  <2> SUFFICES ASSUME NEW p \in Packages, Legible(p)
               PROVE  Legible(p)' /\ stored'[p].bytes = stored[p].bytes
    OBVIOUS
  <2>1. CASE p = k
    <3>1. stored[k].bytes # Missing
      BY <2>1 DEF Legible
    <3>2. stored[k] # NoObject
      BY <3>1 DEF NoObject
    <3>3. QED BY <2>1, <3>1, <3>2, <1>2 DEF Legible
  <2>2. CASE p # k
    BY <2>2, <1>2 DEF Legible
  <2>3. QED BY <2>1, <2>2
<1>4. QED BY <1>1, <1>2, <1>3 DEF Lasting

\* Each step keeps the invariant.
LEMMA PackagesStep == PInv /\ [PackagesNext]_packageVars => PInv'
<1> SUFFICES ASSUME PInv, [PackagesNext]_packageVars PROVE PInv'
  OBVIOUS
<1>a. PackagesTypeOK
  BY DEF PInv
<1>b. \A w \in Publishers : ~InPublisher(w, "idle") =>
        /\ publisher[w] \in Publishing /\ Sha(w) \in Packages
        /\ stored[Sha(w)] \in Objects
  BY <1>a, PackageAssumption DEF PackagesTypeOK, InPublisher, AtRest, Publishing, Sha
<1>o. \A w \in Publishers : ~InPublisher(w, "idle") => [bytes |-> Sha(w), links |-> 1] \in Objects
                                                 /\ [bytes |-> Sha(w), links |-> 2] \in Objects
  BY <1>b DEF Objects
<1>1. ASSUME NEW w \in Publishers, NEW m \in Manifests, NEW b, Publish(w, m, b) PROVE PInv'
  <2> DEFINE x == [pc |-> "write", manifest |-> m]
  <2>1. x \in Publishing /\ x.pc = "write"
    BY DEF Publishing
  <2>2. publisher' = [publisher EXCEPT ![w] = x]
    BY <1>1 DEF Publish
  <2>3. Lasting /\ (\A p \in Packages : manifests'[p] = manifests[p]) /\ UNCHANGED <<pointer, download>>
    BY <1>1, SameLasts DEF Publish, SameStore
  <2> HIDE DEF x
  <2>4. QED BY <2>1, <2>2, <2>3, PublisherKeeps
<1>2. ASSUME NEW w \in Publishers, NEW b \in BOOLEAN, SaveObject(w, b) PROVE PInv'
  <2>1. /\ UNCHANGED <<backend, manifests, pointer, download>> /\ ~InPublisher(w, "idle")
        /\ GivesUp(w) \/ PublishTo(w, "check") \/ PublishTo(w, "compare")
    BY <1>2 DEF SaveObject, InPublisher
  <2>2. Lasting
    <3> DEFINE k == Sha(w)
               x == [bytes |-> k, links |-> 1]
    <3>1. x \in Objects /\ k \in Packages
      BY <2>1, <1>b, <1>o
    <3>2. \/ stored[k] = NoObject /\ stored' = [stored EXCEPT ![k] = x]
          \/ stored' = stored
      BY <1>2 DEF SaveObject
    <3> HIDE DEF x, k
    <3>3. QED BY <2>1, <3>1, <3>2, WriteLasts, SameLasts
  <2>3. QED BY <2>1, <2>2, PublisherGoesOn
<1>3. ASSUME NEW w \in Publishers, NEW b \in BOOLEAN, UnlinkFile(w, b) PROVE PInv'
  <2>1. /\ UNCHANGED <<backend, manifests, pointer, download>> /\ ~InPublisher(w, "idle")
        /\ PublishTo(w, "check") \/ PublishTo(w, "compare")
    BY <1>3 DEF UnlinkFile, InPublisher
  <2>2. Lasting
    <3> DEFINE k == Sha(w)
               x == [stored[k] EXCEPT !.links = 1]
    <3>1. k \in Packages /\ stored[k] \in Objects
      BY <2>1, <1>b
    <3>2. x \in Objects /\ x.bytes = stored[k].bytes /\ x.links = 1
      BY <3>1 DEF Objects
    <3>3. stored' = [stored EXCEPT ![k] = x] \/ stored' = stored
      BY <1>3, <1>a DEF UnlinkFile, PackagesTypeOK
    <3> HIDE DEF x, k
    <3>4. QED BY <2>1, <3>1, <3>2, <3>3, WriteLasts, SameLasts
  <2>3. QED BY <2>1, <2>2, PublisherGoesOn
<1>4. ASSUME NEW w \in Publishers, LinkFile(w) PROVE PInv'
  <2>1. /\ UNCHANGED <<backend, manifests, pointer, download>> /\ ~InPublisher(w, "idle")
        /\ PublishTo(w, "linked") \/ PublishTo(w, "taken")
    BY <1>4 DEF LinkFile, InPublisher
  <2>2. Lasting
    <3> DEFINE k == Sha(w)
               x == [bytes |-> k, links |-> 2]
    <3>1. x \in Objects /\ k \in Packages
      BY <2>1, <1>b, <1>o
    <3>2. \/ stored[k] = NoObject /\ stored' = [stored EXCEPT ![k] = x]
          \/ stored' = stored
      BY <1>4 DEF LinkFile
    <3> HIDE DEF x, k
    <3>3. QED BY <2>1, <3>1, <3>2, WriteLasts, SameLasts
  <2>3. QED BY <2>1, <2>2, PublisherGoesOn
<1>5. ASSUME NEW w \in Publishers, CompareObject(w) PROVE PInv'
  <2>1. SameStore /\ ~InPublisher(w, "idle") /\ (PublishTo(w, "check") \/ GivesUp(w))
    BY <1>5 DEF CompareObject, InPublisher
  <2>2. QED BY <2>1, SameLasts, PublisherGoesOn DEF SameStore
<1>6. ASSUME NEW w \in Publishers, ReadBack(w) PROVE PInv'
  <2> DEFINE m == publisher[w].manifest
  <2>1. /\ SameStore /\ ~InPublisher(w, "idle")
        /\ \/ PublishTo(w, "manifest") /\ Legible(Sha(w)) /\ VerifyPackage(m, stored[Sha(w)].bytes)
           \/ GivesUp(w)
    BY <1>6 DEF ReadBack, InPublisher
  <2>2. (PublishTo(w, "manifest") /\ Serves(ShaOf[m], m)) \/ GivesUp(w)
    BY <2>1 DEF Serves, Sha
  <2>4. Lasting /\ (\A p \in Packages : manifests'[p] = manifests[p]) /\ UNCHANGED <<pointer, download>>
    BY <2>1, SameLasts DEF SameStore
  <2>m. m = publisher[w].manifest
    OBVIOUS
  <2>n. SameStore /\ ~InPublisher(w, "idle")
    BY <2>1
  <2>s. PICK n : n = m
    OBVIOUS
  <2>3. Serves(ShaOf[n], n) => Serves(ShaOf[n], n)'
    BY <2>n, SameLasts DEF SameStore
  <2>5. (PublishTo(w, "manifest") /\ Serves(ShaOf[n], n)') \/ GivesUp(w)
    BY <2>2, <2>3, <2>s
  <2>6. QED BY <2>n, <2>4, <2>5, <2>s, PublisherGoesOn
<1>7. ASSUME NEW w \in Publishers, LookUpManifest(w) PROVE PInv'
  <2>1. /\ SameStore /\ ~InPublisher(w, "idle") /\ publisher[w].pc = "manifest"
        /\ PublishTo(w, "create") \/ PublishTo(w, "activate") \/ GivesUp(w)
    BY <1>7 DEF LookUpManifest, InPublisher
  <2>s. PICK n : n = publisher[w].manifest
    OBVIOUS
  <2>2. Serves(ShaOf[n], n)
    BY <2>1, <2>s DEF PInv, VerifiedServe, Sha
  <2>3. /\ Lasting /\ (\A p \in Packages : manifests'[p] = manifests[p]) /\ UNCHANGED <<pointer, download>>
        /\ Serves(ShaOf[n], n)'
    BY <2>1, <2>2, SameLasts DEF SameStore
  <2>4. QED BY <2>1, <2>3, <2>s, PublisherGoesOn
<1>8. ASSUME NEW w \in Publishers, CreateManifest(w) PROVE PInv'
  <2>1. /\ UNCHANGED <<backend, stored, pointer, download>> /\ ~InPublisher(w, "idle") /\ publisher[w].pc = "create"
        /\ \/ /\ manifests[Sha(w)] = Missing /\ PublishTo(w, "activate")
              /\ manifests' = [manifests EXCEPT ![Sha(w)] = publisher[w].manifest]
           \/ GivesUp(w) /\ manifests' = manifests
    BY <1>8 DEF CreateManifest, InPublisher
  <2>s. PICK n : n = publisher[w].manifest
    OBVIOUS
  <2>2. Serves(ShaOf[n], n) /\ Sha(w) = ShaOf[n] /\ n \in Manifests /\ ShaOf[n] \in Packages
    BY <2>1, <2>s, <1>b DEF PInv, VerifiedServe, Sha, Publishing
  <2>3. Serves(ShaOf[n], n)'
    BY <2>1, <2>2 DEF Serves, Legible, VerifyPackage
  <2>4. Lasting
    BY <2>1, <2>2, <2>s, <1>a DEF Lasting, PackagesTypeOK, Legible
  <2>5. \A p \in Packages : manifests'[p] = manifests[p] \/ (p = ShaOf[n] /\ manifests'[p] = n)
    BY <2>1, <2>2, <2>s, <1>a DEF PackagesTypeOK
  <2>6. \A p \in Packages : manifests'[p] = manifests[p] \/ Serves(p, manifests[p])'
    BY <2>3, <2>5 DEF Serves
  <2>7. QED BY <2>1, <2>3, <2>4, <2>6, <2>s, PublisherGoesOn
<1>9. ASSUME NEW w \in Publishers, ActivateManifest(w) PROVE PInv'
  <2>1. /\ UNCHANGED <<backend, stored, manifests, download>> /\ ~InPublisher(w, "idle")
        /\ manifests[Sha(w)] # Missing /\ pointer' = Sha(w)
        /\ publisher' = [publisher EXCEPT ![w].pc = "done"]
    BY <1>9 DEF ActivateManifest, InPublisher, PublishTo
  <2> DEFINE x == [publisher[w] EXCEPT !.pc = "done"]
  <2>2. x \in Publishing /\ x.pc = "done"
    BY <2>1, <1>b DEF Publishing
  <2>3. publisher' = [publisher EXCEPT ![w] = x]
    BY <2>1, <1>a DEF PackagesTypeOK
  <2> HIDE DEF x
  <2>4. PackagesTypeOK'
    BY <2>1, <2>2, <2>3, <1>a, <1>b DEF PackagesTypeOK
  <2>5. StoredServe' /\ FollowersHold' /\ PointerNames'
    BY <2>1 DEF PInv, StoredServe, FollowersHold, PointerNames, Serves, Legible, VerifyPackage
  <2>6. VerifiedServe'
    BY <2>1, <2>2, <2>3, <1>a DEF PInv, VerifiedServe, PackagesTypeOK, Serves, Legible, VerifyPackage, Sha
  <2>7. QED BY <2>4, <2>5, <2>6 DEF PInv
<1>10. ASSUME NEW w \in Publishers, PublisherStops(w) PROVE PInv'
  BY <1>10, SameLasts, PublisherGoesOn DEF PublisherStops, SameStore
<1>11. ASSUME NEW d \in Downloads, ReadPointer(d) PROVE PInv'
  <2> DEFINE r == PointedAt(pointer)
  <2>1. r \in [pc: {"pointed"}, id: Packages] /\ r.pc = "pointed"
    BY <1>11, <1>a DEF ReadPointer, PointedAt, PackagesTypeOK
  <2>2. Follow(d, r) /\ SamePackages
    BY <1>11 DEF ReadPointer
  <2> HIDE DEF r
  <2>3. QED BY <2>1, <2>2, FollowKeeps
<1>12. ASSUME NEW d \in Downloads, ReadManifest(d) PROVE PInv'
  <2> DEFINE r == [pc |-> "object", id |-> download[d].id, manifest |-> manifests[download[d].id]]
  <2>1. download[d].id \in Packages
    BY <1>12, <1>a DEF ReadManifest, PackagesTypeOK, AtRest, Following, Described
  <2>2. CASE manifests[download[d].id] = Missing
    <3>1. Follow(d, AtRest) /\ SamePackages
      BY <2>2, <1>12 DEF ReadManifest
    <3>2. AtRest.pc = "idle"
      BY DEF AtRest
    <3>3. QED BY <3>1, <3>2, FollowKeeps
  <2>3. CASE manifests[download[d].id] # Missing
    <3>1. manifests[download[d].id] \in Manifests
      BY <2>1, <2>3, <1>a DEF PackagesTypeOK
    <3>2. r \in Following /\ r.pc = "object" /\ r.manifest # Missing /\ manifests[r.id] = r.manifest
      BY <2>1, <2>3, <3>1 DEF Following
    <3>3. Follow(d, r) /\ SamePackages
      BY <2>3, <1>12 DEF ReadManifest
    <3> HIDE DEF r
    <3>4. QED BY <3>2, <3>3, FollowKeeps
  <2>4. QED BY <2>2, <2>3
<1>13. ASSUME NEW d \in Downloads, Describe(d) PROVE PInv'
  <2> DEFINE id == download[d].id
             m  == download[d].manifest
             object == stored[ShaOf[m]]
             r  == [pc |-> "described", id |-> id, manifest |-> m, bytes |-> object.bytes]
  <2>0. download[d].pc = "object" /\ SamePackages /\ (Follow(d, AtRest) \/ Follow(d, r))
    BY <1>13 DEF Describe
  <2>1. id \in Packages /\ m \in Manifests /\ m # Missing /\ manifests[id] = m
    BY <2>0, <1>a DEF PInv, FollowersHold, PackagesTypeOK, AtRest, Following, Described
  <2>2. ShaOf[m] = id /\ object \in Objects /\ object.bytes = ShaOf[m]
    BY <2>1, <1>a DEF PInv, StoredServe, Serves, VerifyPackage, PackagesTypeOK
  <2>3. object.bytes \in Packages \cup {Foreign, Missing}
    BY <2>2 DEF Objects
  <2>4. /\ r \in Described /\ r.pc = "described" /\ r.manifest # Missing /\ manifests[r.id] = r.manifest
        /\ r.bytes = ShaOf[r.manifest]
    BY <2>1, <2>2, <2>3 DEF Described
  <2> HIDE DEF r
  <2>5. AtRest.pc = "idle"
    BY DEF AtRest
  <2>6. QED BY <2>0, <2>4, <2>5, FollowKeeps
<1>14. ASSUME NEW d \in Downloads, DownloadEnds(d) PROVE PInv'
  <2>1. Follow(d, AtRest) /\ SamePackages /\ AtRest.pc = "idle"
    BY <1>14 DEF DownloadEnds, AtRest
  <2>2. QED BY <2>1, FollowKeeps
<1>15. ASSUME UNCHANGED packageVars PROVE PInv'
  BY <1>15 DEF packageVars, PInv, PackagesTypeOK, StoredServe, VerifiedServe, PointerNames, FollowersHold,
               Serves, Legible, VerifyPackage, Sha
<1>16. QED
  BY <1>1, <1>2, <1>3, <1>4, <1>5, <1>6, <1>7, <1>8, <1>9, <1>10, <1>11, <1>12, <1>13, <1>14, <1>15
  DEF PackagesNext

\* Whatever publishers die, race or are refused half way, in the bucket or in a
\* directory: what the pointer names can be downloaded, and is what was verified.
THEOREM PointersServe == PackagesSpec => []PointerIsServable
<1>1. PInv => PointerIsServable
  <2> SUFFICES ASSUME PInv PROVE PointerIsServable
    OBVIOUS
  <2>1. pointer # Missing => pointer \in Packages /\ Serves(pointer, manifests[pointer])
    BY DEF PInv, PackagesTypeOK, PointerNames, StoredServe
  <2>2. ASSUME NEW d \in Downloads, download[d].pc = "described"
        PROVE  /\ manifests[download[d].id] = download[d].manifest
               /\ VerifyPackage(download[d].manifest, download[d].bytes)
    <3>1. download[d].id \in Packages
      BY <2>2 DEF PInv, PackagesTypeOK, AtRest, Following, Described
    <3>2. QED
      BY <2>2, <3>1 DEF PInv, FollowersHold, StoredServe, Serves, VerifyPackage
  <2>3. QED BY <2>1, <2>2 DEF PointerIsServable, PInv, PointerNames, Serves
<1>2. QED BY PackagesStart, PackagesStep, <1>1, PTL DEF PackagesSpec

-----------------------------------------------------------------------------
(* Deletions replayed on a restored database.                              *)

Targets == [map: [Identities -> Accounts \cup {NoAccount}], mark: [Identities -> Nat],
            data: [Accounts -> {"live", "closing", "none"}]]
NoHash  == [map |-> <<>>, mark |-> <<>>, data |-> <<>>]
Restorers ==
  [pc: {"idle", "map", "recheck", "next", "erase", "sweep", "verify", "hash", "final",
        "reconciled", "refused"},
   active: SUBSET Identities, owner: [Identities -> Accounts \cup {NoAccount}],
   todo: SUBSET Accounts, doing: Accounts \cup {NoAccount}, hash: Targets \cup {NoHash},
   unread: SUBSET {"pending", "ledger", "target"}]

RestoreTypeOK ==
  /\ now \in Nat
  /\ ledger \in [Identities -> Nat] /\ frozen \in [Identities -> Nat]
  /\ target \in Targets /\ restored \in Targets
  /\ restorer \in Restorers

\* The target is of the restore point, and the accounts it maps had data; what the
\* ledger takes after it was frozen is of later than the cutoff.
RestoredOK ==
  /\ RestoredFrom(restored, frozen)
  /\ Cutoff <= now /\ \A i \in Identities : ledger[i] = frozen[i] \/ Cutoff <= ledger[i]
  /\ \A a \in Doomed : restored.data[a] = "live"

\* Until the retention of the markers has passed, none of those replayed is collected.
InForce == now < RestoreAt + TombstoneRetention

Begun   == {"next", "erase", "sweep", "verify", "hash", "final", "reconciled"}

\* A run's active markers are those of after the restore point, and others whose
\* identities nobody held any more at that point.
ActiveAreLater ==
  restorer.pc \notin {"idle", "refused"} =>
    \A i \in Identities :
      /\ Later(i) => i \in restorer.active
      /\ i \in restorer.active /\ ~Later(i) => restored.map[i] = NoAccount
      /\ frozen[i] <= Cutoff

\* A run erases those the markers match, each once.
OwnersAreRestored ==
  restorer.pc \in Begun \cup {"recheck"} =>
    /\ restorer.owner = restored.map
    /\ \A i \in Identities : Later(i) => restored.map[i] # NoAccount
    /\ restorer.todo \subseteq Doomed
    /\ restorer.pc = "recheck" => restorer.todo = Doomed
    /\ restorer.pc \in {"hash", "final", "reconciled"} => restorer.todo = {}
    /\ restorer.pc \in {"erase", "sweep", "verify"} => restorer.doing \in Doomed \ restorer.todo

YetToErase(i) ==
  \/ restored.map[i] \in restorer.todo
  \/ restorer.pc = "erase" /\ restored.map[i] = restorer.doing

\* An account still to be erased has its identities, whoever signs up meanwhile.
StillMapped ==
  restorer.pc \in Begun =>
    \A i \in Identities : Later(i) /\ YetToErase(i) => target.map[i] = restored.map[i]

\* One that was erased has none, and no data.
IdentitiesGone ==
  restorer.pc \in Begun /\ InForce =>
    \A i \in Identities :
      Later(i) /\ ~YetToErase(i) => target.map[i] = NoAccount /\ target.mark[i] = frozen[i]
DataGone ==
  restorer.pc \in Begun =>
    \A a \in Doomed :
      \/ a \in restorer.todo
      \/ restorer.pc \in {"erase", "sweep"} /\ a = restorer.doing
      \/ target.data[a] = "none"

\* What a run fingerprints late enough to be used is erased.
Erased(db) ==
  /\ \A i \in Identities : Later(i) => db.map[i] = NoAccount /\ db.mark[i] = frozen[i]
  /\ \A a \in Doomed : db.data[a] = "none"
HashIsErased ==
  (restorer.pc = "final" /\ InForce) \/ restorer.pc = "reconciled" => Erased(restorer.hash)

\* Nobody else loses anything.
OthersStay ==
  /\ \A a \in Accounts \ Doomed : restored.data[a] = "live" => target.data[a] = "live"
  /\ \A i \in Identities : restored.map[i] # NoAccount /\ ~Later(i) => target.map[i] = restored.map[i]

OInv ==
  /\ RestoreTypeOK /\ RestoredOK /\ ActiveAreLater /\ OwnersAreRestored /\ StillMapped
  /\ IdentitiesGone /\ DataGone /\ HashIsErased /\ OthersStay

LEMMA RestoreNumbers ==
  /\ Earliest \in Nat /\ RestoreAt \in Nat /\ Cutoff \in Nat /\ TombstoneRetention \in Nat
  /\ NoAccount \notin Accounts
BY RestoreAssumption

LEMMA NoRestorerTyped == NoRestorer \in Restorers /\ NoRestorer.pc = "idle"
<1> DEFINE o == [i \in Identities |-> NoAccount]
<1>1. o \in [Identities -> Accounts \cup {NoAccount}] /\ NoHash \in Targets \cup {NoHash}
  OBVIOUS
<1>2. NoRestorer = [pc |-> "idle", active |-> {}, owner |-> o, todo |-> {}, doing |-> NoAccount,
                    hash |-> NoHash, unread |-> {}]
  BY DEF NoRestorer, NoHash
<1> HIDE DEF o, NoHash
<1>3. QED BY <1>1, <1>2 DEF Restorers

LEMMA RestoreStart == RestoreInit => OInv
<1> SUFFICES ASSUME RestoreInit PROVE OInv
  OBVIOUS
<1>1. PICK map \in [Identities -> Accounts \cup {NoAccount}] :
        target = [map  |-> map,
                  mark |-> [i \in Identities |-> IF ledger[i] \in 1 .. RestoreAt THEN ledger[i] ELSE 0],
                  data |-> [a \in Accounts |-> IF \E i \in Identities : map[i] = a THEN "live" ELSE "none"]]
  BY DEF RestoreInit
<1>2. /\ now = Cutoff /\ ledger \in [Identities -> 0 .. Cutoff + 1] /\ frozen = ledger /\ restored = target
      /\ restorer = NoRestorer /\ RestoredFrom(target, ledger)
  BY DEF RestoreInit
<1>3. ledger \in [Identities -> Nat]
  BY <1>2, RestoreNumbers
<1>4. target \in Targets
  <2> DEFINE k == [i \in Identities |-> IF ledger[i] \in 1 .. RestoreAt THEN ledger[i] ELSE 0]
             d == [a \in Accounts |-> IF \E i \in Identities : map[i] = a THEN "live" ELSE "none"]
  <2>1. k \in [Identities -> Nat] /\ d \in [Accounts -> {"live", "closing", "none"}]
    BY <1>3
  <2>2. target = [map |-> map, mark |-> k, data |-> d]
    BY <1>1
  <2> HIDE DEF k, d
  <2>3. QED BY <2>1, <2>2 DEF Targets
<1>5. RestoreTypeOK
  BY <1>2, <1>3, <1>4, RestoreNumbers, NoRestorerTyped DEF RestoreTypeOK
<1>6. \A a \in Doomed : restored.data[a] = "live"
  <2> SUFFICES ASSUME NEW a \in Doomed PROVE restored.data[a] = "live"
    OBVIOUS
  <2>1. a # NoAccount /\ \E i \in Identities : target.map[i] = a
    BY <1>2 DEF Doomed
  <2>2. \A i \in Identities : target.map[i] = map[i]
    BY <1>1
  <2>3. a \in Accounts /\ \E i \in Identities : map[i] = a
    BY <2>1, <2>2
  <2>4. target.data = [b \in Accounts |-> IF \E i \in Identities : map[i] = b THEN "live" ELSE "none"]
    BY <1>1
  <2>5. QED BY <2>3, <2>4, <1>2
<1>7. OthersStay
  BY <1>2 DEF OthersStay
<1>c. Cutoff <= now /\ \A i \in Identities : ledger[i] = frozen[i] \/ Cutoff <= ledger[i]
  BY <1>2, RestoreNumbers
<1>8. QED
  BY <1>2, <1>5, <1>6, <1>7, <1>c, NoRestorerTyped
  DEF OInv, RestoredOK, ActiveAreLater, OwnersAreRestored, StillMapped, IdentitiesGone, DataGone,
      HashIsErased, Begun

\* Time passes, the source takes markers, somebody the markers do not block signs
\* up, a marker that has had its time is collected: the run's work stands.
LEMMA MeanwhileKeeps ==
  ASSUME OInv, UNCHANGED <<restorer, restored, frozen>>,
         now' \in Nat, now <= now', ledger' \in [Identities -> Nat], target' \in Targets,
         \A i \in Identities : ledger'[i] = ledger[i] \/ ledger'[i] = now,
         \A i \in Identities :
           \/ target'.map[i] = target.map[i]
           \/ target.map[i] = NoAccount /\ target.mark[i] + TombstoneRetention <= now,
         \A i \in Identities :
           target'.mark[i] = target.mark[i] \/ target.mark[i] + TombstoneRetention <= now,
         \A a \in Accounts :
           \/ target'.data[a] = target.data[a]
           \/ target'.data[a] = "live" /\ (target.data[a] = "live" \/ restored.data[a] = "none")
  PROVE  OInv'
<1>a. RestoreTypeOK
  BY DEF OInv
<1>n. now \in Nat /\ (InForce' => InForce)
  BY <1>a, RestoreNumbers DEF InForce, RestoreTypeOK
<1>d. Doomed' = Doomed /\ (\A i \in Identities : Later(i)' = Later(i)) /\ Doomed \subseteq Accounts
  BY <1>a DEF Doomed, Later, RestoreTypeOK, Targets
<1>y. \A i \in Identities : YetToErase(i)' = YetToErase(i)
  BY DEF YetToErase
<1>1. RestoreTypeOK' /\ RestoredOK'
  <2>1. RestoreTypeOK' /\ RestoredFrom(restored, frozen)' /\ \A a \in Doomed' : restored'.data[a] = "live"
    BY <1>a, <1>d DEF OInv, RestoreTypeOK, RestoredOK, RestoredFrom
  <2>2. Cutoff <= now' /\ \A i \in Identities : ledger'[i] = frozen'[i] \/ Cutoff <= ledger'[i]
    BY <1>n, RestoreNumbers DEF OInv, RestoredOK
  <2>3. QED BY <2>1, <2>2 DEF RestoredOK
<1>2. ActiveAreLater'
  BY <1>d DEF OInv, ActiveAreLater
<1>3. OwnersAreRestored'
  BY <1>d DEF OInv, OwnersAreRestored
<1>4. StillMapped'
  <2> SUFFICES ASSUME restorer.pc \in Begun, NEW i \in Identities, Later(i), YetToErase(i)
               PROVE  target'.map[i] = restored.map[i]
    BY <1>d, <1>y DEF StillMapped
  <2>1. target.map[i] = restored.map[i]
    BY DEF OInv, StillMapped
  <2>2. restored.map[i] # NoAccount
    BY DEF OInv, OwnersAreRestored
  <2>3. QED BY <2>1, <2>2
<1>5. IdentitiesGone'
  <2> SUFFICES ASSUME restorer.pc \in Begun, InForce', NEW i \in Identities, Later(i), ~YetToErase(i)
               PROVE  target'.map[i] = NoAccount /\ target'.mark[i] = frozen[i]
    BY <1>d, <1>y DEF IdentitiesGone
  <2>1. target.map[i] = NoAccount /\ target.mark[i] = frozen[i]
    BY <1>n DEF OInv, IdentitiesGone
  <2>2. frozen[i] \in Nat /\ frozen[i] > RestoreAt
    BY <1>a DEF Later, RestoreTypeOK
  <2>3. ~(target.mark[i] + TombstoneRetention <= now)
    BY <2>1, <2>2, <1>n, RestoreNumbers DEF InForce
  <2>4. QED BY <2>1, <2>3
<1>6. DataGone'
  <2> SUFFICES ASSUME restorer.pc \in Begun, NEW a \in Doomed, target.data[a] = "none"
               PROVE  target'.data[a] = "none"
    BY <1>d DEF OInv, DataGone
  <2>1. a \in Accounts /\ restored.data[a] = "live"
    BY <1>d DEF OInv, RestoredOK
  <2>2. QED BY <2>1
<1>7. HashIsErased'
  BY <1>n, <1>d DEF OInv, HashIsErased, Erased
<1>8. OthersStay'
  BY <1>d DEF OInv, OthersStay
<1>9. QED BY <1>1, <1>2, <1>3, <1>4, <1>5, <1>6, <1>7, <1>8 DEF OInv

\* Nothing is claimed of a run that has stopped.
LEMMA StoppedKeeps ==
  ASSUME OInv, UNCHANGED <<now, ledger, frozen, target, restored>>,
         restorer' \in Restorers, restorer'.pc \in {"idle", "refused"}
  PROVE  OInv'
<1>1. RestoreTypeOK' /\ RestoredOK' /\ OthersStay'
  BY DEF OInv, RestoreTypeOK, RestoredOK, RestoredFrom, OthersStay, Doomed, Later
<1>2. restorer'.pc \notin Begun \cup {"recheck"} /\ restorer'.pc \notin {"final", "reconciled"}
  BY DEF Begun
<1>3. ActiveAreLater' /\ OwnersAreRestored' /\ StillMapped' /\ IdentitiesGone' /\ DataGone' /\ HashIsErased'
  BY <1>2 DEF ActiveAreLater, OwnersAreRestored, StillMapped, IdentitiesGone, DataGone, HashIsErased
<1>4. QED BY <1>1, <1>3 DEF OInv

LEMMA RefusedKeeps ==
  ASSUME OInv, RefuseRun, UNCHANGED <<now, ledger, frozen, target, restored>>
  PROVE  OInv'
<1>1. restorer' \in Restorers /\ restorer'.pc = "refused"
  BY DEF OInv, RestoreTypeOK, RefuseRun, RunTo, Restorers
<1>2. QED BY <1>1, StoppedKeeps

\* Who is to be erased is settled before the first run.
LEMMA SameDoomed ==
  ASSUME RestoreTypeOK, UNCHANGED <<frozen, restored>>
  PROVE  /\ Doomed' = Doomed /\ Doomed \subseteq Accounts /\ NoAccount \notin Doomed
         /\ \A i \in Identities : Later(i)' = Later(i)
         /\ \A i \in Identities : Later(i) /\ restored.map[i] # NoAccount => restored.map[i] \in Doomed
BY DEF Doomed, Later, RestoreTypeOK, Targets

\* The run is admitted with the markers of the frozen ledger that are in force.
LEMMA AdmitKeeps == ASSUME OInv, AdmitRun PROVE OInv'
<1> DEFINE act == {i \in Identities : InLedger(i)}
<1>a. RestoreTypeOK
  BY DEF OInv
<1>u. UNCHANGED <<now, ledger, frozen, target, restored>>
  BY DEF AdmitRun, Only, DatabasesRest
<1>1. CASE RefuseRun
  BY <1>1, <1>u, RefusedKeeps
<1>2. CASE /\ Admissible /\ Frozen /\ \A i \in Identities : ledger[i] <= Cutoff
           /\ restorer' = [restorer EXCEPT !.pc = "map", !.active = act]
  <2>1. act \subseteq Identities
    OBVIOUS
  <2>2. restorer' \in Restorers /\ restorer'.pc = "map" /\ restorer'.active = act
    <3> HIDE DEF act
    <3>1. QED BY <1>2, <1>a, <2>1 DEF RestoreTypeOK, Restorers
  <2>3. ASSUME NEW i \in Identities
        PROVE  /\ Later(i) => i \in act
               /\ i \in act /\ ~Later(i) => restored.map[i] = NoAccount
               /\ frozen[i] <= Cutoff
    <3>1. ledger[i] = frozen[i] /\ frozen[i] \in Nat /\ now \in Nat
      BY <1>2, <1>a DEF Frozen, RestoreTypeOK
    <3>2. RestoreAt <= now /\ now - RestoreAt < TombstoneRetention
      BY <1>2 DEF Admissible, InTime
    <3>3. Later(i) => i \in act
      BY <3>1, <3>2, RestoreNumbers DEF Later, InLedger
    <3>4. restored.map[i] # NoAccount => \/ frozen[i] = 0 \/ frozen[i] > RestoreAt
                                         \/ frozen[i] + TombstoneRetention <= RestoreAt
      BY DEF OInv, RestoredOK, RestoredFrom
    <3>5. i \in act => frozen[i] # 0 /\ frozen[i] + TombstoneRetention > now
      BY <3>1 DEF InLedger
    <3>6. frozen[i] <= Cutoff
      BY <1>2, <3>1
    <3>7. QED BY <3>1, <3>2, <3>3, <3>4, <3>5, <3>6, RestoreNumbers DEF Later
  <2>4. ActiveAreLater'
    BY <1>u, <2>2, <2>3 DEF ActiveAreLater, Later
  <2>5. RestoreTypeOK' /\ RestoredOK' /\ OthersStay'
    BY <1>a, <1>u, <2>2 DEF OInv, RestoreTypeOK, RestoredOK, RestoredFrom, OthersStay, Doomed, Later
  <2>6. OwnersAreRestored' /\ StillMapped' /\ IdentitiesGone' /\ DataGone' /\ HashIsErased'
    BY <2>2 DEF Begun, OwnersAreRestored, StillMapped, IdentitiesGone, DataGone, HashIsErased
  <2>7. QED BY <2>4, <2>5, <2>6 DEF OInv
<1>3. QED BY <1>1, <1>2 DEF AdmitRun

\* The accounts the markers match are those to erase, and no other.
LEMMA MatchKeeps == ASSUME OInv, MatchMappings PROVE OInv'
<1> DEFINE hit == {target.map[i] : i \in restorer.active} \ {NoAccount}
<1>a. RestoreTypeOK
  BY DEF OInv
<1>u. UNCHANGED <<now, ledger, frozen, target, restored>> /\ restorer.pc = "map"
  BY DEF MatchMappings, Only, DatabasesRest, InRun
<1>1. CASE RefuseRun
  BY <1>1, <1>u, RefusedKeeps
<1>2. CASE /\ target = restored /\ \A i \in restorer.active : Accounted(i)
           /\ \A i \in restorer.active : target.mark[i] \in {0, ledger[i]}
           /\ restorer' = [restorer EXCEPT !.pc = "recheck", !.todo = hit, !.owner = target.map]
  <2>t. /\ restorer.active \subseteq Identities
        /\ target.map \in [Identities -> Accounts \cup {NoAccount}]
        /\ frozen \in [Identities -> Nat] /\ restored.mark \in [Identities -> Nat]
    BY <1>a DEF RestoreTypeOK, Restorers, Targets
  <2>1. hit \subseteq Accounts
    BY <2>t
  <2>2. /\ restorer' \in Restorers /\ restorer'.pc = "recheck" /\ restorer'.todo = hit
        /\ restorer'.owner = target.map /\ restorer'.active = restorer.active
    <3> HIDE DEF hit
    <3>1. QED BY <1>2, <1>a, <2>1, <2>t DEF RestoreTypeOK, Restorers
  <2>3. \A i \in Identities : /\ Later(i) => i \in restorer.active
                              /\ i \in restorer.active /\ ~Later(i) => restored.map[i] = NoAccount
                              /\ frozen[i] <= Cutoff
    BY <1>u DEF OInv, ActiveAreLater
  <2>4. ASSUME NEW i \in Identities, Later(i) PROVE restored.map[i] # NoAccount
    <3>1. Accounted(i)
      BY <1>2, <2>3, <2>4
    <3>2. restored.mark[i] = IF frozen[i] \in 1 .. RestoreAt THEN frozen[i] ELSE 0
      BY DEF OInv, RestoredOK, RestoredFrom
    <3>3. restored.mark[i] = 0 /\ frozen[i] \in Nat /\ frozen[i] > RestoreAt
      BY <3>2, <2>t, <2>4, RestoreNumbers DEF Later
    <3>4. ASSUME target.mark[i] = ledger[i], ledger[i] <= RestoreAt PROVE restored.map[i] # NoAccount
      <4>1. ledger[i] = 0
        BY <1>2, <3>3, <3>4
      <4>2. ledger[i] = frozen[i] \/ Cutoff <= ledger[i]
        BY DEF OInv, RestoredOK
      <4>3. frozen[i] <= Cutoff
        BY <2>3
      <4>4. QED BY <3>3, <4>1, <4>2, <4>3, RestoreNumbers
    <3>5. QED BY <1>2, <3>1, <3>4 DEF Accounted
  <2>5. hit = Doomed
    <3>1. hit \subseteq Doomed
      BY <1>2, <2>3, <2>t DEF Doomed
    <3>2. Doomed \subseteq hit
      BY <1>2, <2>3, <2>t DEF Doomed
    <3>3. QED BY <3>1, <3>2
  <2>6. OwnersAreRestored'
    BY <1>2, <1>u, <2>2, <2>4, <2>5 DEF OwnersAreRestored, Doomed, Later
  <2>7. ActiveAreLater'
    BY <1>u, <2>2, <2>3 DEF ActiveAreLater, Later
  <2>8. RestoreTypeOK' /\ RestoredOK' /\ OthersStay'
    BY <1>a, <1>u, <2>2 DEF OInv, RestoreTypeOK, RestoredOK, RestoredFrom, OthersStay, Doomed, Later
  <2>9. StillMapped' /\ IdentitiesGone' /\ DataGone' /\ HashIsErased'
    BY <2>2 DEF Begun, StillMapped, IdentitiesGone, DataGone, HashIsErased
  <2>10. QED BY <2>6, <2>7, <2>8, <2>9 DEF OInv
<1>3. QED BY <1>1, <1>2 DEF MatchMappings

\* A step of the run after it has matched the markers: who is to be erased does not
\* change, and neither does what was restored.
Runs(pcs) ==
  /\ UNCHANGED <<now, ledger, frozen, restored>> /\ target' \in Targets /\ restorer' \in Restorers
  /\ restorer'.active = restorer.active /\ restorer'.owner = restorer.owner
  /\ restorer.pc \in Begun \cup {"recheck"} /\ restorer'.pc \in pcs

LEMMA RunKeeps ==
  ASSUME OInv, NEW pcs \in SUBSET Begun, Runs(pcs)
  PROVE  /\ RestoreTypeOK' /\ RestoredOK' /\ ActiveAreLater'
         /\ Doomed' = Doomed /\ (\A i \in Identities : Later(i)' = Later(i)) /\ InForce' = InForce
<1>a. RestoreTypeOK
  BY DEF OInv
<1>1. Doomed' = Doomed /\ (\A i \in Identities : Later(i)' = Later(i)) /\ InForce' = InForce
  BY <1>a, SameDoomed DEF Runs, InForce
<1>2. RestoreTypeOK' /\ RestoredOK'
  BY <1>a, <1>1 DEF Runs, OInv, RestoreTypeOK, RestoredOK, RestoredFrom
<1>3. restorer.pc \notin {"idle", "refused"}
  BY DEF Runs, Begun
<1>4. ActiveAreLater'
  BY <1>1, <1>3 DEF Runs, OInv, ActiveAreLater
<1>5. QED BY <1>1, <1>2, <1>4

\* What the run is to do is what it was, with one account less when it takes one up.
LEMMA RecheckKeeps == ASSUME OInv, Recheck PROVE OInv'
<1>a. RestoreTypeOK
  BY DEF OInv
<1>u. UNCHANGED <<now, ledger, frozen, target, restored>> /\ restorer.pc = "recheck"
  BY DEF Recheck, Only, DatabasesRest, InRun
<1>1. CASE RefuseRun
  BY <1>1, <1>u, RefusedKeeps
<1>2. CASE target = restored /\ RunTo("next")
  <2>1. /\ restorer' \in Restorers /\ restorer'.pc = "next" /\ restorer'.todo = restorer.todo
        /\ restorer'.owner = restorer.owner /\ restorer'.active = restorer.active
    BY <1>2, <1>a DEF RunTo, RestoreTypeOK, Restorers
  <2>2. Runs({"next"}) /\ {"next"} \in SUBSET Begun
    BY <1>u, <1>a, <2>1 DEF Runs, RestoreTypeOK, Begun
  <2>3. /\ RestoreTypeOK' /\ RestoredOK' /\ ActiveAreLater'
        /\ Doomed' = Doomed /\ (\A i \in Identities : Later(i)' = Later(i)) /\ InForce' = InForce
    BY <2>2, RunKeeps
  <2>4. restorer.todo = Doomed /\ restorer.owner = restored.map
        /\ \A i \in Identities : Later(i) => restored.map[i] # NoAccount
    BY <1>u DEF OInv, OwnersAreRestored
  <2>5. OwnersAreRestored'
    BY <1>u, <2>1, <2>3, <2>4 DEF OwnersAreRestored
  <2>6. \A i \in Identities : Later(i) => restored.map[i] \in Doomed
    BY <1>a, <2>4, SameDoomed DEF Doomed
  <2>7. StillMapped' /\ IdentitiesGone' /\ DataGone'
    BY <1>2, <1>u, <2>1, <2>3, <2>4, <2>6 DEF StillMapped, IdentitiesGone, DataGone, YetToErase
  <2>8. HashIsErased' /\ OthersStay'
    BY <1>u, <2>1, <2>3 DEF OInv, HashIsErased, OthersStay
  <2>9. QED BY <2>3, <2>5, <2>7, <2>8 DEF OInv
<1>3. QED BY <1>1, <1>2 DEF Recheck

LEMMA TakeUpKeeps == ASSUME OInv, NEW a \in Accounts, NextAccount(a) PROVE OInv'
<1> DEFINE todo == restorer.todo \ {a}
<1>a. RestoreTypeOK
  BY DEF OInv
<1>u. UNCHANGED <<now, ledger, frozen, target, restored>> /\ restorer.pc = "next" /\ a \in restorer.todo
  BY DEF NextAccount, Only, DatabasesRest, InRun
<1>1. todo \subseteq Accounts /\ todo \subseteq restorer.todo /\ a \notin todo
  BY <1>a DEF RestoreTypeOK, Restorers
<1>2. /\ restorer' \in Restorers /\ restorer'.pc = "erase" /\ restorer'.todo = todo /\ restorer'.doing = a
      /\ restorer'.owner = restorer.owner /\ restorer'.active = restorer.active
  <2>1. restorer' = [restorer EXCEPT !.pc = "erase", !.doing = a, !.todo = todo]
    BY <1>a DEF NextAccount, RestoreTypeOK, Restorers
  <2> HIDE DEF todo
  <2>2. QED BY <2>1, <1>1, <1>a DEF RestoreTypeOK, Restorers
<1>3. Runs({"erase"}) /\ {"erase"} \in SUBSET Begun
  BY <1>u, <1>a, <1>2 DEF Runs, RestoreTypeOK, Begun
<1>4. /\ RestoreTypeOK' /\ RestoredOK' /\ ActiveAreLater'
      /\ Doomed' = Doomed /\ (\A i \in Identities : Later(i)' = Later(i)) /\ InForce' = InForce
  BY <1>3, RunKeeps
<1>o. /\ restorer.owner = restored.map /\ restorer.todo \subseteq Doomed
      /\ \A i \in Identities : Later(i) => restored.map[i] # NoAccount
  BY <1>u DEF OInv, OwnersAreRestored, Begun
<1>5. OwnersAreRestored'
  BY <1>u, <1>1, <1>2, <1>4, <1>o DEF OwnersAreRestored
<1>y. \A i \in Identities : YetToErase(i)' <=> YetToErase(i)
  BY <1>u, <1>2 DEF YetToErase
<1>6. StillMapped' /\ IdentitiesGone'
  BY <1>u, <1>2, <1>4, <1>y DEF OInv, StillMapped, IdentitiesGone, Begun
<1>7. DataGone'
  BY <1>u, <1>2, <1>4 DEF OInv, DataGone, Begun
<1>8. HashIsErased' /\ OthersStay'
  BY <1>u, <1>2, <1>4 DEF OInv, HashIsErased, OthersStay
<1>9. QED BY <1>4, <1>5, <1>6, <1>7, <1>8 DEF OInv

\* The identities of one account go, all of them deleted after the restore point.
LEMMA EraseKeeps == ASSUME OInv, EraseIdentities PROVE OInv'
<1> DEFINE a == restorer.doing
           m == [i \in Identities |-> IF target.map[i] = a THEN NoAccount ELSE target.map[i]]
           k == [i \in Identities |-> IF i \in Refs(a) THEN ledger[i] ELSE target.mark[i]]
           d == [target.data EXCEPT ![a] = IF target.data[a] = "live" THEN "closing" ELSE target.data[a]]
<1>a. RestoreTypeOK
  BY DEF OInv
<1>u. UNCHANGED <<now, ledger, frozen, restored>> /\ restorer.pc = "erase"
  BY DEF EraseIdentities, DatabasesRest, InRun
<1>1. CASE RefuseRun /\ UNCHANGED target
  BY <1>1, <1>u, RefusedKeeps
<1>2. CASE /\ MayWrite /\ Mapped(target, a) \subseteq Refs(a) /\ RunTo("sweep")
           /\ target' = [target EXCEPT !.map  = [i \in Identities |-> IF @[i] = a THEN NoAccount ELSE @[i]],
                                       !.mark = [i \in Identities |-> IF i \in Refs(a) THEN ledger[i] ELSE @[i]],
                                       !.data[a] = IF @ = "live" THEN "closing" ELSE @]
  <2>t. /\ target.map \in [Identities -> Accounts \cup {NoAccount}] /\ target.mark \in [Identities -> Nat]
        /\ target.data \in [Accounts -> {"live", "closing", "none"}] /\ ledger \in [Identities -> Nat]
    BY <1>a DEF RestoreTypeOK, Targets
  <2>o. /\ restorer.owner = restored.map /\ restorer.todo \subseteq Doomed
        /\ \A i \in Identities : Later(i) => restored.map[i] # NoAccount
        /\ a \in Doomed \ restorer.todo /\ a \in Accounts /\ a # NoAccount
    BY <1>u, <1>a, SameDoomed DEF OInv, OwnersAreRestored, Begun
  <2>1. /\ m \in [Identities -> Accounts \cup {NoAccount}] /\ k \in [Identities -> Nat]
        /\ d \in [Accounts -> {"live", "closing", "none"}]
    BY <2>t
  <2>2. /\ \A i \in Identities : m[i] = IF target.map[i] = a THEN NoAccount ELSE target.map[i]
        /\ \A i \in Identities : k[i] = IF i \in Refs(a) THEN ledger[i] ELSE target.mark[i]
        /\ \A b \in Accounts \ {a} : d[b] = target.data[b]
    BY <2>t
  <2>3. target' = [target EXCEPT !.map = m, !.mark = k, !.data = d]
    BY <1>2, <1>a DEF RestoreTypeOK, Targets
  <2> HIDE DEF m, k, d
  <2>4. target' \in Targets /\ target'.map = m /\ target'.mark = k /\ target'.data = d
    BY <2>1, <2>3, <1>a DEF RestoreTypeOK, Targets
  <2>5. /\ restorer' \in Restorers /\ restorer'.pc = "sweep" /\ restorer'.todo = restorer.todo
        /\ restorer'.doing = a
        /\ restorer'.owner = restorer.owner /\ restorer'.active = restorer.active
    BY <1>2, <1>a DEF RunTo, RestoreTypeOK, Restorers
  <2>6. Runs({"sweep"}) /\ {"sweep"} \in SUBSET Begun
    BY <1>u, <2>4, <2>5 DEF Runs, Begun
  <2>7. /\ RestoreTypeOK' /\ RestoredOK' /\ ActiveAreLater'
        /\ Doomed' = Doomed /\ (\A i \in Identities : Later(i)' = Later(i)) /\ InForce' = InForce
    BY <2>6, RunKeeps
  <2>8. OwnersAreRestored'
    BY <1>u, <2>5, <2>7, <2>o DEF OwnersAreRestored
  <2>y. \A i \in Identities : /\ YetToErase(i)' <=> restored.map[i] \in restorer.todo
                              /\ YetToErase(i) <=> restored.map[i] \in restorer.todo \cup {a}
    BY <1>u, <2>5 DEF YetToErase
  <2>b. restorer.pc \in Begun
    BY <1>u DEF Begun
  <2>l. \A i \in Identities : /\ Later(i) => i \in restorer.active
                              /\ i \in restorer.active /\ ~Later(i) => restored.map[i] = NoAccount
    BY <1>u DEF OInv, ActiveAreLater
  <2>9. StillMapped'
    <3> SUFFICES ASSUME NEW i \in Identities, Later(i), restored.map[i] \in restorer.todo
                 PROVE  target'.map[i] = restored.map[i]
      BY <1>u, <2>7, <2>y DEF StillMapped
    <3>1. target.map[i] = restored.map[i]
      BY <2>b, <2>y DEF OInv, StillMapped
    <3>2. QED BY <3>1, <2>2, <2>4, <2>o
  <2>10. IdentitiesGone'
    <3> SUFFICES ASSUME InForce, NEW i \in Identities, Later(i), restored.map[i] \notin restorer.todo
                 PROVE  target'.map[i] = NoAccount /\ target'.mark[i] = frozen[i]
      BY <1>u, <2>7, <2>y DEF IdentitiesGone
    <3>1. CASE restored.map[i] = a
      <4>1. target.map[i] = a
        BY <3>1, <2>b, <2>y DEF OInv, StillMapped
      <4>2. i \in Refs(a) /\ ledger[i] = frozen[i]
        BY <3>1, <2>o, <2>l, <1>2 DEF Refs, MayWrite, Frozen
      <4>3. QED BY <4>1, <4>2, <2>2, <2>4
    <3>2. CASE restored.map[i] # a
      <4>1. target.map[i] = NoAccount /\ target.mark[i] = frozen[i]
        BY <3>2, <2>b, <2>y DEF OInv, IdentitiesGone
      <4>2. ledger[i] = frozen[i]
        BY <1>2 DEF MayWrite, Frozen
      <4>3. QED BY <4>1, <4>2, <2>2, <2>4
    <3>3. QED BY <3>1, <3>2
  <2>11. DataGone'
    <3> SUFFICES ASSUME NEW b \in Doomed, b \notin restorer.todo, b # a
                 PROVE  target'.data[b] = "none"
      BY <2>5, <2>7 DEF DataGone
    <3>1. target.data[b] = "none"
      BY <2>b DEF OInv, DataGone
    <3>2. b \in Accounts
      BY <1>a, <1>u, SameDoomed
    <3>3. QED BY <3>1, <3>2, <2>2, <2>4
  <2>12. HashIsErased'
    BY <2>5 DEF HashIsErased
  <2>13. OthersStay'
    <3>1. \A b \in Accounts \ Doomed : restored.data[b] = "live" => target'.data[b] = "live"
      BY <2>2, <2>4, <2>o DEF OInv, OthersStay
    <3>2. ASSUME NEW i \in Identities, restored.map[i] # NoAccount, ~Later(i)
          PROVE  target'.map[i] = restored.map[i]
      <4>1. target.map[i] = restored.map[i]
        BY <3>2 DEF OInv, OthersStay
      <4>2. i \notin restorer.active
        BY <3>2, <2>l
      <4>3. target.map[i] # a
        BY <4>2, <1>2 DEF Mapped, Refs
      <4>4. QED BY <4>1, <4>3, <2>2, <2>4
    <3>3. QED BY <3>1, <3>2, <2>7, <1>u DEF OthersStay
  <2>14. QED BY <2>7, <2>8, <2>9, <2>10, <2>11, <2>12, <2>13 DEF OInv
<1>3. QED BY <1>1, <1>2 DEF EraseIdentities

\* Its data goes: the account is one of those to be erased.
LEMMA SweepKeeps == ASSUME OInv, EraseData PROVE OInv'
<1> DEFINE a == restorer.doing
           d == [target.data EXCEPT ![a] = "none"]
<1>a. RestoreTypeOK
  BY DEF OInv
<1>u. UNCHANGED <<now, ledger, frozen, restored>> /\ restorer.pc = "sweep" /\ restorer.pc \in Begun
  BY DEF EraseData, DatabasesRest, InRun, Begun
<1>1. CASE RefuseRun /\ UNCHANGED target
  BY <1>1, <1>u, RefusedKeeps
<1>2. CASE target' = [target EXCEPT !.data[restorer.doing] = "none"] /\ RunTo("verify")
  <2>t. target.data \in [Accounts -> {"live", "closing", "none"}]
    BY <1>a DEF RestoreTypeOK, Targets
  <2>o. /\ restorer.owner = restored.map /\ restorer.todo \subseteq Doomed
        /\ \A i \in Identities : Later(i) => restored.map[i] # NoAccount
        /\ a \in Doomed \ restorer.todo /\ a \in Accounts
    BY <1>u, <1>a, SameDoomed DEF OInv, OwnersAreRestored
  <2>1. d \in [Accounts -> {"live", "closing", "none"}] /\ d[a] = "none" /\ \A b \in Accounts \ {a} : d[b] = target.data[b]
    BY <2>t, <2>o
  <2>3. target' = [target EXCEPT !.data = d]
    BY <1>2, <1>a DEF RestoreTypeOK, Targets
  <2> HIDE DEF d
  <2>4. target' \in Targets /\ target'.map = target.map /\ target'.mark = target.mark /\ target'.data = d
    BY <2>1, <2>3, <1>a DEF RestoreTypeOK, Targets
  <2>5. /\ restorer' \in Restorers /\ restorer'.pc = "verify" /\ restorer'.todo = restorer.todo
        /\ restorer'.doing = a
        /\ restorer'.owner = restorer.owner /\ restorer'.active = restorer.active
    BY <1>2, <1>a DEF RunTo, RestoreTypeOK, Restorers
  <2>6. Runs({"verify"}) /\ {"verify"} \in SUBSET Begun
    BY <1>u, <2>4, <2>5 DEF Runs, Begun
  <2>7. /\ RestoreTypeOK' /\ RestoredOK' /\ ActiveAreLater'
        /\ Doomed' = Doomed /\ (\A i \in Identities : Later(i)' = Later(i)) /\ InForce' = InForce
    BY <2>6, RunKeeps
  <2>8. OwnersAreRestored'
    BY <1>u, <2>5, <2>7, <2>o DEF OwnersAreRestored
  <2>y. \A i \in Identities : YetToErase(i)' <=> YetToErase(i)
    BY <1>u, <2>5 DEF YetToErase
  <2>9. StillMapped' /\ IdentitiesGone'
    BY <1>u, <2>4, <2>5, <2>7, <2>y DEF OInv, StillMapped, IdentitiesGone
  <2>10. DataGone'
    <3> SUFFICES ASSUME NEW b \in Doomed, b \notin restorer.todo
                 PROVE  target'.data[b] = "none"
      BY <2>5, <2>7 DEF DataGone
    <3>1. b # a => target.data[b] = "none"
      BY <1>u DEF OInv, DataGone
    <3>2. b \in Accounts
      BY <1>a, <1>u, SameDoomed
    <3>3. QED BY <3>1, <3>2, <2>1, <2>4
  <2>11. HashIsErased'
    BY <2>5 DEF HashIsErased
  <2>12. OthersStay'
    BY <1>u, <2>1, <2>4, <2>7, <2>o DEF OInv, OthersStay
  <2>13. QED BY <2>7, <2>8, <2>9, <2>10, <2>11, <2>12 DEF OInv
<1>3. QED BY <1>1, <1>2 DEF EraseData

\* A step that goes on with what is erased as it is.
LEMMA GoingOnKeeps ==
  ASSUME OInv, UNCHANGED <<now, ledger, frozen, target, restored>>, restorer' \in Restorers,
         NEW pc \in {"next", "hash", "final"}, restorer'.pc = pc,
         restorer.pc \in {"next", "verify", "hash", "final"},
         restorer'.todo = restorer.todo, restorer'.owner = restorer.owner,
         restorer'.active = restorer.active,
         pc # "next" => restorer.todo = {},
         pc = "final" => (InForce => Erased(restorer'.hash))
  PROVE  OInv'
<1>a. RestoreTypeOK
  BY DEF OInv
<1>b. restorer.pc \in Begun /\ restorer'.pc \in Begun
  BY DEF Begun
<1>1. Runs({pc}) /\ {pc} \in SUBSET Begun
  BY <1>a, <1>b DEF Runs, RestoreTypeOK
<1>2. /\ RestoreTypeOK' /\ RestoredOK' /\ ActiveAreLater'
      /\ Doomed' = Doomed /\ (\A i \in Identities : Later(i)' = Later(i)) /\ InForce' = InForce
  BY <1>1, RunKeeps
<1>3. OwnersAreRestored'
  BY <1>b, <1>2 DEF OInv, OwnersAreRestored
<1>y. \A i \in Identities : YetToErase(i)' <=> YetToErase(i)
  BY DEF YetToErase
<1>4. StillMapped' /\ IdentitiesGone' /\ DataGone'
  BY <1>b, <1>2, <1>y DEF OInv, StillMapped, IdentitiesGone, DataGone
<1>5. HashIsErased'
  BY <1>2 DEF HashIsErased, Erased
<1>6. OthersStay'
  BY <1>2 DEF OInv, OthersStay
<1>7. QED BY <1>2, <1>3, <1>4, <1>5, <1>6 DEF OInv

LEMMA VerifyKeeps == ASSUME OInv, VerifyErasure PROVE OInv'
<1>1. UNCHANGED <<now, ledger, frozen, target, restored>> /\ restorer.pc = "verify"
  BY DEF VerifyErasure, Only, DatabasesRest, InRun
<1>2. CASE RefuseRun
  BY <1>1, <1>2, RefusedKeeps
<1>3. CASE RunTo("next")
  <2>1. /\ restorer' \in Restorers /\ restorer'.pc = "next" /\ restorer'.todo = restorer.todo
        /\ restorer'.owner = restorer.owner /\ restorer'.active = restorer.active
    BY <1>3 DEF OInv, RunTo, RestoreTypeOK, Restorers
  <2>2. QED BY <1>1, <2>1, GoingOnKeeps
<1>4. QED BY <1>2, <1>3 DEF VerifyErasure

\* When nothing is left to do the target is erased, if the markers are in force.
LEMMA AllErased ==
  ASSUME OInv, restorer.pc = "hash", InForce
  PROVE  Erased(target)
<1>1. restorer.todo = {} /\ restorer.pc \in Begun
  BY DEF OInv, OwnersAreRestored, Begun
<1>2. \A i \in Identities : ~YetToErase(i)
  BY <1>1 DEF YetToErase
<1>3. QED BY <1>1, <1>2 DEF OInv, IdentitiesGone, DataGone, Erased

LEMMA HashKeeps == ASSUME OInv, Hash PROVE OInv'
<1>a. RestoreTypeOK
  BY DEF OInv
<1>1. UNCHANGED <<now, ledger, frozen, target, restored>> /\ restorer.pc = "hash"
  BY DEF Hash, Only, DatabasesRest, InRun
<1>2. /\ restorer' \in Restorers /\ restorer'.pc = "final" /\ restorer'.todo = restorer.todo
      /\ restorer'.owner = restorer.owner /\ restorer'.active = restorer.active /\ restorer'.hash = target
  BY <1>a DEF Hash, RestoreTypeOK, Restorers
<1>3. restorer.todo = {}
  BY <1>1 DEF OInv, OwnersAreRestored, Begun
<1>4. InForce => Erased(restorer'.hash)
  BY <1>1, <1>2, AllErased
<1>5. QED BY <1>1, <1>2, <1>3, <1>4, GoingOnKeeps

LEMMA ReadLastKeeps ==
  ASSUME OInv, NEW x \in {"pending", "ledger", "target"}, ReadLast(x)
  PROVE  OInv'
<1> DEFINE left == restorer.unread \ {x}
<1>a. RestoreTypeOK
  BY DEF OInv
<1>1. UNCHANGED <<now, ledger, frozen, target, restored>> /\ restorer.pc = "final"
  BY DEF ReadLast, Only, DatabasesRest, InRun
<1>2. CASE restorer' = [restorer EXCEPT !.pc = "refused"]
  BY <1>1, <1>2, RefusedKeeps DEF RefuseRun, RunTo
<1>3. CASE restorer' = [restorer EXCEPT !.unread = @ \ {x}]
  <2>1. left \in SUBSET {"pending", "ledger", "target"} /\ restorer' = [restorer EXCEPT !.unread = left]
    BY <1>3, <1>a DEF RestoreTypeOK, Restorers
  <2> HIDE DEF left
  <2>2. /\ restorer' \in Restorers /\ restorer'.pc = "final" /\ restorer'.todo = restorer.todo
        /\ restorer'.owner = restorer.owner /\ restorer'.active = restorer.active
        /\ restorer'.hash = restorer.hash
    BY <2>1, <1>1, <1>a DEF RestoreTypeOK, Restorers
  <2>3. restorer.todo = {} /\ (InForce => Erased(restorer.hash))
    BY <1>1 DEF OInv, OwnersAreRestored, Begun, HashIsErased
  <2>4. QED BY <1>1, <2>2, <2>3, GoingOnKeeps
<1>4. QED BY <1>2, <1>3 DEF ReadLast

\* A receipt is issued while the markers are in force.
LEMMA ReceiptKeeps == ASSUME OInv, Receipt PROVE OInv'
<1>a. RestoreTypeOK
  BY DEF OInv
<1>1. UNCHANGED <<now, ledger, frozen, target, restored>> /\ restorer.pc = "final" /\ restorer.pc \in Begun
  BY DEF Receipt, Only, DatabasesRest, InRun, Begun
<1>2. CASE RefuseRun
  BY <1>1, <1>2, RefusedKeeps
<1>3. CASE InTime /\ RunTo("reconciled")
  <2>1. /\ restorer' \in Restorers /\ restorer'.pc = "reconciled" /\ restorer'.todo = restorer.todo
        /\ restorer'.owner = restorer.owner /\ restorer'.active = restorer.active
        /\ restorer'.hash = restorer.hash
    BY <1>3, <1>a DEF RunTo, RestoreTypeOK, Restorers
  <2>2. Runs({"reconciled"}) /\ {"reconciled"} \in SUBSET Begun
    BY <1>1, <1>a, <2>1 DEF Runs, RestoreTypeOK, Begun
  <2>3. /\ RestoreTypeOK' /\ RestoredOK' /\ ActiveAreLater'
        /\ Doomed' = Doomed /\ (\A i \in Identities : Later(i)' = Later(i)) /\ InForce' = InForce
    BY <2>2, RunKeeps
  <2>4. OwnersAreRestored'
    BY <1>1, <2>1, <2>3 DEF OInv, OwnersAreRestored
  <2>y. \A i \in Identities : YetToErase(i)' <=> YetToErase(i)
    BY <1>1, <2>1 DEF YetToErase
  <2>5. StillMapped' /\ IdentitiesGone' /\ DataGone'
    BY <1>1, <2>1, <2>3, <2>y DEF OInv, StillMapped, IdentitiesGone, DataGone
  <2>6. InForce
    BY <1>3, <1>a, RestoreNumbers DEF InTime, InForce, RestoreTypeOK
  <2>7. HashIsErased'
    BY <1>1, <2>1, <2>3, <2>6 DEF OInv, HashIsErased, Erased
  <2>8. OthersStay'
    BY <1>1, <2>3 DEF OInv, OthersStay
  <2>9. QED BY <2>3, <2>4, <2>5, <2>7, <2>8 DEF OInv
<1>4. QED BY <1>2, <1>3 DEF Receipt

\* The markers that match no mapping change no marker of an identity deleted later.
LEMMA MarkKeeps == ASSUME OInv, MarkTheRest PROVE OInv'
<1> DEFINE rest == {i \in restorer.active : restorer.owner[i] = NoAccount}
           k == [i \in Identities |-> IF i \in rest THEN ledger[i] ELSE target.mark[i]]
<1>a. RestoreTypeOK
  BY DEF OInv
<1>u. UNCHANGED <<now, ledger, frozen, restored>> /\ restorer.pc = "next" /\ restorer.pc \in Begun /\ restorer.todo = {}
  BY DEF MarkTheRest, DatabasesRest, InRun, Begun
<1>r. CASE /\ RunTo("hash")
           /\ \/ UNCHANGED target
              \/ target' = [target EXCEPT !.mark = [i \in Identities |-> IF i \in rest THEN ledger[i] ELSE @[i]]]
  <2>1. /\ restorer' \in Restorers /\ restorer'.pc = "hash" /\ restorer'.todo = restorer.todo
        /\ restorer'.owner = restorer.owner /\ restorer'.active = restorer.active
    BY <1>r, <1>a DEF RunTo, RestoreTypeOK, Restorers
  <2>2. CASE UNCHANGED target
    BY <1>u, <2>1, <2>2, GoingOnKeeps
  <2>3. CASE target' = [target EXCEPT !.mark = [i \in Identities |-> IF i \in rest THEN ledger[i] ELSE @[i]]]
    <3>t. target.mark \in [Identities -> Nat] /\ ledger \in [Identities -> Nat]
      BY <1>a DEF RestoreTypeOK, Targets
    <3>1. target' = [target EXCEPT !.mark = k] /\ k \in [Identities -> Nat]
      BY <2>3, <3>t, <1>a DEF RestoreTypeOK, Targets
    <3>2. \A i \in Identities : i \notin rest => k[i] = target.mark[i]
      OBVIOUS
    <3> HIDE DEF k
    <3>3. target' \in Targets /\ target'.map = target.map /\ target'.mark = k /\ target'.data = target.data
      BY <3>1, <1>a DEF RestoreTypeOK, Targets
    <3>4. Runs({"hash"}) /\ {"hash"} \in SUBSET Begun
      BY <1>u, <2>1, <3>3 DEF Runs, Begun
    <3>5. /\ RestoreTypeOK' /\ RestoredOK' /\ ActiveAreLater'
          /\ Doomed' = Doomed /\ (\A i \in Identities : Later(i)' = Later(i)) /\ InForce' = InForce
      BY <3>4, RunKeeps
    <3>6. OwnersAreRestored'
      BY <1>u, <2>1, <3>5 DEF OInv, OwnersAreRestored
    <3>y. \A i \in Identities : YetToErase(i)' <=> YetToErase(i)
      BY <1>u, <2>1 DEF YetToErase
    <3>7. \A i \in Identities : Later(i) => i \notin rest
      BY <1>u DEF OInv, OwnersAreRestored
    <3>8. StillMapped' /\ IdentitiesGone' /\ DataGone'
      BY <1>u, <2>1, <3>2, <3>3, <3>5, <3>y, <3>7 DEF OInv, StillMapped, IdentitiesGone, DataGone
    <3>9. HashIsErased' /\ OthersStay'
      BY <1>u, <2>1, <3>3, <3>5 DEF OInv, HashIsErased, OthersStay
    <3>10. QED BY <3>5, <3>6, <3>8, <3>9 DEF OInv
  <2>4. QED BY <2>2, <2>3, <1>r
<1>2. CASE RefuseRun /\ UNCHANGED target
  BY <1>2, <1>u, RefusedKeeps
<1>3. QED BY <1>r, <1>2 DEF MarkTheRest

\* Each step keeps the invariant.
LEMMA RestoreStep == OInv /\ [RestoreNext]_restoreVars => OInv'
<1> SUFFICES ASSUME OInv, [RestoreNext]_restoreVars PROVE OInv'
  OBVIOUS
<1>a. RestoreTypeOK
  BY DEF OInv
<1>t. /\ now \in Nat /\ ledger \in [Identities -> Nat] /\ target \in Targets
      /\ target.map \in [Identities -> Accounts \cup {NoAccount}] /\ target.mark \in [Identities -> Nat]
      /\ target.data \in [Accounts -> {"live", "closing", "none"}]
  BY <1>a DEF RestoreTypeOK, Targets
<1>1. ASSUME NowPasses PROVE OInv'
  <2>1. now' \in Nat /\ now <= now'
    BY <1>1, <1>t DEF NowPasses
  <2>2. UNCHANGED <<ledger, frozen, target, restored, restorer>>
    BY <1>1 DEF NowPasses
  <2>3. QED BY <2>1, <2>2, <1>t, MeanwhileKeeps
<1>2. ASSUME NEW db, DeletionBegins(db) \/ DeletionEnds(db) PROVE OInv'
  BY <1>2, <1>t, MeanwhileKeeps DEF DeletionBegins, DeletionEnds
<1>3. ASSUME NEW i \in Identities, SourceMarks(i) PROVE OInv'
  <2>1. ledger' \in [Identities -> Nat] /\ \A j \in Identities : ledger'[j] = ledger[j] \/ ledger'[j] = now
    BY <1>3, <1>t DEF SourceMarks
  <2>2. UNCHANGED <<now, frozen, target, restored, restorer>>
    BY <1>3 DEF SourceMarks
  <2>3. QED BY <2>1, <2>2, <1>t, MeanwhileKeeps
<1>4. ASSUME NEW i \in Identities, TargetCollects(i) PROVE OInv'
  <2> DEFINE k == [target.mark EXCEPT ![i] = 0]
  <2>1. k \in [Identities -> Nat] /\ \A j \in Identities : k[j] = target.mark[j] \/ target.mark[j] + TombstoneRetention <= now
    BY <1>4, <1>t DEF TargetCollects
  <2>2. target' = [target EXCEPT !.mark = k] /\ UNCHANGED <<now, ledger, frozen, restored, restorer>>
    BY <1>4, <1>t DEF TargetCollects, Targets
  <2> HIDE DEF k
  <2>3. target' \in Targets /\ target'.map = target.map /\ target'.mark = k /\ target'.data = target.data
    BY <2>1, <2>2, <1>t DEF Targets
  <2>4. QED BY <2>1, <2>2, <2>3, <1>t, MeanwhileKeeps
<1>5. ASSUME NEW i \in Identities, NEW a \in Accounts, TargetSignsUp(i, a) PROVE OInv'
  <2> DEFINE m == [target.map EXCEPT ![i] = a]
             d == [target.data EXCEPT ![a] = "live"]
  <2>1. /\ m \in [Identities -> Accounts \cup {NoAccount}]
        /\ \A j \in Identities :
             \/ m[j] = target.map[j]
             \/ target.map[j] = NoAccount /\ target.mark[j] + TombstoneRetention <= now
    BY <1>5, <1>t DEF TargetSignsUp
  <2>2. /\ d \in [Accounts -> {"live", "closing", "none"}]
        /\ \A b \in Accounts :
             \/ d[b] = target.data[b]
             \/ d[b] = "live" /\ (target.data[b] = "live" \/ restored.data[b] = "none")
    BY <1>5, <1>t DEF TargetSignsUp
  <2>3. target' = [target EXCEPT !.map = m, !.data = d] /\ UNCHANGED <<now, ledger, frozen, restored, restorer>>
    BY <1>5, <1>t DEF TargetSignsUp, Targets
  <2> HIDE DEF m, d
  <2>4. target' \in Targets /\ target'.map = m /\ target'.mark = target.mark /\ target'.data = d
    BY <2>1, <2>2, <2>3, <1>t DEF Targets
  <2>5. QED BY <2>1, <2>2, <2>3, <2>4, <1>t, MeanwhileKeeps
<1>6. ASSUME Restart PROVE OInv'
  BY <1>6, StoppedKeeps, NoRestorerTyped DEF Restart, Only, DatabasesRest
<1>7. ASSUME UNCHANGED restoreVars PROVE OInv'
  BY <1>7, <1>t, MeanwhileKeeps DEF restoreVars
<1>8. QED
  BY <1>1, <1>2, <1>3, <1>4, <1>5, <1>6, <1>7, AdmitKeeps, MatchKeeps, RecheckKeeps, TakeUpKeeps,
     EraseKeeps, SweepKeeps, VerifyKeeps, MarkKeeps, HashKeeps, ReadLastKeeps, ReceiptKeeps
  DEF RestoreNext

\* Whatever drifts, and wherever a run dies: a receipt is for a target from which
\* everyone deleted after the restore point is gone, and nobody else is.
THEOREM ReceiptsAreTrue == RestoreSpec => []ReceiptIsTrue
<1>1. OInv => ReceiptIsTrue
  BY DEF OInv, HashIsErased, Erased, OthersStay, ReceiptIsTrue
<1>2. QED BY RestoreStart, RestoreStep, <1>1, PTL DEF RestoreSpec

-----------------------------------------------------------------------------
(* Exports of an account's data.                                           *)

Exporting == [pc: {"idle", "claim", "build", "hand", "complete", "check", "fail", "answered"},
              id: Exports, gen: Nat, revision: Nat, at: Nat, error: {"failed", "too_large"},
              turned: BOOLEAN]
Filings   == [status: {"in_review", "response_ready", "delivered"}, revision: Nat,
              of: {"none", "operator", "export"}, parts: Nat, chunks: SUBSET (1 .. Parts), until: Nat]
Audits    == [status: {"none", "started", "rate_limited", "completed", "failed", "too_large"}, at: Nat]
Peeks     == [pc: {"idle", "read", "audit", "answered"}, gen: Nat, got: SUBSET (1 .. Parts),
              logged: BOOLEAN, turned: BOOLEAN]

ExportTypeOK ==
  /\ exportTime \in Nat
  /\ holder \in [open: BOOLEAN, gen: Nat]
  /\ filing \in Filings
  /\ audits \in [Exports -> Audits]
  /\ quota \in [start: Nat, count: Nat]
  /\ used \in 0 .. MaxExports
  /\ job \in [Jobs -> Exporting]
  /\ peek \in Peeks

UnderwayPcs == {"build", "hand", "complete", "check", "fail", "answered"}

\* Ids of the holder's exports are made once.
IdsApart ==
  /\ \A j \in Jobs : ~AtJob(j, "idle") => job[j].id <= used
  /\ \A i, j \in Jobs :
       ~AtJob(i, "idle") /\ ~AtJob(j, "idle") /\ job[i].id = job[j].id /\ job[i].id # Stable => i = j

\* Of an export that is under way the audit says so, and nobody else builds it.
UnderwayIsStarted ==
  \A j \in Jobs : Underway(j) =>
    /\ audits[job[j].id].status \in {"started", "completed"}
    /\ job[j].pc \in {"check", "answered"} => audits[job[j].id].status = "completed"
OneHandlerEach ==
  \A i, j \in Jobs : Underway(i) /\ Underway(j) /\ job[i].id = job[j].id => i = j

\* A request that is answered is no longer in review, and a handler that has handed
\* its export over has answered it.
AnsweredByExport ==
  /\ filing.of = "export" => filing.status # "in_review"
  /\ filing.status # "in_review" => filing.parts = Parts
  /\ \A j \in Jobs : job[j].id = Stable /\ job[j].pc \in {"complete", "check", "answered"} => filing.of = "export"
  /\ audits[Stable].status = "completed" => filing.of = "export"

\* Once the deletion has begun nobody is authorized any more.
TurnedIsSeen ==
  \A j \in Jobs :
    /\ job[j].pc \notin {"idle", "answered"} /\ job[j].turned => ~holder.open
    /\ job[j].pc = "answered" => ~job[j].turned

\* The count of a window covers what was admitted in it, and nothing was after it.
IsAdmitted(e) == audits[e].status \notin {"none", "rate_limited"}
InQuota       == {e \in 1 .. MaxExports : /\ audits[e].status \notin {"none", "rate_limited"}
                                          /\ audits[e].at \in quota.start .. quota.start + Window - 1}
WindowCounts ==
  /\ Cardinality(InQuota) <= quota.count /\ quota.count <= RateMax
  /\ \A e \in 1 .. MaxExports : IsAdmitted(e) => audits[e].at < quota.start + Window

\* A reading has none of the answer or all of it, and knows whose it was.
ReadingIsWhole ==
  /\ peek.pc = "read" => filing.status = "delivered"
  /\ peek.pc \in {"audit", "answered"} => peek.got \in {{}, 1 .. Parts}
  /\ peek.pc \in {"read", "audit"} /\ peek.turned => ~holder.open
  /\ peek.pc = "answered" => ~peek.turned
  /\ peek.logged => peek.pc = "answered" /\ peek.got # {}

EInv ==
  /\ ExportTypeOK /\ IdsApart /\ UnderwayIsStarted /\ OneHandlerEach /\ AnsweredByExport
  /\ TurnedIsSeen /\ WindowCounts /\ ReadingIsWhole

LEMMA ExportNumbers ==
  /\ Parts \in Nat \ {0} /\ Window \in Nat \ {0} /\ RateMax \in Nat \ {0}
  /\ MaxExports \in Nat /\ ResponseTtl \in Nat
  /\ Stable \in Exports /\ Exports = 0 .. MaxExports /\ 1 .. MaxExports \subseteq Exports
BY ExportAssumption DEF Stable, Exports

LEMMA NoJobTyped == NoJob \in Exporting /\ NoJob.pc = "idle" /\ ~NoJob.turned
<1>1. 0 \in Exports
  BY ExportNumbers
<1>2. QED BY <1>1 DEF NoJob, Exporting

LEMMA NoPeekTyped == NoPeek \in Peeks /\ NoPeek.pc = "idle" /\ ~NoPeek.logged
BY DEF NoPeek, Peeks

LEMMA QuotaFinite == IsFiniteSet(InQuota) /\ Cardinality(InQuota) \in Nat
<1>1. IsFiniteSet(1 .. MaxExports)
  BY FS_Interval, ExportNumbers
<1>2. InQuota \subseteq 1 .. MaxExports
  BY DEF InQuota
<1>3. QED BY <1>1, <1>2, FS_Subset, FS_CardinalityType

LEMMA ExportStart == ExportInit => EInv
<1> SUFFICES ASSUME ExportInit PROVE EInv
  OBVIOUS
<1>0. [status |-> "none", at |-> 0] \in Audits /\ [status |-> "none", at |-> 0].status = "none"
  BY DEF Audits
<1>1. ExportTypeOK
  <2>1. filing \in Filings
    BY DEF ExportInit, Filings
  <2>2. audits \in [Exports -> Audits]
    BY <1>0 DEF ExportInit
  <2>3. holder \in [open: BOOLEAN, gen: Nat] /\ quota \in [start: Nat, count: Nat]
    BY DEF ExportInit
  <2>4. used \in 0 .. MaxExports /\ exportTime \in Nat
    BY ExportNumbers DEF ExportInit
  <2>5. job \in [Jobs -> Exporting] /\ peek \in Peeks
    BY NoJobTyped, NoPeekTyped DEF ExportInit
  <2>6. QED BY <2>1, <2>2, <2>3, <2>4, <2>5 DEF ExportTypeOK
<1>2. \A j \in Jobs : job[j].pc = "idle"
  BY NoJobTyped DEF ExportInit
<1>3. \A e \in Exports : audits[e].status = "none"
  BY <1>0 DEF ExportInit
<1>4. InQuota = {}
  BY <1>3, ExportNumbers DEF InQuota
<1>5. WindowCounts
  <2>1. Cardinality({}) = 0
    BY FS_EmptySet
  <2>2. quota.count = 0 /\ 0 <= RateMax
    BY ExportNumbers DEF ExportInit
  <2>3. QED BY <1>3, <1>4, <2>1, <2>2, ExportNumbers DEF WindowCounts, IsAdmitted
<1>6. IdsApart /\ UnderwayIsStarted /\ OneHandlerEach /\ TurnedIsSeen
  BY <1>2 DEF IdsApart, UnderwayIsStarted, OneHandlerEach, TurnedIsSeen, Underway, AtJob
<1>7. AnsweredByExport
  BY <1>2, <1>3, ExportNumbers DEF AnsweredByExport, ExportInit
<1>8. ReadingIsWhole
  BY NoPeekTyped DEF ReadingIsWhole, ExportInit
<1>9. QED BY <1>1, <1>5, <1>6, <1>7, <1>8 DEF EInv

\* The handler of one export takes a step, and no other does.
Handles(j, x) ==
  /\ job' = [job EXCEPT ![j] = x] /\ x \in Exporting
  /\ UNCHANGED <<holder, peek>>

LEMMA HandlerMoves ==
  ASSUME EInv, NEW j \in Jobs, NEW x, Handles(j, x)
  PROVE  job' \in [Jobs -> Exporting] /\ job'[j] = x /\ \A i \in Jobs \ {j} : job'[i] = job[i]
BY DEF EInv, ExportTypeOK, Handles

LEMMA IdsStay ==
  ASSUME EInv, NEW j \in Jobs, NEW x, Handles(j, x), used <= used', used' \in Nat,
         \/ x.pc = "idle"
         \/ ~AtJob(j, "idle") /\ x.id = job[j].id
         \/ x.id = Stable
         \/ x.id = used + 1 /\ used' = used + 1
  PROVE  IdsApart'
<1>1. job'[j] = x /\ \A i \in Jobs \ {j} : job'[i] = job[i]
  BY HandlerMoves
<1>2. used \in Nat /\ (\A i \in Jobs : job[i].id \in Nat) /\ x.id \in Nat /\ Stable = 0
  <2>1. \A y \in Exporting : y.id \in Nat
    BY ExportNumbers DEF Exporting
  <2>2. QED BY <2>1 DEF EInv, ExportTypeOK, Handles, Stable
<1>3. ASSUME NEW i \in Jobs, ~AtJob(i, "idle")' PROVE job'[i].id <= used'
  BY <1>1, <1>2, <1>3 DEF EInv, IdsApart, AtJob
<1>4. ASSUME NEW i \in Jobs, NEW k \in Jobs, ~AtJob(i, "idle")', ~AtJob(k, "idle")',
             job'[i].id = job'[k].id, job'[i].id # Stable
      PROVE  i = k
  <2>1. \A l \in Jobs : ~AtJob(l, "idle") => job[l].id <= used
    BY DEF EInv, IdsApart
  <2>2. QED BY <1>1, <1>2, <1>4, <2>1 DEF EInv, IdsApart, AtJob
<1>5. QED BY <1>3, <1>4 DEF IdsApart

\* A handler writes the audit of its own export, which nobody else is building.
LEMMA AuditStays ==
  ASSUME EInv, NEW j \in Jobs, NEW x, Handles(j, x),
         \/ audits' = audits /\ x.pc \in {"idle", "claim"}
         \/ /\ \A e \in Exports : e # job[j].id => audits'[e] = audits[e]
            /\ Underway(j) \/ audits[job[j].id].status \notin {"started", "completed"}
            /\ x.pc \in UnderwayPcs =>
                 /\ x.id = job[j].id /\ audits'[x.id].status \in {"started", "completed"}
                 /\ x.pc \in {"check", "answered"} => audits'[x.id].status = "completed"
            /\ x.pc # "claim"
  PROVE  UnderwayIsStarted' /\ OneHandlerEach'
<1>1. job'[j] = x /\ x \in Exporting /\ \A i \in Jobs \ {j} : job'[i] = job[i]
  BY HandlerMoves DEF Handles
<1>t. \A i \in Jobs : job[i].id \in Exports
  BY DEF EInv, ExportTypeOK, Exporting
<1>2. CASE audits' = audits /\ x.pc \in {"idle", "claim"}
  BY <1>1, <1>2 DEF EInv, UnderwayIsStarted, OneHandlerEach, Underway
<1>3. CASE /\ \A e \in Exports : e # job[j].id => audits'[e] = audits[e]
           /\ Underway(j) \/ audits[job[j].id].status \notin {"started", "completed"}
           /\ x.pc \in UnderwayPcs =>
                /\ x.id = job[j].id /\ audits'[x.id].status \in {"started", "completed"}
                /\ x.pc \in {"check", "answered"} => audits'[x.id].status = "completed"
           /\ x.pc # "claim"
  <2>1. \A i \in Jobs \ {j} : Underway(i) => job[i].id # job[j].id
    BY <1>3 DEF EInv, OneHandlerEach, UnderwayIsStarted
  <2>2. \A i \in Jobs : Underway(i)' => x.pc \in UnderwayPcs \/ (i # j /\ Underway(i))
    BY <1>1 DEF Underway, UnderwayPcs
  <2>3. \A i \in Jobs \ {j} : Underway(i)' => Underway(i) /\ audits'[job'[i].id] = audits[job[i].id]
    BY <1>1, <1>3, <1>t, <2>1 DEF Underway
  <2>4. Underway(j)' => x.pc \in UnderwayPcs
    BY <1>1 DEF Underway, UnderwayPcs
  <2>5. UnderwayIsStarted'
    BY <1>1, <1>3, <2>3, <2>4 DEF EInv, UnderwayIsStarted
  <2>6. OneHandlerEach'
    BY <1>1, <1>3, <2>1, <2>3, <2>4 DEF EInv, OneHandlerEach
  <2>7. QED BY <2>5, <2>6
<1>4. QED BY <1>2, <1>3

\* What a handler does to the request leaves an answer where there is one.
LEMMA AnswerStays ==
  ASSUME EInv, NEW j \in Jobs, NEW x, Handles(j, x),
         filing.of = "export" => filing'.of = "export",
         filing'.of = "export" => filing'.status # "in_review",
         filing'.status # "in_review" => filing'.parts = Parts,
         x.id = Stable /\ x.pc \in {"complete", "check", "answered"} => filing'.of = "export",
         audits'[Stable].status = "completed" => audits[Stable].status = "completed" \/ filing'.of = "export"
  PROVE  AnsweredByExport'
<1>1. job'[j] = x /\ \A i \in Jobs \ {j} : job'[i] = job[i]
  BY HandlerMoves
<1>2. QED BY <1>1 DEF EInv, AnsweredByExport

LEMMA TurnedStays ==
  ASSUME EInv, NEW j \in Jobs, NEW x, Handles(j, x),
         x.pc \notin {"idle", "answered"} /\ x.turned => ~holder.open,
         x.pc = "answered" => ~x.turned
  PROVE  TurnedIsSeen'
<1>1. job'[j] = x /\ \A i \in Jobs \ {j} : job'[i] = job[i]
  BY HandlerMoves
<1>2. holder' = holder
  BY DEF Handles
<1>3. QED BY <1>1, <1>2 DEF EInv, TurnedIsSeen

\* No step but a claim admits an export.
LEMMA WindowStays ==
  ASSUME EInv, UNCHANGED quota,
         \A e \in 1 .. MaxExports : /\ IsAdmitted(e)' => IsAdmitted(e)
                                    /\ IsAdmitted(e)' => audits'[e].at = audits[e].at
  PROVE  WindowCounts'
<1>1. InQuota' \subseteq InQuota
  BY DEF InQuota, IsAdmitted
<1>2. Cardinality(InQuota') \in Nat /\ Cardinality(InQuota') <= Cardinality(InQuota) /\ Cardinality(InQuota) \in Nat
  BY <1>1, QuotaFinite, FS_Subset, FS_CardinalityType
<1>3. quota.count \in Nat /\ RateMax \in Nat
  BY ExportNumbers DEF EInv, ExportTypeOK
<1>4. QED BY <1>2, <1>3 DEF EInv, WindowCounts

LEMMA ReadingStays ==
  ASSUME EInv, UNCHANGED <<holder, peek>>, filing.status = "delivered" => filing'.status = "delivered"
  PROVE  ReadingIsWhole'
BY DEF EInv, ReadingIsWhole

\* A handler that leaves the documents alone.
LEMMA QuietHandler ==
  ASSUME EInv, NEW j \in Jobs, NEW x, Handles(j, x), used <= used', used' \in 0 .. MaxExports,
         UNCHANGED <<exportTime, filing, audits, quota>>,
         \/ x.pc = "idle"
         \/ x.pc = "claim" /\ x.id = Stable /\ ~x.turned
         \/ x.pc = "claim" /\ x.id = used + 1 /\ used' = used + 1 /\ ~x.turned
         \/ /\ Underway(j) /\ x.pc \in UnderwayPcs /\ x.id = job[j].id /\ x.gen = job[j].gen
            /\ job[j].pc # "answered" /\ x.turned = job[j].turned
            /\ x.pc \in {"check", "answered"} => job[j].pc = "check"
            /\ x.pc = "complete" => x.id # Stable
            /\ x.pc = "answered" => ~x.turned
  PROVE  EInv'
<1>a. ExportTypeOK
  BY DEF EInv
<1>n. used' \in Nat
  BY <1>a, ExportNumbers DEF ExportTypeOK
<1>1. ExportTypeOK'
  BY <1>a, HandlerMoves DEF ExportTypeOK, Handles
<1>2. IdsApart'
  BY <1>n, IdsStay DEF Underway, AtJob
<1>3. UnderwayIsStarted' /\ OneHandlerEach'
  <2>1. CASE x.pc \in {"idle", "claim"}
    BY <2>1, AuditStays
  <2>2. CASE x.pc \notin {"idle", "claim"}
    <3>1. /\ Underway(j) /\ x.id = job[j].id
          /\ x.pc \in {"check", "answered"} => job[j].pc = "check"
      BY <2>2
    <3>2. /\ audits[job[j].id].status \in {"started", "completed"}
          /\ job[j].pc = "check" => audits[job[j].id].status = "completed"
      BY <3>1 DEF EInv, UnderwayIsStarted
    <3>3. QED BY <2>2, <3>1, <3>2, AuditStays
  <2>3. QED BY <2>1, <2>2
<1>4. AnsweredByExport'
  <2>1. x.id = Stable /\ x.pc \in {"complete", "check", "answered"} => filing.of = "export"
    BY DEF EInv, AnsweredByExport
  <2>2. QED BY <2>1, AnswerStays DEF EInv, AnsweredByExport
<1>5. TurnedIsSeen'
  <2>1. x.pc \notin {"idle", "answered"} /\ x.turned => ~holder.open
    <3>1. CASE x.pc = "claim"
      BY <3>1, <1>n DEF UnderwayPcs
    <3>2. CASE x.pc \notin {"claim", "idle", "answered"}
      <4>1. job[j].pc \notin {"idle", "answered"} /\ x.gen = job[j].gen /\ x.id = job[j].id /\ x.turned = job[j].turned
        BY <3>2 DEF Underway
      <4>2. QED BY <4>1 DEF EInv, TurnedIsSeen
    <3>3. QED BY <3>1, <3>2
  <2>2. x.pc = "answered" => ~x.turned
    OBVIOUS
  <2>3. QED BY <2>1, <2>2, TurnedStays
<1>6. WindowCounts'
  BY WindowStays DEF IsAdmitted
<1>7. ReadingIsWhole'
  BY ReadingStays DEF Handles
<1>8. QED BY <1>1, <1>2, <1>3, <1>4, <1>5, <1>6, <1>7 DEF EInv

\* The handler of an export goes on with it.
LEMMA MoveHandles ==
  ASSUME EInv, NEW j \in Jobs, NEW pc \in UnderwayPcs, Move(j, pc), UNCHANGED <<holder, peek>>
  PROVE  \E x \in Exporting : /\ Handles(j, x) /\ x.pc = pc /\ x.id = job[j].id /\ x.gen = job[j].gen
                              /\ x.turned = job[j].turned
<1> DEFINE x == [job[j] EXCEPT !.pc = pc]
<1>1. job[j] \in Exporting
  BY DEF EInv, ExportTypeOK
<1>2. x \in Exporting /\ x.pc = pc /\ x.id = job[j].id /\ x.gen = job[j].gen /\ x.turned = job[j].turned
  BY <1>1 DEF Exporting, UnderwayPcs
<1>3. job' = [job EXCEPT ![j] = x]
  BY DEF Move, Step
<1> HIDE DEF x
<1>4. QED BY <1>2, <1>3 DEF Handles

LEMMA QuitHandles ==
  ASSUME NEW j \in Jobs, Step(j, NoJob), UNCHANGED <<holder, peek>>
  PROVE  Handles(j, NoJob) /\ NoJob.pc = "idle"
BY NoJobTyped DEF Handles, Step

LEMMA StartsKeep ==
  ASSUME EInv, NEW j \in Jobs, StartAccountExport(j) \/ StartPrivacyExport(j)
  PROVE  EInv'
<1>a. /\ used \in Nat /\ used \in 0 .. MaxExports /\ holder.gen \in Nat /\ filing.revision \in Nat
      /\ exportTime \in Nat /\ MaxExports \in Nat
  BY ExportNumbers DEF EInv, ExportTypeOK, Filings
<1>1. CASE StartAccountExport(j)
  <2> DEFINE n == used + 1
             g == holder.gen
             t == exportTime
             x == [NoJob EXCEPT !.pc = "claim", !.id = n, !.gen = g, !.at = t]
  <2>1. n \in Exports /\ n \in 0 .. MaxExports /\ g \in Nat /\ t \in Nat /\ used <= n
    BY <1>1, <1>a, ExportNumbers DEF StartAccountExport
  <2>2. /\ job' = [job EXCEPT ![j] = x] /\ used' = n
        /\ UNCHANGED <<exportTime, holder, filing, audits, quota, peek>>
    BY <1>1 DEF StartAccountExport, Step
  <2>e. n = used + 1 /\ g = holder.gen
    OBVIOUS
  <2> HIDE DEF n, g, t
  <2>3. x \in Exporting /\ x.pc = "claim" /\ x.id = n /\ x.gen = g /\ x.turned = NoJob.turned
    BY <2>1, NoJobTyped DEF Exporting
  <2> HIDE DEF x
  <2>4. Handles(j, x)
    BY <2>2, <2>3 DEF Handles
  <2>5. QED BY <2>1, <2>2, <2>3, <2>4, <2>e, NoJobTyped, QuietHandler
<1>2. CASE StartPrivacyExport(j)
  <2> DEFINE r == filing.revision
             t == exportTime
             x == [NoJob EXCEPT !.pc = "claim", !.id = Stable, !.revision = r, !.at = t]
  <2>1. /\ job' = [job EXCEPT ![j] = x]
        /\ UNCHANGED <<exportTime, holder, filing, audits, quota, used, peek>>
    BY <1>2 DEF StartPrivacyExport, Step
  <2>e. r \in Nat /\ t \in Nat /\ NoJob.gen = 0
    BY <1>a DEF NoJob
  <2> HIDE DEF r, t
  <2>3. x \in Exporting /\ x.pc = "claim" /\ x.id = Stable /\ x.gen = 0 /\ x.turned = NoJob.turned
    BY <2>e, NoJobTyped, ExportNumbers DEF Exporting
  <2> HIDE DEF x
  <2>4. Handles(j, x)
    BY <2>1, <2>3 DEF Handles
  <2>5. QED BY <1>a, <2>1, <2>3, <2>4, NoJobTyped, QuietHandler
<1>3. QED BY <1>1, <1>2

\* What a claim writes about an export, and what that leaves of the others.
LEMMA AuditWritten ==
  ASSUME EInv, NEW e \in Exports, NEW y \in Audits, audits' = [audits EXCEPT ![e] = y]
  PROVE  /\ audits' \in [Exports -> Audits] /\ audits'[e] = y
         /\ \A f \in Exports : f # e => audits'[f] = audits[f]
BY DEF EInv, ExportTypeOK

LEMMA BeginHandles ==
  ASSUME EInv, NEW j \in Jobs, Begin(j), UNCHANGED <<holder, peek>>
  PROVE  \E x \in Exporting : /\ Handles(j, x) /\ x.pc = "build" /\ x.id = job[j].id /\ x.gen = job[j].gen
                              /\ x.turned = job[j].turned
<1> DEFINE x == [job[j] EXCEPT !.pc = "build", !.at = 0]
<1>1. job[j] \in Exporting
  BY DEF EInv, ExportTypeOK
<1>2. x \in Exporting /\ x.pc = "build" /\ x.id = job[j].id /\ x.gen = job[j].gen /\ x.turned = job[j].turned
  BY <1>1 DEF Exporting
<1>3. job' = [job EXCEPT ![j] = x]
  BY DEF Begin, Step
<1> HIDE DEF x
<1>4. QED BY <1>2, <1>3 DEF Handles

\* A claim is refused, tries its export again, is over the limit, or is admitted.
LEMMA ExportClaimKeeps ==
  ASSUME EInv, NEW j \in Jobs, ClaimExport(j)
  PROVE  EInv'
<1> DEFINE e == job[j].id
           t == job[j].at
<1>a. ExportTypeOK
  BY DEF EInv
<1>t. /\ e \in Exports /\ e \in Nat /\ t \in Nat /\ used \in Nat /\ used \in 0 .. MaxExports
      /\ quota.start \in Nat /\ quota.count \in Nat /\ audits[e] \in Audits
  BY <1>a, ExportNumbers DEF ExportTypeOK, Exporting
<1>u. UNCHANGED <<exportTime, holder, filing, used, peek>> /\ job[j].pc = "claim" /\ ~AtJob(j, "idle")
  BY DEF ClaimExport, AtJob
<1>g. job[j].turned => ~holder.open
  BY <1>u DEF EInv, TurnedIsSeen
<1>1. CASE Refuse(j)
  BY <1>1, <1>t, <1>u, QuitHandles, QuietHandler DEF Refuse
<1> DEFINE started == [status |-> "started", at |-> t]
           limited == [status |-> "rate_limited", at |-> t]
<1>s. /\ started \in Audits /\ started.status = "started" /\ started.at = t
      /\ limited \in Audits /\ limited.status = "rate_limited"
  BY <1>t DEF Audits
<1>b. ASSUME Begin(j), audits' = [audits EXCEPT ![e] = started], WindowCounts',
             audits[e].status \in {"none", "failed"}, quota' \in [start: Nat, count: Nat]
      PROVE  EInv'
  <2>1. PICK x \in Exporting : /\ Handles(j, x) /\ x.pc = "build" /\ x.id = job[j].id /\ x.gen = job[j].gen
                               /\ x.turned = job[j].turned
    BY <1>b, <1>u, BeginHandles
  <2> HIDE DEF started
  <2>2. /\ audits' \in [Exports -> Audits] /\ audits'[e] = started
        /\ \A f \in Exports : f # e => audits'[f] = audits[f]
    BY <1>b, <1>s, <1>t, AuditWritten
  <2>3. ExportTypeOK'
    BY <1>a, <1>b, <1>u, <2>1, <2>2, HandlerMoves DEF ExportTypeOK, Handles
  <2>4. IdsApart'
    BY <1>t, <1>u, <2>1, IdsStay
  <2>5. UnderwayIsStarted' /\ OneHandlerEach'
    BY <1>b, <1>s, <2>1, <2>2, AuditStays
  <2>6. AnsweredByExport'
    <3>1. audits'[Stable].status = "completed" => audits[Stable].status = "completed"
      BY <2>2, <1>s, ExportNumbers
    <3>2. QED BY <1>u, <2>1, <3>1, AnswerStays DEF EInv, AnsweredByExport
  <2>7. TurnedIsSeen'
    BY <1>g, <2>1, TurnedStays
  <2>8. ReadingIsWhole'
    BY <1>u, ReadingStays
  <2>9. QED BY <1>b, <2>3, <2>4, <2>5, <2>6, <2>7, <2>8 DEF EInv
<1>2. CASE Retry(j)
  <2>1. /\ audits' = [audits EXCEPT ![e] = started] /\ Begin(j) /\ UNCHANGED quota
        /\ e = Stable /\ audits[e].status = "failed"
    BY <1>2 DEF Retry, MayRetry, ForOperator
  <2> HIDE DEF started
  <2>2. \A f \in Exports : f # e => audits'[f] = audits[f]
    BY <2>1, <1>s, <1>t, AuditWritten
  <2>3. WindowCounts'
    BY <2>1, <2>2, WindowStays, ExportNumbers DEF IsAdmitted, Stable
  <2>4. QED BY <2>1, <2>3, <1>a, <1>b DEF started, ExportTypeOK
<1>3. CASE Limit(j)
  <2>1. /\ audits' = [audits EXCEPT ![e] = limited] /\ Step(j, NoJob) /\ UNCHANGED quota
        /\ audits[e].status = "none"
    BY <1>3 DEF Limit
  <2> HIDE DEF limited
  <2>2. Handles(j, NoJob) /\ NoJob.pc = "idle"
    BY <2>1, <1>u, QuitHandles
  <2>3. /\ audits' \in [Exports -> Audits] /\ audits'[e] = limited
        /\ \A f \in Exports : f # e => audits'[f] = audits[f]
    BY <2>1, <1>s, <1>t, AuditWritten
  <2>4. ExportTypeOK'
    BY <1>a, <1>u, <2>1, <2>2, <2>3, HandlerMoves DEF ExportTypeOK
  <2>5. IdsApart'
    BY <1>t, <1>u, <2>2, IdsStay
  <2>6. UnderwayIsStarted' /\ OneHandlerEach'
    BY <2>1, <2>2, <2>3, AuditStays DEF UnderwayPcs
  <2>7. AnsweredByExport'
    <3>1. audits'[Stable].status = "completed" => audits[Stable].status = "completed"
      BY <2>3, <1>s, ExportNumbers
    <3>2. QED BY <1>u, <2>2, <3>1, AnswerStays DEF EInv, AnsweredByExport
  <2>8. TurnedIsSeen'
    BY <2>2, TurnedStays
  <2>9. WindowCounts'
    BY <2>1, <2>3, <1>s, WindowStays, ExportNumbers DEF IsAdmitted
  <2>10. ReadingIsWhole'
    BY <1>u, ReadingStays
  <2>11. QED BY <2>4, <2>5, <2>6, <2>7, <2>8, <2>9, <2>10 DEF EInv
<1>4. CASE AdmitExport(j)
  <2>1. /\ audits' = [audits EXCEPT ![e] = started] /\ Begin(j) /\ audits[e].status = "none"
    BY <1>4 DEF AdmitExport
  <2> HIDE DEF started
  <2>2. /\ audits'[e] = started /\ \A f \in Exports : f # e => audits'[f] = audits[f]
    BY <2>1, <1>s, <1>t, AuditWritten
  <2>3. /\ \A f \in 1 .. MaxExports : f # e => audits'[f] = audits[f]
        /\ audits'[e].at = t /\ Window \in Nat /\ Window > 0 /\ RateMax \in Nat /\ RateMax > 0
    BY <2>2, <1>s, ExportNumbers
  <2>w. \A f \in 1 .. MaxExports : f # e /\ IsAdmitted(f)' => IsAdmitted(f) /\ audits'[f].at = audits[f].at
                                                                      /\ audits[f].at < quota.start + Window
    BY <2>3 DEF IsAdmitted, EInv, WindowCounts
  <2>h. \A f \in 1 .. MaxExports : audits[f].at \in Nat
    BY <1>a, ExportNumbers DEF ExportTypeOK, Audits
  <2>4. CASE InWindow(job[j])
    <3>1. quota' = [quota EXCEPT !.count = @ + 1] /\ ~(quota.count >= RateMax) /\ t < quota.start + Window
      BY <1>4, <2>4 DEF AdmitExport, InWindow
    <3>2. quota'.start = quota.start /\ quota'.count = quota.count + 1 /\ quota' \in [start: Nat, count: Nat]
      BY <3>1, <1>a, <1>t DEF ExportTypeOK
    <3>3. InQuota' \subseteq InQuota \cup {e} /\ e \notin InQuota
      BY <2>1, <2>w, <3>2 DEF InQuota, IsAdmitted
    <3>4. Cardinality(InQuota \cup {e}) = Cardinality(InQuota) + 1 /\ IsFiniteSet(InQuota \cup {e})
      BY <3>3, QuotaFinite, FS_AddElement
    <3>5. Cardinality(InQuota') <= Cardinality(InQuota) + 1 /\ Cardinality(InQuota') \in Nat
      BY <3>3, <3>4, FS_Subset, FS_CardinalityType
    <3>6. Cardinality(InQuota) <= quota.count /\ Cardinality(InQuota) \in Nat
      BY QuotaFinite DEF EInv, WindowCounts
    <3>7. \A f \in 1 .. MaxExports : IsAdmitted(f)' => audits'[f].at < quota'.start + Window
      BY <2>w, <2>3, <3>1, <3>2
    <3>8. WindowCounts'
      BY <3>1, <3>2, <3>5, <3>6, <3>7, <2>3, <1>t DEF WindowCounts
    <3>9. QED BY <2>1, <3>2, <3>8, <1>b DEF started
  <2>5. CASE ~InWindow(job[j])
    <3>1. quota' = [start |-> t, count |-> 1] /\ ~(t < quota.start + Window)
      BY <1>4, <2>5 DEF AdmitExport, InWindow
    <3>2. quota'.start = t /\ quota'.count = 1 /\ quota' \in [start: Nat, count: Nat]
      BY <3>1, <1>t
    <3>3. InQuota' \subseteq {e}
      <4> SUFFICES ASSUME NEW f \in InQuota', f # e PROVE FALSE
        OBVIOUS
      <4>1. f \in 1 .. MaxExports /\ IsAdmitted(f)' /\ audits'[f].at \in t .. t + Window - 1
        BY <3>2 DEF InQuota, IsAdmitted
      <4>2. audits[f].at < quota.start + Window /\ audits'[f].at = audits[f].at /\ audits[f].at \in Nat
        BY <4>1, <2>w, <2>h
      <4>3. QED BY <4>1, <4>2, <3>1, <2>3, <1>t
    <3>4. IsFiniteSet({e}) /\ Cardinality({e}) = 1
      BY FS_Singleton
    <3>5. Cardinality(InQuota') <= 1
      BY <3>3, <3>4, FS_Subset
    <3>6. \A f \in 1 .. MaxExports : IsAdmitted(f)' => audits'[f].at < quota'.start + Window
      BY <2>w, <2>h, <2>3, <3>1, <3>2, <1>t
    <3>7. WindowCounts'
      BY <3>2, <3>5, <3>6, <2>3 DEF WindowCounts
    <3>8. QED BY <2>1, <3>2, <3>7, <1>b DEF started
  <2>6. QED BY <2>4, <2>5
<1>5. QED BY <1>1, <1>2, <1>3, <1>4 DEF ClaimExport

LEMMA BuildKeeps ==
  ASSUME EInv, NEW j \in Jobs, NEW large \in BOOLEAN, Build(j, large)
  PROVE  EInv'
<1> DEFINE pc == IF ~Readable \/ large THEN "fail" ELSE IF ForOperator(job[j]) THEN "hand" ELSE "complete"
           er == IF Readable /\ large THEN "too_large" ELSE job[j].error
           x  == [job[j] EXCEPT !.pc = pc, !.error = er]
<1>1. job[j] \in Exporting /\ job[j].pc = "build" /\ used \in Nat /\ used \in 0 .. MaxExports
  BY ExportNumbers DEF Build, AtJob, EInv, ExportTypeOK
<1>2. /\ job' = [job EXCEPT ![j] = x]
      /\ UNCHANGED <<exportTime, holder, filing, audits, quota, used, peek>>
  BY <1>1 DEF Build, Step, Exporting
<1>3. pc \in {"fail", "hand", "complete"} /\ (pc = "complete" => job[j].id # Stable) /\ er \in {"failed", "too_large"}
  BY <1>1 DEF ForOperator, Exporting
<1> HIDE DEF pc, er
<1>4. /\ x \in Exporting /\ x.pc = pc /\ x.id = job[j].id /\ x.gen = job[j].gen
      /\ x.turned = job[j].turned
  BY <1>1, <1>3 DEF Exporting
<1> HIDE DEF x
<1>5. Handles(j, x)
  BY <1>2, <1>4 DEF Handles
<1>6. Underway(j) /\ pc \in UnderwayPcs
  BY <1>1, <1>3 DEF Underway, UnderwayPcs
<1>7. QED BY <1>1, <1>2, <1>3, <1>4, <1>5, <1>6, QuietHandler

\* A handler that fails, or is let through at the last look.
LEMMA MovesKeep ==
  ASSUME EInv, NEW j \in Jobs, NEW pc \in {"fail", "answered"}, Move(j, pc),
         UNCHANGED <<exportTime, holder, filing, audits, quota, used, peek>>,
         job[j].pc \in {"build", "hand", "complete", "check"},
         pc = "answered" => job[j].pc = "check" /\ ~job[j].turned
  PROVE  EInv'
<1>1. PICK x \in Exporting : /\ Handles(j, x) /\ x.pc = pc /\ x.id = job[j].id /\ x.gen = job[j].gen
                             /\ x.turned = job[j].turned
  BY MoveHandles DEF UnderwayPcs
<1>2. Underway(j) /\ x.pc \in UnderwayPcs /\ used \in Nat /\ used \in 0 .. MaxExports
  BY <1>1, ExportNumbers DEF Underway, UnderwayPcs, EInv, ExportTypeOK
<1>3. QED BY <1>1, <1>2, QuietHandler

LEMMA CheckKeeps ==
  ASSUME EInv, NEW j \in Jobs, CheckExport(j)
  PROVE  EInv'
<1>1. /\ job[j].pc = "check" /\ UNCHANGED <<exportTime, holder, filing, audits, quota, used, peek>>
      /\ \/ Authorized(job[j]) /\ Move(j, "answered")
         \/ Move(j, "fail")
  BY DEF CheckExport, AtJob
<1>2. Authorized(job[j]) => ~job[j].turned
  <2>1. job[j].turned => ~holder.open
    BY <1>1 DEF EInv, TurnedIsSeen
  <2>2. QED BY <2>1 DEF Authorized
<1>3. QED BY <1>1, <1>2, MovesKeep

\* The answer is handed over with the request still as the operator saw it.
LEMMA HandOverKeeps ==
  ASSUME EInv, NEW j \in Jobs, HandOverExport(j)
  PROVE  EInv'
<1>a. ExportTypeOK
  BY DEF EInv
<1>u. job[j].pc = "hand" /\ UNCHANGED <<exportTime, holder, audits, quota, used, peek>>
  BY DEF HandOverExport, AtJob
<1>1. CASE UNCHANGED filing /\ Move(j, "fail")
  BY <1>1, <1>u, MovesKeep
<1>2. CASE filing.status = "in_review" /\ filing' = WriteArtifact(filing, "export") /\ Move(j, "complete")
  <2>1. PICK x \in Exporting : /\ Handles(j, x) /\ x.pc = "complete" /\ x.id = job[j].id /\ x.gen = job[j].gen
                               /\ x.turned = job[j].turned
    BY <1>2, <1>u, MoveHandles DEF UnderwayPcs
  <2>2. /\ filing' \in Filings /\ filing'.of = "export" /\ filing'.status = "response_ready"
        /\ filing'.parts = Parts
    <3> DEFINE r == filing.revision + 1
    <3>1. r \in Nat /\ Parts \in Nat /\ filing \in Filings
      BY <1>a, ExportNumbers DEF ExportTypeOK, Filings
    <3>2. filing' = [filing EXCEPT !.of = "export", !.parts = Parts, !.chunks = 1 .. Parts, !.revision = r,
                                   !.status = "response_ready"]
      BY <1>2, <3>1 DEF WriteArtifact, Filings
    <3> HIDE DEF r
    <3>3. QED BY <3>1, <3>2 DEF Filings
  <2>3. ExportTypeOK'
    BY <1>a, <1>u, <2>1, <2>2, HandlerMoves DEF ExportTypeOK
  <2>4. used \in Nat /\ ~AtJob(j, "idle") /\ Underway(j) /\ x.pc \in UnderwayPcs
    BY <1>a, <1>u, <2>1, ExportNumbers DEF ExportTypeOK, AtJob, Underway, UnderwayPcs
  <2>5. IdsApart'
    BY <1>u, <2>1, <2>4, IdsStay
  <2>6. UnderwayIsStarted' /\ OneHandlerEach'
    <3>1. audits[job[j].id].status \in {"started", "completed"}
      BY <2>4 DEF EInv, UnderwayIsStarted
    <3>2. QED BY <1>u, <2>1, <2>4, <3>1, AuditStays
  <2>7. AnsweredByExport'
    BY <1>u, <2>1, <2>2, AnswerStays
  <2>8. TurnedIsSeen'
    <3>1. job[j].turned => ~holder.open
      BY <1>u DEF EInv, TurnedIsSeen
    <3>2. QED BY <2>1, <3>1, TurnedStays
  <2>9. WindowCounts' /\ ReadingIsWhole'
    BY <1>2, <1>u, WindowStays, ReadingStays DEF IsAdmitted
  <2>10. QED BY <2>3, <2>5, <2>6, <2>7, <2>8, <2>9 DEF EInv
<1>3. QED BY <1>1, <1>2 DEF HandOverExport

\* The audit is closed by the handler whose export it is, while it is authorized.
LEMMA CompleteKeeps ==
  ASSUME EInv, NEW j \in Jobs, CompleteExport(j)
  PROVE  EInv'
<1> DEFINE e == job[j].id
           y == [audits[e] EXCEPT !.status = "completed"]
<1>a. ExportTypeOK
  BY DEF EInv
<1>u. job[j].pc = "complete" /\ UNCHANGED <<exportTime, holder, filing, quota, used, peek>>
  BY DEF CompleteExport, AtJob
<1>1. CASE UNCHANGED audits /\ Move(j, "fail")
  BY <1>1, <1>u, MovesKeep
<1>2. CASE audits' = [audits EXCEPT ![e].status = "completed"] /\ Move(j, "check")
  <2>1. PICK x \in Exporting : /\ Handles(j, x) /\ x.pc = "check" /\ x.id = job[j].id /\ x.gen = job[j].gen
                               /\ x.turned = job[j].turned
    BY <1>2, <1>u, MoveHandles DEF UnderwayPcs
  <2>t. e \in Exports /\ audits[e] \in Audits
    BY <1>a DEF ExportTypeOK, Exporting
  <2>2. y \in Audits /\ y.status = "completed" /\ y.at = audits[e].at /\ audits' = [audits EXCEPT ![e] = y]
    BY <1>2, <1>a, <2>t DEF Audits, ExportTypeOK
  <2> HIDE DEF y
  <2>3. /\ audits' \in [Exports -> Audits] /\ audits'[e] = y
        /\ \A f \in Exports : f # e => audits'[f] = audits[f]
    BY <2>t, <2>2, AuditWritten
  <2>4. ExportTypeOK'
    BY <1>a, <1>u, <2>1, <2>3, HandlerMoves DEF ExportTypeOK
  <2>5. used \in Nat /\ ~AtJob(j, "idle") /\ Underway(j) /\ x.pc \in UnderwayPcs
    BY <1>a, <1>u, <2>1, ExportNumbers DEF ExportTypeOK, AtJob, Underway, UnderwayPcs
  <2>6. IdsApart'
    BY <1>u, <2>1, <2>5, IdsStay
  <2>7. UnderwayIsStarted' /\ OneHandlerEach'
    BY <2>1, <2>2, <2>3, <2>5, AuditStays
  <2>8. AnsweredByExport'
    <3>1. e = Stable => filing.of = "export"
      BY <1>u DEF EInv, AnsweredByExport
    <3>2. audits'[Stable].status = "completed" => audits[Stable].status = "completed" \/ filing'.of = "export"
      BY <1>u, <2>3, <3>1, ExportNumbers
    <3>3. QED BY <1>u, <2>1, <3>1, <3>2, AnswerStays DEF EInv, AnsweredByExport
  <2>9. TurnedIsSeen'
    <3>1. job[j].turned => ~holder.open
      BY <1>u DEF EInv, TurnedIsSeen
    <3>2. QED BY <2>1, <3>1, TurnedStays
  <2>10. WindowCounts' /\ ReadingIsWhole'
    <3>1. IsAdmitted(e)
      BY <2>5 DEF EInv, UnderwayIsStarted, IsAdmitted
    <3>2. \A f \in 1 .. MaxExports : /\ IsAdmitted(f)' => IsAdmitted(f)
                                     /\ IsAdmitted(f)' => audits'[f].at = audits[f].at
      BY <2>2, <2>3, <3>1, ExportNumbers DEF IsAdmitted
    <3>3. QED BY <1>u, <3>2, WindowStays, ReadingStays
  <2>11. QED BY <2>4, <2>6, <2>7, <2>8, <2>9, <2>10 DEF EInv
<1>3. QED BY <1>1, <1>2 DEF CompleteExport

LEMMA FailKeeps ==
  ASSUME EInv, NEW j \in Jobs, FailExport(j)
  PROVE  EInv'
<1> DEFINE e == job[j].id
           y == [audits[e] EXCEPT !.status = job[j].error]
<1>a. ExportTypeOK
  BY DEF EInv
<1>u. job[j].pc = "fail" /\ UNCHANGED <<exportTime, holder, filing, quota, used, peek>> /\ Step(j, NoJob)
  BY DEF FailExport, AtJob
<1>h. Handles(j, NoJob) /\ NoJob.pc = "idle"
  BY <1>u, QuitHandles
<1>n. used \in Nat /\ used \in 0 .. MaxExports
  BY <1>a, ExportNumbers DEF ExportTypeOK
<1>1. CASE audits' = audits
  BY <1>1, <1>u, <1>h, <1>n, QuietHandler
<1>2. CASE audits' = [audits EXCEPT ![e].status = job[j].error]
  <2>t. e \in Exports /\ audits[e] \in Audits /\ job[j].error \in {"failed", "too_large"}
    BY <1>a DEF ExportTypeOK, Exporting
  <2>2. /\ y \in Audits /\ y.status \in {"failed", "too_large"} /\ y.at = audits[e].at
        /\ audits' = [audits EXCEPT ![e] = y]
    BY <1>2, <1>a, <2>t DEF Audits, ExportTypeOK
  <2> HIDE DEF y
  <2>3. /\ audits' \in [Exports -> Audits] /\ audits'[e] = y
        /\ \A f \in Exports : f # e => audits'[f] = audits[f]
    BY <2>t, <2>2, AuditWritten
  <2>4. ExportTypeOK'
    BY <1>a, <1>u, <1>h, <2>3, HandlerMoves DEF ExportTypeOK
  <2>5. Underway(j)
    BY <1>u DEF Underway
  <2>6. IdsApart'
    BY <1>n, <1>u, <1>h, IdsStay
  <2>7. UnderwayIsStarted' /\ OneHandlerEach'
    BY <1>h, <2>3, <2>5, AuditStays DEF UnderwayPcs
  <2>8. AnsweredByExport'
    <3>1. audits'[Stable].status = "completed" => audits[Stable].status = "completed"
      BY <2>2, <2>3, ExportNumbers
    <3>2. QED BY <1>u, <1>h, <3>1, AnswerStays DEF EInv, AnsweredByExport
  <2>9. TurnedIsSeen'
    BY <1>h, TurnedStays
  <2>10. WindowCounts' /\ ReadingIsWhole'
    <3>1. IsAdmitted(e)
      BY <2>5 DEF EInv, UnderwayIsStarted, IsAdmitted
    <3>2. \A f \in 1 .. MaxExports : /\ IsAdmitted(f)' => IsAdmitted(f)
                                     /\ IsAdmitted(f)' => audits'[f].at = audits[f].at
      BY <2>2, <2>3, <3>1, ExportNumbers DEF IsAdmitted
    <3>3. QED BY <1>u, <3>2, WindowStays, ReadingStays
  <2>11. QED BY <2>4, <2>6, <2>7, <2>8, <2>9, <2>10 DEF EInv
<1>3. QED BY <1>1, <1>2 DEF FailExport

\* The request is decided, made available, and its chunks expire.
LEMMA RequestKeeps ==
  ASSUME EInv, filing' \in Filings,
         UNCHANGED <<exportTime, holder, audits, quota, used, job, peek>>,
         filing.status = "delivered" => filing'.status = "delivered",
         filing.of = "export" => filing'.of = "export",
         filing'.of = "export" => filing'.status # "in_review",
         filing'.status # "in_review" => filing'.parts = Parts
  PROVE  EInv'
<1>1. ExportTypeOK' /\ IdsApart' /\ UnderwayIsStarted' /\ OneHandlerEach' /\ TurnedIsSeen'
  BY DEF EInv, ExportTypeOK, IdsApart, UnderwayIsStarted, OneHandlerEach, TurnedIsSeen, AtJob, Underway
<1>2. AnsweredByExport'
  BY DEF EInv, AnsweredByExport
<1>3. WindowCounts' /\ ReadingIsWhole'
  BY WindowStays, ReadingStays DEF IsAdmitted
<1>4. QED BY <1>1, <1>2, <1>3 DEF EInv

LEMMA RequestsKeep ==
  ASSUME EInv, \/ \E b \in BOOLEAN : Decide(b)
               \/ DeliverInApp
               \/ \E i \in 1 .. Parts : CollectChunk(i)
  PROVE  EInv'
<1> DEFINE r == filing.revision + 1
           u == exportTime + ResponseTtl
<1>t. filing \in Filings /\ r \in Nat /\ u \in Nat /\ Parts \in Nat /\ filing.chunks \subseteq 1 .. Parts
  BY ExportNumbers DEF EInv, ExportTypeOK, Filings
<1>e. /\ filing.of = "export" => filing.status # "in_review"
      /\ filing.status # "in_review" => filing.parts = Parts
  BY DEF EInv, AnsweredByExport
<1>1. CASE DeliverInApp
  <2>1. /\ filing' = [filing EXCEPT !.status = "delivered", !.until = u, !.revision = r]
        /\ filing.status = "response_ready"
        /\ UNCHANGED <<exportTime, holder, audits, quota, used, job, peek>>
    BY <1>1, <1>t DEF DeliverInApp, Filings
  <2> HIDE DEF r, u
  <2>2. filing' \in Filings /\ filing'.status = "delivered" /\ filing'.of = filing.of /\ filing'.parts = filing.parts
    BY <2>1, <1>t DEF Filings
  <2>3. QED BY <2>1, <2>2, <1>e, RequestKeeps
<1>2. ASSUME NEW i \in 1 .. Parts, CollectChunk(i) PROVE EInv'
  <2> DEFINE c == filing.chunks \ {i}
  <2>1. /\ filing' = [filing EXCEPT !.chunks = c] /\ c \subseteq 1 .. Parts
        /\ UNCHANGED <<exportTime, holder, audits, quota, used, job, peek>>
    BY <1>2, <1>t DEF CollectChunk, Filings
  <2> HIDE DEF c
  <2>2. filing' \in Filings /\ filing'.status = filing.status /\ filing'.of = filing.of /\ filing'.parts = filing.parts
    BY <2>1, <1>t DEF Filings
  <2>3. QED BY <2>1, <2>2, <1>e, RequestKeeps
<1>3. ASSUME NEW b \in BOOLEAN, Decide(b) PROVE EInv'
  <2>1. /\ filing.status = "in_review"
        /\ UNCHANGED <<exportTime, holder, audits, quota, used, job, peek>>
        /\ \/ filing' = [filing EXCEPT !.of = "operator", !.parts = Parts, !.chunks = 1 .. Parts, !.revision = r,
                                       !.status = "response_ready"]
           \/ filing' = [filing EXCEPT !.revision = r]
    BY <1>3, <1>t DEF Decide, WriteArtifact, Filings
  <2> HIDE DEF r
  <2>2. /\ filing' \in Filings
        /\ \/ filing'.of = "operator" /\ filing'.parts = Parts
           \/ filing'.status = filing.status /\ filing'.of = filing.of /\ filing'.parts = filing.parts
    BY <2>1, <1>t DEF Filings
  <2>3. QED BY <2>1, <2>2, <1>e, RequestKeeps
<1>4. QED BY <1>1, <1>2, <1>3

\* The account's deletion begins.
LEMMA HolderKeeps ==
  ASSUME EInv, HolderCloses
  PROVE  EInv'
<1> DEFINE g == holder.gen + 1
<1>a. ExportTypeOK
  BY DEF EInv
<1>u. UNCHANGED <<exportTime, filing, audits, quota, used>>
  BY DEF HolderCloses
<1>g. g \in Nat
  BY <1>a DEF ExportTypeOK
<1>h. ~holder'.open /\ holder' \in [open: BOOLEAN, gen: Nat]
  BY <1>g DEF HolderCloses
<1> HIDE DEF g
<1>1. ASSUME NEW j \in Jobs
      PROVE  /\ job'[j] \in Exporting /\ job'[j].pc = job[j].pc /\ job'[j].id = job[j].id
             /\ job[j].pc \in {"idle", "answered"} => job'[j] = job[j]
  <2> DEFINE x == [job[j] EXCEPT !.turned = TRUE]
  <2>1. job[j] \in Exporting
    BY <1>a DEF ExportTypeOK
  <2>2. x \in Exporting /\ x.pc = job[j].pc /\ x.id = job[j].id
    BY <2>1 DEF Exporting
  <2>3. job'[j] = IF job[j].pc \in {"idle", "answered"} THEN job[j] ELSE x
    BY DEF HolderCloses
  <2> HIDE DEF x
  <2>4. QED BY <2>1, <2>2, <2>3
<1>2. job' \in [Jobs -> Exporting]
  <2>1. job' = [j \in Jobs |-> IF job[j].pc \in {"idle", "answered"} THEN job[j]
                               ELSE [job[j] EXCEPT !.turned = TRUE]]
    BY DEF HolderCloses
  <2>2. QED BY <2>1, <1>1
<1>3. /\ peek' \in Peeks /\ peek'.pc = peek.pc /\ peek'.got = peek.got
      /\ peek'.logged = peek.logged
      /\ peek.pc \in {"idle", "answered"} => peek' = peek
  <2>1. peek \in Peeks
    BY <1>a DEF ExportTypeOK
  <2>2. peek' = peek \/ (peek' = [peek EXCEPT !.turned = TRUE] /\ peek.pc \notin {"idle", "answered"})
    BY DEF HolderCloses
  <2>3. QED BY <2>1, <2>2 DEF Peeks
<1>4. ExportTypeOK'
  BY <1>a, <1>u, <1>h, <1>2, <1>3 DEF ExportTypeOK
<1>5. IdsApart' /\ UnderwayIsStarted' /\ OneHandlerEach'
  BY <1>u, <1>1 DEF EInv, IdsApart, UnderwayIsStarted, OneHandlerEach, AtJob, Underway
<1>6. AnsweredByExport'
  BY <1>u, <1>1 DEF EInv, AnsweredByExport
<1>7. TurnedIsSeen'
  BY <1>h, <1>1 DEF EInv, TurnedIsSeen
<1>8. WindowCounts'
  BY <1>u, WindowStays DEF IsAdmitted
<1>9. ReadingIsWhole'
  BY <1>u, <1>h, <1>3 DEF EInv, ReadingIsWhole
<1>10. QED BY <1>4, <1>5, <1>6, <1>7, <1>8, <1>9 DEF EInv

\* The holder's reading takes a step.
LEMMA PeekKeeps ==
  ASSUME EInv, peek' \in Peeks,
         UNCHANGED <<exportTime, holder, filing, audits, quota, used, job>>,
         ReadingIsWhole'
  PROVE  EInv'
<1>1. ExportTypeOK' /\ IdsApart' /\ UnderwayIsStarted' /\ OneHandlerEach' /\ TurnedIsSeen'
  BY DEF EInv, ExportTypeOK, IdsApart, UnderwayIsStarted, OneHandlerEach, TurnedIsSeen, AtJob, Underway
<1>2. AnsweredByExport'
  BY DEF EInv, AnsweredByExport
<1>3. WindowCounts'
  BY WindowStays DEF IsAdmitted
<1>4. QED BY <1>1, <1>2, <1>3 DEF EInv

LEMMA PeeksKeep ==
  ASSUME EInv, PeekRequest \/ PeekAudit \/ EndPeek \/ \E i \in 1 .. Parts : PeekChunk(i)
  PROVE  EInv'
<1>a. /\ peek \in Peeks /\ holder.gen \in Nat /\ holder.open \in BOOLEAN /\ peek.gen \in Nat
      /\ peek.got \subseteq 1 .. Parts /\ Parts \in Nat
  BY ExportNumbers DEF EInv, ExportTypeOK, Peeks
<1>n. peek' = NoPeek => ReadingIsWhole'
  BY NoPeekTyped DEF ReadingIsWhole
<1>1. CASE PeekRequest
  <2> DEFINE p == IF filing.until > exportTime THEN "read" ELSE "audit"
             g == holder.gen
  <2>1. /\ peek' = [NoPeek EXCEPT !.pc = p, !.gen = g] /\ filing.status = "delivered"
        /\ UNCHANGED <<exportTime, holder, filing, audits, quota, used, job>>
    BY <1>1 DEF PeekRequest
  <2>2. p \in {"read", "audit"} /\ g \in Nat /\ g = holder.gen
    BY <1>a
  <2> HIDE DEF p, g
  <2>3. /\ peek' \in Peeks /\ peek'.pc = p /\ peek'.gen = g /\ ~peek'.turned /\ ~peek'.logged
        /\ peek'.got = {}
    BY <2>1, <2>2 DEF NoPeek, Peeks
  <2>4. ReadingIsWhole'
    BY <2>1, <2>2, <2>3 DEF ReadingIsWhole
  <2>5. QED BY <2>1, <2>3, <2>4, PeekKeeps
<1>2. CASE PeekAudit
  <2> DEFINE l == peek.got # {}
  <2>0. /\ UNCHANGED <<exportTime, holder, filing, audits, quota, used, job>> /\ peek.pc = "audit"
    BY <1>2 DEF PeekAudit
  <2>1. CASE peek' = NoPeek
    BY <2>0, <2>1, <1>n, NoPeekTyped, PeekKeeps
  <2>2. CASE /\ holder.open /\ holder.gen = peek.gen
             /\ peek' = [peek EXCEPT !.pc = "answered", !.logged = peek.got # {}]
    <3>1. l \in BOOLEAN /\ (l => peek.got # {}) /\ peek' = [peek EXCEPT !.pc = "answered", !.logged = l]
      BY <2>2
    <3>2. ~peek.turned /\ peek.got \in {{}, 1 .. Parts}
      BY <2>0, <2>2, <1>a DEF EInv, ReadingIsWhole
    <3> HIDE DEF l
    <3>3. /\ peek' \in Peeks /\ peek'.pc = "answered" /\ peek'.got = peek.got /\ peek'.logged = l
          /\ peek'.turned = peek.turned
      BY <3>1, <1>a DEF Peeks
    <3>4. ReadingIsWhole'
      BY <3>1, <3>2, <3>3 DEF ReadingIsWhole
    <3>5. QED BY <2>0, <3>3, <3>4, PeekKeeps
  <2>3. QED BY <2>1, <2>2, <1>2 DEF PeekAudit
<1>3. CASE EndPeek
  BY <1>3, <1>n, NoPeekTyped, PeekKeeps DEF EndPeek
<1>4. ASSUME NEW i \in 1 .. Parts, PeekChunk(i) PROVE EInv'
  <2> DEFINE got == peek.got \cup {i}
             p   == IF got = 1 .. Parts THEN "audit" ELSE "read"
  <2>0. /\ UNCHANGED <<exportTime, holder, filing, audits, quota, used, job>> /\ peek.pc = "read"
    BY <1>4 DEF PeekChunk
  <2>k. filing.status = "delivered" /\ filing.parts = Parts
    BY <2>0 DEF EInv, ReadingIsWhole, AnsweredByExport
  <2>p. (peek.turned => ~holder.open) /\ ~peek.logged
    BY <2>0 DEF EInv, ReadingIsWhole
  <2>1. CASE peek' = [peek EXCEPT !.pc = "audit", !.got = {}]
    <3>1. /\ peek' \in Peeks /\ peek'.pc = "audit" /\ peek'.got = {} /\ peek'.gen = peek.gen
          /\ peek'.turned = peek.turned /\ peek'.logged = peek.logged
      BY <2>1, <1>a DEF Peeks
    <3>2. ReadingIsWhole'
      BY <2>0, <2>p, <3>1 DEF ReadingIsWhole
    <3>3. QED BY <2>0, <3>1, <3>2, PeekKeeps
  <2>2. CASE peek' = [peek EXCEPT !.got = @ \cup {i},
                                  !.pc = IF @ = "read" /\ peek.got \cup {i} = 1 .. filing.parts THEN "audit" ELSE @]
    <3>1. peek' = [peek EXCEPT !.got = got, !.pc = p]
      BY <2>0, <2>2, <2>k, <1>a DEF Peeks
    <3>2. /\ got \subseteq 1 .. Parts /\ p \in {"read", "audit"} /\ (p = "audit" => got = 1 .. Parts)
      BY <1>a
    <3> HIDE DEF got, p
    <3>3. /\ peek' \in Peeks /\ peek'.pc = p /\ peek'.got = got /\ peek'.gen = peek.gen
          /\ peek'.turned = peek.turned /\ peek'.logged = peek.logged
      BY <3>1, <3>2, <1>a DEF Peeks
    <3>4. ReadingIsWhole'
      BY <2>0, <2>k, <2>p, <3>2, <3>3 DEF ReadingIsWhole
    <3>5. QED BY <2>0, <3>3, <3>4, PeekKeeps
  <2>3. QED BY <2>1, <2>2, <1>4 DEF PeekChunk
<1>5. QED BY <1>1, <1>2, <1>3, <1>4

\* Each step keeps the invariant.
LEMMA ExportStep == EInv /\ [ExportNext]_exportVars => EInv'
<1> SUFFICES ASSUME EInv, [ExportNext]_exportVars PROVE EInv'
  OBVIOUS
<1>a. ExportTypeOK /\ used \in Nat /\ used \in 0 .. MaxExports /\ exportTime \in Nat
  BY ExportNumbers DEF EInv, ExportTypeOK
<1>1. ASSUME NEW t, t \in Nat, exportTime' = t,
             UNCHANGED <<holder, filing, audits, quota, used, job, peek>>
      PROVE  EInv'
  <2>1. ExportTypeOK' /\ IdsApart' /\ UnderwayIsStarted' /\ OneHandlerEach' /\ TurnedIsSeen'
    BY <1>1 DEF EInv, ExportTypeOK, IdsApart, UnderwayIsStarted, OneHandlerEach, TurnedIsSeen, AtJob, Underway
  <2>2. AnsweredByExport'
    BY <1>1 DEF EInv, AnsweredByExport
  <2>3. WindowCounts' /\ ReadingIsWhole'
    BY <1>1, WindowStays, ReadingStays DEF IsAdmitted
  <2>4. QED BY <2>1, <2>2, <2>3 DEF EInv
<1>2. ASSUME ExportClock PROVE EInv'
  BY <1>2, <1>1, <1>a DEF ExportClock
<1>3. ASSUME NEW j \in Jobs, ExportTrouble(j) PROVE EInv'
  BY <1>3, MovesKeep DEF ExportTrouble
<1>4. ASSUME NEW j \in Jobs, EndExport(j) PROVE EInv'
  <2>1. Handles(j, NoJob) /\ NoJob.pc = "idle" /\ UNCHANGED <<exportTime, filing, audits, quota, used>>
    BY <1>4, QuitHandles DEF EndExport
  <2>2. QED BY <2>1, <1>a, QuietHandler
<1>5. ASSUME UNCHANGED exportVars PROVE EInv'
  BY <1>5, <1>1, <1>a DEF exportVars
<1>6. QED
  BY <1>2, <1>3, <1>4, <1>5, HolderKeeps, RequestsKeep, StartsKeep, ExportClaimKeeps, BuildKeeps,
     HandOverKeeps, CompleteKeeps, CheckKeeps, FailKeeps, PeeksKeep
  DEF ExportNext

\* Whichever handler dies, is tried again or loses its account half way: every
\* export is built by one handler, counted in its window and closed in the audit,
\* and nothing is answered once the account's deletion has begun.
THEOREM ExportsAccounted == ExportSpec => []ExportsAreAccounted
<1>1. EInv => ExportsAreAccounted
  <2> SUFFICES ASSUME EInv PROVE ExportsAreAccounted
    OBVIOUS
  <2>1. Cardinality(InQuota) <= RateMax
    <3>1. Cardinality(InQuota) \in Nat /\ quota.count \in Nat /\ RateMax \in Nat
      BY QuotaFinite, ExportNumbers DEF EInv, ExportTypeOK
    <3>2. QED BY <3>1 DEF EInv, WindowCounts
  <2>2. \A j \in Jobs : AtJob(j, "answered") => ~job[j].turned /\ audits[job[j].id].status = "completed"
    BY DEF EInv, TurnedIsSeen, UnderwayIsStarted, Underway, AtJob
  <2>3. peek.pc = "answered" => ~peek.turned /\ (peek.logged => peek.got = 1 .. Parts)
    BY DEF EInv, ReadingIsWhole
  <2>4. QED
    BY <2>1, <2>2, <2>3 DEF EInv, OneHandlerEach, AnsweredByExport, ExportsAreAccounted, InQuota
<1>2. QED BY ExportStart, ExportStep, <1>1, PTL DEF ExportSpec

-----------------------------------------------------------------------------
(* The routes.                                                             *)

PackageSteps == PackageRoute.steps
OtherSteps == {"register", "pin", "mint", "serve", "write", "current", "identity", "provider",
               "recent", "revoke", "close", "protect", "mark"}
Steps == OtherSteps \cup {"package"}
Requests == [pc: {"none", "handling", "writing", "wrote", "served"}, left: Seq(Steps),
             gen: 0 .. 2, auth: Nat, sheet: BOOLEAN, package: BOOLEAN]
Persons  == [state : {"none", "active", "closing"}, gen : 0 .. 2, valid : Nat, conflict : BOOLEAN]

\* The steps a request for a package has left: the last of its route's.
OnPath(s) ==
  /\ s \in Seq(Steps) /\ Len(s) \in 1 .. 8
  /\ \A i \in 1 .. Len(s), j \in 1 .. 8 : Len(s) + j = 8 + i => s[i] = PackageSteps[j]

\* A request has steps left.
Alive(r) == r.pc \in {"handling", "writing"} <=> r.left # <<>>

\* What upset a request for a package is still there, until it is found: a conflict
\* by the second look at the identity, the rest by the token being verified again.
Held(r, u) ==
  r.package =>
    /\ r.pc # "writing"
    /\ r.pc = "served" => ~u
    /\ r.pc = "handling" =>
         \/ r.left = <<"mark">>
         \/ /\ OnPath(r.left)
            /\ u => Ended(person, r)
            /\ u /\ Len(r.left) <= 3 => person.state = "closing" \/ r.auth < person.valid
            /\ u => Len(r.left) >= 3

\* The generation is that of the account's state, and nothing is of a second to come.
PersonOK ==
  /\ person.state = "none" => person.gen = 0
  /\ person.state = "active" => person.gen = 1
  /\ person.state = "closing" => person.gen = 2
  /\ person.valid <= second /\ custom <= second

HTypeOK ==
  /\ second \in 1 .. MaxSecond
  /\ person \in Persons
  /\ custom \in Nat
  /\ asks \in [Callers -> Requests]
  /\ upset \in [Callers -> BOOLEAN]

HInv ==
  /\ HTypeOK /\ PersonOK
  /\ \A c \in Callers : Alive(asks[c]) /\ Held(asks[c], upset[c])

-----------------------------------------------------------------------------
\* What a route is made of.

\* Steps of which none looks for a package.
Plain(s) == s \in Seq(Steps) /\ s # <<>> /\ \A i \in 1 .. Len(s) : s[i] # "package"

LEMMA OtherStepsAre ==
  /\ "register" \in OtherSteps /\ "pin" \in OtherSteps /\ "mint" \in OtherSteps
  /\ "serve" \in OtherSteps /\ "write" \in OtherSteps /\ "current" \in OtherSteps
  /\ "identity" \in OtherSteps /\ "provider" \in OtherSteps /\ "recent" \in OtherSteps
  /\ "revoke" \in OtherSteps /\ "close" \in OtherSteps
BY DEF OtherSteps

LEMMA PlainSteps ==
  /\ \A a \in OtherSteps : Plain(<<a>>)
  /\ \A a, b \in OtherSteps : Plain(<<a, b>>)
  /\ \A a, b, c \in OtherSteps : Plain(<<a, b, c>>)
  /\ \A a, b, c, d \in OtherSteps : Plain(<<a, b, c, d>>)
<1>1. \A a \in OtherSteps : Plain(<<a>>)
  BY DEF Plain, Steps, OtherSteps
<1>2. \A a, b \in OtherSteps : Plain(<<a, b>>)
  BY DEF Plain, Steps, OtherSteps
<1>3. \A a, b, c \in OtherSteps : Plain(<<a, b, c>>)
  BY DEF Plain, Steps, OtherSteps
<1>4. \A a, b, c, d \in OtherSteps : Plain(<<a, b, c, d>>)
  BY DEF Plain, Steps, OtherSteps
<1>5. QED BY <1>1, <1>2, <1>3, <1>4

LEMMA RevocationStepsAre == Plain(<<"write", "revoke", "write", "current", "current", "mint">>)
<1> DEFINE s == <<"write", "revoke", "write", "current", "current", "mint">>
<1>1. {"write", "revoke", "current", "mint"} \subseteq Steps
  BY DEF Steps, OtherSteps
<1>2. \A a, b, c, d, e, f \in Steps : <<a, b, c, d, e, f>> \in Seq(Steps)
  OBVIOUS
<1>3. s \in Seq(Steps)
  BY <1>1, <1>2
<1>4. Len(s) = 6 /\ s # <<>> /\ \A i \in 1 .. 6 : s[i] # "package"
  OBVIOUS
<1>5. QED BY <1>3, <1>4 DEF Plain

LEMMA PlainJoined ==
  ASSUME NEW s, NEW t, Plain(s), Plain(t)
  PROVE  Plain(s \o t)
BY DEF Plain

\* Only one route looks for a package, and it is one for a signed-in caller.
OneForPackages(r) == Plain(r.steps) \/ (r.steps = PackageSteps /\ r.guard = "app_check_bearer")

LEMMA PackageStepsAre ==
  /\ PackageSteps \in Seq(Steps) /\ Len(PackageSteps) = 8
  /\ PackageSteps[1] = "identity" /\ PackageSteps[2] = "provider" /\ PackageSteps[3] = "identity"
  /\ PackageSteps[4] = "package" /\ PackageSteps[5] = "identity" /\ PackageSteps[6] = "protect"
  /\ PackageSteps[7] = "identity" /\ PackageSteps[8] = "serve"
<1>1. PackageSteps = <<"identity", "provider", "identity", "package", "identity", "protect", "identity", "serve">>
  BY DEF PackageSteps, PackageRoute, Bearer, On
<1>2. Len(PackageSteps) = 8
  BY <1>1
<1>3. \A a, b, c, d, e, f, g, h \in Steps : <<a, b, c, d, e, f, g, h>> \in Seq(Steps)
  OBVIOUS
<1>s. {"identity", "provider", "package", "protect", "serve"} \subseteq Steps
  BY DEF Steps, OtherSteps
<1>4. PackageSteps \in Seq(Steps)
  BY <1>1, <1>3, <1>s
<1>5. QED BY <1>1, <1>2, <1>4

LEMMA RoutesAre == \A r \in Routes : OneForPackages(r)
<1> DEFINE P(s) == Plain(s)
           B(s) == OneForPackages(Bearer(s))
           O(g, s) == OneForPackages(On(g, s))
<1>p. \A s : Plain(s) => B(s) /\ \A g : O(g, s)
  BY DEF OneForPackages, Bearer, On
<1>q. OneForPackages(PackageRoute)
  BY DEF OneForPackages, PackageSteps, PackageRoute, Bearer, On
<1>a. Plain(Available)
  BY PlainSteps, OtherStepsAre DEF Available
<1> HIDE DEF B, O
<1>1. \A a, b, c, d \in OtherSteps :
        /\ B(<<a>>) /\ B(<<a, b>>) /\ B(<<a, b, c>>) /\ B(<<a, b, c, d>>)
        /\ \A g : O(g, <<a>>) /\ O(g, <<a, b>>)
  BY <1>p, PlainSteps
<1>2. \A r \in RegistrationRoutes : OneForPackages(r)
  <2>1. /\ \A g : O(g, <<"register">>) /\ O(g, <<"pin", "mint">>)
        /\ B(<<"serve">>) /\ B(<<"write">>)
    BY <1>1, OtherStepsAre
  <2>2. QED BY <2>1 DEF RegistrationRoutes, B, O
<1>3. \A r \in PurchaseRoutes : OneForPackages(r)
  <2>1. B(<<"write", "write">>) /\ B(<<"write">>) /\ B(<<"current", "serve">>)
    BY <1>1, OtherStepsAre
  <2>w. Plain(<<"current">>) /\ Plain(<<"write">>)
    BY PlainSteps, OtherStepsAre
  <2>2. Plain(<<"current">> \o Available) /\ Plain(<<"write">> \o Available)
    BY <1>a, <2>w, PlainJoined
  <2>3. Plain(<<"current">> \o Available \o <<"write">>) /\ Plain(<<"write">> \o Available \o <<"write">>)
    BY <2>2, <2>w, PlainJoined
  <2>4. B(<<"current">> \o Available \o <<"write">>) /\ B(<<"write">> \o Available \o <<"write">>)
    BY <2>3, <1>p
  <2>5. QED BY <2>1, <2>4 DEF PurchaseRoutes, B
<1>4. \A r \in EntitlementRoutes \cup ReadRoutes \cup SyncRoutes \cup ExportRoutes : OneForPackages(r)
  <2>1. /\ B(<<"identity", "provider", "identity", "serve">>) /\ B(<<"current", "current", "serve">>)
        /\ B(<<"write">>) /\ B(<<"recent", "write", "current", "serve">>)
    BY <1>1, OtherStepsAre
  <2>2. QED BY <2>1 DEF EntitlementRoutes, ReadRoutes, SyncRoutes, ExportRoutes, B
<1>5. \A r \in PrivacyRoutes \cup LegalRoutes \cup AdoptionRoutes : OneForPackages(r)
  <2>1. /\ B(<<"write">>) /\ B(<<"serve">>) /\ B(<<"recent", "write">>)
        /\ B(<<"recent", "current", "serve">>)
        /\ \A g : O(g, <<"write">>) /\ O(g, <<"serve">>)
    BY <1>1, OtherStepsAre
  <2>2. QED BY <2>1 DEF PrivacyRoutes, LegalRoutes, AdoptionRoutes, B, O
<1>6. \A r \in TransferRoutes \cup LifecycleRoutes : OneForPackages(r)
  <2>1. /\ B(<<"current", "current", "current", "mint">>) /\ B(<<"recent", "close">>)
        /\ \A g : O(g, <<"write">>) /\ O(g, <<"write", "write">>) /\ O(g, <<"serve">>)
    BY <1>1, OtherStepsAre
  <2>2. B(<<"write", "revoke", "write", "current", "current", "mint">>)
    BY <1>p, RevocationStepsAre
  <2>3. QED BY <2>1, <2>2 DEF TransferRoutes, LifecycleRoutes, B, O
<1>7. \A r \in ContentRoutes : OneForPackages(r)
  <2>1. B(<<"serve">>) /\ \A g : O(g, <<"write">>)
    BY <1>1, OtherStepsAre
  <2>2. QED BY <2>1, <1>q DEF ContentRoutes, B, O
<1>8. QED BY <1>2, <1>3, <1>4, <1>5, <1>6, <1>7 DEF Routes

LEMMA TailIs ==
  ASSUME NEW s \in Seq(Steps), Len(s) >= 1
  PROVE  /\ Tail(s) \in Seq(Steps) /\ Len(Tail(s)) = Len(s) - 1
         /\ \A i \in 1 .. Len(Tail(s)) : i + 1 \in 1 .. Len(s) /\ Tail(s)[i] = s[i + 1]
OBVIOUS

\* The next step of a request for a package, by how many it has left.
LEMMA HeadOfPath ==
  ASSUME NEW s, OnPath(s)
  PROVE  /\ Len(s) \in {8, 6, 4, 2} => Head(s) = "identity"
         /\ Len(s) = 7 => Head(s) = "provider"
         /\ Len(s) = 5 => Head(s) = "package"
         /\ Len(s) = 3 => Head(s) = "protect"
         /\ Len(s) = 1 => Head(s) = "serve"
         /\ Len(s) >= 2 => OnPath(Tail(s)) /\ Len(Tail(s)) = Len(s) - 1 /\ Tail(s) # <<>>
         /\ Len(s) = 1 => Tail(s) = <<>>
         /\ "package" \in Range(s) => Len(s) >= 5
<1>0. /\ s \in Seq(Steps) /\ Len(s) \in 1 .. 8
      /\ \A i \in 1 .. Len(s), j \in 1 .. 8 : Len(s) + j = 8 + i => s[i] = PackageSteps[j]
  BY DEF OnPath
<1>1. PICK n \in 1 .. 8 : n = Len(s)
  BY <1>0
<1>2. ASSUME n >= 2
      PROVE  OnPath(Tail(s)) /\ Len(Tail(s)) = n - 1 /\ Tail(s) # <<>>
  <2> DEFINE t == Tail(s)
  <2>0. /\ t \in Seq(Steps) /\ Len(t) = Len(s) - 1
        /\ \A i \in 1 .. Len(t) : i + 1 \in 1 .. Len(s) /\ t[i] = s[i + 1]
    <3>1. Len(s) >= 2
      BY <1>1, <1>2
    <3>2. QED BY <1>0, <3>1, TailIs
  <2> HIDE DEF t
  <2>l. Len(t) = n - 1
    BY <2>0, <1>1
  <2>1. t \in Seq(Steps) /\ Len(t) = n - 1 /\ Len(t) \in 1 .. 8
    <3>1. n \in 1 .. 8
      BY <1>1
    <3>2. n - 1 \in 1 .. 8
      BY <3>1, <1>2
    <3>3. QED BY <3>2, <2>0, <2>l
  <2>2. \A i \in 1 .. Len(t) : i + 1 \in 1 .. n /\ t[i] = s[i + 1]
    BY <2>0, <1>1
  <2>n. t # <<>>
    BY <2>1
  <2>3. ASSUME NEW i \in 1 .. Len(t), NEW j \in 1 .. 8, Len(t) + j = 8 + i
        PROVE  t[i] = PackageSteps[j]
    <3>1. i + 1 \in 1 .. n /\ t[i] = s[i + 1]
      BY <2>2
    <3>2. n + j = 8 + (i + 1)
      BY <2>1, <2>3
    <3>3. s[i + 1] = PackageSteps[j]
      BY <3>1, <3>2, <1>0, <1>1
    <3>4. QED BY <3>1, <3>3
  <2>4. OnPath(t)
    BY <2>1, <2>3 DEF OnPath
  <2>5. QED BY <2>1, <2>4, <2>n DEF t
<1>3. ASSUME "package" \in Range(s) PROVE n >= 5
  <2>1. PICK i \in 1 .. n : s[i] = "package"
    <3>1. DOMAIN s = 1 .. Len(s)
      BY <1>0
    <3>2. QED BY <3>1, <1>1, <1>3 DEF Range
  <2>2. \A j \in 1 .. 8 : n + j = 8 + i => j = 4
    <3>1. \A j \in 1 .. 8 : n + j = 8 + i => PackageSteps[j] = "package"
      BY <1>0, <1>1, <2>1
    <3>2. \A j \in 1 .. 8 : PackageSteps[j] = "package" => j = 4
      BY PackageStepsAre
    <3>3. QED BY <3>1, <3>2
  <2>3. PICK j \in 1 .. 8 : n + j = 8 + i
    <3>1. 8 + i - n \in 1 .. 8 /\ n + (8 + i - n) = 8 + i
      BY <2>1
    <3>2. QED BY <3>1
  <2>4. QED BY <2>1, <2>2, <2>3
<1>4. ASSUME n = 1 PROVE Tail(s) = <<>>
  <2>1. Tail(s) \in Seq(Steps) /\ Len(Tail(s)) = 0
    <3>1. Len(s) = 1 /\ Len(s) >= 1
      BY <1>1, <1>4
    <3>2. Tail(s) \in Seq(Steps) /\ Len(Tail(s)) = Len(s) - 1
      BY <1>0, <3>1, TailIs
    <3>3. QED BY <3>1, <3>2
  <2>2. QED BY <2>1, EmptySeq
<1>5. \A j \in 1 .. 8 : n + j = 9 => Head(s) = PackageSteps[j]
  <2>1. Head(s) = s[1] /\ 1 \in 1 .. n
    BY <1>0, <1>1
  <2>2. \A j \in 1 .. 8 : n + j = 9 => s[1] = PackageSteps[j]
    BY <2>1, <1>0, <1>1
  <2>3. QED BY <2>1, <2>2
<1>6. /\ n \in {8, 6, 4, 2} => Head(s) = "identity"
      /\ n = 7 => Head(s) = "provider"
      /\ n = 5 => Head(s) = "package"
      /\ n = 3 => Head(s) = "protect"
      /\ n = 1 => Head(s) = "serve"
  <2>1. /\ n = 8 => Head(s) = PackageSteps[1]
        /\ n = 7 => Head(s) = PackageSteps[2]
        /\ n = 6 => Head(s) = PackageSteps[3]
        /\ n = 5 => Head(s) = PackageSteps[4]
        /\ n = 4 => Head(s) = PackageSteps[5]
        /\ n = 3 => Head(s) = PackageSteps[6]
        /\ n = 2 => Head(s) = PackageSteps[7]
        /\ n = 1 => Head(s) = PackageSteps[8]
    BY <1>5
  <2>2. QED BY <2>1, PackageStepsAre
<1>7. QED BY <1>1, <1>2, <1>3, <1>4, <1>6
-----------------------------------------------------------------------------
\* What becomes of a request.

LEMMA ApiNumbers == MaxSecond \in Nat /\ MaxSecond >= 1
BY ApiAssumption DEF ApiAssumption

LEMMA StillIs ==
  /\ Still \in Requests /\ Still.pc = "none" /\ Still.left = <<>> /\ ~Still.package
  /\ Still.gen = 0 /\ Still.auth = 0
BY DEF Still, Requests

LEMMA LeftIs ==
  ASSUME NEW r \in Requests, NEW s \in Seq(Steps), NEW y, y = [r EXCEPT !.left = s]
  PROVE  /\ y \in Requests /\ y.left = s /\ y.pc = r.pc /\ y.gen = r.gen /\ y.auth = r.auth
         /\ y.package = r.package
BY DEF Requests

LEMMA PcIs ==
  ASSUME NEW r \in Requests, NEW w \in {"none", "handling", "writing", "wrote", "served"},
         NEW y, y = [r EXCEPT !.pc = w]
  PROVE  /\ y \in Requests /\ y.left = r.left /\ y.pc = w /\ y.gen = r.gen /\ y.auth = r.auth
         /\ y.package = r.package
BY DEF Requests

LEMMA GenIs ==
  ASSUME NEW r \in Requests, NEW g \in 0 .. 2, NEW y, y = [r EXCEPT !.gen = g]
  PROVE  /\ y \in Requests /\ y.left = r.left /\ y.pc = r.pc /\ y.gen = g /\ y.auth = r.auth
         /\ y.package = r.package
BY DEF Requests

LEMMA HandlingIs ==
  ASSUME HInv, NEW c \in Callers
  PROVE  /\ asks[c] \in Requests /\ upset[c] \in BOOLEAN /\ Alive(asks[c]) /\ Held(asks[c], upset[c])
         /\ asks[c].left \in Seq(Steps)
         /\ asks[c].pc = "handling" => Tail(asks[c].left) \in Seq(Steps)
<1>1. /\ asks[c] \in Requests /\ upset[c] \in BOOLEAN /\ Alive(asks[c]) /\ Held(asks[c], upset[c])
      /\ asks[c].left \in Seq(Steps)
  BY DEF HInv, HTypeOK, Requests
<1>2. ASSUME asks[c].pc = "handling" PROVE Tail(asks[c].left) \in Seq(Steps)
  <2>1. asks[c].left # <<>>
    BY <1>1, <1>2 DEF Alive
  <2>2. Len(asks[c].left) >= 1
    BY <2>1, <1>1, EmptySeq
  <2>3. QED BY <2>2, <1>1, TailIs
<1>3. QED BY <1>1, <1>2

\* The step is done: the request goes on with the rest, or answers.
LEMMA DoneIs ==
  ASSUME HInv, NEW c \in Callers, asks[c].pc = "handling", NEW how \in {"none", "served"},
         NEW y, y = Done(c, how)
  PROVE  /\ y \in Requests /\ y.package = asks[c].package
         /\ Tail(asks[c].left) = <<>> =>
              y.pc = how /\ y.left = <<>> /\ y.gen = 0 /\ y.auth = 0
         /\ Tail(asks[c].left) # <<>> =>
              /\ y.pc = "handling" /\ y.left = Tail(asks[c].left)
              /\ y.gen = asks[c].gen /\ y.auth = asks[c].auth
<1>1. CASE Tail(asks[c].left) = <<>>
  <2>1. y = [Still EXCEPT !.pc = how, !.package = asks[c].package]
    BY <1>1 DEF Done
  <2>2. asks[c].package \in BOOLEAN
    BY HandlingIs DEF Requests
  <2>3. QED BY <1>1, <2>1, <2>2, StillIs DEF Requests
<1>2. CASE Tail(asks[c].left) # <<>>
  <2>1. y = [asks[c] EXCEPT !.left = Tail(asks[c].left)]
    BY <1>2 DEF Done
  <2>2. asks[c] \in Requests /\ Tail(asks[c].left) \in Seq(Steps)
    BY HandlingIs
  <2>3. PICK r \in Requests, s \in Seq(Steps) : r = asks[c] /\ s = Tail(asks[c].left)
    BY <2>2
  <2>4. y = [r EXCEPT !.left = s]
    BY <2>1, <2>3
  <2>5. /\ y \in Requests /\ y.left = s /\ y.pc = r.pc /\ y.gen = r.gen /\ y.auth = r.auth
         /\ y.package = r.package
    BY <2>4, LeftIs
  <2>6. QED BY <1>2, <2>3, <2>5
<1>3. QED BY <1>1, <1>2

LEMMA PackageHeads ==
  ASSUME HInv, NEW c \in Callers, asks[c].pc = "handling", asks[c].package
  PROVE  Head(asks[c].left) \in {"identity", "provider", "package", "protect", "serve", "mark"}
<1>1. asks[c].left = <<"mark">> \/ OnPath(asks[c].left)
  BY HandlingIs DEF Held
<1>2. CASE asks[c].left = <<"mark">>
  BY <1>2
<1>3. CASE OnPath(asks[c].left)
  <2>1. Len(asks[c].left) \in {8, 7, 6, 5, 4, 3, 2, 1}
    BY <1>3 DEF OnPath
  <2>2. QED BY <1>3, <2>1, HeadOfPath
<1>4. QED BY <1>1, <1>2, <1>3

\* A caller of whom nothing else changed than where her request is.
LEMMA AskKeeps ==
  ASSUME HInv, NEW c \in Callers, NEW x \in Requests, asks' = [asks EXCEPT ![c] = x],
         UNCHANGED <<second, person>>,
         custom' \in {custom, second},
         upset' = upset \/ upset' = [upset EXCEPT ![c] = FALSE],
         Alive(x), Held(x, upset'[c])
  PROVE  HInv'
<1>t. HTypeOK /\ PersonOK
  BY DEF HInv
<1>1. \A d \in Callers : /\ asks'[d] = IF d = c THEN x ELSE asks[d]
                         /\ d # c => upset'[d] = upset[d]
  BY <1>t DEF HTypeOK
<1>2. \A d \in Callers : Alive(asks[d])' /\ Held(asks[d], upset[d])'
  <2>1. ASSUME NEW d \in Callers PROVE Alive(asks[d])' /\ Held(asks[d], upset[d])'
    <3>1. CASE d = c
      BY <3>1, <1>1 DEF Alive, Held, Ended
    <3>2. CASE d # c
      BY <3>2, <1>1, HandlingIs DEF Alive, Held, Ended
    <3>3. QED BY <3>1, <3>2
  <2>2. QED BY <2>1
<1>3. HTypeOK' /\ PersonOK'
  <2>1. /\ second' \in 1 .. MaxSecond /\ person' \in Persons /\ asks' \in [Callers -> Requests]
        /\ upset' \in [Callers -> BOOLEAN]
    BY <1>t DEF HTypeOK
  <2>2. custom' \in Nat /\ custom' <= second
    <3>1. second \in Nat /\ custom \in Nat /\ custom <= second
      BY <1>t, ApiNumbers DEF HTypeOK, PersonOK
    <3>2. QED BY <3>1
  <2>3. QED BY <2>1, <2>2, <1>t DEF HTypeOK, PersonOK
<1>4. QED BY <1>2, <1>3 DEF HInv

\* Of one identity's account: p is what it becomes, x where the request is then.
LEMMA ChangeKeeps ==
  ASSUME HInv, NEW c \in Callers, NEW x \in Requests, NEW p \in Persons,
         Go(c, x), Change(c, p), custom' = custom,
         /\ p.state = "none" => p.gen = 0
         /\ p.state = "active" => p.gen = 1
         /\ p.state = "closing" => p.gen = 2,
         person.conflict => p.conflict, person.state = "closing" => p.state = "closing",
         person.valid <= p.valid, p.valid <= second, Alive(x), ~x.package
  PROVE  HInv'
<1>t. HTypeOK /\ PersonOK
  BY DEF HInv
<1>1. /\ person' = p /\ second' = second /\ asks' = [asks EXCEPT ![c] = x]
      /\ upset' = [d \in Callers |->
                     upset[d] \/ (d # c /\ "package" \in Range(asks[d].left) /\ Ended(p, asks[d]))]
  BY DEF Change, Go
<1>2. /\ \A d \in Callers : asks'[d] = IF d = c THEN x ELSE asks[d]
      /\ upset' \in [Callers -> BOOLEAN]
      /\ \A d \in Callers : upset'[d] => upset[d] \/ ("package" \in Range(asks[d].left) /\ Ended(p, asks[d]))
  <2>1. \A d \in Callers : (upset[d] \/ (d # c /\ "package" \in Range(asks[d].left) /\ Ended(p, asks[d]))) \in BOOLEAN
    BY <1>t DEF HTypeOK
  <2>2. QED BY <1>1, <1>t, <2>1 DEF HTypeOK
<1>3. HTypeOK' /\ PersonOK'
  BY <1>1, <1>2, <1>t DEF HTypeOK, PersonOK
<1>4. \A d \in Callers : Alive(asks[d])' /\ Held(asks[d], upset[d])'
  <2>1. ASSUME NEW d \in Callers PROVE Alive(asks[d])' /\ Held(asks[d], upset[d])'
    <3>1. CASE d = c
      BY <3>1, <1>2 DEF Alive, Held
    <3>2. CASE d # c
      <4> PICK r : r = asks[d]
        OBVIOUS
      <4>0. asks'[d] = r /\ r \in Requests /\ Alive(r) /\ Held(r, upset[d]) /\ person' = p
        BY <3>2, <1>1, <1>2, HandlingIs
      <4>n. r.auth \in Nat /\ p.valid \in Nat /\ person.valid \in Nat
        BY <4>0, <1>t DEF HTypeOK, Persons, Requests
      <4>g. r.auth < person.valid => r.auth < p.valid
        BY <4>n
      <4>s. Ended(person, r) => Ended(p, r)
        BY <4>g DEF Ended
      <4>u. upset'[d] /\ ~upset[d] => r.left \in Seq(Steps) /\ "package" \in Range(r.left) /\ Ended(p, r)
        BY <4>0, <1>2 DEF Requests
      <4>2. ASSUME r.package
            PROVE  /\ r.pc # "writing"
                   /\ r.pc = "served" => ~upset'[d]
        <5>1. r.pc # "writing" /\ (r.pc = "served" => ~upset[d] /\ r.left = <<>>)
          BY <4>0, <4>2 DEF Held, Alive
        <5>2. r.left = <<>> => "package" \notin Range(r.left)
          BY DEF Range
        <5>3. QED BY <5>1, <5>2, <4>u, <4>2
      <4>3. ASSUME r.package, r.pc = "handling"
            PROVE  \/ r.left = <<"mark">>
                   \/ /\ OnPath(r.left)
                      /\ upset'[d] => Ended(p, r)
                      /\ upset'[d] /\ Len(r.left) <= 3 => p.state = "closing" \/ r.auth < p.valid
                      /\ upset'[d] => Len(r.left) >= 3
        <5>0. \/ r.left = <<"mark">>
              \/ /\ OnPath(r.left)
                 /\ upset[d] => Ended(person, r)
                 /\ upset[d] /\ Len(r.left) <= 3 => person.state = "closing" \/ r.auth < person.valid
                 /\ upset[d] => Len(r.left) >= 3
          BY <4>0, <4>3 DEF Held
        <5>1. CASE r.left = <<"mark">>
          BY <5>1
        <5>2. CASE r.left # <<"mark">>
          <6>1. OnPath(r.left) /\ Len(r.left) \in 1 .. 8
            BY <5>0, <5>2 DEF OnPath
          <6>2. upset'[d] => upset[d] \/ Len(r.left) >= 5
            BY <4>u, <6>1, HeadOfPath
          <6>3. upset'[d] => Ended(p, r)
            BY <4>u, <4>s, <5>0, <5>2
          <6>4. upset'[d] /\ Len(r.left) <= 3 => p.state = "closing" \/ r.auth < p.valid
            BY <4>g, <5>0, <5>2, <6>1, <6>2
          <6>5. upset'[d] => Len(r.left) >= 3
            BY <5>0, <5>2, <6>1, <6>2
          <6>6. QED BY <6>1, <6>3, <6>4, <6>5
        <5>3. QED BY <5>1, <5>2
      <4>4. Held(asks[d], upset[d])'
        BY <4>0, <4>2, <4>3 DEF Held
      <4>5. QED BY <4>0, <4>4 DEF Alive
    <3>3. QED BY <3>1, <3>2
  <2>2. QED BY <2>1
<1>5. QED BY <1>3, <1>4 DEF HInv

\* What a request for a package has to have found before the step is behind it.
Looked(c) ==
  asks[c].package =>
    /\ Head(asks[c].left) = "identity" => Active /\ ~person.conflict
    /\ Head(asks[c].left) = "protect" => Active /\ ~(asks[c].auth < person.valid)

\* A step that is passed, or refuses.
LEMMA PassKeeps ==
  ASSUME HInv, NEW c \in Callers, asks[c].pc = "handling", StepOnly,
         Go(c, Refused) \/ (Go(c, Done(c, "none")) /\ Looked(c)),
         Head(asks[c].left) \notin {"mark", "serve"}
  PROVE  HInv'
<1>1. CASE Go(c, Refused)
  <2>1. Alive(Still) /\ Held(Still, upset'[c])
    BY StillIs DEF Alive, Held
  <2>2. QED BY <1>1, <2>1, StillIs, AskKeeps DEF Go, Refused, StepOnly
<1>2. CASE Go(c, Done(c, "none")) /\ Looked(c)
  <2> PICK y : y = Done(c, "none")
    OBVIOUS
  <2> PICK r : r = asks[c]
    OBVIOUS
  <2>1. /\ y \in Requests /\ y.package = r.package
        /\ Tail(r.left) = <<>> =>
             y.pc = "none" /\ y.left = <<>> /\ y.gen = 0 /\ y.auth = 0
        /\ Tail(r.left) # <<>> =>
             /\ y.pc = "handling" /\ y.left = Tail(r.left)
             /\ y.gen = r.gen /\ y.auth = r.auth
    BY DoneIs
  <2>2. Alive(r) /\ Held(r, upset[c]) /\ r.pc = "handling" /\ upset' = upset
    BY HandlingIs DEF StepOnly
  <2>3. Alive(y)
    BY <2>1, <2>2 DEF Alive
  <2>4. ASSUME r.package, Tail(r.left) # <<>>
        PROVE  /\ OnPath(y.left) /\ (upset[c] => Ended(person, y))
               /\ upset[c] /\ Len(y.left) <= 3 => person.state = "closing" \/ y.auth < person.valid
               /\ upset[c] => Len(y.left) >= 3
    <3> DEFINE gone == person.state = "closing" \/ r.auth < person.valid
    <3>1. r.left # <<"mark">>
      <4>1. Head(r.left) # "mark"
        OBVIOUS
      <4>2. QED BY <4>1
    <3>2. /\ OnPath(r.left)
          /\ upset[c] => Ended(person, r)
          /\ upset[c] /\ Len(r.left) <= 3 => gone
          /\ upset[c] => Len(r.left) >= 3
      BY <2>2, <2>4, <3>1 DEF Held
    <3>3. PICK n \in 1 .. 8 : n = Len(r.left)
      BY <3>2 DEF OnPath
    <3>4. n # 1
      BY <3>2, <3>3, HeadOfPath
    <3>5. OnPath(Tail(r.left)) /\ Len(Tail(r.left)) = n - 1
      <4>1. Len(r.left) >= 2
        <5>1. n \in 1 .. 8
          BY <3>3
        <5>2. n >= 2
          BY <5>1, <3>4
        <5>3. QED BY <5>2, <3>3
      <4>2. QED BY <3>2, <3>3, <4>1, HeadOfPath
    <3>6. ASSUME upset[c] PROVE n >= 4 /\ (n <= 4 => gone)
      <4>1. n = 3 => FALSE
        <5>1. n = 3 => Head(r.left) = "protect"
          BY <3>2, <3>3, HeadOfPath
        <5>2. n = 3 => person.state = "active" /\ ~(r.auth < person.valid)
          BY <5>1, <1>2, <2>4 DEF Looked, Active
        <5>3. QED BY <5>2, <3>2, <3>3, <3>6
      <4>2. n = 4 => gone
        <5>1. n = 4 => Head(r.left) = "identity"
          BY <3>2, <3>3, HeadOfPath
        <5>2. n = 4 => ~person.conflict
          BY <5>1, <1>2, <2>4 DEF Looked
        <5>3. Ended(person, r)
          BY <3>2, <3>6
        <5>4. QED BY <5>2, <5>3 DEF Ended
      <4>3. n >= 3
        BY <3>2, <3>3, <3>6
      <4>4. n <= 3 => gone
        BY <3>2, <3>3, <3>6
      <4>5. n \in 1 .. 8
        BY <3>3
      <4> HIDE DEF gone
      <4>6. QED BY <4>1, <4>2, <4>3, <4>4, <4>5
    <3>7. y.left = Tail(r.left) /\ y.auth = r.auth /\ n \in Nat
      BY <2>1, <2>4, <3>3
    <3>8. upset[c] => Len(y.left) >= 3 /\ (Len(y.left) <= 3 => gone)
      <4> HIDE DEF gone
      <4>1. Len(y.left) = n - 1
        BY <3>5, <3>7
      <4>2. QED BY <4>1, <3>6, <3>7
    <3>9. QED BY <3>2, <3>5, <3>7, <3>8 DEF Ended
  <2>5. Held(y, upset'[c])
    BY <2>1, <2>2, <2>4 DEF Held
  <2>6. asks' = [asks EXCEPT ![c] = y]
    BY <1>2 DEF Go
  <2>7. QED BY <2>1, <2>3, <2>5, <2>6, AskKeeps DEF StepOnly
<1>3. QED BY <1>1, <1>2

\* A request that looks for no package, whatever it is told.
LEMMA PlainKeeps ==
  ASSUME HInv, NEW c \in Callers, NEW x \in Requests, asks' = [asks EXCEPT ![c] = x],
         UNCHANGED <<second, person>>,
         custom' \in {custom, second},
         upset' = upset \/ upset' = [upset EXCEPT ![c] = FALSE],
         Alive(x), ~x.package
  PROVE  HInv'
<1>1. Held(x, upset'[c])
  BY DEF Held
<1>2. QED BY <1>1, AskKeeps

LEMMA ServeKeeps ==
  ASSUME HInv, NEW c \in Callers, Serve(c) PROVE HInv'
<1> PICK y : y = Done(c, "served")
  OBVIOUS
<1> PICK r : r = asks[c]
  OBVIOUS
<1>0. r.pc = "handling" /\ Head(r.left) = "serve" /\ asks' = [asks EXCEPT ![c] = y] /\ StepOnly
  BY DEF Serve, At, Go
<1>1. /\ y \in Requests /\ y.package = r.package
      /\ Tail(r.left) = <<>> =>
           y.pc = "served" /\ y.left = <<>> /\ y.gen = 0 /\ y.auth = 0
      /\ Tail(r.left) # <<>> =>
           /\ y.pc = "handling" /\ y.left = Tail(r.left)
           /\ y.gen = r.gen /\ y.auth = r.auth
  BY <1>0, DoneIs
<1>2. Alive(r) /\ Held(r, upset[c])
  BY HandlingIs
<1>3. Alive(y)
  BY <1>0, <1>1, <1>2 DEF Alive
<1>4. CASE ~r.package
  BY <1>0, <1>1, <1>3, <1>4, PlainKeeps DEF StepOnly
<1>5. CASE r.package
  <2>1. r.left # <<"mark">>
    <3>1. Head(<<"mark">>) # "serve"
      OBVIOUS
    <3>2. QED BY <3>1, <1>0
  <2>2. OnPath(r.left) /\ (upset[c] => Len(r.left) >= 3)
    BY <2>1, <1>0, <1>2, <1>5 DEF Held
  <2>3. Len(r.left) = 1
    <3>1. Len(r.left) \in {8, 7, 6, 5, 4, 3, 2, 1}
      BY <2>2 DEF OnPath
    <3>2. QED BY <3>1, <2>2, <1>0, HeadOfPath
  <2>4. ~upset[c] /\ Tail(r.left) = <<>>
    BY <2>2, <2>3, HeadOfPath
  <2>5. Held(y, upset'[c])
    BY <1>0, <1>1, <2>4 DEF Held, StepOnly
  <2>6. QED BY <1>0, <1>1, <1>3, <2>5, AskKeeps DEF StepOnly
<1>6. QED BY <1>4, <1>5

-----------------------------------------------------------------------------
\* The steps.

LEMMA RouteSteps ==
  ASSUME NEW route \in Routes
  PROVE  /\ route.steps \in Seq(Steps) /\ route.steps # <<>>
         /\ "package" \in Range(route.steps) =>
              /\ OnPath(route.steps) /\ Len(route.steps) = 8
              /\ route.guard = "app_check_bearer"
<1>1. CASE Plain(route.steps)
  <2>1. route.steps \in Seq(Steps) /\ route.steps # <<>>
    BY <1>1 DEF Plain
  <2>2. \A i \in 1 .. Len(route.steps) : route.steps[i] # "package"
    BY <1>1 DEF Plain
  <2>3. DOMAIN route.steps = 1 .. Len(route.steps)
    BY <2>1
  <2>4. QED BY <2>1, <2>2, <2>3 DEF Range
<1>2. CASE route.steps = PackageSteps /\ route.guard = "app_check_bearer"
  <2>1. PackageSteps # <<>>
    <3>1. Len(PackageSteps) # 0 /\ PackageSteps \in Seq(Steps)
      BY PackageStepsAre
    <3>2. QED BY <3>1, EmptySeq
  <2>2. OnPath(PackageSteps)
    <3>1. \A i \in 1 .. 8, j \in 1 .. 8 : 8 + j = 8 + i => i = j
      OBVIOUS
    <3>2. QED BY <3>1, PackageStepsAre DEF OnPath
  <2>3. QED BY <1>2, <2>1, <2>2, PackageStepsAre
<1>3. QED BY <1>1, <1>2, RoutesAre DEF OneForPackages

LEMMA TokenIs ==
  ASSUME HInv, NEW t \in Tokens
  PROVE  t.auth \in Nat /\ t.gen \in 0 .. 2
BY DEF Tokens, HInv, HTypeOK

\* A request that is let in.
Entered(y, s) ==
  y \in Requests /\ y.pc = "handling" /\ y.left = s /\ y.gen = 0 /\ y.auth = 0

LEMMA EnteredWith ==
  ASSUME NEW s \in Seq(Steps), NEW y
  PROVE  /\ y = [Still EXCEPT !.pc = "handling", !.left = s, !.sheet = TRUE, !.package = TRUE] =>
              Entered(y, s) /\ y.package
         /\ y = [Still EXCEPT !.pc = "handling", !.left = s, !.sheet = TRUE, !.package = FALSE] =>
              Entered(y, s) /\ ~y.package
         /\ y = [Still EXCEPT !.pc = "handling", !.left = s, !.sheet = FALSE, !.package = TRUE] =>
              Entered(y, s) /\ y.package
         /\ y = [Still EXCEPT !.pc = "handling", !.left = s, !.sheet = FALSE, !.package = FALSE] =>
              Entered(y, s) /\ ~y.package
<1>1. ASSUME y = [Still EXCEPT !.pc = "handling", !.left = s, !.sheet = TRUE, !.package = TRUE]
      PROVE  Entered(y, s) /\ y.package
  <2>1. Still \in Requests
    BY StillIs
  <2>2. y \in Requests
    BY <1>1, <2>1 DEF Requests
  <2>3. y.pc = "handling" /\ y.left = s
    BY <1>1, <2>1 DEF Requests
  <2>4. y.gen = 0 /\ y.auth = 0
    BY <1>1, StillIs DEF Requests
  <2>5. y.package
    BY <1>1, <2>1 DEF Requests
  <2>6. QED BY <2>2, <2>3, <2>4, <2>5 DEF Entered
<1>2. ASSUME y = [Still EXCEPT !.pc = "handling", !.left = s, !.sheet = TRUE, !.package = FALSE]
      PROVE  Entered(y, s) /\ ~y.package
  <2>1. Still \in Requests
    BY StillIs
  <2>2. y \in Requests
    BY <1>2, <2>1 DEF Requests
  <2>3. y.pc = "handling" /\ y.left = s
    BY <1>2, <2>1 DEF Requests
  <2>4. y.gen = 0 /\ y.auth = 0
    BY <1>2, StillIs DEF Requests
  <2>5. ~y.package
    BY <1>2, <2>1 DEF Requests
  <2>6. QED BY <2>2, <2>3, <2>4, <2>5 DEF Entered
<1>3. ASSUME y = [Still EXCEPT !.pc = "handling", !.left = s, !.sheet = FALSE, !.package = TRUE]
      PROVE  Entered(y, s) /\ y.package
  <2>1. Still \in Requests
    BY StillIs
  <2>2. y \in Requests
    BY <1>3, <2>1 DEF Requests
  <2>3. y.pc = "handling" /\ y.left = s
    BY <1>3, <2>1 DEF Requests
  <2>4. y.gen = 0 /\ y.auth = 0
    BY <1>3, StillIs DEF Requests
  <2>5. y.package
    BY <1>3, <2>1 DEF Requests
  <2>6. QED BY <2>2, <2>3, <2>4, <2>5 DEF Entered
<1>4. ASSUME y = [Still EXCEPT !.pc = "handling", !.left = s, !.sheet = FALSE, !.package = FALSE]
      PROVE  Entered(y, s) /\ ~y.package
  <2>1. Still \in Requests
    BY StillIs
  <2>2. y \in Requests
    BY <1>4, <2>1 DEF Requests
  <2>3. y.pc = "handling" /\ y.left = s
    BY <1>4, <2>1 DEF Requests
  <2>4. y.gen = 0 /\ y.auth = 0
    BY <1>4, StillIs DEF Requests
  <2>5. ~y.package
    BY <1>4, <2>1 DEF Requests
  <2>6. QED BY <2>2, <2>3, <2>4, <2>5 DEF Entered
<1>5. QED BY <1>1, <1>2, <1>3, <1>4

LEMMA EnteredIs ==
  ASSUME NEW s \in Seq(Steps), NEW y,
         y = [Still EXCEPT !.pc = "handling", !.left = s,
                           !.sheet = {"provider", "write"} \subseteq Range(s),
                           !.package = "package" \in Range(s)]
  PROVE  Entered(y, s) /\ (y.package <=> "package" \in Range(s))
<1>1. CASE ({"provider", "write"} \subseteq Range(s)) /\ ("package" \in Range(s))
  <2>1. ({"provider", "write"} \subseteq Range(s)) = TRUE /\ ("package" \in Range(s)) = TRUE
    BY <1>1
  <2>2. y = [Still EXCEPT !.pc = "handling", !.left = s, !.sheet = TRUE, !.package = TRUE]
    BY <2>1, Zenon
  <2>3. Entered(y, s) /\ y.package
    BY <2>2, EnteredWith, Zenon
  <2>4. QED BY <1>1, <2>3, Zenon
<1>2. CASE ({"provider", "write"} \subseteq Range(s)) /\ ~("package" \in Range(s))
  <2>1. ({"provider", "write"} \subseteq Range(s)) = TRUE /\ ("package" \in Range(s)) = FALSE
    BY <1>2
  <2>2. y = [Still EXCEPT !.pc = "handling", !.left = s, !.sheet = TRUE, !.package = FALSE]
    BY <2>1, Zenon
  <2>3. Entered(y, s) /\ ~y.package
    BY <2>2, EnteredWith, Zenon
  <2>4. QED BY <1>2, <2>3, Zenon
<1>3. CASE ~({"provider", "write"} \subseteq Range(s)) /\ ("package" \in Range(s))
  <2>1. ({"provider", "write"} \subseteq Range(s)) = FALSE /\ ("package" \in Range(s)) = TRUE
    BY <1>3
  <2>2. y = [Still EXCEPT !.pc = "handling", !.left = s, !.sheet = FALSE, !.package = TRUE]
    BY <2>1, Zenon
  <2>3. Entered(y, s) /\ y.package
    BY <2>2, EnteredWith, Zenon
  <2>4. QED BY <1>3, <2>3, Zenon
<1>4. CASE ~({"provider", "write"} \subseteq Range(s)) /\ ~("package" \in Range(s))
  <2>1. ({"provider", "write"} \subseteq Range(s)) = FALSE /\ ("package" \in Range(s)) = FALSE
    BY <1>4
  <2>2. y = [Still EXCEPT !.pc = "handling", !.left = s, !.sheet = FALSE, !.package = FALSE]
    BY <2>1, Zenon
  <2>3. Entered(y, s) /\ ~y.package
    BY <2>2, EnteredWith, Zenon
  <2>4. QED BY <1>4, <2>3, Zenon
<1>5. QED BY <1>1, <1>2, <1>3, <1>4, Zenon

Enter(route) ==
  [Still EXCEPT !.pc = "handling", !.left = route.steps,
                !.sheet = {"provider", "write"} \subseteq Range(route.steps),
                !.package = "package" \in Range(route.steps)]

LEMMA EnterIs ==
  ASSUME NEW route \in Routes
  PROVE  /\ Entered(Enter(route), route.steps)
         /\ Enter(route).package <=> "package" \in Range(route.steps)
<1>1. route.steps \in Seq(Steps)
  BY RouteSteps
<1>2. QED BY <1>1, EnteredIs, Zenon DEF Enter

LEMMA AdmittedIs ==
  ASSUME HInv, NEW route \in Routes, NEW t \in Tokens, NEW checked \in BOOLEAN, NEW x,
         x = Admitted(route, t, checked)
  PROVE  x \in Requests /\ Alive(x) /\ Held(x, FALSE)
<1>0. PICK in : in = Enter(route)
  OBVIOUS
<1>1. /\ in \in Requests /\ in.pc = "handling" /\ in.left = route.steps /\ in.gen = 0 /\ in.auth = 0
      /\ (in.package <=> "package" \in Range(route.steps))
  BY <1>0, EnterIs DEF Entered
<1>2. Alive(in) /\ in.left # <<>>
  BY <1>1, RouteSteps DEF Alive
<1>3. CASE x = Refused
  BY <1>3, StillIs DEF Refused, Alive, Held
<1>4. CASE x = in /\ route.guard \in {"app_check_verify_only_bearer", "app_check_only"}
  <2>1. ~in.package
    BY <1>1, <1>4, RouteSteps
  <2>2. QED BY <1>1, <1>2, <1>4, <2>1 DEF Held
<1>5. CASE x = [in EXCEPT !.auth = t.auth] /\ route.guard = "app_check_verify_only_bearer"
  <2>1. ~in.package
    BY <1>1, <1>5, RouteSteps
  <2>2. /\ x \in Requests /\ x.pc = "handling" /\ x.left = in.left
        /\ x.package = in.package
    BY <1>1, <1>5, TokenIs DEF Requests
  <2>3. QED BY <1>1, <1>2, <2>1, <2>2 DEF Alive, Held
<1>6. CASE x = [in EXCEPT !.auth = t.auth, !.gen = t.gen]
  <2>1. t.auth \in Nat /\ t.gen \in 0 .. 2
    BY TokenIs
  <2>2. /\ x \in Requests /\ x.pc = "handling" /\ x.left = in.left /\ x.package = in.package
    BY <1>1, <1>6, <2>1 DEF Requests
  <2>3. Alive(x)
    BY <1>2, <2>2 DEF Alive
  <2>4. Held(x, FALSE)
    BY <1>1, <2>2, RouteSteps DEF Held
  <2>5. QED BY <2>2, <2>3, <2>4
<1>7. \/ x = Refused
      \/ x = in /\ route.guard \in {"app_check_verify_only_bearer", "app_check_only"}
      \/ x = [in EXCEPT !.auth = t.auth] /\ route.guard = "app_check_verify_only_bearer"
      \/ x = [in EXCEPT !.auth = t.auth, !.gen = t.gen]
  <2> DEFINE acc == [in EXCEPT !.auth = t.auth, !.gen = t.gen]
             ver == [in EXCEPT !.auth = t.auth]
  <2>1. x = CASE route.guard # "bearer" /\ ~checked -> Refused
              [] route.guard \in {"bearer", "app_check_bearer"} -> IF Resolves(t) THEN acc ELSE Refused
              [] route.guard = "app_check_verify_only_bearer" -> IF Verifies(t) THEN ver ELSE Refused
              [] route.guard = "app_check_only" -> in
              [] OTHER -> IF Resolves(t) THEN acc ELSE Refused
    BY <1>0, Zenon DEF Admitted, Enter
  <2> HIDE DEF acc, ver
  <2>2. \/ x = Refused
        \/ x = in /\ route.guard \in {"app_check_verify_only_bearer", "app_check_only"}
        \/ x = ver /\ route.guard = "app_check_verify_only_bearer"
        \/ x = acc
    BY <2>1
  <2>3. QED BY <2>2, Zenon DEF acc, ver
<1>8. QED BY <1>3, <1>4, <1>5, <1>6, <1>7

LEMMA ArriveKeeps ==
  ASSUME HInv, NEW c \in Callers, NEW r \in Routes, NEW t \in Tokens, NEW b \in BOOLEAN, Arrive(c, r, t, b)
  PROVE  HInv'
<1> PICK x : x = Admitted(r, t, b)
  OBVIOUS
<1>1. x \in Requests /\ Alive(x) /\ Held(x, FALSE)
  BY AdmittedIs
<1>2. /\ asks' = [asks EXCEPT ![c] = x] /\ upset' = [upset EXCEPT ![c] = FALSE]
      /\ UNCHANGED <<second, person, custom>>
  BY DEF Arrive
<1>3. upset'[c] = FALSE
  BY <1>2 DEF HInv, HTypeOK
<1>4. QED BY <1>1, <1>2, <1>3, AskKeeps

LEMMA ArriveAsGuestKeeps ==
  ASSUME HInv, NEW c \in Callers, NEW r \in Routes, NEW b \in BOOLEAN, ArriveAsGuest(c, r, b)
  PROVE  HInv'
<1> PICK x : x = IF b THEN [Still EXCEPT !.pc = "handling", !.left = r.steps] ELSE Refused
  OBVIOUS
<1>1. /\ asks' = [asks EXCEPT ![c] = x] /\ upset' = [upset EXCEPT ![c] = FALSE]
      /\ UNCHANGED <<second, person, custom>>
  BY DEF ArriveAsGuest
<1>2. x \in Requests /\ Alive(x) /\ ~x.package
  <2>1. CASE b
    <3>1. x = [Still EXCEPT !.pc = "handling", !.left = r.steps]
      BY <2>1
    <3>2. r.steps \in Seq(Steps) /\ r.steps # <<>>
      BY RouteSteps
    <3>3. x \in Requests
      BY <3>1, <3>2, StillIs DEF Requests
    <3>4. x.pc = "handling" /\ x.left = r.steps /\ ~x.package
      BY <3>1, <3>2, StillIs DEF Requests
    <3>5. QED BY <3>2, <3>3, <3>4 DEF Alive
  <2>2. CASE ~b
    BY <2>2, StillIs DEF Refused, Alive
  <2>3. QED BY <2>1, <2>2
<1>3. QED BY <1>1, <1>2, PlainKeeps

\* A step on the way, which only passes or refuses.
LEMMA PassesKeep ==
  ASSUME HInv, NEW c \in Callers,
         Recent(c) \/ Current(c) \/ Identity(c) \/ Package(c) \/ Protect(c)
  PROVE  HInv'
<1>1. asks[c].pc = "handling" /\ StepOnly
  BY DEF Recent, Current, Identity, Package, Protect, At
<1>2. Head(asks[c].left) \in {"recent", "current", "identity", "package", "protect"}
  BY DEF Recent, Current, Identity, Package, Protect, At
<1>3. Go(c, Refused) \/ (Go(c, Done(c, "none")) /\ Looked(c))
  <2>1. CASE Recent(c) \/ Current(c) \/ Package(c)
    BY <2>1 DEF Recent, Current, Package, Pass, At, Looked
  <2>2. CASE Identity(c)
    BY <2>2 DEF Identity, Pass, At, Looked
  <2>3. CASE Protect(c)
    <3>1. asks[c].auth \in Nat /\ person.valid \in Nat
      BY HandlingIs DEF Requests, HInv, HTypeOK, Persons
    <3>2. Resolves([auth |-> asks[c].auth, gen |-> asks[c].gen]) => Active /\ ~(asks[c].auth < person.valid)
      BY <3>1 DEF Resolves, Verifies
    <3>3. QED BY <2>3, <3>2 DEF Protect, Pass, At, Looked
  <2>4. QED BY <2>1, <2>2, <2>3
<1>4. QED BY <1>1, <1>2, <1>3, PassKeeps

LEMMA ProviderKeeps ==
  ASSUME HInv, NEW c \in Callers, NEW a \in {"clear", "subscribed", "conflict", "unavailable"},
         Provider(c, a)
  PROVE  HInv'
<1> PICK r : r = asks[c]
  OBVIOUS
<1>0. r.pc = "handling" /\ Head(r.left) = "provider" /\ StepOnly
  BY DEF Provider, At
<1>1. CASE a = "conflict"
  <2>y. PICK y : y = [r EXCEPT !.left = <<"mark">>]
    OBVIOUS
  <2>1. <<"mark">> \in Seq(Steps)
    BY DEF Steps, OtherSteps
  <2>2. r \in Requests /\ Alive(r) /\ Held(r, upset[c])
    BY HandlingIs
  <2>3. /\ y \in Requests /\ y.left = <<"mark">> /\ y.pc = r.pc /\ y.gen = r.gen /\ y.auth = r.auth
         /\ y.package = r.package
    <3>1. PICK q \in Requests, s \in Seq(Steps) : q = r /\ s = <<"mark">>
      BY <2>1, <2>2
    <3>2. y = [q EXCEPT !.left = s]
      BY <2>y, <3>1
    <3>3. /\ y \in Requests /\ y.left = s /\ y.pc = q.pc /\ y.gen = q.gen /\ y.auth = q.auth
          /\ y.package = q.package
      BY <3>2, LeftIs
    <3>4. QED BY <3>1, <3>3
  <2>4. Alive(y) /\ Held(y, upset'[c])
    BY <1>0, <2>2, <2>3 DEF Alive, Held, StepOnly
  <2>5. asks' = [asks EXCEPT ![c] = y]
    BY <1>1, <2>y DEF Provider, Go
  <2>6. QED BY <1>0, <2>3, <2>4, <2>5, AskKeeps DEF StepOnly
<1>2. CASE a # "conflict"
  <2>1. Go(c, Refused) \/ Go(c, Done(c, "none"))
    BY <1>2 DEF Provider, Pass
  <2>2. Looked(c)
    BY <1>0 DEF Looked
  <2>3. QED BY <1>0, <2>1, <2>2, PassKeeps
<1>3. QED BY <1>1, <1>2

\* A step of a request that looks for no package: where it is then.
LEMMA PlainDone ==
  ASSUME HInv, NEW c \in Callers, asks[c].pc = "handling",
         Head(asks[c].left) \notin {"identity", "provider", "package", "protect", "serve", "mark"},
         NEW y, y = Done(c, "none")
  PROVE  y \in Requests /\ Alive(y) /\ ~y.package /\ y.pc \in {"none", "handling"}
<1>1. ~asks[c].package
  BY PackageHeads
<1>2. person.gen \in Nat
  BY ApiNumbers DEF HInv, HTypeOK, Persons
<1>3. /\ y \in Requests /\ ~y.package
      /\ Tail(asks[c].left) = <<>> =>
           y.pc = "none" /\ y.left = <<>> /\ y.gen = 0 /\ y.auth = 0
      /\ Tail(asks[c].left) # <<>> =>
           /\ y.pc = "handling" /\ y.left = Tail(asks[c].left)
           /\ y.gen = asks[c].gen /\ y.auth = asks[c].auth
  BY <1>1, DoneIs
<1>4. Alive(asks[c])
  BY HandlingIs
<1>5. CASE Tail(asks[c].left) = <<>>
  BY <1>2, <1>3, <1>5 DEF Alive
<1>6. CASE Tail(asks[c].left) # <<>>
  BY <1>3, <1>4, <1>6 DEF Alive
<1>7. QED BY <1>3, <1>5, <1>6

LEMMA ApiWriteKeeps ==
  ASSUME HInv, NEW c \in Callers, Write(c) PROVE HInv'
<1> PICK y : y = Done(c, "none")
  OBVIOUS
<1>0. asks[c].pc = "handling" /\ Head(asks[c].left) = "write" /\ StepOnly
  BY DEF Write, At
<1>1. y \in Requests /\ Alive(y) /\ ~y.package /\ y.pc \in {"none", "handling"}
  BY <1>0, PlainDone
<1>2. CASE Go(c, Refused)
  BY <1>0, <1>2, PassKeeps
<1>3. CASE Go(c, y)
  BY <1>0, <1>1, <1>3, PlainKeeps DEF Go, StepOnly
<1>4. CASE Go(c, [y EXCEPT !.pc = IF @ = "none" THEN "wrote" ELSE "writing"])
  <2> PICK w \in {"wrote", "writing"} : w = IF y.pc = "none" THEN "wrote" ELSE "writing"
    OBVIOUS
  <2> PICK x : x = [y EXCEPT !.pc = w]
    OBVIOUS
  <2>1. /\ x \in Requests /\ x.left = y.left /\ x.pc = w /\ x.gen = y.gen /\ x.auth = y.auth
        /\ x.package = y.package
    BY <1>1, PcIs
  <2>2. Alive(x)
    BY <1>1, <2>1 DEF Alive
  <2>3. asks' = [asks EXCEPT ![c] = x]
    BY <1>1, <1>4 DEF Go
  <2>4. QED BY <1>0, <1>1, <2>1, <2>2, <2>3, PlainKeeps DEF StepOnly
<1>5. \/ Go(c, Refused) \/ Go(c, y)
      \/ Go(c, [y EXCEPT !.pc = IF @ = "none" THEN "wrote" ELSE "writing"])
  <2>1. \/ Go(c, Refused) \/ Go(c, Done(c, "none"))
        \/ Go(c, [Done(c, "none") EXCEPT !.pc = IF @ = "none" THEN "wrote" ELSE "writing"])
    BY Zenon DEF Write, Go
  <2>2. QED BY <2>1, Zenon
<1>6. QED BY <1>2, <1>3, <1>4, <1>5

LEMMA WriteOnKeeps ==
  ASSUME HInv, NEW c \in Callers, WriteOn(c) PROVE HInv'
<1> PICK r : r = asks[c]
  OBVIOUS
<1> PICK x : x = [r EXCEPT !.pc = "handling"]
  OBVIOUS
<1>1. r \in Requests /\ Alive(r) /\ r.pc = "writing" /\ ~r.package
  BY HandlingIs DEF WriteOn, Held
<1>2. /\ x \in Requests /\ x.left = r.left /\ x.pc = "handling" /\ x.gen = r.gen /\ x.auth = r.auth
      /\ x.package = r.package
  BY <1>1, PcIs
<1>3. Alive(x)
  BY <1>1, <1>2 DEF Alive
<1>4. asks' = [asks EXCEPT ![c] = x] /\ StepOnly
  BY DEF WriteOn, Go
<1>5. QED BY <1>1, <1>2, <1>3, <1>4, PlainKeeps DEF StepOnly

LEMMA PinKeeps ==
  ASSUME HInv, NEW c \in Callers, PinSession(c) PROVE HInv'
<1> PICK y : y = Done(c, "none")
  OBVIOUS
<1>0. asks[c].pc = "handling" /\ Head(asks[c].left) = "pin" /\ StepOnly
  BY DEF PinSession, At
<1>1. y \in Requests /\ Alive(y) /\ ~y.package
  BY <1>0, PlainDone
<1>2. CASE Go(c, Refused)
  BY <1>0, <1>2, PassKeeps
<1>3. CASE Go(c, [y EXCEPT !.gen = person.gen])
  <2> PICK x : x = [y EXCEPT !.gen = person.gen]
    OBVIOUS
  <2>0. person.gen \in 0 .. 2
    BY DEF HInv, HTypeOK, Persons
  <2>1. /\ x \in Requests /\ x.left = y.left /\ x.pc = y.pc /\ x.gen = person.gen /\ x.auth = y.auth
        /\ x.package = y.package
    BY <1>1, <2>0, GenIs
  <2>2. Alive(x)
    BY <1>1, <2>1 DEF Alive
  <2>3. asks' = [asks EXCEPT ![c] = x]
    BY <1>3 DEF Go
  <2>4. QED BY <1>0, <1>1, <2>1, <2>2, <2>3, PlainKeeps DEF StepOnly
<1>4. QED BY <1>2, <1>3 DEF PinSession

LEMMA MintKeeps ==
  ASSUME HInv, NEW c \in Callers, MintToken(c) PROVE HInv'
<1> PICK y : y = Done(c, "none")
  OBVIOUS
<1>0. /\ asks[c].pc = "handling" /\ Head(asks[c].left) = "mint"
      /\ UNCHANGED <<second, person, upset>>
  BY DEF MintToken, At
<1>1. y \in Requests /\ Alive(y) /\ ~y.package
  BY <1>0, PlainDone
<1>2. asks' = [asks EXCEPT ![c] = y] /\ custom' \in {custom, second}
  BY DEF MintToken, Pass, Go
<1>3. QED BY <1>0, <1>1, <1>2, PlainKeeps

LEMMA ConflictKeeps ==
  ASSUME HInv, NEW c \in Callers, Mark(c) PROVE HInv'
<1>0. asks[c].pc = "handling" /\ Go(c, Still) /\ custom' = custom
  BY DEF Mark, At, Refused
<1>a. Alive(Still) /\ Still \in Requests /\ ~Still.package
  BY StillIs DEF Alive
<1>1. CASE Active
  <2>p. PICK p : p = [person EXCEPT !.conflict = TRUE]
    OBVIOUS
  <2>1. person \in Persons /\ person.valid \in Nat /\ PersonOK
    BY DEF HInv, HTypeOK, Persons
  <2>2. /\ p \in Persons /\ p.conflict /\ p.state = person.state /\ p.gen = person.gen
        /\ p.valid = person.valid
    BY <2>p, <2>1 DEF Persons
  <2>3. Change(c, p)
    BY <1>1, <2>p DEF Mark
  <2>4. QED BY <1>0, <1>a, <2>1, <2>2, <2>3, ChangeKeeps DEF PersonOK
<1>2. CASE ~Active
  <2>1. asks' = [asks EXCEPT ![c] = Still] /\ UNCHANGED <<second, person, upset>>
    BY <1>0, <1>2 DEF Mark, Go
  <2>2. QED BY <1>0, <1>a, <2>1, PlainKeeps
<1>3. QED BY <1>1, <1>2, Zenon

LEMMA RegisterKeeps ==
  ASSUME HInv, NEW c \in Callers, Register(c) PROVE HInv'
<1> PICK y : y = Done(c, "none")
  OBVIOUS
<1>0. asks[c].pc = "handling" /\ Head(asks[c].left) = "register" /\ custom' = custom /\ Go(c, y)
  BY DEF Register, At, Pass
<1>1. y \in Requests /\ Alive(y) /\ ~y.package
  BY <1>0, PlainDone
<1>2. CASE person.state = "none"
  <2>p. PICK p : p = [person EXCEPT !.state = "active", !.gen = 1]
    OBVIOUS
  <2>1. person \in Persons /\ person.valid \in Nat /\ PersonOK
    BY DEF HInv, HTypeOK, Persons
  <2>2. /\ p \in Persons /\ p.conflict = person.conflict /\ p.state = "active" /\ p.gen = 1
        /\ p.valid = person.valid
    <3>1. PICK one \in 0 .. 2 : one = 1
      OBVIOUS
    <3>2. p = [person EXCEPT !.state = "active", !.gen = one]
      BY <2>p, <3>1
    <3>3. QED BY <2>1, <3>1, <3>2 DEF Persons
  <2>3. Change(c, p)
    BY <1>2, <2>p DEF Register
  <2>4. QED BY <1>0, <1>1, <1>2, <2>1, <2>2, <2>3, ChangeKeeps DEF PersonOK
<1>3. CASE person.state # "none"
  <2>1. UNCHANGED <<second, person, custom, upset>>
    BY <1>0, <1>3 DEF Register
  <2>2. QED BY <1>0, <1>1, <2>1, PlainKeeps DEF Go
<1>4. QED BY <1>2, <1>3

\* The two that end what was admitted.
LEMMA RevokeTokensKeeps ==
  ASSUME HInv, NEW c \in Callers, NEW fails \in BOOLEAN, RevokeTokens(c, fails) PROVE HInv'
<1> PICK y : y = Done(c, "none")
  OBVIOUS
<1> PICK r : r = asks[c]
  OBVIOUS
<1>0. r.pc = "handling" /\ Head(r.left) = "revoke" /\ custom' = custom
  BY DEF RevokeTokens, At
<1>1. y \in Requests /\ Alive(y) /\ ~y.package /\ r \in Requests /\ ~r.package
  BY <1>0, PlainDone, PackageHeads, HandlingIs
<1>2. CASE fails
  <2>w. <<"write">> \in Seq(Steps) /\ <<"write">> # <<>>
    BY PlainSteps, OtherStepsAre DEF Plain
  <2>1. PICK w \in Seq(Steps) : w = <<"write">> /\ w # <<>>
    BY <2>w
  <2>2. PICK x : x = [r EXCEPT !.left = w]
    OBVIOUS
  <2>3. x \in Requests /\ x.left = w /\ x.pc = r.pc /\ x.package = r.package
    BY <1>1, <2>2, LeftIs
  <2>4. Alive(x) /\ ~x.package
    BY <1>0, <1>1, <2>1, <2>3 DEF Alive
  <2>5. asks' = [asks EXCEPT ![c] = x] /\ UNCHANGED <<second, person, upset>>
    BY <1>2, <2>1, <2>2 DEF RevokeTokens, Go
  <2>6. QED BY <1>0, <2>3, <2>4, <2>5, PlainKeeps
<1>3. CASE ~fails
  <2>p. PICK p : p = [person EXCEPT !.valid = second]
    OBVIOUS
  <2>1. person \in Persons /\ person.valid \in Nat /\ second \in Nat /\ PersonOK
    BY DEF HInv, HTypeOK, Persons
  <2>2. /\ p \in Persons /\ p.conflict = person.conflict /\ p.state = person.state
        /\ p.gen = person.gen /\ p.valid = second
    BY <2>p, <2>1 DEF Persons
  <2>3. Change(c, p) /\ Go(c, y)
    BY <1>3, <2>p DEF RevokeTokens
  <2>4. QED BY <1>0, <1>1, <2>1, <2>2, <2>3, ChangeKeeps DEF PersonOK
<1>4. QED BY <1>2, <1>3

LEMMA CloseKeeps ==
  ASSUME HInv, NEW c \in Callers, Close(c) PROVE HInv'
<1> PICK y : y = Done(c, "none")
  OBVIOUS
<1>0. asks[c].pc = "handling" /\ Head(asks[c].left) = "close" /\ custom' = custom
  BY DEF Close, At
<1>1. y \in Requests /\ Alive(y) /\ ~y.package
  BY <1>0, PlainDone
<1>2. CASE ~Expected(c)
  <2>1. Go(c, Refused) /\ UNCHANGED <<second, person, custom, upset>>
    BY <1>0, <1>2 DEF Close
  <2>2. QED BY <1>0, <2>1, PassKeeps DEF StepOnly
<1>3. CASE Expected(c)
  <2>1. person \in Persons /\ person.valid \in Nat /\ PersonOK /\ person.gen + 1 = 2
    BY <1>3 DEF HInv, HTypeOK, Persons, PersonOK, Expected, Active
  <2>p. PICK p : p = [person EXCEPT !.state = "closing", !.gen = @ + 1]
    OBVIOUS
  <2>2. /\ p \in Persons /\ p.conflict = person.conflict /\ p.state = "closing" /\ p.gen = 2
        /\ p.valid = person.valid
    <3>1. PICK two \in 0 .. 2 : two = 2
      OBVIOUS
    <3>2. p = [person EXCEPT !.state = "closing", !.gen = two]
      BY <2>p, <2>1, <3>1 DEF Persons
    <3>3. QED BY <2>1, <3>1, <3>2 DEF Persons
  <2>3. Change(c, p) /\ Go(c, y)
    BY <1>3, <2>p DEF Close, Pass
  <2>4. QED BY <1>0, <1>1, <2>1, <2>2, <2>3, ChangeKeeps DEF PersonOK
<1>4. QED BY <1>2, <1>3

LEMMA ApiStart == ApiInit => HInv
<1> SUFFICES ASSUME ApiInit PROVE HInv
  OBVIOUS
<1>1. /\ second = 1 /\ custom = 0
      /\ person = [state |-> "none", gen |-> 0, valid |-> 0, conflict |-> FALSE]
      /\ asks = [c \in Callers |-> Still] /\ upset = [c \in Callers |-> FALSE]
  BY DEF ApiInit
<1>2. person \in Persons /\ second \in 1 .. MaxSecond /\ custom \in Nat
  BY <1>1, ApiNumbers DEF Persons
<1>3. HTypeOK
  BY <1>1, <1>2, StillIs DEF HTypeOK
<1>4. PersonOK
  BY <1>1, ApiNumbers DEF PersonOK
<1>5. \A c \in Callers : asks[c] = Still
  BY <1>1
<1>6. Alive(Still) /\ \A u : Held(Still, u)
  BY <1>1, StillIs DEF Alive, Held
<1>7. QED BY <1>3, <1>4, <1>5, <1>6 DEF HInv

\* Each step keeps the invariant.
LEMMA ApiStep == HInv /\ [ApiNext]_apiVars => HInv'
<1> SUFFICES ASSUME HInv, [ApiNext]_apiVars PROVE HInv'
  OBVIOUS
<1>1. CASE SecondPasses \/ UNCHANGED apiVars
  <2>1. /\ second' \in {second, second + 1} /\ second' \in 1 .. MaxSecond
        /\ UNCHANGED <<person, custom, asks, upset>>
    BY <1>1, ApiNumbers DEF SecondPasses, apiVars, HInv, HTypeOK
  <2>2. HTypeOK'
    BY <2>1 DEF HInv, HTypeOK
  <2>3. PersonOK'
    BY <2>1, ApiNumbers DEF HInv, HTypeOK, Persons, PersonOK
  <2>4. \A c \in Callers : Alive(asks[c])' /\ Held(asks[c], upset[c])'
    BY <2>1 DEF HInv, Alive, Held, Ended
  <2>5. QED BY <2>2, <2>3, <2>4 DEF HInv
<1>2. ASSUME NEW c \in Callers, NEW r \in Routes, NEW t \in Tokens, NEW b \in BOOLEAN, Arrive(c, r, t, b)
      PROVE  HInv'
  BY <1>2, ArriveKeeps
<1>3. ASSUME NEW c \in Callers, NEW r \in Routes, NEW b \in BOOLEAN, ArriveAsGuest(c, r, b)
      PROVE  HInv'
  BY <1>3, ArriveAsGuestKeeps
<1>4. ASSUME NEW c \in Callers,
             \/ Recent(c) \/ Current(c) \/ Write(c) \/ WriteOn(c) \/ Identity(c) \/ Mark(c)
             \/ Package(c) \/ Protect(c) \/ Serve(c) \/ Register(c) \/ PinSession(c)
             \/ MintToken(c) \/ Close(c)
      PROVE  HInv'
  BY <1>4, PassesKeep, ApiWriteKeeps, WriteOnKeeps, ConflictKeeps, ServeKeeps, RegisterKeeps, PinKeeps,
     MintKeeps, CloseKeeps, Zenon
<1>5. ASSUME NEW c \in Callers, NEW a \in {"clear", "subscribed", "conflict", "unavailable"}, Provider(c, a)
      PROVE  HInv'
  BY <1>5, ProviderKeeps
<1>6. ASSUME NEW c \in Callers, NEW b \in BOOLEAN, RevokeTokens(c, b)
      PROVE  HInv'
  BY <1>6, RevokeTokensKeeps
<1>7. QED BY <1>1, <1>2, <1>3, <1>4, <1>5, <1>6, Zenon DEF ApiNext

\* Only Write writes, on what the guard found and the transaction finds again.
LEMMA OnlyWriteWrites ==
  ASSUME HInv, [ApiNext]_apiVars, NEW c \in Callers,
         asks[c].pc = "handling", asks'[c].pc \in {"writing", "wrote"}
  PROVE  Write(c)
<1>0. asks \in [Callers -> Requests]
  BY DEF HInv, HTypeOK
<1>1. \A d \in Callers : \A x : asks' = [asks EXCEPT ![d] = x] =>
        /\ asks'[d] = x
        /\ d # c => asks'[c] = asks[c]
  BY <1>0
<1>2. \A d \in Callers : \A x : asks' = [asks EXCEPT ![d] = x] => d = c /\ x.pc \in {"writing", "wrote"}
  BY <1>1
<1>3. ~UNCHANGED asks
  OBVIOUS
<1>4. ASSUME NEW d \in Callers, NEW r, NEW t, NEW b, Arrive(d, r, t, b) \/ ArriveAsGuest(d, r, b)
      PROVE  FALSE
  <2>1. \E x : asks' = [asks EXCEPT ![d] = x]
    BY <1>4 DEF Arrive, ArriveAsGuest
  <2>2. d = c
    BY <2>1, <1>2
  <2>3. QED BY <2>2, <1>4 DEF Arrive, ArriveAsGuest, Idle
<1>5. \A d \in Callers : asks[d].pc = "handling" => Done(d, "none").pc \in {"none", "handling"}
  BY DoneIs
<1>6. \A d \in Callers : asks[d].pc = "handling" => Done(d, "served").pc \in {"served", "handling"}
  BY DoneIs
<1>7. Refused.pc = "none"
  BY StillIs DEF Refused
<1>8. \A d \in Callers : ~Go(d, Refused) /\ (asks[d].pc = "handling" => ~Go(d, Done(d, "none"))
                                                                      /\ ~Go(d, Done(d, "served")))
  BY <1>2, <1>5, <1>6, <1>7 DEF Go
<1>9. \A d \in Callers, ok \in BOOLEAN : asks[d].pc = "handling" => ~Pass(d, ok)
  BY <1>8 DEF Pass
<1>10. ASSUME NEW d \in Callers,
              \/ Recent(d) \/ Current(d) \/ Identity(d) \/ Mark(d) \/ Package(d) \/ Protect(d)
              \/ Serve(d) \/ Register(d) \/ MintToken(d) \/ Close(d)
       PROVE  FALSE
  <2>1. asks[d].pc = "handling"
    BY <1>10 DEF Recent, Current, Identity, Mark, Package, Protect, Serve, Register, MintToken, Close, At
  <2>2. \/ Go(d, Refused) \/ Go(d, Done(d, "none")) \/ Go(d, Done(d, "served"))
    BY <1>10 DEF Recent, Current, Identity, Mark, Package, Protect, Serve, Register, MintToken, Close, Pass
  <2>3. QED BY <2>1, <2>2, <1>8
<1>11. ASSUME NEW d \in Callers, PinSession(d) PROVE FALSE
  <2>1. asks[d].pc = "handling"
    BY <1>11 DEF PinSession, At
  <2>2. Go(d, [Done(d, "none") EXCEPT !.gen = person.gen])
    BY <1>11, <1>8 DEF PinSession
  <2>3. Done(d, "none") \in Requests
    BY <2>1, DoneIs
  <2>4. [Done(d, "none") EXCEPT !.gen = person.gen].pc = Done(d, "none").pc
    BY <2>3 DEF Requests
  <2>5. QED BY <2>1, <2>2, <2>4, <1>2, <1>5 DEF Go
<1>12. ASSUME NEW d \in Callers, Go(d, [asks[d] EXCEPT !.left = <<"mark">>]) \/ Go(d, [asks[d] EXCEPT !.left = <<"write">>]),
              asks[d].pc = "handling"
       PROVE  FALSE
  <2>1. /\ [asks[d] EXCEPT !.left = <<"mark">>].pc = "handling"
        /\ [asks[d] EXCEPT !.left = <<"write">>].pc = "handling"
    BY <1>12, <1>0 DEF Requests
  <2>2. QED BY <1>12, <2>1, <1>2 DEF Go
<1>p. ASSUME NEW d \in Callers, NEW a \in {"clear", "subscribed", "conflict", "unavailable"}, Provider(d, a)
      PROVE  FALSE
  <2>1. asks[d].pc = "handling"
    BY <1>p DEF Provider, At
  <2>2. \/ Go(d, Refused) \/ Go(d, Done(d, "none"))
        \/ Go(d, [asks[d] EXCEPT !.left = <<"mark">>])
    BY <1>p DEF Provider, Pass
  <2>3. QED BY <2>1, <2>2, <1>8, <1>12
<1>r. ASSUME NEW d \in Callers, NEW b \in BOOLEAN, RevokeTokens(d, b)
      PROVE  FALSE
  <2>1. asks[d].pc = "handling"
    BY <1>r DEF RevokeTokens, At
  <2>2. Go(d, Done(d, "none")) \/ Go(d, [asks[d] EXCEPT !.left = <<"write">>])
    BY <1>r DEF RevokeTokens
  <2>3. QED BY <2>1, <2>2, <1>8, <1>12
<1>13. ASSUME NEW d \in Callers, WriteOn(d) PROVE FALSE
  <2>1. d = c /\ asks[d].pc = "writing"
    BY <1>13, <1>2 DEF WriteOn, Go
  <2>2. QED BY <2>1
<1>14. ASSUME NEW d \in Callers, Write(d) PROVE d = c
  <2>1. \E x : asks' = [asks EXCEPT ![d] = x]
    BY <1>14 DEF Write, Go
  <2>2. QED BY <2>1, <1>2
<1>15. ~SecondPasses /\ ~UNCHANGED apiVars
  BY <1>3 DEF SecondPasses, apiVars
<1>16. PICK d \in Callers : Write(d)
  <2>1. ApiNext
    BY <1>15
  <2>2. ~\E d \in Callers, r \in Routes, t \in Tokens, b \in BOOLEAN : Arrive(d, r, t, b)
    BY <1>4
  <2>3. ~\E d \in Callers, r \in Routes, b \in BOOLEAN : ArriveAsGuest(d, r, b)
    BY <1>4
  <2>4. /\ ~\E d \in Callers, a \in {"clear", "subscribed", "conflict", "unavailable"} : Provider(d, a)
        /\ ~\E d \in Callers, b \in BOOLEAN : RevokeTokens(d, b)
    BY <1>p, <1>r
  <2>5. PICK d \in Callers :
          \/ Recent(d) \/ Current(d) \/ Write(d) \/ WriteOn(d) \/ Identity(d) \/ Mark(d)
          \/ Package(d) \/ Protect(d) \/ Serve(d) \/ Register(d) \/ PinSession(d)
          \/ MintToken(d) \/ Close(d)
    BY <2>1, <2>2, <2>3, <2>4, <1>15 DEF ApiNext
  <2>6. QED BY <2>5, <1>10, <1>11, <1>13
<1>17. QED BY <1>14, <1>16

LateOnly == NoLateWrite /\ (ApiTypeOK /\ PackageIsCurrent)'

\* Whatever route a request came by and however far its handler is, it writes
\* nothing to an account whose deletion has begun since it was admitted, and is
\* served no package if its sign-in was revoked, its account closed or its identity
\* found in conflict before the package was looked up.
THEOREM NothingIsLate == ApiSpec => NothingLate
<1>1. HInv => ApiTypeOK /\ PackageIsCurrent
  BY DEF HInv, HTypeOK, PersonOK, Persons, Requests, Held, ApiTypeOK, PackageIsCurrent
<1>2. ASSUME HInv, [ApiNext]_apiVars PROVE NoLateWrite
  <2>1. ASSUME NEW c \in Callers, asks[c].pc = "handling", asks'[c].pc \in {"writing", "wrote"}
        PROVE  Active /\ asks[c].gen = person.gen
    <3>1. Write(c)
      BY <1>2, <2>1, OnlyWriteWrites
    <3>2. Refused.pc = "none" /\ Done(c, "none").pc \in {"none", "handling"}
      BY <1>2, <2>1, DoneIs, StillIs DEF Refused
    <3>3. ~Go(c, Refused) /\ ~Go(c, Done(c, "none"))
      BY <3>2, <1>2, <2>1 DEF Go, HInv, HTypeOK
    <3>4. QED BY <3>1, <3>3 DEF Write, Expected
  <2>2. QED BY <2>1 DEF NoLateWrite
<1>3. HInv /\ [ApiNext]_apiVars => [LateOnly]_apiVars
  <2> SUFFICES ASSUME HInv, [ApiNext]_apiVars PROVE LateOnly
    OBVIOUS
  <2>1. HInv'
    BY ApiStep
  <2>2. (ApiTypeOK /\ PackageIsCurrent)'
    BY <2>1 DEF HInv, HTypeOK, PersonOK, Persons, Requests, Held, ApiTypeOK, PackageIsCurrent
  <2>3. QED BY <1>2, <2>2 DEF LateOnly
<1>4. ApiSpec => [][LateOnly]_apiVars
  BY ApiStart, ApiStep, <1>3, PTL DEF ApiSpec
<1>5. QED BY <1>4 DEF NothingLate, LateOnly

-----------------------------------------------------------------------------
(* The parts together.                                                     *)

LEMMA StepsApart ==
  [AccountNext]_accountVars =>
    /\ [RevocationNext]_revocationVars /\ [ApiNext]_apiVars /\ [ExportNext]_exportVars
    /\ [RestoreNext]_restoreVars /\ [PackagesNext]_packageVars /\ [AuditNext]_auditVars
<1> SUFFICES ASSUME [AccountNext]_accountVars
             PROVE  /\ [RevocationNext]_revocationVars /\ [ApiNext]_apiVars /\ [ExportNext]_exportVars
                    /\ [RestoreNext]_restoreVars /\ [PackagesNext]_packageVars /\ [AuditNext]_auditVars
  OBVIOUS
<1>1. CASE UNCHANGED accountVars
  BY <1>1 DEF accountVars
<1>2. CASE AccountNext
  BY <1>2 DEF AccountNext, Explore
<1>3. QED BY <1>1, <1>2

\* A behaviour of what answers requests and runs beside them is one of each part,
\* so that what was shown of a part by itself holds of them together.
THEOREM PartsAreApart ==
  AccountSpec => /\ RevocationSpec /\ ApiSpec /\ ExportSpec
                 /\ RestoreSpec /\ PackagesSpec /\ AuditSpec
<1>1. AccountInit => /\ RevocationInit /\ ApiInit /\ ExportInit
                     /\ RestoreInit /\ PackagesInit /\ AuditInit
  BY DEF AccountInit
<1>2. QED
  BY <1>1, StepsApart, PTL
  DEF AccountSpec, RevocationSpec, ApiSpec, ExportSpec, RestoreSpec, PackagesSpec, AuditSpec
=============================================================================
