------------------------- MODULE AccountDeletionProofs -------------------------
(***************************************************************************)
(* Proofs about AccountDeletion, for any identities, handlers, fences and  *)
(* data: a deletion is proved only when it happened, the identities stay   *)
(* blocked until they may come back, and a deletion can be taken up.       *)
(***************************************************************************)
EXTENDS AccountDeletion, TLAPS

\* The account's own documents change only behind the phases: nothing is
\* unmapped and the user is not removed before the Firestore erasure, and an
\* identity has a new account only once the seven days are over.
ErasureComesLast ==
  /\ op.mark # "unset" \/ user.state = "gone" => Rank[op.phase] >= 4
  /\ \A i \in Identities :
       /\ mapping[i] # "old" => op.mark # "unset"
       /\ mapping[i] = "new" => op.mark = "expired" /\ ~tombstone[i]

\* The checkpoint of the customer is true, and so is a handler's copy of it.
CustomerIsGone ==
  /\ op.customer => provider.customer = "deleted"
  /\ \A w \in Workers :
       h[w].customer \/ h[w].pc = "record" => provider.customer = "deleted"

\* A handler is where the phase it read puts it, and never ahead of the
\* operation.
InPhase(w) ==
  /\ Rank[h[w].phase] <= Rank[op.phase]
  /\ h[w].pc = "subjects" => h[w].phase \in {"sessions_revoking", "auth_deleting"}
  /\ h[w].pc \in {"beforeDelete", "deleteCustomer", "record"} =>
       h[w].phase = "revenuecat_deleting"
  /\ h[w].pc = "advance" => h[w].phase \in Working
  /\ h[w].pc \notin {"subjects", "release"} => h[w].todo = {}

HandlersInPhase == \A w \in Workers : InPhase(w)

\* What a handler has worked off, if the operation is still in the phase it
\* read; what is behind it cannot be undone by those who come later.
WorkedOffBy(w) ==
  /\ h[w].pc \in {"subjects", "advance"} /\ op.phase = h[w].phase =>
       /\ h[w].phase = "sessions_revoking" => Identities \ h[w].todo \subseteq provider.revoked
       /\ h[w].phase = "auth_deleting"     => Identities \ h[w].todo \subseteq provider.deleted
  /\ h[w].pc = "advance" /\ h[w].phase = "revenuecat_deleting" =>
       provider.customer = "deleted"

WorkedOff == \A w \in Workers : WorkedOffBy(w)

\* What the verification has seen is so from then on.
VerifiedBy(w) ==
  /\ h[w].pc = "verifyTrees" =>
       user.state = "gone" /\ Mapped = {} /\ data \cap (Linked \cup Root) = {}
  /\ h[w].pc = "finish" \/ (h[w].pc = "advance" /\ h[w].phase = "firestore_deleting") =>
       user.state = "gone" /\ Mapped = {} /\ data = {}

Verified == \A w \in Workers : VerifiedBy(w)

DInv ==
  /\ ErasureIsProved /\ IdentityStaysBlocked /\ Resumable
  /\ ErasureComesLast /\ CustomerIsGone /\ HandlersInPhase /\ WorkedOff
  /\ Verified

-----------------------------------------------------------------------------
(* Types *)

Handler   == [pc: Pcs, phase: Phases, fence: Fence, customer: BOOLEAN, mark: BOOLEAN,
              todo: SUBSET Identities, page: SUBSET Classes]
Operation == [phase: Phases, fence: Fence, lease: BOOLEAN, customer: BOOLEAN, mark: Mark]
User      == [state: {"active", "deleting", "gone"}, deletedAt: BOOLEAN,
              phase: Phases, fence: Fence]
Providers == [revoked: SUBSET Identities, deleted: SUBSET Identities,
              customer: {"present", "deleted"}]

\* The phases and their order.
LEMMA PhaseOrder ==
  /\ Phases = {"none", "sessions_revoking", "auth_deleting", "revenuecat_deleting",
               "firestore_deleting", "remote_deleted", "complete"}
  /\ Rank["none"] = 0 /\ Rank["sessions_revoking"] = 1 /\ Rank["auth_deleting"] = 2
  /\ Rank["revenuecat_deleting"] = 3 /\ Rank["firestore_deleting"] = 4
  /\ Rank["remote_deleted"] = 5 /\ Rank["complete"] = 6
BY DEF Phases, Rank

LEMMA WorkingPhases ==
  /\ Working = {"sessions_revoking", "auth_deleting", "revenuecat_deleting",
                "firestore_deleting"}
  /\ Working \subseteq Phases
<1> HIDE DEF Rank
<1>1. Working \subseteq Phases
  BY DEF Working
<1>2. \A p \in Phases : p \in Working <=>
        p \in {"sessions_revoking", "auth_deleting", "revenuecat_deleting",
               "firestore_deleting"}
  BY PhaseOrder DEF Working
<1>3. QED BY <1>1, <1>2, PhaseOrder

\* A phase that works has exactly one successor.
LEMMA Successors ==
  /\ Succ("sessions_revoking") = "auth_deleting"
  /\ Succ("auth_deleting") = "revenuecat_deleting"
  /\ Succ("revenuecat_deleting") = "firestore_deleting"
  /\ Succ("firestore_deleting") = "remote_deleted"
<1>1. ASSUME NEW p \in Phases, NEW q \in Phases, Rank[q] = Rank[p] + 1
      PROVE  Succ(p) = q
  <2>1. \A r \in Phases : Rank[r] = Rank[p] + 1 => r = q
    BY <1>1, PhaseOrder
  <2>2. QED BY <1>1, <2>1 DEF Succ
<1>2. QED BY <1>1, PhaseOrder

LEMMA IdleTyped == Idle \in Handler
BY PhaseOrder DEF Idle, Handler, Pcs, Fence

\* A copy of a well-formed operation is a well-formed handler.
LEMMA CopyTyped ==
  ASSUME op \in Operation, NEW pc \in Pcs
  PROVE  [Idle EXCEPT !.pc = pc, !.phase = op.phase, !.fence = op.fence,
                      !.customer = op.customer, !.mark = op.mark # "unset"] \in Handler
<1>1. ASSUME NEW x \in Handler, NEW p \in Phases, NEW f \in Fence, NEW c \in BOOLEAN,
             NEW m \in BOOLEAN
      PROVE  [x EXCEPT !.pc = pc, !.phase = p, !.fence = f, !.customer = c, !.mark = m] \in Handler
  BY DEF Handler
<1>2. op.phase \in Phases /\ op.fence \in Fence /\ op.customer \in BOOLEAN
  BY DEF Operation
<1>3. QED BY <1>1, <1>2, IdleTyped

LEMMA TypesAre ==
  TypeOK <=> /\ user \in User
             /\ mapping \in [Identities -> {"old", "none", "new"}]
             /\ tombstone \in [Identities -> BOOLEAN]
             /\ data \subseteq Classes
             /\ op \in Operation
             /\ proof \in BOOLEAN
             /\ provider \in Providers
             /\ h \in [Workers -> Handler]
BY DEF TypeOK, User, Operation, Providers, Handler

\* What a handler may become, in one step of its own.
LEMMA HandlersTyped ==
  ASSUME TypeOK, [Next]_vars
  PROVE  h' \in [Workers -> Handler]
<1> USE TypesAre
<1>1. ASSUME NEW w \in Workers, NEW pc \in Pcs, Goto(w, pc) PROVE h' \in [Workers -> Handler]
  BY <1>1 DEF Goto, Handler
<1>2. ASSUME NEW w \in Workers, Return(w) PROVE h' \in [Workers -> Handler]
  BY <1>2, IdleTyped DEF Return
<1>3. ASSUME NEW w \in Workers, NEW pc \in Pcs, Copy(w, pc) PROVE h' \in [Workers -> Handler]
  BY <1>3, CopyTyped DEF Copy
<1>4. ASSUME NEW w \in Workers, ReadSubjects(w) PROVE h' \in [Workers -> Handler]
  <2>1. Mapped \in SUBSET Identities /\ "subjects" \in Pcs
    BY DEF Mapped, Pcs
  <2>2. h' = [h EXCEPT ![w].pc = "subjects", ![w].todo = Mapped]
    BY <1>4 DEF ReadSubjects
  <2>3. h[w] \in Handler
    BY DEF Handler
  <2>4. [h[w] EXCEPT !.pc = "subjects", !.todo = Mapped] \in Handler
    BY <2>1, <2>3 DEF Handler
  <2>5. QED BY <2>2, <2>4
<1>5. ASSUME NEW w \in Workers, Subject(w) PROVE h' \in [Workers -> Handler]
  <2>1. PICK i \in h[w].todo :
          \/ h' = [h EXCEPT ![w].todo = @ \ {i},
                            ![w].pc   = IF h[w].todo = {i} THEN "advance" ELSE "subjects"]
          \/ Goto(w, "release")
    BY <1>5 DEF Subject
  <2>2. CASE Goto(w, "release")
    BY <2>2, <1>1 DEF Pcs
  <2>3. CASE h' = [h EXCEPT ![w].todo = @ \ {i},
                            ![w].pc   = IF h[w].todo = {i} THEN "advance" ELSE "subjects"]
    <3> DEFINE pc == IF h[w].todo = {i} THEN "advance" ELSE "subjects"
    <3>1. pc \in Pcs /\ h[w].todo \ {i} \in SUBSET Identities
      BY DEF Handler, Pcs
    <3>2. \A c \in Pcs : [h[w] EXCEPT !.todo = h[w].todo \ {i}, !.pc = c] \in Handler
      BY <3>1 DEF Handler
    <3>3. [h[w] EXCEPT !.todo = h[w].todo \ {i}, !.pc = pc] \in Handler
      BY <3>1, <3>2
    <3>4. QED BY <2>3, <3>3
  <2>4. QED BY <2>1, <2>2, <2>3
<1>6. ASSUME NEW w \in Workers, List(w) PROVE h' \in [Workers -> Handler]
  <2> DEFINE found == data \cap Scope[h[w].pc]
             pc == IF found = {} THEN After[h[w].pc] ELSE h[w].pc
  <2>1. h[w].pc \in {"linked", "account", "userTree"}
    BY <1>6 DEF List, Scope
  <2>2. After[h[w].pc] \in Pcs
    BY <2>1 DEF After, Pcs
  <2>3. found \in SUBSET Classes /\ pc \in Pcs
    BY <2>2 DEF Handler
  <2> HIDE DEF found
  <2>4. \A c \in Pcs : [h[w] EXCEPT !.page = found, !.pc = c] \in Handler
    BY <2>3 DEF Handler
  <2>5. [h[w] EXCEPT !.page = found, !.pc = pc] \in Handler
    BY <2>3, <2>4
  <2>6. h' = [h EXCEPT ![w].page = found, ![w].pc = IF found = {} THEN After[@] ELSE @]
    BY <1>6 DEF List, found
  <2>7. QED BY <2>5, <2>6
<1>7. ASSUME NEW w \in Workers, Erase(w) PROVE h' \in [Workers -> Handler]
  <2> DEFINE pc == IF h[w].pc = "linked" THEN h[w].pc ELSE After[h[w].pc]
  <2>1. h[w].pc \in {"linked", "account", "userTree"}
    BY <1>7 DEF Erase, Scope
  <2>2. pc \in Pcs
    BY <2>1 DEF After, Pcs
  <2>3. \A c \in Pcs : [h[w] EXCEPT !.page = {}, !.pc = c] \in Handler
    BY DEF Handler
  <2>4. [h[w] EXCEPT !.page = {}, !.pc = pc] \in Handler
    BY <2>2, <2>3
  <2>5. QED BY <1>7, <2>4 DEF Erase
<1>8. CASE UNCHANGED h
  BY <1>8
<1>9. ASSUME NEW w \in Workers, Prepare(w) \/ Step(w) \/ Fail(w) \/ Stop(w)
      PROVE  h' \in [Workers -> Handler]
  <2>1. \/ \E pc \in Pcs : Goto(w, pc) \/ Copy(w, pc)
        \/ Return(w) \/ ReadSubjects(w) \/ Subject(w) \/ List(w) \/ Erase(w)
    BY <1>9
       DEF Prepare, Step, Fail, Stop, Resume, Claim, ReadStored, Advance, Release, LookUp,
           BeforeDelete, DeleteCustomer, Record, Unmap, EraseAccountRoot, EraseUser,
           VerifyTombstones, VerifyRoots, VerifyTrees, CompleteRead, Finish, Pcs
  <2>2. QED BY <2>1, <1>1, <1>2, <1>3, <1>4, <1>5, <1>6, <1>7
<1>10. QED
  BY <1>8, <1>9
     DEF Next, Environment, vars, LeaseExpires, MarkExpires, Touch, Collect, Register,
         AuthorizedWrite

\* Who writes which document.
LEMMA Writers ==
  ASSUME [Next]_vars
  PROVE  /\ \/ op' = op \/ LeaseExpires \/ MarkExpires
            \/ \E w \in Workers : \/ Prepare(w) \/ Claim(w) \/ Advance(w) \/ Release(w)
                                  \/ Record(w) \/ Unmap(w) \/ Finish(w)
         /\ \/ user' = user
            \/ \E w \in Workers : Prepare(w) \/ Claim(w) \/ Advance(w) \/ Unmap(w) \/ EraseUser(w)
         /\ \/ UNCHANGED <<mapping, tombstone>>
            \/ \E i \in Identities : Collect(i) \/ Register(i)
            \/ \E w \in Workers : Unmap(w)
         /\ \/ data' \subseteq data \/ Touch
            \/ \E c \in Classes : AuthorizedWrite(c)
         /\ proof' = proof \/ \E w \in Workers : Finish(w)
         /\ \/ provider' = provider
            \/ \E w \in Workers : Subject(w) \/ DeleteCustomer(w)
<1>1. CASE UNCHANGED vars
  BY <1>1 DEF vars
<1>2. CASE Environment
  BY <1>2 DEF Environment, LeaseExpires, MarkExpires, Touch, Collect, Register, AuthorizedWrite
<1>3. ASSUME NEW w \in Workers, Prepare(w) \/ Step(w) \/ Fail(w) \/ Stop(w)
      PROVE  /\ \/ op' = op
                \/ \/ Prepare(w) \/ Claim(w) \/ Advance(w) \/ Release(w)
                   \/ Record(w) \/ Unmap(w) \/ Finish(w)
             /\ \/ user' = user
                \/ Prepare(w) \/ Claim(w) \/ Advance(w) \/ Unmap(w) \/ EraseUser(w)
             /\ UNCHANGED <<mapping, tombstone>> \/ Unmap(w)
             /\ data' \subseteq data
             /\ proof' = proof \/ Finish(w)
             /\ provider' = provider \/ Subject(w) \/ DeleteCustomer(w)
  BY <1>3
     DEF Step, Fail, Stop, stored, Prepare, Resume, Claim, ReadStored, Advance, Release,
         ReadSubjects, Subject, LookUp, BeforeDelete, DeleteCustomer, Record, Unmap, List,
         Erase, EraseAccountRoot, EraseUser, VerifyTombstones, VerifyRoots, VerifyTrees,
         CompleteRead, Finish
<1>4. QED BY <1>1, <1>2, <1>3 DEF Next

\* Every document stays well formed.
LEMMA TypeStep ==
  ASSUME TypeOK, HandlersInPhase, [Next]_vars
  PROVE  TypeOK'
<1> USE TypesAre
<1>1. op' \in Operation
  <2>1. ASSUME NEW w \in Workers, Prepare(w) PROVE op' \in Operation
    <3>1. NoOp \in Operation
      BY PhaseOrder DEF NoOp, Operation, Mark, Fence
    <3>2. \A x \in Operation, f \in Fences :
            [x EXCEPT !.phase = "sessions_revoking", !.fence = f, !.lease = TRUE] \in Operation
      BY PhaseOrder DEF Operation, Fence
    <3>3. PICK f \in Fences :
            op' = [NoOp EXCEPT !.phase = "sessions_revoking", !.fence = f, !.lease = TRUE]
      BY <2>1 DEF Prepare
    <3>4. QED BY <3>1, <3>2, <3>3
  <2>2. ASSUME NEW w \in Workers, Claim(w) PROVE op' \in Operation
    <3>1. \A f \in Fences : [op EXCEPT !.fence = f, !.lease = TRUE] \in Operation
      BY DEF Operation, Fence
    <3>2. PICK f \in Fences : op' = [op EXCEPT !.fence = f, !.lease = TRUE]
      BY <2>2 DEF Claim
    <3>3. QED BY <3>1, <3>2
  <2>3. ASSUME NEW w \in Workers, Advance(w) PROVE op' \in Operation
    <3>1. Succ(h[w].phase) \in Phases
      BY <2>3, Successors, WorkingPhases, PhaseOrder DEF HandlersInPhase, InPhase, Advance
    <3>2. \A f \in Fences, p \in Phases :
            [op EXCEPT !.phase = p, !.fence = f, !.lease = TRUE] \in Operation
      BY DEF Operation, Fence
    <3>3. PICK f \in Fences :
            op' = [op EXCEPT !.phase = Succ(h[w].phase), !.fence = f, !.lease = TRUE]
      BY <2>3 DEF Advance
    <3>4. QED BY <3>1, <3>2, <3>3
  <2>4. ASSUME NEW w \in Workers, Release(w) \/ Record(w) \/ Unmap(w) \/ Finish(w)
        PROVE  op' \in Operation
    BY <2>4, PhaseOrder DEF Release, Record, Unmap, Finish, Operation, Mark
  <2>5. CASE LeaseExpires \/ MarkExpires
    BY <2>5 DEF LeaseExpires, MarkExpires, Operation, Mark
  <2>6. QED BY <2>1, <2>2, <2>3, <2>4, <2>5, Writers
<1>2. user' \in User
  <2>1. ASSUME NEW w \in Workers, Prepare(w) \/ Claim(w) \/ Unmap(w) \/ EraseUser(w)
        PROVE  user' \in User
    BY <2>1, PhaseOrder DEF Prepare, Claim, Unmap, EraseUser, User, Fence
  <2>2. ASSUME NEW w \in Workers, Advance(w) PROVE user' \in User
    <3>1. Succ(h[w].phase) \in Phases
      BY <2>2, Successors, WorkingPhases, PhaseOrder DEF HandlersInPhase, InPhase, Advance
    <3>2. \A f \in Fences, p \in Phases : [user EXCEPT !.phase = p, !.fence = f] \in User
      BY DEF User, Fence
    <3>3. PICK f \in Fences :
            user' = user \/ user' = [user EXCEPT !.phase = Succ(h[w].phase), !.fence = f]
      BY <2>2 DEF Advance, Slot
    <3>4. QED BY <3>1, <3>2, <3>3
  <2>3. QED BY <2>1, <2>2, Writers
<1>3. /\ mapping' \in [Identities -> {"old", "none", "new"}]
      /\ tombstone' \in [Identities -> BOOLEAN]
  <2>1. ASSUME NEW i \in Identities, Collect(i) \/ Register(i)
        PROVE  /\ mapping' \in [Identities -> {"old", "none", "new"}]
               /\ tombstone' \in [Identities -> BOOLEAN]
    BY <2>1 DEF Collect, Register
  <2>2. ASSUME NEW w \in Workers, Unmap(w)
        PROVE  /\ mapping' \in [Identities -> {"old", "none", "new"}]
               /\ tombstone' \in [Identities -> BOOLEAN]
    BY <2>2 DEF Unmap, Tombstones
  <2>3. QED BY <2>1, <2>2, Writers
<1>4. data' \subseteq Classes
  BY Writers DEF Touch, AuthorizedWrite, Classes, UserTree
<1>5. proof' \in BOOLEAN
  BY Writers DEF Finish
<1>6. provider' \in Providers
  <2>1. ASSUME NEW w \in Workers, Subject(w) PROVE provider' \in Providers
    <3>1. h[w].todo \subseteq Identities
      BY DEF Handler
    <3>2. PICK i \in Identities : provider' = SubjectDone(i, h[w].phase)
      BY <2>1, <3>1 DEF Subject
    <3>3. QED BY <3>2 DEF SubjectDone, Providers
  <2>2. ASSUME NEW w \in Workers, DeleteCustomer(w) PROVE provider' \in Providers
    BY <2>2 DEF DeleteCustomer, Providers
  <2>3. QED BY <2>1, <2>2, Writers
<1>7. h' \in [Workers -> Handler]
  BY HandlersTyped
<1>8. QED
  BY <1>1, <1>2, <1>3, <1>4, <1>5, <1>6, <1>7
     DEF TypeOK, User, Operation, Providers, Handler

-----------------------------------------------------------------------------
(* What never goes back *)

\* The work of the providers is kept, the phases go forward, an erasure that has
\* begun stays begun, and a user who is gone stays gone and gains no documents.
Forward ==
  /\ provider.revoked \subseteq provider'.revoked /\ provider.deleted \subseteq provider'.deleted
  /\ provider.customer = "deleted" => provider'.customer = "deleted"
  /\ Rank[op.phase] <= Rank[op'.phase]
  /\ op.mark # "unset" => op'.mark # "unset"
  /\ op.mark = "expired" => op'.mark = "expired"
  /\ Mapped' \subseteq Mapped
  /\ user.state = "gone" => user'.state = "gone" /\ data' \subseteq data

LEMMA GoesForward ==
  ASSUME DInv, [Next]_vars
  PROVE  Forward
<1> USE DEF DInv, ErasureIsProved
<1> USE TypesAre
<1>1. /\ provider.revoked \subseteq provider'.revoked /\ provider.deleted \subseteq provider'.deleted
      /\ provider.customer = "deleted" => provider'.customer = "deleted"
  <2>1. ASSUME NEW w \in Workers, Subject(w)
        PROVE  /\ provider.revoked \subseteq provider'.revoked
               /\ provider.deleted \subseteq provider'.deleted
               /\ provider'.customer = provider.customer
    <3>1. PICK i : provider' = SubjectDone(i, h[w].phase)
      BY <2>1 DEF Subject
    <3>2. QED BY <3>1 DEF SubjectDone, Providers
  <2>2. ASSUME NEW w \in Workers, DeleteCustomer(w)
        PROVE  /\ provider.revoked = provider'.revoked /\ provider.deleted = provider'.deleted
               /\ provider'.customer = "deleted"
    BY <2>2 DEF DeleteCustomer, Providers
  <2>3. QED BY <2>1, <2>2, Writers
<1>2. /\ Rank[op.phase] <= Rank[op'.phase]
      /\ op.mark # "unset" => op'.mark # "unset"
      /\ op.mark = "expired" => op'.mark = "expired"
  <2>1. op.phase \in Phases /\ Rank[op.phase] \in Nat
    BY PhaseOrder DEF Operation
  <2>2. ASSUME NEW w \in Workers, Prepare(w)
        PROVE  op.mark = "unset" /\ Rank[op.phase] <= Rank[op'.phase]
    BY <2>2, PhaseOrder DEF Prepare, ErasureComesLast, NoOp
  <2>3. ASSUME NEW w \in Workers, Advance(w)
        PROVE  op'.mark = op.mark /\ Rank[op.phase] <= Rank[op'.phase]
    <3>1. op.phase = h[w].phase /\ h[w].phase \in Working
      BY <2>3 DEF Advance, Advanceable, Owner, HandlersInPhase, InPhase
    <3>2. op'.phase = Succ(op.phase) /\ op'.mark = op.mark
      BY <2>3, <3>1 DEF Advance, Operation
    <3>3. QED BY <3>1, <3>2, Successors, WorkingPhases, PhaseOrder
  <2>4. ASSUME NEW w \in Workers, Claim(w) \/ Release(w) \/ Record(w)
        PROVE  op'.mark = op.mark /\ op'.phase = op.phase
    BY <2>4 DEF Claim, Release, Record, Operation
  <2>5. ASSUME NEW w \in Workers, Unmap(w)
        PROVE  op'.phase = op.phase /\ (op.mark = "unset" \/ op'.mark = op.mark)
    BY <2>5 DEF Unmap, Operation
  <2>6. ASSUME NEW w \in Workers, Finish(w)
        PROVE  op'.mark = op.mark /\ Rank[op.phase] <= Rank[op'.phase]
    BY <2>6, <2>1, PhaseOrder DEF Finish, Operation
  <2>7. CASE LeaseExpires
    BY <2>7, <2>1 DEF LeaseExpires, Operation
  <2>8. CASE MarkExpires
    BY <2>8, <2>1 DEF MarkExpires, Operation
  <2>9. QED BY <2>1, <2>2, <2>3, <2>4, <2>5, <2>6, <2>7, <2>8, Writers
<1>3. Mapped' \subseteq Mapped
  BY Writers DEF Mapped, Collect, Register, Unmap
<1>4. user.state = "gone" => user'.state = "gone" /\ data' \subseteq data
  <2> SUFFICES ASSUME user.state = "gone" PROVE user'.state = "gone" /\ data' \subseteq data
    OBVIOUS
  <2>1. data' \subseteq data
    BY Writers DEF Touch, AuthorizedWrite, TouchAllowed, WriteAllowed
  <2>2. user'.state = "gone"
    <3>1. ASSUME NEW w \in Workers, Advance(w) PROVE user' = user
      BY <3>1 DEF Advance, Advanceable, UserOwned
    <3>2. ASSUME NEW w \in Workers, Prepare(w) \/ Claim(w) \/ Unmap(w) \/ EraseUser(w)
          PROVE  user'.state = "gone"
      BY <3>2 DEF Prepare, Claim, Unmap, EraseUser, User
    <3>3. QED BY <3>1, <3>2, Writers
  <2>3. QED BY <2>1, <2>2
<1>5. QED BY <1>1, <1>2, <1>3, <1>4 DEF Forward

-----------------------------------------------------------------------------
(* The inductive invariant *)

LEMMA InvariantStart == Init => DInv
<1> SUFFICES ASSUME Init PROVE DInv
  OBVIOUS
<1>1. TypeOK
  BY DataAssumption, PhaseOrder, IdleTyped
     DEF Init, TypeOK, NoOp, Fence, Mark, Handler
<1>2. PhasesDidTheirWork /\ ProofIsTrue /\ Resumable /\ IdentityStaysBlocked /\ ErasureComesLast
  BY PhaseOrder, WorkingPhases
     DEF Init, NoOp, PhasesDidTheirWork, ProofIsTrue, Resumable, IdentityStaysBlocked,
         ErasureComesLast
<1>3. CustomerIsGone /\ HandlersInPhase /\ WorkedOff /\ Verified
  BY PhaseOrder DEF Init, NoOp, Idle, CustomerIsGone, HandlersInPhase, InPhase, WorkedOff, WorkedOffBy,
         Verified, VerifiedBy
<1>4. QED BY <1>1, <1>2, <1>3 DEF DInv, ErasureIsProved

\* The erasure starts in its own phase, and an identity gets a new account only
\* when its tombstone has expired.
LEMMA ErasureStep ==
  ASSUME DInv, [Next]_vars
  PROVE  ErasureComesLast' /\ IdentityStaysBlocked'
<1> USE DEF DInv, ErasureIsProved
<1> USE TypesAre, GoesForward
<1>1. op.phase \in Phases /\ op'.phase \in Phases /\ Rank[op.phase] \in Nat /\ Rank[op'.phase] \in Nat
  BY TypeStep, PhaseOrder DEF TypeOK, Operation
<1>2. op'.mark # "unset" => Rank[op'.phase] >= 4
  <2>1. CASE op.mark # "unset"
    BY <2>1, <1>1 DEF Forward, ErasureComesLast
  <2>2. ASSUME NEW w \in Workers, Prepare(w) \/ Claim(w) \/ Advance(w) \/ Release(w)
                                 \/ Record(w) \/ Finish(w), op.mark = "unset"
        PROVE  op'.mark = "unset"
    BY <2>2 DEF Prepare, Claim, Advance, Release, Record, Finish, NoOp, Operation
  <2>3. ASSUME NEW w \in Workers, Unmap(w) PROVE Rank[op'.phase] >= 4
    BY <2>3, PhaseOrder DEF Unmap, UnmapAllowed, Owner, Operation
  <2>4. CASE op.mark = "unset" /\ (LeaseExpires \/ MarkExpires \/ UNCHANGED op)
    BY <2>4 DEF LeaseExpires, MarkExpires, Operation
  <2>5. QED BY <2>1, <2>2, <2>3, <2>4, Writers
<1>3. user'.state = "gone" => Rank[op'.phase] >= 4
  <2>1. CASE user.state = "gone"
    BY <2>1, <1>1 DEF Forward, ErasureComesLast
  <2>2. ASSUME NEW w \in Workers, Prepare(w) \/ Claim(w) \/ Advance(w) \/ Unmap(w),
               user.state # "gone"
        PROVE  user'.state # "gone"
    BY <2>2 DEF Prepare, Claim, Advance, Unmap, Slot, User
  <2>3. ASSUME NEW w \in Workers, EraseUser(w) PROVE Rank[op'.phase] >= 4
    BY <2>3, PhaseOrder DEF EraseUser, Owner
  <2>4. QED BY <2>1, <2>2, <2>3, Writers
<1>4. ASSUME NEW i \in Identities
      PROVE  /\ mapping'[i] # "old" => op'.mark # "unset"
             /\ mapping'[i] = "new" => op'.mark = "expired" /\ ~tombstone'[i]
             /\ mapping'[i] # "old" => tombstone'[i] \/ op'.mark = "expired"
  <2>1. ASSUME NEW j \in Identities, Collect(j) \/ Register(j)
        PROVE  /\ mapping'[i] # "old" => op'.mark # "unset"
               /\ mapping'[i] = "new" => op'.mark = "expired" /\ ~tombstone'[i]
               /\ mapping'[i] # "old" => tombstone'[i] \/ op'.mark = "expired"
    BY <2>1 DEF Collect, Register, ErasureComesLast, IdentityStaysBlocked
  <2>2. ASSUME NEW w \in Workers, Unmap(w)
        PROVE  /\ mapping'[i] # "old" => op'.mark # "unset"
               /\ mapping'[i] = "new" => op'.mark = "expired" /\ ~tombstone'[i]
               /\ mapping'[i] # "old" => tombstone'[i] \/ op'.mark = "expired"
    <3>1. op'.mark = IF op.mark = "unset" THEN "live" ELSE op.mark
      BY <2>2 DEF Unmap, Operation
    <3>2. tombstone'[i] = (tombstone[i] \/ op.mark # "expired")
      BY <2>2 DEF Unmap, Tombstones
    <3>3. mapping'[i] = IF mapping[i] = "old" THEN "none" ELSE mapping[i]
      BY <2>2 DEF Unmap
    <3>4. op.mark \in Mark
      BY DEF Operation
    <3>5. QED BY <3>1, <3>2, <3>3, <3>4 DEF ErasureComesLast, Mark
  <2>3. CASE UNCHANGED <<mapping, tombstone>>
    BY <2>3 DEF Forward, ErasureComesLast, IdentityStaysBlocked
  <2>4. QED BY <2>1, <2>2, <2>3, Writers
<1>5. QED BY <1>2, <1>3, <1>4 DEF ErasureComesLast, IdentityStaysBlocked

\* The user's slot is written together with the operation's phase and fence.
LEMMA ResumableStep ==
  ASSUME DInv, [Next]_vars
  PROVE  Resumable'
<1> USE DEF DInv, ErasureIsProved
<1> USE TypesAre
<1>1. ASSUME NEW w \in Workers, Prepare(w) PROVE Resumable'
  <2>1. PICK f \in Fences :
          /\ op' = [NoOp EXCEPT !.phase = "sessions_revoking", !.fence = f, !.lease = TRUE]
          /\ user' = [user EXCEPT !.state = "deleting", !.phase = "sessions_revoking", !.fence = f]
    BY <1>1 DEF Prepare
  <2>2. QED BY <2>1 DEF NoOp, User, Resumable
<1>2. ASSUME NEW w \in Workers, Claim(w) PROVE Resumable'
  <2>1. PICK f \in Fences :
          /\ op' = [op EXCEPT !.fence = f, !.lease = TRUE]
          /\ user' = IF user.state = "gone" THEN user ELSE [user EXCEPT !.fence = f]
    BY <1>2 DEF Claim
  <2>2. IF user.state = "gone" THEN op.phase = "firestore_deleting"
        ELSE user.state = "deleting" /\ user.phase = op.phase
    BY <1>2 DEF Claim, Claimable, UserOwned
  <2>3. op'.phase = op.phase /\ op'.fence = f
    BY <2>1 DEF Operation
  <2>4. user.state # "gone" => /\ user'.state = user.state /\ user'.phase = user.phase
                               /\ user'.fence = f
    BY <2>1 DEF User
  <2>5. QED BY <2>1, <2>2, <2>3, <2>4 DEF Resumable
<1>3. ASSUME NEW w \in Workers, Advance(w) PROVE Resumable'
  <2>1. PICK f \in Fences :
          /\ op' = [op EXCEPT !.phase = Succ(h[w].phase), !.fence = f, !.lease = TRUE]
          /\ user' = IF h[w].phase = "firestore_deleting" THEN user
                     ELSE Slot(Succ(h[w].phase), f)
    BY <1>3 DEF Advance
  <2>2. op'.phase = Succ(h[w].phase) /\ op'.fence = f
    BY <2>1 DEF Operation
  <2>3. CASE h[w].phase = "firestore_deleting"
    BY <2>2, <2>3, Successors, WorkingPhases DEF Resumable
  <2>4. CASE h[w].phase # "firestore_deleting"
    <3>1. user.state = "deleting"
      BY <1>3, <2>4 DEF Advance, Advanceable, UserOwned
    <3>2. user'.state = "deleting" /\ user'.phase = Succ(h[w].phase) /\ user'.fence = f
      BY <2>1, <2>4, <3>1 DEF Slot, User
    <3>3. QED BY <2>2, <3>2 DEF Resumable
  <2>5. QED BY <2>3, <2>4
<1>4. ASSUME NEW w \in Workers, Release(w) \/ Record(w), UNCHANGED user PROVE Resumable'
  BY <1>4 DEF Release, Record, Operation, Resumable
<1>5. ASSUME NEW w \in Workers, Unmap(w) PROVE Resumable'
  BY <1>5 DEF Unmap, Operation, User, Resumable
<1>6. ASSUME NEW w \in Workers, EraseUser(w) PROVE Resumable'
  BY <1>6 DEF EraseUser, Owner, User, Resumable
<1>7. ASSUME NEW w \in Workers, Finish(w) PROVE Resumable'
  BY <1>7, WorkingPhases DEF Finish, Operation, Resumable
<1>8. CASE LeaseExpires \/ MarkExpires
  BY <1>8 DEF LeaseExpires, MarkExpires, Operation, Resumable
<1>9. CASE UNCHANGED <<op, user>>
  BY <1>9 DEF Resumable
<1>10. QED
  BY <1>1, <1>2, <1>3, <1>4, <1>5, <1>6, <1>7, <1>8, <1>9, Writers
     DEF Release, Record, Finish

-----------------------------------------------------------------------------
(* The handlers *)

\* A step moves one handler at most.
LEMMA OneMoves ==
  ASSUME TypeOK, [Next]_vars, NEW v \in Workers
  PROVE  h'[v] = h[v] \/ Prepare(v) \/ Step(v) \/ Fail(v) \/ Stop(v)
<1> USE TypesAre
<1>1. CASE UNCHANGED h
  BY <1>1
<1>2. ASSUME NEW w \in Workers, w # v, Prepare(w) \/ Step(w) \/ Fail(w) \/ Stop(w)
      PROVE  h'[v] = h[v]
  BY <1>2
     DEF Step, Fail, Stop, stored, Prepare, Resume, Claim, ReadStored, Advance, Release,
         ReadSubjects, Subject, LookUp, BeforeDelete, DeleteCustomer, Record, Unmap, List,
         Erase, EraseAccountRoot, EraseUser, VerifyTombstones, VerifyRoots, VerifyTrees,
         CompleteRead, Finish, Goto, Copy, Return
<1>3. QED
  BY <1>1, <1>2
     DEF Next, Environment, vars, LeaseExpires, MarkExpires, Touch, Collect, Register,
         AuthorizedWrite

\* Apart from the steps that do or check a phase's work, a handler's own step
\* takes it nowhere near the end of a phase.
Elsewhere(v) ==
  /\ h'[v].pc \notin {"record", "subjects", "advance", "verifyTrees", "finish"}
  /\ h'[v].customer => h[v].customer \/ op.customer
  /\ h'[v].pc # "release" => h'[v].todo = {}
  /\ h'[v].phase \in {"none", h[v].phase, op.phase}
  /\ h'[v].pc # "beforeDelete"
  /\ h'[v].pc = "deleteCustomer" => h[v].pc = "beforeDelete" /\ h'[v].phase = h[v].phase

LEMMA OwnMoves ==
  ASSUME TypeOK, HandlersInPhase, NEW v \in Workers, Prepare(v) \/ Step(v) \/ Fail(v) \/ Stop(v)
  PROVE  \/ ReadSubjects(v) \/ Subject(v) \/ LookUp(v) \/ DeleteCustomer(v) \/ Record(v)
         \/ VerifyRoots(v) \/ VerifyTrees(v) \/ Elsewhere(v)
<1> USE TypesAre
<1> DEFINE Ends == {"record", "subjects", "advance", "verifyTrees", "finish",
                    "beforeDelete", "deleteCustomer"}
<1>1. h[v] \in Handler /\ h'[v] = h'[v]
  OBVIOUS
<1>2. ASSUME NEW pc \in Pcs \ Ends, Goto(v, pc), h[v].pc # "subjects", h[v].pc # "release"
      PROVE  Elsewhere(v)
  BY <1>1, <1>2 DEF Goto, Handler, Elsewhere, HandlersInPhase, InPhase
<1>3. ASSUME Goto(v, "release") PROVE Elsewhere(v)
  BY <1>1, <1>3 DEF Goto, Handler, Elsewhere
<1>4. ASSUME NEW pc \in Pcs \ Ends, Copy(v, pc) PROVE Elsewhere(v)
  BY <1>4 DEF Copy, Idle, Elsewhere
<1>5. ASSUME Return(v) PROVE Elsewhere(v)
  BY <1>5 DEF Return, Idle, Elsewhere
<1>6. CASE List(v) \/ Erase(v)
  <2>1. h[v].pc \in {"linked", "account", "userTree"}
    BY <1>6 DEF List, Erase, Scope
  <2>2. h'[v].pc \in {"linked", "account", "userTree", "accountRoot", "userRoot"}
    BY <1>1, <1>6, <2>1 DEF List, Erase, After, Handler
  <2>3. /\ h'[v].customer = h[v].customer /\ h'[v].todo = h[v].todo
        /\ h'[v].phase = h[v].phase
    BY <1>1, <1>6 DEF List, Erase, Handler
  <2>4. QED BY <2>1, <2>2, <2>3 DEF Elsewhere, HandlersInPhase, InPhase
<1>7. CASE Prepare(v) \/ Claim(v) \/ Advance(v)
  BY <1>2, <1>7 DEF Prepare, Claim, Advance, Pcs
<1>8. CASE Resume(v) \/ ReadStored(v)
  BY <1>4, <1>8 DEF Resume, ReadStored, Pcs
<1>9. CASE Unmap(v) \/ EraseAccountRoot(v) \/ EraseUser(v)
  BY <1>2, <1>9 DEF Unmap, EraseAccountRoot, EraseUser, Pcs
<1>10. CASE BeforeDelete(v)
  BY <1>1, <1>10 DEF BeforeDelete, Goto, Handler, Elsewhere, HandlersInPhase, InPhase
<1>11. CASE VerifyTombstones(v)
  BY <1>2, <1>11 DEF VerifyTombstones, Pcs
<1>12. CASE Release(v) \/ Stop(v) \/ Finish(v)
  BY <1>5, <1>12 DEF Release, Stop, Finish
<1>13. CASE CompleteRead(v)
  BY <1>4, <1>5, <1>13 DEF CompleteRead, Pcs
<1>14. CASE Fail(v)
  BY <1>3, <1>14 DEF Fail
<1>15. QED
  BY <1>6, <1>7, <1>8, <1>9, <1>10, <1>11, <1>12, <1>13,
     <1>14 DEF Step

\* A customer is on record as deleted only when RevenueCat has deleted it.
LEMMA CustomerStep ==
  ASSUME DInv, [Next]_vars
  PROVE  CustomerIsGone'
<1> USE DEF DInv, ErasureIsProved
<1> USE TypesAre, GoesForward
<1>1. op'.customer => provider'.customer = "deleted"
  <2>1. ASSUME NEW w \in Workers, Record(w) PROVE provider.customer = "deleted"
    BY <2>1 DEF Record, CustomerIsGone
  <2>2. ASSUME NEW w \in Workers, Prepare(w) \/ Claim(w) \/ Advance(w) \/ Release(w) \/ Unmap(w)
                                 \/ Finish(w)
        PROVE  op'.customer => op.customer
    BY <2>2 DEF Prepare, Claim, Advance, Release, Unmap, Finish, NoOp, Operation
  <2>3. CASE LeaseExpires \/ MarkExpires \/ UNCHANGED op
    BY <2>3 DEF LeaseExpires, MarkExpires, Operation, CustomerIsGone, Forward
  <2>4. QED BY <2>1, <2>2, <2>3, Writers DEF CustomerIsGone, Forward
<1>2. ASSUME NEW v \in Workers
      PROVE  h'[v].customer \/ h'[v].pc = "record" => provider'.customer = "deleted"
  <2>1. h[v] \in Handler
    OBVIOUS
  <2>2. CASE ReadSubjects(v) \/ Subject(v) \/ VerifyRoots(v) \/ VerifyTrees(v) \/ Record(v)
    <3>1. CASE ReadSubjects(v) \/ VerifyRoots(v) \/ VerifyTrees(v) \/ Record(v)
      BY <2>1, <3>1 DEF ReadSubjects, VerifyRoots, VerifyTrees, Record, Goto, Handler,
         CustomerIsGone, Forward
    <3>2. ASSUME Subject(v) PROVE h'[v].customer = h[v].customer /\ h'[v].pc # "record"
      <4>1. PICK i \in h[v].todo :
              \/ h' = [h EXCEPT ![v].todo = @ \ {i},
                                ![v].pc   = IF h[v].todo = {i} THEN "advance" ELSE "subjects"]
              \/ Goto(v, "release")
        BY <3>2 DEF Subject
      <4>2. QED BY <2>1, <4>1 DEF Goto, Handler
    <3>3. QED BY <2>2, <3>1, <3>2 DEF CustomerIsGone, Forward
  <2>3. CASE LookUp(v)
    BY <2>1, <2>3 DEF LookUp, Goto, Handler, Providers, CustomerIsGone, Forward
  <2>4. CASE DeleteCustomer(v)
    BY <2>4 DEF DeleteCustomer, Providers
  <2>5. CASE Elsewhere(v) \/ h'[v] = h[v]
    BY <2>5 DEF Elsewhere, CustomerIsGone, Forward
  <2>6. QED BY <2>2, <2>3, <2>4, <2>5, OneMoves, OwnMoves
<1>3. QED BY <1>1, <1>2 DEF CustomerIsGone

LEMMA PhaseStep ==
  ASSUME DInv, [Next]_vars
  PROVE  HandlersInPhase'
<1> USE DEF DInv, ErasureIsProved
<1> USE TypesAre, GoesForward
<1> SUFFICES ASSUME NEW v \in Workers PROVE InPhase(v)'
  BY DEF HandlersInPhase
<1>1. /\ InPhase(v) /\ h[v] \in Handler
      /\ Rank[op.phase] \in Nat /\ Rank[op'.phase] \in Nat /\ Rank[h[v].phase] \in Nat
  BY TypeStep, PhaseOrder DEF HandlersInPhase, TypeOK, Operation, Handler
<1>2. Rank[h[v].phase] <= Rank[op'.phase]
  BY <1>1 DEF InPhase, Forward
<1>3. CASE ReadSubjects(v)
  BY <1>1, <1>2, <1>3 DEF ReadSubjects, Handler, InPhase
<1>4. CASE Subject(v)
  <2>1. PICK i \in h[v].todo :
          \/ h' = [h EXCEPT ![v].todo = @ \ {i},
                            ![v].pc   = IF h[v].todo = {i} THEN "advance" ELSE "subjects"]
          \/ Goto(v, "release")
    BY <1>4 DEF Subject
  <2>2. h[v].phase \in {"sessions_revoking", "auth_deleting"} /\ h'[v].phase = h[v].phase
    BY <1>1, <1>4, <2>1 DEF Subject, Goto, Handler, InPhase
  <2>3. h'[v].pc = "release" \/ h'[v].pc = "subjects" \/ (h'[v].pc = "advance" /\ h'[v].todo = {})
    BY <1>1, <2>1 DEF Goto, Handler
  <2>4. QED BY <1>2, <2>2, <2>3, WorkingPhases DEF InPhase
<1>5. CASE LookUp(v) \/ DeleteCustomer(v) \/ Record(v)
  <2>1. /\ h'[v].pc \in {"advance", "beforeDelete", "record", "release"}
        /\ h'[v].todo = {} /\ h'[v].phase = h[v].phase /\ h[v].phase = "revenuecat_deleting"
    BY <1>1, <1>5 DEF LookUp, DeleteCustomer, Record, Goto, Handler, InPhase
  <2>2. QED BY <1>2, <2>1, WorkingPhases DEF InPhase
<1>6. CASE VerifyRoots(v) \/ VerifyTrees(v)
  <2>1. /\ h'[v].pc \in {"verifyTrees", "advance", "finish"}
        /\ h'[v].pc = "advance" => h[v].phase = "firestore_deleting"
        /\ h'[v].todo = {} /\ h'[v].phase = h[v].phase
    BY <1>1, <1>6 DEF VerifyRoots, VerifyTrees, Goto, Handler, InPhase
  <2>2. QED BY <1>2, <2>1, WorkingPhases DEF InPhase
<1>7. CASE Elsewhere(v)
  <2>1. Rank[h'[v].phase] <= Rank[op'.phase]
    BY <1>1, <1>2, <1>7, PhaseOrder DEF Elsewhere, Forward
  <2>2. QED BY <1>1, <1>7, <2>1 DEF Elsewhere, InPhase
<1>8. CASE h'[v] = h[v]
  BY <1>1, <1>2, <1>8 DEF InPhase
<1>9. QED
  BY <1>3, <1>4, <1>5, <1>6, <1>7, <1>8, OneMoves, OwnMoves

\* While the operation is in the phase of the subjects, all of them are mapped;
\* a handler that has none left to ask for has asked for all.
LEMMA WorkStep ==
  ASSUME DInv, [Next]_vars
  PROVE  WorkedOff'
<1> USE DEF DInv, ErasureIsProved
<1> USE TypesAre
<1> USE GoesForward
<1> SUFFICES ASSUME NEW v \in Workers PROVE WorkedOffBy(v)'
  BY DEF WorkedOff
<1>1. WorkedOffBy(v) /\ InPhase(v) /\ h[v] \in Handler
  BY DEF WorkedOff, HandlersInPhase
<1>2. CASE ReadSubjects(v)
  <2>1. /\ h'[v].pc = "subjects" /\ h'[v].todo = Mapped /\ h'[v].phase = h[v].phase
        /\ h[v].phase \in {"sessions_revoking", "auth_deleting"} /\ op' = op
    BY <1>1, <1>2 DEF ReadSubjects, Handler, stored
  <2>2. op.phase = h[v].phase => Mapped = Identities
    BY <2>1, PhaseOrder DEF ErasureComesLast, Mapped
  <2>3. QED BY <2>1, <2>2 DEF WorkedOffBy
<1>3. CASE Subject(v)
  <2>1. PICK i \in h[v].todo :
          /\ provider' = SubjectDone(i, h[v].phase)
          /\ \/ h' = [h EXCEPT ![v].todo = @ \ {i},
                               ![v].pc   = IF h[v].todo = {i} THEN "advance" ELSE "subjects"]
             \/ Goto(v, "release")
    BY <1>3 DEF Subject
  <2>2. CASE Goto(v, "release")
    BY <1>1, <2>2 DEF Goto, Handler, WorkedOffBy
  <2>3. CASE h' = [h EXCEPT ![v].todo = @ \ {i},
                            ![v].pc   = IF h[v].todo = {i} THEN "advance" ELSE "subjects"]
    <3>1. /\ h'[v].todo = h[v].todo \ {i} /\ h'[v].phase = h[v].phase
          /\ h'[v].pc = IF h[v].todo = {i} THEN "advance" ELSE "subjects"
      BY <1>1, <2>3 DEF Handler
    <3>2. op' = op /\ h[v].pc = "subjects" /\ h[v].phase \in {"sessions_revoking", "auth_deleting"}
      BY <1>1, <1>3 DEF Subject, InPhase
    <3>3. /\ h[v].phase = "sessions_revoking" => provider'.revoked = provider.revoked \cup {i}
          /\ h[v].phase = "auth_deleting" => provider'.deleted = provider.deleted \cup {i}
      BY <2>1 DEF SubjectDone, Providers
    <3>4. QED BY <1>1, <3>1, <3>2, <3>3 DEF WorkedOffBy
  <2>4. QED BY <2>1, <2>2, <2>3
<1>4. CASE LookUp(v) \/ Record(v)
  <2>1. /\ h[v].phase = "revenuecat_deleting" /\ h'[v].phase = h[v].phase
        /\ h'[v].pc \in {"advance", "beforeDelete", "record"}
        /\ h'[v].pc = "advance" => h[v].customer \/ h[v].pc = "record"
    BY <1>1, <1>4 DEF LookUp, Record, Goto, Handler, InPhase
  <2>2. h'[v].pc = "advance" => provider'.customer = "deleted"
    BY <2>1 DEF CustomerIsGone, Forward
  <2>3. QED BY <2>1, <2>2 DEF WorkedOffBy
<1>5. CASE DeleteCustomer(v) \/ VerifyRoots(v) \/ VerifyTrees(v)
  <2>1. h'[v].pc = "advance" => h'[v].phase = "firestore_deleting"
    BY <1>1, <1>5 DEF DeleteCustomer, VerifyRoots, VerifyTrees, Goto, Handler
  <2>2. h'[v].pc # "subjects"
    BY <1>1, <1>5 DEF DeleteCustomer, VerifyRoots, VerifyTrees, Goto, Handler
  <2>3. QED BY <2>1, <2>2 DEF WorkedOffBy
<1>6. CASE Elsewhere(v)
  BY <1>6 DEF Elsewhere, WorkedOffBy
<1>7. CASE h'[v] = h[v]
  <2>1. op'.phase = h[v].phase => op.phase = h[v].phase
    <3>1. op.phase \in Phases /\ h[v].phase \in Phases
      BY <1>1 DEF Operation, Handler
    <3>2. Rank[h[v].phase] <= Rank[op.phase] /\ Rank[op.phase] <= Rank[op'.phase]
      BY <1>1 DEF InPhase, Forward
    <3>3. QED BY <3>1, <3>2, PhaseOrder
  <2>2. QED BY <1>1, <1>7, <2>1 DEF WorkedOffBy, Forward
<1>8. QED
  BY <1>2, <1>3, <1>4, <1>5, <1>6, <1>7, OneMoves, OwnMoves

\* The verification's last look finds nothing left, and nothing comes back.
LEMMA VerifyStep ==
  ASSUME DInv, [Next]_vars
  PROVE  Verified'
<1> USE DEF DInv, ErasureIsProved
<1> USE TypesAre, GoesForward
<1> SUFFICES ASSUME NEW v \in Workers PROVE VerifiedBy(v)'
  BY DEF Verified
<1>1. VerifiedBy(v) /\ InPhase(v) /\ h[v] \in Handler
  BY DEF Verified, HandlersInPhase
<1>2. CASE ReadSubjects(v) \/ DeleteCustomer(v) \/ LookUp(v) \/ Record(v)
  <2>1. h'[v].pc \notin {"verifyTrees", "finish"} /\ h'[v].phase # "firestore_deleting"
    BY <1>1, <1>2
       DEF ReadSubjects, DeleteCustomer, LookUp, Record, Goto, Handler, InPhase
  <2>2. QED BY <2>1 DEF VerifiedBy
<1>3. CASE Subject(v)
  <2>1. PICK i \in h[v].todo :
          \/ h' = [h EXCEPT ![v].todo = @ \ {i},
                            ![v].pc   = IF h[v].todo = {i} THEN "advance" ELSE "subjects"]
          \/ Goto(v, "release")
    BY <1>3 DEF Subject
  <2>2. h'[v].pc \notin {"verifyTrees", "finish"} /\ h'[v].phase # "firestore_deleting"
    BY <1>1, <1>3, <2>1 DEF Subject, Goto, Handler, InPhase
  <2>3. QED BY <2>2 DEF VerifiedBy
<1>4. CASE VerifyRoots(v)
  <2>1. h'[v].pc = "verifyTrees" /\ UNCHANGED <<user, data, mapping>>
    BY <1>1, <1>4 DEF VerifyRoots, Goto, Handler, stored
  <2>2. user.state = "gone" /\ Mapped = {} /\ data \cap (Linked \cup Root) = {}
    BY <1>4 DEF VerifyRoots
  <2>3. QED BY <2>1, <2>2 DEF VerifiedBy, Mapped
<1>5. CASE VerifyTrees(v)
  <2>1. UNCHANGED <<user, data, mapping>> /\ h'[v].pc \in {"advance", "finish"}
    BY <1>1, <1>5 DEF VerifyTrees, Goto, Handler, stored
  <2>2. data = {}
    BY <1>1, <1>5 DEF VerifyTrees, VerifiedBy, Classes
  <2>3. QED BY <1>1, <1>5, <2>1, <2>2 DEF VerifyTrees, VerifiedBy, Mapped
<1>6. CASE Elsewhere(v)
  BY <1>6 DEF Elsewhere, VerifiedBy
<1>7. CASE h'[v] = h[v]
  BY <1>1, <1>7 DEF VerifiedBy, Forward
<1>8. QED
  BY <1>2, <1>3, <1>4, <1>5, <1>6, <1>7, OneMoves, OwnMoves

-----------------------------------------------------------------------------
(* What the deletion promises *)

\* A phase is left by a handler that has worked it off.
LEMMA ProofStep ==
  ASSUME DInv, [Next]_vars
  PROVE  PhasesDidTheirWork' /\ ProofIsTrue'
<1> USE DEF DInv, ErasureIsProved
<1> USE TypesAre, GoesForward
<1>1. op.phase \in Phases /\ op'.phase \in Phases
  BY TypeStep DEF TypeOK, Operation
<1>0. /\ provider.revoked = Identities => provider'.revoked = Identities
      /\ provider.deleted = Identities => provider'.deleted = Identities
      /\ user.state = "gone" /\ data = {} /\ Mapped = {} =>
           user'.state = "gone" /\ data' = {} /\ Mapped' = {}
  <2>1. provider'.revoked \subseteq Identities /\ provider'.deleted \subseteq Identities
    BY TypeStep DEF TypeOK
  <2>2. QED BY <2>1 DEF Forward
<1>2. PhasesDidTheirWork'
  <2>1. CASE op'.phase = op.phase
    BY <1>0, <2>1 DEF PhasesDidTheirWork, Forward
  <2>2. ASSUME NEW w \in Workers, Advance(w) PROVE PhasesDidTheirWork'
    <3>1. /\ op.phase = h[w].phase /\ h[w].phase \in Working /\ h[w].pc = "advance"
          /\ h[w].todo = {} /\ WorkedOffBy(w) /\ VerifiedBy(w)
      BY <2>2 DEF Advance, Advanceable, Owner, HandlersInPhase, InPhase, WorkedOff, Verified
    <3>2. op'.phase = Succ(op.phase)
      BY <2>2, <3>1 DEF Advance, Operation
    <3>3. /\ op.phase = "sessions_revoking" => provider'.revoked = Identities
          /\ op.phase = "auth_deleting" => provider'.deleted = Identities
          /\ op.phase = "revenuecat_deleting" => provider'.customer = "deleted"
          /\ op.phase = "firestore_deleting" => user'.state = "gone" /\ data' = {} /\ Mapped' = {}
      BY <3>1, TypeStep DEF WorkedOffBy, VerifiedBy, Forward, TypeOK
    <3>4. QED
      BY <1>0, <3>1, <3>2, <3>3, Successors, WorkingPhases, PhaseOrder
         DEF PhasesDidTheirWork, Forward
  <2>3. ASSUME NEW w \in Workers, Finish(w)
        PROVE  op'.phase = op.phase \/ (op.phase = "remote_deleted" /\ op'.phase = "complete")
    BY <2>3 DEF Finish, Operation
  <2>4. ASSUME op.phase = "remote_deleted", op'.phase = "complete" PROVE PhasesDidTheirWork'
    BY <1>0, <2>4, PhaseOrder DEF PhasesDidTheirWork, Forward
  <2>5. ASSUME NEW w \in Workers, Claim(w) \/ Release(w) \/ Record(w) \/ Unmap(w)
        PROVE  op'.phase = op.phase
    BY <2>5 DEF Claim, Release, Record, Unmap, Operation
  <2>6. ASSUME NEW w \in Workers, Prepare(w) PROVE PhasesDidTheirWork'
    <3>1. op'.phase = "sessions_revoking"
      BY <2>6 DEF Prepare, NoOp
    <3>2. QED BY <3>1, PhaseOrder DEF PhasesDidTheirWork
  <2>7. CASE LeaseExpires \/ MarkExpires \/ op' = op
    BY <2>1, <2>7 DEF LeaseExpires, MarkExpires, Operation
  <2>8. QED BY <2>1, <2>2, <2>3, <2>4, <2>5, <2>6, <2>7, Writers
<1>3. ProofIsTrue'
  <2>1. proof' => op'.phase = "complete"
    <3>1. CASE proof
      BY <1>1, <3>1, PhaseOrder DEF ProofIsTrue, Forward
    <3>2. ASSUME NEW w \in Workers, Finish(w), ~proof PROVE proof' => op'.phase = "complete"
      BY <3>2 DEF Finish, Operation
    <3>3. QED BY <3>1, <3>2, Writers
  <2>2. QED BY <1>2, <2>1, PhaseOrder DEF PhasesDidTheirWork, ProofIsTrue
<1>4. QED BY <1>2, <1>3

\* The deletion's invariant holds in every reachable state.
LEMMA Invariance == Spec => []DInv
<1>1. DInv /\ [Next]_vars => DInv'
  <2> SUFFICES ASSUME DInv, [Next]_vars PROVE DInv'
    OBVIOUS
  <2>1. TypeOK'
    BY TypeStep DEF DInv, ErasureIsProved
  <2>2. QED
    BY <2>1, ErasureStep, ResumableStep, CustomerStep, PhaseStep, WorkStep, VerifyStep, ProofStep
       DEF DInv, ErasureIsProved
<1>2. QED BY <1>1, InvariantStart, PTL DEF Spec

\* Whatever the handlers' interleaving, however often a deletion is abandoned
\* and resumed: past a phase its work is done, and a proof is true for ever.
THEOREM ErasureProved == Spec => []ErasureIsProved
<1>1. DInv => ErasureIsProved
  BY DEF DInv
<1>2. QED BY <1>1, Invariance, PTL

\* An identity whose mapping is gone has a tombstone until the seven days are over.
THEOREM IdentityBlocked == Spec => []IdentityStaysBlocked
<1>1. DInv => IdentityStaysBlocked
  BY DEF DInv
<1>2. QED BY <1>1, Invariance, PTL

\* A deletion that has started can be taken up by whoever finds its lease expired.
THEOREM DeletionResumable == Spec => []Resumable
<1>1. DInv => Resumable
  BY DEF DInv
<1>2. QED BY <1>1, Invariance, PTL

\* A deletion that comes late leaves an identity's new account alone.
THEOREM NewAccountStands == Spec => NewAccountUntouched
<1> DEFINE Stands == \A i \in Identities : mapping[i] = "new" => mapping'[i] = "new" /\ ~tombstone'[i]
<1>1. DInv /\ [Next]_vars => [Stands]_vars
  <2> SUFFICES ASSUME DInv, [Next]_vars, NEW i \in Identities, mapping[i] = "new"
               PROVE  mapping'[i] = "new" /\ ~tombstone'[i]
    BY DEF DInv
  <2>1. op.mark = "expired" /\ ~tombstone[i]
    BY DEF DInv, ErasureComesLast
  <2>2. ASSUME NEW j \in Identities, Collect(j) \/ Register(j)
        PROVE  mapping'[i] = "new" /\ ~tombstone'[i]
    BY <2>1, <2>2 DEF Collect, Register, DInv, ErasureIsProved, TypeOK
  <2>3. ASSUME NEW w \in Workers, Unmap(w)
        PROVE  mapping'[i] = "new" /\ ~tombstone'[i]
    BY <2>1, <2>3 DEF Unmap, Tombstones, DInv, ErasureIsProved, TypeOK
  <2>4. QED BY <2>1, <2>2, <2>3, Writers
<1>2. QED BY <1>1, Invariance, PTL DEF Spec, NewAccountUntouched
=============================================================================
