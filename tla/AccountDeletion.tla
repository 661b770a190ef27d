--------------------------- MODULE AccountDeletion ---------------------------
(***************************************************************************)
(* Deletion of one account: FirestoreAccountLifecycleStore                 *)
(* (src/modules/account-lifecycle/store.ts) with the Firestore erasure of  *)
(* firestoreAccountErasure.ts.                                             *)
(*                                                                         *)
(* A durable operation walks through phases; each phase asks a provider or *)
(* Firestore for work and then advances under a fence and a two-minute     *)
(* lease.  A handler is the deletion request or a later status request,    *)
(* which resumes an operation whose lease has run out.  A transaction is   *)
(* one action, and so is each read or provider call between transactions.  *)
(***************************************************************************)
EXTENDS Naturals, FiniteSets

CONSTANTS
  Identities,  \* sign-in identities mapped to the account
  Workers,     \* concurrent request handlers
  Fences,      \* random UUIDs; a new one is one that nothing holds
  NoFence,
  InitialData  \* what the account may own when it is deleted

ASSUME IdentityAssumption == Identities # {}
ASSUME FenceAssumption    == NoFence \notin Fences

VARIABLES
  user,       \* users/{id}
  mapping,    \* identityMappings: whose account the identity opens
  tombstone,  \* deletedIdentities
  data,       \* the classes of owned documents that are not empty
  op,         \* accountDeletionOperations/{operationId}
  proof,      \* deletionProofs/{proofId} exists
  provider,   \* what Firebase Auth and RevenueCat have done
  h           \* the handler each worker is running

vars == <<user, mapping, tombstone, data, op, proof, provider, h>>

-----------------------------------------------------------------------------
(* Documents *)

Rank == [none |-> 0, sessions_revoking |-> 1, auth_deleting |-> 2,
         revenuecat_deleting |-> 3, firestore_deleting |-> 4,
         remote_deleted |-> 5, complete |-> 6]
Phases    == DOMAIN Rank
Working   == {p \in Phases : Rank[p] \in 1..4}
Succ(p)   == CHOOSE q \in Phases : Rank[q] = Rank[p] + 1

\* Documents linked by a query, the account's subtree and root, and the two
\* parts of the user's subtree that different writers fill.
Linked   == {"linked"}
Account  == {"account"}
Root     == {"accountRoot"}
UserTree == {"devices", "records"}
Classes  == Linked \cup Account \cup Root \cup UserTree

ASSUME DataAssumption == InitialData \subseteq SUBSET Classes

Fence == Fences \cup {NoFence}
Mark  == {"unset", "live", "expired"}   \* the erasure checkpoint's expiresAt

NoOp == [phase |-> "none", fence |-> NoFence, lease |-> FALSE,
         customer |-> FALSE, mark |-> "unset"]
Idle == [pc |-> "idle", phase |-> "none", fence |-> NoFence,
         customer |-> FALSE, mark |-> FALSE, todo |-> {}, page |-> {}]

\* The identities whose mapping names the account.
Mapped == {i \in Identities : mapping[i] = "old"}

\* randomUUID(): a fence that nothing holds.  Which one does not matter.
Unheld(f) == f \notin {op.fence, user.fence} \cup {h[w].fence : w \in Workers}
Fresh(f)  == Unheld(f) /\ f = CHOOSE g \in Fences : Unheld(g)

\* readStoredDeletionOperation: a handler's copy of the operation.
Copy(w, pc) == h' = [h EXCEPT ![w] =
  [Idle EXCEPT !.pc = pc, !.phase = op.phase, !.fence = op.fence,
               !.customer = op.customer, !.mark = op.mark # "unset"]]
Goto(w, pc) == h' = [h EXCEPT ![w].pc = pc]
Return(w)   == h' = [h EXCEPT ![w] = Idle]

\* assertDeletionOwnerInTransaction
Owner(w, p) == op.phase = p /\ op.fence = h[w].fence /\ op.lease

\* userOwnsDeletion: the user's security slot names this phase and fence.
UserOwned(w) == user.state = "deleting" /\ user.phase = h[w].phase /\ user.fence = h[w].fence

Init ==
  /\ user = [state |-> "active", deletedAt |-> FALSE, phase |-> "none", fence |-> NoFence]
  /\ mapping = [i \in Identities |-> "old"]
  /\ tombstone = [i \in Identities |-> FALSE]
  /\ data \in InitialData
  /\ op = NoOp
  /\ proof = FALSE
  /\ provider = [revoked |-> {}, deleted |-> {}, customer |-> "present"]
  /\ h = [w \in Workers |-> Idle]

stored == <<user, mapping, tombstone, data, op, proof, provider>>
-----------------------------------------------------------------------------
(* The operation *)

\* prepareDeletionOperation
Prepare(w) ==
  /\ h[w].pc = "idle"
  /\ user.state = "active" /\ op.phase = "none" /\ Mapped # {}
  /\ \E f \in Fences :
       /\ Fresh(f)
       /\ op' = [NoOp EXCEPT !.phase = "sessions_revoking", !.fence = f, !.lease = TRUE]
       /\ user' = [user EXCEPT !.state = "deleting", !.phase = "sessions_revoking", !.fence = f]
  /\ Goto(w, "read")
  /\ UNCHANGED <<mapping, tombstone, data, proof, provider>>

\* resumeDeletion: read the operation, then claim it or complete it.
Resume(w) ==
  /\ h[w].pc = "idle"
  /\ op.phase \in Working \cup {"remote_deleted"}
  /\ Copy(w, IF op.phase = "remote_deleted" THEN "complete" ELSE "claim")
  /\ UNCHANGED stored

\* claimDeletionResume
Claimable(w) ==
  /\ op.phase = h[w].phase /\ op.fence = h[w].fence /\ ~op.lease
  /\ IF user.state = "gone" THEN h[w].phase = "firestore_deleting" ELSE UserOwned(w)

Claim(w) ==
  /\ h[w].pc = "claim" /\ Claimable(w)
  /\ \E f \in Fences :
       /\ Fresh(f)
       /\ op' = [op EXCEPT !.fence = f, !.lease = TRUE]
       /\ user' = IF user.state = "gone" THEN user ELSE [user EXCEPT !.fence = f]
  /\ Goto(w, "read")
  /\ UNCHANGED <<mapping, tombstone, data, proof, provider>>

\* The read that follows a committed claim or advance.  It is outside the
\* transaction: the copy may hold what somebody else has written since.
ReadStored(w) ==
  /\ h[w].pc = "read"
  /\ Copy(w, IF op.phase \in Working THEN "run" ELSE "complete")
  /\ UNCHANGED stored

\* advanceDeletionPhase compares phase, fence and lease.  A slip: the lease only.
Advanceable_AnyFence(w) == op.lease
Advanceable(w) ==
  /\ Owner(w, h[w].phase)
  /\ h[w].phase # "firestore_deleting" => UserOwned(w)

\* The user's security slot follows.  A slip: its fence is left as it was.
Slot_PhaseOnly(p, f) == [user EXCEPT !.phase = p]
Slot(p, f)           == [user EXCEPT !.phase = p, !.fence = f]

Advance(w) ==
  /\ h[w].pc = "advance" /\ Advanceable(w)
  /\ \E f \in Fences :
       /\ Fresh(f)
       /\ op' = [op EXCEPT !.phase = Succ(h[w].phase), !.fence = f, !.lease = TRUE]
       /\ user' = IF h[w].phase = "firestore_deleting" THEN user
                  ELSE Slot(Succ(h[w].phase), f)
  /\ Goto(w, "read")
  /\ UNCHANGED <<mapping, tombstone, data, proof, provider>>

\* releaseDeletionLease, then the error is thrown.
Release(w) ==
  /\ h[w].pc = "release"
  /\ op' = IF op.phase = h[w].phase /\ op.fence = h[w].fence
           THEN [op EXCEPT !.lease = FALSE] ELSE op
  /\ Return(w)
  /\ UNCHANGED <<user, mapping, tombstone, data, proof, provider>>

-----------------------------------------------------------------------------
(* The work of each phase.  A call to a provider may take effect although its *)
(* answer is lost: the handler then releases the lease as after any failure.  *)

\* firebaseSubjectsForUser
ReadSubjects(w) ==
  /\ h[w].pc = "run" /\ h[w].phase \in {"sessions_revoking", "auth_deleting"}
  /\ Mapped # {}
  /\ h' = [h EXCEPT ![w].pc = "subjects", ![w].todo = Mapped]
  /\ UNCHANGED stored

\* One call of revokeDeletionSubjects or deleteAuthSubjects.  A slip: a
\* provider's error is swallowed.
SubjectDone_Swallowed(i, p) == provider
SubjectDone(i, p) ==
  IF p = "sessions_revoking" THEN [provider EXCEPT !.revoked = @ \cup {i}]
  ELSE [provider EXCEPT !.deleted = @ \cup {i}]

Subject(w) ==
  /\ h[w].pc = "subjects"
  /\ \E i \in h[w].todo :
       /\ provider' = SubjectDone(i, h[w].phase)
       /\ \/ h' = [h EXCEPT ![w].todo = @ \ {i},
                            ![w].pc   = IF h[w].todo = {i} THEN "advance" ELSE "subjects"]
          \/ Goto(w, "release")
  /\ UNCHANGED <<user, mapping, tombstone, data, op, proof>>

\* deleteCustomer: look the customer up, make sure of the ownership, delete.
LookUp(w) ==
  /\ h[w].pc = "run" /\ h[w].phase = "revenuecat_deleting"
  /\ Goto(w, IF h[w].customer THEN "advance"
             ELSE IF provider.customer = "present" THEN "beforeDelete" ELSE "record")
  /\ UNCHANGED stored

BeforeDelete(w) ==
  /\ h[w].pc = "beforeDelete" /\ Owner(w, "revenuecat_deleting")
  /\ Goto(w, "deleteCustomer")
  /\ UNCHANGED stored

DeleteCustomer(w) ==
  /\ h[w].pc = "deleteCustomer"
  /\ provider' = [provider EXCEPT !.customer = "deleted"]
  /\ \E pc \in {"record", "release"} : Goto(w, pc)
  /\ UNCHANGED <<user, mapping, tombstone, data, op, proof>>

Record(w) ==
  /\ h[w].pc = "record" /\ Owner(w, "revenuecat_deleting") /\ ~op.customer
  /\ op' = [op EXCEPT !.customer = TRUE]
  /\ Goto(w, "advance")
  /\ UNCHANGED <<user, mapping, tombstone, data, proof, provider>>

-----------------------------------------------------------------------------
(* eraseFirestoreAccountData *)

\* A missing tombstone is tolerated once the checkpoint's expiry has passed.
Tombstoned(i) == tombstone[i] \/ op.mark = "expired"

\* The first transaction: publish the tombstones, write the checkpoint once,
\* remove the mappings, mark the user deleted.
\* Slips: they are published whatever their expiry; or only once a checkpoint
\* has been read.
Tombstones_Again == [i \in Identities |-> TRUE]
Tombstones_Late  == [i \in Identities |-> tombstone[i] \/ op.mark = "live"]
Tombstones == [i \in Identities |-> tombstone[i] \/ op.mark # "expired"]

UnmapAllowed(w) ==
  /\ Owner(w, "firestore_deleting") /\ h[w].customer
  /\ h[w].mark => \A i \in Identities : Tombstoned(i)
  /\ IF user.state = "gone" THEN Mapped = {} /\ op.mark # "unset" ELSE UserOwned(w)

Unmap(w) ==
  /\ h[w].pc = "run" /\ UnmapAllowed(w)
  /\ tombstone' = Tombstones
  /\ op' = [op EXCEPT !.mark = IF @ = "unset" THEN "live" ELSE @]
  /\ mapping' = [i \in Identities |-> IF mapping[i] = "old" THEN "none" ELSE mapping[i]]
  /\ user' = [user EXCEPT !.deletedAt = TRUE]
  /\ Goto(w, "linked")
  /\ UNCHANGED <<data, proof, provider>>

\* deleteOwnedQuery queries until a page is empty; deleteSubtreeOwned lists
\* once.  Every deleting transaction asserts the ownership, the reads do not.
Scope == [linked |-> Linked, account |-> Account, userTree |-> UserTree]
After == [linked |-> "account", account |-> "accountRoot", userTree |-> "userRoot"]

List(w) ==
  /\ h[w].pc \in DOMAIN Scope /\ h[w].page = {}
  /\ LET found == data \cap Scope[h[w].pc]
     IN  h' = [h EXCEPT ![w].page = found, ![w].pc = IF found = {} THEN After[@] ELSE @]
  /\ UNCHANGED stored

Erase(w) ==
  /\ h[w].pc \in DOMAIN Scope /\ h[w].page # {}
  /\ Owner(w, "firestore_deleting")
  /\ data' = data \ h[w].page
  /\ h' = [h EXCEPT ![w].page = {}, ![w].pc = IF @ = "linked" THEN @ ELSE After[@]]
  /\ UNCHANGED <<user, mapping, tombstone, op, proof, provider>>

EraseAccountRoot(w) ==
  /\ h[w].pc = "accountRoot" /\ Owner(w, "firestore_deleting")
  /\ data' = data \ Root
  /\ Goto(w, "userTree")
  /\ UNCHANGED <<user, mapping, tombstone, op, proof, provider>>

\* deleteRootUserOwned
EraseUser(w) ==
  /\ h[w].pc = "userRoot" /\ Owner(w, "firestore_deleting")
  /\ user.state # "gone" => UserOwned(w)
  /\ user' = [user EXCEPT !.state = "gone", !.phase = "none", !.fence = NoFence]
  /\ Goto(w, "verify")
  /\ UNCHANGED <<mapping, tombstone, data, op, proof, provider>>

\* assertFirestoreAccountErasureComplete: three reads, one after the other, at
\* the end of the erasure and again before the operation is completed.
VerifyTombstones(w) ==
  /\ h[w].pc = "verify" /\ \A i \in Identities : Tombstoned(i)
  /\ Goto(w, "verifyRoots")
  /\ UNCHANGED stored

VerifyRoots(w) ==
  /\ h[w].pc = "verifyRoots"
  /\ user.state = "gone" /\ Mapped = {} /\ data \cap (Linked \cup Root) = {}
  /\ Goto(w, "verifyTrees")
  /\ UNCHANGED stored

VerifyTrees(w) ==
  /\ h[w].pc = "verifyTrees" /\ data \cap (Account \cup UserTree) = {}
  /\ Goto(w, IF h[w].phase = "firestore_deleting" THEN "advance" ELSE "finish")
  /\ UNCHANGED stored

-----------------------------------------------------------------------------
(* completeDeletion *)

CompleteRead(w) ==
  /\ h[w].pc = "complete" /\ op.phase \in {"remote_deleted", "complete"}
  /\ IF op.phase = "complete" THEN Return(w) ELSE op.customer /\ Copy(w, "verify")
  /\ UNCHANGED stored

Finish(w) ==
  /\ h[w].pc = "finish"
  /\ \/ /\ op.phase = "remote_deleted" /\ op.fence = h[w].fence
        /\ op.customer /\ h[w].customer
        /\ \A i \in Identities : Tombstoned(i)
        /\ op' = [op EXCEPT !.phase = "complete"]
        /\ proof' = TRUE
     \/ op.phase = "complete" /\ UNCHANGED <<op, proof>>
  /\ Return(w)
  /\ UNCHANGED <<user, mapping, tombstone, data, provider>>

-----------------------------------------------------------------------------
(* What ends a handler early *)

\* Where continueDeletion catches an error, it releases the lease.
Caught(w) ==
  \/ h[w].pc \in {"run", "subjects", "beforeDelete", "deleteCustomer", "record",
                  "accountRoot", "userRoot"} \cup DOMAIN Scope
  \/ h[w].pc \in {"verify", "verifyRoots", "verifyTrees"} /\ h[w].phase = "firestore_deleting"

Fail(w) == Caught(w) /\ Goto(w, "release") /\ UNCHANGED stored

\* Any other error is thrown, and a process may die anywhere.
Stop(w) == h[w].pc # "idle" /\ Return(w) /\ UNCHANGED stored

-----------------------------------------------------------------------------
(* Everybody else *)

LeaseExpires ==
  /\ op.phase \in Working /\ op.lease
  /\ op' = [op EXCEPT !.lease = FALSE]
  /\ UNCHANGED <<user, mapping, tombstone, data, proof, provider, h>>

\* Seven days after the erasure began.
MarkExpires ==
  /\ op.mark = "live"
  /\ op' = [op EXCEPT !.mark = "expired"]
  /\ UNCHANGED <<user, mapping, tombstone, data, proof, provider, h>>

\* Firestore's own TTL removes an expired tombstone some time later.
Collect(i) ==
  /\ tombstone[i] /\ op.mark = "expired"
  /\ tombstone' = [tombstone EXCEPT ![i] = FALSE]
  /\ UNCHANGED <<user, mapping, data, op, proof, provider, h>>

\* registerUser: an identity that opens no account opens a new one.
Register(i) ==
  /\ mapping[i] = "none" /\ (tombstone[i] => op.mark = "expired")
  /\ mapping' = [mapping EXCEPT ![i] = "new"]
  /\ tombstone' = [tombstone EXCEPT ![i] = FALSE]
  /\ UNCHANGED <<user, data, op, proof, provider, h>>

\* Every store that adds owned documents asserts the authorization generation.
\* A slip: a provider's event is stored without reading the user.
WriteAllowed_Unread == TRUE
WriteAllowed        == user.state = "active" /\ ~user.deletedAt

AuthorizedWrite(c) ==
  /\ WriteAllowed
  /\ c \in Classes \ {"devices"}
  /\ data' = data \cup {c}
  /\ UNCHANGED <<user, mapping, tombstone, op, proof, provider, h>>

\* FirestoreDeviceStore.touch asks only that the user is not marked deleted.
TouchAllowed == user.state # "gone" /\ ~user.deletedAt

Touch ==
  /\ TouchAllowed
  /\ data' = data \cup {"devices"}
  /\ UNCHANGED <<user, mapping, tombstone, op, proof, provider, h>>

Step(w) ==
  \/ Resume(w) \/ Claim(w) \/ ReadStored(w) \/ Advance(w) \/ Release(w)
  \/ ReadSubjects(w) \/ Subject(w)
  \/ LookUp(w) \/ BeforeDelete(w) \/ DeleteCustomer(w) \/ Record(w)
  \/ Unmap(w) \/ List(w) \/ Erase(w) \/ EraseAccountRoot(w) \/ EraseUser(w)
  \/ VerifyTombstones(w) \/ VerifyRoots(w) \/ VerifyTrees(w)
  \/ CompleteRead(w) \/ Finish(w)

Environment ==
  \/ LeaseExpires \/ MarkExpires \/ Touch
  \/ \E i \in Identities : Collect(i) \/ Register(i)
  \/ \E c \in Classes : AuthorizedWrite(c)

Next == Environment \/ \E w \in Workers : Prepare(w) \/ Step(w) \/ Fail(w) \/ Stop(w)

Spec == Init /\ [][Next]_vars

-----------------------------------------------------------------------------
(* Correctness *)

Pcs == {"idle", "claim", "read", "run", "subjects", "advance", "release", "beforeDelete",
        "deleteCustomer", "record", "linked", "account", "accountRoot", "userTree",
        "userRoot", "verify", "verifyRoots", "verifyTrees", "complete", "finish"}

\* Every document and every handler is well formed.
TypeOK ==
  /\ user \in [state: {"active", "deleting", "gone"}, deletedAt: BOOLEAN,
               phase: Phases, fence: Fence]
  /\ mapping \in [Identities -> {"old", "none", "new"}]
  /\ tombstone \in [Identities -> BOOLEAN]
  /\ data \subseteq Classes
  /\ op \in [phase: Phases, fence: Fence, lease: BOOLEAN, customer: BOOLEAN, mark: Mark]
  /\ proof \in BOOLEAN
  /\ provider \in [revoked: SUBSET Identities, deleted: SUBSET Identities,
                   customer: {"present", "deleted"}]
  /\ h \in [Workers -> [pc: Pcs, phase: Phases, fence: Fence, customer: BOOLEAN,
                        mark: BOOLEAN, todo: SUBSET Identities, page: SUBSET Classes]]

\* A phase is left only when its work is done, whoever did it: past a phase,
\* every subject is signed out, every subject is deleted, the RevenueCat
\* customer is gone, and nothing the account owned is left.
PhasesDidTheirWork ==
  /\ Rank[op.phase] > Rank["sessions_revoking"]   => provider.revoked = Identities
  /\ Rank[op.phase] > Rank["auth_deleting"]       => provider.deleted = Identities
  /\ Rank[op.phase] > Rank["revenuecat_deleting"] => provider.customer = "deleted"
  /\ Rank[op.phase] > Rank["firestore_deleting"]  =>
       user.state = "gone" /\ data = {} /\ Mapped = {}

\* A deletion proof tells the truth for ever: while it exists, no data of the
\* account and no way into it exist.
ProofIsTrue ==
  proof => /\ op.phase = "complete" /\ user.state = "gone" /\ data = {} /\ Mapped = {}
           /\ provider.deleted = Identities /\ provider.customer = "deleted"

\* A phase left, and a proof given, in a well-formed state: whoever resumed the
\* deletion where, the work of what is behind it is done and stays done.
ErasureIsProved == TypeOK /\ PhasesDidTheirWork /\ ProofIsTrue

\* From the transaction that removes an identity's mapping to the end of the
\* seven days there is no moment at which the identity could register again.
IdentityStaysBlocked ==
  \A i \in Identities : mapping[i] # "old" => tombstone[i] \/ op.mark = "expired"

\* A deletion can always be taken up: the user's security slot, if the user is
\* still there, names the operation's phase and fence, so a claim that finds
\* the lease expired is not refused.
Resumable ==
  op.phase \in Working =>
    IF user.state = "gone" THEN op.phase = "firestore_deleting"
    ELSE user.state = "deleting" /\ user.phase = op.phase /\ user.fence = op.fence

\* The deletion leaves an account alone that the identity has opened since: it
\* neither removes its mapping nor blocks it.
NewAccountUntouched ==
  [][\A i \in Identities : mapping[i] = "new" => mapping'[i] = "new" /\ ~tombstone'[i]]_vars

\* Fairness.  The client keeps asking for the status, which is what resumes a
\* deletion; a running handler takes its next step, and ends when it has none.
\* The leases of handlers that have ended run out.
Reject(w) == ~ENABLED Step(w) /\ (IF Caught(w) THEN Fail(w) ELSE Stop(w))
Held      == \E w \in Workers : h[w].pc \notin {"idle", "claim"}

Fairness ==
  /\ \A w \in Workers : WF_vars(Step(w) \/ Reject(w))
  /\ WF_vars(LeaseExpires /\ ~Held)

\* The trouble that any one attempt may meet: a call fails or its answer is
\* lost, the process dies, the work outlives the lease.
Trouble ==
  \/ \E w \in Workers : (Fail(w) \/ Stop(w)) /\ ~Step(w) /\ ENABLED Step(w)
  \/ \E w \in Workers : (Subject(w) \/ DeleteCustomer(w)) /\ h'[w].pc = "release"
  \/ LeaseExpires /\ Held

LiveSpec == Spec /\ Fairness /\ <>[][~Trouble]_vars

\* A deletion that was accepted is completed and proved, whatever happened to
\* its earlier attempts, once attempts stop meeting trouble.
DeletionCompletes == op.phase # "none" ~> proof
=============================================================================
