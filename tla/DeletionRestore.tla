---------------------------- MODULE DeletionRestore ----------------------------
(***************************************************************************)
(* Replaying deletions on a database restored from before them             *)
(* (reconcileOfflineDeletionRestore).  The frozen source's ledger of       *)
(* deletion markers says who was deleted after the restore point; the      *)
(* restored target still has their mappings and their data.  The run       *)
(* checks both databases, erases, checks again, and issues a receipt over  *)
(* a fingerprint of the target.  Meanwhile time passes and either database *)
(* may drift: the freeze is a promise, not a lock.                         *)
(*                                                                         *)
(* A fingerprint is the database it is of.  The erasure of one account's   *)
(* data is one step here; AccountDeletion has its parts.  The key ring     *)
(* holds every key.                                                        *)
(***************************************************************************)
EXTENDS Naturals, FiniteSets

CONSTANTS Identities, Accounts, NoAccount,
          Earliest, RestoreAt, Cutoff,   \* earliestVersionAt, restoreAt, cutoffAt
          TombstoneRetention,            \* ACCOUNT_DELETION_TOMBSTONE_RETENTION_MS
          MaxNow, MaxDrift               \* bounds

ASSUME RestoreAssumption ==
  /\ {Earliest, RestoreAt, Cutoff, TombstoneRetention, MaxNow, MaxDrift} \subseteq Nat
  /\ NoAccount \notin Accounts

VARIABLES
  now,
  ledger,    \* source: deletedAt of each identity's marker, 0 when it has none
  frozen,    \* the ledger when the source was frozen
  target,    \* map: who an identity signs in as; mark: as in the ledger; data: of each account
  restored,  \* the target as it was restored
  pending,   \* databases with a deletion operation under way
  drift,     \* changes nobody should make, so far
  restorer   \* the run

restoreVars == <<now, ledger, frozen, target, restored, pending, drift, restorer>>

NoRestorer ==
  [pc |-> "idle", active |-> {}, owner |-> [i \in Identities |-> NoAccount], todo |-> {},
   doing |-> NoAccount, hash |-> [map |-> <<>>, mark |-> <<>>, data |-> <<>>], unread |-> {}]

Mapped(db, a) == {i \in Identities : db.map[i] = a}

\* A marker of before the restore point was restored, and blocks its identity for its time.
RestoredFrom(db, l) ==
  \A i \in Identities :
    /\ db.mark[i] = IF l[i] \in 1 .. RestoreAt THEN l[i] ELSE 0
    /\ db.map[i] # NoAccount => l[i] = 0 \/ l[i] > RestoreAt \/ l[i] + TombstoneRetention <= RestoreAt

RestoreInit ==
  /\ now = Cutoff
  /\ ledger \in [Identities -> 0 .. Cutoff + 1]
  /\ frozen = ledger
  /\ \E map \in [Identities -> Accounts \cup {NoAccount}] :
       target = [map  |-> map,
                 mark |-> [i \in Identities |-> IF ledger[i] \in 1 .. RestoreAt THEN ledger[i] ELSE 0],
                 data |-> [a \in Accounts |-> IF \E i \in Identities : map[i] = a THEN "live" ELSE "none"]]
  /\ RestoredFrom(target, ledger)
  /\ restored = target
  /\ pending = {} /\ drift = 0
  /\ restorer = NoRestorer

-----------------------------------------------------------------------------
(* What may happen meanwhile *)

NowPasses ==
  /\ now < MaxNow
  /\ now' = now + 1
  /\ UNCHANGED <<ledger, frozen, target, restored, pending, drift, restorer>>

Drift == drift < MaxDrift /\ drift' = drift + 1

DeletionBegins(db) ==
  /\ Drift /\ db \notin pending
  /\ pending' = pending \cup {db}
  /\ UNCHANGED <<now, ledger, frozen, target, restored, restorer>>

DeletionEnds(db) ==
  /\ db \in pending
  /\ pending' = pending \ {db}
  /\ UNCHANGED <<now, ledger, frozen, target, restored, drift, restorer>>

SourceMarks(i) ==
  /\ "source" \in pending /\ ledger[i] # now
  /\ ledger' = [ledger EXCEPT ![i] = now]
  /\ UNCHANGED <<now, frozen, target, restored, pending, drift, restorer>>

\* Someone no marker blocks registers, or links the identity to an open account.
TargetSignsUp(i, a) ==
  /\ Drift /\ target.map[i] = NoAccount /\ target.mark[i] + TombstoneRetention <= now
  /\ target.data[a] = "live" \/ (target.data[a] = "none" /\ restored.data[a] = "none")
  /\ target' = [target EXCEPT !.map[i] = a, !.data[a] = "live"]
  /\ UNCHANGED <<now, ledger, frozen, restored, pending, restorer>>

TargetCollects(i) ==
  /\ target.mark[i] # 0 /\ target.mark[i] + TombstoneRetention <= now
  /\ target' = [target EXCEPT !.mark[i] = 0]
  /\ UNCHANGED <<now, ledger, frozen, restored, pending, drift, restorer>>

-----------------------------------------------------------------------------
(* The run *)

InRun(pc)     == restorer.pc = pc
RunTo(pc)     == restorer' = [restorer EXCEPT !.pc = pc]
RefuseRun    == RunTo("refused")
DatabasesRest == UNCHANGED <<now, ledger, frozen, restored, pending, drift>>
Only       == DatabasesRest /\ UNCHANGED target

InTime_Unbounded == Cutoff <= now   \* slip: a restore point of any age
InTime    == Cutoff <= now /\ RestoreAt <= now /\ now - RestoreAt < TombstoneRetention
Admissible  == InTime /\ Earliest <= RestoreAt /\ RestoreAt <= Cutoff /\ pending = {}
Frozen    == ledger = frozen
InLedger(i) == ledger[i] # 0 /\ ledger[i] + TombstoneRetention > now

\* Controls, pending operations, and the ledger's markers; active is fixed here.
AdmitRun ==
  /\ InRun("idle")
  /\ IF Admissible /\ Frozen /\ \A i \in Identities : ledger[i] <= Cutoff
       THEN restorer' = [restorer EXCEPT !.pc = "map", !.active = {i \in Identities : InLedger(i)}]
       ELSE RefuseRun
  /\ Only

\* Every identity of the account was deleted: none is left that nobody asked to erase.
Complete(a) == Mapped(target, a) \subseteq restorer.active

\* An active marker is of a mapping, or was restored with its mapping already gone.
Accounted(i) == \/ target.map[i] # NoAccount
                \/ target.mark[i] = ledger[i] /\ ledger[i] <= RestoreAt

\* The target is the restored one; whose mappings the markers match.
MatchMappings ==
  /\ InRun("map")
  /\ LET hit == {target.map[i] : i \in restorer.active} \ {NoAccount}
     IN IF /\ target = restored
           /\ \A i \in restorer.active : Accounted(i)
           /\ \A a \in hit : Complete(a)
           /\ \A i \in restorer.active : target.mark[i] \in {0, ledger[i]}
          THEN restorer' = [restorer EXCEPT !.pc = "recheck", !.todo = hit, !.owner = target.map]
          ELSE RefuseRun
  /\ Only

\* Source, target and controls again, right before the first write.
Recheck ==
  /\ InRun("recheck")
  /\ IF Frozen /\ target = restored THEN RunTo("next") ELSE RefuseRun
  /\ Only

\* assertFrozenSource, in every transaction that writes
MayWrite == InTime /\ pending = {} /\ Frozen

NextAccount(a) ==
  /\ InRun("next") /\ a \in restorer.todo
  /\ restorer' = [restorer EXCEPT !.pc = "erase", !.doing = a, !.todo = @ \ {a}]
  /\ Only

Refs(a) == {i \in restorer.active : restorer.owner[i] = a}

\* Markers and the removal of mappings are one transaction, and the account closes with it.
EraseIdentities ==
  /\ InRun("erase")
  /\ LET a == restorer.doing
     IN IF MayWrite /\ Mapped(target, a) \subseteq Refs(a) /\ \A i \in Refs(a) : target.mark[i] \in {0, ledger[i]}
          THEN /\ target' = [target EXCEPT !.map  = [i \in Identities |-> IF @[i] = a THEN NoAccount ELSE @[i]],
                                           !.mark = [i \in Identities |-> IF i \in Refs(a) THEN ledger[i] ELSE @[i]],
                                           !.data[a] = IF @ = "live" THEN "closing" ELSE @]
               /\ RunTo("sweep")
          ELSE RefuseRun /\ UNCHANGED target
  /\ DatabasesRest

EraseData ==
  /\ InRun("sweep")
  /\ IF MayWrite THEN target' = [target EXCEPT !.data[restorer.doing] = "none"] /\ RunTo("verify")
                 ELSE RefuseRun /\ UNCHANGED target
  /\ DatabasesRest

\* assertFirestoreAccountErasureComplete
VerifyErasure ==
  /\ InRun("verify")
  /\ IF /\ Mapped(target, restorer.doing) = {} /\ target.data[restorer.doing] = "none"
        /\ \A i \in Refs(restorer.doing) : target.mark[i] = ledger[i]
       THEN RunTo("next") ELSE RefuseRun
  /\ Only

\* The active markers no mapping matched are written again.
MarkTheRest ==
  /\ InRun("next") /\ restorer.todo = {}
  /\ LET rest == {i \in restorer.active : restorer.owner[i] = NoAccount}
     IN IF rest = {} THEN RunTo("hash") /\ UNCHANGED target
        ELSE IF MayWrite /\ \A i \in rest : target.mark[i] \in {0, ledger[i]}
          THEN target' = [target EXCEPT !.mark = [i \in Identities |-> IF i \in rest THEN ledger[i] ELSE @[i]]] /\ RunTo("hash")
          ELSE RefuseRun /\ UNCHANGED target
  /\ DatabasesRest

Hash ==
  /\ InRun("hash")
  /\ restorer' = [restorer EXCEPT !.pc = "final", !.hash = target, !.unread = {"pending", "ledger", "target"}]
  /\ Only

\* The final reads, in no order.
FinalRead(part) == CASE part = "pending" -> pending = {}
                     [] part = "ledger"  -> Frozen
                     [] part = "target"  -> target = restorer.hash

ReadLast(part) ==
  /\ InRun("final") /\ part \in restorer.unread /\ ("pending" \in restorer.unread => part = "pending")
  /\ restorer' = IF FinalRead(part) THEN [restorer EXCEPT !.unread = @ \ {part}] ELSE [restorer EXCEPT !.pc = "refused"]
  /\ Only

Receipt ==
  /\ InRun("final") /\ restorer.unread = {}
  /\ IF InTime THEN RunTo("reconciled") ELSE RefuseRun
  /\ Only

\* The run dies, or is tried again after a refusal.
Restart ==
  /\ restorer.pc \notin {"idle", "reconciled"}
  /\ restorer' = NoRestorer
  /\ Only

RestoreNext ==
  \/ NowPasses
  \/ \E db \in {"source", "target"} : DeletionBegins(db) \/ DeletionEnds(db)
  \/ \E i \in Identities : SourceMarks(i) \/ TargetCollects(i)
  \/ \E i \in Identities, a \in Accounts : TargetSignsUp(i, a)
  \/ AdmitRun \/ MatchMappings \/ Recheck
  \/ \E a \in Accounts : NextAccount(a)
  \/ EraseIdentities \/ EraseData \/ VerifyErasure \/ MarkTheRest \/ Hash
  \/ \E part \in {"pending", "ledger", "target"} : ReadLast(part)
  \/ Receipt \/ Restart

RestoreSpec == RestoreInit /\ [][RestoreNext]_restoreVars

-----------------------------------------------------------------------------
Later(i)  == frozen[i] > RestoreAt
Doomed    == {restored.map[i] : i \in {j \in Identities : Later(j)}} \ {NoAccount}

(* What a receipt says is true of the target it fingerprints: whoever the  *)
(* frozen ledger says was deleted after the restore point is gone, with a  *)
(* marker of the original time and with the account's data, whatever else  *)
(* drifted; and no account was erased that no marker named, although a run *)
(* that died half way left a target the next run refuses.                  *)
ReceiptIsTrue ==
  /\ restorer.pc = "reconciled" =>
       /\ \A i \in Identities : Later(i) => restorer.hash.map[i] = NoAccount /\ restorer.hash.mark[i] = frozen[i]
       /\ \A a \in Doomed : restorer.hash.data[a] = "none"
  /\ \A a \in Accounts \ Doomed : restored.data[a] = "live" => target.data[a] = "live"
  /\ \A i \in Identities : restored.map[i] # NoAccount /\ ~Later(i) => target.map[i] = restored.map[i]
=============================================================================
