------------------------ MODULE AdoptionPromotionSafety ------------------------
(***************************************************************************)
(* The inductive invariant of the adoption transfer, and what follows from *)
(* it: the staged generation is always an exact prefix of the confirmed    *)
(* merge, and the transfer implements AccountSnapshot.                     *)
(***************************************************************************)
EXTENDS AdoptionPromotionProofs

-----------------------------------------------------------------------------
(* The inductive invariant.                                                *)
(*                                                                         *)
(*  - Numbering: every session has a generation of its own, which nobody   *)
(*    has opened before the session's first apply, and the active          *)
(*    generation is one that was promoted.                                 *)
(*  - Current: a (generation, revision) pair that some request has read is *)
(*    never ahead of the account, and while it is the account's pair the   *)
(*    records read with it, torn or not, are the account's records.        *)
(*  - SessionInv, HandlerInv: preview, decision and apply checkpoint of a  *)
(*    session are about one merge, and a handler that stages works on it.  *)

Numbering ==
  /\ meta.generation \in Promoted
  /\ \A s \in Sessions : op[s].state # "absent" => op[s].target \in 1 .. meta.counter
  /\ \A s, t \in Sessions :
       s # t /\ op[s].state # "absent" /\ op[t].state # "absent" => op[s].target # op[t].target
  /\ \A s \in Sessions :
       op[s].state \notin {"absent", "applying", "complete"} => genDoc[op[s].target].state = "none"
  /\ \A s \in Sessions :
       op[s].state = "applying" => genDoc[op[s].target] = [state |-> "building", source |-> s]
  /\ \A n \in Gens : n > meta.counter => genDoc[n].state = "none"
  /\ \A n \in Gens \ {0} : genDoc[n].state = "none" => progress[n] = EmptySnapshot

Fresh(g, r)      == g \in Promoted /\ (g = meta.generation => r <= meta.revision)
Current(g, r, x) == Fresh(g, r) /\ (SourceIs(g, r) => x = ActiveRecords)

Open      == {"absent", "collecting"}
Previewed == {"preview_ready", "applying", "complete"}

SessionInv(s) ==
  LET o == op[s]
  IN  /\ o.state \notin Open => o.guest \in GuestSnapshots
      /\ o.preview.set <=> o.state \in Previewed
      /\ o.preview.set => Current(o.preview.gen, o.preview.rev, o.preview.recs)
      /\ o.decision.set => /\ o.preview.set
                           /\ o.decision.choices \in Confirmations(o.guest, o.preview.recs)
      /\ o.state \in {"applying", "complete"} => o.decision.set
      /\ o.state = "applying" =>
           /\ o.apply.cursor <= o.apply.total
           /\ o.apply.total = Total(MergeOf(o))
           /\ o.apply.changes =
                Cardinality(Writes(o.guest, o.preview.recs, o.decision.choices))
           /\ o.apply.gen = o.preview.gen
           /\ o.apply.rev = o.preview.rev

ConfirmPcs == {"confirm_meta", "confirm_records", "confirm_decide", "confirm_rows"}
ApplyPcs   == {"apply_meta", "apply_records", "apply_begin", "apply_stage"}

HandlerInv(w) ==
  LET x == h[w]
      o == op[h[w].session]
  IN  /\ x.pc # "idle" => o.state \notin Open
      /\ x.pc \in {"preview_records", "confirm_records", "apply_records"} => Fresh(x.gen, x.rev)
      /\ x.pc \in {"preview_store", "preview_ready"} => Current(x.gen, x.rev, x.recs)
      /\ x.pc \in ConfirmPcs \cup ApplyPcs => o.preview.set
      /\ x.pc \in ConfirmPcs => x.choices \in Confirmations(o.guest, o.preview.recs)
      /\ x.pc \in ApplyPcs => o.decision.set
      /\ x.pc \in {"apply_begin", "apply_stage"} =>
           x.gen = o.preview.gen /\ x.rev = o.preview.rev /\ x.recs = o.preview.recs

IInv ==
  /\ TypeOK
  /\ Numbering
  /\ \A s \in Sessions : SessionInv(s)
  /\ \A w \in Workers : HandlerInv(w)
  /\ StagedPrefix

-----------------------------------------------------------------------------
(* What no step ever takes back *)

\* A session's sealed records, target, preview and decision never change again.
Grows(s) ==
  /\ op[s].state # "absent" => op'[s].state # "absent" /\ op'[s].target = op[s].target
  /\ op[s].state \notin Open => op'[s].state \notin Open /\ op'[s].guest = op[s].guest
  /\ op[s].preview.set => op'[s].preview = op[s].preview
  /\ op[s].decision.set => op'[s].decision = op[s].decision

\* The promotion of session s, and that nothing else completes a session.
Promotes(s)  == \E w \in Workers : h[w].session = s /\ ApplyComplete(w)
Completes(s) == op'[s].state = "complete" => op[s].state = "complete" \/ Promotes(s)

LEMMA SessionsMove ==
  ASSUME TypeOK, [Next]_vars
  PROVE  \A s \in Sessions : Grows(s) /\ Completes(s)
<1>1. ASSUME UNCHANGED op PROVE \A s \in Sessions : Grows(s) /\ Completes(s)
  BY <1>1 DEF Grows, Completes
<1>2. ASSUME NEW s \in Sessions, NEW o, op' = [op EXCEPT ![s] = o],
             /\ op[s].state # "absent" => o.state # "absent" /\ o.target = op[s].target
             /\ op[s].state \notin Open => o.state \notin Open /\ o.guest = op[s].guest
             /\ op[s].preview.set => o.preview = op[s].preview
             /\ op[s].decision.set => o.decision = op[s].decision,
             o.state # "complete" \/ o.state = op[s].state \/ Promotes(s)
      PROVE  \A t \in Sessions : Grows(t) /\ Completes(t)
  <2>1. op \in [Sessions -> Operation]
    BY DEF TypeOK
  <2>2. op'[s] = o /\ \A t \in Sessions \ {s} : op'[t] = op[t]
    BY <1>2, <2>1
  <2> QED  BY <1>2, <2>2 DEF Grows, Completes
<1>3. ASSUME NEW w \in Workers, h[w].pc # "idle"
      PROVE  h[w].session \in Sessions /\ op[h[w].session] \in Operation
  BY <1>3 DEF TypeOK
<1>4. \A s \in Sessions : op[s] \in Operation
  BY DEF TypeOK
<1>5. ASSUME NEW s \in Sessions, StartTransfer(s) PROVE \A t \in Sessions : Grows(t) /\ Completes(t)
  <2> DEFINE o == [op[s] EXCEPT !.state = "collecting", !.expected = meta.generation,
                                !.target = FreshGeneration]
  <2>1. op' = [op EXCEPT ![s] = o] /\ op[s].state = "absent"
    BY <1>5 DEF StartTransfer
  <2>2. o.state = "collecting" /\ o.preview = op[s].preview /\ o.decision = op[s].decision
    BY <1>4 DEF Operation
  <2> HIDE DEF o
  <2> QED  BY <1>2, <2>1, <2>2 DEF Open
<1>6. ASSUME NEW s \in Sessions, SealTransfer(s) PROVE \A t \in Sessions : Grows(t) /\ Completes(t)
  <2>1. PICK g \in GuestSnapshots :
          op' = [op EXCEPT ![s] = [op[s] EXCEPT !.state = "sealed", !.guest = g]]
    BY <1>6 DEF SealTransfer
  <2> DEFINE o == [op[s] EXCEPT !.state = "sealed", !.guest = g]
  <2>2. op' = [op EXCEPT ![s] = o] /\ op[s].state = "collecting"
    BY <1>6, <2>1 DEF SealTransfer
  <2>3. /\ o.state = "sealed" /\ o.target = op[s].target
        /\ o.preview = op[s].preview /\ o.decision = op[s].decision
    BY <1>4 DEF Operation
  <2> HIDE DEF o
  <2> QED  BY <1>2, <2>2, <2>3 DEF Open
<1>7. ASSUME NEW w \in Workers, NEW s \in Sessions, PreviewBegin(w, s)
      PROVE  \A t \in Sessions : Grows(t) /\ Completes(t)
  <2> DEFINE o == [op[s] EXCEPT !.state = "result_building"]
  <2>1. op' = [op EXCEPT ![s] = o]
    BY <1>7 DEF PreviewBegin
  <2>2. /\ o.state = "result_building" /\ o.target = op[s].target /\ o.guest = op[s].guest
        /\ o.preview = op[s].preview /\ o.decision = op[s].decision
    BY <1>4 DEF Operation
  <2> HIDE DEF o
  <2> QED  BY <1>2, <2>1, <2>2 DEF Open
<1>8. ASSUME NEW w \in Workers, PreviewStoreResult(w) PROVE \A t \in Sessions : Grows(t) /\ Completes(t)
  <2> DEFINE s == h[w].session
             o == [op[s] EXCEPT !.result = TRUE]
  <2>1. s \in Sessions /\ op[s] \in Operation
    BY <1>3, <1>8 DEF PreviewStoreResult
  <2>2. op' = op \/ op' = [op EXCEPT ![s] = o]
    BY <1>8 DEF PreviewStoreResult
  <2>3. /\ o.state = op[s].state /\ o.target = op[s].target /\ o.guest = op[s].guest
        /\ o.preview = op[s].preview /\ o.decision = op[s].decision
    BY <2>1 DEF Operation
  <2> HIDE DEF o
  <2> QED  BY <1>1, <1>2, <2>1, <2>2, <2>3
<1>9. ASSUME NEW w \in Workers, PreviewReady(w) PROVE \A t \in Sessions : Grows(t) /\ Completes(t)
  <2> DEFINE s == h[w].session
             o == [op[s] EXCEPT !.state = "preview_ready", !.preview = PreviewOf(w)]
  <2>1. s \in Sessions /\ op[s] \in Operation
    BY <1>3, <1>9 DEF PreviewReady
  <2>2. op' = op \/ (op' = [op EXCEPT ![s] = o] /\ ~op[s].preview.set)
    BY <1>9 DEF PreviewReady
  <2>3. /\ o.state = "preview_ready" /\ o.target = op[s].target /\ o.guest = op[s].guest
        /\ o.decision = op[s].decision
    BY <2>1 DEF Operation
  <2> HIDE DEF o
  <2> QED  BY <1>1, <1>2, <2>1, <2>2, <2>3 DEF Open
<1>10. ASSUME NEW w \in Workers, ConfirmDecide(w) PROVE \A t \in Sessions : Grows(t) /\ Completes(t)
  <2> DEFINE s == h[w].session
             d == [set |-> TRUE, choices |-> h[w].choices]
             o == [op[s] EXCEPT !.decision = d]
  <2>1. s \in Sessions /\ op[s] \in Operation
    BY <1>3, <1>10 DEF ConfirmDecide
  <2>2. op' = [op EXCEPT ![s] = o]
    BY <1>10 DEF ConfirmDecide
  <2>3. op[s].decision.set => op[s].decision = d
    <3>1. ~NoDecision.set
      BY DEF NoDecision
    <3>2. op[s].decision = NoDecision \/ op[s].decision = d
      BY <1>10 DEF ConfirmDecide
    <3> HIDE DEF d
    <3> QED  BY <3>1, <3>2
  <2>4. /\ o.state = op[s].state /\ o.target = op[s].target /\ o.guest = op[s].guest
        /\ o.preview = op[s].preview /\ o.decision = d
    BY <2>1 DEF Operation
  <2> HIDE DEF o, d
  <2> QED  BY <1>2, <2>1, <2>2, <2>3, <2>4
<1>11. ASSUME NEW w \in Workers, NEW chunk \in SUBSET h[w].rows, ConfirmRows(w, chunk)
       PROVE  \A t \in Sessions : Grows(t) /\ Completes(t)
  <2> DEFINE s == h[w].session
             o == [op[s] EXCEPT !.rows = @ \cup chunk]
  <2>1. s \in Sessions /\ op[s] \in Operation
    BY <1>3, <1>11 DEF ConfirmRows
  <2>2. op' = [op EXCEPT ![s] = o]
    BY <1>11 DEF ConfirmRows
  <2>3. /\ o.state = op[s].state /\ o.target = op[s].target /\ o.guest = op[s].guest
        /\ o.preview = op[s].preview /\ o.decision = op[s].decision
    BY <2>1 DEF Operation
  <2> HIDE DEF o
  <2> QED  BY <1>2, <2>1, <2>2, <2>3
<1>12. ASSUME NEW w \in Workers, ApplyBegin(w) PROVE \A t \in Sessions : Grows(t) /\ Completes(t)
  <2> DEFINE s == h[w].session
             a == [cursor  |-> 0, total |-> Total(Merged(w)), changes |-> Changes(w),
                   gen |-> op[s].preview.gen, rev |-> op[s].preview.rev]
             o == [op[s] EXCEPT !.state = "applying", !.apply = a]
  <2>1. s \in Sessions /\ op[s] \in Operation
    BY <1>3, <1>12 DEF ApplyBegin
  <2>2. op' = [op EXCEPT ![s] = o]
    BY <1>12 DEF ApplyBegin
  <2>3. /\ o.state = "applying" /\ o.target = op[s].target /\ o.guest = op[s].guest
        /\ o.preview = op[s].preview /\ o.decision = op[s].decision
    BY <2>1 DEF Operation
  <2> HIDE DEF o, a
  <2> QED  BY <1>2, <2>1, <2>2, <2>3 DEF Open
<1>13. ASSUME NEW w \in Workers, NEW n \in 1 .. Cardinality(Keys), ApplyStage(w, n)
       PROVE  \A t \in Sessions : Grows(t) /\ Completes(t)
  <2> DEFINE s == h[w].session
             a == [op[s].apply EXCEPT !.cursor = n]
             o == [op[s] EXCEPT !.apply = a]
  <2>1. s \in Sessions /\ op[s] \in Operation
    BY <1>3, <1>13 DEF ApplyStage
  <2>2. op' = [op EXCEPT ![s] = o]
    BY <1>13 DEF ApplyStage
  <2> HIDE DEF a
  <2>3. /\ o.state = op[s].state /\ o.target = op[s].target /\ o.guest = op[s].guest
        /\ o.preview = op[s].preview /\ o.decision = op[s].decision
    BY <2>1 DEF Operation
  <2> HIDE DEF o
  <2> QED  BY <1>2, <2>1, <2>2, <2>3
<1>14. ASSUME NEW w \in Workers, ApplyComplete(w) PROVE \A t \in Sessions : Grows(t) /\ Completes(t)
  <2> DEFINE s == h[w].session
             o == [op[s] EXCEPT !.state = "complete"]
  <2>1. s \in Sessions /\ op[s] \in Operation
    BY <1>3, <1>14 DEF ApplyComplete
  <2>2. op' = [op EXCEPT ![s] = o]
    BY <1>14 DEF ApplyComplete
  <2>3. /\ o.state = "complete" /\ o.target = op[s].target /\ o.guest = op[s].guest
        /\ o.preview = op[s].preview /\ o.decision = op[s].decision
    BY <2>1 DEF Operation
  <2>4. Promotes(s)
    BY <1>14 DEF Promotes
  <2> HIDE DEF o
  <2> QED  BY <1>2, <2>1, <2>2, <2>3, <2>4 DEF Open
<1>15. ASSUME NEW w \in Workers, NEW s \in Sessions, Request(w, s)
       PROVE  \A t \in Sessions : Grows(t) /\ Completes(t)
  BY <1>1, <1>7, <1>15 DEF Request, ConfirmRead, ApplyRead
<1>16. ASSUME NEW w \in Workers, ReadStep(w) \/ CommitStep(w) \/ Stop(w)
       PROVE  \A t \in Sessions : Grows(t) /\ Completes(t)
  <2>1. CASE ReadStep(w) \/ Stop(w) \/ ApplyResume(w)
    BY <1>1, <2>1 DEF ReadStep, PreviewReadMeta, PreviewReadRecords, ConfirmReadMeta,
      ConfirmReadRecords, ApplyReadMeta, ApplyReadRecords, ReadMeta, ReadRecords, Stop, ApplyResume
  <2>2. CASE CommitStep(w) /\ ~ApplyResume(w)
    BY <1>8, <1>9, <1>10, <1>11, <1>12, <1>13, <1>14, <2>2 DEF CommitStep
  <2> QED  BY <1>16, <2>1, <2>2
<1>17. CASE AccountStep
  BY <1>1, <1>17 DEF AccountStep, SyncBatch, OneShotAdoption, LeaseExpires, DeleteAccount
<1>18. CASE UNCHANGED vars
  BY <1>1, <1>18 DEF vars
<1> QED  BY <1>5, <1>6, <1>15, <1>16, <1>17, <1>18 DEF Next

LEMMA SessionsGrow ==
  ASSUME TypeOK, [Next]_vars
  PROVE  \A s \in Sessions : Grows(s)
BY SessionsMove

\* What a step may do to the account: nothing; move the revision up within the
\* generation; or leave the generation for one that was never the account's.
AccountSame  == UNCHANGED <<meta.generation, meta.revision, Promoted, ActiveRecords>>
AccountWrite == /\ UNCHANGED <<meta.generation, Promoted>>
                /\ meta'.revision > meta.revision
AccountSwap  == /\ meta'.generation \in Gens \ Promoted
                /\ Promoted' = Promoted \cup {meta'.generation}

\* The steps that change what a client sees of the account.
Synced  == \E vals \in SyncBatches : SyncBatch(vals)
Adopted == \E g \in GuestSnapshots : \E c \in Confirmations(g, ActiveRecords) : OneShotAdoption(g, c)

LEMMA AccountSteps ==
  ASSUME TypeOK, Numbering, [Next]_vars
  PROVE  AccountSame \/ Synced \/ Adopted \/ \E w \in Workers : ApplyComplete(w)
<1> USE BoundAssumption
<1>1. ASSUME UNCHANGED <<meta.generation, meta.revision, progress, genDoc>> PROVE AccountSame
  BY <1>1 DEF AccountSame, Promoted, ActiveRecords
<1>2. ASSUME NEW w \in Workers, h[w].pc # "idle"
      PROVE  /\ h[w].session \in Sessions
             /\ op[h[w].session].target \in Gens
  BY <1>2 DEF TypeOK, Operation
<1>3. ASSUME NEW s \in Sessions, StartTransfer(s) \/ SealTransfer(s) PROVE AccountSame
  <2>1. UNCHANGED <<meta.generation, meta.revision, progress, genDoc>>
    BY <1>3 DEF StartTransfer, SealTransfer, TypeOK
  <2> QED  BY <1>1, <2>1
<1>4. ASSUME NEW w \in Workers, NEW s \in Sessions, Request(w, s) PROVE AccountSame
  BY <1>1, <1>4 DEF Request, PreviewBegin, ConfirmRead, ApplyRead
<1>5. ASSUME NEW w \in Workers, ReadStep(w) \/ Stop(w) PROVE AccountSame
  BY <1>1, <1>5 DEF ReadStep, PreviewReadMeta, PreviewReadRecords, ConfirmReadMeta,
    ConfirmReadRecords, ApplyReadMeta, ApplyReadRecords, ReadMeta, ReadRecords, Stop
<1>6. ASSUME NEW w \in Workers, PreviewStoreResult(w) \/ PreviewReady(w) \/ ConfirmDecide(w)
      PROVE  AccountSame
  BY <1>1, <1>6 DEF PreviewStoreResult, PreviewReady, ConfirmDecide
<1>7. ASSUME NEW w \in Workers, NEW chunk \in SUBSET h[w].rows, ConfirmRows(w, chunk)
      PROVE  AccountSame
  BY <1>1, <1>7 DEF ConfirmRows
<1>8. ASSUME NEW w \in Workers, ApplyBegin(w) PROVE AccountSame
  <2> DEFINE s == h[w].session
  <2>1. s \in Sessions /\ op[s].target \in Gens
    BY <1>2, <1>8 DEF ApplyBegin
  <2>2. genDoc[op[s].target].state = "none"
    BY <1>8, <2>1 DEF ApplyBegin, Numbering
  <2>3. UNCHANGED <<meta.generation, meta.revision, progress>>
    BY <1>8 DEF ApplyBegin, TakeLease, TypeOK
  <2>4. \A n \in Gens : genDoc'[n].state = "active" <=> genDoc[n].state = "active"
    BY <1>8, <2>1, <2>2 DEF ApplyBegin, TypeOK
  <2> QED  BY <2>3, <2>4 DEF AccountSame, Promoted, ActiveRecords
<1>9. ASSUME NEW w \in Workers, ApplyResume(w) PROVE AccountSame
  <2>1. UNCHANGED <<meta.generation, meta.revision, progress, genDoc>>
    BY <1>9 DEF ApplyResume, TypeOK
  <2> QED  BY <1>1, <2>1
<1>10. ASSUME NEW w \in Workers, NEW n \in 1 .. Cardinality(Keys), ApplyStage(w, n)
       PROVE  AccountSame
  <2> DEFINE s == h[w].session
  <2>1. s \in Sessions /\ op[s].target \in Gens
    BY <1>2, <1>10 DEF ApplyStage
  <2>2. op[s].target # meta.generation
    <3>1. op[s].target # 0
      BY <1>10, <2>1 DEF ApplyStage, Numbering
    <3>2. genDoc[op[s].target].state = "building"
      BY <1>10 DEF ApplyStage, GenerationBuilding
    <3> QED  BY <3>1, <3>2 DEF Numbering, Promoted
  <2>3. progress'[meta.generation] = progress[meta.generation]
    BY <1>10, <2>1, <2>2 DEF ApplyStage, TypeOK
  <2> QED  BY <1>10, <2>3 DEF ApplyStage, AccountSame, Promoted, ActiveRecords
<1>11. CASE LeaseExpires \/ DeleteAccount
  <2>1. UNCHANGED <<meta.generation, meta.revision, progress, genDoc>>
    BY <1>11 DEF LeaseExpires, DeleteAccount, TypeOK
  <2> QED  BY <1>1, <2>1
<1>12. CASE UNCHANGED vars
  BY <1>1, <1>12 DEF vars
<1> QED
  BY <1>3, <1>4, <1>5, <1>6, <1>7, <1>8, <1>9, <1>10, <1>11, <1>12
  DEF Next, CommitStep, AccountStep, Synced, Adopted

\* A promotion enters a generation that was never the account's.
LEMMA PromotionSwaps ==
  ASSUME TypeOK, Numbering, NEW w \in Workers, ApplyComplete(w)
  PROVE  AccountSwap
<1> DEFINE s == h[w].session
<1>1. s \in Sessions /\ op[s].target \in Gens
  BY DEF ApplyComplete, TypeOK, Operation
<1>2. op[s].target \notin Promoted
  <2>1. op[s].target # 0
    BY <1>1 DEF ApplyComplete, Numbering
  <2>2. genDoc[op[s].target].state = "building"
    BY DEF ApplyComplete, GenerationBuilding
  <2> QED  BY <2>1, <2>2 DEF Promoted
<1>3. meta'.generation = op[s].target
  BY DEF ApplyComplete, ReleaseLease, TypeOK
<1>4. /\ genDoc'[op[s].target].state = "active"
      /\ \A n \in Gens \ {op[s].target} : genDoc'[n] = genDoc[n]
  BY <1>1 DEF ApplyComplete, TypeOK
<1>5. Promoted' = Promoted \cup {op[s].target}
  BY <1>1, <1>4 DEF Promoted
<1> QED  BY <1>1, <1>2, <1>3, <1>5 DEF AccountSwap

LEMMA AccountMoves ==
  ASSUME TypeOK, Numbering, [Next]_vars
  PROVE  AccountSame \/ AccountWrite \/ AccountSwap
<1>1. AccountSame \/ Synced \/ Adopted \/ \E w \in Workers : ApplyComplete(w)
  BY AccountSteps
<1>2. ASSUME NEW w \in Workers, ApplyComplete(w) PROVE AccountSwap
  BY <1>2, PromotionSwaps
<1>3. ASSUME NEW vals \in SyncBatches, SyncBatch(vals) PROVE AccountWrite
  <2>1. DOMAIN vals \in (SUBSET Keys) \ {{}}
    BY DEF SyncBatches
  <2>2. IsFiniteSet(DOMAIN vals) /\ Cardinality(DOMAIN vals) \in Nat
    BY <2>1, KeyCardinality
  <2>3. Cardinality(DOMAIN vals) > 0
    BY <2>1, <2>2, FS_EmptySet
  <2>4. /\ meta'.generation = meta.generation
        /\ meta'.revision = meta.revision + Cardinality(DOMAIN vals)
    BY <1>3 DEF SyncBatch, TypeOK
  <2>5. meta.revision \in Nat
    BY DEF TypeOK
  <2> QED  BY <1>3, <2>2, <2>3, <2>4, <2>5 DEF SyncBatch, AccountWrite, Promoted
<1>4. ASSUME NEW g \in GuestSnapshots, NEW c \in Confirmations(g, ActiveRecords),
              OneShotAdoption(g, c)
       PROVE  AccountSame \/ AccountWrite
  <2> DEFINE W == Writes(g, ActiveRecords, c)
  <2>1. IsFiniteSet(W) /\ Cardinality(W) \in Nat
    BY WritesAreKeys, KeyCardinality
  <2>2. /\ meta'.generation = meta.generation
        /\ meta'.revision = meta.revision + Cardinality(W)
    BY <1>4 DEF OneShotAdoption, TypeOK
  <2>3. meta.revision \in Nat
    BY DEF TypeOK
  <2>4. CASE W = {}
    <3>1. Cardinality(W) = 0
      BY <2>4, FS_EmptySet
    <3>2. progress[meta.generation] \in Snapshot
      BY DEF TypeOK
    <3>3. Materialize(g, ActiveRecords, c) = ActiveRecords
      BY <2>4, <3>2 DEF Materialize, ActiveRecords, Snapshot
    <3>4. ActiveRecords' = ActiveRecords
      BY <1>4, <2>2, <3>3 DEF OneShotAdoption, ActiveRecords, TypeOK
    <3> QED  BY <1>4, <2>2, <2>3, <3>1, <3>4 DEF OneShotAdoption, AccountSame, Promoted
  <2>5. CASE W # {}
    <3>1. Cardinality(W) > 0
      BY <2>1, <2>5, FS_EmptySet
    <3> QED  BY <1>4, <2>1, <2>2, <2>3, <3>1 DEF OneShotAdoption, AccountWrite, Promoted
  <2> QED  BY <2>4, <2>5
<1> QED  BY <1>1, <1>2, <1>3, <1>4 DEF Synced, Adopted

\* A pair that was read, and the records read with it, stay what Current says.
LEMMA CurrentStable ==
  ASSUME TypeOK, Numbering, [Next]_vars
  PROVE  /\ \A g \in Gens, r \in Nat : Fresh(g, r) => Fresh(g, r)'
         /\ \A x : \A g \in Gens, r \in Nat : Current(g, r, x) => Current(g, r, x)'
<1>1. AccountSame \/ AccountWrite \/ AccountSwap
  BY AccountMoves
<1>2. meta.revision \in Nat /\ meta'.revision \in Nat
  BY StepTypeOK DEF TypeOK
<1> QED  BY <1>1, <1>2 DEF AccountSame, AccountWrite, AccountSwap, Fresh, Current, SourceIs

-----------------------------------------------------------------------------
(* What a step that does not concern a conjunct leaves of it *)

LEMMA NumberingKept ==
  ASSUME Numbering, UNCHANGED <<genDoc, progress, meta.generation, meta.counter>>,
         \A s \in Sessions :
           /\ op'[s].target = op[s].target
           /\ op'[s].state = "absent" <=> op[s].state = "absent"
           /\ op'[s].state = "applying" <=> op[s].state = "applying"
           /\ op'[s].state = "complete" <=> op[s].state = "complete"
  PROVE  Numbering'
BY DEF Numbering, Promoted

LEMMA SessionKept ==
  ASSUME TypeOK, Numbering, [Next]_vars, NEW s \in Sessions, SessionInv(s), op'[s] = op[s]
  PROVE  SessionInv(s)'
<1>1. op[s].preview.gen \in Gens /\ op[s].preview.rev \in Nat
  BY DEF TypeOK, Operation
<1>2. op[s].preview.set =>
        Current(op[s].preview.gen, op[s].preview.rev, op[s].preview.recs)'
  BY <1>1, CurrentStable DEF SessionInv
<1> QED  BY <1>2 DEF SessionInv, MergeOf, Current, Fresh

\* A handler that does not move keeps its invariant whatever the others do.
LEMMA HandlerKept ==
  ASSUME TypeOK, Numbering, [Next]_vars, NEW w \in Workers, HandlerInv(w), h'[w] = h[w]
  PROVE  HandlerInv(w)'
<1>1. CASE h[w].pc = "idle"
  BY <1>1 DEF HandlerInv, ConfirmPcs, ApplyPcs
<1>2. CASE h[w].pc # "idle"
  <2> DEFINE s == h[w].session
  <2>1. s \in Sessions /\ h[w].gen \in Gens /\ h[w].rev \in Nat
    BY <1>2 DEF TypeOK, Handler
  <2>2. Grows(s)
    BY <2>1, SessionsGrow
  <2>3. op[s].state \notin Open
    BY <1>2 DEF HandlerInv
  <2>4. op'[s].state \notin Open /\ op'[s].guest = op[s].guest
    BY <2>2, <2>3 DEF Grows
  <2>5. /\ op[s].preview.set => op'[s].preview = op[s].preview
        /\ op[s].decision.set => op'[s].decision = op[s].decision
    BY <2>2 DEF Grows
  <2>6. /\ Fresh(h[w].gen, h[w].rev) => Fresh(h[w].gen, h[w].rev)'
        /\ Current(h[w].gen, h[w].rev, h[w].recs) => Current(h[w].gen, h[w].rev, h[w].recs)'
    BY <2>1, CurrentStable DEF Fresh, Current, SourceIs, ActiveRecords
  <2>7. h'[w].session = s
    OBVIOUS
  <2> QED  BY <2>4, <2>5, <2>6 DEF HandlerInv, ConfirmPcs, ApplyPcs
<1> QED  BY <1>1, <1>2

LEMMA HandlerReturns ==
  ASSUME NEW w \in Workers, h'[w] = Idle
  PROVE  HandlerInv(w)'
<1>1. h'[w].pc = "idle"
  BY DEF Idle
<1> QED  BY <1>1 DEF HandlerInv, ConfirmPcs, ApplyPcs

\* The staged part of a session's target is still the prefix it was.
LEMMA PrefixKept ==
  ASSUME StagedPrefix, NEW s \in Sessions, Grows(s),
         op'[s].state = "applying" => op[s].state = "applying",
         op[s].state = "applying" =>
           /\ op[s].preview.set /\ op[s].decision.set
           /\ op'[s].apply.cursor = op[s].apply.cursor
           /\ progress'[op[s].target] = progress[op[s].target]
  PROVE  op'[s].state = "applying" =>
           progress'[op'[s].target] =
             [k \in Keys |-> IF k \in Prefix(MergeOf(op'[s]), op'[s].apply.cursor)
                               THEN MergeOf(op'[s])[k] ELSE None]
<1> SUFFICES ASSUME op'[s].state = "applying"
             PROVE  progress'[op'[s].target] =
                      [k \in Keys |-> IF k \in Prefix(MergeOf(op'[s]), op'[s].apply.cursor)
                                        THEN MergeOf(op'[s])[k] ELSE None]
  OBVIOUS
<1>1. /\ op'[s].target = op[s].target
      /\ op'[s].guest = op[s].guest
      /\ op'[s].preview = op[s].preview
      /\ op'[s].decision = op[s].decision
  BY DEF Grows, Open
<1>2. MergeOf(op'[s]) = MergeOf(op[s])
  BY <1>1 DEF MergeOf
<1> QED  BY <1>1, <1>2 DEF StagedPrefix

\* In a step that stages nothing, is no first apply and writes no records.
LEMMA AllPrefixesKept ==
  ASSUME IInv, [Next]_vars,
         UNCHANGED progress,
         \A s \in Sessions : /\ op'[s].state = "applying" => op[s].state = "applying"
                             /\ op'[s].apply.cursor = op[s].apply.cursor
  PROVE  StagedPrefix'
<1>1. \A s \in Sessions : Grows(s)
  BY SessionsGrow DEF IInv
<1>2. \A s \in Sessions : op[s].state = "applying" => op[s].preview.set /\ op[s].decision.set
  BY DEF IInv, SessionInv, Previewed
<1>3. ASSUME NEW s \in Sessions
      PROVE  op'[s].state = "applying" =>
               progress'[op'[s].target] =
                 [k \in Keys |-> IF k \in Prefix(MergeOf(op'[s]), op'[s].apply.cursor)
                                   THEN MergeOf(op'[s])[k] ELSE None]
  BY <1>1, <1>2, PrefixKept DEF IInv
<1> QED  BY <1>3 DEF StagedPrefix, MergeOf, Prefix, Rank

\* A step that changes neither a session nor the numbering.
LEMMA SessionsKept ==
  ASSUME IInv, [Next]_vars,
         UNCHANGED <<op, genDoc, progress, meta.generation, meta.counter>>
  PROVE  Numbering' /\ (\A s \in Sessions : SessionInv(s)') /\ StagedPrefix'
<1>1. Numbering'
  BY NumberingKept DEF IInv
<1>2. \A s \in Sessions : SessionInv(s)'
  BY SessionKept DEF IInv
<1>3. StagedPrefix'
  BY AllPrefixesKept
<1> QED  BY <1>1, <1>2, <1>3

\* A step in which only the handler x moves.
LEMMA HandlersKept ==
  ASSUME IInv, [Next]_vars, NEW x \in Workers, HandlerInv(x)',
         \A w \in Workers \ {x} : h'[w] = h[w]
  PROVE  \A w \in Workers : HandlerInv(w)'
BY HandlerKept DEF IInv

-----------------------------------------------------------------------------
(* The invariant is inductive *)

LEMMA InitIInv == Init => IInv
<1> SUFFICES ASSUME Init PROVE IInv
  OBVIOUS
<1>1. TypeOK
  BY InitTypeOK
<1>2. /\ \A s \in Sessions : op[s] = AbsentOp
      /\ \A w \in Workers : h[w].pc = "idle"
  BY DEF Init, Idle
<1>3. /\ AbsentOp.state = "absent"
      /\ ~AbsentOp.preview.set /\ ~AbsentOp.decision.set
  BY DEF AbsentOp, NoPreview, NoDecision
<1>4. Numbering
  <2>1. meta.generation = 0 /\ \A n \in Gens : genDoc[n].state = "none"
    BY DEF Init
  <2>2. \A n \in Gens \ {0} : progress[n] = EmptySnapshot
    BY DEF Init
  <2> QED  BY <1>2, <1>3, <2>1, <2>2 DEF Numbering, Promoted
<1>5. \A s \in Sessions : SessionInv(s)
  BY <1>2, <1>3 DEF SessionInv, Open, Previewed
<1>6. \A w \in Workers : HandlerInv(w)
  BY <1>2 DEF HandlerInv, ConfirmPcs, ApplyPcs
<1>7. StagedPrefix
  BY <1>2, <1>3 DEF StagedPrefix
<1> QED  BY <1>1, <1>4, <1>5, <1>6, <1>7 DEF IInv

LEMMA StartKeeps ==
  ASSUME IInv, [Next]_vars, NEW s \in Sessions, StartTransfer(s)
  PROVE  IInv'
<1> DEFINE o == [op[s] EXCEPT !.state = "collecting", !.expected = meta.generation,
                              !.target = FreshGeneration]
<1> USE BoundAssumption
<1>1. TypeOK' /\ TypeOK
  BY StepTypeOK DEF IInv
<1>2. op[s] \in Operation /\ op[s].state = "absent"
  BY <1>1 DEF TypeOK, StartTransfer
<1>3. /\ op' = [op EXCEPT ![s] = o]
      /\ meta' = [meta EXCEPT !.counter = FreshGeneration]
      /\ UNCHANGED <<progress, genDoc, h>>
      /\ FreshGeneration <= MaxGen
  BY DEF StartTransfer
<1>4. /\ o.state = "collecting" /\ o.target = FreshGeneration
      /\ o.preview = op[s].preview /\ o.decision = op[s].decision
      /\ o.apply = op[s].apply
  BY <1>2 DEF Operation
<1> HIDE DEF o
<1>5. op'[s] = o /\ \A t \in Sessions \ {s} : op'[t] = op[t]
  BY <1>1, <1>3 DEF TypeOK
<1>6. meta'.counter = FreshGeneration /\ meta'.generation = meta.generation
  BY <1>1, <1>3 DEF TypeOK
<1>7. Numbering'
  <2> HIDE DEF o
  <2>0. Numbering
    BY DEF IInv
  <2>1. /\ meta.counter \in Nat
        /\ FreshGeneration \in Gens /\ FreshGeneration \in Nat
        /\ FreshGeneration > meta.counter
    <3>1. FreshGeneration \in Nat /\ FreshGeneration > meta.counter
      BY <1>1, FreshIsNew
    <3>2. meta.counter \in Nat
      BY <1>1 DEF TypeOK, Gens
    <3> QED  BY <1>3, <3>1, <3>2 DEF Gens
  <2>2. \A t \in Sessions : op'[t].state # "absent" => op'[t].target \in 1 .. meta'.counter
    BY <1>4, <1>5, <1>6, <2>0, <2>1 DEF Numbering
  <2>3. \A t \in Sessions \ {s} : op[t].state # "absent" => op[t].target # FreshGeneration
    BY <2>0, <2>1 DEF Numbering
  <2>4. \A t, u \in Sessions :
          t # u /\ op'[t].state # "absent" /\ op'[u].state # "absent"
            => op'[t].target # op'[u].target
    BY <1>4, <1>5, <2>0, <2>3 DEF Numbering
  <2>5. genDoc[FreshGeneration].state = "none"
    BY <2>0, <2>1 DEF Numbering
  <2>6. ASSUME NEW t \in Sessions
        PROVE  /\ op'[t].state \notin {"absent", "applying", "complete"}
                    => genDoc[op'[t].target].state = "none"
               /\ op'[t].state = "applying"
                    => genDoc[op'[t].target] = [state |-> "building", source |-> t]
    <3>1. CASE t = s
      BY <1>4, <1>5, <2>5, <3>1
    <3>2. CASE t # s
      BY <1>5, <2>0, <3>2 DEF Numbering
    <3> QED  BY <3>1, <3>2
  <2>7. \A n \in Gens : n > FreshGeneration => genDoc[n].state = "none"
    BY <2>0, <2>1 DEF Numbering, Gens
  <2>8. Promoted' = Promoted
    BY <1>3 DEF Promoted
  <2>9. meta'.generation \in Promoted'
    BY <1>6, <2>0, <2>8 DEF Numbering
  <2>10. \A n \in Gens \ {0} : genDoc'[n].state = "none" => progress'[n] = EmptySnapshot
    BY <1>3, <2>0 DEF Numbering
  <2> QED  BY <1>3, <1>6, <2>2, <2>4, <2>6, <2>7, <2>9, <2>10 DEF Numbering
<1>8. ASSUME NEW t \in Sessions PROVE SessionInv(t)'
  <2>1. CASE t = s
    <3>1. ~op[s].preview.set /\ ~op[s].decision.set
      BY <1>2 DEF IInv, SessionInv, Previewed
    <3> QED  BY <1>4, <1>5, <2>1, <3>1 DEF SessionInv, Open, Previewed
  <2>2. CASE t # s
    BY <1>1, <1>5, <2>2, SessionKept DEF IInv
  <2> QED  BY <2>1, <2>2
<1>9. \A w \in Workers : HandlerInv(w)'
  BY <1>1, <1>3, HandlerKept DEF IInv
<1>10. StagedPrefix'
  <2>1. \A t \in Sessions : /\ op'[t].state = "applying" => op[t].state = "applying"
                            /\ op'[t].apply.cursor = op[t].apply.cursor
    BY <1>4, <1>5
  <2> QED  BY <1>3, <2>1, AllPrefixesKept
<1> QED  BY <1>1, <1>7, <1>8, <1>9, <1>10 DEF IInv

LEMMA SealKeeps ==
  ASSUME IInv, [Next]_vars, NEW s \in Sessions, SealTransfer(s)
  PROVE  IInv'
<1>1. TypeOK' /\ TypeOK
  BY StepTypeOK DEF IInv
<1>2. op[s] \in Operation /\ op[s].state = "collecting"
  BY <1>1 DEF TypeOK, SealTransfer
<1>3. PICK g \in GuestSnapshots :
        op' = [op EXCEPT ![s] = [op[s] EXCEPT !.state = "sealed", !.guest = g]]
  BY DEF SealTransfer
<1> DEFINE o == [op[s] EXCEPT !.state = "sealed", !.guest = g]
<1>4. UNCHANGED <<meta, progress, genDoc, h>>
  BY DEF SealTransfer
<1>5. /\ o.state = "sealed" /\ o.target = op[s].target /\ o.guest = g
      /\ o.preview = op[s].preview /\ o.decision = op[s].decision
      /\ o.apply = op[s].apply
  BY <1>2 DEF Operation
<1>6. op' = [op EXCEPT ![s] = o]
  BY <1>3
<1> HIDE DEF o
<1>7. op'[s] = o /\ \A t \in Sessions \ {s} : op'[t] = op[t]
  BY <1>1, <1>6 DEF TypeOK
<1>8. Numbering'
  BY <1>2, <1>4, <1>5, <1>7, NumberingKept DEF IInv
<1>9. ASSUME NEW t \in Sessions PROVE SessionInv(t)'
  <2>1. CASE t = s
    <3>1. ~op[s].preview.set /\ ~op[s].decision.set
      BY <1>2 DEF IInv, SessionInv, Previewed
    <3> QED  BY <1>5, <1>7, <2>1, <3>1 DEF SessionInv, Open, Previewed
  <2>2. CASE t # s
    BY <1>1, <1>7, <2>2, SessionKept DEF IInv
  <2> QED  BY <2>1, <2>2
<1>10. \A w \in Workers : HandlerInv(w)'
  BY <1>1, <1>4, HandlerKept DEF IInv
<1>11. StagedPrefix'
  <2>1. \A t \in Sessions : /\ op'[t].state = "applying" => op[t].state = "applying"
                            /\ op'[t].apply.cursor = op[t].apply.cursor
    BY <1>5, <1>7
  <2> QED  BY <1>4, <2>1, AllPrefixesKept
<1> QED  BY <1>1, <1>8, <1>9, <1>10, <1>11 DEF IInv

\* The handlers that read, return or stop, and the account's own steps.
LEMMA ReadKeeps ==
  ASSUME IInv, [Next]_vars, NEW w \in Workers, ReadStep(w)
  PROVE  IInv'
<1>1. TypeOK' /\ TypeOK
  BY StepTypeOK DEF IInv
<1>2. /\ UNCHANGED <<active, meta, progress, genDoc, op>>
      /\ \A v \in Workers \ {w} : h'[v] = h[v]
  BY <1>1 DEF ReadStep, PreviewReadMeta, PreviewReadRecords, ConfirmReadMeta,
      ConfirmReadRecords, ApplyReadMeta, ApplyReadRecords, ReadMeta, ReadRecords, TypeOK
<1>3. Numbering' /\ (\A s \in Sessions : SessionInv(s)') /\ StagedPrefix'
  BY <1>2, SessionsKept
<1>4. h[w] \in Handler
  BY <1>1 DEF TypeOK
<1>5. ASSUME NEW pc, NEW next, ReadMeta(w, pc, next)
      PROVE  /\ h'[w].pc = next /\ h[w].pc = pc
             /\ h'[w].session = h[w].session /\ h'[w].choices = h[w].choices
             /\ Fresh(h[w].gen, h[w].rev)'
  <2>1. h'[w] = [h[w] EXCEPT !.pc = next, !.gen = meta.generation, !.rev = meta.revision]
    BY <1>1, <1>5 DEF ReadMeta, TypeOK
  <2>2. /\ h'[w].pc = next /\ h'[w].session = h[w].session /\ h'[w].choices = h[w].choices
        /\ h'[w].gen = meta.generation /\ h'[w].rev = meta.revision
    BY <1>4, <2>1 DEF Handler
  <2>3. Fresh(meta.generation, meta.revision)
    BY <1>1 DEF IInv, Numbering, Fresh, TypeOK
  <2>4. Fresh(h[w].gen, h[w].rev)'
    BY <1>2, <2>2, <2>3 DEF Fresh, Promoted
  <2> QED  BY <1>5, <2>2, <2>4 DEF ReadMeta
<1>6. ASSUME NEW pc, NEW next, ReadRecords(w, pc, next)
      PROVE  /\ h'[w].pc = next /\ h[w].pc = pc
             /\ h'[w].session = h[w].session /\ h'[w].choices = h[w].choices
             /\ h'[w].gen = h[w].gen /\ h'[w].rev = h[w].rev
             /\ h'[w].recs = progress[h[w].gen]
  <2>1. h'[w] = [h[w] EXCEPT !.pc = next, !.recs = progress[h[w].gen]]
    BY <1>1, <1>6 DEF ReadRecords, TypeOK
  <2>2. /\ h'[w].pc = next /\ h'[w].session = h[w].session /\ h'[w].choices = h[w].choices
        /\ h'[w].gen = h[w].gen /\ h'[w].rev = h[w].rev
        /\ h'[w].recs = progress[h[w].gen]
    BY <1>4, <2>1 DEF Handler
  <2> QED  BY <1>6, <2>2 DEF ReadRecords
<1>7. HandlerInv(w)'
  <2>1. CASE PreviewReadMeta(w) \/ ConfirmReadMeta(w) \/ ApplyReadMeta(w)
    <3>1. \/ ReadMeta(w, "preview_meta", "preview_records")
          \/ ReadMeta(w, "confirm_meta", "confirm_records")
          \/ ReadMeta(w, "apply_meta", "apply_records")
      BY <2>1 DEF PreviewReadMeta, ConfirmReadMeta, ApplyReadMeta
    <3>2. HandlerInv(w)
      BY DEF IInv
    <3> QED  BY <1>2, <1>5, <3>1, <3>2 DEF HandlerInv, ConfirmPcs, ApplyPcs
  <2>2. CASE PreviewReadRecords(w)
    <3>1. /\ h'[w].pc = "preview_store" /\ h[w].pc = "preview_records"
          /\ h'[w].session = h[w].session
          /\ h'[w].gen = h[w].gen /\ h'[w].rev = h[w].rev
          /\ h'[w].recs = progress[h[w].gen]
      BY <1>6, <2>2 DEF PreviewReadRecords
    <3>2. Fresh(h[w].gen, h[w].rev) /\ op[h[w].session].state \notin Open
      BY <3>1 DEF IInv, HandlerInv
    <3>3. Current(h[w].gen, h[w].rev, h[w].recs)'
      BY <1>2, <3>1, <3>2 DEF Current, Fresh, SourceIs, ActiveRecords, Promoted
    <3> QED  BY <1>2, <3>1, <3>2, <3>3 DEF HandlerInv, ConfirmPcs, ApplyPcs
  <2>3. CASE ConfirmReadRecords(w)
    <3>1. /\ h'[w].pc = "confirm_decide" /\ h[w].pc = "confirm_records"
          /\ h'[w].session = h[w].session /\ h'[w].choices = h[w].choices
      BY <1>6, <2>3 DEF ConfirmReadRecords
    <3> QED  BY <1>2, <3>1 DEF IInv, HandlerInv, ConfirmPcs, ApplyPcs
  <2>4. CASE ApplyReadRecords(w)
    <3>1. /\ h'[w].pc = "apply_begin" /\ h[w].pc = "apply_records"
          /\ h'[w].session = h[w].session /\ h'[w].choices = h[w].choices
          /\ h'[w].gen = h[w].gen /\ h'[w].rev = h[w].rev
      BY <1>6, <2>4 DEF ApplyReadRecords
    <3>2. LET p == op[h[w].session].preview
          IN  h[w].gen = p.gen /\ h'[w].rev = p.rev /\ h'[w].recs = p.recs
      BY <2>4 DEF ApplyReadRecords, SamePreview, PreviewOf
    <3> QED  BY <1>2, <3>1, <3>2 DEF IInv, HandlerInv, ConfirmPcs, ApplyPcs
  <2> QED  BY <2>1, <2>2, <2>3, <2>4 DEF ReadStep
<1> QED  BY <1>1, <1>2, <1>3, <1>7, HandlersKept DEF IInv

LEMMA RequestKeeps ==
  ASSUME IInv, [Next]_vars, NEW w \in Workers, NEW s \in Sessions, Request(w, s)
  PROVE  IInv'
<1>1. TypeOK' /\ TypeOK
  BY StepTypeOK DEF IInv
<1>2. UNCHANGED <<meta, progress, genDoc>>
  BY DEF Request, PreviewBegin, ConfirmRead, ApplyRead
<1>3. Idle \in Handler
  BY IdleType
<1>4. ASSUME NEW v \in Workers, v # w PROVE h'[v] = h[v]
  BY <1>1, <1>4 DEF Request, PreviewBegin, ConfirmRead, ApplyRead, TypeOK
<1>5. CASE PreviewBegin(w, s)
  <2> DEFINE o == [op[s] EXCEPT !.state = "result_building"]
  <2>1. op' = [op EXCEPT ![s] = o] /\ op[s].state \in {"sealed", "result_building"}
    BY <1>5 DEF PreviewBegin
  <2>2. op[s] \in Operation
    BY <1>1 DEF TypeOK
  <2>3. /\ o.state = "result_building" /\ o.target = op[s].target /\ o.guest = op[s].guest
        /\ o.preview = op[s].preview /\ o.decision = op[s].decision
        /\ o.apply = op[s].apply
    BY <2>2 DEF Operation
  <2> HIDE DEF o
  <2>4. op'[s] = o /\ \A t \in Sessions \ {s} : op'[t] = op[t]
    BY <1>1, <2>1 DEF TypeOK
  <2>5. Numbering'
    BY <1>2, <2>1, <2>3, <2>4, NumberingKept DEF IInv
  <2>6. ASSUME NEW t \in Sessions PROVE SessionInv(t)'
    <3>1. CASE t = s
      <4>1. /\ ~op[s].preview.set /\ ~op[s].decision.set
            /\ op[s].guest \in GuestSnapshots
        BY <2>1 DEF IInv, SessionInv, Previewed, Open
      <4> QED  BY <2>3, <2>4, <3>1, <4>1 DEF SessionInv, Open, Previewed
    <3>2. CASE t # s
      BY <1>1, <2>4, <3>2, SessionKept DEF IInv
    <3> QED  BY <3>1, <3>2
  <2>7. StagedPrefix'
    <3>1. \A t \in Sessions : /\ op'[t].state = "applying" => op[t].state = "applying"
                              /\ op'[t].apply.cursor = op[t].apply.cursor
      BY <2>3, <2>4
    <3> QED  BY <1>2, <3>1, AllPrefixesKept
  <2>8. HandlerInv(w)'
    <3>1. h'[w] = [Idle EXCEPT !.pc = "preview_meta", !.session = s]
      BY <1>1, <1>5 DEF PreviewBegin, TypeOK
    <3>2. h'[w].pc = "preview_meta" /\ h'[w].session = s
      BY <1>3, <3>1 DEF Handler
    <3>3. op'[s].state \notin Open
      BY <2>3, <2>4 DEF Open
    <3> QED  BY <3>2, <3>3 DEF HandlerInv, ConfirmPcs, ApplyPcs
  <2> QED  BY <1>1, <1>4, <2>5, <2>6, <2>7, <2>8, HandlersKept DEF IInv
<1>6. ASSUME NEW c \in Confirmations(op[s].guest, op[s].preview.recs), ConfirmRead(w, s, c)
      PROVE  IInv'
  <2>1. Numbering' /\ (\A t \in Sessions : SessionInv(t)') /\ StagedPrefix'
    BY <1>2, <1>6, SessionsKept DEF ConfirmRead
  <2>2. HandlerInv(w)'
    <3> DEFINE pc == IF op[s].decision.set THEN "confirm_decide" ELSE "confirm_meta"
               rows == DecisionRows(op[s].guest, op[s].preview.recs)
    <3>1. h'[w] = [Idle EXCEPT !.pc = pc, !.session = s, !.choices = c, !.rows = rows]
      BY <1>1, <1>6 DEF ConfirmRead, TypeOK
    <3> HIDE DEF pc, rows
    <3>2. h'[w].pc = pc /\ h'[w].session = s /\ h'[w].choices = c
      BY <1>3, <3>1 DEF Handler
    <3>3. pc \in {"confirm_decide", "confirm_meta"}
      BY DEF pc
    <3>4. op[s].preview.set /\ op[s].state \notin Open
      BY <1>6 DEF ConfirmRead, IInv, SessionInv, Previewed, Open
    <3>5. op' = op
      BY <1>6 DEF ConfirmRead
    <3> QED  BY <3>2, <3>3, <3>4, <3>5 DEF HandlerInv, ConfirmPcs, ApplyPcs
  <2> QED  BY <1>1, <1>4, <2>1, <2>2, HandlersKept DEF IInv
<1>7. CASE ApplyRead(w, s)
  <2>1. Numbering' /\ (\A t \in Sessions : SessionInv(t)') /\ StagedPrefix'
    BY <1>2, <1>7, SessionsKept DEF ApplyRead
  <2>2. HandlerInv(w)'
    <3>1. h'[w] = [Idle EXCEPT !.pc = "apply_meta", !.session = s]
      BY <1>1, <1>7 DEF ApplyRead, TypeOK
    <3>2. h'[w].pc = "apply_meta" /\ h'[w].session = s
      BY <1>3, <3>1 DEF Handler
    <3>3. op[s].preview.set /\ op[s].decision.set /\ op[s].state \notin Open
      BY <1>7 DEF ApplyRead, IInv, SessionInv, Previewed, Open
    <3>4. op' = op
      BY <1>7 DEF ApplyRead
    <3> QED  BY <3>2, <3>3, <3>4 DEF HandlerInv, ConfirmPcs, ApplyPcs
  <2> QED  BY <1>1, <1>4, <2>1, <2>2, HandlersKept DEF IInv
<1> QED  BY <1>5, <1>6, <1>7 DEF Request

LEMMA StopKeeps ==
  ASSUME IInv, [Next]_vars, NEW w \in Workers, Stop(w)
  PROVE  IInv'
<1>1. TypeOK' /\ TypeOK
  BY StepTypeOK DEF IInv
<1>2. h'[w] = Idle /\ \A v \in Workers \ {w} : h'[v] = h[v]
  <2>1. Return(w)
    BY DEF Stop
  <2> QED  BY <1>1, <2>1, ReturnEffect
<1>3. Numbering' /\ (\A t \in Sessions : SessionInv(t)') /\ StagedPrefix'
  BY SessionsKept DEF Stop
<1> QED  BY <1>1, <1>2, <1>3, HandlerReturns, HandlersKept DEF IInv

LEMMA PreviewKeeps ==
  ASSUME IInv, [Next]_vars, NEW w \in Workers, PreviewStoreResult(w) \/ PreviewReady(w)
  PROVE  IInv'
<1> DEFINE s == h[w].session
<1>1. TypeOK' /\ TypeOK
  BY StepTypeOK DEF IInv
<1>2. /\ s \in Sessions /\ op[s] \in Operation /\ h[w] \in Handler
      /\ HandlerInv(w) /\ SessionInv(s)
  BY <1>1 DEF TypeOK, PreviewStoreResult, PreviewReady, IInv
<1>3. UNCHANGED <<meta, progress, genDoc>>
  BY DEF PreviewStoreResult, PreviewReady
<1>4. \A v \in Workers \ {w} : h'[v] = h[v]
  <2>1. (\E pc : Goto(w, pc)) \/ Return(w)
    BY DEF PreviewStoreResult, PreviewReady
  <2> QED  BY <1>1, <2>1, ReturnEffect, GotoEffect
<1>5. Current(h[w].gen, h[w].rev, h[w].recs) /\ op[s].state \notin Open
  BY <1>2 DEF HandlerInv, PreviewStoreResult, PreviewReady
<1>6. CASE PreviewStoreResult(w)
  <2> DEFINE o == [op[s] EXCEPT !.result = TRUE]
  <2>1. op' = op \/ op' = [op EXCEPT ![s] = o]
    BY <1>6 DEF PreviewStoreResult
  <2>2. /\ o.state = op[s].state /\ o.target = op[s].target /\ o.guest = op[s].guest
        /\ o.preview = op[s].preview /\ o.decision = op[s].decision
        /\ o.apply = op[s].apply
    BY <1>2 DEF Operation
  <2> HIDE DEF o
  <2>3. \A t \in Sessions :
          /\ op'[t].state = op[t].state /\ op'[t].target = op[t].target
          /\ op'[t].guest = op[t].guest /\ op'[t].preview = op[t].preview
          /\ op'[t].decision = op[t].decision /\ op'[t].apply = op[t].apply
    BY <1>1, <1>2, <2>1, <2>2 DEF TypeOK
  <2>4. Numbering'
    BY <1>3, <2>3, NumberingKept DEF IInv
  <2>5. ASSUME NEW t \in Sessions PROVE SessionInv(t)'
    <3>1. op[t].preview.set =>
            Current(op[t].preview.gen, op[t].preview.rev, op[t].preview.recs)'
      BY <1>3, <2>3 DEF IInv, SessionInv, Current, Fresh, SourceIs, Promoted, ActiveRecords
    <3>2. SessionInv(t)
      BY DEF IInv
    <3> QED  BY <2>3, <3>1, <3>2 DEF SessionInv, MergeOf, Current, Fresh, SourceIs
  <2>6. StagedPrefix'
    BY <1>3, <2>3, AllPrefixesKept
  <2>7. HandlerInv(w)'
    <3>1. h'[w] = [h[w] EXCEPT !.pc = "preview_ready"]
      BY <1>1, <1>6 DEF PreviewStoreResult, Goto, TypeOK
    <3>2. /\ h'[w].pc = "preview_ready" /\ h'[w].session = s
          /\ h'[w].gen = h[w].gen /\ h'[w].rev = h[w].rev /\ h'[w].recs = h[w].recs
      BY <1>2, <3>1 DEF Handler
    <3>3. Current(h[w].gen, h[w].rev, h[w].recs)'
      BY <1>3, <1>5, <3>2 DEF Current, Fresh, SourceIs, Promoted, ActiveRecords
    <3>4. op'[s].state \notin Open
      BY <1>2, <1>5, <2>3
    <3> QED  BY <3>2, <3>3, <3>4 DEF HandlerInv, ConfirmPcs, ApplyPcs
  <2> QED  BY <1>1, <1>4, <2>4, <2>5, <2>6, <2>7, HandlersKept DEF IInv
<1>7. CASE PreviewReady(w) /\ op' = op
  <2>1. Numbering' /\ (\A t \in Sessions : SessionInv(t)') /\ StagedPrefix'
    BY <1>3, <1>7, SessionsKept
  <2>2. h'[w] = Idle
    <3>1. Return(w)
      BY <1>7 DEF PreviewReady
    <3> QED  BY <1>1, <3>1, ReturnEffect
  <2> QED  BY <1>1, <1>4, <2>1, <2>2, HandlerReturns, HandlersKept DEF IInv
<1>8. CASE PreviewReady(w) /\ op' # op
  <2> DEFINE o == [op[s] EXCEPT !.state = "preview_ready", !.preview = PreviewOf(w)]
  <2>1. op' = [op EXCEPT ![s] = o] /\ ~op[s].preview.set /\ op[s].state = "result_building"
    BY <1>8 DEF PreviewReady
  <2>2. /\ o.state = "preview_ready" /\ o.target = op[s].target /\ o.guest = op[s].guest
        /\ o.preview = PreviewOf(w) /\ o.decision = op[s].decision
        /\ o.apply = op[s].apply
    BY <1>2 DEF Operation
  <2> HIDE DEF o
  <2>3. op'[s] = o /\ \A t \in Sessions \ {s} : op'[t] = op[t]
    BY <1>1, <1>2, <2>1 DEF TypeOK
  <2>4. Numbering'
    BY <1>2, <1>3, <2>1, <2>2, <2>3, NumberingKept DEF IInv
  <2>5. ASSUME NEW t \in Sessions PROVE SessionInv(t)'
    <3>1. CASE t = s
      <4>1. /\ PreviewOf(w).set /\ PreviewOf(w).gen = h[w].gen
            /\ PreviewOf(w).rev = h[w].rev /\ PreviewOf(w).recs = h[w].recs
        BY DEF PreviewOf
      <4>2. PICK g \in Gens, r \in Nat, x \in Snapshot :
              g = h[w].gen /\ r = h[w].rev /\ x = h[w].recs
        BY <1>2 DEF Handler
      <4>3. ~op[s].decision.set /\ op[s].guest \in GuestSnapshots
        BY <1>2, <2>1 DEF SessionInv, Previewed, Open
      <4>4. Current(g, r, x)'
        BY <1>1, <1>5, <4>2, CurrentStable DEF IInv
      <4>5. op'[s].preview.gen = g /\ op'[s].preview.rev = r /\ op'[s].preview.recs = x
        BY <2>2, <2>3, <4>1, <4>2
      <4>6. Current(op[t].preview.gen, op[t].preview.rev, op[t].preview.recs)'
        BY <3>1, <4>4, <4>5 DEF Current, Fresh, SourceIs
      <4> QED  BY <2>2, <2>3, <3>1, <4>1, <4>3, <4>6 DEF SessionInv, Open, Previewed
    <3>2. CASE t # s
      BY <1>1, <2>3, <3>2, SessionKept DEF IInv
    <3> QED  BY <3>1, <3>2
  <2>6. StagedPrefix'
    <3>1. \A t \in Sessions : /\ op'[t].state = "applying" => op[t].state = "applying"
                              /\ op'[t].apply.cursor = op[t].apply.cursor
      BY <2>2, <2>3
    <3> QED  BY <1>3, <3>1, AllPrefixesKept
  <2>7. h'[w] = Idle
    <3>1. Return(w)
      BY <1>8 DEF PreviewReady
    <3> QED  BY <1>1, <3>1, ReturnEffect
  <2> QED  BY <1>1, <1>4, <2>4, <2>5, <2>6, <2>7, HandlerReturns, HandlersKept DEF IInv
<1> QED  BY <1>6, <1>7, <1>8

LEMMA ConfirmKeeps ==
  ASSUME IInv, [Next]_vars, NEW w \in Workers,
         ConfirmDecide(w) \/ \E chunk \in SUBSET h[w].rows : ConfirmRows(w, chunk)
  PROVE  IInv'
<1>1. TypeOK' /\ TypeOK
  BY StepTypeOK DEF IInv
<1>2. PICK s \in Sessions : s = h[w].session
  BY <1>1 DEF TypeOK, ConfirmDecide, ConfirmRows
<1>3. /\ op[s] \in Operation /\ h[w] \in Handler
      /\ HandlerInv(w) /\ SessionInv(s)
  BY <1>1 DEF TypeOK, IInv
<1>4. UNCHANGED <<meta, progress, genDoc>>
  BY DEF ConfirmDecide, ConfirmRows
<1>5. \A v \in Workers \ {w} : h'[v] = h[v]
  <2>1. CASE ConfirmDecide(w)
    <3>1. Goto(w, "confirm_rows")
      BY <2>1 DEF ConfirmDecide
    <3> QED  BY <1>1, <3>1, GotoEffect
  <2>2. ASSUME NEW chunk \in SUBSET h[w].rows, ConfirmRows(w, chunk)
        PROVE  \A v \in Workers \ {w} : h'[v] = h[v]
    <3>1. Return(w) \/ h' = [h EXCEPT ![w].rows = @ \ chunk]
      BY <2>2 DEF ConfirmRows
    <3>2. h \in [Workers -> Handler]
      BY <1>1 DEF TypeOK
    <3> QED  BY <1>1, <3>1, <3>2, ReturnEffect
  <2> QED  BY <2>1, <2>2
<1>6. /\ op[s].preview.set /\ op[s].state \notin Open
      /\ h[w].choices \in Confirmations(op[s].guest, op[s].preview.recs)
  BY <1>2, <1>3 DEF HandlerInv, ConfirmDecide, ConfirmRows, ConfirmPcs
<1>7. CASE ConfirmDecide(w)
  <2> DEFINE d == [set |-> TRUE, choices |-> h[w].choices]
             o == [op[s] EXCEPT !.decision = d]
  <2>1. op' = [op EXCEPT ![s] = o] /\ (op[s].decision = NoDecision \/ op[s].decision = d)
    BY <1>2, <1>7 DEF ConfirmDecide
  <2>2. d.set /\ d.choices = h[w].choices /\ ~NoDecision.set
    BY DEF NoDecision
  <2> HIDE DEF d
  <2>3. /\ o.state = op[s].state /\ o.target = op[s].target /\ o.guest = op[s].guest
        /\ o.preview = op[s].preview /\ o.decision = d /\ o.apply = op[s].apply
    BY <1>3 DEF Operation
  <2> HIDE DEF o
  <2>4. op'[s] = o /\ \A t \in Sessions \ {s} : op'[t] = op[t]
    BY <1>1, <1>2, <2>1 DEF TypeOK
  <2>5. Numbering'
    BY <1>4, <2>3, <2>4, NumberingKept DEF IInv
  <2>6. ASSUME NEW t \in Sessions PROVE SessionInv(t)'
    <3>1. CASE t = s
      <4>1. op[s].decision.set => op[s].decision = d
        BY <2>1, <2>2
      <4>2. Current(op[t].preview.gen, op[t].preview.rev, op[t].preview.recs)'
        BY <1>3, <1>4, <1>6, <2>3, <2>4, <3>1
        DEF SessionInv, Current, Fresh, SourceIs, Promoted, ActiveRecords
      <4>3. op[s].state \in {"applying", "complete"} => op[s].decision = d
        BY <1>3, <4>1 DEF SessionInv
      <4>4. op[s].state = "applying" => MergeOf(o) = MergeOf(op[s])
        BY <2>3, <4>3 DEF MergeOf
      <4> QED  BY <1>3, <1>6, <2>2, <2>3, <2>4, <3>1, <4>2, <4>3, <4>4 DEF SessionInv
    <3>2. CASE t # s
      BY <1>1, <2>4, <3>2, SessionKept DEF IInv
    <3> QED  BY <3>1, <3>2
  <2>7. StagedPrefix'
    <3>1. \A t \in Sessions : /\ op'[t].state = "applying" => op[t].state = "applying"
                              /\ op'[t].apply.cursor = op[t].apply.cursor
      BY <2>3, <2>4
    <3> QED  BY <1>4, <3>1, AllPrefixesKept
  <2>8. HandlerInv(w)'
    <3>1. h'[w] = [h[w] EXCEPT !.pc = "confirm_rows"]
      BY <1>1, <1>7 DEF ConfirmDecide, Goto, TypeOK
    <3>2. h'[w].pc = "confirm_rows" /\ h'[w].session = s /\ h'[w].choices = h[w].choices
      BY <1>2, <1>3, <3>1 DEF Handler
    <3> QED  BY <1>6, <2>3, <2>4, <3>2 DEF HandlerInv, ConfirmPcs, ApplyPcs
  <2> QED  BY <1>1, <1>5, <2>5, <2>6, <2>7, <2>8, HandlersKept DEF IInv
<1>8. ASSUME NEW chunk \in SUBSET h[w].rows, ConfirmRows(w, chunk) PROVE IInv'
  <2> DEFINE rows == op[s].rows \cup chunk
             o == [op[s] EXCEPT !.rows = rows]
  <2>1. op' = [op EXCEPT ![s] = o]
    BY <1>2, <1>8 DEF ConfirmRows
  <2> HIDE DEF rows
  <2>2. /\ o.state = op[s].state /\ o.target = op[s].target /\ o.guest = op[s].guest
        /\ o.preview = op[s].preview /\ o.decision = op[s].decision /\ o.apply = op[s].apply
    BY <1>3 DEF Operation
  <2> HIDE DEF o
  <2>3. op'[s] = o /\ \A t \in Sessions \ {s} : op'[t] = op[t]
    BY <1>1, <1>2, <2>1 DEF TypeOK
  <2>4. Numbering'
    BY <1>4, <2>2, <2>3, NumberingKept DEF IInv
  <2>5. ASSUME NEW t \in Sessions PROVE SessionInv(t)'
    <3>1. CASE t = s
      <4>1. Current(op[t].preview.gen, op[t].preview.rev, op[t].preview.recs)'
        BY <1>3, <1>4, <1>6, <2>2, <2>3, <3>1
        DEF SessionInv, Current, Fresh, SourceIs, Promoted, ActiveRecords
      <4>2. MergeOf(o) = MergeOf(op[s])
        BY <2>2 DEF MergeOf
      <4> QED  BY <1>3, <2>2, <2>3, <3>1, <4>1, <4>2 DEF SessionInv
    <3>2. CASE t # s
      BY <1>1, <2>3, <3>2, SessionKept DEF IInv
    <3> QED  BY <3>1, <3>2
  <2>6. StagedPrefix'
    <3>1. \A t \in Sessions : /\ op'[t].state = "applying" => op[t].state = "applying"
                              /\ op'[t].apply.cursor = op[t].apply.cursor
      BY <2>2, <2>3
    <3> QED  BY <1>4, <3>1, AllPrefixesKept
  <2>7. HandlerInv(w)'
    <3>1. CASE Return(w)
      <4>1. h'[w] = Idle
        BY <1>1, <3>1, ReturnEffect
      <4> QED  BY <4>1, HandlerReturns
    <3>2. CASE h' = [h EXCEPT ![w].rows = @ \ chunk]
      <4> DEFINE left == h[w].rows \ chunk
      <4>1. h'[w] = [h[w] EXCEPT !.rows = left]
        BY <1>1, <3>2 DEF TypeOK
      <4> HIDE DEF left
      <4>2. h'[w].pc = "confirm_rows" /\ h'[w].session = s /\ h'[w].choices = h[w].choices
        BY <1>2, <1>3, <1>8, <4>1 DEF Handler, ConfirmRows
      <4> QED  BY <1>6, <2>2, <2>3, <4>2 DEF HandlerInv, ConfirmPcs, ApplyPcs
    <3> QED  BY <1>8, <3>1, <3>2 DEF ConfirmRows
  <2> QED  BY <1>1, <1>5, <2>4, <2>5, <2>6, <2>7, HandlersKept DEF IInv
<1> QED  BY <1>7, <1>8

\* A writer of the active generation touches no session's target.
LEMMA WriterKeeps ==
  ASSUME IInv, [Next]_vars, UNCHANGED <<genDoc, op, h, meta.generation, meta.counter>>,
         \A n \in Gens \ {meta.generation} : progress'[n] = progress[n]
  PROVE  IInv'
<1>1. TypeOK' /\ TypeOK /\ Numbering
  BY StepTypeOK DEF IInv
<1>2. Numbering'
  BY <1>1 DEF Numbering, Promoted
<1>3. \A s \in Sessions : SessionInv(s)'
  BY <1>1, SessionKept DEF IInv
<1>4. \A w \in Workers : HandlerInv(w)'
  BY <1>1, HandlerKept DEF IInv
<1>5. ASSUME NEW s \in Sessions, op[s].state = "applying"
      PROVE  progress'[op[s].target] = progress[op[s].target]
  <2>1. op[s].target \in Gens /\ op[s].target # 0
    <3>1. op[s] \in Operation
      BY <1>1 DEF TypeOK
    <3>2. op[s].target \in 1 .. meta.counter
      BY <1>1, <1>5 DEF Numbering
    <3> QED  BY <3>1, <3>2 DEF Operation
  <2>2. genDoc[op[s].target].state = "building"
    <3>1. genDoc[op[s].target] = [state |-> "building", source |-> s]
      BY <1>1, <1>5 DEF Numbering
    <3> QED  BY <3>1
  <2>3. op[s].target # meta.generation
    BY <1>1, <2>1, <2>2 DEF Numbering, Promoted
  <2> QED  BY <2>1, <2>3
<1>6. StagedPrefix'
  BY <1>5 DEF IInv, StagedPrefix, MergeOf
<1> QED  BY <1>1, <1>2, <1>3, <1>4, <1>6 DEF IInv

LEMMA AccountKeeps ==
  ASSUME IInv, [Next]_vars, AccountStep
  PROVE  IInv'
<1>1. TypeOK
  BY DEF IInv
<1>2. ASSUME NEW vals \in SyncBatches, SyncBatch(vals) PROVE IInv'
  <2>1. /\ UNCHANGED <<genDoc, op, h, meta.generation, meta.counter>>
        /\ \A n \in Gens \ {meta.generation} : progress'[n] = progress[n]
    BY <1>1, <1>2 DEF SyncBatch, TypeOK
  <2> QED  BY <2>1, WriterKeeps
<1>3. ASSUME NEW g \in GuestSnapshots, NEW c \in Confirmations(g, ActiveRecords),
             OneShotAdoption(g, c)
      PROVE  IInv'
  <2>1. /\ UNCHANGED <<genDoc, op, h, meta.generation, meta.counter>>
        /\ \A n \in Gens \ {meta.generation} : progress'[n] = progress[n]
    BY <1>1, <1>3 DEF OneShotAdoption, TypeOK
  <2> QED  BY <2>1, WriterKeeps
<1>4. CASE LeaseExpires \/ DeleteAccount
  <2>1. UNCHANGED <<progress, genDoc, op, h, meta.generation, meta.counter>>
    BY <1>1, <1>4 DEF LeaseExpires, DeleteAccount, TypeOK
  <2> QED  BY <2>1, WriterKeeps
<1> QED  BY <1>2, <1>3, <1>4 DEF AccountStep

\* The cursor walks through the present keys: nothing at 0, more and more, all
\* of them at the total.
LEMMA PrefixFacts ==
  ASSUME NEW m
  PROVE  /\ Prefix(m, 0) = {}
         /\ \A i, n \in Nat : i <= n => Prefix(m, i) \subseteq Prefix(m, n)
         /\ Prefix(m, Total(m)) = {k \in Keys : Present(m, k)}
<1>1. \A k : Rank(m, k) \in Nat
  BY TotalType
<1>2. ASSUME NEW k \in Keys, Present(m, k) PROVE Rank(m, k) < Total(m)
  <2> DEFINE P == {j \in Keys : Present(m, j)}
             B == {j \in Keys : Present(m, j) /\ KeyRank[j] < KeyRank[k]}
  <2>1. P \in SUBSET Keys /\ B \in SUBSET P
    OBVIOUS
  <2>2. k \in P /\ k \notin B
    BY <1>2, RankAssumption
  <2> HIDE DEF P, B
  <2>3. Cardinality(B) < Cardinality(P)
    BY <2>1, <2>2, KeyCardinality
  <2> QED  BY <2>3 DEF P, B, Rank, Total
<1>3. Prefix(m, 0) = {}
  BY <1>1 DEF Prefix
<1>4. \A i, n \in Nat : i <= n => Prefix(m, i) \subseteq Prefix(m, n)
  BY <1>1 DEF Prefix
<1>5. Prefix(m, Total(m)) = {k \in Keys : Present(m, k)}
  BY <1>2 DEF Prefix
<1> QED  BY <1>3, <1>4, <1>5

\* What an applying handler merges is what its session decided on.
LEMMA HandlerMerges ==
  ASSUME IInv, NEW w \in Workers, h[w].pc \in {"apply_begin", "apply_stage"}
  PROVE  /\ h[w].session \in Sessions
         /\ h[w].session # None
         /\ op[h[w].session] \in Operation
         /\ SessionInv(h[w].session)
         /\ Merged(w) = MergeOf(op[h[w].session])
         /\ Changes(w) = Cardinality(Writes(op[h[w].session].guest,
                                            op[h[w].session].preview.recs,
                                            op[h[w].session].decision.choices))
         /\ h[w].gen = op[h[w].session].preview.gen
         /\ h[w].rev = op[h[w].session].preview.rev
         /\ op[h[w].session].preview.set
         /\ op[h[w].session].decision.set
<1>1. h[w].session \in Sessions /\ h[w].session # None
  BY SessionAssumption DEF IInv, TypeOK
<1>2. op[h[w].session] \in Operation /\ SessionInv(h[w].session) /\ HandlerInv(w)
  BY <1>1 DEF IInv, TypeOK
<1>3. /\ h[w].gen = op[h[w].session].preview.gen
      /\ h[w].rev = op[h[w].session].preview.rev
      /\ h[w].recs = op[h[w].session].preview.recs
      /\ op[h[w].session].preview.set
      /\ op[h[w].session].decision.set
  BY <1>2 DEF HandlerInv, ApplyPcs
<1> QED  BY <1>1, <1>2, <1>3 DEF Merged, MergeOf, Changes

LEMMA BeginKeeps ==
  ASSUME IInv, [Next]_vars, NEW w \in Workers, ApplyBegin(w)
  PROVE  IInv'
<1>1. TypeOK' /\ TypeOK /\ Numbering
  BY StepTypeOK DEF IInv
<1>2. PICK s \in Sessions : s = h[w].session
  BY <1>1 DEF TypeOK, ApplyBegin
<1>3. /\ op[s] \in Operation /\ h[w] \in Handler /\ SessionInv(s) /\ HandlerInv(w)
      /\ Merged(w) = MergeOf(op[s])
      /\ Changes(w) = Cardinality(Writes(op[s].guest, op[s].preview.recs, op[s].decision.choices))
      /\ op[s].preview.set /\ op[s].decision.set
  BY <1>1, <1>2, HandlerMerges DEF TypeOK, IInv, ApplyBegin
<1> DEFINE a == [cursor |-> 0, total |-> Total(Merged(w)), changes |-> Changes(w),
                 gen |-> op[s].preview.gen, rev |-> op[s].preview.rev]
           o == [op[s] EXCEPT !.state = "applying", !.apply = a]
<1>4. /\ op' = [op EXCEPT ![s] = o]
      /\ genDoc' = [genDoc EXCEPT ![op[s].target] = [state |-> "building", source |-> s]]
      /\ h' = [h EXCEPT ![w].pc = "apply_stage", ![w].cursor = 0]
      /\ op[s].state = "preview_ready"
      /\ UNCHANGED progress
  BY <1>2 DEF ApplyBegin
<1>5. /\ a.cursor = 0 /\ a.total = Total(Merged(w)) /\ a.changes = Changes(w)
      /\ a.gen = op[s].preview.gen /\ a.rev = op[s].preview.rev
  OBVIOUS
<1> HIDE DEF a
<1>6. /\ o.state = "applying" /\ o.target = op[s].target /\ o.guest = op[s].guest
      /\ o.preview = op[s].preview /\ o.decision = op[s].decision /\ o.apply = a
  BY <1>3 DEF Operation
<1> HIDE DEF o
<1>7. op'[s] = o /\ \A t \in Sessions \ {s} : op'[t] = op[t]
  BY <1>1, <1>4 DEF TypeOK
<1>8. op[s].target \in Gens /\ op[s].target # 0 /\ op[s].target \in 1 .. meta.counter
  <2>1. op[s].target \in 1 .. meta.counter
    BY <1>1, <1>4 DEF Numbering
  <2> QED  BY <1>3, <2>1 DEF Operation
<1>9. /\ meta'.generation = meta.generation /\ meta'.counter = meta.counter
  BY <1>1 DEF ApplyBegin, TakeLease, TypeOK
<1>10. /\ genDoc'[op[s].target] = [state |-> "building", source |-> s]
       /\ \A n \in Gens \ {op[s].target} : genDoc'[n] = genDoc[n]
       /\ genDoc[op[s].target].state = "none"
  BY <1>1, <1>4, <1>8 DEF TypeOK, Numbering
<1>11. Promoted' = Promoted
  BY <1>8, <1>10 DEF Promoted
<1>12. Numbering'
  <2>1. \A t \in Sessions : op'[t].target = op[t].target /\ (op'[t].state = "absent" <=> op[t].state = "absent")
    BY <1>4, <1>6, <1>7
  <2>2. ASSUME NEW t \in Sessions
        PROVE  /\ op'[t].state \notin {"absent", "applying", "complete"}
                    => genDoc'[op'[t].target].state = "none"
               /\ op'[t].state = "applying"
                    => genDoc'[op'[t].target] = [state |-> "building", source |-> t]
    <3>1. CASE t = s
      BY <1>6, <1>7, <1>10, <3>1
    <3>2. CASE t # s /\ op[t].state # "absent"
      <4>1. op[t].target # op[s].target /\ op[t].target \in Gens
        <5>1. op[t].target \in Gens
          BY <1>1 DEF TypeOK, Operation
        <5>2. op[s].state # "absent" /\ op[t].state # "absent"
          BY <1>4, <3>2
        <5> QED  BY <1>1, <3>2, <5>1, <5>2 DEF Numbering
      <4> QED  BY <1>1, <1>7, <1>10, <3>2, <4>1 DEF Numbering
    <3>3. CASE t # s /\ op[t].state = "absent"
      BY <1>7, <3>3
    <3> QED  BY <3>1, <3>2, <3>3
  <2>3. \A n \in Gens : n > meta.counter => genDoc'[n].state = "none"
    <3>1. meta.counter \in Nat
      BY <1>1, BoundAssumption DEF TypeOK, Gens
    <3>2. op[s].target <= meta.counter /\ op[s].target \in Nat
      BY <1>8
    <3>3. ASSUME NEW n \in Gens, n > meta.counter PROVE genDoc'[n].state = "none"
      <4>1. n # op[s].target
        BY <3>1, <3>2, <3>3
      <4>2. genDoc[n].state = "none"
        BY <1>1, <3>3 DEF Numbering
      <4> QED  BY <1>10, <4>1, <4>2
    <3> QED  BY <3>3
  <2>4. \A n \in Gens \ {0} : genDoc'[n].state = "none" => progress'[n] = EmptySnapshot
    BY <1>1, <1>4, <1>10 DEF Numbering
  <2>5. \A t \in Sessions : op'[t].state # "absent" => op'[t].target \in 1 .. meta'.counter
    BY <1>1, <1>9, <2>1 DEF Numbering
  <2>6. \A t, u \in Sessions :
          t # u /\ op'[t].state # "absent" /\ op'[u].state # "absent"
            => op'[t].target # op'[u].target
    BY <1>1, <2>1 DEF Numbering
  <2>7. meta'.generation \in Promoted'
    BY <1>1, <1>9, <1>11 DEF Numbering
  <2> QED  BY <1>9, <2>2, <2>3, <2>4, <2>5, <2>6, <2>7 DEF Numbering
<1>13. ASSUME NEW t \in Sessions PROVE SessionInv(t)'
  <2>1. CASE t = s
    <3>1. PICK g \in Gens, r \in Nat, x \in Snapshot :
            g = op[s].preview.gen /\ r = op[s].preview.rev /\ x = op[s].preview.recs
      BY <1>3 DEF Operation
    <3>2. Current(g, r, x)'
      BY <1>1, <1>3, <3>1, CurrentStable DEF SessionInv
    <3>3. Current(op[t].preview.gen, op[t].preview.rev, op[t].preview.recs)'
      BY <1>6, <1>7, <2>1, <3>1, <3>2 DEF Current, Fresh, SourceIs
    <3>4. MergeOf(o) = MergeOf(op[s])
      BY <1>6 DEF MergeOf
    <3>5. Total(MergeOf(op[s])) \in Nat
      BY TotalType
    <3> QED  BY <1>3, <1>4, <1>5, <1>6, <1>7, <2>1, <3>3, <3>4, <3>5
             DEF SessionInv, Open, Previewed
  <2>2. CASE t # s
    BY <1>1, <1>7, <2>2, SessionKept DEF IInv
  <2> QED  BY <2>1, <2>2
<1>14. \A v \in Workers : HandlerInv(v)'
  <2>1. h'[w] = [h[w] EXCEPT !.pc = "apply_stage", !.cursor = 0]
    BY <1>1, <1>4 DEF TypeOK
  <2>2. /\ h'[w].pc = "apply_stage" /\ h'[w].session = s
        /\ h'[w].gen = h[w].gen /\ h'[w].rev = h[w].rev /\ h'[w].recs = h[w].recs
    BY <1>2, <1>3, <2>1 DEF Handler
  <2>3. /\ h[w].gen = op[s].preview.gen /\ h[w].rev = op[s].preview.rev
        /\ h[w].recs = op[s].preview.recs
    BY <1>2, <1>3 DEF HandlerInv, ApplyBegin
  <2>4. HandlerInv(w)'
    BY <1>3, <1>6, <1>7, <2>2, <2>3 DEF HandlerInv, ConfirmPcs, ApplyPcs, Open
  <2>5. \A v \in Workers \ {w} : h'[v] = h[v]
    BY <1>1, <1>4 DEF TypeOK
  <2> QED  BY <2>4, <2>5, HandlersKept
<1>15. StagedPrefix'
  <2>1. ASSUME NEW t \in Sessions
        PROVE  op'[t].state = "applying" =>
                 progress'[op'[t].target] =
                   [k \in Keys |-> IF k \in Prefix(MergeOf(op'[t]), op'[t].apply.cursor)
                                     THEN MergeOf(op'[t])[k] ELSE None]
    <3>1. CASE t = s
      <4>1. progress'[op'[s].target] = EmptySnapshot
        BY <1>1, <1>4, <1>6, <1>7, <1>8, <1>10 DEF Numbering
      <4>2. Prefix(MergeOf(op'[s]), op'[s].apply.cursor) = {}
        BY <1>5, <1>6, <1>7, PrefixFacts
      <4> QED  BY <3>1, <4>1, <4>2 DEF EmptySnapshot
    <3>2. CASE t # s
      BY <1>4, <1>7, <3>2 DEF IInv, StagedPrefix
    <3> QED  BY <3>1, <3>2
  <2> QED  BY <2>1 DEF StagedPrefix, MergeOf, Prefix, Rank
<1> QED  BY <1>1, <1>12, <1>13, <1>14, <1>15 DEF IInv

LEMMA ResumeKeeps ==
  ASSUME IInv, [Next]_vars, NEW w \in Workers, ApplyResume(w)
  PROVE  IInv'
<1>1. TypeOK' /\ TypeOK
  BY StepTypeOK DEF IInv
<1>2. h[w] \in Handler /\ HandlerInv(w)
  BY <1>1 DEF TypeOK, IInv
<1>3. UNCHANGED <<op, genDoc, progress, meta.generation, meta.counter>>
  BY <1>1 DEF ApplyResume, TypeOK
<1>4. Numbering' /\ (\A t \in Sessions : SessionInv(t)') /\ StagedPrefix'
  BY <1>3, SessionsKept
<1> DEFINE at == op[h[w].session].apply.cursor
<1>5. h' = [h EXCEPT ![w].pc = "apply_stage", ![w].cursor = at] /\ h[w].pc = "apply_begin"
  BY DEF ApplyResume
<1> HIDE DEF at
<1>6. h'[w] = [h[w] EXCEPT !.pc = "apply_stage", !.cursor = at]
  BY <1>1, <1>5 DEF TypeOK
<1>7. /\ h'[w].pc = "apply_stage" /\ h'[w].session = h[w].session
      /\ h'[w].gen = h[w].gen /\ h'[w].rev = h[w].rev /\ h'[w].recs = h[w].recs
  BY <1>2, <1>6 DEF Handler
<1>8. HandlerInv(w)'
  BY <1>2, <1>3, <1>5, <1>7 DEF HandlerInv, ConfirmPcs, ApplyPcs
<1>9. \A v \in Workers \ {w} : h'[v] = h[v]
  BY <1>1, <1>5 DEF TypeOK
<1> QED  BY <1>1, <1>4, <1>8, <1>9, HandlersKept DEF IInv

LEMMA StageKeeps ==
  ASSUME IInv, [Next]_vars, NEW w \in Workers, NEW n \in 1 .. Cardinality(Keys),
         ApplyStage(w, n)
  PROVE  IInv'
<1>1. TypeOK' /\ TypeOK /\ Numbering
  BY StepTypeOK DEF IInv
<1>2. PICK s \in Sessions : s = h[w].session
  BY <1>1 DEF TypeOK, ApplyStage
<1> DEFINE m == Merged(w)
           i == h[w].cursor
           a == [op[s].apply EXCEPT !.cursor = n]
           o == [op[s] EXCEPT !.apply = a]
<1>3. /\ op[s] \in Operation /\ h[w] \in Handler /\ SessionInv(s) /\ HandlerInv(w)
      /\ m = MergeOf(op[s])
      /\ op[s].preview.set /\ op[s].decision.set
  BY <1>1, <1>2, HandlerMerges DEF TypeOK, IInv, ApplyStage
<1>4. /\ op[s].state = "applying" /\ op[s].apply.cursor = i /\ h[w].pc = "apply_stage"
      /\ i < n /\ n <= Total(m)
  BY <1>2 DEF ApplyStage, AtCursor
<1>5. /\ progress' = [progress EXCEPT ![op[s].target] =
                         [k \in Keys |-> IF k \in Prefix(m, n) \ Prefix(m, i)
                                           THEN m[k] ELSE @[k]]]
      /\ op' = [op EXCEPT ![s] = o]
      /\ h' = [h EXCEPT ![w].cursor = n]
      /\ UNCHANGED <<meta, genDoc>>
  BY <1>2 DEF ApplyStage
<1>6. /\ a.cursor = n /\ a.total = op[s].apply.total /\ a.changes = op[s].apply.changes
      /\ a.gen = op[s].apply.gen /\ a.rev = op[s].apply.rev
  BY <1>3 DEF Operation
<1> HIDE DEF m, i, a
<1>7. /\ o.state = op[s].state /\ o.target = op[s].target /\ o.guest = op[s].guest
      /\ o.preview = op[s].preview /\ o.decision = op[s].decision /\ o.apply = a
  BY <1>3 DEF Operation
<1> HIDE DEF o
<1>8. op'[s] = o /\ \A t \in Sessions \ {s} : op'[t] = op[t]
  BY <1>1, <1>5 DEF TypeOK
<1>9. /\ op[s].target \in Gens /\ op[s].target # 0
      /\ genDoc[op[s].target].state = "building"
  <2>1. op[s].target \in 1 .. meta.counter
    BY <1>1, <1>4 DEF Numbering
  <2>2. genDoc[op[s].target] = [state |-> "building", source |-> s]
    BY <1>1, <1>4 DEF Numbering
  <2> QED  BY <1>3, <2>1, <2>2 DEF Operation
<1>10. /\ progress'[op[s].target] =
            [k \in Keys |-> IF k \in Prefix(m, n) \ Prefix(m, i)
                              THEN m[k] ELSE progress[op[s].target][k]]
       /\ \A g \in Gens \ {op[s].target} : progress'[g] = progress[g]
  BY <1>1, <1>5, <1>9 DEF TypeOK
<1>11. i \in Nat /\ n \in Nat
  BY <1>3 DEF Handler, i
<1>12. Numbering'
  <2>1. \A t \in Sessions : op'[t].target = op[t].target /\ op'[t].state = op[t].state
    BY <1>7, <1>8
  <2>2. \A g \in Gens \ {0} : genDoc'[g].state = "none" => progress'[g] = EmptySnapshot
    BY <1>1, <1>5, <1>9, <1>10 DEF Numbering
  <2> QED  BY <1>1, <1>5, <2>1, <2>2 DEF Numbering, Promoted
<1>13. ASSUME NEW t \in Sessions PROVE SessionInv(t)'
  <2>1. CASE t = s
    <3>1. PICK g \in Gens, r \in Nat, x \in Snapshot :
            g = op[s].preview.gen /\ r = op[s].preview.rev /\ x = op[s].preview.recs
      BY <1>3 DEF Operation
    <3>2. Current(g, r, x)'
      BY <1>1, <1>3, <3>1, CurrentStable DEF SessionInv
    <3>3. Current(op[t].preview.gen, op[t].preview.rev, op[t].preview.recs)'
      BY <1>7, <1>8, <2>1, <3>1, <3>2 DEF Current, Fresh, SourceIs
    <3>4. MergeOf(o) = MergeOf(op[s])
      BY <1>7 DEF MergeOf
    <3> QED  BY <1>3, <1>4, <1>6, <1>7, <1>8, <2>1, <3>3, <3>4 DEF SessionInv
  <2>2. CASE t # s
    BY <1>1, <1>8, <2>2, SessionKept DEF IInv
  <2> QED  BY <2>1, <2>2
<1>14. \A v \in Workers : HandlerInv(v)'
  <2>1. h'[w] = [h[w] EXCEPT !.cursor = n]
    BY <1>1, <1>5 DEF TypeOK
  <2>2. /\ h'[w].pc = "apply_stage" /\ h'[w].session = s
        /\ h'[w].gen = h[w].gen /\ h'[w].rev = h[w].rev /\ h'[w].recs = h[w].recs
    BY <1>2, <1>3, <1>4, <2>1 DEF Handler
  <2>3. HandlerInv(w)'
    BY <1>2, <1>3, <1>4, <1>7, <1>8, <2>2 DEF HandlerInv, ConfirmPcs, ApplyPcs
  <2>4. \A v \in Workers \ {w} : h'[v] = h[v]
    BY <1>1, <1>5 DEF TypeOK
  <2> QED  BY <2>3, <2>4, HandlersKept
<1>15. StagedPrefix'
  <2>1. ASSUME NEW t \in Sessions
        PROVE  op'[t].state = "applying" =>
                 progress'[op'[t].target] =
                   [k \in Keys |-> IF k \in Prefix(MergeOf(op'[t]), op'[t].apply.cursor)
                                     THEN MergeOf(op'[t])[k] ELSE None]
    <3>1. CASE t = s
      <4>1. progress[op[s].target] = [k \in Keys |-> IF k \in Prefix(m, i) THEN m[k] ELSE None]
        BY <1>3, <1>4 DEF IInv, StagedPrefix
      <4>2. Prefix(m, i) \subseteq Prefix(m, n)
        BY <1>4, <1>11, PrefixFacts
      <4>3. progress'[op[s].target] = [k \in Keys |-> IF k \in Prefix(m, n) THEN m[k] ELSE None]
        BY <1>10, <4>1, <4>2
      <4>4. MergeOf(op'[s]) = m /\ op'[s].apply.cursor = n /\ op'[s].target = op[s].target
        BY <1>3, <1>6, <1>7, <1>8 DEF MergeOf
      <4> QED  BY <3>1, <4>3, <4>4
    <3>2. CASE t # s /\ op[t].state = "applying"
      <4>1. op[t].target # op[s].target /\ op[t].target \in Gens
        <5>1. op[t].target \in Gens
          BY <1>1 DEF TypeOK, Operation
        <5>2. op[s].state # "absent" /\ op[t].state # "absent"
          BY <1>4, <3>2
        <5> QED  BY <1>1, <3>2, <5>1, <5>2 DEF Numbering
      <4>2. op'[t] = op[t] /\ progress'[op[t].target] = progress[op[t].target]
        BY <1>8, <1>10, <3>2, <4>1
      <4>3. StagedPrefix
        BY DEF IInv
      <4> QED  BY <3>2, <4>2, <4>3 DEF StagedPrefix
    <3>3. CASE t # s /\ op[t].state # "applying"
      BY <1>8, <3>3
    <3> QED  BY <3>1, <3>2, <3>3
  <2> QED  BY <2>1 DEF StagedPrefix, MergeOf, Prefix, Rank
<1> QED  BY <1>1, <1>12, <1>13, <1>14, <1>15 DEF IInv

\* What is in the target generation when the cursor has reached the total.
LEMMA StagedAll ==
  ASSUME IInv, NEW w \in Workers, ApplyComplete(w)
  PROVE  /\ progress[op[h[w].session].target] = MergeOf(op[h[w].session])
         /\ ActiveRecords = op[h[w].session].preview.recs
         /\ meta.revision = op[h[w].session].preview.rev
         /\ meta.generation = op[h[w].session].preview.gen
<1> DEFINE s == h[w].session
           m == MergeOf(op[s])
<1>1. /\ s \in Sessions /\ op[s] \in Operation /\ SessionInv(s)
      /\ Merged(w) = m
      /\ h[w].gen = op[s].preview.gen /\ h[w].rev = op[s].preview.rev
      /\ op[s].preview.set
  BY HandlerMerges DEF ApplyComplete
<1>2. /\ op[s].state = "applying" /\ op[s].apply.cursor = op[s].apply.total
      /\ SourceIs(h[w].gen, h[w].rev)
  BY DEF ApplyComplete
<1>3. op[s].apply.cursor = Total(m)
  BY <1>1, <1>2 DEF SessionInv
<1>4. progress[op[s].target] = [k \in Keys |-> IF k \in Prefix(m, Total(m)) THEN m[k] ELSE None]
  BY <1>1, <1>2, <1>3 DEF IInv, StagedPrefix
<1>5. m \in Snapshot
  <2>1. op[s].guest \in Snapshot /\ op[s].preview.recs \in Snapshot
    BY <1>1 DEF Operation
  <2> QED  BY <2>1, MaterializeType DEF MergeOf
<1>6. \A k \in Keys : k \notin Prefix(m, Total(m)) => m[k] = None
  BY PrefixFacts DEF Present
<1> HIDE DEF m
<1>7. progress[op[s].target] = m
  BY <1>4, <1>5, <1>6 DEF Snapshot
<1>8. ActiveRecords = op[s].preview.recs
  BY <1>1, <1>2 DEF SessionInv, Current
<1> QED  BY <1>1, <1>2, <1>7, <1>8 DEF SourceIs, m

LEMMA CompleteKeeps ==
  ASSUME IInv, [Next]_vars, NEW w \in Workers, ApplyComplete(w)
  PROVE  IInv'
<1>1. TypeOK' /\ TypeOK /\ Numbering
  BY StepTypeOK DEF IInv
<1>2. PICK s \in Sessions : s = h[w].session
  BY <1>1 DEF TypeOK, ApplyComplete
<1> DEFINE o == [op[s] EXCEPT !.state = "complete"]
<1>3. op[s] \in Operation /\ SessionInv(s)
  BY <1>1, <1>2 DEF TypeOK, IInv
<1>4. /\ op' = [op EXCEPT ![s] = o]
      /\ genDoc' = [genDoc EXCEPT ![op[s].target] = [state |-> "active", source |-> s]]
      /\ op[s].state = "applying"
      /\ UNCHANGED progress
  BY <1>2 DEF ApplyComplete
<1>5. /\ o.state = "complete" /\ o.target = op[s].target /\ o.guest = op[s].guest
      /\ o.preview = op[s].preview /\ o.decision = op[s].decision /\ o.apply = op[s].apply
  BY <1>3 DEF Operation
<1> HIDE DEF o
<1>6. op'[s] = o /\ \A t \in Sessions \ {s} : op'[t] = op[t]
  BY <1>1, <1>4 DEF TypeOK
<1>7. meta'.generation = op[s].target /\ meta'.counter = meta.counter
  BY <1>1, <1>2 DEF ApplyComplete, ReleaseLease, TypeOK
<1>8. op[s].target \in Gens /\ op[s].target # 0 /\ op[s].target \in 1 .. meta.counter
  <2>1. op[s].target \in 1 .. meta.counter
    BY <1>1, <1>4 DEF Numbering
  <2> QED  BY <1>3, <2>1 DEF Operation
<1>9. /\ genDoc'[op[s].target] = [state |-> "active", source |-> s]
      /\ \A n \in Gens \ {op[s].target} : genDoc'[n] = genDoc[n]
  BY <1>1, <1>4, <1>8 DEF TypeOK
<1>10. Numbering'
  <2>1. \A t \in Sessions : op'[t].target = op[t].target /\ (op'[t].state = "absent" <=> op[t].state = "absent")
    BY <1>4, <1>5, <1>6
  <2>2. ASSUME NEW t \in Sessions
        PROVE  /\ op'[t].state \notin {"absent", "applying", "complete"}
                    => genDoc'[op'[t].target].state = "none"
               /\ op'[t].state = "applying"
                    => genDoc'[op'[t].target] = [state |-> "building", source |-> t]
    <3>1. CASE t = s
      BY <1>5, <1>6, <3>1
    <3>2. CASE t # s /\ op[t].state # "absent"
      <4>1. op[t].target # op[s].target /\ op[t].target \in Gens
        <5>1. op[t].target \in Gens
          BY <1>1 DEF TypeOK, Operation
        <5>2. op[s].state # "absent" /\ op[t].state # "absent"
          BY <1>4, <3>2
        <5> QED  BY <1>1, <3>2, <5>1, <5>2 DEF Numbering
      <4> QED  BY <1>1, <1>6, <1>9, <3>2, <4>1 DEF Numbering
    <3>3. CASE t # s /\ op[t].state = "absent"
      BY <1>6, <3>3
    <3> QED  BY <3>1, <3>2, <3>3
  <2>3. ASSUME NEW n \in Gens, n > meta.counter PROVE genDoc'[n].state = "none"
    <3>1. meta.counter \in Nat /\ n \in Nat
      BY <1>1, BoundAssumption DEF TypeOK, Gens
    <3>2. op[s].target <= meta.counter /\ op[s].target \in Nat
      BY <1>8
    <3>3. n # op[s].target
      BY <2>3, <3>1, <3>2
    <3>4. genDoc[n].state = "none"
      BY <1>1, <2>3 DEF Numbering
    <3> QED  BY <1>9, <3>3, <3>4
  <2>4. \A n \in Gens \ {0} : genDoc'[n].state = "none" => progress'[n] = EmptySnapshot
    BY <1>1, <1>4, <1>9 DEF Numbering
  <2>5. \A t \in Sessions : op'[t].state # "absent" => op'[t].target \in 1 .. meta'.counter
    BY <1>1, <1>7, <2>1 DEF Numbering
  <2>6. \A t, u \in Sessions :
          t # u /\ op'[t].state # "absent" /\ op'[u].state # "absent"
            => op'[t].target # op'[u].target
    BY <1>1, <2>1 DEF Numbering
  <2>7. meta'.generation \in Promoted'
    BY <1>7, <1>8, <1>9 DEF Promoted
  <2> QED  BY <1>7, <2>2, <2>3, <2>4, <2>5, <2>6, <2>7 DEF Numbering
<1>11. ASSUME NEW t \in Sessions PROVE SessionInv(t)'
  <2>1. CASE t = s
    <3>1. PICK g \in Gens, r \in Nat, x \in Snapshot :
            g = op[s].preview.gen /\ r = op[s].preview.rev /\ x = op[s].preview.recs
      BY <1>3 DEF Operation
    <3>2. op[s].preview.set
      BY <1>3, <1>4 DEF SessionInv, Previewed
    <3>3. Current(g, r, x)'
      BY <1>1, <1>3, <3>1, <3>2, CurrentStable DEF SessionInv
    <3>4. Current(op[t].preview.gen, op[t].preview.rev, op[t].preview.recs)'
      BY <1>5, <1>6, <2>1, <3>1, <3>3 DEF Current, Fresh, SourceIs
    <3> QED  BY <1>3, <1>4, <1>5, <1>6, <2>1, <3>2, <3>4 DEF SessionInv, Open, Previewed
  <2>2. CASE t # s
    BY <1>1, <1>6, <2>2, SessionKept DEF IInv
  <2> QED  BY <2>1, <2>2
<1>12. \A v \in Workers : HandlerInv(v)'
  <2>1. h'[w] = Idle /\ \A v \in Workers \ {w} : h'[v] = h[v]
    <3>1. Return(w)
      BY DEF ApplyComplete
    <3> QED  BY <1>1, <3>1, ReturnEffect
  <2> QED  BY <2>1, HandlerReturns, HandlersKept
<1>13. StagedPrefix'
  <2>1. \A t \in Sessions : /\ op'[t].state = "applying" => op[t].state = "applying"
                            /\ op'[t].apply.cursor = op[t].apply.cursor
    BY <1>4, <1>5, <1>6
  <2> QED  BY <1>4, <2>1, AllPrefixesKept
<1> QED  BY <1>1, <1>10, <1>11, <1>12, <1>13 DEF IInv

LEMMA StepIInv == IInv /\ [Next]_vars => IInv'
<1> SUFFICES ASSUME IInv, [Next]_vars PROVE IInv'
  OBVIOUS
<1>1. ASSUME NEW s \in Sessions, StartTransfer(s) \/ SealTransfer(s) PROVE IInv'
  BY <1>1, StartKeeps, SealKeeps
<1>2. ASSUME NEW w \in Workers, NEW s \in Sessions, Request(w, s) PROVE IInv'
  BY <1>2, RequestKeeps
<1>3. ASSUME NEW w \in Workers, ReadStep(w) \/ Stop(w) PROVE IInv'
  BY <1>3, ReadKeeps, StopKeeps
<1>4. ASSUME NEW w \in Workers, CommitStep(w) PROVE IInv'
  BY <1>4, PreviewKeeps, ConfirmKeeps, BeginKeeps, ResumeKeeps, StageKeeps, CompleteKeeps
  DEF CommitStep
<1>5. CASE AccountStep
  BY <1>5, AccountKeeps
<1>6. CASE UNCHANGED vars
  BY <1>6, WriterKeeps DEF vars
<1> QED  BY <1>1, <1>2, <1>3, <1>4, <1>5, <1>6 DEF Next

THEOREM Invariance == Spec => []IInv
BY InitIInv, StepIInv, PTL DEF Spec

-----------------------------------------------------------------------------
(* What the invariant gives *)

\* The target of a begun promotion never holds anything but the first rows of
\* the merge the user confirmed.
THEOREM StagingIsExact == Spec => []StagedPrefix
<1>1. IInv => StagedPrefix
  BY DEF IInv
<1> QED  BY <1>1, Invariance, PTL

\* A transfer promotes the merge that was previewed and confirmed, and only
\* while the account still is the previewed one.
THEOREM PromotionIsWhatWasConfirmed == Spec => PromotesWhatWasConfirmed
<1> DEFINE Confirmed ==
             \A s \in Sessions :
               op[s].state # "complete" /\ op'[s].state = "complete" =>
                 /\ ActiveRecords = op[s].preview.recs
                 /\ meta.revision = op[s].preview.rev
                 /\ meta'.generation = op[s].target
                 /\ progress'[op[s].target] = MergeOf(op[s])
<1>1. ASSUME IInv, [Next]_vars PROVE Confirmed
  <2>1. SUFFICES ASSUME NEW s \in Sessions,
                        op[s].state # "complete", op'[s].state = "complete"
                 PROVE  /\ ActiveRecords = op[s].preview.recs
                        /\ meta.revision = op[s].preview.rev
                        /\ meta'.generation = op[s].target
                        /\ progress'[op[s].target] = MergeOf(op[s])
    OBVIOUS
  <2>2. TypeOK
    BY <1>1 DEF IInv
  <2>3. PICK w \in Workers : h[w].session = s /\ ApplyComplete(w)
    BY <1>1, <2>1, <2>2, SessionsMove DEF Completes, Promotes
  <2>4. /\ progress[op[s].target] = MergeOf(op[s])
        /\ ActiveRecords = op[s].preview.recs
        /\ meta.revision = op[s].preview.rev
    BY <1>1, <2>3, StagedAll
  <2>5. meta'.generation = op[s].target /\ progress' = progress
    BY <2>2, <2>3 DEF ApplyComplete, ReleaseLease, TypeOK
  <2> QED  BY <2>4, <2>5
<1>2. IInv /\ [Next]_vars => [Confirmed]_vars
  BY <1>1
<1> QED  BY <1>2, Invariance, PTL DEF Spec, PromotesWhatWasConfirmed

-----------------------------------------------------------------------------
(* The transfer implements AccountSnapshot: seen through the generation    *)
(* pointer, an account changes only by whole, atomic writes and merges of  *)
(* exactly the records it holds.                                           *)

\* AccountSnapshot speaks of the same merge.
LEMMA SameKeys == Account!Keys = Keys
BY DEF Account!Keys, Account!ItemKeys, Account!GoalPlanKeys, Account!GoalPlanTypes, Account!Key,
  Keys, ItemKeys, GoalPlanKeys, GoalPlanTypes, Key

LEMMA SameCardinality == \A S : Account!Cardinality(S) = Cardinality(S)
BY Zenon DEF Account!Cardinality, Cardinality

LEMMA SameUnits ==
  ASSUME NEW g, NEW r
  PROVE  /\ Account!GroupTracks(g, r) = GroupTracks(g, r)
         /\ Account!Grouped(g, r) = Grouped(g, r)
         /\ Account!Uploads(g, r) = Uploads(g, r)
         /\ Account!Conflicts(g, r) = Conflicts(g, r)
<1>1. /\ \A m, k : Account!Present(m, k) <=> Present(m, k)
      /\ \A m, n, k : Account!SameFingerprint(m, n, k) <=> SameFingerprint(m, n, k)
      /\ \A type, id : Account!Key(type, id) = Key(type, id)
      /\ Account!GoalPlanTypes = GoalPlanTypes
  BY DEF Account!Present, Account!SameFingerprint, Account!Key, Account!GoalPlanTypes,
    Present, SameFingerprint, Key, GoalPlanTypes
<1>2. \A m, t : Account!HasTrack(m, t) <=> HasTrack(m, t)
  BY <1>1 DEF Account!HasTrack, HasTrack
<1>3. Account!GroupTracks(g, r) = GroupTracks(g, r)
  BY <1>1, <1>2 DEF Account!GroupTracks, GroupTracks
<1>4. Account!GoalPlanKeys = GoalPlanKeys
  BY <1>1 DEF Account!GoalPlanKeys, GoalPlanKeys
<1>5. Account!Grouped(g, r) = Grouped(g, r)
  BY <1>3, <1>4 DEF Account!Grouped, Grouped
<1>6. Account!Ungrouped(g, r) = Ungrouped(g, r)
  BY <1>5, SameKeys DEF Account!Ungrouped, Ungrouped
<1>7. Account!Uploads(g, r) = Uploads(g, r)
  BY <1>1, <1>6 DEF Account!Uploads, Uploads
<1>8. Account!Conflicts(g, r) = Conflicts(g, r)
  BY <1>1, <1>6 DEF Account!Conflicts, Conflicts
<1> QED  BY <1>3, <1>5, <1>7, <1>8

LEMMA SameMerge ==
  ASSUME NEW g, NEW r
  PROVE  /\ Account!Confirmations(g, r) = Confirmations(g, r)
         /\ \A c : Account!Writes(g, r, c) = Writes(g, r, c)
         /\ \A c : Account!Materialize(g, r, c) = Materialize(g, r, c)
         /\ \A k : Account!NextVersion(r, k) = NextVersion(r, k)
<1>1. Account!Confirmations(g, r) = Confirmations(g, r)
  BY SameUnits DEF Account!Confirmations, Confirmations, Account!Choice, Choice
<1>2. /\ \A m, k : Account!Live(m, k) <=> Live(m, k)
      /\ \A m, n, k : Account!SameFingerprint(m, n, k) <=> SameFingerprint(m, n, k)
  BY DEF Account!Live, Live, Account!Present, Present, Account!SameFingerprint, SameFingerprint
<1>3. ASSUME NEW c PROVE Account!Writes(g, r, c) = Writes(g, r, c)
  <2>1. Account!GroupWrites(g, r, c) = GroupWrites(g, r, c)
    BY <1>2, SameUnits DEF Account!GroupWrites, GroupWrites
  <2>2. Account!RecordWrites(g, r, c) = RecordWrites(g, r, c)
    BY SameUnits DEF Account!RecordWrites, RecordWrites
  <2> QED  BY <2>1, <2>2 DEF Account!Writes, Writes
<1>4. \A k : Account!NextVersion(r, k) = NextVersion(r, k)
  BY DEF Account!NextVersion, NextVersion, Account!Present, Present
<1>5. \A k : Account!WrittenVal(g, r, k) = WrittenVal(g, r, k)
  BY <1>2, SameUnits DEF Account!WrittenVal, WrittenVal
<1>6. ASSUME NEW c PROVE Account!Materialize(g, r, c) = Materialize(g, r, c)
  BY <1>3, <1>4, <1>5, SameKeys DEF Account!Materialize, Materialize
<1> QED  BY <1>1, <1>3, <1>4, <1>6

-----------------------------------------------------------------------------
LEMMA InitMaps == Init => Account!Init
<1> SUFFICES ASSUME Init PROVE Account!Init
  OBVIOUS
<1>1. /\ meta.generation = 0
      /\ meta.revision = Total(InitialRecords)
      /\ ActiveRecords = InitialRecords
  BY BoundAssumption DEF Init, ActiveRecords, Gens
<1>2. Promoted = {0}
  BY DEF Init, Promoted
<1>3. meta.revision \in Nat
  BY <1>1, TotalType
<1>4. DOMAIN ActiveRecords = Keys
  BY <1>1, SnapshotAssumption DEF Snapshot
<1> QED  BY <1>1, <1>2, <1>3, <1>4, SameKeys DEF Account!Init

\* A sync batch is a Write of the records it names.
LEMMA SyncMaps ==
  ASSUME IInv, NEW vals \in SyncBatches, SyncBatch(vals)
  PROVE  Account!Write
<1> DEFINE ks == DOMAIN vals
<1>1. ks \in (SUBSET Keys) \ {{}}
  BY DEF SyncBatches
<1>2. TypeOK
  BY DEF IInv
<1>3. /\ meta'.generation = meta.generation
      /\ meta'.revision = meta.revision + Cardinality(ks)
      /\ Promoted' = Promoted
  BY <1>2 DEF SyncBatch, TypeOK, Promoted
<1>4. ActiveRecords' =
        [k \in Keys |-> IF k \in ks
                          THEN [val |-> vals[k], ver |-> NextVersion(ActiveRecords, k)]
                          ELSE ActiveRecords[k]]
  BY <1>2, <1>3 DEF SyncBatch, TypeOK, ActiveRecords
<1>5. \A k \in ks : [val |-> vals[k], ver |-> NextVersion(ActiveRecords, k)] # None
  <2> SUFFICES ASSUME NEW k \in ks
               PROVE  [val |-> vals[k], ver |-> NextVersion(ActiveRecords, k)] \in Record
    BY NoneAssumption
  <2>1. vals[k] \in ValsOf(k)
    BY SnapshotAssumption, <1>1 DEF SyncBatches
  <2>2. NextVersion(ActiveRecords, k) \in Nat
    BY <1>1, <1>2 DEF NextVersion, Present, ActiveRecords, TypeOK, Snapshot, Record
  <2> QED  BY <1>1, <2>1, <2>2 DEF Record
<1> HIDE DEF ks
<1>6. /\ DOMAIN ActiveRecords' = Keys
      /\ \A k \in Keys : IF k \in ks
                           THEN /\ ActiveRecords'[k] # None
                                /\ ActiveRecords'[k].ver = NextVersion(ActiveRecords, k)
                           ELSE ActiveRecords'[k] = ActiveRecords[k]
  BY <1>4, <1>5
<1> QED  BY <1>1, <1>3, <1>6, SameKeys, SameMerge, SameCardinality DEF Account!Write

\* A one-step adoption is an Adopt that stays in the generation.
LEMMA OneShotMaps ==
  ASSUME IInv, NEW g \in GuestSnapshots, NEW c \in Confirmations(g, ActiveRecords),
         OneShotAdoption(g, c)
  PROVE  Account!Adopt
<1>1. TypeOK /\ Numbering
  BY DEF IInv
<1>2. /\ meta'.generation = meta.generation
      /\ meta'.revision = meta.revision + Cardinality(Writes(g, ActiveRecords, c))
      /\ Promoted' = Promoted
  BY <1>1 DEF OneShotAdoption, TypeOK, Promoted
<1>3. ActiveRecords' = Materialize(g, ActiveRecords, c)
  BY <1>1, <1>2 DEF OneShotAdoption, TypeOK, ActiveRecords
<1>4. Promoted' = Promoted \cup {meta'.generation}
  BY <1>1, <1>2 DEF Numbering
<1> QED  BY <1>2, <1>3, <1>4, SameMerge, SameCardinality DEF Account!Adopt

\* The promotion is an Adopt that enters a new generation.
LEMMA PromotionMaps ==
  ASSUME IInv, [Next]_vars, NEW w \in Workers, ApplyComplete(w)
  PROVE  Account!Adopt
<1>1. TypeOK /\ Numbering
  BY DEF IInv
<1>2. PICK s \in Sessions : s = h[w].session
  BY <1>1 DEF TypeOK, ApplyComplete
<1>3. PICK g, c, r : g = op[s].guest /\ c = op[s].decision.choices /\ r = op[s].preview.recs
  OBVIOUS
<1>4. /\ g \in GuestSnapshots
      /\ c \in Confirmations(g, r)
      /\ op[s].apply.changes = Cardinality(Writes(g, r, c))
      /\ op[s].apply.rev = op[s].preview.rev
  BY <1>2, <1>3 DEF IInv, SessionInv, ApplyComplete, Open
<1>5. /\ progress[op[s].target] = Materialize(g, r, c)
      /\ ActiveRecords = r
      /\ meta.revision = op[s].preview.rev
  BY <1>2, <1>3, StagedAll DEF MergeOf
<1>6. /\ meta'.generation = op[s].target
      /\ meta'.revision = op[s].apply.rev + op[s].apply.changes
      /\ progress' = progress
  BY <1>1, <1>2 DEF ApplyComplete, ReleaseLease, TypeOK
<1>7. ActiveRecords' = Materialize(g, ActiveRecords, c)
  BY <1>5, <1>6 DEF ActiveRecords
<1>8. meta'.revision = meta.revision + Cardinality(Writes(g, ActiveRecords, c))
  BY <1>4, <1>5, <1>6
<1>9. /\ meta'.generation \in Gens \ Promoted
      /\ Promoted' = Promoted \cup {meta'.generation}
  BY <1>1, <1>2, <1>6, PromotionSwaps DEF AccountSwap
<1>10. Gens \subseteq Nat
  BY BoundAssumption DEF Gens
<1> QED  BY <1>4, <1>5, <1>7, <1>8, <1>9, <1>10, SameMerge, SameCardinality DEF Account!Adopt

LEMMA StepMaps == IInv /\ [Next]_vars => [Account!Next]_(Account!vars)
<1> SUFFICES ASSUME IInv, [Next]_vars PROVE [Account!Next]_(Account!vars)
  OBVIOUS
<1>1. AccountSame \/ Synced \/ Adopted \/ \E w \in Workers : ApplyComplete(w)
  BY AccountSteps DEF IInv
<1>2. CASE AccountSame
  BY <1>2 DEF AccountSame, Account!vars
<1>3. CASE Synced
  BY <1>3, SyncMaps DEF Synced, Account!Next
<1>4. CASE Adopted
  BY <1>4, OneShotMaps DEF Adopted, Account!Next
<1>5. CASE \E w \in Workers : ApplyComplete(w)
  BY <1>5, PromotionMaps DEF Account!Next
<1> QED  BY <1>1, <1>2, <1>3, <1>4, <1>5

\* Whatever requests, retries, crashes, lease take-overs and concurrent writers
\* do, a client sees only the steps of AccountSnapshot.
THEOREM Refinement == Spec => ImplementsAccountSnapshot
<1>1. Init => Account!Init
  BY InitMaps
<1>2. IInv /\ [Next]_vars => [Account!Next]_(Account!vars)
  BY StepMaps
<1> QED  BY <1>1, <1>2, Invariance, PTL DEF Spec, ImplementsAccountSnapshot, Account!Spec

-----------------------------------------------------------------------------
\* What PairNamesRecords says of one step.
PairStep ==
  /\ meta.generation' = meta.generation =>
       meta.revision' >= meta.revision /\ (ActiveRecords' # ActiveRecords => meta.revision' > meta.revision)
  /\ meta.generation' # meta.generation => meta.generation' \notin Promoted
  /\ meta.generation \in Promoted' /\ Promoted \subseteq Promoted'

LEMMA PairStays == IInv /\ [Next]_vars => [PairStep]_(Account!vars)
<1> SUFFICES ASSUME IInv, [Next]_vars PROVE [PairStep]_(Account!vars)
  OBVIOUS
<1>1. TypeOK /\ Numbering
  BY DEF IInv
<1>2. meta.revision \in Nat /\ meta'.revision \in Nat
  BY <1>1, StepTypeOK DEF TypeOK
<1>3. meta.generation \in Promoted
  BY <1>1 DEF Numbering
<1>4. CASE AccountSame
  BY <1>4 DEF AccountSame, Account!vars
<1>5. CASE AccountWrite
  BY <1>2, <1>3, <1>5 DEF AccountWrite, PairStep
<1>6. CASE AccountSwap
  BY <1>3, <1>6 DEF AccountSwap, PairStep
<1> QED  BY <1>1, <1>4, <1>5, <1>6, AccountMoves

\* A (generation, revision) pair never comes to stand for other records,
\* whoever writes, promotes, crashes or takes a lease over: a page token or a
\* cached answer that carries the account's pair is of the account's records.
THEOREM PairsNameRecords == Spec => PairNamesRecords
<1>1. IInv /\ [Next]_vars => [PairStep]_(Account!vars)
  BY PairStays
<1>2. Spec => [][PairStep]_(Account!vars)
  BY <1>1, Invariance, PTL DEF Spec
<1> QED  BY <1>2, PTL DEF PairNamesRecords, Account!PairNamesRecords, PairStep
=============================================================================
