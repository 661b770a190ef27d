-------------------------- MODULE AdoptionPromotion --------------------------
(***************************************************************************)
(* The adoption transfer of FirestoreProgressStore                         *)
(* (src/modules/progress/store.ts): a guest snapshot is previewed against  *)
(* the account, confirmed, staged chunk by chunk into a new progress       *)
(* generation, and promoted by moving the account's generation pointer.    *)
(*                                                                         *)
(* Every HTTP request is a handler of one of the Workers.  A Firestore     *)
(* transaction is one action; what a handler reads outside a transaction   *)
(* is a step of its own, because other requests commit in between.  A      *)
(* handler may stop after any step: it threw, or the process died.         *)
(***************************************************************************)
EXTENDS AdoptionMerge

CONSTANTS
  Sessions,        \* adoption transfer session ids
  Workers,         \* concurrent request handlers
  GuestSnapshots,  \* snapshots a guest device may upload and seal
  InitialRecords,  \* records of the account before any transfer
  SyncVals,        \* states that sync batches write
  KeyRank,         \* the sort order of record keys (mergeRecordKey)
  StageBatch,      \* ADOPTION_TRANSFER_FIRESTORE_BATCH_SIZE, rows staged
  DecisionBatch,   \* the same constant, decision rows stored
  MaxGen,          \* bound on generations
  MaxRev           \* bound on the revision other writers may reach

ASSUME SessionAssumption == None \notin Sessions
ASSUME RankAssumption ==
  /\ KeyRank \in [Keys -> Nat]
  /\ \A j, k \in Keys : KeyRank[j] = KeyRank[k] => j = k
ASSUME BatchAssumption == StageBatch \in Nat \ {0} /\ DecisionBatch \in Nat \ {0}
ASSUME BoundAssumption == MaxGen \in Nat /\ MaxRev \in Nat

ASSUME SnapshotAssumption ==
  /\ InitialRecords \in Snapshot
  /\ GuestSnapshots \subseteq Snapshot
  /\ \A k \in Keys : SyncVals[k] \subseteq ValsOf(k)

VARIABLES
  active,    \* users/{id} exists and its authorization generation is current
  meta,      \* users/{id}/syncMetadata/account
  progress,  \* the record collection of every generation
  genDoc,    \* users/{id}/progressGenerations/{n}: [state, source]
  op,        \* accounts/{id}/adoptionTransfers/{session}
  h          \* the handler each worker is running

vars == <<active, meta, progress, genDoc, op, h>>

Gens == 0 .. MaxGen

-----------------------------------------------------------------------------
(* Documents *)

States == {"absent", "collecting", "sealed", "result_building", "preview_ready",
           "applying", "complete"}

EmptySnapshot == [k \in Keys |-> None]

NoPreview  == [set |-> FALSE, gen |-> 0, rev |-> 0, recs |-> EmptySnapshot]
NoChoice   == [k \in {} |-> "keep_account"]
NoDecision == [set |-> FALSE, choices |-> [resolutions |-> NoChoice, groupChoices |-> NoChoice]]
NoApply    == [cursor |-> 0, total |-> 0, changes |-> 0, gen |-> 0, rev |-> 0]

AbsentOp == [state    |-> "absent",
             expected |-> 0,            \* expectedGeneration
             target   |-> 0,            \* targetGeneration
             guest    |-> EmptySnapshot,\* the sealed records
             result   |-> FALSE,        \* the result chunk is stored
             preview  |-> NoPreview,    \* what previewFingerprint is a hash of
             decision |-> NoDecision,   \* what decisionFingerprint is a hash of
             rows     |-> {},           \* stored decision rows
             apply    |-> NoApply]      \* applyCursor, applyTotal, ...

Idle == [pc |-> "idle", session |-> None, gen |-> 0, rev |-> 0,
         recs |-> EmptySnapshot, choices |-> NoDecision.choices, rows |-> {}, cursor |-> 0]

ActiveRecords == progress[meta.generation]

\* The account is at the (generation, revision) pair: assertAdoptionApplySource.
SourceIs_GenerationOnly(g, r) == meta.generation = g
SourceIs(g, r) == meta.generation = g /\ meta.revision = r

\* What opens every transaction: the user exists and
\* assertExpectedAuthorizationGeneration.  The generation a request carries was
\* current when it was admitted, and only a deletion raises it.
Authorized_Unchecked == TRUE
Authorized == active

\* assertAtomicTrackGroups
WholeTracks(m) == \A t \in Tracks : Present(m, Key("goal", t)) = Present(m, Key("learning_plan", t))

\* The decision rows a confirmation is stored as: adoptionTransfers/{s}/decisions.
DecisionRows(g, r) ==
  {<<"meta", None>>} \cup {<<"resolution", k>> : k \in Conflicts(g, r)}
                     \cup {<<"group", t>> : t \in GroupTracks(g, r)}

\* parseAdoptionDecisionRows rebuilds the confirmation; its fingerprint matches
\* when no resolution and no group choice is missing.
DecisionComplete(o) ==
  /\ o.rows # {}
  /\ DecisionRows(o.guest, o.preview.recs) \ o.rows \subseteq {<<"meta", None>>}

-----------------------------------------------------------------------------
(* Staging: the materialization's records in key order, as a cursor. *)

Rank(m, k)  == Cardinality({j \in Keys : Present(m, j) /\ KeyRank[j] < KeyRank[k]})
Total(m)    == Cardinality({k \in Keys : Present(m, k)})
Prefix(m, n) == {k \in Keys : Present(m, k) /\ Rank(m, k) < n}

\* What worker w materializes, from what it read before its transactions.
Merged(w) ==
  Materialize(op[h[w].session].guest, h[w].recs, op[h[w].session].decision.choices)
Changes(w) ==
  Cardinality(Writes(op[h[w].session].guest, h[w].recs, op[h[w].session].decision.choices))

\* assertAdoptionApplyCheckpoint
CheckpointOK(w) ==
  LET a == op[h[w].session].apply
  IN  /\ a.total = Total(Merged(w))
      /\ a.changes = Changes(w)
      /\ a.gen = h[w].gen
      /\ a.rev = h[w].rev
      /\ a.cursor <= a.total

\* A later request may go on with a begun promotion even when its lease ran out,
\* as long as no other session has taken the account over.
MayResume_Leased(s) == meta.owner = s /\ meta.target = op[s].target /\ meta.leased
MayResume(s)        == meta.owner = s /\ meta.target = op[s].target

\* The row cursor is where this handler left it.
AtCursor(w)     == op[h[w].session].apply.cursor = h[w].cursor

\* The lease names this session's promotion: owner, target and source agree.
LeaseNames_Any(s, g, r) == meta.owner # None
LeaseNames(s, g, r) ==
  /\ meta.owner = s
  /\ meta.target = op[s].target
  /\ meta.srcGen = g
  /\ meta.srcRev = r

TakeLease(s, g, r) ==
  [meta EXCEPT !.owner = s, !.target = op[s].target, !.srcGen = g, !.srcRev = r,
               !.leased = TRUE]

ReleaseLease(m) ==
  [m EXCEPT !.owner = None, !.target = 0, !.srcGen = 0, !.srcRev = 0, !.leased = FALSE]

GenerationBuilding(s) ==
  genDoc[op[s].target] = [state |-> "building", source |-> s]

-----------------------------------------------------------------------------
Init ==
  /\ active = TRUE
  /\ meta = [generation |-> 0,
             revision   |-> Total(InitialRecords),  \* one mutation wrote each record
             counter    |-> 0,                      \* adoptionGenerationCounter
             owner      |-> None,                   \* adoptionPromotionSessionId
             target     |-> 0, srcGen |-> 0, srcRev |-> 0,
             leased     |-> FALSE]                  \* the lease has not expired
  /\ progress = [n \in Gens |-> IF n = 0 THEN InitialRecords ELSE EmptySnapshot]
  /\ genDoc = [n \in Gens |-> [state |-> "none", source |-> None]]
  /\ op = [s \in Sessions |-> AbsentOp]
  /\ h = [w \in Workers |-> Idle]

\* A handler of worker w moves on; UNCHANGED lists are per action.
Goto(w, pc) == h' = [h EXCEPT ![w].pc = pc]
Return(w)   == h' = [h EXCEPT ![w] = Idle]

-----------------------------------------------------------------------------
(* startAdoptionTransfer: reserves a generation number no one else has. *)

FreshGeneration_NoCounter == meta.generation + 1
FreshGeneration ==
  IF meta.generation > meta.counter THEN meta.generation + 1 ELSE meta.counter + 1

StartTransfer(s) ==
  LET target == FreshGeneration
  IN  /\ active
      /\ op[s].state = "absent"
      /\ target <= MaxGen
      /\ op' = [op EXCEPT ![s].state = "collecting",
                          ![s].expected = meta.generation,
                          ![s].target = target]
      /\ meta' = [meta EXCEPT !.counter = target]
      /\ UNCHANGED <<active, progress, genDoc, h>>

\* Uploads and the seal, as one step: from here on the session's records are
\* fixed.
SealTransfer(s) ==
  /\ active
  /\ op[s].state = "collecting"
  /\ \E g \in GuestSnapshots :
       op' = [op EXCEPT ![s].state = "sealed", ![s].guest = g]
  /\ UNCHANGED <<active, meta, progress, genDoc, h>>

-----------------------------------------------------------------------------
(* readSnapshot: the metadata and the record collection are read one after *)
(* the other, outside any transaction.                                     *)

ReadMeta(w, pc, next) ==
  /\ h[w].pc = pc
  /\ h' = [h EXCEPT ![w].pc = next, ![w].gen = meta.generation, ![w].rev = meta.revision]
  /\ UNCHANGED <<active, meta, progress, genDoc, op>>

ReadRecords(w, pc, next) ==
  /\ h[w].pc = pc
  /\ h' = [h EXCEPT ![w].pc = next, ![w].recs = progress[h[w].gen]]
  /\ UNCHANGED <<active, meta, progress, genDoc, op>>

-----------------------------------------------------------------------------
(* previewAdoptionTransfer.  Once the session has a preview, a later request *)
(* only recomputes it and compares, so it changes nothing.                  *)

PreviewBegin(w, s) ==
  /\ h[w].pc = "idle"
  /\ active
  /\ op[s].state \in {"sealed", "result_building"}  \* no preview is stored yet
  /\ op' = [op EXCEPT ![s].state = "result_building"]
  /\ h' = [h EXCEPT ![w] = [Idle EXCEPT !.pc = "preview_meta", !.session = s]]
  /\ UNCHANGED <<active, meta, progress, genDoc>>

PreviewReadMeta(w)    == ReadMeta(w, "preview_meta", "preview_records")

\* Refused when the guest holds a goal without its plan or a plan without its
\* goal (assertAtomicTrackGroups): that session never leaves result_building.
PreviewReadRecords(w) ==
  LET o == op[h[w].session]
  IN  /\ ReadRecords(w, "preview_records", "preview_store")
      /\ BundlesOK(o.guest) /\ BundlesOK(progress[h[w].gen])
      /\ WholeTracks(o.guest)

\* What this handler's preview is a hash of.
PreviewOf(w) == [set |-> TRUE, gen |-> h[w].gen, rev |-> h[w].rev, recs |-> h[w].recs]

\* previewFingerprint covers the revision and the records, not the generation.
SamePreview(p, q) == p.set /\ q.set /\ p.rev = q.rev /\ p.recs = q.recs

\* The result chunk is a function of the sealed records; an empty guest
\* snapshot has none.
PreviewStoreResult(w) ==
  LET s == h[w].session
  IN  /\ h[w].pc = "preview_store"
      /\ Authorized
      /\ \/ /\ op[s].state = "result_building"
            /\ op' = [op EXCEPT ![s].result = TRUE]
         \/ /\ op[s].state \in {"preview_ready", "applying", "complete"}
            /\ SamePreview(op[s].preview, PreviewOf(w))
            /\ op[s].result
            /\ UNCHANGED op
      /\ Goto(w, "preview_ready")
      /\ UNCHANGED <<active, meta, progress, genDoc>>

PreviewReady(w) ==
  LET s == h[w].session
  IN  /\ h[w].pc = "preview_ready"
      /\ Authorized
      /\ \/ /\ SamePreview(op[s].preview, PreviewOf(w))
            /\ UNCHANGED op
         \/ /\ ~op[s].preview.set
            /\ op[s].state = "result_building"
            /\ op[s].result
            /\ op' = [op EXCEPT ![s].state = "preview_ready", ![s].preview = PreviewOf(w)]
      /\ Return(w)
      /\ UNCHANGED <<active, meta, progress, genDoc>>

-----------------------------------------------------------------------------
(* confirmAdoptionTransfer: the client's choices c, for the stored preview. *)

ConfirmRead(w, s, c) ==
  /\ h[w].pc = "idle"
  /\ active
  /\ op[s].state \in {"preview_ready", "applying", "complete"}
  /\ h' = [h EXCEPT ![w] = [Idle EXCEPT
             !.pc = IF op[s].decision.set THEN "confirm_decide" ELSE "confirm_meta",
             !.session = s, !.choices = c,
             !.rows = DecisionRows(op[s].guest, op[s].preview.recs)]]
  /\ UNCHANGED <<active, meta, progress, genDoc, op>>

ConfirmReadMeta(w) == ReadMeta(w, "confirm_meta", "confirm_records")

\* The preview is recomputed and must still be the stored one.
ConfirmReadRecords(w) ==
  /\ ReadRecords(w, "confirm_records", "confirm_decide")
  /\ SamePreview(op[h[w].session].preview, PreviewOf(w)')

ConfirmDecide(w) ==
  LET s == h[w].session
      d == [set |-> TRUE, choices |-> h[w].choices]
  IN  /\ h[w].pc = "confirm_decide"
      /\ Authorized
      /\ op[s].decision \in {NoDecision, d}
      /\ op[s].state \in {"preview_ready", "applying", "complete"}
      /\ op' = [op EXCEPT ![s].decision = d]
      /\ Goto(w, "confirm_rows")
      /\ UNCHANGED <<active, meta, progress, genDoc>>

\* One transaction per chunk of decision rows; a row that exists is compared,
\* never overwritten.
ConfirmRows(w, chunk) ==
  LET s == h[w].session
  IN  /\ h[w].pc = "confirm_rows"
      /\ Authorized
      /\ chunk \subseteq h[w].rows
      /\ chunk # {} /\ Cardinality(chunk) <= DecisionBatch
      /\ op[s].decision = [set |-> TRUE, choices |-> h[w].choices]
      /\ op[s].state \in {"preview_ready", "applying", "complete"}
      /\ op' = [op EXCEPT ![s].rows = @ \cup chunk]
      /\ IF h[w].rows = chunk THEN Return(w)
                              ELSE h' = [h EXCEPT ![w].rows = @ \ chunk]
      /\ UNCHANGED <<active, meta, progress, genDoc>>

-----------------------------------------------------------------------------
(* applyAdoptionTransfer *)

ApplyRead(w, s) ==
  /\ h[w].pc = "idle"
  /\ active
  /\ op[s].decision.set
  /\ op[s].state \in {"preview_ready", "applying"}
  /\ h' = [h EXCEPT ![w] = [Idle EXCEPT !.pc = "apply_meta", !.session = s]]
  /\ UNCHANGED <<active, meta, progress, genDoc, op>>

ApplyReadMeta(w) ==
  /\ h[w].pc = "apply_meta"
  /\ DecisionComplete(op[h[w].session])
  /\ ReadMeta(w, "apply_meta", "apply_records")

\* The account must still be what was previewed; otherwise the request fails
\* with adoption_transfer_preview_stale before anything is written.
ApplyReadRecords(w) ==
  LET p == op[h[w].session].preview
  IN  /\ ReadRecords(w, "apply_records", "apply_begin")
      /\ h[w].gen = p.gen
      /\ SamePreview(p, PreviewOf(w)')

\* The first apply of the session: pin the source, take the lease, open the
\* target generation.
ApplyBegin(w) ==
  LET s == h[w].session
  IN  /\ h[w].pc = "apply_begin"
      /\ Authorized
      /\ op[s].state = "preview_ready"
      /\ SourceIs(op[s].preview.gen, op[s].preview.rev)
      /\ ~(meta.leased /\ meta.owner # s)
      /\ op' = [op EXCEPT ![s].state = "applying",
                          ![s].apply = [cursor  |-> 0,
                                        total   |-> Total(Merged(w)),
                                        changes |-> Changes(w),
                                        gen     |-> op[s].preview.gen,
                                        rev     |-> op[s].preview.rev]]
      /\ meta' = TakeLease(s, op[s].preview.gen, op[s].preview.rev)
      /\ genDoc' = [genDoc EXCEPT ![op[s].target] = [state |-> "building", source |-> s]]
      /\ h' = [h EXCEPT ![w].pc = "apply_stage", ![w].cursor = 0]
      /\ UNCHANGED <<active, progress>>

\* A later apply request: continue from the stored cursor, re-taking the lease
\* if the source has not moved and no other session took it over.
ApplyResume(w) ==
  LET s == h[w].session
  IN  /\ h[w].pc = "apply_begin"
      /\ Authorized
      /\ op[s].state = "applying"
      /\ CheckpointOK(w)
      /\ SourceIs(h[w].gen, h[w].rev)
      /\ MayResume(s)
      /\ GenerationBuilding(s)
      /\ meta' = [meta EXCEPT !.leased = TRUE]
      /\ h' = [h EXCEPT ![w].pc = "apply_stage", ![w].cursor = op[s].apply.cursor]
      /\ UNCHANGED <<active, progress, genDoc, op>>

\* One transaction stages the rows from the cursor up to n: at most a batch,
\* fewer when the rows are large.
ApplyStage(w, n) ==
  LET s == h[w].session
      m == Merged(w)
  IN  /\ h[w].pc = "apply_stage"
      /\ h[w].cursor < n /\ n <= h[w].cursor + StageBatch /\ n <= Total(m)
      /\ Authorized
      /\ CheckpointOK(w)
      /\ op[s].state = "applying"
      /\ AtCursor(w)
      /\ SourceIs(h[w].gen, h[w].rev)
      /\ meta.leased
      /\ LeaseNames(s, h[w].gen, h[w].rev)
      /\ GenerationBuilding(s)
      /\ progress' = [progress EXCEPT ![op[s].target] =
                        [k \in Keys |-> IF k \in Prefix(m, n) \ Prefix(m, h[w].cursor)
                                          THEN m[k] ELSE @[k]]]
      /\ op' = [op EXCEPT ![s].apply.cursor = n]
      /\ h' = [h EXCEPT ![w].cursor = n]
      /\ UNCHANGED <<active, meta, genDoc>>

\* The promotion: the only step that moves the generation pointer.
ApplyComplete(w) ==
  LET s == h[w].session
  IN  /\ h[w].pc = "apply_stage"
      /\ h[w].cursor = Total(Merged(w))
      /\ Authorized
      /\ CheckpointOK(w)
      /\ op[s].state = "applying"
      /\ op[s].apply.cursor = op[s].apply.total
      /\ SourceIs(h[w].gen, h[w].rev)
      /\ meta.leased
      /\ LeaseNames(s, h[w].gen, h[w].rev)
      /\ GenerationBuilding(s)
      /\ op[s].target > op[s].expected
      /\ meta' = [ReleaseLease(meta) EXCEPT !.generation = op[s].target,
                                            !.revision = op[s].apply.rev + op[s].apply.changes]
      /\ genDoc' = [genDoc EXCEPT ![op[s].target] = [state |-> "active", source |-> s]]
      /\ op' = [op EXCEPT ![s].state = "complete"]
      /\ Return(w)
      /\ UNCHANGED <<active, progress>>

\* The request fails or its process dies; nothing it holds survives.
Stop(w) ==
  /\ h[w].pc # "idle"
  /\ Return(w)
  /\ UNCHANGED <<active, meta, progress, genDoc, op>>

-----------------------------------------------------------------------------
(* The rest of the account's life *)

\* applyBatch commits a batch for the keys of vals: refused while any
\* promotion lease is active.
SyncBatch(vals) ==
  LET ks == DOMAIN vals
      m  == [k \in Keys |-> IF k \in ks THEN [val |-> vals[k], ver |-> NextVersion(ActiveRecords, k)]
                                        ELSE ActiveRecords[k]]
  IN  /\ active
      /\ ~(meta.owner # None /\ meta.leased)
      /\ BundlesOK(m)
      /\ meta.revision + Cardinality(ks) <= MaxRev
      /\ progress' = [progress EXCEPT ![meta.generation] = m]
      /\ meta' = [meta EXCEPT !.revision = @ + Cardinality(ks)]
      /\ UNCHANGED <<active, genDoc, op, h>>

\* confirmAdoption, the one-transaction adoption: it does not look at the lease.
OneShotAdoption(g, c) ==
  LET n == Cardinality(Writes(g, ActiveRecords, c))
  IN  /\ active
      /\ meta.revision + n <= MaxRev
      /\ progress' = [progress EXCEPT ![meta.generation] = Materialize(g, ActiveRecords, c)]
      /\ meta' = [meta EXCEPT !.revision = @ + n]
      /\ UNCHANGED <<active, genDoc, op, h>>

\* ADOPTION_PROMOTION_LEASE_MS pass without a renewal.
LeaseExpires ==
  /\ meta.leased
  /\ meta' = [meta EXCEPT !.leased = FALSE]
  /\ UNCHANGED <<active, progress, genDoc, op, h>>

\* prepareDeletionOperation: the authorization generation moves, for good.
DeleteAccount ==
  /\ active
  /\ active' = FALSE
  /\ UNCHANGED <<meta, progress, genDoc, op, h>>

-----------------------------------------------------------------------------
ReadStep(w) ==
  \/ PreviewReadMeta(w) \/ PreviewReadRecords(w)
  \/ ConfirmReadMeta(w) \/ ConfirmReadRecords(w)
  \/ ApplyReadMeta(w)   \/ ApplyReadRecords(w)

CommitStep(w) ==
  \/ PreviewStoreResult(w) \/ PreviewReady(w)
  \/ ConfirmDecide(w)
  \/ \E chunk \in SUBSET h[w].rows : ConfirmRows(w, chunk)
  \/ ApplyBegin(w) \/ ApplyResume(w)
  \/ \E n \in 1 .. Cardinality(Keys) : ApplyStage(w, n)
  \/ ApplyComplete(w)

Request(w, s) ==
  \/ PreviewBegin(w, s)
  \/ \E c \in Confirmations(op[s].guest, op[s].preview.recs) : ConfirmRead(w, s, c)
  \/ ApplyRead(w, s)

SyncBatches == UNION {{f \in [ks -> UNION {SyncVals[k] : k \in ks}] :
                         \A k \in ks : f[k] \in SyncVals[k]} : ks \in (SUBSET Keys) \ {{}}}

AccountStep ==
  \/ \E vals \in SyncBatches : SyncBatch(vals)
  \/ \E g \in GuestSnapshots : \E c \in Confirmations(g, ActiveRecords) : OneShotAdoption(g, c)
  \/ LeaseExpires
  \/ DeleteAccount

Next ==
  \/ \E s \in Sessions : StartTransfer(s) \/ SealTransfer(s)
  \/ \E w \in Workers, s \in Sessions : Request(w, s)
  \/ \E w \in Workers : ReadStep(w) \/ CommitStep(w) \/ Stop(w)
  \/ AccountStep

Spec == Init /\ [][Next]_vars

\* Clients repeat an apply request until the transfer is complete, a request
\* that can go no further answers with an error, and not every attempt is cut
\* off at the same point.
Fairness ==
  /\ \A w \in Workers : WF_vars(Stop(w))
  /\ SF_vars(\E w \in Workers, s \in Sessions : ApplyRead(w, s))
  /\ SF_vars(\E w \in Workers : ApplyReadMeta(w))
  /\ SF_vars(\E w \in Workers : ApplyReadRecords(w))
  /\ SF_vars(\E w \in Workers : ApplyResume(w))
  /\ SF_vars(\E w \in Workers, n \in 1 .. Cardinality(Keys) : ApplyStage(w, n))
  /\ SF_vars(\E w \in Workers : ApplyComplete(w))

FairSpec == Spec /\ Fairness

-----------------------------------------------------------------------------
(* The account as a client sees it: AccountSnapshot, with the records of the *)
(* active generation and every generation that was ever promoted.           *)

Promoted == {0} \cup {n \in Gens : genDoc[n].state = "active"}

Account == INSTANCE AccountSnapshot WITH
  gen <- meta.generation, gens <- Promoted, rev <- meta.revision, recs <- ActiveRecords

\* The transfer with all its requests, retries, crashes and lease take-overs
\* does only what one atomic merge of a whole guest snapshot does: no reader
\* ever sees a half-staged, doubled or stale merge.
ImplementsAccountSnapshot == Account!Spec

\* What clients rely on of an account that is read page by page and written by
\* compare-and-set: see AccountSnapshot.
PairNamesRecords == Account!PairNamesRecords

Choices    == [resolutions: UNION {[ks -> Choice] : ks \in SUBSET Keys},
               groupChoices: UNION {[ts -> Choice] : ts \in SUBSET Tracks}]
Rows       == {<<"meta", None>>} \cup ({"resolution"} \X Keys) \cup ({"group"} \X Tracks)
Operation  == [state: States, expected: Gens, target: Gens, guest: Snapshot, result: BOOLEAN,
               preview: [set: BOOLEAN, gen: Gens, rev: Nat, recs: Snapshot],
               decision: [set: BOOLEAN, choices: Choices],
               rows: SUBSET Rows,
               apply: [cursor: Nat, total: Nat, changes: Nat, gen: Gens, rev: Nat]]
HandlerPcs == {"idle", "preview_meta", "preview_records", "preview_store", "preview_ready",
               "confirm_meta", "confirm_records", "confirm_decide", "confirm_rows",
               "apply_meta", "apply_records", "apply_begin", "apply_stage"}
Handler    == [pc: HandlerPcs, session: Sessions \cup {None}, gen: Gens, rev: Nat,
               recs: Snapshot, choices: Choices, rows: SUBSET Rows, cursor: Nat]

TypeOK ==
  /\ active \in BOOLEAN
  /\ meta \in [generation: Gens, revision: Nat, counter: Gens,
               owner: Sessions \cup {None}, target: Gens, srcGen: Gens, srcRev: Nat,
               leased: BOOLEAN]
  /\ meta.leased => meta.owner # None
  /\ progress \in [Gens -> Snapshot]
  /\ genDoc \in [Gens -> [state: {"none", "building", "active"}, source: Sessions \cup {None}]]
  /\ op \in [Sessions -> Operation]
  /\ h \in [Workers -> Handler]
  /\ \A w \in Workers : h[w].pc # "idle" => h[w].session \in Sessions

\* The merge a session's operation stands for, once it is decided.
MergeOf(o) == Materialize(o.guest, o.preview.recs, o.decision.choices)

\* From the first apply transaction to the promotion the target generation
\* holds exactly the first applyCursor records of the merge of the previewed
\* account: nothing of an earlier attempt, of another worker, of another
\* session or of a later account state.
StagedPrefix ==
  \A s \in Sessions :
    LET m == MergeOf(op[s])
    IN  op[s].state = "applying" =>
          progress[op[s].target] =
            [k \in Keys |-> IF k \in Prefix(m, op[s].apply.cursor) THEN m[k] ELSE None]

\* What becomes active is the merge the user confirmed, of the account the
\* user was shown: at that moment the account still is the previewed one.
PromotesWhatWasConfirmed ==
  [][\A s \in Sessions :
       op[s].state # "complete" /\ op'[s].state = "complete" =>
         /\ ActiveRecords = op[s].preview.recs
         /\ meta.revision = op[s].preview.rev
         /\ meta'.generation = op[s].target
         /\ progress'[op[s].target] = MergeOf(op[s])]_vars

\* Records are written in two places only: the active generation, or the
\* target of the one session that owns the promotion.  A superseded generation
\* and the target of a superseded session stay as they are.
OneWriterPerGeneration ==
  [][\A n \in Gens :
       progress'[n] # progress[n] =>
         \/ n = meta.generation
         \/ /\ meta.owner # None /\ n = op[meta.owner].target
            /\ genDoc[n] = [state |-> "building", source |-> meta.owner]]_vars

\* A promotion that has begun is never wedged by crashes, lost answers, lease
\* expiries or a second request for the same session: as long as the account
\* it was pinned to is unchanged, repeating the request completes it.
BegunPromotionCompletes ==
  \A s \in Sessions :
    op[s].state = "applying" ~>
      \/ op[s].state = "complete"
      \/ meta.owner # s
      \/ ~SourceIs(op[s].apply.gen, op[s].apply.rev)
      \/ ~active

\* compareAndSwapAdoptionGeneration: a promotion replaces the generation its
\* session was started for.
GenerationSwapsFromExpected ==
  [][\A s \in Sessions :
       op[s].state # "complete" /\ op'[s].state = "complete" =>
         meta.generation = op[s].expected]_vars

\* Once a deletion has claimed the account no request still in flight changes
\* its progress; the lease only runs out.
DeletedAccountIsFrozen ==
  [][~active => /\ UNCHANGED <<progress, genDoc, op>>
                /\ meta' \in {meta, [meta EXCEPT !.leased = FALSE]}]_vars
=============================================================================
