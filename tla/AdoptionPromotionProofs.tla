------------------------ MODULE AdoptionPromotionProofs ------------------------
(***************************************************************************)
(* Theorems about the adoption transfer, for every number of sessions,     *)
(* handlers, records, generations and batch sizes.                         *)
(***************************************************************************)
EXTENDS AdoptionPromotion, FiniteSetTheorems, TLAPS

-----------------------------------------------------------------------------
(* The merge operators *)

\* There are finitely many record keys.
LEMMA KeysFinite == IsFiniteSet(Keys)
<1>1. IsFiniteSet(ItemKeys)
  <2> DEFINE f == [i \in Items |-> Key("item", i)]
  <2>1. f \in Surjection(Items, ItemKeys)
    BY DEF Surjection, ItemKeys
  <2> QED  BY <2>1, FiniteAssumption, FS_Surjection
<1>2. IsFiniteSet(GoalPlanTypes)
  <2>1. GoalPlanTypes = ({} \cup {"goal"}) \cup {"learning_plan"}
    BY DEF GoalPlanTypes
  <2> QED  BY <2>1, FS_EmptySet, FS_AddElement
<1>3. IsFiniteSet(GoalPlanKeys)
  <2> DEFINE P == GoalPlanTypes \X Tracks
             f == [p \in P |-> Key(p[1], p[2])]
  <2>1. IsFiniteSet(P)
    BY <1>2, FiniteAssumption, FS_Product
  <2>2. f \in Surjection(P, GoalPlanKeys)
    BY DEF Surjection, GoalPlanKeys
  <2> HIDE DEF P, f
  <2> QED  BY <2>1, <2>2, FS_Surjection
<1> QED  BY <1>1, <1>3, FS_Union DEF Keys

\* Any set of keys has a natural number of elements, and a part of it fewer.
LEMMA KeyCardinality ==
  ASSUME NEW S \in SUBSET Keys
  PROVE  /\ IsFiniteSet(S)
         /\ Cardinality(S) \in Nat
         /\ \A T \in SUBSET S : /\ Cardinality(T) <= Cardinality(S)
                                /\ T # S => Cardinality(T) < Cardinality(S)
<1>1. IsFiniteSet(S)
  BY KeysFinite, FS_Subset
<1>2. Cardinality(S) \in Nat
  BY <1>1, FS_CardinalityType
<1>3. ASSUME NEW T \in SUBSET S
      PROVE  /\ Cardinality(T) <= Cardinality(S)
             /\ T # S => Cardinality(T) < Cardinality(S)
  <2>1. /\ IsFiniteSet(T)
        /\ Cardinality(T) <= Cardinality(S)
        /\ Cardinality(S) = Cardinality(T) => S = T
    BY <1>1, FS_Subset
  <2>2. Cardinality(T) \in Nat
    BY <2>1, FS_CardinalityType
  <2> QED  BY <1>2, <2>1, <2>2
<1> QED  BY <1>1, <1>2, <1>3

\* A merge writes records of the key space only.
LEMMA WritesAreKeys ==
  ASSUME NEW g, NEW r, NEW c
  PROVE  Writes(g, r, c) \subseteq Keys
BY DEF Writes, GroupWrites, RecordWrites, Grouped, Uploads, Conflicts, Ungrouped, Keys

\* The merge of two snapshots is a snapshot: what is written for a key is a
\* state of a record of the guest or a tombstone, one version up.
LEMMA MaterializeType ==
  ASSUME NEW g \in Snapshot, NEW r \in Snapshot, NEW c
  PROVE  Materialize(g, r, c) \in Snapshot
<1> SUFFICES ASSUME NEW k \in Keys, k \in Writes(g, r, c)
             PROVE  [val |-> WrittenVal(g, r, k), ver |-> NextVersion(r, k)] \in Record
  BY DEF Materialize, Snapshot
<1>1. NextVersion(r, k) \in Nat
  BY DEF NextVersion, Present, Snapshot, Record
<1>2. Tombstone \in UNION {ValsOf(j) : j \in Keys}
  <2>1. Tombstone \in ValsOf(k)
    BY DEF ValsOf
  <2> QED  BY <2>1
<1>3. WrittenVal(g, r, k) \in UNION {ValsOf(j) : j \in Keys}
  <2>1. CASE k \in Grouped(g, r) /\ ~Live(g, k)
    BY <2>1, <1>2 DEF WrittenVal
  <2>2. CASE ~(k \in Grouped(g, r) /\ ~Live(g, k))
    <3>1. Present(g, k)
      BY <2>2 DEF Writes, GroupWrites, RecordWrites, Uploads, Conflicts, Ungrouped, Live
    <3> QED  BY <2>2, <3>1 DEF WrittenVal, Present, Snapshot, Record
  <2> QED  BY <2>1, <2>2
<1> QED  BY <1>1, <1>3 DEF Record

-----------------------------------------------------------------------------
(* Types *)

LEMMA IdleType == /\ EmptySnapshot \in Snapshot
                  /\ NoDecision.choices \in Choices
                  /\ NoDecision \in [set: BOOLEAN, choices: Choices]
                  /\ Idle \in Handler
                  /\ AbsentOp \in Operation
<1>1. EmptySnapshot \in Snapshot
  BY DEF EmptySnapshot, Snapshot
<1>2. NoChoice \in [{} -> Choice]
  BY DEF NoChoice
<1>3. NoDecision.choices \in Choices
  BY <1>2 DEF NoDecision, Choices
<1>4. NoDecision \in [set: BOOLEAN, choices: Choices]
  BY <1>3 DEF NoDecision
<1>5. 0 \in Gens
  BY BoundAssumption DEF Gens
<1>6. Idle \in Handler
  BY <1>1, <1>3, <1>5 DEF Idle, Handler, HandlerPcs
<1>7. AbsentOp \in Operation
  BY <1>1, <1>4, <1>5 DEF AbsentOp, Operation, States, NoPreview, NoApply
<1> QED  BY <1>1, <1>3, <1>4, <1>6, <1>7

\* A confirmation decides some of the records and some of the tracks.
LEMMA ConfirmationType ==
  ASSUME NEW g, NEW r, NEW c \in Confirmations(g, r)
  PROVE  c \in Choices
<1>1. Conflicts(g, r) \in SUBSET Keys
  BY DEF Conflicts, Ungrouped
<1>2. GroupTracks(g, r) \in SUBSET Tracks
  BY DEF GroupTracks
<1> HIDE DEF Conflicts, GroupTracks
<1> QED  BY <1>1, <1>2 DEF Confirmations, Choices

LEMMA DecisionRowsType ==
  ASSUME NEW g, NEW r
  PROVE  DecisionRows(g, r) \in SUBSET Rows
BY DEF DecisionRows, Rows, Conflicts, Ungrouped, GroupTracks

\* The cursor positions of a staged snapshot are natural numbers.
LEMMA TotalType ==
  ASSUME NEW m
  PROVE  /\ Total(m) \in Nat
         /\ \A k : Rank(m, k) \in Nat
<1>1. \A S \in SUBSET Keys : Cardinality(S) \in Nat
  BY KeyCardinality
<1>2. {k \in Keys : Present(m, k)} \in SUBSET Keys
  OBVIOUS
<1>3. \A k : {j \in Keys : Present(m, j) /\ KeyRank[j] < KeyRank[k]} \in SUBSET Keys
  OBVIOUS
<1> QED  BY <1>1, <1>2, <1>3 DEF Total, Rank

LEMMA ChangesType ==
  ASSUME NEW w
  PROVE  Changes(w) \in Nat
BY WritesAreKeys, KeyCardinality DEF Changes

LEMMA MergedType ==
  ASSUME TypeOK, NEW w \in Workers, h[w].pc # "idle"
  PROVE  Merged(w) \in Snapshot
<1>1. /\ op[h[w].session].guest \in Snapshot
      /\ h[w].recs \in Snapshot
  BY DEF TypeOK, Operation, Handler
<1> QED  BY <1>1, MaterializeType DEF Merged

\* A reserved generation number is beyond the counter.
LEMMA FreshIsNew ==
  ASSUME TypeOK
  PROVE  FreshGeneration \in Nat /\ FreshGeneration > meta.counter
BY BoundAssumption DEF TypeOK, Gens, FreshGeneration

LEMMA InitTypeOK == Init => TypeOK
<1> SUFFICES ASSUME Init PROVE TypeOK
  OBVIOUS
<1> USE BoundAssumption
<1>1. Total(InitialRecords) \in Nat
  BY TotalType
<1>2. 0 \in Gens
  BY DEF Gens
<1>3. meta \in [generation: Gens, revision: Nat, counter: Gens,
                owner: Sessions \cup {None}, target: Gens, srcGen: Gens, srcRev: Nat,
                leased: BOOLEAN]
  BY <1>1, <1>2 DEF Init
<1>4. progress \in [Gens -> Snapshot]
  BY IdleType, SnapshotAssumption DEF Init
<1>5. genDoc \in [Gens -> [state: {"none", "building", "active"}, source: Sessions \cup {None}]]
  BY DEF Init
<1>6. op \in [Sessions -> Operation] /\ h \in [Workers -> Handler]
  BY IdleType DEF Init
<1>7. \A w \in Workers : h[w].pc = "idle"
  BY DEF Init, Idle
<1>8. active \in BOOLEAN /\ ~meta.leased
  BY DEF Init
<1> QED  BY <1>3, <1>4, <1>5, <1>6, <1>7, <1>8 DEF TypeOK

\* One operation, or one handler, is replaced by a well-typed one.
LEMMA OpUpdate ==
  ASSUME TypeOK, NEW s \in Sessions, NEW o \in Operation, op' = [op EXCEPT ![s] = o]
  PROVE  op' \in [Sessions -> Operation]
BY DEF TypeOK

LEMMA HandlerUpdate ==
  ASSUME TypeOK, NEW w \in Workers, NEW x \in Handler, h' = [h EXCEPT ![w] = x],
         x.pc # "idle" => x.session \in Sessions
  PROVE  /\ h' \in [Workers -> Handler]
         /\ \A v \in Workers : h'[v].pc # "idle" => h'[v].session \in Sessions
BY DEF TypeOK

\* A handler that returns, or moves on, leaves the others alone.
LEMMA ReturnEffect ==
  ASSUME TypeOK, NEW w \in Workers, Return(w)
  PROVE  h'[w] = Idle /\ \A v \in Workers \ {w} : h'[v] = h[v]
<1>1. h \in [Workers -> Handler]
  BY DEF TypeOK
<1>2. h' = [h EXCEPT ![w] = Idle]
  BY DEF Return
<1> QED  BY <1>1, <1>2

LEMMA GotoEffect ==
  ASSUME TypeOK, NEW w \in Workers, NEW pc, Goto(w, pc)
  PROVE  \A v \in Workers \ {w} : h'[v] = h[v]
<1>1. h \in [Workers -> Handler]
  BY DEF TypeOK
<1>2. h' = [h EXCEPT ![w].pc = pc]
  BY DEF Goto
<1> QED  BY <1>1, <1>2

\* What a handler writes to itself.
LEMMA ReadMetaType ==
  ASSUME TypeOK, NEW w \in Workers, NEW pc, NEW next \in HandlerPcs \ {"idle"}, pc # "idle",
         ReadMeta(w, pc, next)
  PROVE  TypeOK'
<1> DEFINE x == [h[w] EXCEPT !.pc = next, !.gen = meta.generation, !.rev = meta.revision]
<1>1. h[w] \in Handler /\ meta.generation \in Gens /\ meta.revision \in Nat
  BY DEF TypeOK
<1>2. x \in Handler /\ x.session = h[w].session
  BY <1>1 DEF Handler
<1>3. h' = [h EXCEPT ![w] = x]
  BY DEF ReadMeta
<1>4. h[w].session \in Sessions
  BY DEF TypeOK, ReadMeta
<1> HIDE DEF x
<1>5. /\ h' \in [Workers -> Handler]
      /\ \A v \in Workers : h'[v].pc # "idle" => h'[v].session \in Sessions
  BY <1>2, <1>3, <1>4, HandlerUpdate
<1> QED  BY <1>5 DEF TypeOK, ReadMeta

LEMMA ReadRecordsType ==
  ASSUME TypeOK, NEW w \in Workers, NEW pc, NEW next \in HandlerPcs \ {"idle"}, pc # "idle",
         ReadRecords(w, pc, next)
  PROVE  TypeOK'
<1> DEFINE x == [h[w] EXCEPT !.pc = next, !.recs = progress[h[w].gen]]
<1>1. h[w] \in Handler /\ progress[h[w].gen] \in Snapshot
  BY DEF TypeOK, Handler
<1>2. x \in Handler /\ x.session = h[w].session
  BY <1>1 DEF Handler
<1>3. h' = [h EXCEPT ![w] = x]
  BY DEF ReadRecords
<1>4. h[w].session \in Sessions
  BY DEF TypeOK, ReadRecords
<1> HIDE DEF x
<1>5. /\ h' \in [Workers -> Handler]
      /\ \A v \in Workers : h'[v].pc # "idle" => h'[v].session \in Sessions
  BY <1>2, <1>3, <1>4, HandlerUpdate
<1> QED  BY <1>5 DEF TypeOK, ReadRecords

\* A handler of a known session that moves on, or returns, stays typed.
LEMMA GotoType ==
  ASSUME TypeOK, NEW w \in Workers, h[w].pc # "idle", NEW pc \in HandlerPcs,
         Goto(w, pc) \/ Return(w)
  PROVE  /\ h' \in [Workers -> Handler]
         /\ \A v \in Workers : h'[v].pc # "idle" => h'[v].session \in Sessions
<1>1. Idle \in Handler /\ Idle.pc = "idle"
  BY IdleType DEF Idle
<1>2. /\ h \in [Workers -> Handler]
      /\ \A v \in Workers : h[v].pc # "idle" => h[v].session \in Sessions
  BY DEF TypeOK
<1>3. CASE Return(w)
  BY <1>1, <1>2, <1>3 DEF Return
<1>4. CASE h' = [h EXCEPT ![w].pc = pc]
  BY <1>2, <1>4 DEF Handler
<1> QED  BY <1>3, <1>4 DEF Goto

LEMMA StepTypeOK == TypeOK /\ [Next]_vars => TypeOK'
<1> SUFFICES ASSUME TypeOK, [Next]_vars PROVE TypeOK'
  OBVIOUS
<1> USE BoundAssumption
<1>1. ASSUME NEW s \in Sessions, StartTransfer(s) PROVE TypeOK'
  <2>1. FreshGeneration \in Gens
    BY <1>1, FreshIsNew DEF StartTransfer, Gens
  <2>2. op' \in [Sessions -> Operation]
    <3> DEFINE o == [op[s] EXCEPT !.state = "collecting", !.expected = meta.generation,
                                  !.target = FreshGeneration]
    <3>1. op[s] \in Operation /\ meta.generation \in Gens
      BY DEF TypeOK
    <3>2. o \in Operation
      BY <2>1, <3>1 DEF Operation, States
    <3>3. op' = [op EXCEPT ![s] = o]
      BY <1>1 DEF StartTransfer
    <3> QED  BY <3>2, <3>3, OpUpdate
  <2>3. meta' \in [generation: Gens, revision: Nat, counter: Gens,
                   owner: Sessions \cup {None}, target: Gens, srcGen: Gens, srcRev: Nat,
                   leased: BOOLEAN] /\ (meta'.leased => meta'.owner # None)
    BY <1>1, <2>1 DEF TypeOK, StartTransfer
  <2> QED  BY <1>1, <2>2, <2>3 DEF TypeOK, StartTransfer
<1>2. ASSUME NEW s \in Sessions, SealTransfer(s) PROVE TypeOK'
  <2>1. op' \in [Sessions -> Operation]
    <3>1. op[s] \in Operation
      BY DEF TypeOK
    <3>2. PICK g \in Snapshot : op' = [op EXCEPT ![s] = [op[s] EXCEPT !.state = "sealed", !.guest = g]]
      BY <1>2, SnapshotAssumption DEF SealTransfer
    <3>3. [op[s] EXCEPT !.state = "sealed", !.guest = g] \in Operation
      BY <3>1 DEF Operation, States
    <3> QED  BY <3>2, <3>3, OpUpdate
  <2> QED  BY <1>2, <2>1 DEF TypeOK, SealTransfer
<1>3. ASSUME NEW w \in Workers, NEW s \in Sessions, PreviewBegin(w, s) PROVE TypeOK'
  <2>1. op' \in [Sessions -> Operation]
    <3>1. op \in [Sessions -> Operation]
      BY DEF TypeOK
    <3>2. op' = [op EXCEPT ![s].state = "result_building"] /\ op[s] \in Operation
      BY <1>3, <3>1 DEF PreviewBegin
    <3>3. [op[s] EXCEPT !.state = "result_building"] \in Operation
      BY <3>2 DEF Operation, States
    <3> QED  BY <3>1, <3>2, <3>3
  <2>2. /\ h' \in [Workers -> Handler]
        /\ \A v \in Workers : h'[v].pc # "idle" => h'[v].session \in Sessions
    BY <1>3, IdleType DEF TypeOK, PreviewBegin, Handler, HandlerPcs
  <2> QED  BY <1>3, <2>1, <2>2 DEF TypeOK, PreviewBegin
<1>4. ASSUME NEW w \in Workers, NEW s \in Sessions,
             NEW c \in Confirmations(op[s].guest, op[s].preview.recs), ConfirmRead(w, s, c)
      PROVE  TypeOK'
  <2>1. c \in Choices
    BY ConfirmationType
  <2>2. DecisionRows(op[s].guest, op[s].preview.recs) \in SUBSET Rows
    BY DecisionRowsType
  <2>3. /\ h' \in [Workers -> Handler]
        /\ \A v \in Workers : h'[v].pc # "idle" => h'[v].session \in Sessions
    BY <1>4, <2>1, <2>2, IdleType DEF TypeOK, ConfirmRead, Handler, HandlerPcs
  <2> QED  BY <1>4, <2>3 DEF TypeOK, ConfirmRead
<1>5. ASSUME NEW w \in Workers, NEW s \in Sessions, ApplyRead(w, s) PROVE TypeOK'
  <2>1. /\ h' \in [Workers -> Handler]
        /\ \A v \in Workers : h'[v].pc # "idle" => h'[v].session \in Sessions
    BY <1>5, IdleType DEF TypeOK, ApplyRead, Handler, HandlerPcs
  <2> QED  BY <1>5, <2>1 DEF TypeOK, ApplyRead
<1>6. ASSUME NEW w \in Workers, ReadStep(w) PROVE TypeOK'
  <2>1. CASE PreviewReadMeta(w) \/ ConfirmReadMeta(w) \/ ApplyReadMeta(w)
    BY <2>1, ReadMetaType DEF PreviewReadMeta, ConfirmReadMeta, ApplyReadMeta, HandlerPcs
  <2>2. CASE PreviewReadRecords(w) \/ ConfirmReadRecords(w) \/ ApplyReadRecords(w)
    BY <2>2, ReadRecordsType DEF PreviewReadRecords, ConfirmReadRecords, ApplyReadRecords, HandlerPcs
  <2> QED  BY <1>6, <2>1, <2>2 DEF ReadStep
<1>7. ASSUME NEW w \in Workers, PreviewStoreResult(w) PROVE TypeOK'
  <2>1. op' \in [Sessions -> Operation]
    <3> DEFINE s == h[w].session
    <3>1. s \in Sessions /\ op[s] \in Operation
      BY <1>7 DEF TypeOK, PreviewStoreResult
    <3>2. op' = [op EXCEPT ![s] = [op[s] EXCEPT !.result = TRUE]] \/ op' = op
      BY <1>7 DEF PreviewStoreResult
    <3>3. [op[s] EXCEPT !.result = TRUE] \in Operation
      BY <3>1 DEF Operation
    <3> QED  BY <3>1, <3>2, <3>3, OpUpdate DEF TypeOK
  <2>2. /\ h' \in [Workers -> Handler]
        /\ \A v \in Workers : h'[v].pc # "idle" => h'[v].session \in Sessions
    BY <1>7, GotoType DEF PreviewStoreResult, HandlerPcs
  <2> QED  BY <1>7, <2>1, <2>2 DEF TypeOK, PreviewStoreResult
<1>8. ASSUME NEW w \in Workers, PreviewReady(w) PROVE TypeOK'
  <2>1. PreviewOf(w) \in [set: BOOLEAN, gen: Gens, rev: Nat, recs: Snapshot]
    BY DEF PreviewOf, TypeOK, Handler
  <2>2. op' \in [Sessions -> Operation]
    <3> DEFINE s == h[w].session
               o == [op[s] EXCEPT !.state = "preview_ready", !.preview = PreviewOf(w)]
    <3>1. s \in Sessions /\ op[s] \in Operation
      BY <1>8 DEF TypeOK, PreviewReady
    <3>2. op' = [op EXCEPT ![s] = o] \/ op' = op
      BY <1>8 DEF PreviewReady
    <3>3. o \in Operation
      BY <2>1, <3>1 DEF Operation, States
    <3> QED  BY <3>1, <3>2, <3>3, OpUpdate DEF TypeOK
  <2>3. /\ h' \in [Workers -> Handler]
        /\ \A v \in Workers : h'[v].pc # "idle" => h'[v].session \in Sessions
    BY <1>8, GotoType DEF PreviewReady, HandlerPcs
  <2> QED  BY <1>8, <2>2, <2>3 DEF TypeOK, PreviewReady
<1>9. ASSUME NEW w \in Workers, ConfirmDecide(w) PROVE TypeOK'
  <2>1. h[w].choices \in Choices
    BY DEF TypeOK, Handler
  <2>2. op' \in [Sessions -> Operation]
    <3> DEFINE s == h[w].session
               o == [op[s] EXCEPT !.decision = [set |-> TRUE, choices |-> h[w].choices]]
    <3>1. s \in Sessions /\ op[s] \in Operation
      BY <1>9 DEF TypeOK, ConfirmDecide
    <3>2. op' = [op EXCEPT ![s] = o]
      BY <1>9 DEF ConfirmDecide
    <3>3. o \in Operation
      BY <2>1, <3>1 DEF Operation
    <3> QED  BY <3>1, <3>2, <3>3, OpUpdate
  <2>3. /\ h' \in [Workers -> Handler]
        /\ \A v \in Workers : h'[v].pc # "idle" => h'[v].session \in Sessions
    BY <1>9, GotoType DEF ConfirmDecide, HandlerPcs
  <2> QED  BY <1>9, <2>2, <2>3 DEF TypeOK, ConfirmDecide
<1>10. ASSUME NEW w \in Workers, NEW chunk \in SUBSET h[w].rows, ConfirmRows(w, chunk)
       PROVE  TypeOK'
  <2>1. h[w].rows \in SUBSET Rows /\ h[w].pc # "idle"
    BY <1>10 DEF TypeOK, Handler, ConfirmRows
  <2>2. op' \in [Sessions -> Operation]
    <3> DEFINE s == h[w].session
               o == [op[s] EXCEPT !.rows = @ \cup chunk]
    <3>1. s \in Sessions /\ op[s] \in Operation
      BY <2>1 DEF TypeOK
    <3>2. op' = [op EXCEPT ![s] = o]
      BY <1>10 DEF ConfirmRows
    <3>3. o \in Operation
      BY <2>1, <3>1 DEF Operation
    <3> QED  BY <3>1, <3>2, <3>3, OpUpdate
  <2>3. /\ h' \in [Workers -> Handler]
        /\ \A v \in Workers : h'[v].pc # "idle" => h'[v].session \in Sessions
    <3>1. CASE Return(w)
      BY <3>1, <2>1, GotoType DEF HandlerPcs
    <3>2. CASE h' = [h EXCEPT ![w].rows = @ \ chunk]
      BY <3>2, <2>1 DEF TypeOK, Handler
    <3> QED  BY <1>10, <3>1, <3>2 DEF ConfirmRows
  <2> QED  BY <1>10, <2>2, <2>3 DEF TypeOK, ConfirmRows
<1>11. ASSUME NEW w \in Workers, ApplyBegin(w) PROVE TypeOK'
  <2>1. /\ Total(Merged(w)) \in Nat
        /\ Changes(w) \in Nat
        /\ h[w].session \in Sessions
    BY <1>11, TotalType, ChangesType DEF ApplyBegin, TypeOK
  <2>2. op[h[w].session] \in Operation
    BY <2>1 DEF TypeOK
  <2>3. op' \in [Sessions -> Operation]
    BY <1>11, <2>1, <2>2 DEF TypeOK, ApplyBegin, Operation, States
  <2>4. meta' \in [generation: Gens, revision: Nat, counter: Gens,
                   owner: Sessions \cup {None}, target: Gens, srcGen: Gens, srcRev: Nat,
                   leased: BOOLEAN] /\ (meta'.leased => meta'.owner # None)
    BY <1>11, <2>1, <2>2, SessionAssumption DEF TypeOK, ApplyBegin, TakeLease, Operation
  <2>5. genDoc' \in [Gens -> [state: {"none", "building", "active"}, source: Sessions \cup {None}]]
    BY <1>11, <2>1, <2>2 DEF TypeOK, ApplyBegin
  <2>6. /\ h' \in [Workers -> Handler]
        /\ \A v \in Workers : h'[v].pc # "idle" => h'[v].session \in Sessions
    <3> DEFINE x == [h[w] EXCEPT !.pc = "apply_stage", !.cursor = 0]
    <3>1. h[w] \in Handler
      BY DEF TypeOK
    <3>2. h' = [h EXCEPT ![w] = x]
      BY <1>11 DEF ApplyBegin
    <3>3. x \in Handler /\ x.session = h[w].session
      BY <3>1 DEF Handler, HandlerPcs
    <3> HIDE DEF x
    <3> QED  BY <2>1, <3>2, <3>3, HandlerUpdate
  <2> QED  BY <1>11, <2>3, <2>4, <2>5, <2>6 DEF TypeOK, ApplyBegin
<1>12. ASSUME NEW w \in Workers, ApplyResume(w) PROVE TypeOK'
  <2>1. h[w].session \in Sessions /\ op[h[w].session] \in Operation
    BY <1>12 DEF TypeOK, ApplyResume
  <2>2. meta' \in [generation: Gens, revision: Nat, counter: Gens,
                   owner: Sessions \cup {None}, target: Gens, srcGen: Gens, srcRev: Nat,
                   leased: BOOLEAN] /\ (meta'.leased => meta'.owner # None)
    BY <1>12, <2>1, SessionAssumption DEF TypeOK, ApplyResume, MayResume
  <2>3. /\ h' \in [Workers -> Handler]
        /\ \A v \in Workers : h'[v].pc # "idle" => h'[v].session \in Sessions
    <3> DEFINE x == [h[w] EXCEPT !.pc = "apply_stage",
                                 !.cursor = op[h[w].session].apply.cursor]
    <3>1. h[w] \in Handler /\ op[h[w].session].apply.cursor \in Nat
      BY <2>1 DEF TypeOK, Operation
    <3>2. h' = [h EXCEPT ![w] = x]
      BY <1>12 DEF ApplyResume
    <3>3. x \in Handler /\ x.session = h[w].session
      BY <3>1 DEF Handler, HandlerPcs
    <3> HIDE DEF x
    <3> QED  BY <2>1, <3>2, <3>3, HandlerUpdate
  <2> QED  BY <1>12, <2>2, <2>3 DEF TypeOK, ApplyResume
<1>13. ASSUME NEW w \in Workers, NEW n \in 1 .. Cardinality(Keys), ApplyStage(w, n)
       PROVE  TypeOK'
  <2>1. n \in Nat
    OBVIOUS
  <2>2. Merged(w) \in Snapshot
    BY <1>13, MergedType DEF ApplyStage
  <2>3. h[w].session \in Sessions /\ op[h[w].session] \in Operation
    BY <1>13 DEF TypeOK, ApplyStage
  <2>4. progress' \in [Gens -> Snapshot]
    BY <1>13, <2>2, <2>3 DEF TypeOK, ApplyStage, Operation, Snapshot
  <2>5. op' \in [Sessions -> Operation]
    BY <1>13, <2>1, <2>3 DEF TypeOK, ApplyStage, Operation
  <2>6. /\ h' \in [Workers -> Handler]
        /\ \A v \in Workers : h'[v].pc # "idle" => h'[v].session \in Sessions
    <3> DEFINE x == [h[w] EXCEPT !.cursor = n]
    <3>1. h[w] \in Handler
      BY DEF TypeOK
    <3>2. x \in Handler /\ x.session = h[w].session
      BY <2>1, <3>1 DEF Handler
    <3>3. h' = [h EXCEPT ![w] = x]
      BY <1>13 DEF ApplyStage
    <3> HIDE DEF x
    <3> QED  BY <2>3, <3>2, <3>3, HandlerUpdate
  <2> QED  BY <1>13, <2>4, <2>5, <2>6 DEF TypeOK, ApplyStage
<1>14. ASSUME NEW w \in Workers, ApplyComplete(w) PROVE TypeOK'
  <2>1. h[w].session \in Sessions /\ op[h[w].session] \in Operation
    BY <1>14 DEF TypeOK, ApplyComplete
  <2>2. meta' \in [generation: Gens, revision: Nat, counter: Gens,
                   owner: Sessions \cup {None}, target: Gens, srcGen: Gens, srcRev: Nat,
                   leased: BOOLEAN] /\ (meta'.leased => meta'.owner # None)
    <3>1. /\ op[h[w].session].target \in Gens
          /\ op[h[w].session].apply.rev + op[h[w].session].apply.changes \in Nat
      BY <2>1 DEF Operation
    <3>2. 0 \in Gens
      BY DEF Gens
    <3>3. ReleaseLease(meta) \in
            [generation: Gens, revision: Nat, counter: Gens, owner: Sessions \cup {None},
             target: Gens, srcGen: Gens, srcRev: Nat, leased: {FALSE}]
      BY <3>2 DEF TypeOK, ReleaseLease
    <3> QED  BY <1>14, <3>1, <3>3 DEF ApplyComplete
  <2>3. genDoc' \in [Gens -> [state: {"none", "building", "active"}, source: Sessions \cup {None}]]
    BY <1>14, <2>1 DEF TypeOK, ApplyComplete
  <2>4. op' \in [Sessions -> Operation]
    <3> DEFINE s == h[w].session
               o == [op[s] EXCEPT !.state = "complete"]
    <3>1. op' = [op EXCEPT ![s] = o]
      BY <1>14 DEF ApplyComplete
    <3>2. o \in Operation
      BY <2>1 DEF Operation, States
    <3> QED  BY <2>1, <3>1, <3>2, OpUpdate
  <2>5. /\ h' \in [Workers -> Handler]
        /\ \A v \in Workers : h'[v].pc # "idle" => h'[v].session \in Sessions
    BY <1>14, GotoType DEF ApplyComplete, HandlerPcs
  <2> QED  BY <1>14, <2>2, <2>3, <2>4, <2>5 DEF TypeOK, ApplyComplete
<1>15. ASSUME NEW w \in Workers, Stop(w) PROVE TypeOK'
  <2>1. /\ h' \in [Workers -> Handler]
        /\ \A v \in Workers : h'[v].pc # "idle" => h'[v].session \in Sessions
    BY <1>15, GotoType DEF Stop, HandlerPcs
  <2> QED  BY <1>15, <2>1 DEF TypeOK, Stop
<1>16. ASSUME NEW vals \in SyncBatches, SyncBatch(vals) PROVE TypeOK'
  <2>1. /\ DOMAIN vals \in SUBSET Keys
        /\ \A k \in DOMAIN vals : vals[k] \in SyncVals[k]
    BY DEF SyncBatches
  <2>2. Cardinality(DOMAIN vals) \in Nat
    BY <2>1, KeyCardinality
  <2>3. ActiveRecords \in Snapshot
    BY DEF TypeOK, ActiveRecords
  <2>4. \A k \in DOMAIN vals : [val |-> vals[k], ver |-> NextVersion(ActiveRecords, k)] \in Record
    BY <2>1, <2>3, SnapshotAssumption DEF Record, NextVersion, Present, Snapshot
  <2>5. progress' \in [Gens -> Snapshot]
    BY <1>16, <2>1, <2>3, <2>4 DEF TypeOK, SyncBatch, Snapshot
  <2>6. meta' \in [generation: Gens, revision: Nat, counter: Gens,
                   owner: Sessions \cup {None}, target: Gens, srcGen: Gens, srcRev: Nat,
                   leased: BOOLEAN] /\ (meta'.leased => meta'.owner # None)
    BY <1>16, <2>2 DEF TypeOK, SyncBatch
  <2> QED  BY <1>16, <2>5, <2>6 DEF TypeOK, SyncBatch
<1>17. ASSUME NEW g \in GuestSnapshots, NEW c \in Confirmations(g, ActiveRecords),
              OneShotAdoption(g, c)
       PROVE  TypeOK'
  <2>1. Cardinality(Writes(g, ActiveRecords, c)) \in Nat
    BY WritesAreKeys, KeyCardinality
  <2>2. Materialize(g, ActiveRecords, c) \in Snapshot
    BY MaterializeType, SnapshotAssumption DEF TypeOK, ActiveRecords
  <2>3. progress' \in [Gens -> Snapshot]
    BY <1>17, <2>2 DEF TypeOK, OneShotAdoption
  <2>4. meta' \in [generation: Gens, revision: Nat, counter: Gens,
                   owner: Sessions \cup {None}, target: Gens, srcGen: Gens, srcRev: Nat,
                   leased: BOOLEAN] /\ (meta'.leased => meta'.owner # None)
    BY <1>17, <2>1 DEF TypeOK, OneShotAdoption
  <2> QED  BY <1>17, <2>3, <2>4 DEF TypeOK, OneShotAdoption
<1>18. CASE LeaseExpires
  BY <1>18 DEF TypeOK, LeaseExpires
<1>19. CASE DeleteAccount
  BY <1>19 DEF TypeOK, DeleteAccount
<1>20. CASE UNCHANGED vars
  BY <1>20 DEF TypeOK, vars
<1> QED
  BY <1>1, <1>2, <1>3, <1>4, <1>5, <1>6, <1>7, <1>8, <1>9, <1>10, <1>11, <1>12, <1>13, <1>14,
     <1>15, <1>16, <1>17, <1>18, <1>19, <1>20
  DEF Next, Request, CommitStep, AccountStep

\* Every reachable state is well typed.
THEOREM TypeCorrect == Spec => []TypeOK
<1>1. Init => TypeOK
  BY InitTypeOK
<1>2. TypeOK /\ [Next]_vars => TypeOK'
  BY StepTypeOK
<1> QED  BY <1>1, <1>2, PTL DEF Spec

-----------------------------------------------------------------------------
(* Two properties of single steps *)

\* Every handler's writes go through a transaction that asks for the account's
\* authorization first, so that none lands after a deletion.
THEOREM DeletionFreezes == Spec => DeletedAccountIsFrozen
<1> DEFINE Frozen == ~active => /\ UNCHANGED <<progress, genDoc, op>>
                                /\ meta' \in {meta, [meta EXCEPT !.leased = FALSE]}
<1>1. ASSUME Next PROVE Frozen
  <2>1. ASSUME NEW s \in Sessions, StartTransfer(s) \/ SealTransfer(s) PROVE Frozen
    BY <2>1 DEF StartTransfer, SealTransfer
  <2>2. ASSUME NEW w \in Workers, NEW s \in Sessions, Request(w, s) PROVE Frozen
    BY <2>2 DEF Request, PreviewBegin, ConfirmRead, ApplyRead
  <2>3. ASSUME NEW w \in Workers, ReadStep(w) \/ Stop(w) PROVE Frozen
    BY <2>3 DEF ReadStep, PreviewReadMeta, PreviewReadRecords, ConfirmReadMeta,
      ConfirmReadRecords, ApplyReadMeta, ApplyReadRecords, ReadMeta, ReadRecords, Stop
  <2>4. ASSUME NEW w \in Workers, CommitStep(w) PROVE Frozen
    BY <2>4 DEF CommitStep, PreviewStoreResult, PreviewReady, ConfirmDecide, ConfirmRows,
      ApplyBegin, ApplyResume, ApplyStage, ApplyComplete, Authorized
  <2>5. ASSUME AccountStep PROVE Frozen
    BY <2>5 DEF AccountStep, SyncBatch, OneShotAdoption, LeaseExpires, DeleteAccount
  <2> QED  BY <1>1, <2>1, <2>2, <2>3, <2>4, <2>5 DEF Next
<1>2. [Next]_vars => [Frozen]_vars
  BY <1>1
<1> QED  BY <1>2, PTL DEF Spec, DeletedAccountIsFrozen

\* A generation's records are written by account writers while it is active, and
\* before that by the one session that holds the promotion lease for it.
THEOREM OneWriter == Spec => OneWriterPerGeneration
<1> DEFINE Written(n) == \/ n = meta.generation
                         \/ /\ meta.owner # None /\ n = op[meta.owner].target
                            /\ genDoc[n] = [state |-> "building", source |-> meta.owner]
           Writers == \A n \in Gens : progress'[n] # progress[n] => Written(n)
<1>1. ASSUME TypeOK, Next PROVE Writers
  <2>1. ASSUME UNCHANGED progress PROVE Writers
    BY <2>1
  <2>2. ASSUME NEW w \in Workers, NEW n \in 1 .. Cardinality(Keys), ApplyStage(w, n)
        PROVE  Writers
    <3> DEFINE s == h[w].session
    <3>1. s \in Sessions /\ s # None /\ op[s].target \in Gens
      BY <1>1, <2>2, SessionAssumption DEF TypeOK, ApplyStage, Operation
    <3>2. meta.owner = s /\ genDoc[op[s].target] = [state |-> "building", source |-> s]
      BY <2>2 DEF ApplyStage, LeaseNames, GenerationBuilding
    <3>3. \A i \in Gens : i # op[s].target => progress'[i] = progress[i]
      BY <1>1, <2>2, <3>1 DEF TypeOK, ApplyStage
    <3> QED  BY <3>1, <3>2, <3>3
  <2>3. ASSUME NEW vals \in SyncBatches, SyncBatch(vals) PROVE Writers
    BY <1>1, <2>3 DEF TypeOK, SyncBatch
  <2>4. ASSUME NEW g \in GuestSnapshots, NEW c \in Confirmations(g, ActiveRecords),
               OneShotAdoption(g, c)
        PROVE  Writers
    BY <1>1, <2>4 DEF TypeOK, OneShotAdoption
  <2> HIDE DEF Writers
  <2>5. ASSUME NEW s \in Sessions, StartTransfer(s) \/ SealTransfer(s) PROVE Writers
    BY <2>1, <2>5 DEF StartTransfer, SealTransfer
  <2>6. ASSUME NEW w \in Workers, NEW s \in Sessions, Request(w, s) PROVE Writers
    BY <2>1, <2>6 DEF Request, PreviewBegin, ConfirmRead, ApplyRead
  <2>7. ASSUME NEW w \in Workers, ReadStep(w) \/ Stop(w) PROVE Writers
    BY <2>1, <2>7 DEF ReadStep, PreviewReadMeta, PreviewReadRecords, ConfirmReadMeta,
      ConfirmReadRecords, ApplyReadMeta, ApplyReadRecords, ReadMeta, ReadRecords, Stop
  <2>8. ASSUME NEW w \in Workers, CommitStep(w) PROVE Writers
    BY <2>1, <2>2, <2>8 DEF CommitStep, PreviewStoreResult, PreviewReady, ConfirmDecide,
      ConfirmRows, ApplyBegin, ApplyResume, ApplyComplete
  <2>9. ASSUME AccountStep PROVE Writers
    BY <2>1, <2>3, <2>4, <2>9 DEF AccountStep, LeaseExpires, DeleteAccount
  <2> QED  BY <1>1, <2>5, <2>6, <2>7, <2>8, <2>9 DEF Next
<1>2. TypeOK /\ [Next]_vars => [Writers]_vars
  BY <1>1
<1> QED  BY <1>2, TypeCorrect, PTL DEF Spec, OneWriterPerGeneration
=============================================================================
