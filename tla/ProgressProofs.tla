----------------------------- MODULE ProgressProofs -----------------------------
(***************************************************************************)
(* Proofs about what surrounds the promotion of an adoption, for any       *)
(* devices, chunks, records, sessions and runs: the upload that comes      *)
(* before it, the synchronisation that goes on beside it, the purge of     *)
(* what it leaves behind, and the merge it computes.                       *)
(***************************************************************************)
EXTENDS MCAdoption, FiniteSetTheorems, TLAPS

-----------------------------------------------------------------------------
(* AdoptionUpload: the inductive invariant *)

Session == [state: {"none", "collecting", "sealing", "sealed", "complete"},
            key: RequestKeys \cup {"none"}, expected: Nat, target: Nat,
            recordCount: Nat, chunkCount: Nat, seal: SUBSET Chunks]

SealRequest == [pc: {"idle", "counts", "records", "chunks", "check", "commit"},
                session: Transfers \cup {"none"}, claim: SUBSET Chunks,
                records: Nat, counted: Nat, read: SUBSET Chunks]

UploadTypeOK ==
  /\ transfer \in [Transfers -> Session]
  /\ chunks \in [Transfers -> SUBSET Chunks]
  /\ rows = [s \in Transfers |-> KeysOf(chunks[s])]
  /\ generation \in Nat /\ counter \in Nat /\ accepting \in BOOLEAN
  /\ sealer \in [Sealers -> SealRequest]
  /\ \A w \in Sealers : sealer[w].pc # "idle" => sealer[w].session \in Transfers

\* What a session has collected is finite, told apart by record, and counted; a
\* session that is not there has nothing.
CollectedIsCounted(s) ==
  /\ IsFiniteSet(chunks[s]) /\ IsFiniteSet(rows[s]) /\ Apart(chunks[s])
  /\ transfer[s].chunkCount = Cardinality(chunks[s])
  /\ transfer[s].recordCount = Cardinality(rows[s])
  /\ transfer[s].state = "none" =>
       transfer[s].target = 0 /\ chunks[s] = {} /\ rows[s] = {}

\* The counter is never behind a session, and no two sessions have one target.
TargetsAreApart ==
  /\ \A s \in Transfers : transfer[s].state # "none" =>
       /\ transfer[s].target \in 1 .. counter /\ transfer[s].target > transfer[s].expected
  /\ \A s, t \in Transfers :
       s # t /\ transfer[s].state # "none" => transfer[s].target # transfer[t].target

\* A session being sealed takes no chunk any more: what a seal has read of it is
\* what there is, and what it has checked is so.
SealsAreTrue(w) ==
  sealer[w].pc # "idle" =>
    LET x == sealer[w]
        s == x.session
    IN  /\ s \in Transfers /\ transfer[s].state \in {"sealing", "sealed", "complete"}
        /\ x.pc # "counts" => /\ x.counted = Cardinality(chunks[s])
                              /\ x.records = Cardinality(rows[s])
        /\ x.pc \in {"check", "commit"} => x.read = chunks[s]
        /\ x.pc = "commit" => x.read = x.claim /\ InSequence(x.read)

UInv ==
  /\ UploadTypeOK /\ SealedIsWhole /\ TargetsAreApart
  /\ \A s \in Transfers : CollectedIsCounted(s)
  /\ \A w \in Sealers : SealsAreTrue(w)

\* The states of a session once nobody can add to it.
Closed == {"sealing", "sealed", "complete"}

\* Every document stays well formed.
LEMMA UploadTypeStep == UploadTypeOK /\ [UploadNext]_uploadVars => UploadTypeOK'
<1> SUFFICES ASSUME UploadTypeOK, [UploadNext]_uploadVars PROVE UploadTypeOK'
  OBVIOUS
<1> USE UploadAssumption DEF UploadTypeOK
<1>1. CASE DeletionBegins
  BY <1>1 DEF DeletionBegins
<1>2. ASSUME NEW s \in Transfers, NEW k \in RequestKeys, StartTransfer(s, k)
      PROVE  UploadTypeOK'
  <2>1. NextTarget \in Nat
    BY DEF NextTarget
  <2>2. NewTransfer(k) \in Session
    BY <2>1 DEF NewTransfer, NoTransfer, Session
  <2>3. QED BY <1>2, <2>1, <2>2 DEF StartTransfer
<1>3. ASSUME NEW s \in Transfers, NEW k \in RequestKeys, StartAgain(s, k)
      PROVE  UploadTypeOK'
  BY <1>3 DEF StartAgain
<1>4. ASSUME NEW s \in Transfers, NEW c \in Chunks, Upload(s, c) PROVE UploadTypeOK'
  <2>1. transfer' \in [Transfers -> Session]
    <3>1. Cardinality(c.recordKeys) \in Nat
      BY FS_CardinalityType
    <3>2. ASSUME NEW x \in Session, NEW n \in Nat, NEW m \in Nat
          PROVE  [x EXCEPT !.recordCount = n, !.chunkCount = m] \in Session
      BY DEF Session
    <3>3. /\ transfer[s] \in Session
          /\ transfer[s].recordCount + Cardinality(c.recordKeys) \in Nat
          /\ transfer[s].chunkCount + 1 \in Nat
      BY <3>1 DEF Session
    <3>4. [transfer[s] EXCEPT !.recordCount = transfer[s].recordCount + Cardinality(c.recordKeys),
                              !.chunkCount = transfer[s].chunkCount + 1] \in Session
      BY <3>2, <3>3
    <3>5. QED BY <1>4, <3>4 DEF Upload
  <2>2. chunks' \in [Transfers -> SUBSET Chunks]
    BY <1>4 DEF Upload
  <2>3. rows' = [t \in Transfers |-> KeysOf(chunks'[t])]
    <3>1. KeysOf(chunks[s] \cup {c}) = KeysOf(chunks[s]) \cup c.recordKeys
      BY DEF KeysOf
    <3>2. QED BY <1>4, <3>1 DEF Upload
  <2>4. QED BY <1>4, <2>1, <2>2, <2>3 DEF Upload
<1>5. ASSUME NEW w \in Sealers, NEW x \in SealRequest, Set(w, x),
             x.pc # "idle" => x.session \in Transfers
      PROVE  /\ sealer' \in [Sealers -> SealRequest]
             /\ \A v \in Sealers : sealer'[v].pc # "idle" => sealer'[v].session \in Transfers
  BY <1>5 DEF Set
<1>6. NoSealer \in SealRequest /\ NoSealer.pc = "idle"
  BY DEF NoSealer, SealRequest
<1>7. ASSUME NEW w \in Sealers, NEW s \in Transfers, NEW claim \in Claims, SealBegin(w, s, claim)
      PROVE  UploadTypeOK'
  <2>1. [transfer[s] EXCEPT !.state = "sealing"] \in Session
    BY DEF Session
  <2>2. [NoSealer EXCEPT !.pc = "counts", !.session = s, !.claim = claim]
          \in SealRequest
    BY DEF NoSealer, SealRequest
  <2>3. [NoSealer EXCEPT !.pc = "counts", !.session = s, !.claim = claim].session = s
    BY DEF NoSealer
  <2>4. /\ sealer' \in [Sealers -> SealRequest]
        /\ \A v \in Sealers : sealer'[v].pc # "idle" => sealer'[v].session \in Transfers
    BY <1>5, <1>7, <2>2, <2>3 DEF SealBegin
  <2>5. QED BY <1>7, <2>1, <2>4 DEF SealBegin
<1>8. ASSUME NEW w \in Sealers, SealReads(w) PROVE UploadTypeOK'
  <2> DEFINE s == sealer[w].session
  <2>1. sealer[w] \in SealRequest /\ sealer[w].pc # "idle" /\ s \in Transfers
    BY <1>8 DEF SealReads
  <2>2. transfer[s].recordCount \in Nat /\ transfer[s].chunkCount \in Nat /\ chunks[s] \in SUBSET Chunks
    BY <2>1 DEF Session
  <2>3. PICK x \in SealRequest : Set(w, x) /\ (x.pc # "idle" => x.session = s)
    <3>1. CASE sealer[w].pc = "counts"
      <4>1. [sealer[w] EXCEPT !.pc = "records", !.records = transfer[s].recordCount,
                              !.counted = transfer[s].chunkCount] \in SealRequest
        BY <2>1, <2>2 DEF SealRequest
      <4>2. [sealer[w] EXCEPT !.pc = "records", !.records = transfer[s].recordCount,
                              !.counted = transfer[s].chunkCount].session = s
        BY <2>1 DEF SealRequest
      <4>3. QED BY <1>8, <3>1, <4>1, <4>2 DEF SealReads
    <3>2. CASE sealer[w].pc = "records"
      <4>1. /\ [sealer[w] EXCEPT !.pc = "chunks"] \in SealRequest
            /\ [sealer[w] EXCEPT !.pc = "chunks"].session = s
        BY <2>1 DEF SealRequest
      <4>2. QED BY <1>6, <1>8, <3>2, <4>1 DEF SealReads
    <3>3. CASE sealer[w].pc = "chunks"
      <4>1. /\ [sealer[w] EXCEPT !.pc = "check", !.read = chunks[s]] \in SealRequest
            /\ [sealer[w] EXCEPT !.pc = "check", !.read = chunks[s]].session = s
        BY <2>1, <2>2 DEF SealRequest
      <4>2. QED BY <1>8, <3>3, <4>1 DEF SealReads
    <3>4. QED BY <1>8, <3>1, <3>2, <3>3 DEF SealReads
  <2>4. QED BY <1>5, <1>8, <2>1, <2>3 DEF SealReads
<1>9. ASSUME NEW w \in Sealers, SealCheck(w) PROVE UploadTypeOK'
  <2>1. /\ [sealer[w] EXCEPT !.pc = "commit"] \in SealRequest
        /\ [sealer[w] EXCEPT !.pc = "commit"].session = sealer[w].session
        /\ sealer[w].session \in Transfers
    BY <1>9 DEF SealRequest, SealCheck
  <2>2. Set(w, NoSealer) \/ Set(w, [sealer[w] EXCEPT !.pc = "commit"])
    BY <1>9 DEF SealCheck
  <2>3. QED BY <1>5, <1>6, <1>9, <2>1, <2>2 DEF SealCheck
<1>10. ASSUME NEW w \in Sealers, SealCommit(w) PROVE UploadTypeOK'
  <2> DEFINE s == sealer[w].session
             x == sealer[w]
  <2>1. x \in SealRequest /\ s \in Transfers /\ transfer[s] \in Session
    BY <1>10 DEF SealCommit
  <2>2. [transfer[s] EXCEPT !.state = "sealed", !.seal = x.claim, !.recordCount = x.records,
                            !.chunkCount = x.counted] \in Session
    BY <2>1 DEF SealRequest, Session
  <2>3. transfer' \in [Transfers -> Session]
    BY <1>10, <2>1, <2>2 DEF SealCommit
  <2>4. QED BY <1>5, <1>6, <1>10, <2>3 DEF SealCommit
<1>11. ASSUME NEW w \in Sealers, SealStops(w) PROVE UploadTypeOK'
  BY <1>5, <1>6, <1>11 DEF SealStops
<1>12. ASSUME NEW s \in Transfers, Promote(s) PROVE UploadTypeOK'
  <2>1. [transfer[s] EXCEPT !.state = "complete"] \in Session /\ transfer[s].target \in Nat
    BY DEF Session
  <2>2. QED BY <1>12, <2>1 DEF Promote
<1>13. ASSUME NEW k \in RequestKeys, CollectKey(k) PROVE UploadTypeOK'
  BY <1>13 DEF CollectKey
<1>14. CASE UNCHANGED uploadVars
  BY <1>14 DEF uploadVars
<1>15. QED
  BY <1>1, <1>2, <1>3, <1>4, <1>7, <1>8, <1>9, <1>10, <1>11, <1>12, <1>13, <1>14 DEF UploadNext

\* A session only gains what Upload adds to it, which is while it collects, and
\* no session goes back.
LEMMA UploadForward ==
  ASSUME UploadTypeOK, [UploadNext]_uploadVars, NEW s \in Transfers
  PROVE  /\ transfer[s].state \in Closed =>
              /\ transfer'[s].state \in Closed
              /\ chunks'[s] = chunks[s] /\ rows'[s] = rows[s]
         /\ \/ UNCHANGED <<transfer[s], chunks[s], rows[s]>>
            \/ \E k \in RequestKeys : StartTransfer(s, k)
            \/ \E c \in Chunks : Upload(s, c)
            \/ /\ UNCHANGED <<chunks[s], rows[s]>> /\ transfer[s].state # "none"
               /\ transfer'[s].target = transfer[s].target
               /\ transfer'[s].expected = transfer[s].expected
               /\ \/ transfer' = [transfer EXCEPT ![s].state = "sealing"]
                  \/ Promote(s)
                  \/ \E w \in Sealers : SealCommit(w) /\ sealer[w].session = s
                                        /\ transfer[s].state = "sealing" /\ transfer' # transfer
<1> USE DEF UploadTypeOK
<1>1. transfer[s] \in Session
  OBVIOUS
<1>2. CASE UNCHANGED uploadVars \/ DeletionBegins
  BY <1>2 DEF uploadVars, DeletionBegins
<1>3. ASSUME NEW t \in Transfers, NEW k \in RequestKeys, StartTransfer(t, k)
      PROVE  t = s \/ UNCHANGED <<transfer[s], chunks[s], rows[s]>>
  BY <1>3 DEF StartTransfer
<1>4. ASSUME NEW t \in Transfers, NEW c \in Chunks, Upload(t, c)
      PROVE  t = s \/ UNCHANGED <<transfer[s], chunks[s], rows[s]>>
  BY <1>4 DEF Upload
<1>5. ASSUME NEW w \in Sealers, NEW t \in Transfers, NEW claim \in Claims, SealBegin(w, t, claim)
      PROVE  /\ UNCHANGED <<chunks[s], rows[s]>>
             /\ \/ UNCHANGED transfer[s]
                \/ /\ transfer' = [transfer EXCEPT ![s].state = "sealing"]
                   /\ transfer[s].state \in {"collecting", "sealing"}
                   /\ transfer'[s].state = "sealing"
                   /\ transfer'[s].target = transfer[s].target
                   /\ transfer'[s].expected = transfer[s].expected
  BY <1>1, <1>5 DEF SealBegin, Session
<1>6. ASSUME NEW w \in Sealers, SealCommit(w)
      PROVE  /\ UNCHANGED <<chunks[s], rows[s]>>
             /\ \/ UNCHANGED transfer[s]
                \/ /\ transfer' # transfer
                   /\ sealer[w].session = s /\ transfer[s].state = "sealing"
                   /\ transfer'[s].state = "sealed"
                   /\ transfer'[s].target = transfer[s].target
                   /\ transfer'[s].expected = transfer[s].expected
  BY <1>1, <1>6 DEF SealCommit, Session
<1>7. ASSUME NEW t \in Transfers, Promote(t)
      PROVE  /\ UNCHANGED <<chunks[s], rows[s]>>
             /\ \/ UNCHANGED transfer[s]
                \/ /\ t = s /\ transfer[s].state = "sealed" /\ transfer'[s].state = "complete"
                   /\ transfer'[s].target = transfer[s].target
                   /\ transfer'[s].expected = transfer[s].expected
  BY <1>1, <1>7 DEF Promote, Session
<1>8. ASSUME NEW t \in Transfers, NEW k \in RequestKeys, StartAgain(t, k) \/ CollectKey(k)
      PROVE  UNCHANGED <<transfer[s], chunks[s], rows[s]>>
  BY <1>8 DEF StartAgain, CollectKey
<1>9. ASSUME NEW w \in Sealers, SealReads(w) \/ SealCheck(w) \/ SealStops(w)
      PROVE  UNCHANGED <<transfer[s], chunks[s], rows[s]>>
  BY <1>9 DEF SealReads, SealCheck, SealStops
<1>10. (\E k \in RequestKeys : StartTransfer(s, k)) => transfer[s].state = "none"
  BY DEF StartTransfer
<1>11. (\E c \in Chunks : Upload(s, c)) => transfer[s].state = "collecting"
  BY DEF Upload, Takes
<1>12. QED
  BY <1>2, <1>3, <1>4, <1>5, <1>6, <1>7, <1>8, <1>9, <1>10, <1>11 DEF UploadNext, Closed

\* Counts follow the chunks: a chunk that is taken is a new one, and so is every
\* record in it.
LEMMA CollectStep ==
  ASSUME UInv, [UploadNext]_uploadVars, NEW s \in Transfers
  PROVE  CollectedIsCounted(s)'
<1> USE UploadAssumption DEF UInv
<1>1. CollectedIsCounted(s) /\ transfer[s] \in Session /\ chunks[s] \subseteq Chunks
  BY DEF UploadTypeOK
<1>2. CASE UNCHANGED <<transfer[s], chunks[s], rows[s]>>
  BY <1>1, <1>2 DEF CollectedIsCounted, Apart
<1>3. ASSUME NEW k \in RequestKeys, StartTransfer(s, k) PROVE CollectedIsCounted(s)'
  <2>1. transfer'[s] = NewTransfer(k) /\ chunks'[s] = {} /\ rows'[s] = {}
    BY <1>1, <1>3 DEF StartTransfer, CollectedIsCounted, UploadTypeOK
  <2>2. QED BY <2>1, FS_EmptySet DEF NewTransfer, NoTransfer, CollectedIsCounted, Apart
<1>4. ASSUME NEW c \in Chunks, Upload(s, c) PROVE CollectedIsCounted(s)'
  <2>1. /\ chunks'[s] = chunks[s] \cup {c} /\ rows'[s] = rows[s] \cup c.recordKeys
        /\ transfer'[s].recordCount = transfer[s].recordCount + Cardinality(c.recordKeys)
        /\ transfer'[s].chunkCount = transfer[s].chunkCount + 1
        /\ transfer'[s].state = "collecting"
    BY <1>1, <1>4 DEF Upload, UploadTypeOK, Session, Takes
  <2>2. c \notin chunks[s] /\ c.recordKeys \cap rows[s] = {}
    BY <1>4 DEF Upload, NewChunk, NewRecords
  <2>3. IsFiniteSet(chunks'[s]) /\ Cardinality(chunks'[s]) = Cardinality(chunks[s]) + 1
    <3>1. IsFiniteSet(chunks[s])
      BY <1>1 DEF CollectedIsCounted
    <3>2. /\ IsFiniteSet(chunks[s] \cup {c})
          /\ Cardinality(chunks[s] \cup {c}) = Cardinality(chunks[s]) + 1
      BY <2>2, <3>1, FS_AddElement
    <3>3. QED BY <2>1, <3>2
  <2>4. /\ IsFiniteSet(rows'[s])
        /\ Cardinality(rows'[s]) = Cardinality(rows[s]) + Cardinality(c.recordKeys)
    <3>1. IsFiniteSet(rows[s]) /\ IsFiniteSet(c.recordKeys) /\ rows[s] \cap c.recordKeys = {}
      BY <1>1, <2>2 DEF CollectedIsCounted
    <3>2. /\ Cardinality(rows[s]) \in Nat /\ Cardinality(c.recordKeys) \in Nat
          /\ Cardinality(rows[s] \cap c.recordKeys) = 0
      BY <3>1, FS_CardinalityType, FS_EmptySet
    <3>3. /\ IsFiniteSet(rows[s] \cup c.recordKeys)
          /\ Cardinality(rows[s] \cup c.recordKeys)
               = Cardinality(rows[s]) + Cardinality(c.recordKeys)
                   - Cardinality(rows[s] \cap c.recordKeys)
      BY <3>1, FS_Union
    <3>4. QED BY <2>1, <3>2, <3>3
  <2>5. Apart(chunks'[s])
    <3>1. rows[s] = KeysOf(chunks[s])
      BY DEF UploadTypeOK
    <3>2. \A d \in chunks[s] : d.recordKeys \cap c.recordKeys = {}
      BY <2>2, <3>1 DEF KeysOf
    <3>3. QED BY <1>1, <2>1, <3>2 DEF Apart, CollectedIsCounted
  <2>6. QED BY <1>1, <2>1, <2>3, <2>4, <2>5 DEF CollectedIsCounted
<1>5. ASSUME UNCHANGED <<chunks[s], rows[s]>>, transfer[s].state # "none",
             transfer' = [transfer EXCEPT ![s].state = "sealing"] \/ Promote(s)
      PROVE  CollectedIsCounted(s)'
  <2>1. /\ transfer'[s].recordCount = transfer[s].recordCount
        /\ transfer'[s].chunkCount = transfer[s].chunkCount
        /\ transfer'[s].state # "none"
    BY <1>1, <1>5 DEF Promote, UploadTypeOK, Session
  <2>2. QED BY <1>1, <1>5, <2>1 DEF CollectedIsCounted, Apart
<1>6. ASSUME UNCHANGED <<chunks[s], rows[s]>>, NEW w \in Sealers, SealCommit(w),
             sealer[w].session = s, transfer' # transfer
      PROVE  CollectedIsCounted(s)'
  <2>1. sealer[w].counted = Cardinality(chunks[s]) /\ sealer[w].records = Cardinality(rows[s])
    BY <1>6 DEF SealCommit, SealsAreTrue
  <2>2. /\ transfer'[s].recordCount = sealer[w].records
        /\ transfer'[s].chunkCount = sealer[w].counted
        /\ transfer'[s].state = "sealed"
    BY <1>1, <1>6 DEF SealCommit, UploadTypeOK, Session
  <2>3. QED BY <1>1, <1>6, <2>1, <2>2 DEF CollectedIsCounted, Apart
<1>7. QED
  BY <1>2, <1>3, <1>4, <1>5, <1>6, UploadForward

\* A session is started at a target above every earlier one.
LEMMA TargetStep ==
  ASSUME UInv, [UploadNext]_uploadVars
  PROVE  TargetsAreApart'
<1> USE UploadAssumption DEF UInv
<1>1. \A s \in Transfers : transfer[s] \in Session /\ (transfer[s].state = "none" => transfer[s].target = 0)
  BY DEF UploadTypeOK, CollectedIsCounted
<1>2. ASSUME NEW s \in Transfers, NEW k \in RequestKeys, StartTransfer(s, k)
      PROVE  TargetsAreApart'
  <2>1. NextTarget \in Nat /\ NextTarget > counter /\ NextTarget > generation
    BY DEF NextTarget, UploadTypeOK
  <2>2. /\ transfer'[s].target = NextTarget /\ transfer'[s].expected = generation
        /\ transfer'[s].state = "collecting" /\ counter' = NextTarget
        /\ \A t \in Transfers \ {s} : transfer'[t] = transfer[t]
    BY <1>2 DEF StartTransfer, NewTransfer, NoTransfer, UploadTypeOK
  <2>3. \A t \in Transfers \ {s} : transfer'[t].target \in Nat /\ transfer'[t].target <= counter
    BY <1>1, <2>2 DEF TargetsAreApart, UploadTypeOK
  <2>4. counter \in Nat
    BY DEF UploadTypeOK
  <2>5. ASSUME NEW t \in Transfers, transfer'[t].state # "none"
        PROVE  transfer'[t].target \in 1 .. counter' /\ transfer'[t].target > transfer'[t].expected
    <3>1. CASE t = s
      BY <2>1, <2>2, <2>4, <3>1 DEF UploadTypeOK
    <3>2. CASE t # s
      BY <2>1, <2>2, <2>4, <2>5, <3>2 DEF TargetsAreApart
    <3>3. QED BY <3>1, <3>2
  <2>6. ASSUME NEW t \in Transfers, NEW u \in Transfers, t # u, transfer'[t].state # "none"
        PROVE  transfer'[t].target # transfer'[u].target
    BY <2>1, <2>2, <2>3, <2>4, <2>6 DEF TargetsAreApart
  <2>7. QED BY <2>5, <2>6 DEF TargetsAreApart
<1>3. ASSUME ~\E s \in Transfers, k \in RequestKeys : StartTransfer(s, k)
      PROVE  TargetsAreApart'
  <2>1. counter' = counter
    BY <1>3 DEF UploadNext, uploadVars, DeletionBegins, StartAgain, CollectKey, Promote, Upload, SealBegin,
       SealReads, SealCheck, SealCommit, SealStops
  <2>2. ASSUME NEW s \in Transfers
        PROVE  /\ transfer'[s].target = transfer[s].target
               /\ transfer'[s].expected = transfer[s].expected
               /\ transfer'[s].state # "none" => transfer[s].state # "none"
    <3>1. ASSUME NEW c \in Chunks, Upload(s, c)
          PROVE  /\ transfer'[s].target = transfer[s].target
                 /\ transfer'[s].expected = transfer[s].expected
                 /\ transfer[s].state # "none"
      BY <1>1, <3>1 DEF Upload, UploadTypeOK, Session, Takes
    <3>2. QED BY <1>3, <3>1, UploadForward
  <2>3. QED BY <2>1, <2>2 DEF TargetsAreApart
<1>4. QED BY <1>2, <1>3

\* What a seal has read stays what there is.
LEMMA SealStep ==
  ASSUME UInv, [UploadNext]_uploadVars, NEW w \in Sealers
  PROVE  SealsAreTrue(w)'
<1> USE DEF UInv
<1>1. sealer[w] \in SealRequest /\ SealsAreTrue(w)
  BY DEF UploadTypeOK
<1>2. UploadTypeOK' /\ sealer'[w] \in SealRequest
  BY UploadTypeStep DEF UploadTypeOK
<1>3. ASSUME sealer'[w] = sealer[w] PROVE SealsAreTrue(w)'
  BY <1>1, <1>3, UploadForward DEF SealsAreTrue, Closed
<1>4. ASSUME NEW s \in Transfers, NEW claim \in Claims, SealBegin(w, s, claim)
      PROVE  SealsAreTrue(w)'
  <2>1. sealer'[w].pc = "counts" /\ sealer'[w].session = s
    BY <1>4 DEF SealBegin, Set, NoSealer, UploadTypeOK
  <2>2. transfer'[s].state = "sealing"
    BY <1>4 DEF SealBegin, UploadTypeOK, Session
  <2>3. QED BY <2>1, <2>2 DEF SealsAreTrue
<1>5. ASSUME SealReads(w) PROVE SealsAreTrue(w)'
  <2> DEFINE s == sealer[w].session
  <2>1. /\ s \in Transfers /\ transfer[s].state \in Closed /\ CollectedIsCounted(s)
        /\ sealer[w].pc # "idle" /\ UNCHANGED <<transfer, chunks, rows>>
    BY <1>1, <1>5 DEF SealReads, SealsAreTrue, Closed
  <2>2. CASE sealer[w].pc = "counts"
    <3>1. sealer'[w] = [sealer[w] EXCEPT !.pc = "records", !.records = transfer[s].recordCount,
                                         !.counted = transfer[s].chunkCount]
      BY <1>5, <2>2 DEF SealReads, Set, UploadTypeOK
    <3>2. /\ sealer'[w].pc = "records" /\ sealer'[w].session = s
          /\ sealer'[w].records = transfer[s].recordCount
          /\ sealer'[w].counted = transfer[s].chunkCount
      BY <1>1, <3>1 DEF SealRequest
    <3>3. QED BY <2>1, <3>2 DEF SealsAreTrue, CollectedIsCounted, Closed
  <2>3. CASE sealer[w].pc = "records"
    <3>1. \/ sealer'[w].pc = "idle"
          \/ sealer'[w] = [sealer[w] EXCEPT !.pc = "chunks"]
      BY <1>1, <1>5, <2>3 DEF SealReads, Set, NoSealer, UploadTypeOK
    <3>2. QED BY <1>1, <2>1, <2>3, <3>1 DEF SealsAreTrue, SealRequest, Closed
  <2>4. CASE sealer[w].pc = "chunks"
    <3>1. sealer'[w] = [sealer[w] EXCEPT !.pc = "check", !.read = chunks[s]]
      BY <1>1, <1>5, <2>4 DEF SealReads, Set, UploadTypeOK
    <3>2. QED BY <1>1, <2>1, <2>4, <3>1 DEF SealsAreTrue, SealRequest, Closed
  <2>5. QED BY <1>5, <2>2, <2>3, <2>4 DEF SealReads
<1>6. ASSUME SealCheck(w) PROVE SealsAreTrue(w)'
  <2>1. CASE sealer'[w].pc = "idle"
    BY <2>1 DEF SealsAreTrue
  <2>2. CASE sealer'[w] = [sealer[w] EXCEPT !.pc = "commit"] /\ InSequence(sealer[w].read)
             /\ SealMatches(sealer[w].read, sealer[w].claim)
    <3>1. /\ sealer'[w].pc = "commit" /\ sealer'[w].session = sealer[w].session
          /\ sealer'[w].read = sealer[w].read /\ sealer'[w].claim = sealer[w].claim
          /\ sealer'[w].counted = sealer[w].counted /\ sealer'[w].records = sealer[w].records
      BY <1>1, <2>2 DEF SealRequest
    <3>2. sealer[w].pc = "check" /\ UNCHANGED <<transfer, chunks, rows>>
      BY <1>6 DEF SealCheck
    <3>3. QED BY <1>1, <2>2, <3>1, <3>2 DEF SealsAreTrue, SealMatches, InSequence
  <2>3. QED BY <1>1, <1>6, <2>1, <2>2 DEF SealCheck, Set, NoSealer, UploadTypeOK
<1>7. ASSUME SealCommit(w) \/ SealStops(w) PROVE SealsAreTrue(w)'
  BY <1>7 DEF SealCommit, SealStops, Set, NoSealer, SealsAreTrue, UploadTypeOK
<1>8. ASSUME NEW v \in Sealers, v # w,
             \/ SealReads(v) \/ SealCheck(v) \/ SealCommit(v) \/ SealStops(v)
             \/ \E s \in Transfers, c \in Claims : SealBegin(v, s, c)
      PROVE  sealer'[w] = sealer[w]
  BY <1>8 DEF SealReads, SealCheck, SealCommit, SealStops, SealBegin, Set, UploadTypeOK
<1>9. CASE UNCHANGED sealer
  BY <1>3, <1>9
<1>10. ASSUME NEW v \in Sealers,
              \/ SealReads(v) \/ SealCheck(v) \/ SealCommit(v) \/ SealStops(v)
              \/ \E s \in Transfers, c \in Claims : SealBegin(v, s, c)
       PROVE  SealsAreTrue(w)'
  BY <1>3, <1>4, <1>5, <1>6, <1>7, <1>8, <1>10
<1>11. QED
  BY <1>9, <1>10
     DEF UploadNext, uploadVars, DeletionBegins, StartTransfer, StartAgain, CollectKey, Promote, Upload

\* A session that is sealed was checked, and has not changed since the check began.
LEMMA WholeStep ==
  ASSUME UInv, [UploadNext]_uploadVars
  PROVE  SealedIsWhole'
<1> USE DEF UInv
<1>1. UploadTypeOK' /\ TargetsAreApart' /\ \A s \in Transfers : CollectedIsCounted(s)'
  BY UploadTypeStep, TargetStep, CollectStep
<1>2. ASSUME NEW s \in Transfers, Sealed(s)'
      PROVE  chunks'[s] = transfer'[s].seal /\ InSequence(chunks'[s])
  <2>1. transfer[s] \in Session
    BY DEF UploadTypeOK
  <2>2. CASE UNCHANGED <<transfer[s], chunks[s], rows[s]>>
    BY <1>2, <2>2 DEF SealedIsWhole, Sealed
  <2>3. ASSUME NEW k \in RequestKeys, StartTransfer(s, k) PROVE FALSE
    BY <1>2, <2>3 DEF StartTransfer, NewTransfer, NoTransfer, UploadTypeOK, Sealed
  <2>4. ASSUME NEW c \in Chunks, Upload(s, c) PROVE FALSE
    BY <1>2, <2>1, <2>4 DEF Upload, Takes, UploadTypeOK, Session, Sealed
  <2>5. ASSUME transfer' = [transfer EXCEPT ![s].state = "sealing"] PROVE FALSE
    BY <1>2, <2>1, <2>5 DEF UploadTypeOK, Session, Sealed
  <2>6. ASSUME Promote(s), chunks'[s] = chunks[s]
        PROVE  chunks'[s] = transfer'[s].seal /\ InSequence(chunks'[s])
    BY <2>1, <2>6 DEF Promote, UploadTypeOK, Session, SealedIsWhole, Sealed
  <2>7. ASSUME NEW w \in Sealers, SealCommit(w), sealer[w].session = s, transfer' # transfer,
               chunks'[s] = chunks[s]
        PROVE  chunks'[s] = transfer'[s].seal /\ InSequence(chunks'[s])
    <3>1. chunks[s] = sealer[w].claim /\ InSequence(chunks[s])
      BY <2>7 DEF SealCommit, SealsAreTrue
    <3>2. transfer'[s].seal = sealer[w].claim
      BY <2>1, <2>7 DEF SealCommit, UploadTypeOK, Session
    <3>3. QED BY <2>7, <3>1, <3>2
  <2>8. QED BY <2>2, <2>3, <2>4, <2>5, <2>6, <2>7, UploadForward
<1>3. ASSUME NEW s \in Transfers, Sealed(s)'
      PROVE  /\ rows'[s] = KeysOf(chunks'[s]) /\ Apart(chunks'[s])
             /\ transfer'[s].chunkCount = Cardinality(chunks'[s])
             /\ transfer'[s].recordCount = Cardinality(rows'[s])
  BY <1>1 DEF UploadTypeOK, CollectedIsCounted
<1>4. ASSUME NEW s \in Transfers, NEW t \in Transfers, s # t,
             transfer'[s].target = transfer'[t].target
      PROVE  transfer'[s].state = "none"
  BY <1>1, <1>4 DEF TargetsAreApart
<1>5. ASSUME NEW s \in Transfers, transfer'[s].state = "collecting"
      PROVE  transfer'[s].target > transfer'[s].expected
  BY <1>1, <1>5 DEF TargetsAreApart
<1>6. QED BY <1>2, <1>3, <1>4, <1>5 DEF SealedIsWhole

LEMMA UploadStart == UploadInit => UInv
<1> SUFFICES ASSUME UploadInit PROVE UInv
  OBVIOUS
<1>1. UploadTypeOK
  BY DEF UploadInit, UploadTypeOK, NoTransfer, NoSealer, Session, SealRequest, KeysOf
<1>2. \A s \in Transfers : CollectedIsCounted(s)
  BY FS_EmptySet DEF UploadInit, CollectedIsCounted, NoTransfer, Apart
<1>3. TargetsAreApart /\ SealedIsWhole /\ \A w \in Sealers : SealsAreTrue(w)
  BY DEF UploadInit, NoTransfer, NoSealer, TargetsAreApart, SealedIsWhole, Sealed, SealsAreTrue
<1>4. QED BY <1>1, <1>2, <1>3 DEF UInv

\* A sealed session is whole and stays so, whichever requests overtook one
\* another; and no two sessions build one generation.
THEOREM SealedSessionIsWhole == UploadSpec => []SealedIsWhole
<1>1. UInv /\ [UploadNext]_uploadVars => UInv'
  BY UploadTypeStep, WholeStep, TargetStep, CollectStep, SealStep DEF UInv
<1>2. UInv => SealedIsWhole
  BY DEF UInv
<1>3. QED BY <1>1, <1>2, UploadStart, PTL DEF UploadSpec

-----------------------------------------------------------------------------
(* RetentionPurge: the inductive invariant *)

Report  == [there: BOOLEAN, until: Nat, audit: SUBSET ((1 .. MaxTransitions) \X Nat),
            changes: 0 .. MaxTransitions]
Adopter == [state: {"preview_ready", "applying", "complete", "gone"}, cursor: 0 .. Rows]
Space   == [state: {"none", "building", "purging", "active"}, rows: 0 .. Rows]
Pin     == [active: {0} \cup Adopters, owner: {0} \cup Adopters, until: Nat]

\* A report that was ever absent had run out as it was first filed, and no
\* entry outlives its report.
ReportsOK ==
  /\ filed \in [Filed -> Report]
  /\ \A r \in Filed : /\ FiledUntil[r] <= filed[r].until
                      /\ ~filed[r].there => FiledUntil[r] <= time
                      /\ \A e \in filed[r].audit : e[2] <= filed[r].until

\* While a generation is being built it has the records its session staged; the
\* session that is gone had run out.
SessionsOK ==
  /\ adopter \in [Adopters -> Adopter] /\ space \in [Adopters -> Space] /\ pin \in Pin
  /\ \A s \in Adopters :
       /\ adopter[s].state = "preview_ready" => adopter[s].cursor = 0 /\ space[s].rows = 0
       /\ adopter[s].state = "applying" /\ space[s].state = "building" =>
            space[s].rows = adopter[s].cursor
       /\ space[s].state = "active" => space[s].rows = Rows
       /\ adopter[s].state = "gone" => SessionUntil <= time
  /\ pin.active # 0 => space[pin.active].state = "active"

Scans == {"reports", "listed", "audits", "orphan", "gens", "page"}
Posts == {"postreports", "postaudits", "postgens", "done"}

\* A run stays within its budget; it deletes reports it found due.
RunTypeOK(x) ==
  /\ x = [pc |-> x.pc, at |-> x.at, cutoff |-> x.cutoff, deletes |-> x.deletes,
          eligible |-> x.eligible, listed |-> x.listed, lost |-> x.lost, due |-> x.due,
          unresolved |-> x.unresolved, complete |-> x.complete]
  /\ x.pc \in {"idle"} \cup Scans \cup Posts /\ x.at \in Nat /\ x.cutoff \in 0 .. time
  /\ x.deletes \in 0 .. MaxDeletes
  /\ x.pc \in {"orphan", "page"} => x.deletes < MaxDeletes
  /\ x.pc = "listed" /\ x.at \in Filed => FiledUntil[x.at] <= x.cutoff
  /\ \A s \in x.lost : s \in Adopters /\ adopter[s].state = "gone" /\ SessionUntil <= x.cutoff

\* What the postcheck has passed by without finding it due stays so.
PassedBy(x) ==
  x.pc \in Posts /\ ~x.due =>
    /\ \A r \in Filed : filed[r].until <= x.cutoff =>
         /\ x.pc # "postreports" \/ r < x.at => ~filed[r].there
         /\ x.pc \in {"postgens", "done"} \/ (x.pc = "postaudits" /\ r < x.at) =>
              filed[r].audit = {}
    /\ \A s \in x.lost : x.pc = "done" \/ (x.pc = "postgens" /\ s < x.at) =>
         space[s].state \in {"none", "active"}

RunOK(x) == RunTypeOK(x) /\ PassedBy(x) /\ (x.complete => x.pc = "done" /\ ~x.due)

GInv ==
  /\ time \in 0 .. MaxTime /\ runs \in 0 .. MaxRuns
  /\ ReportsOK /\ SessionsOK
  /\ run = [c \in Cleaners |-> run[c]] /\ \A c \in Cleaners : RunOK(run[c])

\* Which steps write which documents.
LEMMA PurgeWriters ==
  ASSUME [PurgeNext]_purgeVars
  PROVE  /\ time' = time \/ (TimePasses /\ UNCHANGED <<filed, adopter, space, pin, run, runs>>)
         /\ \/ filed' = filed
            \/ \E r \in Filed : ChangeReport(r) \/ FileAgain(r) \/ ExpireReport(r)
            \/ \E c \in Cleaners : \/ \E gone \in SUBSET run[c].listed, failed \in BOOLEAN :
                                       DeleteReport(c, gone, failed)
                                   \/ DeleteOrphan(c)
         /\ \/ UNCHANGED <<adopter, space, pin>>
            \/ \E s \in Adopters : \/ BeginApply(s) \/ RenewApply(s) \/ StageRow(s)
                                   \/ CompleteApply(s) \/ ExpireSession(s)
            \/ \E c \in Cleaners, k \in 0 .. MaxDeletes : PurgePage(c, k)
         /\ runs' = runs \/ \E c \in Cleaners : StartRun(c)
         /\ \/ run' = run
            \/ \E c \in Cleaners :
                 \/ StartRun(c) \/ AbandonRun(c) \/ LookAtReport(c)
                 \/ \E gone \in SUBSET run[c].listed, failed \in BOOLEAN :
                      DeleteReport(c, gone, failed)
                 \/ LookAtOrphan(c) \/ DeleteOrphan(c) \/ PassAudits(c) \/ LookAtGeneration(c)
                 \/ \E k \in 0 .. MaxDeletes : PurgePage(c, k)
                 \/ RecheckReport(c) \/ RecheckAudits(c) \/ RecheckGeneration(c)
<1>1. CASE UNCHANGED purgeVars
  BY <1>1 DEF purgeVars
<1>2. CASE TimePasses
  BY <1>2 DEF TimePasses
<1>3. ASSUME NEW r \in Filed, ChangeReport(r) \/ FileAgain(r) \/ ExpireReport(r)
      PROVE  UNCHANGED <<time, adopter, space, pin, run, runs>>
  BY <1>3 DEF ChangeReport, FileAgain, ExpireReport
<1>4. ASSUME NEW s \in Adopters, BeginApply(s) \/ RenewApply(s) \/ StageRow(s)
                                 \/ CompleteApply(s) \/ ExpireSession(s)
      PROVE  UNCHANGED <<time, filed, run, runs>>
  BY <1>4 DEF BeginApply, RenewApply, StageRow, CompleteApply, ExpireSession
<1>5. ASSUME NEW c \in Cleaners, NEW gone, NEW failed, DeleteReport(c, gone, failed) \/ DeleteOrphan(c)
      PROVE  UNCHANGED <<time, adopter, space, pin, runs>>
  BY <1>5 DEF DeleteReport, DeleteOrphan
<1>6. ASSUME NEW c \in Cleaners, NEW k, PurgePage(c, k)
      PROVE  UNCHANGED <<time, filed, adopter, pin, runs>>
  BY <1>6 DEF PurgePage
<1>7. ASSUME NEW c \in Cleaners, StartRun(c)
      PROVE  UNCHANGED <<time, filed, adopter, space, pin>>
  BY <1>7 DEF StartRun
<1>8. ASSUME NEW c \in Cleaners,
             \/ AbandonRun(c) \/ LookAtReport(c) \/ LookAtOrphan(c) \/ PassAudits(c)
             \/ LookAtGeneration(c) \/ RecheckReport(c) \/ RecheckAudits(c) \/ RecheckGeneration(c)
      PROVE  UNCHANGED <<time, filed, adopter, space, pin, runs>>
  BY <1>8 DEF AbandonRun, LookAtReport, LookAtOrphan, PassAudits, LookAtGeneration, RecheckReport,
     RecheckAudits, RecheckGeneration, OnlyRun
<1>9. QED
  BY <1>1, <1>2, <1>3, <1>4, <1>5, <1>6, <1>7, <1>8 DEF PurgeNext

\* A report that is due loses entries only, and may go; filed again, it is due
\* at another time.
LEMMA ReportsStep ==
  ASSUME GInv, [PurgeNext]_purgeVars
  PROVE  /\ ReportsOK'
         /\ \A r \in Filed : filed'[r].until <= time =>
              /\ filed'[r].until = filed[r].until /\ (filed'[r].there => filed[r].there)
              /\ filed'[r].audit \subseteq filed[r].audit
<1> USE PurgeAssumption DEF GInv, ReportsOK
<1>0. time \in Nat /\ time' \in Nat /\ time <= time'
  BY PurgeWriters DEF TimePasses
<1> DEFINE Fits(r) == /\ FiledUntil[r] <= filed'[r].until
                      /\ ~filed'[r].there => FiledUntil[r] <= time'
                      /\ \A e \in filed'[r].audit : e[2] <= filed'[r].until
                      /\ filed'[r].until <= time =>
                           /\ filed'[r].until = filed[r].until /\ (filed'[r].there => filed[r].there)
                           /\ filed'[r].audit \subseteq filed[r].audit
<1>1. ASSUME filed' = filed PROVE filed' \in [Filed -> Report] /\ \A r \in Filed : Fits(r)
  <2>1. \A r \in Filed : filed[r].until \in Nat /\ FiledUntil[r] \in Nat
    BY DEF Report
  <2>2. QED BY <1>0, <1>1, <2>1
<1>2. ASSUME NEW r \in Filed, ChangeReport(r) PROVE filed' \in [Filed -> Report] /\ Fits(r)
  <2> DEFINE entry == <<filed[r].changes + 1, filed[r].until>>
  <2>1. filed[r] \in Report /\ filed[r].there /\ filed[r].until > time /\ filed[r].changes < MaxTransitions
    BY <1>2 DEF ChangeReport
  <2>2. entry \in (1 .. MaxTransitions) \X Nat
    BY <2>1 DEF Report
  <2>3. \A n \in 0 .. MaxTransitions, a \in SUBSET ((1 .. MaxTransitions) \X Nat) :
          [filed[r] EXCEPT !.changes = n, !.audit = a] \in Report
    BY <2>1 DEF Report
  <2>4. filed[r].changes + 1 \in 0 .. MaxTransitions
    BY <2>1 DEF Report
  <2>5. filed[r].audit \cup {entry} \in SUBSET ((1 .. MaxTransitions) \X Nat)
    BY <2>1, <2>2 DEF Report
  <2>6. [filed[r] EXCEPT !.changes = filed[r].changes + 1, !.audit = filed[r].audit \cup {entry}]
          \in Report
    BY <2>3, <2>4, <2>5
  <2>7. filed' \in [Filed -> Report]
    BY <1>2, <2>6 DEF ChangeReport
  <2>8. /\ filed'[r].until = filed[r].until /\ filed'[r].there = filed[r].there
        /\ filed'[r].audit = filed[r].audit \cup {entry}
    BY <1>2, <2>1 DEF ChangeReport, Report
  <2>9. entry[2] = filed[r].until
    OBVIOUS
  <2>10. QED BY <1>0, <2>1, <2>7, <2>8, <2>9 DEF Report
<1>3. ASSUME NEW r \in Filed, FileAgain(r) PROVE filed' \in [Filed -> Report] /\ Fits(r)
  <2>1. filed[r] \in Report /\ FiledUntil[r] <= time /\ FiledUntil[r] \in Nat
        /\ filed[r].until = FiledUntil[r]
    BY <1>3 DEF FileAgain
  <2>2. /\ filed'[r].until = time + Keep /\ filed'[r].there /\ filed'[r].audit = filed[r].audit
        /\ filed' \in [Filed -> Report]
    BY <1>0, <1>3, <2>1 DEF FileAgain, Report
  <2>3. \A e \in filed[r].audit : e[2] \in Nat
    BY <2>1 DEF Report
  <2>4. QED BY <1>0, <2>1, <2>2, <2>3
<1>4. ASSUME NEW r \in Filed, ExpireReport(r) PROVE filed' \in [Filed -> Report] /\ Fits(r)
  <2>1. filed[r] \in Report /\ filed[r].until <= time /\ FiledUntil[r] \in Nat
    BY <1>4 DEF ExpireReport
  <2>2. /\ filed'[r].until = filed[r].until /\ ~filed'[r].there /\ filed'[r].audit = filed[r].audit
        /\ filed' \in [Filed -> Report]
    BY <1>4, <2>1 DEF ExpireReport, Report
  <2>3. QED BY <1>0, <2>1, <2>2 DEF Report
<1>5. ASSUME NEW c \in Cleaners, NEW gone, NEW failed \in BOOLEAN, DeleteReport(c, gone, failed)
      PROVE  filed' \in [Filed -> Report] /\ \A r \in Filed : Fits(r)
  <2> DEFINE q == run[c].at
  <2>1. filed' = [filed EXCEPT ![q].there = @ /\ failed, ![q].audit = @ \ gone]
    BY <1>5 DEF DeleteReport
  <2>2. run[c].pc = "listed" /\ run[c].cutoff \in 0 .. time /\ (q \in Filed => FiledUntil[q] <= run[c].cutoff)
    BY <1>5 DEF DeleteReport, RunOK, RunTypeOK
  <2>3. ASSUME NEW r \in Filed, r = q
        PROVE  /\ filed' \in [Filed -> Report]
               /\ filed'[r].until = filed[r].until /\ (filed'[r].there => filed[r].there)
               /\ filed'[r].audit \subseteq filed[r].audit /\ FiledUntil[r] <= time
    <3>1. filed[r] \in Report
      OBVIOUS
    <3>2. \A b \in BOOLEAN, a \in SUBSET ((1 .. MaxTransitions) \X Nat) :
            [filed[r] EXCEPT !.there = b, !.audit = a] \in Report
      BY <3>1 DEF Report
    <3>3. /\ (filed[r].there /\ failed) \in BOOLEAN
          /\ filed[r].audit \ gone \in SUBSET ((1 .. MaxTransitions) \X Nat)
      BY <3>1 DEF Report
    <3>4. [filed[r] EXCEPT !.there = filed[r].there /\ failed, !.audit = filed[r].audit \ gone] \in Report
      BY <3>2, <3>3
    <3>5. filed' \in [Filed -> Report]
      BY <2>1, <2>3, <3>4
    <3>6. /\ filed'[r].until = filed[r].until /\ filed'[r].there = (filed[r].there /\ failed)
          /\ filed'[r].audit = filed[r].audit \ gone
      BY <2>1, <2>3, <3>1 DEF Report
    <3>7. FiledUntil[r] \in Nat
      OBVIOUS
    <3>8. FiledUntil[r] <= time
      BY <1>0, <2>2, <2>3, <3>7
    <3>9. QED BY <3>5, <3>6, <3>8
  <2>4. \A r \in Filed : r # q => filed'[r] = filed[r]
    BY <2>1
  <2>5. q \notin Filed => filed' = filed
    BY <2>1
  <2>6. filed' \in [Filed -> Report]
    BY <2>3, <2>5
  <2>7. ASSUME NEW r \in Filed PROVE Fits(r)
    <3>1. CASE r = q
      BY <1>0, <2>3, <3>1 DEF Report
    <3>2. CASE r # q
      BY <1>0, <2>4, <3>2 DEF Report
    <3>3. QED BY <3>1, <3>2
  <2>8. QED BY <2>6, <2>7
<1>6. ASSUME NEW c \in Cleaners, DeleteOrphan(c)
      PROVE  filed' \in [Filed -> Report] /\ \A r \in Filed : Fits(r)
  <2> DEFINE q == run[c].at
  <2>1. filed' = filed \/ \E e : filed' = [filed EXCEPT ![q].audit = @ \ {e}]
    BY <1>6 DEF DeleteOrphan
  <2>2. ASSUME NEW e, filed' = [filed EXCEPT ![q].audit = @ \ {e}]
        PROVE  filed' \in [Filed -> Report] /\ \A r \in Filed : Fits(r)
    <3>1. filed' \in [Filed -> Report]
      <4>1. \A r \in Filed : [filed[r] EXCEPT !.audit = @ \ {e}] \in Report
        BY DEF Report
      <4>2. QED BY <2>2, <4>1
    <3>2. \A r \in Filed : /\ filed'[r].until = filed[r].until /\ filed'[r].there = filed[r].there
                           /\ filed'[r].audit \subseteq filed[r].audit
      BY <2>2 DEF Report
    <3>3. QED BY <1>0, <3>1, <3>2 DEF Report
  <2>3. QED BY <1>1, <2>1, <2>2
<1>7. ASSUME NEW r \in Filed, ChangeReport(r) \/ FileAgain(r) \/ ExpireReport(r)
      PROVE  \A q \in Filed : q = r \/ filed'[q] = filed[q]
  BY <1>7 DEF ChangeReport, FileAgain, ExpireReport
<1>8. ASSUME NEW r \in Filed, filed'[r] = filed[r] PROVE Fits(r)
  BY <1>0, <1>8 DEF Report
<1>9. filed' \in [Filed -> Report] /\ \A r \in Filed : Fits(r)
  BY <1>1, <1>2, <1>3, <1>4, <1>5, <1>6, <1>7, <1>8, PurgeWriters
<1>10. QED BY <1>9

\* A session that is gone does not come back, nor does its generation.
GoneStays ==
  \A s \in Adopters : adopter[s].state = "gone" =>
    /\ adopter'[s].state = "gone"
    /\ space[s].state \in {"none", "active"} => space'[s].state \in {"none", "active"}

\* Rows are staged into a generation that is being built, and taken out of one
\* that was claimed by the purge.
LEMMA SessionsStep ==
  ASSUME GInv, [PurgeNext]_purgeVars
  PROVE  SessionsOK' /\ GoneStays
<1> USE PurgeAssumption DEF GInv, SessionsOK, GoneStays
<1>0. time \in Nat /\ time' \in Nat /\ time <= time' /\ 0 \notin Adopters
  BY PurgeWriters DEF TimePasses, Adopters
<1>1. CASE UNCHANGED <<adopter, space, pin>>
  BY <1>0, <1>1
<1>2. ASSUME NEW s \in Adopters, BeginApply(s) PROVE SessionsOK' /\ GoneStays
  <2>1. adopter[s] \in Adopter /\ space[s] \in Space /\ adopter[s].state = "preview_ready"
    BY <1>2 DEF BeginApply
  <2>2. /\ adopter' \in [Adopters -> Adopter] /\ space' \in [Adopters -> Space] /\ pin' \in Pin
        /\ adopter'[s].state = "applying" /\ adopter'[s].cursor = adopter[s].cursor
        /\ space'[s].state = "building" /\ space'[s].rows = space[s].rows /\ pin'.active = 0
    <3>1. [adopter[s] EXCEPT !.state = "applying"] \in Adopter
      BY <2>1 DEF Adopter
    <3>2. [space[s] EXCEPT !.state = "building"] \in Space
      BY <2>1 DEF Space
    <3>3. pin.active = 0 /\ \A n \in Nat : [pin EXCEPT !.owner = s, !.until = n] \in Pin
      BY <1>2 DEF Pin, BeginApply
    <3>4. time + Lease \in Nat
      BY <1>0
    <3>5. pin' \in Pin /\ pin'.active = 0
      BY <1>2, <3>3, <3>4 DEF BeginApply, Pin
    <3>6. adopter' = [adopter EXCEPT ![s] = [adopter[s] EXCEPT !.state = "applying"]]
      BY <1>2 DEF BeginApply
    <3>7. space' = [space EXCEPT ![s] = [space[s] EXCEPT !.state = "building"]]
      BY <1>2 DEF BeginApply
    <3>8. adopter' \in [Adopters -> Adopter] /\ adopter'[s] = [adopter[s] EXCEPT !.state = "applying"]
      BY <3>1, <3>6
    <3>9. space' \in [Adopters -> Space] /\ space'[s] = [space[s] EXCEPT !.state = "building"]
      BY <3>2, <3>7
    <3>10. QED BY <2>1, <3>5, <3>8, <3>9 DEF Adopter, Space
  <2>3. \A t \in Adopters \ {s} : adopter'[t] = adopter[t] /\ space'[t] = space[t]
    BY <1>2 DEF BeginApply
  <2>4. time' = time
    BY <1>2 DEF BeginApply
  <2>5. QED BY <1>0, <2>1, <2>2, <2>3, <2>4
<1>3. ASSUME NEW s \in Adopters, RenewApply(s) PROVE SessionsOK' /\ GoneStays
  <2>1. UNCHANGED <<adopter, space, time>> /\ pin' \in Pin /\ pin'.active = pin.active
    BY <1>0, <1>3 DEF RenewApply, Pin
  <2>2. QED BY <2>1
<1>4. ASSUME NEW s \in Adopters, StageRow(s) PROVE SessionsOK' /\ GoneStays
  <2>1. /\ adopter[s] \in Adopter /\ space[s] \in Space /\ adopter[s].state = "applying"
        /\ space[s].state = "building" /\ adopter[s].cursor < Rows /\ pin.active = 0
    BY <1>4 DEF StageRow, StillBuilding
  <2>2. space[s].rows + 1 \in 0 .. Rows /\ adopter[s].cursor + 1 \in 0 .. Rows
    BY <2>1 DEF Adopter, Space
  <2>3. /\ adopter' \in [Adopters -> Adopter] /\ space' \in [Adopters -> Space] /\ pin' \in Pin
        /\ adopter'[s].state = "applying" /\ adopter'[s].cursor = adopter[s].cursor + 1
        /\ space'[s].state = "building" /\ space'[s].rows = space[s].rows + 1 /\ pin'.active = 0
    BY <1>0, <1>4, <2>1, <2>2 DEF StageRow, Adopter, Space, Pin
  <2>4. \A t \in Adopters \ {s} : adopter'[t] = adopter[t] /\ space'[t] = space[t]
    BY <1>4 DEF StageRow
  <2>5. time' = time
    BY <1>4 DEF StageRow
  <2>6. QED BY <1>0, <2>1, <2>3, <2>4, <2>5
<1>5. ASSUME NEW s \in Adopters, CompleteApply(s) PROVE SessionsOK' /\ GoneStays
  <2>1. /\ adopter[s] \in Adopter /\ space[s] \in Space /\ adopter[s].state = "applying"
        /\ space[s].state = "building" /\ adopter[s].cursor = Rows
    BY <1>5 DEF CompleteApply, StillBuilding
  <2>2. /\ adopter' \in [Adopters -> Adopter] /\ space' \in [Adopters -> Space] /\ pin' \in Pin
        /\ adopter'[s].state = "complete"
        /\ space'[s].state = "active" /\ space'[s].rows = space[s].rows /\ pin'.active = s
    BY <1>5, <2>1 DEF CompleteApply, Adopter, Space, Pin
  <2>3. \A t \in Adopters \ {s} : adopter'[t] = adopter[t] /\ space'[t] = space[t]
    BY <1>5 DEF CompleteApply
  <2>4. time' = time
    BY <1>5 DEF CompleteApply
  <2>5. QED BY <1>0, <2>1, <2>2, <2>3, <2>4
<1>6. ASSUME NEW s \in Adopters, ExpireSession(s) PROVE SessionsOK' /\ GoneStays
  <2>1. [state |-> "gone", cursor |-> 0] \in Adopter
    BY DEF Adopter
  <2>2. /\ adopter' \in [Adopters -> Adopter] /\ UNCHANGED <<space, pin, time>>
        /\ adopter'[s].state = "gone" /\ SessionUntil <= time
        /\ \A t \in Adopters \ {s} : adopter'[t] = adopter[t]
    BY <1>6, <2>1 DEF ExpireSession
  <2>3. QED BY <2>2
<1>7. ASSUME NEW c \in Cleaners, NEW k \in 0 .. MaxDeletes, PurgePage(c, k)
      PROVE  SessionsOK' /\ GoneStays
  <2> DEFINE s == run[c].at
  <2>1. UNCHANGED <<time, adopter, pin>>
    BY <1>7 DEF PurgePage
  <2>2. CASE space' = space
    BY <2>1, <2>2
  <2>3. ASSUME space' # space
        PROVE  /\ s \in Adopters /\ space' \in [Adopters -> Space]
               /\ space[s].state \in {"building", "purging"} /\ pin.active # s
               /\ space'[s].state \in {"purging", "none"}
               /\ adopter[s].state # "preview_ready" \/ space'[s].rows <= space[s].rows
               /\ \A t \in Adopters \ {s} : space'[t] = space[t]
    <3>1. s \in Adopters
      BY <1>7, <2>3 DEF PurgePage
    <3>2. space[s] \in Space
      BY <3>1
    <3>3. pin.active # s /\ space[s].state \notin {"none", "active"}
      BY <1>7, <2>3 DEF PurgePage, Inspect
    <3>4. \/ space' = [space EXCEPT ![s].state = "purging"]
          \/ k \in 1 .. space[s].rows /\ space[s].state = "purging" /\ space' = [space EXCEPT ![s].rows = @ - k]
          \/ space' = [space EXCEPT ![s].state = "none"]
      BY <1>7, <2>3 DEF PurgePage
    <3>5. CASE space' = [space EXCEPT ![s].state = "purging"] \/ space' = [space EXCEPT ![s].state = "none"]
      BY <3>1, <3>2, <3>3, <3>5 DEF Space
    <3>6. CASE k \in 1 .. space[s].rows /\ space[s].state = "purging" /\ space' = [space EXCEPT ![s].rows = @ - k]
      <4>1. space[s].rows - k \in 0 .. Rows /\ space[s].rows - k <= space[s].rows
        BY <3>2, <3>6 DEF Space
      <4>2. QED BY <3>1, <3>2, <3>3, <3>6, <4>1 DEF Space
    <3>7. QED BY <3>4, <3>5, <3>6
  <2>4. ASSUME space' # space PROVE SessionsOK' /\ GoneStays
    <3>1. \A t \in Adopters : space[t].rows \in Nat /\ space'[t].rows \in Nat
      BY <2>3, <2>4 DEF Space
    <3>2. SessionsOK'
      <4>1. ASSUME NEW t \in Adopters
            PROVE  /\ adopter[t].state = "preview_ready" => adopter[t].cursor = 0 /\ space'[t].rows = 0
                   /\ adopter[t].state = "applying" /\ space'[t].state = "building" =>
                        space'[t].rows = adopter[t].cursor
                   /\ space'[t].state = "active" => space'[t].rows = Rows
                   /\ adopter[t].state = "gone" => SessionUntil <= time
        <5>1. CASE t = s
          BY <2>3, <2>4, <3>1, <5>1
        <5>2. CASE t # s
          BY <2>3, <2>4, <5>2
        <5>3. QED BY <5>1, <5>2
      <4>2. pin.active # 0 => space'[pin.active].state = "active"
        BY <2>3, <2>4 DEF Pin
      <4>3. QED BY <2>1, <2>3, <2>4, <4>1, <4>2
    <3>3. GoneStays
      BY <2>1, <2>3, <2>4
    <3>4. QED BY <3>2, <3>3
  <2>5. QED BY <2>2, <2>4
<1>8. QED
  BY <1>1, <1>2, <1>3, <1>4, <1>5, <1>6, <1>7, PurgeWriters

-----------------------------------------------------------------------------
(* RetentionPurge: the runs *)

Shaped(x) ==
  x = [pc |-> x.pc, at |-> x.at, cutoff |-> x.cutoff, deletes |-> x.deletes,
       eligible |-> x.eligible, listed |-> x.listed, lost |-> x.lost, due |-> x.due,
       unresolved |-> x.unresolved, complete |-> x.complete]

\* A report that is to go has its audits listed, and is one more that was deleted.
Listing(x, audits) == [x EXCEPT !.pc = "listed", !.listed = audits, !.deletes = @ + 1]

LEMMA ListedFields ==
  ASSUME NEW x, Shaped(x), NEW audits, NEW y, y = Listing(x, audits)
  PROVE  /\ Shaped(y) /\ y.pc = "listed" /\ y.at = x.at /\ y.cutoff = x.cutoff
         /\ y.lost = x.lost /\ y.deletes = x.deletes + 1 /\ y.complete = x.complete
<1>1. y = [pc |-> "listed", at |-> x.at, cutoff |-> x.cutoff, deletes |-> x.deletes + 1,
           eligible |-> x.eligible, listed |-> audits, lost |-> x.lost, due |-> x.due,
           unresolved |-> x.unresolved, complete |-> x.complete]
  BY DEF Shaped, Listing
<1>2. QED BY <1>1 DEF Shaped

\* A scan goes on to the next document, or to the next scan, and keeps the rest.
LEMMA AdvanceFields ==
  ASSUME NEW x, Shaped(x), x.at \in Nat, NEW last \in Nat, NEW next,
         NEW y, y = Advance(x, last, next)
  PROVE  /\ Shaped(y) /\ y.at \in Nat
         /\ y.cutoff = x.cutoff /\ y.deletes = x.deletes /\ y.lost = x.lost
         /\ y.due = x.due /\ y.complete = x.complete
         /\ \/ x.at < last /\ y.pc = x.pc /\ y.at = x.at + 1
            \/ last <= x.at /\ y.pc = next /\ y.at = 1
<1>1. CASE x.at < last
  BY <1>1 DEF Advance, Shaped
<1>2. CASE ~(x.at < last)
  <2>1. y = [x EXCEPT !.pc = next, !.at = 1]
    BY <1>2 DEF Advance
  <2>2. y = [pc |-> next, at |-> 1, cutoff |-> x.cutoff, deletes |-> x.deletes,
             eligible |-> x.eligible, listed |-> x.listed, lost |-> x.lost, due |-> x.due,
             unresolved |-> x.unresolved, complete |-> x.complete]
    BY <2>1 DEF Shaped
  <2>3. Shaped(y)
    BY <2>2 DEF Shaped
  <2>4. QED BY <1>2, <2>2, <2>3
<1>3. QED BY <1>1, <1>2

\* The fields a step writes; it keeps the others.
Emptied(x) == [x EXCEPT !.pc = "reports", !.listed = {}]

LEMMA EmptiedFields ==
  ASSUME NEW x, Shaped(x)
  PROVE  LET y == Emptied(x)
         IN  /\ Shaped(y) /\ y.pc = "reports" /\ y.at = x.at /\ y.cutoff = x.cutoff
             /\ y.lost = x.lost /\ y.deletes = x.deletes /\ y.complete = x.complete
<1> DEFINE y == Emptied(x)
<1>1. y = [x EXCEPT !.pc = "reports", !.listed = {}]
  BY DEF Emptied
<1> HIDE DEF y
<1>2. Shaped(y)
  BY <1>1 DEF Shaped
<1>3. y.pc = "reports" /\ y.at = x.at /\ y.cutoff = x.cutoff
  BY <1>1 DEF Shaped
<1>4. y.lost = x.lost /\ y.deletes = x.deletes /\ y.complete = x.complete
  BY <1>1 DEF Shaped
<1>5. QED BY <1>2, <1>3, <1>4 DEF y

Moved(x, at, due) == [x EXCEPT !.at = at, !.due = due]

LEMMA MovedFields ==
  ASSUME NEW x, Shaped(x), NEW at, NEW due
  PROVE  LET y == Moved(x, at, due)
         IN  /\ Shaped(y) /\ y.pc = x.pc /\ y.at = at /\ y.cutoff = x.cutoff
             /\ y.due = due /\ y.lost = x.lost /\ y.deletes = x.deletes /\ y.complete = x.complete
<1> DEFINE y == Moved(x, at, due)
<1>1. y = [x EXCEPT !.at = at, !.due = due]
  BY DEF Moved
<1> HIDE DEF y
<1>2. Shaped(y)
  BY <1>1 DEF Shaped
<1>3. y.pc = x.pc /\ y.at = at /\ y.cutoff = x.cutoff
  BY <1>1 DEF Shaped
<1>4. y.due = due /\ y.lost = x.lost /\ y.deletes = x.deletes /\ y.complete = x.complete
  BY <1>1 DEF Shaped
<1>5. QED BY <1>2, <1>3, <1>4 DEF y

Ended(x, due, complete) == [x EXCEPT !.pc = "done", !.due = due, !.complete = complete]

LEMMA EndedFields ==
  ASSUME NEW x, Shaped(x), NEW due, NEW complete
  PROVE  LET y == Ended(x, due, complete)
         IN  /\ Shaped(y) /\ y.pc = "done" /\ y.at = x.at /\ y.cutoff = x.cutoff
             /\ y.due = due /\ y.lost = x.lost /\ y.deletes = x.deletes /\ y.complete = complete
<1> DEFINE y == Ended(x, due, complete)
<1>1. y = [x EXCEPT !.pc = "done", !.due = due, !.complete = complete]
  BY DEF Ended
<1> HIDE DEF y
<1>2. Shaped(y)
  BY <1>1 DEF Shaped
<1>3. y.pc = "done" /\ y.at = x.at /\ y.cutoff = x.cutoff
  BY <1>1 DEF Shaped
<1>4. y.due = due /\ y.lost = x.lost /\ y.deletes = x.deletes /\ y.complete = complete
  BY <1>1 DEF Shaped
<1>5. QED BY <1>2, <1>3, <1>4 DEF y

\* What a run knows is not undone by the steps of others.
LEMMA RunKeeps ==
  ASSUME GInv, [PurgeNext]_purgeVars, NEW c \in Cleaners, run'[c] = run[c]
  PROVE  RunOK(run[c])'
<1> DEFINE x == run[c]
<1>1. time \in Nat /\ time' \in Nat /\ time <= time' /\ RunOK(x)
  BY PurgeWriters DEF GInv, TimePasses
<1>2. ReportsOK' /\ SessionsOK' /\ GoneStays
  BY ReportsStep, SessionsStep
<1>3. ASSUME NEW s \in x.lost
      PROVE  /\ s \in Adopters /\ adopter'[s].state = "gone" /\ SessionUntil <= x.cutoff
             /\ space[s].state \in {"none", "active"} => space'[s].state \in {"none", "active"}
  BY <1>1, <1>2 DEF RunOK, RunTypeOK, GoneStays
<1>4. ASSUME NEW r \in Filed, filed'[r].until <= x.cutoff
      PROVE  /\ filed[r].until <= x.cutoff /\ (filed'[r].there => filed[r].there)
             /\ filed'[r].audit \subseteq filed[r].audit
  <2>1. filed'[r].until \in Nat /\ x.cutoff \in 0 .. time
    BY <1>1, <1>2 DEF RunOK, RunTypeOK, ReportsOK, Report
  <2>2. filed'[r].until <= time
    BY <1>1, <1>4, <2>1
  <2>3. QED BY <1>4, <2>2, ReportsStep
<1>5. x.cutoff \in 0 .. time'
  BY <1>1 DEF RunOK, RunTypeOK
<1>6. RunTypeOK(x)'
  BY <1>1, <1>3, <1>5 DEF RunOK, RunTypeOK
<1>7. PassedBy(x)'
  BY <1>1, <1>3, <1>4 DEF RunOK, PassedBy
<1>8. QED BY <1>1, <1>6, <1>7 DEF RunOK

\* A run begins with what is gone by then, and knows nothing else.
LEMMA RunBegins ==
  ASSUME GInv, [PurgeNext]_purgeVars, NEW c \in Cleaners, StartRun(c) \/ AbandonRun(c)
  PROVE  RunOK(run[c])'
<1> USE DEF GInv
<1>1. time' = time /\ adopter' = adopter /\ time \in Nat
  BY DEF StartRun, AbandonRun, OnlyRun
<1>2. CASE AbandonRun(c)
  <2>1. run'[c] = NotRunning
    BY <1>2 DEF AbandonRun, Put
  <2>2. QED
    BY <1>1, <2>1, PurgeAssumption DEF RunOK, RunTypeOK, PassedBy, NotRunning, Posts, Scans
<1>3. CASE StartRun(c)
  <2> DEFINE gone == {s \in Adopters : adopter[s].state = "gone"}
  <2>1. run'[c] = [pc |-> "reports", at |-> 1, cutoff |-> time, deletes |-> 0, eligible |-> 0,
                   listed |-> {}, lost |-> gone, due |-> FALSE, unresolved |-> FALSE,
                   complete |-> FALSE]
    BY <1>3 DEF StartRun, Put, NotRunning
  <2>2. \A s \in gone : SessionUntil <= time
    BY DEF SessionsOK
  <2>3. RunTypeOK(run[c])'
    BY <1>1, <2>1, <2>2, PurgeAssumption DEF RunTypeOK, Scans
  <2>4. QED
    BY <2>1, <2>3 DEF RunOK, PassedBy, Posts
<1>4. QED BY <1>2, <1>3

\* While it scans, a run only counts.
Scanning(x, y) ==
  /\ y.pc \in Scans \cup {"postreports"} /\ (y.pc = "postreports" => y.at = 1) /\ y.at \in Nat
  /\ y.cutoff = x.cutoff /\ y.lost = x.lost /\ y.complete = x.complete

LEMMA ScansOK ==
  ASSUME GInv, [PurgeNext]_purgeVars, NEW c \in Cleaners, run[c].pc \in Scans,
         Shaped(run'[c]), Scanning(run[c], run'[c]), run'[c].deletes \in 0 .. MaxDeletes,
         run'[c].pc \in {"orphan", "page"} => run'[c].deletes < MaxDeletes,
         run'[c].pc = "listed" /\ run'[c].at \in Filed => FiledUntil[run'[c].at] <= run[c].cutoff
  PROVE  RunOK(run[c])'
<1> DEFINE x == run[c]
<1>1. time \in Nat /\ time' \in Nat /\ time <= time' /\ RunOK(x)
  BY PurgeWriters DEF GInv, TimePasses
<1>2. SessionsOK' /\ GoneStays
  BY SessionsStep
<1>3. \A s \in x.lost : s \in Adopters /\ adopter'[s].state = "gone" /\ SessionUntil <= x.cutoff
  BY <1>1, <1>2 DEF RunOK, RunTypeOK, GoneStays
<1>4. x.cutoff \in 0 .. time' /\ ~x.complete
  BY <1>1 DEF RunOK, RunTypeOK, Scans
<1>5. RunTypeOK(run[c])'
  BY <1>3, <1>4 DEF RunTypeOK, Shaped, Scanning, Posts
<1>6. PassedBy(run[c])'
  BY DEF PassedBy, Scanning, Scans, Posts, Filed
<1>7. QED BY <1>4, <1>5, <1>6 DEF RunOK, Scanning

\* Reports and audit entries: a report is deleted when it is due at the cutoff,
\* and none beyond the budget.
LEMMA ReportScan ==
  ASSUME GInv, [PurgeNext]_purgeVars, NEW c \in Cleaners,
         \/ LookAtReport(c) \/ LookAtOrphan(c) \/ DeleteOrphan(c) \/ PassAudits(c)
         \/ \E gone \in SUBSET run[c].listed, failed \in BOOLEAN :
              DeleteReport(c, gone, failed) /\ ~failed
  PROVE  RunOK(run[c])'
<1> DEFINE x == run[c]
<1>0. /\ time \in Nat /\ RunTypeOK(x) /\ Shaped(x) /\ x.at \in Nat
      /\ x.deletes \in 0 .. MaxDeletes /\ MaxDeletes \in Nat /\ LastFiled \in Nat
      /\ x.cutoff \in 0 .. time
  BY PurgeAssumption DEF GInv, RunOK, RunTypeOK, Shaped
<1>1. CASE LookAtReport(c)
  <2> DEFINE r   == x.at
             due == filed[r].there /\ Due(c, filed[r].until)
             me  == IF due THEN [x EXCEPT !.eligible = @ + 1] ELSE x
  <2>1. x.pc = "reports"
    BY <1>1 DEF LookAtReport
  <2>2. Shaped(me) /\ me.at = x.at /\ me.pc = x.pc /\ me.cutoff = x.cutoff /\ me.lost = x.lost
        /\ me.deletes = x.deletes /\ me.complete = x.complete
    BY <1>0 DEF Shaped
  <2>3. CASE due /\ Budget(c) > 0
    <3>1. run'[c] = Listing(me, filed[r].audit)
      BY <1>1, <2>3 DEF LookAtReport, Put, GInv, Listing
    <3>2. x.deletes + 1 \in 0 .. MaxDeletes
      BY <1>0, <2>3 DEF Budget
    <3>3. r \in Filed => FiledUntil[r] <= x.cutoff
      BY <1>0, <2>3, PurgeAssumption DEF Due, GInv, ReportsOK, Report
    <3>4. Shaped(run'[c]) /\ run'[c].pc = "listed" /\ run'[c].at = x.at /\ run'[c].cutoff = x.cutoff
          /\ run'[c].lost = x.lost /\ run'[c].deletes = x.deletes + 1 /\ run'[c].complete = x.complete
      <4> HIDE DEF me
      <4> QED BY <2>2, <3>1, ListedFields
    <3>5. QED
      BY <1>0, <2>1, <3>2, <3>3, <3>4, ScansOK DEF Scanning, Scans
  <2>4. CASE ~(due /\ Budget(c) > 0)
    <3>1. run'[c] = Advance(me, LastFiled, "audits")
      BY <1>1, <2>4 DEF LookAtReport, Put, GInv
    <3> HIDE DEF me
    <3>2. /\ Shaped(run'[c]) /\ run'[c].at \in Nat /\ run'[c].cutoff = me.cutoff
          /\ run'[c].lost = me.lost /\ run'[c].deletes = me.deletes
          /\ run'[c].complete = me.complete
          /\ run'[c].pc = me.pc \/ run'[c].pc = "audits"
      BY <1>0, <2>2, <3>1, AdvanceFields
    <3>3. QED
      BY <1>0, <2>1, <2>2, <3>2, ScansOK DEF Scanning, Scans
  <2>5. QED BY <2>3, <2>4
<1>2. CASE LookAtOrphan(c)
  <2>1. run'[c] = [x EXCEPT !.pc = "orphan", !.eligible = @ + 1] /\ x.pc = "audits" /\ x.deletes < MaxDeletes
    BY <1>0, <1>2 DEF LookAtOrphan, Put, GInv, Budget
  <2>2. Shaped(run'[c]) /\ run'[c].pc = "orphan" /\ run'[c].at = x.at /\ run'[c].cutoff = x.cutoff
        /\ run'[c].lost = x.lost /\ run'[c].deletes = x.deletes /\ run'[c].complete = x.complete
    BY <1>0, <2>1 DEF Shaped
  <2>3. QED
    BY <1>0, <2>1, <2>2, ScansOK DEF Scanning, Scans
<1>3. CASE DeleteOrphan(c)
  <2>1. x.pc = "orphan" /\ x.deletes < MaxDeletes
    BY <1>0, <1>3 DEF DeleteOrphan, RunTypeOK
  <2>2. \/ run'[c] = [x EXCEPT !.pc = "audits", !.deletes = @ + 1]
        \/ run'[c] = [x EXCEPT !.pc = "audits"]
    BY <1>3 DEF DeleteOrphan, Put, GInv
  <2>3. x.deletes \in 0 .. MaxDeletes /\ x.deletes + 1 \in 0 .. MaxDeletes
    BY <1>0, <2>1
  <2>4. Shaped(run'[c]) /\ run'[c].pc = "audits" /\ run'[c].at = x.at /\ run'[c].cutoff = x.cutoff
        /\ run'[c].lost = x.lost /\ run'[c].deletes \in {x.deletes, x.deletes + 1}
        /\ run'[c].complete = x.complete
    <3>1. CASE run'[c] = [x EXCEPT !.pc = "audits", !.deletes = @ + 1]
      BY <1>0, <3>1 DEF Shaped
    <3>2. CASE run'[c] = [x EXCEPT !.pc = "audits"]
      BY <1>0, <3>2 DEF Shaped
    <3>3. QED BY <2>2, <3>1, <3>2
  <2>5. QED
    BY <1>0, <2>1, <2>3, <2>4, ScansOK DEF Scanning, Scans
<1>4. CASE PassAudits(c)
  <2> DEFINE on == Advance(x, LastFiled, "gens")
  <2>1. x.pc = "audits" /\ \E n : run'[c] = [on EXCEPT !.eligible = n]
    BY <1>4 DEF PassAudits, Put, GInv
  <2>2. /\ Shaped(on) /\ on.at \in Nat /\ on.cutoff = x.cutoff /\ on.lost = x.lost
        /\ on.deletes = x.deletes /\ on.complete = x.complete /\ on.pc \in {"audits", "gens"}
    BY <1>0, <2>1, AdvanceFields
  <2>3. Shaped(run'[c]) /\ run'[c].pc = on.pc /\ run'[c].at = on.at /\ run'[c].cutoff = on.cutoff
        /\ run'[c].lost = on.lost /\ run'[c].deletes = on.deletes /\ run'[c].complete = on.complete
    BY <2>1, <2>2 DEF Shaped
  <2>4. QED
    BY <1>0, <2>1, <2>2, <2>3, ScansOK DEF Scanning, Scans
<1>5. ASSUME NEW gone, DeleteReport(c, gone, FALSE) PROVE RunOK(run[c])'
  <2> DEFINE on == Emptied(x)
  <2>1. x.pc = "listed" /\ run'[c] = Advance(on, LastFiled, "audits")
    BY <1>5 DEF DeleteReport, Put, GInv, Emptied
  <2>2. Shaped(on) /\ on.pc = "reports" /\ on.at = x.at /\ on.cutoff = x.cutoff
        /\ on.lost = x.lost /\ on.deletes = x.deletes /\ on.complete = x.complete
    BY <1>0, EmptiedFields
  <2> HIDE DEF on
  <2>3. /\ Shaped(run'[c]) /\ run'[c].at \in Nat /\ run'[c].cutoff = on.cutoff
        /\ run'[c].lost = on.lost /\ run'[c].deletes = on.deletes
        /\ run'[c].complete = on.complete
        /\ run'[c].pc = on.pc \/ run'[c].pc = "audits"
    BY <1>0, <2>1, <2>2, AdvanceFields
  <2>4. QED
    BY <1>0, <2>1, <2>2, <2>3, ScansOK DEF Scanning, Scans
<1>6. QED BY <1>1, <1>2, <1>3, <1>4, <1>5

\* Generations: one that is due is claimed, emptied and dropped, in pages.
LEMMA GenerationScan ==
  ASSUME GInv, [PurgeNext]_purgeVars, NEW c \in Cleaners,
         LookAtGeneration(c) \/ \E k \in 0 .. MaxDeletes : PurgePage(c, k)
  PROVE  RunOK(run[c])'
<1> DEFINE x == run[c]
<1>0. /\ RunTypeOK(x) /\ Shaped(x) /\ x.at \in Nat /\ x.deletes \in 0 .. MaxDeletes
      /\ MaxDeletes \in Nat /\ MaxDeletes # 0 /\ LastSession \in Nat
  BY PurgeAssumption DEF GInv, RunOK, RunTypeOK, Shaped
<1>1. CASE LookAtGeneration(c)
  <2>1. x.pc = "gens"
    BY <1>1 DEF LookAtGeneration
  <2>2. CASE run'[c] = [x EXCEPT !.pc = "page"] /\ x.deletes < MaxDeletes
    <3>1. Shaped(run'[c]) /\ run'[c].pc = "page" /\ run'[c].at = x.at /\ run'[c].cutoff = x.cutoff
          /\ run'[c].lost = x.lost /\ run'[c].deletes = x.deletes /\ run'[c].complete = x.complete
      BY <1>0, <2>2 DEF Shaped
    <3>2. QED
      BY <1>0, <2>1, <2>2, <3>1, ScansOK DEF Scanning, Scans
  <2>3. CASE run'[c] = Advance(x, LastSession, "postreports")
    <3>1. /\ Shaped(run'[c]) /\ run'[c].at \in Nat /\ run'[c].cutoff = x.cutoff
          /\ run'[c].lost = x.lost /\ run'[c].deletes = x.deletes /\ run'[c].complete = x.complete
          /\ run'[c].pc = x.pc \/ (run'[c].pc = "postreports" /\ run'[c].at = 1)
      BY <1>0, <2>3, AdvanceFields
    <3>2. QED
      BY <1>0, <2>1, <3>1, ScansOK DEF Scanning, Scans
  <2>4. QED
    BY <1>0, <1>1, <2>2, <2>3 DEF LookAtGeneration, Put, GInv, Budget
<1>2. ASSUME NEW k \in 0 .. MaxDeletes, PurgePage(c, k) PROVE RunOK(run[c])'
  <2> DEFINE on   == [x EXCEPT !.deletes = @ + k]
             back == [on EXCEPT !.pc = "gens"]
             stop == Advance(back, LastSession, "postreports")
  <2>1. x.pc = "page" /\ x.deletes < MaxDeletes
    BY <1>0, <1>2 DEF PurgePage, RunTypeOK
  <2>2. k <= MaxDeletes - x.deletes
    <3>1. k = 0 \/ k = 1 \/ k <= Budget(c)
      BY <1>2 DEF PurgePage
    <3>2. QED BY <1>0, <1>2, <2>1, <3>1 DEF Budget
  <2>3. x.deletes + k \in 0 .. MaxDeletes
    BY <1>0, <2>2
  <2>4. Shaped(on) /\ on.pc = "page" /\ on.at = x.at /\ on.cutoff = x.cutoff
        /\ on.lost = x.lost /\ on.deletes = x.deletes + k /\ on.complete = x.complete
    BY <1>0, <2>1 DEF Shaped
  <2>5. run'[c] = stop \/ (run'[c] = on /\ on.deletes < MaxDeletes)
    BY <1>2 DEF PurgePage, Put, GInv
  <2> HIDE DEF on
  <2>6. Shaped(back) /\ back.pc = "gens" /\ back.at = on.at /\ back.cutoff = on.cutoff
        /\ back.lost = on.lost /\ back.deletes = on.deletes /\ back.complete = on.complete
    BY <2>4 DEF Shaped
  <2> HIDE DEF back
  <2>7. CASE run'[c] = on /\ on.deletes < MaxDeletes
    BY <1>0, <2>1, <2>3, <2>4, <2>7, ScansOK DEF Scanning, Scans
  <2>8. CASE run'[c] = stop
    <3>1. /\ Shaped(run'[c]) /\ run'[c].at \in Nat /\ run'[c].cutoff = back.cutoff
          /\ run'[c].lost = back.lost /\ run'[c].deletes = back.deletes
          /\ run'[c].complete = back.complete
          /\ run'[c].pc = back.pc \/ (run'[c].pc = "postreports" /\ run'[c].at = 1)
      BY <1>0, <2>4, <2>6, <2>8, AdvanceFields
    <3>2. QED
      BY <1>0, <2>1, <2>3, <2>4, <2>6, <3>1, ScansOK DEF Scanning, Scans
  <2>9. QED BY <2>5, <2>7, <2>8
<1>3. QED BY <1>1, <1>2

\* The postcheck: what it passes by without finding it due is gone.
LEMMA Postcheck ==
  ASSUME GInv, [PurgeNext]_purgeVars, NEW c \in Cleaners,
         RecheckReport(c) \/ RecheckAudits(c) \/ RecheckGeneration(c)
  PROVE  RunOK(run[c])'
<1> DEFINE x == run[c]  r == x.at
<1>0. /\ RunTypeOK(x) /\ Shaped(x) /\ x.at \in Nat /\ RunOK(x) /\ PassedBy(x)
      /\ LastSession \in Nat /\ LastFiled \in Nat
  BY PurgeAssumption DEF GInv, RunOK, RunTypeOK, Shaped
<1>1. UNCHANGED <<time, filed, adopter, space, pin>> /\ x.pc \in Posts \ {"done"} /\ ~x.complete
  BY <1>0 DEF RecheckReport, RecheckAudits, RecheckGeneration, OnlyRun, RunOK, Posts
<1>2. \A q \in Filed : /\ q \in Nat /\ q <= LastFiled
                       /\ filed[q].until \in Nat
                       /\ \A e \in filed[q].audit : e[2] \in Nat /\ e[2] <= filed[q].until
  <2>1. \A q \in Filed : filed[q] \in Report
    BY DEF GInv, ReportsOK
  <2>2. QED BY <1>0, <2>1 DEF GInv, ReportsOK, Report, Filed
<1>3. x.cutoff \in Nat
  BY <1>0 DEF RunTypeOK, GInv
<1>4. ASSUME NEW y, y = run'[c], Shaped(y), y.at \in Nat, y.cutoff = x.cutoff, y.deletes = x.deletes,
             y.lost = x.lost, y.pc \in Posts, PassedBy(y), y.complete => y.pc = "done" /\ ~y.due
      PROVE  RunOK(run[c])'
  <2>1. RunTypeOK(run[c])'
    BY <1>0, <1>1, <1>4 DEF RunTypeOK, Shaped, Posts, Scans
  <2>2. PassedBy(run[c])'
    BY <1>1, <1>4 DEF PassedBy
  <2>3. QED BY <1>4, <2>1, <2>2 DEF RunOK
<1>5. CASE RecheckReport(c)
  <2> DEFINE found == filed[r].there /\ Due(c, filed[r].until)
             y     == [x EXCEPT !.due = @ \/ found]
             z     == Advance(y, LastFiled, "postaudits")
  <2>1. run'[c] = z /\ x.pc = "postreports"
    BY <1>5 DEF RecheckReport, Put, GInv
  <2>2. /\ Shaped(y) /\ y.at = x.at /\ y.pc = x.pc /\ y.cutoff = x.cutoff /\ y.deletes = x.deletes
        /\ y.lost = x.lost /\ y.complete = x.complete /\ y.due = (x.due \/ found)
    BY <1>0 DEF Shaped
  <2> HIDE DEF y
  <2>3. /\ Shaped(z) /\ z.at \in Nat /\ z.cutoff = y.cutoff /\ z.deletes = y.deletes
        /\ z.lost = y.lost /\ z.due = y.due /\ z.complete = y.complete
        /\ \/ y.at < LastFiled /\ z.pc = y.pc /\ z.at = y.at + 1
           \/ LastFiled <= y.at /\ z.pc = "postaudits" /\ z.at = 1
    BY <1>0, <2>2, AdvanceFields
  <2> HIDE DEF z
  <2>4. ASSUME ~z.due, NEW q \in Filed, filed[q].until <= x.cutoff, z.pc # "postreports" \/ q < z.at
        PROVE  ~filed[q].there
    <3>1. ~x.due /\ (q < x.at \/ q = x.at)
      <4>1. ~x.due
        BY <2>2, <2>3, <2>4
      <4>2. (z.at = x.at + 1 /\ z.pc = "postreports") \/ LastFiled <= x.at
        BY <2>1, <2>2, <2>3
      <4>3. q < x.at \/ q = x.at
        BY <1>0, <1>2, <2>4, <4>2
      <4>4. QED BY <4>1, <4>3
    <3>2. CASE q < x.at
      BY <1>0, <2>1, <2>4, <3>1, <3>2 DEF PassedBy, Posts
    <3>3. CASE q = x.at
      BY <2>2, <2>3, <2>4, <3>3 DEF Due
    <3>4. QED BY <3>1, <3>2, <3>3
  <2>5. z.pc \in {"postreports", "postaudits"} /\ (z.pc = "postaudits" => z.at = 1)
    BY <2>1, <2>2, <2>3
  <2>6. \A q \in Filed : ~(q < 1)
    BY DEF Filed
  <2>7. PassedBy(z)
    BY <1>2, <2>2, <2>3, <2>4, <2>5, <2>6 DEF PassedBy
  <2>8. QED BY <1>1, <1>4, <2>1, <2>2, <2>3, <2>7 DEF Posts
<1>6. CASE RecheckAudits(c)
  <2> DEFINE found == Orphans(c, r) # {}
             y     == [x EXCEPT !.due = @ \/ found]
             z     == Advance(y, LastFiled, "postgens")
  <2>1. run'[c] = z /\ x.pc = "postaudits"
    BY <1>6 DEF RecheckAudits, Put, GInv
  <2>2. /\ Shaped(y) /\ y.at = x.at /\ y.pc = x.pc /\ y.cutoff = x.cutoff /\ y.deletes = x.deletes
        /\ y.lost = x.lost /\ y.complete = x.complete /\ y.due = (x.due \/ found)
    BY <1>0 DEF Shaped
  <2> HIDE DEF y
  <2>3. /\ Shaped(z) /\ z.at \in Nat /\ z.cutoff = y.cutoff /\ z.deletes = y.deletes
        /\ z.lost = y.lost /\ z.due = y.due /\ z.complete = y.complete
        /\ \/ y.at < LastFiled /\ z.pc = y.pc /\ z.at = y.at + 1
           \/ LastFiled <= y.at /\ z.pc = "postgens" /\ z.at = 1
    BY <1>0, <2>2, AdvanceFields
  <2> HIDE DEF z
  <2>4. ASSUME ~x.due, ~found, r \in Filed, filed[r].until <= x.cutoff PROVE filed[r].audit = {}
    <3>1. ~filed[r].there
      BY <1>0, <2>1, <2>4 DEF PassedBy, Posts
    <3>2. \A e \in filed[r].audit : e[2] <= x.cutoff
      BY <1>2, <1>3, <2>4
    <3>3. QED BY <2>4, <3>1, <3>2 DEF Orphans, Due
  <2> HIDE DEF found
  <2>5. ASSUME ~z.due, NEW q \in Filed, filed[q].until <= x.cutoff
        PROVE  ~filed[q].there /\ (z.pc = "postgens" \/ q < z.at => filed[q].audit = {})
    <3>1. ~x.due /\ ~found
      BY <2>2, <2>3, <2>5
    <3>2. ~filed[q].there
      BY <1>0, <2>1, <2>5, <3>1 DEF PassedBy, Posts
    <3>3. ASSUME z.pc = "postgens" \/ q < z.at PROVE q < x.at \/ q = x.at
      BY <1>0, <1>2, <2>1, <2>2, <2>3, <3>3
    <3>4. CASE q < x.at
      BY <1>0, <2>1, <2>5, <3>1, <3>2, <3>4 DEF PassedBy, Posts
    <3>5. CASE q = x.at
      BY <2>4, <2>5, <3>1, <3>2, <3>5
    <3>6. QED BY <3>2, <3>3, <3>4, <3>5
  <2>6. z.pc \in {"postaudits", "postgens"} /\ (z.pc = "postgens" => z.at = 1)
    BY <2>1, <2>2, <2>3
  <2>7. \A s \in x.lost : ~(s < 1)
    BY <1>0 DEF RunTypeOK, Adopters
  <2>8. PassedBy(z)
    BY <2>2, <2>3, <2>5, <2>6, <2>7 DEF PassedBy
  <2>9. QED BY <1>1, <1>4, <2>1, <2>2, <2>3, <2>8 DEF Posts
<1>7. CASE RecheckGeneration(c)
  <2> DEFINE due  == x.due \/ Remains(c, r)
             full == ~due /\ x.deletes >= x.eligible /\ ~x.unresolved
             next == Moved(x, x.at + 1, due)
             end  == Ended(x, due, full)
  <2>1. x.pc = "postgens" /\ run'[c] = IF r < LastSession THEN next ELSE end
    BY <1>7 DEF RecheckGeneration, Put, GInv, Moved, Ended
  <2>2. ASSUME ~due, r \in x.lost PROVE space[r].state \in {"none", "active"}
    <3>1. SessionUntil <= x.cutoff /\ r \in Adopters
      BY <1>0, <2>2 DEF RunTypeOK
    <3>2. QED BY <2>2, <3>1 DEF Remains, Inspect, Due, GInv, SessionsOK, Adopters
  <2>3. \A s \in x.lost : s \in Nat /\ s <= LastSession
    BY <1>0 DEF RunTypeOK, Adopters
  <2>4. ~due => /\ \A q \in Filed : filed[q].until <= x.cutoff => ~filed[q].there /\ filed[q].audit = {}
                /\ \A s \in x.lost : s < x.at => space[s].state \in {"none", "active"}
    BY <1>0, <2>1 DEF PassedBy, Posts
  <2> HIDE DEF due
  <2>5. ASSUME r < LastSession PROVE RunOK(run[c])'
    <3>1. ~due => /\ \A q \in Filed : filed[q].until <= x.cutoff => ~filed[q].there /\ filed[q].audit = {}
                  /\ \A s \in x.lost : s < x.at + 1 => space[s].state \in {"none", "active"}
      BY <1>0, <2>2, <2>3, <2>4
    <3>2. /\ Shaped(next) /\ next.at = x.at + 1 /\ next.pc = x.pc /\ next.cutoff = x.cutoff
          /\ next.deletes = x.deletes /\ next.lost = x.lost /\ next.complete = x.complete
          /\ next.due = due
      BY <1>0, MovedFields
    <3> HIDE DEF next
    <3>3. PassedBy(next)
      BY <2>1, <3>1, <3>2 DEF PassedBy
    <3>4. QED BY <1>0, <1>1, <1>4, <2>1, <2>5, <3>2, <3>3
  <2>6. ASSUME ~(r < LastSession) PROVE RunOK(run[c])'
    <3>1. /\ Shaped(end) /\ end.at = x.at /\ end.pc = "done" /\ end.cutoff = x.cutoff
          /\ end.deletes = x.deletes /\ end.lost = x.lost /\ end.complete = full
          /\ end.due = due
      BY <1>0, EndedFields
    <3> HIDE DEF end
    <3>2. PassedBy(end)
      <4>1. \A s \in x.lost : s < x.at \/ s = x.at
        BY <1>0, <2>3, <2>6
      <4>2. QED BY <2>2, <2>4, <3>1, <4>1 DEF PassedBy
    <3>3. QED BY <1>0, <1>1, <1>4, <2>1, <2>6, <3>1, <3>2 DEF Posts
  <2>7. QED BY <2>5, <2>6
<1>8. QED BY <1>5, <1>6, <1>7

\* Every run, whatever step is taken.
LEMMA RunStep ==
  ASSUME GInv, [PurgeNext]_purgeVars, NEW c \in Cleaners
  PROVE  RunOK(run[c])'
<1>1. CASE run'[c] = run[c]
  BY <1>1, RunKeeps
<1>2. ASSUME NEW d \in Cleaners, d # c,
             \/ StartRun(d) \/ AbandonRun(d) \/ LookAtReport(d)
             \/ \E gone \in SUBSET run[d].listed, failed \in BOOLEAN : DeleteReport(d, gone, failed)
             \/ LookAtOrphan(d) \/ DeleteOrphan(d) \/ PassAudits(d) \/ LookAtGeneration(d)
             \/ \E k \in 0 .. MaxDeletes : PurgePage(d, k)
             \/ RecheckReport(d) \/ RecheckAudits(d) \/ RecheckGeneration(d)
      PROVE  run'[c] = run[c]
  <2>1. \E r : Put(d, r)
    BY <1>2 DEF StartRun, AbandonRun, LookAtReport, DeleteReport, LookAtOrphan, DeleteOrphan,
       PassAudits, LookAtGeneration, PurgePage, RecheckReport, RecheckAudits, RecheckGeneration
  <2>2. QED BY <1>2, <2>1 DEF Put, GInv
<1>3. ASSUME NEW gone \in SUBSET run[c].listed, DeleteReport(c, gone, TRUE) PROVE RunOK(run[c])'
  <2>1. run'[c] = NotRunning /\ time' = time
    BY <1>3 DEF DeleteReport, Put, GInv
  <2>2. QED
    BY <2>1, PurgeAssumption DEF GInv, RunOK, RunTypeOK, PassedBy, NotRunning, Posts, Scans
<1>4. ASSUME NEW gone \in SUBSET run[c].listed, NEW failed \in BOOLEAN, DeleteReport(c, gone, failed)
      PROVE  RunOK(run[c])'
  BY <1>3, <1>4, ReportScan
<1>5. QED
  BY <1>1, <1>2, <1>4, RunBegins, ReportScan, GenerationScan, Postcheck, PurgeWriters

LEMMA PurgeStep == GInv /\ [PurgeNext]_purgeVars => GInv'
<1> SUFFICES ASSUME GInv, [PurgeNext]_purgeVars PROVE GInv'
  OBVIOUS
<1>1. time' \in 0 .. MaxTime
  BY PurgeWriters, PurgeAssumption DEF GInv, TimePasses
<1>2. runs' \in 0 .. MaxRuns
  <2>1. ASSUME NEW c \in Cleaners, StartRun(c) PROVE runs' \in 0 .. MaxRuns
    BY <2>1, PurgeAssumption DEF GInv, StartRun
  <2>2. CASE runs' = runs
    BY <2>2 DEF GInv
  <2>3. QED BY <2>1, <2>2, PurgeWriters
<1>3. run' = [c \in Cleaners |-> run'[c]]
  <2>1. ASSUME NEW c \in Cleaners,
               \/ StartRun(c) \/ AbandonRun(c) \/ LookAtReport(c)
               \/ \E gone \in SUBSET run[c].listed, failed \in BOOLEAN : DeleteReport(c, gone, failed)
               \/ LookAtOrphan(c) \/ DeleteOrphan(c) \/ PassAudits(c) \/ LookAtGeneration(c)
               \/ \E k \in 0 .. MaxDeletes : PurgePage(c, k)
               \/ RecheckReport(c) \/ RecheckAudits(c) \/ RecheckGeneration(c)
        PROVE  run' = [d \in Cleaners |-> run'[d]]
    <3>1. \E r : Put(c, r)
      BY <2>1 DEF StartRun, AbandonRun, LookAtReport, DeleteReport, LookAtOrphan, DeleteOrphan,
         PassAudits, LookAtGeneration, PurgePage, RecheckReport, RecheckAudits, RecheckGeneration
    <3>2. QED BY <3>1 DEF GInv, Put
  <2>2. CASE run' = run
    BY <2>2 DEF GInv
  <2>3. QED BY <2>1, <2>2, PurgeWriters
<1>4. QED
  BY <1>1, <1>2, <1>3, ReportsStep, SessionsStep, RunStep DEF GInv

LEMMA PurgeStart == PurgeInit => GInv
<1> SUFFICES ASSUME PurgeInit PROVE GInv
  OBVIOUS
<1>1. ReportsOK
  <2>1. ASSUME NEW r \in Filed
        PROVE  [there |-> TRUE, until |-> FiledUntil[r], audit |-> {}, changes |-> 0] \in Report
    BY PurgeAssumption DEF Report
  <2>2. filed \in [Filed -> Report]
    BY <2>1 DEF PurgeInit
  <2>3. QED BY <2>2, PurgeAssumption DEF PurgeInit, ReportsOK
<1>2. SessionsOK
  BY PurgeAssumption DEF PurgeInit, SessionsOK, Adopter, Space, Pin
<1>3. ASSUME NEW c \in Cleaners PROVE RunOK(run[c])
  BY PurgeAssumption DEF PurgeInit, RunOK, RunTypeOK, PassedBy, NotRunning, Scans, Posts
<1>4. QED
  BY <1>1, <1>2, <1>3, PurgeAssumption DEF PurgeInit, GInv

\* The purge takes neither too much nor too little: whatever operators, sessions,
\* TTL and crashes do between its steps, the active generation is whole, and a
\* run that reports completion has left nothing that was due when it started.
THEOREM PurgeExact == PurgeSpec => []PurgeIsExact
<1>1. ASSUME GInv PROVE PurgeIsExact
  <2> USE <1>1
  <2>1. PurgeTypeOK
    BY DEF GInv, ReportsOK, SessionsOK, RunOK, RunTypeOK, PurgeTypeOK, Report, Adopter, Space, Pin
  <2>2. ActiveIsWhole
    <3>1. ASSUME pin.active # 0 PROVE space[pin.active] = [state |-> "active", rows |-> Rows]
      <4>1. pin.active \in Adopters /\ space[pin.active].state = "active"
        BY <3>1 DEF GInv, SessionsOK, Pin
      <4>2. space[pin.active] \in Space /\ space[pin.active].rows = Rows
        BY <4>1 DEF GInv, SessionsOK
      <4>3. QED BY <4>1, <4>2 DEF Space
    <3>2. QED BY <3>1 DEF ActiveIsWhole
  <2>3. CompleteMeansClean
    <3>1. ASSUME NEW c \in Cleaners, run[c].complete PROVE PassedBy(run[c]) /\ run[c].pc = "done" /\ ~run[c].due
      BY <3>1 DEF GInv, RunOK
    <3>2. QED BY <3>1 DEF CompleteMeansClean, PassedBy, Posts, Due
  <2>4. QED BY <2>1, <2>2, <2>3 DEF PurgeIsExact
<1>2. QED BY <1>1, PurgeStart, PurgeStep, PTL DEF PurgeSpec

-----------------------------------------------------------------------------
(* ProgressSync: the inductive invariant *)

HeldRows    == [Ids -> Row \cup {Nil}]
Account  == [revision: 0 .. MaxSyncRev, generation: Generations, counter: Generations,
             promoting: BOOLEAN, leased: BOOLEAN, source: Nat \X Nat]
Mirror   == [scope: Generations \cup {Nil}, revision: Nat, rows: HeldRows]
PageRead == [pc: {"idle", "read", "queried", "more", "unchanged"}, gen: Generations, rev: Nat,
             from: 0 .. LastRecord, next: 0 .. LastRecord, same: BOOLEAN, known: BOOLEAN, got: HeldRows]

StoreOK ==
  /\ account \in Account /\ (account.leased => account.promoting)
  /\ record \in [Generations -> [Ids -> Stored \cup {Nil}]]

\* A mutation that took effect has its receipt, or had it.
RequestsOK ==
  /\ receipt \subseteq Mutations /\ lapsed \subseteq Mutations
  /\ batch \in [Batches -> (0 .. MaxSyncRev) \cup {Nil}]
  /\ waits \in [Devices -> Batches \cup {Nil}]
  /\ sent = [b \in Batches |-> sent[b]]
  /\ \A b \in Batches : sent[b] = Nil \/
       /\ sent[b].by \in Devices /\ Asked(b) \subseteq Mutations
       /\ \A m, n \in Asked(b) : m # n => Target[m] # Target[n]
  /\ applied \in [Mutations -> Nat]
  /\ \A m \in Mutations : /\ applied[m] > 0 => m \in receipt \cup lapsed
                          /\ applied[m] > 1 => m \in lapsed

\* The revision tells what a device that holds a snapshot of it holds.
MirrorOK(d) ==
  /\ mirror[d] \in Mirror
  /\ waits[d] # Nil => mirror[d].scope # Nil
  /\ mirror[d].scope # Nil =>
       /\ mirror[d].revision <= account.revision
       /\ mirror[d].revision = account.revision => mirror[d].rows = View(Records)

\* How far the pages of a read have come.
Behind(x, i) == IF x.pc = "read" THEN i < x.from ELSE x.next = 0 \/ i < x.next

\* The pages so far are those of the revision the read began at; nothing is
\* known of what is ahead.
ReaderOK(d) ==
  LET x == reader[d]
  IN  /\ x \in PageRead
      /\ x.pc \in {"read", "queried"} /\ x.same =>
           /\ x.gen = account.generation /\ x.rev = account.revision
           /\ x.known => mirror[d].scope = x.gen /\ mirror[d].revision = x.rev
      /\ x.pc \in {"read", "more"} => ~x.known
      /\ x.pc = "more" => x.next # 0 /\ x.rev <= account.revision
      /\ x.pc \in {"read", "queried", "more"} /\ ~x.known =>
           \A i \in Ids :
             /\ ~Behind(x, i) => x.got[i] = Nil
             /\ Behind(x, i) /\ (IF x.pc = "more" THEN x.rev = account.revision ELSE x.same) =>
                  x.got[i] = View(Records)[i]

YInv ==
  /\ StoreOK /\ RequestsOK
  /\ mirror = [d \in Devices |-> mirror[d]] /\ \A d \in Devices : MirrorOK(d)
  /\ reader = [d \in Devices |-> reader[d]] /\ \A d \in Devices : ReaderOK(d)

-----------------------------------------------------------------------------
(* ProgressSync: the account and its records *)

\* The mutations of a batch that are fresh are finitely many: each has a record of its own.
LEMMA FreshIsFinite ==
  ASSUME YInv, NEW b \in Batches, Arrives(b)
  PROVE  /\ Fresh(b) \subseteq Mutations /\ IsFiniteSet(Fresh(b)) /\ Cardinality(Fresh(b)) \in Nat
         /\ Cardinality(Fresh(b)) = 0 <=> Fresh(b) = {}
         /\ sent[b].by \in Devices
<1> DEFINE new == Fresh(b)
<1>1. /\ Asked(b) \subseteq Mutations /\ sent[b].by \in Devices
      /\ \A m, n \in Asked(b) : m # n => Target[m] # Target[n]
  BY DEF YInv, RequestsOK, Arrives
<1>2. new \subseteq Asked(b)
  BY DEF Fresh
<1>3. LastRecord \in Nat /\ Target \in [Mutations -> Ids]
  BY SyncAssumption
<1>4. IsFiniteSet(Ids)
  BY <1>3, FS_Interval DEF Ids
<1> DEFINE f == [m \in new |-> Target[m]]
<1>5. f \in [new -> Ids] /\ \A m, n \in new : f[m] = f[n] => m = n
  BY <1>1, <1>2, <1>3
<1>6. f \in Injection(new, Ids)
  BY <1>5 DEF Injection, IsInjective
<1>7. IsFiniteSet(new)
  BY <1>4, <1>6, FS_Injection
<1>8. Cardinality(new) \in Nat /\ (Cardinality(new) = 0 <=> new = {})
  BY <1>7, FS_CardinalityType, FS_EmptySet
<1>9. QED BY <1>1, <1>2, <1>7, <1>8

\* Either the metadata is written, and every read knows, or what devices see stands still.
Moves   == reader' = [d \in Devices |-> [reader[d] EXCEPT !.same = FALSE]]
Stands  == account'.generation = account.generation /\ account'.revision = account.revision
Forward ==
  /\ account.revision <= account'.revision
  /\ account'.revision = account.revision => View(Records)' = View(Records)
  /\ Moves \/ Stands

\* What is written to the account keeps its shape.
LEMMA AccountFields ==
  ASSUME StoreOK
  PROVE  /\ \A n \in 0 .. MaxSyncRev : [account EXCEPT !.revision = n] \in Account
         /\ [account EXCEPT !.leased = FALSE] \in Account
         /\ [account EXCEPT !.leased = TRUE] \in Account
         /\ \A n \in Generations, s \in Nat \X Nat :
              [account EXCEPT !.promoting = TRUE, !.leased = TRUE, !.counter = n, !.source = s] \in Account
         /\ \A n \in 0 .. MaxSyncRev, g \in Generations, s \in Nat \X Nat :
              [account EXCEPT !.generation = g, !.promoting = FALSE, !.leased = FALSE, !.source = s,
                              !.revision = n] \in Account
<1> USE SyncAssumption DEF StoreOK
<1>1. /\ \A n \in 0 .. MaxSyncRev : [account EXCEPT !.revision = n] \in Account
      /\ [account EXCEPT !.leased = FALSE] \in Account
      /\ [account EXCEPT !.leased = TRUE] \in Account
  BY DEF Account
<1>2. \A n \in Generations, s \in Nat \X Nat :
        [account EXCEPT !.promoting = TRUE, !.leased = TRUE, !.counter = n, !.source = s] \in Account
  BY DEF Account
<1>3. \A n \in 0 .. MaxSyncRev, g \in Generations, s \in Nat \X Nat :
        [account EXCEPT !.generation = g, !.promoting = FALSE, !.leased = FALSE, !.source = s,
                        !.revision = n] \in Account
  BY DEF Account
<1>4. QED BY <1>1, <1>2, <1>3

LEMMA AccountTypes ==
  ASSUME StoreOK
  PROVE  /\ account.revision \in 0 .. MaxSyncRev /\ account.revision \in Nat /\ MaxSyncRev \in Nat
         /\ account.generation \in Generations /\ account.counter \in Generations
         /\ Records \in [Ids -> Stored \cup {Nil}]
         /\ \A i \in Ids : Version(Records, i) \in Nat /\ Version(Records, i) + 1 \in Nat
<1>1. /\ account.revision \in 0 .. MaxSyncRev /\ MaxSyncRev \in Nat
      /\ account.generation \in Generations /\ account.counter \in Generations
  BY SyncAssumption DEF StoreOK, Account
<1>2. Records \in [Ids -> Stored \cup {Nil}]
  BY <1>1 DEF Records, StoreOK
<1>3. \A i \in Ids : Version(Records, i) \in Nat
  BY <1>2 DEF Version, Stored
<1>4. QED BY <1>1, <1>2, <1>3

\* A batch writes the records of its fresh mutations, each one version further.
LEMMA ApplyStore ==
  ASSUME YInv, NEW b \in Batches, ApplyBatch(b)
  PROVE  /\ StoreOK' /\ Forward
         /\ account'.generation = account.generation
         /\ Fresh(b) # {} => Moves
         /\ \A i \in Ids : (\A m \in Fresh(b) : Target[m] # i) => View(Records)'[i] = View(Records)[i]
         /\ account'.revision = account.revision + Cardinality(Fresh(b))
         /\ mirror' = mirror \/
              LET d == sent[b].by
              IN  /\ waits[d] = b /\ Fresh(b) # {} /\ sent[b].revision = account.revision
                  /\ mirror[d].revision = sent[b].revision
                  /\ mirror' = [mirror EXCEPT ![d] =
                       [scope |-> account.generation, revision |-> account'.revision,
                        rows  |-> [i \in Ids |-> IF \E m \in Fresh(b) : Target[m] = i
                                     THEN View(Records)'[i] ELSE mirror[d].rows[i]]]]
<1> DEFINE new == Fresh(b)
           g   == account.generation
           by(i) == CHOOSE m \in new : Target[m] = i
           stored == [i \in Ids |-> IF \E m \in new : Target[m] = i
                      THEN [ver |-> Version(Records, i) + 1, val |-> by(i), last |-> by(i)]
                      ELSE Records[i]]
<1>1. /\ new \subseteq Mutations /\ Cardinality(new) \in Nat /\ (Cardinality(new) = 0 <=> new = {})
  BY FreshIsFinite DEF ApplyBatch
<1>2. StoreOK
  BY DEF YInv
<1>3. /\ account.revision + Cardinality(new) <= MaxSyncRev
      /\ record' = [record EXCEPT ![g] = stored]
      /\ IF new = {} THEN UNCHANGED <<account, reader>>
         ELSE Metadata([account EXCEPT !.revision = account.revision + Cardinality(new)])
  BY DEF ApplyBatch
<1>4. account.revision + Cardinality(new) \in 0 .. MaxSyncRev
  BY <1>1, <1>2, <1>3, AccountTypes
<1>5. account' \in Account /\ account'.leased = account.leased /\ account'.promoting = account.promoting
      /\ account'.generation = g /\ account'.revision = account.revision + Cardinality(new)
  <2>1. CASE new = {}
    BY <1>1, <1>2, <1>3, <2>1, AccountTypes DEF StoreOK
  <2>2. CASE new # {}
    <3>1. account' = [account EXCEPT !.revision = account.revision + Cardinality(new)]
      BY <1>3, <2>2 DEF Metadata
    <3>2. account' \in Account
      BY <1>2, <1>4, <3>1, AccountFields
    <3>3. QED BY <1>2, <3>1, <3>2 DEF StoreOK, Account
  <2>3. QED BY <2>1, <2>2
<1>6. stored \in [Ids -> Stored \cup {Nil}]
  <2>1. ASSUME NEW i \in Ids, \E m \in new : Target[m] = i
        PROVE  [ver |-> Version(Records, i) + 1, val |-> by(i), last |-> by(i)] \in Stored
    <3>1. by(i) \in Mutations
      BY <1>1, <2>1
    <3>2. Version(Records, i) + 1 \in Nat
      BY <1>2, AccountTypes
    <3>3. QED BY <3>1, <3>2 DEF Stored, Writers
  <2>2. QED BY <1>2, <2>1, AccountTypes
<1>7. g \in Generations
  BY <1>2, AccountTypes
<1>8. record' \in [Generations -> [Ids -> Stored \cup {Nil}]] /\ Records' = stored
  BY <1>2, <1>3, <1>5, <1>6, <1>7 DEF StoreOK, Records
<1>9. \A i \in Ids : (\A m \in new : Target[m] # i) => View(Records)'[i] = View(Records)[i]
  BY <1>8 DEF View
<1>10. new = {} => View(Records)' = View(Records)
  BY <1>8 DEF View
<1>11. new # {} => Moves
  BY <1>3 DEF Metadata, Moves
<1>12. StoreOK'
  BY <1>2, <1>5, <1>8 DEF StoreOK
<1>13. account.revision \in Nat
  BY <1>2, AccountTypes
<1>14. Forward
  BY <1>1, <1>5, <1>10, <1>11, <1>13 DEF Forward, Stands
<1>15. View(stored) = View(Records)'
  BY <1>8 DEF View
<1>16. mirror' = mirror \/
         LET d == sent[b].by
         IN  /\ waits[d] = b /\ new # {} /\ sent[b].revision = account.revision
             /\ mirror[d].revision = sent[b].revision
             /\ mirror' = [mirror EXCEPT ![d] =
                  [scope |-> account.generation, revision |-> account'.revision,
                   rows  |-> [i \in Ids |-> IF \E m \in new : Target[m] = i
                                THEN View(Records)'[i] ELSE mirror[d].rows[i]]]]
  <2>1. account.revision + Cardinality(new) = account'.revision
    BY <1>5
  <2>2. QED BY <1>15, <2>1 DEF ApplyBatch
<1>17. QED BY <1>5, <1>9, <1>11, <1>12, <1>14, <1>16

\* An adoption moves the revision when it writes; a promotion that writes
\* nothing swaps the generation for one that looks the same.
LEMMA AdoptStore ==
  ASSUME YInv, NEW ks \in SUBSET Ids, AdoptInOneStep(ks) \/ CompletePromotion(ks)
  PROVE  StoreOK' /\ Forward
<1> DEFINE new == account.revision + Cardinality(ks)
           g   == account'.generation
<1>1. StoreOK
  BY DEF YInv
<1>2. Cardinality(ks) \in Nat /\ (Cardinality(ks) = 0 <=> ks = {})
  <2>1. IsFiniteSet(Ids)
    BY SyncAssumption, FS_Interval DEF Ids
  <2>2. IsFiniteSet(ks)
    BY <2>1, FS_Subset
  <2>3. QED BY <2>2, FS_CardinalityType, FS_EmptySet
<1>3. new <= MaxSyncRev
  BY DEF AdoptInOneStep, CompletePromotion
<1>4. new \in 0 .. MaxSyncRev /\ account.revision <= new /\ (new = account.revision => ks = {})
  BY <1>1, <1>2, <1>3, AccountTypes
<1>5. Moves
  BY DEF AdoptInOneStep, CompletePromotion, Metadata, Moves
<1>6. \A i \in Ids : [ver |-> Version(Records, i) + 1, val |-> "guest", last |-> "guest"] \in Stored
  BY <1>1, AccountTypes DEF Stored, Writers
<1>7. CASE AdoptInOneStep(ks)
  <2>1. account' = [account EXCEPT !.revision = new] /\ ks # {}
    BY <1>7 DEF AdoptInOneStep, Metadata
  <2>2. account' \in Account /\ account'.revision = new
        /\ account'.leased = account.leased /\ account'.promoting = account.promoting
    <3>1. account' \in Account
      BY <1>1, <1>4, <2>1, AccountFields
    <3>2. QED BY <1>1, <2>1, <3>1 DEF StoreOK, Account
  <2> DEFINE stored == [i \in Ids |-> IF i \in ks
                        THEN [ver |-> Version(Records, i) + 1, val |-> "guest", last |-> "guest"]
                        ELSE Records[i]]
  <2>3. record' = [record EXCEPT ![account.generation] = stored]
    BY <1>7 DEF AdoptInOneStep, Records
  <2>4. stored \in [Ids -> Stored \cup {Nil}]
    BY <1>1, <1>6, AccountTypes
  <2>5. record' \in [Generations -> [Ids -> Stored \cup {Nil}]]
    BY <1>1, <2>3, <2>4 DEF StoreOK
  <2>6. account'.revision # account.revision
    BY <1>4, <2>1, <2>2
  <2>7. StoreOK' /\ account.revision <= account'.revision
    BY <1>1, <1>4, <2>2, <2>5 DEF StoreOK
  <2>8. QED BY <1>5, <2>6, <2>7 DEF Forward
<1>8. CASE CompletePromotion(ks)
  <2>1. account' = [account EXCEPT !.generation = account.counter, !.promoting = FALSE,
                                   !.leased = FALSE, !.source = <<0, 0>>, !.revision = new]
    BY <1>8 DEF CompletePromotion, Metadata
  <2>2. account' \in Account /\ account'.revision = new /\ ~account'.leased
        /\ g = account.counter
    <3>1. <<0, 0>> \in Nat \X Nat /\ account.counter \in Generations
      BY <1>1, AccountTypes
    <3>2. account' \in Account
      BY <1>1, <1>4, <2>1, <3>1, AccountFields
    <3>3. QED BY <1>1, <2>1, <3>2 DEF StoreOK, Account
  <2> DEFINE stored == [i \in Ids |->
                  CASE i \in ks -> [ver |-> Version(Records, i) + 1, val |-> "guest", last |-> "guest"]
                    [] i \notin ks /\ Records[i] # Nil -> [Records[i] EXCEPT !.last = "guest"]
                    [] OTHER -> Nil]
  <2>3. record' = [record EXCEPT ![account.counter] = stored]
    BY <1>8 DEF CompletePromotion
  <2>4. ASSUME NEW i \in Ids, i \notin ks
        PROVE  /\ stored[i] \in Stored \cup {Nil} /\ (stored[i] = Nil <=> Records[i] = Nil)
               /\ Records[i] # Nil => stored[i].ver = Records[i].ver /\ stored[i].val = Records[i].val
    <3>1. CASE Records[i] = Nil
      BY <2>4, <3>1
    <3>2. CASE Records[i] # Nil
      <4>1. Records[i] \in Stored
        BY <1>1, <3>2, AccountTypes
      <4>2. stored[i] = [Records[i] EXCEPT !.last = "guest"]
        BY <2>4, <3>2
      <4> HIDE DEF stored
      <4>3. stored[i] \in Stored /\ stored[i].ver = Records[i].ver /\ stored[i].val = Records[i].val
        BY <4>1, <4>2 DEF Stored, Writers
      <4>4. stored[i] # Nil
        BY <4>3, SyncAssumption
      <4>5. QED BY <3>2, <4>3, <4>4
    <3>3. QED BY <3>1, <3>2
  <2>5. \A i \in ks : stored[i] \in Stored
    BY <1>6
  <2>6. stored \in [Ids -> Stored \cup {Nil}]
    BY <2>4, <2>5
  <2>7. account.counter \in Generations
    BY <1>1, AccountTypes
  <2>8. record' \in [Generations -> [Ids -> Stored \cup {Nil}]] /\ Records' = stored
    BY <1>1, <2>2, <2>3, <2>6, <2>7 DEF StoreOK, Records
  <2>9. ks = {} => View(Records)' = View(Records)
    <3> HIDE DEF stored
    <3>1. QED BY <2>4, <2>8 DEF View
  <2>10. StoreOK'
    BY <2>2, <2>8 DEF StoreOK
  <2>11. QED BY <1>4, <1>5, <2>2, <2>9, <2>10 DEF Forward
<1>9. QED BY <1>7, <1>8

\* The lease moves nothing a device sees.
LEMMA LeaseStore ==
  ASSUME YInv, BeginPromotion \/ PromotionLeaseEnds \/ RenewPromotionLease
  PROVE  StoreOK' /\ Forward
<1>1. StoreOK /\ record' = record
  BY DEF YInv, BeginPromotion, PromotionLeaseEnds, RenewPromotionLease
<1>2. account' \in Account /\ account'.generation = account.generation
      /\ account'.revision = account.revision /\ (account'.leased => account'.promoting)
  <2>1. CASE BeginPromotion
    <3>1. account.counter + 1 \in Generations
      BY <1>1, <2>1, AccountTypes, SyncAssumption DEF BeginPromotion, Generations
    <3>2. <<account.generation, account.revision>> \in Nat \X Nat
      BY <1>1, AccountTypes DEF Generations
    <3>3. account' = [account EXCEPT !.promoting = TRUE, !.leased = TRUE, !.counter = account.counter + 1,
                        !.source = <<account.generation, account.revision>>]
      BY <2>1 DEF BeginPromotion, Metadata
    <3>4. account' \in Account
      BY <1>1, <3>1, <3>2, <3>3, AccountFields
    <3>5. QED BY <1>1, <3>3, <3>4 DEF StoreOK, Account
  <2>2. CASE PromotionLeaseEnds
    <3>1. account' = [account EXCEPT !.leased = FALSE]
      BY <2>2 DEF PromotionLeaseEnds
    <3>2. account' \in Account
      BY <1>1, <3>1, AccountFields
    <3>3. QED BY <1>1, <3>1, <3>2 DEF StoreOK, Account
  <2>3. CASE RenewPromotionLease
    <3>1. account' = [account EXCEPT !.leased = TRUE] /\ account.promoting
      BY <2>3 DEF RenewPromotionLease, Metadata
    <3>2. account' \in Account
      BY <1>1, <3>1, AccountFields
    <3>3. QED BY <1>1, <3>1, <3>2 DEF StoreOK, Account
  <2>4. QED BY <2>1, <2>2, <2>3
<1>3. StoreOK'
  BY <1>1, <1>2 DEF StoreOK
<1>4. View(Records)' = View(Records)
  BY <1>1, <1>2 DEF View, Records
<1>5. account.revision \in Nat
  BY <1>1, AccountTypes
<1>6. QED BY <1>2, <1>3, <1>4, <1>5 DEF Forward, Stands

\* The steps that leave the account and its records alone.
Quiet ==
  /\ UNCHANGED <<account, record, applied>>
  /\ \/ /\ UNCHANGED <<reader, mirror>>
        /\ \/ \E d \in Devices, b \in Batches, ms \in SUBSET Mutations \ {{}} : SendBatch(d, b, ms)
           \/ \E b \in Batches : ReplayBatch(b) \/ RefuseBatch(b) \/ CollectBatch(b)
           \/ \E m \in Mutations : CollectReceipt(m)
           \/ \E d \in Devices : GiveUp(d)
           \/ UNCHANGED syncVars
     \/ /\ UNCHANGED <<receipt, batch, sent, waits, lapsed>>
        /\ \E d \in Devices : \/ OpenRead(d, TRUE) \/ OpenRead(d, FALSE)
                              \/ NextPage(d) \/ QueryPage(d) \/ ClosePage(d) \/ LeaveRead(d)

LEMMA SyncSteps ==
  ASSUME [SyncNext]_syncVars
  PROVE  \/ Quiet
         \/ \E b \in Batches : ApplyBatch(b)
         \/ \E ks \in SUBSET Ids : AdoptInOneStep(ks) \/ CompletePromotion(ks)
         \/ BeginPromotion \/ PromotionLeaseEnds \/ RenewPromotionLease
<1>1. CASE UNCHANGED syncVars
  BY <1>1 DEF syncVars, Quiet
<1>2. ASSUME NEW d \in Devices, NEW b \in Batches, NEW ms \in SUBSET Mutations \ {{}}, SendBatch(d, b, ms)
      PROVE  Quiet
  BY <1>2 DEF SendBatch, Quiet
<1>3. ASSUME NEW b \in Batches, ReplayBatch(b) \/ RefuseBatch(b) \/ CollectBatch(b) PROVE Quiet
  BY <1>3 DEF ReplayBatch, RefuseBatch, CollectBatch, Quiet
<1>4. ASSUME NEW m \in Mutations, CollectReceipt(m) PROVE Quiet
  BY <1>4 DEF CollectReceipt, Quiet
<1>5. ASSUME NEW d \in Devices, GiveUp(d) PROVE Quiet
  BY <1>5 DEF GiveUp, Quiet
<1>6. ASSUME NEW d \in Devices, \/ OpenRead(d, TRUE) \/ OpenRead(d, FALSE)
                                \/ NextPage(d) \/ QueryPage(d) \/ ClosePage(d) \/ LeaveRead(d)
      PROVE  Quiet
  <2>1. ReadOnly
    BY <1>6 DEF OpenRead, NextPage, QueryPage, ClosePage, LeaveRead
  <2>2. QED BY <1>6, <2>1 DEF ReadOnly, Quiet
<1>7. QED BY <1>1, <1>2, <1>3, <1>4, <1>5, <1>6 DEF SyncNext

LEMMA StoreStep == ASSUME YInv, [SyncNext]_syncVars PROVE StoreOK' /\ Forward
<1>1. CASE Quiet
  <2>1. UNCHANGED <<account, record>> /\ StoreOK
    BY <1>1 DEF Quiet, YInv
  <2>2. View(Records)' = View(Records)
    BY <2>1 DEF View, Records
  <2>3. account.revision \in Nat
    BY <2>1, AccountTypes
  <2>4. QED BY <2>1, <2>2, <2>3 DEF StoreOK, Forward, Stands
<1>2. QED BY <1>1, SyncSteps, ApplyStore, AdoptStore, LeaseStore

-----------------------------------------------------------------------------
(* ProgressSync: requests and receipts *)

LEMMA RequestsStep == ASSUME YInv, [SyncNext]_syncVars PROVE RequestsOK'
<1> USE SyncAssumption DEF YInv, RequestsOK
<1>1. CASE UNCHANGED <<receipt, batch, sent, waits, applied, lapsed>>
  BY <1>1 DEF Asked
<1>2. ASSUME NEW d \in Devices, NEW b \in Batches, NEW ms \in SUBSET Mutations, SendBatch(d, b, ms)
      PROVE  RequestsOK'
  <2> DEFINE request == [by |-> d, revision |-> mirror[d].revision,
                         versions |-> [m \in ms |-> Version(mirror[d].rows, Target[m])]]
  <2>1. /\ sent' = [sent EXCEPT ![b] = request] /\ waits' = [waits EXCEPT ![d] = b]
        /\ \A m, n \in ms : m # n => Target[m] # Target[n]
        /\ UNCHANGED <<receipt, batch, applied, lapsed>>
    BY <1>2 DEF SendBatch
  <2>2. request.by = d /\ DOMAIN request.versions = ms
    OBVIOUS
  <2> HIDE DEF request
  <2>3. sent'[b] = request /\ \A c \in Batches : c # b => sent'[c] = sent[c]
    BY <2>1
  <2>4. ASSUME NEW c \in Batches
        PROVE  sent'[c] = Nil \/ /\ sent'[c].by \in Devices /\ Asked(c)' \subseteq Mutations
                                 /\ \A m, n \in Asked(c)' : m # n => Target[m] # Target[n]
    <3>1. CASE c = b
      BY <2>1, <2>2, <2>3, <3>1 DEF Asked
    <3>2. CASE c # b
      BY <2>3, <3>2 DEF Asked
    <3>3. QED BY <3>1, <3>2
  <2>5. sent' = [c \in Batches |-> sent'[c]] /\ waits' \in [Devices -> Batches \cup {Nil}]
    BY <2>1
  <2>6. QED BY <2>1, <2>4, <2>5
<1>3. ASSUME NEW b \in Batches, Answered(b) PROVE waits' \in [Devices -> Batches \cup {Nil}]
  BY <1>3 DEF Answered
<1>4. ASSUME NEW b \in Batches, ReplayBatch(b) \/ RefuseBatch(b) PROVE RequestsOK'
  BY <1>3, <1>4 DEF ReplayBatch, RefuseBatch, Asked
<1>5. ASSUME NEW b \in Batches, CollectBatch(b) PROVE RequestsOK'
  BY <1>5 DEF CollectBatch, Asked
<1>6. ASSUME NEW m \in Mutations, CollectReceipt(m) PROVE RequestsOK'
  BY <1>6 DEF CollectReceipt, Asked
<1>7. ASSUME NEW d \in Devices, GiveUp(d) PROVE RequestsOK'
  BY <1>7 DEF GiveUp, Asked
<1>8. ASSUME NEW b \in Batches, ApplyBatch(b) PROVE RequestsOK'
  <2> DEFINE new == Fresh(b)  revision == account.revision + Cardinality(new)
  <2>1. /\ new \subseteq Mutations /\ Cardinality(new) \in Nat
    BY <1>8, FreshIsFinite DEF ApplyBatch
  <2>2. /\ receipt' = receipt \cup new /\ batch' = [batch EXCEPT ![b] = revision] /\ revision <= MaxSyncRev
        /\ applied' = [m \in Mutations |-> IF m \in new THEN applied[m] + 1 ELSE applied[m]]
        /\ UNCHANGED <<sent, lapsed>> /\ Answered(b)
    BY <1>8 DEF ApplyBatch
  <2>3. revision \in 0 .. MaxSyncRev
    BY <2>1, <2>2, AccountTypes
  <2>4. \A m \in new : m \notin receipt
    BY DEF Fresh, Seen
  <2> HIDE DEF revision, new
  <2>5. ASSUME NEW m \in Mutations
        PROVE  /\ applied'[m] \in Nat
               /\ applied'[m] > 0 => m \in receipt' \cup lapsed'
               /\ applied'[m] > 1 => m \in lapsed'
    <3>1. applied[m] \in Nat
      OBVIOUS
    <3>2. CASE m \in new
      BY <2>2, <2>4, <3>1, <3>2
    <3>3. CASE m \notin new
      BY <2>2, <3>1, <3>3
    <3>4. QED BY <3>2, <3>3
  <2>6. applied' \in [Mutations -> Nat]
    BY <2>2, <2>5
  <2>7. batch' \in [Batches -> (0 .. MaxSyncRev) \cup {Nil}] /\ receipt' \subseteq Mutations
    BY <2>1, <2>2, <2>3
  <2>8. QED BY <1>3, <2>2, <2>5, <2>6, <2>7 DEF Asked
<1>9. ASSUME NEW ks, AdoptInOneStep(ks) \/ CompletePromotion(ks)
      PROVE  UNCHANGED <<receipt, batch, sent, waits, applied, lapsed>>
  BY <1>9 DEF AdoptInOneStep, CompletePromotion
<1>10. ASSUME BeginPromotion \/ PromotionLeaseEnds \/ RenewPromotionLease
       PROVE  UNCHANGED <<receipt, batch, sent, waits, applied, lapsed>>
  BY <1>10 DEF BeginPromotion, PromotionLeaseEnds, RenewPromotionLease
<1>11. CASE Quiet
  BY <1>1, <1>2, <1>4, <1>5, <1>6, <1>7, <1>11 DEF Quiet, syncVars
<1>12. QED BY <1>1, <1>8, <1>9, <1>10, <1>11, SyncSteps

-----------------------------------------------------------------------------
(* ProgressSync: snapshots *)

Given == [scope |-> account.generation, revision |-> account.revision, rows |-> View(Records)]

\* A write to the metadata shows in every read, and in nothing else of it.
LEMMA MovesFields ==
  ASSUME YInv, Moves, NEW d \in Devices
  PROVE  /\ reader'[d] \in PageRead /\ reader'[d].pc = reader[d].pc /\ ~reader'[d].same
         /\ reader'[d].rev = reader[d].rev /\ reader'[d].gen = reader[d].gen
         /\ reader'[d].known = reader[d].known /\ reader'[d].got = reader[d].got
         /\ reader'[d].from = reader[d].from /\ reader'[d].next = reader[d].next
<1>1. reader[d] \in PageRead /\ reader'[d] = [reader[d] EXCEPT !.same = FALSE]
  BY DEF YInv, ReaderOK, Moves
<1>2. QED BY <1>1 DEF PageRead

\* What a device is given is the account as it is at that moment.
LEMMA GivenIsTrue ==
  ASSUME YInv, [SyncNext]_syncVars, NEW d \in Devices,
         mirror'[d] # mirror[d] \/ (reader[d].pc # "unchanged" /\ reader'[d].pc = "unchanged")
  PROVE  mirror'[d] = Given'
<1>1. StoreOK /\ MirrorOK(d) /\ ReaderOK(d) /\ RequestsOK
  BY DEF YInv
<1>2. Moves => reader'[d].pc = reader[d].pc
  BY MovesFields
<1>3. ASSUME NEW b \in Batches, ApplyBatch(b) PROVE mirror'[d] = Given'
  <2>1. reader'[d].pc = reader[d].pc
    BY <1>2, <1>3 DEF ApplyBatch, Metadata, Moves
  <2>2. /\ waits[d] = b /\ mirror[d].revision = account.revision
        /\ mirror'[d] = [scope |-> account.generation, revision |-> account'.revision,
                         rows  |-> [i \in Ids |-> IF \E m \in Fresh(b) : Target[m] = i
                                      THEN View(Records)'[i] ELSE mirror[d].rows[i]]]
    <3> DEFINE e == sent[b].by
               given == [scope |-> account.generation, revision |-> account'.revision,
                         rows  |-> [i \in Ids |-> IF \E m \in Fresh(b) : Target[m] = i
                                      THEN View(Records)'[i] ELSE mirror[e].rows[i]]]
    <3>1. mirror'[d] # mirror[d]
      BY <2>1
    <3>2. /\ waits[e] = b /\ mirror[e].revision = account.revision
          /\ mirror' = [mirror EXCEPT ![e] = given]
      BY <1>3, <3>1, ApplyStore
    <3> HIDE DEF given
    <3>3. d = e /\ mirror'[d] = given
      BY <3>1, <3>2 DEF YInv
    <3>4. QED BY <3>2, <3>3 DEF given
  <2>3. mirror[d].rows = View(Records)
    BY <1>1, <2>2, SyncAssumption DEF MirrorOK
  <2>4. \A i \in Ids : (\A m \in Fresh(b) : Target[m] # i) => View(Records)'[i] = View(Records)[i]
    BY <1>3, ApplyStore
  <2>5. [i \in Ids |-> IF \E m \in Fresh(b) : Target[m] = i
                          THEN View(Records)'[i] ELSE mirror[d].rows[i]] = View(Records)'
    BY <2>3, <2>4 DEF View
  <2>6. account'.generation = account.generation
    BY <1>3, ApplyStore
  <2>7. QED BY <2>2, <2>5, <2>6 DEF Given
<1>4. ASSUME NEW ks, AdoptInOneStep(ks) \/ CompletePromotion(ks) PROVE FALSE
  BY <1>2, <1>4 DEF AdoptInOneStep, CompletePromotion, Metadata, Moves
<1>5. ASSUME BeginPromotion \/ RenewPromotionLease PROVE FALSE
  BY <1>2, <1>5 DEF BeginPromotion, RenewPromotionLease, Metadata, Moves
<1>6. ASSUME PromotionLeaseEnds PROVE FALSE
  BY <1>6 DEF PromotionLeaseEnds
<1>7. CASE Quiet
  <2>1. PICK e \in Devices : \/ OpenRead(e, TRUE) \/ OpenRead(e, FALSE) \/ NextPage(e)
                             \/ QueryPage(e) \/ ClosePage(e) \/ LeaveRead(e)
    BY <1>7 DEF Quiet
  <2>2. e = d
    BY <2>1 DEF OpenRead, NextPage, QueryPage, ClosePage, LeaveRead, Read, YInv
  <2>3. CASE ClosePage(d)
    <3>1. StillCurrent(d) /\ reader[d].pc = "queried" /\ UNCHANGED <<account, record>>
      BY <1>7, <2>3, <1>1 DEF ClosePage, Quiet, Read, Waiting, YInv
    <3>2. CASE reader[d].known
      <4>1. mirror' = mirror
        BY <2>3, <3>1, <3>2 DEF ClosePage
      <4>2. /\ mirror[d].scope = account.generation /\ mirror[d].revision = account.revision
            /\ account.generation \in Generations
        BY <1>1, <3>1, <3>2, AccountTypes DEF ReaderOK, StillCurrent
      <4>3. mirror[d].rows = View(Records) /\ mirror[d] \in Mirror
        BY <1>1, <4>2, SyncAssumption DEF MirrorOK
      <4>4. mirror[d] = Given
        BY <4>2, <4>3 DEF Given, Mirror
      <4>5. Given' = Given
        BY <3>1 DEF Given, Records, View
      <4>6. QED BY <4>1, <4>4, <4>5
    <3>3. CASE ~reader[d].known
      <4>1. reader[d].next = 0
            /\ mirror'[d] = [scope |-> reader[d].gen, revision |-> reader[d].rev, rows |-> reader[d].got]
        BY <1>1, <2>3, <3>1, <3>3 DEF ClosePage, Read, YInv, ReaderOK, PageRead
      <4>2. \A i \in Ids : reader[d].got[i] = View(Records)[i]
        BY <1>1, <3>1, <3>3, <4>1 DEF ReaderOK, Behind, StillCurrent
      <4>3. reader[d].got = View(Records)
        BY <1>1, <4>2 DEF ReaderOK, PageRead, HeldRows, View
      <4>4. Given' = Given
        BY <3>1 DEF Given, Records, View
      <4>5. QED BY <3>1, <4>1, <4>3, <4>4 DEF StillCurrent, Given
    <3>4. QED BY <3>2, <3>3
  <2>4. ASSUME ~ClosePage(d) PROVE FALSE
    <3>1. mirror' = mirror
      BY <2>1, <2>2, <2>4 DEF OpenRead, NextPage, QueryPage, LeaveRead
    <3>2. ASSUME NEW asks, OpenRead(d, asks) PROVE reader'[d].pc \in {"queried", "read"}
      BY <3>2 DEF OpenRead, Read, YInv, Waiting
    <3>3. ASSUME NextPage(d) PROVE reader'[d].pc \in {"idle", "read"}
      BY <1>1, <3>3 DEF NextPage, Read, YInv, Waiting, ReaderOK, PageRead
    <3>4. ASSUME QueryPage(d) PROVE reader'[d].pc \in {"idle", "queried"}
      BY <1>1, <3>4 DEF QueryPage, Read, YInv, Waiting, ReaderOK, PageRead
    <3>5. ASSUME LeaveRead(d) PROVE reader'[d].pc = "idle"
      BY <3>5 DEF LeaveRead, Read, YInv, Waiting
    <3>6. QED BY <2>1, <2>2, <2>4, <3>1, <3>2, <3>3, <3>4, <3>5
  <2>5. QED BY <2>3, <2>4
<1>8. QED BY <1>3, <1>4, <1>5, <1>6, <1>7, SyncSteps

LEMMA MirrorStep ==
  ASSUME YInv, [SyncNext]_syncVars
  PROVE  mirror' = [d \in Devices |-> mirror'[d]] /\ \A d \in Devices : MirrorOK(d)'
<1>0. StoreOK /\ StoreOK' /\ Forward
  BY StoreStep DEF YInv
<1>1. mirror' = [d \in Devices |-> mirror'[d]]
  <2>1. mirror' = mirror \/ \E e, x : mirror' = [mirror EXCEPT ![e] = x]
    <3>1. ASSUME Quiet PROVE mirror' = mirror \/ \E e, x : mirror' = [mirror EXCEPT ![e] = x]
      BY <3>1 DEF Quiet, OpenRead, NextPage, QueryPage, ClosePage, LeaveRead
    <3>2. ASSUME NEW b \in Batches, ApplyBatch(b)
          PROVE  mirror' = mirror \/ \E e, x : mirror' = [mirror EXCEPT ![e] = x]
      <4>1. \/ mirror' = mirror
            \/ mirror' = [mirror EXCEPT ![sent[b].by] =
                 [scope |-> account.generation, revision |-> account'.revision,
                  rows  |-> [i \in Ids |-> IF \E m \in Fresh(b) : Target[m] = i
                               THEN View(Records)'[i] ELSE mirror[sent[b].by].rows[i]]]]
        BY <3>2, ApplyStore
      <4>2. QED BY <4>1
    <3>3. QED
      BY <3>1, <3>2, SyncSteps DEF AdoptInOneStep, CompletePromotion, BeginPromotion,
         PromotionLeaseEnds, RenewPromotionLease
  <2>2. QED BY <2>1 DEF YInv
<1>2. ASSUME NEW d \in Devices PROVE MirrorOK(d)'
  <2>0. MirrorOK(d)
    BY DEF YInv
  <2>1. CASE mirror'[d] # mirror[d]
    <3>1. mirror'[d] = [scope |-> account'.generation, revision |-> account'.revision,
                        rows |-> View(Records)']
      BY <2>1, GivenIsTrue DEF Given
    <3>2. View(Records)' \in HeldRows
      <4>1. account'.generation \in Generations
        BY <1>0 DEF StoreOK, Account
      <4>2. \A i \in Ids : Records'[i] \in Stored \cup {Nil}
        BY <1>0, <4>1 DEF StoreOK, Records
      <4>3. \A i \in Ids : Records'[i] # Nil => [ver |-> Records'[i].ver, val |-> Records'[i].val] \in Row
        BY <4>2 DEF Stored, Row
      <4>4. QED BY <4>3 DEF View, HeldRows
    <3>3. account'.generation \in Generations /\ account'.revision \in Nat
      BY <1>0, SyncAssumption DEF StoreOK, Account
    <3>4. account'.generation # Nil
      BY <3>3, SyncAssumption
    <3>5. mirror'[d] \in Mirror
      BY <3>1, <3>2, <3>3 DEF Mirror
    <3>6. QED BY <3>1, <3>3, <3>4, <3>5 DEF MirrorOK
  <2>2. CASE mirror'[d] = mirror[d]
    <3>1. account.revision \in Nat /\ account'.revision \in Nat /\ account.revision <= account'.revision
      BY <1>0, SyncAssumption DEF StoreOK, Account, Forward
    <3>2. mirror[d].revision \in Nat
      BY <2>0 DEF MirrorOK, Mirror
    <3>3. mirror[d].scope # Nil =>
            /\ mirror[d].revision <= account'.revision
            /\ mirror[d].revision = account'.revision => mirror[d].rows = View(Records)'
      BY <1>0, <2>0, <3>1, <3>2 DEF MirrorOK, Forward
    <3>4. waits'[d] # Nil => mirror[d].scope # Nil
      <4>1. ASSUME NEW e \in Devices, NEW b \in Batches, NEW ms, SendBatch(e, b, ms)
            PROVE  waits'[d] # Nil => mirror[d].scope # Nil
        BY <2>0, <4>1 DEF SendBatch, MirrorOK, YInv, RequestsOK
      <4>2. ASSUME NEW b, Answered(b) PROVE waits'[d] # Nil => waits[d] # Nil
        BY <4>2 DEF Answered, YInv, RequestsOK
      <4>3. ASSUME NEW e \in Devices, GiveUp(e) PROVE waits'[d] # Nil => waits[d] # Nil
        BY <4>3 DEF GiveUp, YInv, RequestsOK
      <4>4. ASSUME NEW b, CollectBatch(b) PROVE waits' = waits
        BY <4>4 DEF CollectBatch
      <4>5. ASSUME NEW m, CollectReceipt(m) PROVE waits' = waits
        BY <4>5 DEF CollectReceipt
      <4>6. ASSUME Quiet PROVE waits'[d] # Nil => mirror[d].scope # Nil
        BY <2>0, <4>1, <4>2, <4>3, <4>4, <4>5, <4>6
           DEF Quiet, MirrorOK, ReplayBatch, RefuseBatch, syncVars
      <4>7. ASSUME ~Quiet PROVE waits'[d] # Nil => waits[d] # Nil
        BY <4>2, <4>7, SyncSteps DEF ApplyBatch, AdoptInOneStep, CompletePromotion, BeginPromotion,
           PromotionLeaseEnds, RenewPromotionLease
      <4>8. QED BY <2>0, <4>6, <4>7 DEF MirrorOK
    <3>5. QED BY <2>0, <2>2, <3>3, <3>4 DEF MirrorOK
  <2>3. QED BY <2>1, <2>2
<1>3. QED BY <1>1, <1>2

-----------------------------------------------------------------------------
(* ProgressSync: reads *)

LEMMA LeastNatural ==
  ASSUME NEW S, S \subseteq Nat, S # {}
  PROVE  \E m \in S : \A k \in S : m <= k
<1>1. PICK m \in S : \A k \in S : <<k, m>> \notin OpToRel(<, Nat)
  BY WFMin, NatLessThanWellFounded, Zenon
<1>2. \A k \in S : ~(k < m)
  BY <1>1, Zenon DEF OpToRel
<1>3. QED BY <1>2

\* The page of a query: what it reads lies ahead of what was read, and behind
\* the first record that is left.
There(f, from)    == {i \in Ids : i >= from /\ f[i] # Nil}
PageOf(f, from)   == {i \in There(f, from) : Cardinality({j \in There(f, from) : j < i}) < SyncPage}
RestOf(f, from)   == There(f, from) \ PageOf(f, from)
NextOf(f, from)   == IF RestOf(f, from) = {} THEN 0
                     ELSE CHOOSE i \in RestOf(f, from) : \A j \in RestOf(f, from) : i <= j

LEMMA PageBounds ==
  ASSUME NEW f, NEW from \in Nat
  PROVE  LET there == There(f, from)  page == PageOf(f, from)  next == NextOf(f, from)
         IN  /\ next \in 0 .. LastRecord
             /\ next = 0 => page = there
             /\ next # 0 => from <= next /\ \A i \in there : i \in page <=> i < next
<1> DEFINE there == There(f, from)  page == PageOf(f, from)  next == NextOf(f, from)
           rest == RestOf(f, from)
<1>0. LastRecord \in Nat /\ SyncPage \in Nat
  BY SyncAssumption
<1>1. there \subseteq Ids /\ IsFiniteSet(there) /\ there \subseteq Nat \ {0}
  <2>1. IsFiniteSet(Ids) /\ there \subseteq Ids /\ Ids \subseteq Nat \ {0}
    BY <1>0, FS_Interval DEF Ids, There
  <2>2. QED BY <2>1, FS_Subset
<1>2. page \subseteq there /\ rest = there \ page
  BY DEF PageOf, RestOf
<1>3. CASE rest = {}
  <2>1. next = 0 /\ page = there
    BY <1>2, <1>3 DEF NextOf
  <2>2. QED BY <1>0, <2>1
<1>4. CASE rest # {}
  <2>1. PICK n \in rest : \A j \in rest : n <= j
    <3>1. rest \subseteq Nat
      BY <1>1, <1>2
    <3>2. QED BY <1>4, <3>1, LeastNatural
  <2>2. next \in rest /\ \A j \in rest : next <= j
    BY <1>4, <2>1 DEF NextOf
  <2>3. next \in there /\ next \in Nat /\ \A i \in there : i \in Nat
    BY <1>1, <1>2, <2>2
  <2> HIDE DEF next, rest, there, page
  <2>4. ASSUME NEW i \in there, next <= i PROVE i \notin page
    <3> DEFINE few == {j \in there : j < next}  many == {j \in there : j < i}
    <3>1. few \subseteq many /\ IsFiniteSet(many) /\ IsFiniteSet(few)
      <4>1. few \subseteq there /\ many \subseteq there
        OBVIOUS
      <4>2. few \subseteq many
        <5>1. i \in Nat
          BY <2>3, <2>4
        <5>2. ASSUME NEW j \in there, j < next PROVE j < i
          <6>1. j \in Nat
            BY <2>3
          <6>2. QED BY <2>3, <2>4, <5>1, <5>2, <6>1
        <5>3. QED BY <5>2
      <4>3. QED BY <1>1, <4>1, <4>2, FS_Subset
    <3>2. Cardinality(few) <= Cardinality(many) /\ Cardinality(few) \in Nat /\ Cardinality(many) \in Nat
      BY <3>1, FS_Subset, FS_CardinalityType
    <3>3. ~(Cardinality(few) < SyncPage)
      BY <1>2, <2>2, <2>3 DEF PageOf, there, page
    <3>4. i \in page => Cardinality(many) < SyncPage
      BY DEF PageOf, there, page
    <3> HIDE DEF few, many
    <3>5. ~(Cardinality(many) < SyncPage)
      BY <1>0, <3>2, <3>3
    <3>6. QED BY <3>4, <3>5
  <2>5. ASSUME NEW i \in there, i < next PROVE i \in page
    <3>1. i \notin rest
      BY <2>2, <2>3, <2>5
    <3>2. QED BY <1>2, <2>5, <3>1
  <2>6. next \in Ids /\ from <= next /\ next # 0
    BY <1>1, <2>3 DEF There, there
  <2>7. \A i \in there : i \in page <=> i < next
    BY <2>3, <2>4, <2>5
  <2>8. QED BY <1>0, <2>6, <2>7 DEF Ids, next, there, page
<1>5. QED BY <1>3, <1>4

\* Reads of other devices, and steps that are not reads, leave a read as it is.
LEMMA ReaderKeeps ==
  ASSUME YInv, [SyncNext]_syncVars, NEW d \in Devices, reader'[d] = reader[d],
         mirror'[d] = mirror[d], Stands
  PROVE  ReaderOK(d)'
<1>1. StoreOK /\ ReaderOK(d) /\ Forward
  BY StoreStep DEF YInv
<1>2. View(Records)' = View(Records)
  BY <1>1 DEF Forward, Stands
<1>3. QED BY <1>1, <1>2 DEF ReaderOK, Behind, Stands

LEMMA ReaderMoves ==
  ASSUME YInv, [SyncNext]_syncVars, NEW d \in Devices, Moves
  PROVE  ReaderOK(d)'
<1>1. StoreOK /\ StoreOK' /\ ReaderOK(d) /\ Forward
  BY StoreStep DEF YInv
<1>2. account.revision \in Nat /\ account'.revision \in Nat /\ reader[d].rev \in Nat
  BY <1>1, SyncAssumption DEF StoreOK, Account, ReaderOK, PageRead
<1>3. /\ reader'[d] \in PageRead /\ reader'[d].pc = reader[d].pc /\ ~reader'[d].same
      /\ reader'[d].rev = reader[d].rev /\ reader'[d].known = reader[d].known
      /\ reader'[d].got = reader[d].got /\ reader'[d].from = reader[d].from
      /\ reader'[d].next = reader[d].next
  BY MovesFields
<1>4. reader[d].pc = "more" => reader[d].next # 0 /\ reader[d].rev <= account'.revision
  BY <1>1, <1>2 DEF ReaderOK, Forward
<1>5. reader[d].pc = "more" /\ reader[d].rev = account'.revision =>
        reader[d].rev = account.revision /\ View(Records)' = View(Records)
  BY <1>1, <1>2 DEF ReaderOK, Forward
<1>6. ASSUME NEW i \in Ids, reader[d].pc \in {"read", "queried", "more"}, ~reader[d].known
      PROVE  /\ ~Behind(reader'[d], i) => reader'[d].got[i] = Nil
             /\ Behind(reader'[d], i) /\ reader[d].pc = "more" /\ reader[d].rev = account'.revision =>
                  reader'[d].got[i] = View(Records)'[i]
  BY <1>1, <1>3, <1>5, <1>6 DEF ReaderOK, Behind
<1>7. QED BY <1>1, <1>3, <1>4, <1>6 DEF ReaderOK

\* The steps of a read.
LEMMA ReaderReads ==
  ASSUME YInv, NEW d \in Devices, UNCHANGED <<account, record>>,
         \/ OpenRead(d, TRUE) \/ OpenRead(d, FALSE) \/ NextPage(d)
         \/ QueryPage(d) \/ ClosePage(d) \/ LeaveRead(d)
  PROVE  ReaderOK(d)'
<1> DEFINE x == reader[d]
<1>1. StoreOK /\ ReaderOK(d) /\ x \in PageRead
  BY DEF YInv, ReaderOK
<1>2. View(Records)' = View(Records) /\ account.revision \in Nat /\ account.generation \in Generations
  BY <1>1, AccountTypes DEF View, Records
<1>3. Ids \subseteq Nat \ {0} /\ LastRecord \in Nat
  BY SyncAssumption DEF Ids
<1>4. Waiting \in PageRead /\ Waiting.pc = "idle"
  BY <1>3, SyncAssumption DEF Waiting, PageRead, Generations, HeldRows
<1>5. ASSUME NEW y, y = reader'[d], y.pc \in {"idle", "unchanged"}, y \in PageRead PROVE ReaderOK(d)'
  BY <1>5 DEF ReaderOK
<1>6. \A y : Read(d, y) => reader'[d] = y
  BY DEF Read, YInv
<1>7. CASE LeaveRead(d)
  BY <1>4, <1>5, <1>6, <1>7 DEF LeaveRead
<1>8. ASSUME NEW asks \in BOOLEAN, OpenRead(d, asks) PROVE ReaderOK(d)'
  <2>1. PICK known \in BOOLEAN :
          /\ reader'[d] = [Waiting EXCEPT !.pc = IF known THEN "queried" ELSE "read", !.known = known,
                             !.gen = account.generation, !.rev = account.revision]
          /\ known => mirror[d].scope = account.generation /\ mirror[d].revision = account.revision
          /\ mirror' = mirror
    BY <1>6, <1>8 DEF OpenRead
  <2>2. reader'[d] = [pc |-> IF known THEN "queried" ELSE "read", gen |-> account.generation,
                      rev |-> account.revision, from |-> 0, next |-> 0, same |-> TRUE,
                      known |-> known, got |-> [i \in Ids |-> Nil]]
    BY <2>1 DEF Waiting
  <2>3. reader'[d] \in PageRead
    BY <1>2, <1>3, <2>2 DEF PageRead, HeldRows
  <2>4. \A i \in Ids : ~(i < 0)
    BY <1>3
  <2>5. /\ reader'[d].same /\ reader'[d].gen = account'.generation
        /\ reader'[d].rev = account'.revision /\ reader'[d].known = known
        /\ (known => reader'[d].pc = "queried") /\ (~known => reader'[d].pc = "read")
        /\ reader'[d].from = 0 /\ \A i \in Ids : reader'[d].got[i] = Nil
    BY <2>2
  <2>6. QED BY <2>1, <2>3, <2>4, <2>5 DEF ReaderOK, Behind
<1>9. CASE NextPage(d)
  <2>1. CASE reader'[d] = Waiting
    BY <1>4, <1>5, <2>1
  <2>2. CASE reader'[d] # Waiting
    <3>1. /\ x.pc = "more" /\ x.gen = account.generation /\ x.rev = account.revision
          /\ reader'[d] = [x EXCEPT !.pc = "read", !.from = x.next, !.same = TRUE, !.rev = account.revision]
      BY <1>6, <1>9, <2>2 DEF NextPage, TokenCurrent
    <3>2. \A n \in Nat : [x EXCEPT !.pc = "read", !.from = x.next, !.same = TRUE, !.rev = n] \in PageRead
      BY <1>1 DEF PageRead
    <3>3. reader'[d] \in PageRead
      BY <1>2, <3>1, <3>2
    <3>4. /\ reader'[d].pc = "read" /\ reader'[d].from = x.next /\ reader'[d].rev = account.revision
          /\ reader'[d].gen = x.gen /\ reader'[d].known = x.known /\ reader'[d].got = x.got
      BY <1>1, <3>1 DEF PageRead
    <3>5. x.next # 0 /\ ~x.known
      BY <1>1, <3>1 DEF ReaderOK
    <3>6. ASSUME NEW i \in Ids
          PROVE  /\ ~(i < x.next) => x.got[i] = Nil
                 /\ i < x.next => x.got[i] = View(Records)[i]
      BY <1>1, <3>1, <3>5 DEF ReaderOK, Behind
    <3>7. QED BY <1>2, <3>1, <3>3, <3>4, <3>5, <3>6 DEF ReaderOK, Behind
  <2>3. QED BY <2>1, <2>2
<1>10. CASE QueryPage(d)
  <2> DEFINE f == record[x.gen]  page == PageOf(f, x.from)  next == NextOf(f, x.from)
             got == [i \in Ids |-> IF i \in page THEN View(f)[i] ELSE x.got[i]]
  <2>1. CASE reader'[d] = Waiting
    BY <1>4, <1>5, <2>1
  <2>2. CASE reader'[d] # Waiting
    <3>1. x.pc = "read" /\ ~x.known /\ mirror' = mirror
      BY <1>1, <1>10 DEF QueryPage, ReaderOK
    <3>2. reader'[d] = [x EXCEPT !.pc = "queried", !.next = next, !.got = got]
      BY <1>6, <1>10, <2>2 DEF QueryPage, There, PageOf, RestOf, NextOf
    <3> HIDE DEF next, got, page
    <3>3. x.from \in Nat /\ x.gen \in Generations /\ x.got \in HeldRows
      BY <1>1 DEF PageRead
    <3>4. /\ next \in 0 .. LastRecord
          /\ next = 0 => page = There(f, x.from)
          /\ next # 0 => x.from <= next /\ \A i \in There(f, x.from) : i \in page <=> i < next
      BY <3>3, PageBounds DEF next, page
    <3>5. f \in [Ids -> Stored \cup {Nil}] /\ page \subseteq There(f, x.from)
      BY <1>1, <3>3 DEF StoreOK, page, PageOf
    <3>6. View(f) \in HeldRows
      <4>1. \A i \in Ids : f[i] # Nil => [ver |-> f[i].ver, val |-> f[i].val] \in Row
        BY <3>5 DEF Stored, Row
      <4>2. QED BY <4>1 DEF View, HeldRows
    <3>7. got \in HeldRows
      BY <3>3, <3>6 DEF HeldRows, got
    <3>8. \A n \in 0 .. LastRecord, h \in HeldRows :
            [x EXCEPT !.pc = "queried", !.next = n, !.got = h] \in PageRead
      BY <1>1 DEF PageRead
    <3>9. reader'[d] \in PageRead
      BY <3>2, <3>4, <3>7, <3>8
    <3>10. /\ reader'[d].pc = "queried" /\ reader'[d].next = next /\ reader'[d].got = got
           /\ reader'[d].gen = x.gen /\ reader'[d].rev = x.rev /\ reader'[d].same = x.same
           /\ reader'[d].known = x.known
      BY <1>1, <3>2 DEF PageRead
    <3>11. x.same => x.gen = account.generation /\ x.rev = account.revision /\ f = Records
      BY <1>1, <3>1 DEF ReaderOK, Records
    <3>12. ASSUME NEW i \in Ids
           PROVE  /\ ~(next = 0 \/ i < next) => got[i] = Nil
                  /\ (next = 0 \/ i < next) /\ x.same => got[i] = View(Records)[i]
      <4>1. i \in Nat /\ next \in Nat
        BY <1>3, <3>4
      <4>2. /\ ~(i < x.from) => x.got[i] = Nil
            /\ i < x.from /\ x.same => x.got[i] = View(Records)[i]
        BY <1>1, <3>1 DEF ReaderOK, Behind
      <4>3. got[i] = IF i \in page THEN View(f)[i] ELSE x.got[i]
        BY DEF got
      <4>4. i \in There(f, x.from) <=> i >= x.from /\ f[i] # Nil
        BY DEF There
      <4>5. f[i] = Nil => View(f)[i] = Nil
        BY DEF View
      <4>6. CASE i \in page
        <5>1. next = 0 \/ i < next
          BY <3>4, <3>5, <4>6
        <5>2. QED BY <3>11, <4>3, <4>6, <5>1
      <4>7. CASE i \notin page
        <5>1. ASSUME ~(next = 0 \/ i < next) PROVE x.got[i] = Nil
          BY <3>3, <3>4, <4>1, <4>2, <5>1
        <5>2. ASSUME next = 0 \/ i < next, x.same PROVE x.got[i] = View(Records)[i]
          <6>1. i \notin There(f, x.from)
            BY <3>4, <4>7, <5>2
          <6>2. i < x.from \/ f[i] = Nil
            BY <3>3, <4>1, <4>4, <6>1
          <6>3. QED BY <3>3, <3>11, <4>1, <4>2, <4>5, <5>2, <6>2
        <5>3. QED BY <4>3, <4>7, <5>1, <5>2
      <4>8. QED BY <4>6, <4>7
    <3>13. QED
      BY <1>2, <3>1, <3>9, <3>10, <3>11, <3>12 DEF ReaderOK, Behind
  <2>3. QED BY <2>1, <2>2
<1>11. CASE ClosePage(d)
  <2>1. CASE reader'[d] = Waiting
    BY <1>4, <1>5, <2>1
  <2>2. CASE reader'[d] = [Waiting EXCEPT !.pc = "unchanged"]
    <3>1. [Waiting EXCEPT !.pc = "unchanged"] \in PageRead
      BY <1>4 DEF PageRead
    <3>2. [Waiting EXCEPT !.pc = "unchanged"].pc = "unchanged"
      BY <1>4 DEF PageRead
    <3>3. QED BY <1>5, <2>2, <3>1, <3>2
  <2>3. CASE /\ StillCurrent(d) /\ ~x.known /\ x.next # 0 /\ x.pc = "queried"
             /\ reader'[d] = [x EXCEPT !.pc = "more"]
    <3>1. /\ reader'[d] \in PageRead
          /\ reader'[d].pc = "more" /\ reader'[d].next = x.next /\ reader'[d].got = x.got
          /\ reader'[d].rev = x.rev /\ reader'[d].known = x.known
      BY <1>1, <2>3 DEF PageRead
    <3>2. x.same /\ x.rev = account.revision
      BY <2>3 DEF StillCurrent
    <3>3. ASSUME NEW i \in Ids
          PROVE  /\ ~(i < x.next) => x.got[i] = Nil
                 /\ i < x.next => x.got[i] = View(Records)[i]
      BY <1>1, <2>3, <3>2 DEF ReaderOK, Behind
    <3>4. QED BY <1>2, <2>3, <3>1, <3>2, <3>3 DEF ReaderOK, Behind
  <2>4. QED BY <1>6, <1>11, <2>1, <2>2, <2>3 DEF ClosePage
<1>12. QED BY <1>7, <1>8, <1>9, <1>10, <1>11

LEMMA ReaderStep ==
  ASSUME YInv, [SyncNext]_syncVars
  PROVE  reader' = [d \in Devices |-> reader'[d]] /\ \A d \in Devices : ReaderOK(d)'
<1> DEFINE Goal == reader' = [d \in Devices |-> reader'[d]] /\ \A d \in Devices : ReaderOK(d)'
<1>1. CASE Moves
  BY <1>1, ReaderMoves DEF Moves
<1>2. CASE Stands /\ UNCHANGED <<reader, mirror>>
  BY <1>2, ReaderKeeps DEF YInv
<1>3. ASSUME NEW b \in Batches, ApplyBatch(b) PROVE Goal
  <2>1. CASE Fresh(b) # {}
    BY <1>1, <1>3, <2>1, ApplyStore
  <2>2. CASE Fresh(b) = {}
    <3>1. UNCHANGED <<account, reader, mirror>>
      BY <1>3, <2>2 DEF ApplyBatch
    <3>2. QED BY <1>2, <3>1 DEF Stands
  <2>3. QED BY <2>1, <2>2
<1>4. ASSUME NEW ks \in SUBSET Ids, AdoptInOneStep(ks) \/ CompletePromotion(ks) PROVE Goal
  BY <1>1, <1>4 DEF AdoptInOneStep, CompletePromotion, Metadata, Moves
<1>5. ASSUME BeginPromotion \/ RenewPromotionLease PROVE Goal
  BY <1>1, <1>5 DEF BeginPromotion, RenewPromotionLease, Metadata, Moves
<1>6. ASSUME PromotionLeaseEnds PROVE Goal
  BY <1>2, <1>6 DEF PromotionLeaseEnds, Stands
<1>7. ASSUME NEW e \in Devices, UNCHANGED <<account, record>>,
             \/ OpenRead(e, TRUE) \/ OpenRead(e, FALSE) \/ NextPage(e)
             \/ QueryPage(e) \/ ClosePage(e) \/ LeaveRead(e)
      PROVE  Goal
  <2>1. \E y : Read(e, y)
    BY <1>7 DEF OpenRead, NextPage, QueryPage, ClosePage, LeaveRead
  <2>2. reader' = [d \in Devices |-> reader'[d]] /\ \A d \in Devices : d # e => reader'[d] = reader[d]
    BY <2>1 DEF Read, YInv
  <2>3. \A d \in Devices : d # e => mirror'[d] = mirror[d]
    BY <1>7 DEF OpenRead, NextPage, QueryPage, ClosePage, LeaveRead, YInv
  <2>4. Stands
    BY <1>7 DEF Stands
  <2>5. ASSUME NEW d \in Devices PROVE ReaderOK(d)'
    BY <1>7, <2>2, <2>3, <2>4, ReaderReads, ReaderKeeps
  <2>6. QED BY <2>2, <2>5
<1>8. CASE Quiet
  <2>1. UNCHANGED <<account, record>> /\ Stands
    BY <1>8 DEF Quiet, Stands
  <2>2. QED BY <1>2, <1>7, <1>8, <2>1 DEF Quiet
<1>9. QED BY <1>3, <1>4, <1>5, <1>6, <1>8, SyncSteps

LEMMA SyncStep == YInv /\ [SyncNext]_syncVars => YInv'
<1> SUFFICES ASSUME YInv, [SyncNext]_syncVars PROVE YInv'
  OBVIOUS
<1>1. QED
  BY StoreStep, RequestsStep, MirrorStep, ReaderStep DEF YInv

LEMMA SyncStart == SyncInit => YInv
<1> SUFFICES ASSUME SyncInit PROVE YInv
  OBVIOUS
<1> USE SyncAssumption
<1>1. 0 \in Generations /\ 0 \in 0 .. LastRecord /\ 0 \in 0 .. MaxSyncRev
  BY DEF Generations
<1>2. StoreOK
  <2>1. [ver |-> 1, val |-> "initial", last |-> "initial"] \in Stored
    BY DEF Stored, Writers
  <2>2. record \in [Generations -> [Ids -> Stored \cup {Nil}]]
    BY <2>1 DEF SyncInit
  <2>3. account \in Account /\ ~account.leased
    BY <1>1 DEF SyncInit, Account
  <2>4. QED BY <2>2, <2>3 DEF StoreOK
<1>3. RequestsOK
  BY <1>1 DEF SyncInit, RequestsOK
<1>4. [i \in Ids |-> Nil] \in HeldRows
  BY DEF HeldRows
<1>5. ASSUME NEW d \in Devices PROVE MirrorOK(d) /\ ReaderOK(d)
  <2>1. mirror[d] \in Mirror /\ mirror[d].scope = Nil /\ waits[d] = Nil
    BY <1>4 DEF SyncInit, Mirror
  <2>2. reader[d] = Waiting
    BY DEF SyncInit
  <2>3. reader[d] \in PageRead /\ reader[d].pc = "idle"
    BY <1>1, <1>4, <2>2 DEF Waiting, PageRead
  <2>4. QED BY <2>1, <2>3 DEF MirrorOK, ReaderOK
<1>6. QED BY <1>2, <1>3, <1>5 DEF SyncInit, YInv

\* However often a mutation is sent, in whichever batches, it takes effect once
\* as long as its receipt is kept; and every document stays well formed.
THEOREM MutationsCountOnce == SyncSpec => []MutationsHold
<1>1. ASSUME YInv PROVE MutationsHold
  <2> USE <1>1
  <2>1. AppliedOnce
    BY DEF YInv, RequestsOK, AppliedOnce
  <2>2. ASSUME NEW g \in Generations, NEW i \in Ids, record[g][i] # Nil
        PROVE  View(record[g])[i] \in Row
    <3>1. record[g][i] \in Stored
      BY <2>2 DEF YInv, StoreOK
    <3>2. QED BY <2>2, <3>1 DEF View, Stored, Row
  <2>3. /\ account.revision \in 0 .. MaxSyncRev /\ account.generation \in Generations
        /\ account.leased => account.promoting
    BY DEF YInv, StoreOK, Account
  <2>4. \A d \in Devices : /\ mirror[d].rows \in [Ids -> Row \cup {Nil}]
                           /\ reader[d].pc \in {"idle", "read", "queried", "more", "unchanged"}
    BY DEF YInv, MirrorOK, ReaderOK, Mirror, PageRead, HeldRows
  <2>5. SyncTypeOK
    BY <2>2, <2>3, <2>4 DEF YInv, RequestsOK, SyncTypeOK
  <2>6. QED BY <2>1, <2>5 DEF MutationsHold
<1>2. QED BY <1>1, SyncStart, SyncStep, PTL DEF SyncSpec

\* What a device is given, by the pages of a read, by a batch of its own or by
\* the answer that nothing changed, is the account as it is at that moment,
\* whatever batches, adoptions, promotions and collections went on meanwhile.
THEOREM SnapshotsAreGiven == SyncSpec => SnapshotsAreTrue
<1>1. ASSUME YInv, [SyncNext]_syncVars
      PROVE  [\A d \in Devices :
                (mirror'[d] # mirror[d] \/ (reader[d].pc # "unchanged" /\ reader'[d].pc = "unchanged"))
                => mirror'[d] = [scope    |-> account'.generation,
                                 revision |-> account'.revision,
                                 rows     |-> View(record'[account'.generation])]]_syncVars
  BY <1>1, GivenIsTrue DEF Given, Records, View
<1>2. QED BY <1>1, SyncStart, SyncStep, PTL DEF SyncSpec, SnapshotsAreTrue

-----------------------------------------------------------------------------
(* AdoptionMerge: what a confirmed merge writes *)

MInv == /\ guest \in Snapshot /\ merged \in Snapshot
        /\ BundlesOK(guest) /\ BundlesOK(merged)

LEMMA KeyFacts ==
  /\ \A t \in Tracks, type \in GoalPlanTypes :
       Key(type, t) \in GoalPlanKeys /\ Key(type, t) \in Keys /\ Key(type, t).id = t
  /\ \A k \in GoalPlanKeys : k.type \in GoalPlanTypes /\ k.id \in Tracks /\ k = Key(k.type, k.id)
  /\ \A k \in ItemKeys : k \in Keys /\ k \notin GoalPlanKeys
<1>1. ASSUME NEW t \in Tracks, NEW type \in GoalPlanTypes PROVE Key(type, t) \in GoalPlanKeys
  <2>1. <<type, t>> \in GoalPlanTypes \X Tracks
    OBVIOUS
  <2>2. QED BY <2>1 DEF GoalPlanKeys
<1>2. \A k \in GoalPlanKeys : k.type \in GoalPlanTypes /\ k.id \in Tracks /\ k = Key(k.type, k.id)
  BY DEF GoalPlanKeys, Key
<1>3. \A k \in ItemKeys : k.type = "item"
  BY DEF ItemKeys, Key
<1>4. QED BY <1>1, <1>2, <1>3 DEF Keys, Key, GoalPlanTypes

\* A record that is written is a document, of the content that was chosen.
LEMMA Written ==
  ASSUME NEW g \in Snapshot, NEW r \in Snapshot, NEW c, NEW k \in Keys
  PROVE  LET m == Materialize(g, r, c)
         IN  /\ k \notin Writes(g, r, c) => m[k] = r[k]
             /\ k \in Writes(g, r, c) =>
                  /\ m[k] \in Record /\ Present(m, k) /\ m[k].ver = NextVersion(r, k)
                  /\ m[k].val = WrittenVal(g, r, k)
<1> DEFINE m == Materialize(g, r, c)
<1>1. m = [i \in Keys |-> IF i \in Writes(g, r, c)
                          THEN [val |-> WrittenVal(g, r, i), ver |-> NextVersion(r, i)] ELSE r[i]]
  BY DEF Materialize
<1>2. ASSUME k \in Writes(g, r, c)
      PROVE  WrittenVal(g, r, k) \in UNION {ValsOf(i) : i \in Keys} /\ NextVersion(r, k) \in Nat
  <2>1. NextVersion(r, k) \in Nat
    BY DEF NextVersion, Present, Snapshot, Record
  <2>2. Tombstone \in ValsOf(k)
    BY DEF ValsOf
  <2>3. ASSUME ~(k \in Grouped(g, r) /\ ~Live(g, k)) PROVE g[k] \in Record
    <3>1. Present(g, k)
      BY <1>2, <2>3 DEF Writes, GroupWrites, RecordWrites, Uploads, Conflicts, Live
    <3>2. QED BY <3>1 DEF Present, Snapshot
  <2>4. QED BY <2>1, <2>2, <2>3 DEF WrittenVal, Record
<1>3. ASSUME k \in Writes(g, r, c) PROVE m[k] \in Record
  BY <1>1, <1>2, <1>3 DEF Record
<1>4. QED BY <1>1, <1>3, NoneAssumption DEF Present

LEMMA MaterializeType ==
  ASSUME NEW g \in Snapshot, NEW r \in Snapshot, NEW c
  PROVE  Materialize(g, r, c) \in Snapshot
<1>1. \A k \in Keys : Materialize(g, r, c)[k] \in Record \cup {None}
  BY Written DEF Snapshot
<1>2. QED BY <1>1 DEF Materialize, Snapshot

\* Which keys are written: an item or a single record that differs and was
\* chosen, a group that was chosen as a whole.
LEMMA ItemWrites ==
  ASSUME NEW g \in Snapshot, NEW r \in Snapshot, NEW c \in Confirmations(g, r), NEW k \in Keys,
         k \notin Grouped(g, r)
  PROVE  /\ k \in Writes(g, r, c) <=>
              Present(g, k) /\ (~Present(r, k) \/ (k \in Conflicts(g, r) /\ c.resolutions[k] = "keep_guest"))
         /\ k \in Writes(g, r, c) => WrittenVal(g, r, k) = g[k].val /\ ~SameFingerprint(g, r, k)
         /\ k \in Conflicts(g, r) <=> Present(g, k) /\ Present(r, k) /\ ~SameFingerprint(g, r, k)
  BY DEF Writes, GroupWrites, RecordWrites, Uploads, Conflicts, Ungrouped, WrittenVal, SameFingerprint

LEMMA GroupedWrites ==
  ASSUME NEW g \in Snapshot, NEW r \in Snapshot, NEW c \in Confirmations(g, r), NEW k \in Keys,
         k \in Grouped(g, r)
  PROVE  /\ k \in Writes(g, r, c) <=>
              /\ c.groupChoices[k.id] = "keep_guest"
              /\ IF Live(g, k) THEN ~SameFingerprint(g, r, k) ELSE Live(r, k)
         /\ WrittenVal(g, r, k) = IF Live(g, k) THEN g[k].val ELSE Tombstone
  BY DEF Writes, GroupWrites, RecordWrites, Uploads, Conflicts, Ungrouped, WrittenVal

\* A record takes one side's content.
Matches(m, n, k) == LiveVal(m, k) = LiveVal(n, k) /\ (Live(m, k) <=> Live(n, k))

LEMMA OneSide ==
  ASSUME NEW g \in Snapshot, NEW r \in Snapshot, NEW c \in Confirmations(g, r), NEW k \in Keys
  PROVE  LET m == Materialize(g, r, c)
         IN  /\ k \notin Grouped(g, r) /\ (~Present(g, k) \/ SameFingerprint(g, r, k)) => Matches(m, r, k)
             /\ k \notin Grouped(g, r) /\ Present(g, k) /\ ~Present(r, k) => Matches(m, g, k)
             /\ k \in Conflicts(g, r) =>
                  Matches(m, IF c.resolutions[k] = "keep_guest" THEN g ELSE r, k)
             /\ k \in Grouped(g, r) =>
                  Matches(m, IF c.groupChoices[k.id] = "keep_guest" THEN g ELSE r, k)
<1> DEFINE m == Materialize(g, r, c)
<1>1. ASSUME m[k] = r[k] PROVE Matches(m, r, k)
  BY <1>1 DEF Matches, LiveVal, Live, Present
<1>2. ASSUME Present(m, k), Present(g, k), m[k].val = g[k].val PROVE Matches(m, g, k)
  BY <1>2 DEF Matches, LiveVal, Live
<1>3. CASE k \notin Grouped(g, r)
  <2>1. k \in Writes(g, r, c) => Matches(m, g, k)
    BY <1>2, <1>3, Written, ItemWrites
  <2>2. k \notin Writes(g, r, c) => Matches(m, r, k)
    BY <1>1, Written
  <2>3. QED BY <1>3, <2>1, <2>2, ItemWrites DEF SameFingerprint
<1>4. CASE k \in Grouped(g, r)
  <2>1. k \notin Conflicts(g, r)
    BY <1>4 DEF Conflicts, Ungrouped
  <2>2. CASE k \notin Writes(g, r, c)
    <3>1. Matches(m, r, k)
      BY <1>1, <2>2, Written
    <3>2. ASSUME c.groupChoices[k.id] = "keep_guest" PROVE Matches(m, g, k)
      <4>1. IF Live(g, k) THEN SameFingerprint(g, r, k) ELSE ~Live(r, k)
        BY <1>4, <2>2, <3>2, GroupedWrites
      <4>2. m[k] = r[k]
        BY <2>2, Written
      <4>3. QED BY <4>1, <4>2 DEF Matches, LiveVal, Live, SameFingerprint, Present
    <3>3. QED BY <1>4, <2>1, <3>1, <3>2
  <2>3. CASE k \in Writes(g, r, c)
    <3>1. c.groupChoices[k.id] = "keep_guest" /\ Present(m, k)
          /\ m[k].val = IF Live(g, k) THEN g[k].val ELSE Tombstone
      BY <1>4, <2>3, GroupedWrites, Written
    <3>2. Matches(m, g, k)
      BY <3>1 DEF Matches, LiveVal, Live
    <3>3. QED BY <1>4, <2>1, <3>1, <3>2
  <2>4. QED BY <2>2, <2>3
<1>5. QED BY <1>3, <1>4

\* A track takes one side's goal and plan: the side the preview names.
TrackSide(g, r, c, t) ==
  IF t \in GroupTracks(g, r) THEN (IF c.groupChoices[t] = "keep_guest" THEN g ELSE r)
  ELSE IF HasTrack(g, t) /\ ~HasTrack(r, t) THEN g ELSE r

LEMMA TrackTakes ==
  ASSUME NEW g \in Snapshot, NEW r \in Snapshot, NEW c \in Confirmations(g, r),
         NEW t \in Tracks, NEW type \in GoalPlanTypes
  PROVE  Matches(Materialize(g, r, c), TrackSide(g, r, c, t), Key(type, t))
<1> DEFINE k == Key(type, t)
<1>1. k \in Keys /\ k \in GoalPlanKeys /\ k.id = t
  BY KeyFacts
<1>2. k \in Grouped(g, r) <=> t \in GroupTracks(g, r)
  BY <1>1 DEF Grouped
<1>3. CASE t \in GroupTracks(g, r)
  BY <1>1, <1>2, <1>3, OneSide DEF TrackSide
<1>4. CASE t \notin GroupTracks(g, r)
  <2>1. ~HasTrack(g, t) => ~Present(g, k)
    BY DEF HasTrack
  <2>2. ~HasTrack(r, t) => ~Present(r, k)
    BY DEF HasTrack
  <2>3. HasTrack(g, t) /\ HasTrack(r, t) => SameFingerprint(g, r, k)
    BY <1>4 DEF GroupTracks
  <2>4. CASE HasTrack(g, t) /\ ~HasTrack(r, t)
    <3>1. CASE Present(g, k)
      BY <1>1, <1>2, <1>4, <2>2, <2>4, <3>1, OneSide DEF TrackSide
    <3>2. CASE ~Present(g, k)
      <4>1. Matches(Materialize(g, r, c), r, k)
        BY <1>1, <1>2, <1>4, <3>2, OneSide
      <4>2. ~Live(g, k) /\ ~Live(r, k)
        BY <2>2, <2>4, <3>2 DEF Live
      <4>3. QED BY <1>4, <2>4, <4>1, <4>2 DEF Matches, TrackSide, LiveVal
    <3>3. QED BY <3>1, <3>2
  <2>5. CASE ~(HasTrack(g, t) /\ ~HasTrack(r, t))
    BY <1>1, <1>2, <1>4, <2>1, <2>3, <2>5, OneSide DEF TrackSide
  <2>6. QED BY <2>4, <2>5
<1>5. QED BY <1>3, <1>4

\* So the plans of the account fit its goals when those of both sides do.
LEMMA BundlesStay ==
  ASSUME NEW g \in Snapshot, NEW r \in Snapshot, NEW c \in Confirmations(g, r),
         BundlesOK(g), BundlesOK(r)
  PROVE  BundlesOK(Materialize(g, r, c))
<1> DEFINE m == Materialize(g, r, c)
<1>1. ASSUME NEW t \in Tracks PROVE BundleOK(m, t)
  <2> DEFINE side == TrackSide(g, r, c, t)  goal == Key("goal", t)  plan == Key("learning_plan", t)
  <2>1. Matches(m, side, goal) /\ Matches(m, side, plan)
    BY TrackTakes DEF GoalPlanTypes
  <2>2. BundleOK(side, t)
    BY DEF TrackSide, BundlesOK
  <2>3. \A k : Live(m, k) /\ Matches(m, side, k) => m[k].val = side[k].val /\ Live(side, k)
    BY DEF Matches, LiveVal
  <2>4. QED BY <2>1, <2>2, <2>3 DEF BundleOK, Matches
<1>2. QED BY <1>1 DEF BundlesOK

LEMMA MergeStart == Init => MInv
<1> SUFFICES ASSUME Init PROVE MInv
  OBVIOUS
<1>1. ASSUME NEW m \in Snapshots PROVE m \in Snapshot /\ BundlesOK(m)
  <2>1. BundlesOK(m) /\ m = [k \in Keys |-> m[k]]
    BY DEF Snapshots
  <2>2. ASSUME NEW k \in Keys PROVE m[k] \in Record \cup {None}
    <3>1. m[k] = None \/ \E i \in Keys : m[k] \in [val: ValsOf(i), ver: {1}]
      <4> DEFINE Kinds == {[val: ValsOf(i), ver: {1}] : i \in Keys}
      <4>1. m \in [Keys -> (UNION Kinds) \cup {None}]
        BY DEF Snapshots
      <4>2. \A x \in UNION Kinds : \E i \in Keys : x \in [val: ValsOf(i), ver: {1}]
        BY Zenon
      <4> HIDE DEF Kinds
      <4>3. m[k] \in (UNION Kinds) \cup {None}
        BY <4>1
      <4>4. QED BY <4>2, <4>3, Zenon
    <3>2. CASE m[k] = None
      BY <3>2
    <3>3. CASE m[k] # None
      <4>1. PICK i \in Keys : m[k] \in [val: ValsOf(i), ver: {1}]
        BY <3>1, <3>3
      <4>2. QED BY <4>1 DEF Record
    <3>4. QED BY <3>2, <3>3
  <2>3. QED BY <2>1, <2>2 DEF Snapshot
<1>2. QED BY <1>1 DEF Init, MInv

LEMMA MergeStep == MInv /\ [Next]_vars => MInv'
<1> SUFFICES ASSUME MInv, [Next]_vars PROVE MInv'
  OBVIOUS
<1>1. CASE UNCHANGED vars
  BY <1>1 DEF vars, MInv
<1>2. ASSUME NEW c \in Confirmations(guest, merged), Merge(c) PROVE MInv'
  BY <1>2, MaterializeType, BundlesStay DEF MInv, Merge
<1>3. QED BY <1>1, <1>2 DEF Next

\* No confirmation of a preview, however it mixes sides, leaves an account whose
\* plans do not fit their goals.
THEOREM MergeKeepsBundles == Spec => []MergedBundlesOK
<1>1. MInv => MergedBundlesOK
  BY DEF MInv, MergedBundlesOK
<1>2. QED BY <1>1, MergeStart, MergeStep, PTL DEF Spec

\* Versions move exactly with content.
LEMMA VersionsMove ==
  ASSUME NEW g \in Snapshot, NEW r \in Snapshot, NEW c \in Confirmations(g, r), NEW k \in Keys
  PROVE  LET m == Materialize(g, r, c)
         IN  /\ Present(r, k) => Present(m, k)
             /\ m[k] # r[k] => ~SameFingerprint(r, m, k) /\ m[k].ver = NextVersion(r, k)
<1> DEFINE m == Materialize(g, r, c)
<1>1. CASE k \notin Writes(g, r, c)
  BY <1>1, Written DEF Present
<1>2. CASE k \in Writes(g, r, c)
  <2>1. Present(m, k) /\ m[k].ver = NextVersion(r, k) /\ m[k].val = WrittenVal(g, r, k)
    BY <1>2, Written
  <2>2. CASE k \notin Grouped(g, r)
    <3>1. WrittenVal(g, r, k) = g[k].val /\ ~SameFingerprint(g, r, k) /\ Present(g, k)
      BY <1>2, <2>2, ItemWrites
    <3>2. QED BY <2>1, <3>1 DEF SameFingerprint
  <2>3. CASE k \in Grouped(g, r)
    <3>1. /\ IF Live(g, k) THEN ~SameFingerprint(g, r, k) ELSE Live(r, k)
          /\ WrittenVal(g, r, k) = IF Live(g, k) THEN g[k].val ELSE Tombstone
      BY <1>2, <2>3, GroupedWrites
    <3>2. QED BY <2>1, <3>1 DEF SameFingerprint, Live
  <2>4. QED BY <2>2, <2>3
<1>3. QED BY <1>1, <1>2

\* A confirmed merge does what the preview showed and no more: unit by unit one
\* side's content, and versions that move exactly with it.
THEOREM MergeDoesWhatWasShown == Spec => MergeIsExact
<1>1. ASSUME MInv, NEW c \in Confirmations(guest, merged), Merge(c) PROVE ItemsFromOneSide(c)
  <2>1. merged' = Materialize(guest, merged, c) /\ guest \in Snapshot /\ merged \in Snapshot
    BY <1>1 DEF Merge, MInv
  <2>2. SUFFICES ASSUME NEW k \in ItemKeys
        PROVE  LiveVal(merged', k) =
                 LiveVal(IF (CASE SameFingerprint(guest, merged, k) -> "account"
                               [] ~Present(guest, k) -> "account"
                               [] Present(guest, k) /\ ~Present(merged, k) -> "guest"
                               [] OTHER -> IF (IF k \in Conflicts(guest, merged) THEN c.resolutions[k]
                                               ELSE "none") = "keep_guest"
                                           THEN "guest" ELSE "account") = "guest"
                         THEN guest ELSE merged, k)
    BY DEF ItemsFromOneSide, Side
  <2>3. k \in Keys /\ k \notin Grouped(guest, merged)
    BY KeyFacts DEF Grouped
  <2>4. CASE SameFingerprint(guest, merged, k) \/ ~Present(guest, k)
    <3>1. Matches(merged', merged, k)
      BY <2>1, <2>3, <2>4, OneSide
    <3>2. SameFingerprint(guest, merged, k) => Present(guest, k) = Present(merged, k)
      BY DEF SameFingerprint
    <3>3. CASE SameFingerprint(guest, merged, k)
      BY <3>1, <3>2, <3>3 DEF Matches
    <3>4. CASE ~SameFingerprint(guest, merged, k) /\ ~Present(guest, k)
      BY <3>1, <3>4 DEF Matches
    <3>5. QED BY <2>4, <3>3, <3>4
  <2>5. CASE ~SameFingerprint(guest, merged, k) /\ Present(guest, k) /\ ~Present(merged, k)
    <3>1. Matches(merged', guest, k)
      BY <2>1, <2>3, <2>5, OneSide
    <3>2. QED BY <2>5, <3>1 DEF Matches
  <2>6. CASE ~SameFingerprint(guest, merged, k) /\ Present(guest, k) /\ Present(merged, k)
    <3>1. k \in Conflicts(guest, merged)
      BY <2>1, <2>3, <2>6, ItemWrites
    <3>2. Matches(merged', IF c.resolutions[k] = "keep_guest" THEN guest ELSE merged, k)
      BY <2>1, <2>3, <3>1, OneSide
    <3>3. QED BY <2>6, <3>1, <3>2 DEF Matches
  <2>7. QED BY <2>4, <2>5, <2>6
<1>2. ASSUME MInv, NEW c \in Confirmations(guest, merged), Merge(c) PROVE TracksFromOneSide(c)
  <2>1. merged' = Materialize(guest, merged, c) /\ guest \in Snapshot /\ merged \in Snapshot
    BY <1>2 DEF Merge, MInv
  <2>2. SUFFICES ASSUME NEW t \in Tracks, NEW type \in GoalPlanTypes
        PROVE  LiveVal(merged', Key(type, t)) =
                 LiveVal(IF (CASE \A q \in GoalPlanTypes : SameFingerprint(guest, merged, Key(q, t)) -> "account"
                               [] ~HasTrack(guest, t) -> "account"
                               [] HasTrack(guest, t) /\ ~HasTrack(merged, t) -> "guest"
                               [] OTHER -> IF (IF t \in GroupTracks(guest, merged) THEN c.groupChoices[t]
                                               ELSE "none") = "keep_guest"
                                           THEN "guest" ELSE "account") = "guest"
                         THEN guest ELSE merged, Key(type, t))
    BY DEF TracksFromOneSide, Side
  <2> DEFINE same == \A q \in GoalPlanTypes : SameFingerprint(guest, merged, Key(q, t))
  <2>3. Matches(merged', TrackSide(guest, merged, c, t), Key(type, t))
    BY <2>1, TrackTakes
  <2>4. CASE same \/ ~HasTrack(guest, t)
    <3>1. same /\ HasTrack(guest, t) => HasTrack(merged, t)
      BY DEF HasTrack, SameFingerprint
    <3>2. TrackSide(guest, merged, c, t) = merged
      BY <2>4, <3>1 DEF TrackSide, GroupTracks
    <3>3. CASE same
      BY <2>3, <3>1, <3>2, <3>3 DEF Matches
    <3>4. CASE ~same /\ ~HasTrack(guest, t)
      BY <2>3, <3>2, <3>4 DEF Matches
    <3>5. QED BY <2>4, <3>3, <3>4
  <2>5. CASE ~same /\ HasTrack(guest, t) /\ ~HasTrack(merged, t)
    <3>1. TrackSide(guest, merged, c, t) = guest
      BY <2>5 DEF TrackSide, GroupTracks
    <3>2. QED BY <2>3, <2>5, <3>1 DEF Matches
  <2>6. CASE ~same /\ HasTrack(guest, t) /\ HasTrack(merged, t)
    <3>1. t \in GroupTracks(guest, merged)
      BY <2>6 DEF GroupTracks
    <3>2. TrackSide(guest, merged, c, t) = IF c.groupChoices[t] = "keep_guest" THEN guest ELSE merged
      BY <3>1 DEF TrackSide
    <3>3. QED BY <2>3, <2>6, <3>1, <3>2 DEF Matches
  <2>7. QED BY <2>4, <2>5, <2>6
<1>3. ASSUME MInv, NEW c \in Confirmations(guest, merged), Merge(c) PROVE VersionsFollow
  BY <1>3, VersionsMove DEF MInv, Merge, VersionsFollow
<1>4. MInv /\ [Next]_vars =>
        [\/ UNCHANGED vars
         \/ \E c \in Confirmations(guest, merged) : ItemsFromOneSide(c) /\ TracksFromOneSide(c)]_vars
  BY <1>1, <1>2 DEF Next
<1>5. MInv /\ [Next]_vars => [VersionsFollow]_vars
  BY <1>3 DEF Next
<1>6. QED BY <1>4, <1>5, MergeStart, MergeStep, PTL DEF Spec, MergeIsExact, OneSidePerUnit, VersionsTrackContent

-----------------------------------------------------------------------------
(* The parts together *)

LEMMA PartsStep ==
  [AdoptionNext]_adoptionVars =>
    /\ [Next]_vars /\ [SyncNext]_syncVars /\ [UploadNext]_uploadVars /\ [PurgeNext]_purgeVars
<1> SUFFICES ASSUME [AdoptionNext]_adoptionVars
             PROVE  /\ [Next]_vars /\ [SyncNext]_syncVars
                    /\ [UploadNext]_uploadVars /\ [PurgeNext]_purgeVars
  OBVIOUS
<1>1. CASE UNCHANGED adoptionVars
  BY <1>1 DEF adoptionVars
<1>2. CASE AdoptionNext
  BY <1>2 DEF AdoptionNext, Explore
<1>3. QED BY <1>1, <1>2

\* A behaviour of MCAdoption is one of the merge, of the synchronisation, of the
\* upload and of the purge, so that what was shown of one by itself holds of them
\* together.
THEOREM PartsAreApart == AdoptionSpec => Spec /\ SyncSpec /\ UploadSpec /\ PurgeSpec
<1>1. AdoptionInit => Init /\ SyncInit /\ UploadInit /\ PurgeInit
  BY DEF AdoptionInit
<1>2. QED
  BY <1>1, PartsStep, PTL DEF AdoptionSpec, Spec, SyncSpec, UploadSpec, PurgeSpec
=============================================================================
