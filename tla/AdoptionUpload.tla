---------------------------- MODULE AdoptionUpload ----------------------------
(***************************************************************************)
(* The first half of an adoption transfer: a session is started under an   *)
(* idempotency key, the guest's snapshot arrives in chunks, and a seal     *)
(* checks in several reads that what is stored is what the device says it  *)
(* sent.  AdoptionPromotion goes on from the sealed session.               *)
(*                                                                         *)
(* Requests are repeated, overtake one another, and may stop after any     *)
(* transaction.  A chunk is its id, index and record keys; fingerprints    *)
(* are what they are of; all a session stores lives as long as it does.    *)
(***************************************************************************)
EXTENDS Naturals, FiniteSets

CONSTANTS Transfers, RequestKeys,   \* session ids, idempotency keys
          Chunks,            \* the chunks devices may send: [chunkId, index, recordKeys]
          Claims,            \* the sets of chunks a seal may be asked for
          Sealers,           \* seal requests being served
          MaxRecords         \* ADOPTION_TRANSFER_MAX_RECORDS

ASSUME UploadAssumption ==
  /\ \A c \in Chunks : {"chunkId", "index", "recordKeys"} = DOMAIN c /\ c.index \in Nat /\ IsFiniteSet(c.recordKeys)
  /\ Claims \subseteq SUBSET Chunks
  /\ MaxRecords \in Nat

VARIABLES
  transfer,    \* adoptionTransfers/{id}
  chunks,      \* its chunks
  rows,        \* keys of its records
  issued,      \* adoptionTransferIdempotency/{key}: the session, or "none"
  generation, counter,   \* progressMetadata: activeGeneration, adoptionGenerationCounter
  accepting,   \* the account is active, at the generation its requests carry
  sealer       \* the seal requests

uploadVars == <<transfer, chunks, rows, issued, generation, counter, accepting, sealer>>

NoTransfer == [state |-> "none", key |-> "none", expected |-> 0, target |-> 0, recordCount |-> 0, chunkCount |-> 0, seal |-> {}]
NoSealer   == [pc |-> "idle", session |-> "none", claim |-> {}, records |-> 0, counted |-> 0, read |-> {}]

UploadInit ==
  /\ transfer = [s \in Transfers |-> NoTransfer]
  /\ chunks = [s \in Transfers |-> {}] /\ rows = [s \in Transfers |-> {}]
  /\ issued = [k \in RequestKeys |-> "none"]
  /\ generation = 0 /\ counter = 0 /\ accepting = TRUE
  /\ sealer = [w \in Sealers |-> NoSealer]

Sealed(s) == transfer[s].state \in {"sealed", "complete"}

\* The deletion advances the generation: whatever transaction comes after is refused.
DeletionBegins ==
  /\ accepting' = FALSE
  /\ UNCHANGED <<transfer, chunks, rows, issued, generation, counter, sealer>>

\* startAdoptionTransfer, of a session that is there: only its idempotency document may be missing.
StartAgain(s, k) ==
  /\ accepting /\ transfer[s].state # "none" /\ transfer[s].key = k /\ issued[k] = "none"
  /\ issued' = [issued EXCEPT ![k] = s]
  /\ UNCHANGED <<transfer, chunks, rows, generation, counter, accepting, sealer>>

\* The document is removed by TTL apart from its session.
CollectKey(k) ==
  /\ issued[k] # "none"
  /\ issued' = [issued EXCEPT ![k] = "none"]
  /\ UNCHANGED <<transfer, chunks, rows, generation, counter, accepting, sealer>>

NextTarget_Generation == generation + 1   \* slip: the counter is not read
NextTarget == (IF counter > generation THEN counter ELSE generation) + 1

\* createAdoptionTransfer
NewTransfer(k) == [NoTransfer EXCEPT !.state = "collecting", !.key = k, !.expected = generation, !.target = NextTarget]

StartTransfer(s, k) ==
  /\ accepting /\ transfer[s].state = "none" /\ issued[k] = "none"
  /\ transfer' = [transfer EXCEPT ![s] = NewTransfer(k)]
  /\ issued' = [issued EXCEPT ![k] = s]
  /\ counter' = NextTarget
  /\ UNCHANGED <<chunks, rows, generation, accepting, sealer>>

\* slip: a session being sealed still takes chunks
Takes_Sealing(s) == transfer[s].state \in {"collecting", "sealing"}
Takes(s)         == transfer[s].state = "collecting"

\* A chunk of a known id changes nothing, or is refused when it is another.
NewChunk(s, c) == \A d \in chunks[s] : d.chunkId # c.chunkId

\* A record is of one chunk only, and there are not too many.
NewRecords(s, c) == /\ transfer[s].recordCount + Cardinality(c.recordKeys) <= MaxRecords
                    /\ c.recordKeys \cap rows[s] = {}

Upload(s, c) ==
  /\ accepting /\ Takes(s) /\ NewChunk(s, c) /\ NewRecords(s, c)
  /\ chunks' = [chunks EXCEPT ![s] = @ \cup {c}]
  /\ rows' = [rows EXCEPT ![s] = @ \cup c.recordKeys]
  /\ transfer' = [transfer EXCEPT ![s].recordCount = @ + Cardinality(c.recordKeys), ![s].chunkCount = @ + 1]
  /\ UNCHANGED <<issued, generation, counter, accepting, sealer>>

-----------------------------------------------------------------------------
(* sealAdoptionTransfer *)

Set(w, new) == sealer' = [sealer EXCEPT ![w] = new]

\* A seal repeated after it was done is answered, or refused, without a change.
SealBegin(w, s, claim) ==
  /\ sealer[w].pc = "idle" /\ accepting
  /\ transfer[s].state \in {"collecting", "sealing"}
  /\ transfer' = [transfer EXCEPT ![s].state = "sealing"]
  /\ Set(w, [NoSealer EXCEPT !.pc = "counts", !.session = s, !.claim = claim])
  /\ UNCHANGED <<chunks, rows, issued, generation, counter, accepting>>

SealReads(w) ==
  /\ LET s == sealer[w].session
     IN \/ /\ sealer[w].pc = "counts"
           /\ Set(w, [sealer[w] EXCEPT !.pc = "records", !.records = transfer[s].recordCount, !.counted = transfer[s].chunkCount])
        \/ /\ sealer[w].pc = "records"
           /\ Set(w, IF Cardinality(rows[s]) = sealer[w].records THEN [sealer[w] EXCEPT !.pc = "chunks"] ELSE NoSealer)
        \/ /\ sealer[w].pc = "chunks"
           /\ Set(w, [sealer[w] EXCEPT !.pc = "check", !.read = chunks[s]])
  /\ UNCHANGED <<transfer, chunks, rows, issued, generation, counter, accepting>>

InSequence(cs)  == {c.index : c \in cs} = {i \in 0 .. Cardinality(cs) : i < Cardinality(cs)}
Apart(cs)       == \A c, d \in cs : c # d => c.recordKeys \cap d.recordKeys = {}
KeysOf(cs)      == UNION {c.recordKeys : c \in cs}

\* createAdoptionSnapshotSeal: of every chunk and every record.
SealMatches(cs, claim) == cs = claim

\* What was read is whole, in sequence, and what the device's fingerprint is of.
SealCheck(w) ==
  /\ sealer[w].pc = "check"
  /\ LET x == sealer[w]
     IN Set(w, IF /\ Cardinality(x.read) = x.counted /\ Cardinality(KeysOf(x.read)) = x.records
                  /\ InSequence(x.read) /\ Apart(x.read) /\ SealMatches(x.read, x.claim)
               THEN [x EXCEPT !.pc = "commit"] ELSE NoSealer)
  /\ UNCHANGED <<transfer, chunks, rows, issued, generation, counter, accepting>>

SealCommit(w) ==
  /\ sealer[w].pc = "commit"
  /\ LET s == sealer[w].session
     IN transfer' = IF accepting /\ transfer[s].state = "sealing"
                      THEN [transfer EXCEPT ![s].state = "sealed", ![s].seal = sealer[w].claim,
                                            ![s].recordCount = sealer[w].records, ![s].chunkCount = sealer[w].counted]
                      ELSE transfer
  /\ Set(w, NoSealer)
  /\ UNCHANGED <<chunks, rows, issued, generation, counter, accepting>>

SealStops(w) ==
  /\ sealer[w].pc # "idle"
  /\ Set(w, NoSealer)
  /\ UNCHANGED <<transfer, chunks, rows, issued, generation, counter, accepting>>

\* AdoptionPromotion: the session's generation becomes the active one, whichever was
\* active when the session began; that may be a later one.
Promote(s) ==
  /\ accepting /\ transfer[s].state = "sealed"
  /\ transfer' = [transfer EXCEPT ![s].state = "complete"]
  /\ generation' = transfer[s].target
  /\ UNCHANGED <<chunks, rows, issued, counter, accepting, sealer>>

UploadNext ==
  \/ DeletionBegins
  \/ \E s \in Transfers, k \in RequestKeys : StartTransfer(s, k) \/ StartAgain(s, k)
  \/ \E k \in RequestKeys : CollectKey(k)
  \/ \E s \in Transfers : Promote(s) \/ \E c \in Chunks : Upload(s, c)
  \/ \E w \in Sealers : \/ \E s \in Transfers, c \in Claims : SealBegin(w, s, c)
                        \/ SealReads(w) \/ SealCheck(w) \/ SealCommit(w) \/ SealStops(w)

UploadSpec == UploadInit /\ [][UploadNext]_uploadVars

-----------------------------------------------------------------------------
(* A sealed session is whole and stays so: its chunks are those the device *)
(* sealed, in sequence, every record in exactly one of them, the counts    *)
(* right, although seal and uploads overtake one another.  And no two      *)
(* sessions are given one generation to build, whichever is promoted       *)
(* between their starts.                                                   *)
SealedIsWhole ==
  /\ \A s \in Transfers : Sealed(s) =>
       /\ chunks[s] = transfer[s].seal /\ rows[s] = KeysOf(chunks[s])
       /\ InSequence(chunks[s]) /\ Apart(chunks[s])
       /\ transfer[s].chunkCount = Cardinality(chunks[s]) /\ transfer[s].recordCount = Cardinality(rows[s])
  /\ \A s, t \in Transfers : s # t /\ transfer[s].target = transfer[t].target => transfer[s].state = "none"
  /\ \A s \in Transfers : transfer[s].state = "collecting" => transfer[s].target > transfer[s].expected
=============================================================================
