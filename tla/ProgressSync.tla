----------------------------- MODULE ProgressSync -----------------------------
(***************************************************************************)
(* The devices of one account and its progress: batches of mutations with  *)
(* their receipts (applyBatch), and reads page by page under a condition   *)
(* (readPage), while batches of other devices, adoptions of guest data in  *)
(* one step or by promotion, and Firestore's TTL on receipts go on.        *)
(*                                                                         *)
(* A promotion is seen from outside: it takes the lease and later puts the *)
(* merge of the records it started from in place.  That it does no more    *)
(* is what AdoptionPromotion shows.  The update time of the metadata is    *)
(* compared by its readers only, so each keeps whether it has moved.       *)
(***************************************************************************)
EXTENDS Naturals, FiniteSets

CONSTANTS Devices, Batches, Mutations,
          LastRecord,   \* records are 1 .. LastRecord, in the order of document ids
          Target,       \* the record each mutation writes
          Initial,      \* records there are at first
          SyncPage,     \* pageSize
          Nil,
          MaxSyncRev,   \* bound on accountRevision
          MaxSwaps      \* bound on promotions

Ids         == 1 .. LastRecord
Generations == 0 .. MaxSwaps
Writers     == Mutations \cup {"initial", "guest"}   \* of a record's content
Row         == [ver : Nat, val : Writers]
Stored      == [ver : Nat, val : Writers, last : Writers]   \* last: its lastMutationId

ASSUME SyncAssumption ==
  /\ LastRecord \in Nat /\ SyncPage \in Nat \ {0} /\ MaxSyncRev \in Nat /\ MaxSwaps \in Nat
  /\ Target \in [Mutations -> Ids] /\ Initial \subseteq Ids
  /\ Nil \notin Batches /\ Nil \notin Generations /\ Nil \notin Stored

VARIABLES
  account,    \* the user's authorization and progressMetadata/account
  record,     \* the records of each generation
  receipt,    \* syncMutations
  batch,      \* syncBatches: what was applied, and the revision it led to
  sent,       \* every request that was ever sent; it may arrive, again, at any time
  waits,      \* the batch a device waits for
  mirror,     \* what a device holds: scope and revision of the snapshot, records
  reader,     \* a device's read
  applied,    \* history: how often each mutation took effect
  lapsed      \* history: mutations whose receipt was collected

syncVars == <<account, record, receipt, batch, sent, waits, mirror, reader, applied, lapsed>>

\* What devices see of a record; its lastMutationId is for the server.
View(r) == [i \in Ids |-> IF r[i] = Nil THEN Nil ELSE [ver |-> r[i].ver, val |-> r[i].val]]
Records == record[account.generation]
Version(r, i) == IF r[i] = Nil THEN 0 ELSE r[i].ver   \* 0 stands for null

Waiting == [pc |-> "idle", gen |-> 0, rev |-> 0, from |-> 0, next |-> 0, same |-> TRUE,
            known |-> FALSE, got |-> [i \in Ids |-> Nil]]

SyncInit ==
  /\ account = [revision |-> 0, generation |-> 0, counter |-> 0,
                promoting |-> FALSE, leased |-> FALSE, source |-> <<0, 0>>]
  /\ record = [g \in Generations |-> [i \in Ids |->
                   IF g = 0 /\ i \in Initial THEN [ver |-> 1, val |-> "initial", last |-> "initial"]
                   ELSE Nil]]
  /\ receipt = {}
  /\ batch = [b \in Batches |-> Nil]
  /\ sent = [b \in Batches |-> Nil]
  /\ waits = [d \in Devices |-> Nil]
  /\ mirror = [d \in Devices |-> [scope |-> Nil, revision |-> 0, rows |-> [i \in Ids |-> Nil]]]
  /\ reader = [d \in Devices |-> Waiting]
  /\ applied = [m \in Mutations |-> 0]
  /\ lapsed = {}

\* A write to the metadata: its update time moves under every read.
Metadata(a) ==
  /\ account' = a
  /\ reader' = [d \in Devices |-> [reader[d] EXCEPT !.same = FALSE]]

-----------------------------------------------------------------------------
(* applyBatch *)

\* A device sends what it wants written, against the versions it knows.
SendBatch(d, b, ms) ==
  /\ mirror[d].scope # Nil /\ waits[d] = Nil /\ reader[d].pc = "idle" /\ sent[b] = Nil
  /\ \A m, n \in ms : m # n => Target[m] # Target[n]
  /\ sent' = [sent EXCEPT ![b] =
       [by |-> d, revision |-> mirror[d].revision,
        versions |-> [m \in ms |-> Version(mirror[d].rows, Target[m])]]]
  /\ waits' = [waits EXCEPT ![d] = b]
  /\ UNCHANGED <<account, record, receipt, batch, mirror, reader, applied, lapsed>>

\* A device gives up, the request or the answer may be lost; it may send the same mutations in another batch.
GiveUp(d) ==
  /\ waits[d] # Nil
  /\ waits' = [waits EXCEPT ![d] = Nil]
  /\ UNCHANGED <<account, record, receipt, batch, sent, mirror, reader, applied, lapsed>>

\* A mutation that was applied before.  A slip: only the record tells.
Witness(m)       == Records[Target[m]] # Nil /\ Records[Target[m]].last = m
Seen_ByRecord(m) == Witness(m)
Seen(m)          == m \in receipt \/ Witness(m)

Asked(b)   == DOMAIN sent[b].versions
Fresh(b)   == {m \in Asked(b) : ~Seen(m)}
Arrives(b) == sent[b] # Nil /\ ~account.leased

\* The answer reaches the device, if it still waits.
Answered(b) ==
  LET d == sent[b].by
  IN  waits' = IF waits[d] = b THEN [waits EXCEPT ![d] = Nil] ELSE waits

\* The batch was applied before: its stored result is returned, without a scope.
ReplayBatch(b) ==
  /\ Arrives(b) /\ batch[b] # Nil
  /\ Answered(b)
  /\ UNCHANGED <<account, record, receipt, batch, sent, mirror, reader, applied, lapsed>>

\* account_revision_conflict, version_conflict: nothing is stored.
RefuseBatch(b) ==
  /\ Arrives(b) /\ batch[b] = Nil /\ Fresh(b) # {}
  /\ \/ sent[b].revision # account.revision
     \/ \E m \in Fresh(b) : Version(Records, Target[m]) # sent[b].versions[m]
  /\ Answered(b)
  /\ UNCHANGED <<account, record, receipt, batch, sent, mirror, reader, applied, lapsed>>

\* snapshotScope: only fresh writes prove what a device holds now.
ApplyBatch(b) ==
  LET new  == Fresh(b)
      by(i) == CHOOSE m \in new : Target[m] = i
      rows == [i \in Ids |-> IF \E m \in new : Target[m] = i
                 THEN [ver |-> Version(Records, i) + 1, val |-> by(i), last |-> by(i)]
                 ELSE Records[i]]
      revision == account.revision + Cardinality(new)
      d     == sent[b].by
      scope == new # {} /\ new = Asked(b)
  IN  /\ Arrives(b) /\ batch[b] = Nil /\ revision <= MaxSyncRev
      /\ new # {} => sent[b].revision = account.revision
      /\ \A m \in new : Version(Records, Target[m]) = sent[b].versions[m]
      /\ record' = [record EXCEPT ![account.generation] = rows]
      /\ IF new = {} THEN UNCHANGED <<account, reader>>
         ELSE Metadata([account EXCEPT !.revision = revision])
      /\ receipt' = receipt \cup new
      /\ batch' = [batch EXCEPT ![b] = revision]
      /\ applied' = [m \in Mutations |-> IF m \in new THEN applied[m] + 1 ELSE applied[m]]
      /\ Answered(b)
      \* A device that still holds what it wrote against holds the result.
      /\ mirror' = IF waits[d] = b /\ scope /\ mirror[d].revision = sent[b].revision
                   THEN [mirror EXCEPT ![d] =
                           [scope |-> account.generation, revision |-> revision,
                            rows  |-> [i \in Ids |-> IF \E m \in new : Target[m] = i
                                         THEN View(rows)[i] ELSE mirror[d].rows[i]]]]
                   ELSE mirror
      /\ UNCHANGED <<sent, lapsed>>

-----------------------------------------------------------------------------
(* Other writers *)

\* confirmAdoption: a guest's records, in one transaction; the lease is not read.
AdoptInOneStep(ks) ==
  /\ ks # {} /\ account.revision + Cardinality(ks) <= MaxSyncRev
  /\ record' = [record EXCEPT ![account.generation] = [i \in Ids |-> IF i \in ks
                  THEN [ver |-> Version(Records, i) + 1, val |-> "guest", last |-> "guest"]
                  ELSE @[i]]]
  /\ Metadata([account EXCEPT !.revision = @ + Cardinality(ks)])
  /\ UNCHANGED <<receipt, batch, sent, waits, mirror, applied, lapsed>>

BeginPromotion ==
  /\ ~account.leased /\ account.counter < MaxSwaps
  /\ Metadata([account EXCEPT !.promoting = TRUE, !.leased = TRUE,
                              !.counter = @ + 1,
                              !.source = <<account.generation, account.revision>>])
  /\ UNCHANGED <<record, receipt, batch, sent, waits, mirror, applied, lapsed>>

PromotionLeaseEnds ==
  /\ account.leased
  /\ account' = [account EXCEPT !.leased = FALSE]   \* by the clock: nothing is written
  /\ UNCHANGED <<record, receipt, batch, sent, waits, mirror, reader, applied, lapsed>>

\* The confirmation is repeated, at the revision it started from.
RenewPromotionLease ==
  /\ account.promoting
  /\ account.source = <<account.generation, account.revision>>
  /\ Metadata([account EXCEPT !.leased = TRUE])
  /\ UNCHANGED <<record, receipt, batch, sent, waits, mirror, applied, lapsed>>

\* Every staged record carries the adoption's mutation id, written or not.
CompletePromotion(ks) ==
  /\ account.leased
  /\ account.source = <<account.generation, account.revision>>
  /\ account.revision + Cardinality(ks) <= MaxSyncRev
  /\ record' = [record EXCEPT ![account.counter] = [i \in Ids |->
                  CASE i \in ks -> [ver |-> Version(Records, i) + 1, val |-> "guest", last |-> "guest"]
                    [] i \notin ks /\ Records[i] # Nil -> [Records[i] EXCEPT !.last = "guest"]
                    [] OTHER -> Nil]]
  /\ Metadata([account EXCEPT !.generation = account.counter, !.promoting = FALSE, !.leased = FALSE,
                              !.source = <<0, 0>>,
                              !.revision = @ + Cardinality(ks)])
  /\ UNCHANGED <<receipt, batch, sent, waits, mirror, applied, lapsed>>

\* The receipts expire thirty days after they were written, each by itself.
CollectReceipt(m) ==
  /\ m \in receipt
  /\ receipt' = receipt \ {m}
  /\ lapsed' = lapsed \cup {m}
  /\ UNCHANGED <<account, record, batch, sent, waits, mirror, reader, applied>>

CollectBatch(b) ==
  /\ batch[b] # Nil
  /\ batch' = [batch EXCEPT ![b] = Nil]
  /\ UNCHANGED <<account, record, receipt, sent, waits, mirror, reader, applied, lapsed>>

-----------------------------------------------------------------------------
(* readPage *)

Read(d, r) == reader' = [reader EXCEPT ![d] = r]
ReadOnly   == UNCHANGED <<account, record, receipt, batch, sent, waits, applied, lapsed>>

\* The first read of the metadata.  A device that holds a snapshot may ask
\* whether it is still that.
OpenRead(d, asks) ==
  LET known == /\ asks
               /\ mirror[d].scope = account.generation /\ mirror[d].revision = account.revision
  IN  /\ reader[d].pc = "idle" /\ waits[d] = Nil
      /\ ~account.leased
      /\ Read(d, [Waiting EXCEPT !.pc = IF known THEN "queried" ELSE "read", !.known = known,
                    !.gen = account.generation, !.rev = account.revision])
      /\ ReadOnly /\ UNCHANGED mirror

\* The next page: its token names the user, the generation and the revision.
\* A slip: the revision is not compared.
TokenCurrent_Generation(d) == reader[d].gen = account.generation
TokenCurrent(d)            == reader[d].gen = account.generation /\ reader[d].rev = account.revision

NextPage(d) ==
  /\ reader[d].pc = "more"
  /\ Read(d, IF ~account.leased /\ TokenCurrent(d)
             THEN [reader[d] EXCEPT !.pc = "read", !.from = reader[d].next, !.same = TRUE,
                                    !.rev = account.revision]
             ELSE Waiting)
  /\ ReadOnly /\ UNCHANGED mirror

\* The records, up to the first of the next page; at a moment of its own.
QueryPage(d) ==
  LET rows  == record[reader[d].gen]
      there == {i \in Ids : i >= reader[d].from /\ rows[i] # Nil}
      page  == {i \in there : Cardinality({j \in there : j < i}) < SyncPage}
      rest  == there \ page
  IN  /\ reader[d].pc = "read"
      /\ Read(d, IF reader[d].from # 0 /\ reader[d].from \notin there THEN Waiting
                 ELSE [reader[d] EXCEPT !.pc = "queried",
                         !.next = IF rest = {} THEN 0 ELSE CHOOSE i \in rest : \A j \in rest : i <= j,
                         !.got = [i \in Ids |-> IF i \in page THEN View(rows)[i] ELSE @[i]]])
      /\ ReadOnly /\ UNCHANGED mirror

\* The second read of the metadata.  A slip: it is not made.
StillCurrent_Unread(d) == TRUE
StillCurrent(d) ==
  /\ ~account.leased /\ reader[d].same
  /\ reader[d].gen = account.generation /\ reader[d].rev = account.revision

ClosePage(d) ==
  /\ reader[d].pc = "queried"
  /\ CASE ~StillCurrent(d) -> Read(d, Waiting) /\ UNCHANGED mirror
       [] StillCurrent(d) /\ reader[d].known ->
            Read(d, [Waiting EXCEPT !.pc = "unchanged"]) /\ UNCHANGED mirror
       [] StillCurrent(d) /\ ~reader[d].known /\ reader[d].next # 0 ->
            Read(d, [reader[d] EXCEPT !.pc = "more"]) /\ UNCHANGED mirror
       [] OTHER ->
            /\ Read(d, Waiting)
            /\ mirror' = [mirror EXCEPT ![d] = [scope |-> reader[d].gen, revision |-> reader[d].rev,
                                                rows |-> reader[d].got]]
  /\ ReadOnly

\* The device takes the answer, or drops its read.
LeaveRead(d) ==
  /\ reader[d].pc # "idle"
  /\ Read(d, Waiting)
  /\ ReadOnly /\ UNCHANGED mirror

SyncNext ==
  \/ \E d \in Devices, b \in Batches, ms \in SUBSET Mutations \ {{}} : SendBatch(d, b, ms)
  \/ \E b \in Batches : ReplayBatch(b) \/ RefuseBatch(b) \/ ApplyBatch(b) \/ CollectBatch(b)
  \/ \E ks \in SUBSET Ids : AdoptInOneStep(ks) \/ CompletePromotion(ks)
  \/ BeginPromotion \/ PromotionLeaseEnds \/ RenewPromotionLease
  \/ \E m \in Mutations : CollectReceipt(m)
  \/ \E d \in Devices : \/ GiveUp(d) \/ OpenRead(d, TRUE) \/ OpenRead(d, FALSE)
                        \/ NextPage(d) \/ QueryPage(d) \/ ClosePage(d) \/ LeaveRead(d)

SyncSpec == SyncInit /\ [][SyncNext]_syncVars

-----------------------------------------------------------------------------
(* Correctness *)

\* Every part is well formed.
SyncTypeOK ==
  /\ account.revision \in 0 .. MaxSyncRev /\ account.generation \in Generations
  /\ account.leased => account.promoting
  /\ \A g \in Generations, i \in Ids : record[g][i] # Nil => View(record[g])[i] \in Row
  /\ receipt \subseteq Mutations /\ lapsed \subseteq Mutations
  /\ batch \in [Batches -> (0 .. MaxSyncRev) \cup {Nil}]
  /\ waits \in [Devices -> Batches \cup {Nil}]
  /\ \A d \in Devices : mirror[d].rows \in [Ids -> Row \cup {Nil}]
  /\ \A d \in Devices : reader[d].pc \in {"idle", "read", "queried", "more", "unchanged"}
  /\ applied \in [Mutations -> Nat]

\* However often a mutation is sent, in whichever batches and against whichever
\* versions, it takes effect once, as long as its receipt is kept.
AppliedOnce == \A m \in Mutations : applied[m] > 1 => m \in lapsed

\* What a device is given is the account as it is at that moment, whole:
\* the pages of a read belong together, a batch brings it from the snapshot it
\* was written against to the next, and one that is told that nothing changed
\* holds what there is.
SnapshotsAreTrue ==
  [][\A d \in Devices :
       (mirror'[d] # mirror[d] \/ (reader[d].pc # "unchanged" /\ reader'[d].pc = "unchanged"))
       => mirror'[d] = [scope    |-> account'.generation,
                        revision |-> account'.revision,
                        rows     |-> View(record'[account'.generation])]]_syncVars

\* Both: well-formed documents, in which no mutation counts twice.
MutationsHold == SyncTypeOK /\ AppliedOnce
=============================================================================
