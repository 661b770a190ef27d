---------------------------- MODULE MCAdoption ------------------------------
(***************************************************************************)
(* An account's progress besides the promotion: the merge the promotion    *)
(* computes (MCAdoptionMerge), the batches and page reads of               *)
(* synchronisation, the upload that comes before a promotion, and the job  *)
(* that purges what adoptions leave behind.  No part's properties speak of *)
(* another's variables, so each is explored by itself: `part' says whose   *)
(* behaviour it is, and the others stand still in an initial state.        *)
(***************************************************************************)
EXTENDS MCAdoptionMerge, ProgressSync, AdoptionUpload, RetentionPurge, TLC

CONSTANTS w1, w2, s1, s2, m1, m2, k1, k2

VARIABLE part   \* the part this behaviour is of

adoptionVars ==
  <<vars, syncVars, uploadVars, purgeVars, part>>

MCSymmetry == Permutations({w1, w2}) \cup Permutations({s1, s2})

MCTarget == (m1 :> 1) @@ (m2 :> 2)

MCUntil == [r \in 1 .. LastFiled |-> r]

Chunk(id, i, ks) == [chunkId |-> id, index |-> i, recordKeys |-> ks]

MCChunks == {Chunk("A", 0, {k1}), Chunk("A", 0, {k2}), Chunk("B", 1, {k2}), Chunk("B", 2, {k2})}

MCClaims == {{Chunk("A", 0, {k1})}, {Chunk("A", 0, {k1}), Chunk("B", 1, {k2})}}

-----------------------------------------------------------------------------
NoRecords == [k \in Keys |-> None]

AdoptionInit ==
  /\ part \in {"merge", "sync", "upload", "purge"}
  /\ Init /\ (part # "merge" => guest = NoRecords /\ merged = NoRecords)
  /\ SyncInit /\ UploadInit /\ PurgeInit

Explore(x) ==
  /\ part = x
  /\ UNCHANGED part
  /\ x # "merge"  => UNCHANGED vars
  /\ x # "sync"   => UNCHANGED syncVars
  /\ x # "upload" => UNCHANGED uploadVars
  /\ x # "purge"  => UNCHANGED purgeVars

AdoptionNext ==
  \/ Explore("merge") /\ Next
  \/ Explore("sync") /\ SyncNext
  \/ Explore("upload") /\ UploadNext
  \/ Explore("purge") /\ PurgeNext

AdoptionSpec == AdoptionInit /\ [][AdoptionNext]_adoptionVars
=============================================================================
