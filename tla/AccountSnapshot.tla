--------------------------- MODULE AccountSnapshot ---------------------------
(***************************************************************************)
(* What the progress store promises about one account, with no staging,    *)
(* no lease and no handler: an account is one snapshot of records under a  *)
(* (generation, revision) pair, and it changes in two ways only.           *)
(*                                                                         *)
(*  - Write: some records are overwritten, each moves one version up, and  *)
(*    the revision moves by the number of records written.                 *)
(*  - Adopt: a guest snapshot is merged, as a whole and at once, into      *)
(*    exactly the records the account holds at that moment.                *)
(***************************************************************************)
EXTENDS AdoptionMerge

CONSTANTS GuestSnapshots   \* the guest snapshots devices may bring

VARIABLES
  gen,    \* the account generation
  gens,   \* every generation that has been the account's
  rev,    \* the account revision
  recs    \* the records of the active generation

vars == <<gen, gens, rev, recs>>

TypeOK ==
  /\ gen \in Nat /\ gen \in gens
  /\ rev \in Nat
  /\ DOMAIN recs = Keys

Init ==
  /\ gen = 0 /\ gens = {0}
  /\ rev \in Nat
  /\ DOMAIN recs = Keys

Write ==
  \E ks \in (SUBSET Keys) \ {{}} :
    /\ DOMAIN recs' = Keys
    /\ \A k \in Keys : IF k \in ks
                         THEN /\ recs'[k] # None
                              /\ recs'[k].ver = NextVersion(recs, k)
                         ELSE recs'[k] = recs[k]
    /\ rev' = rev + Cardinality(ks)
    /\ UNCHANGED <<gen, gens>>

Adopt ==
  \E g \in GuestSnapshots : \E c \in Confirmations(g, recs) :
    /\ recs' = Materialize(g, recs, c)
    /\ rev' = rev + Cardinality(Writes(g, recs, c))
    /\ gen' = gen \/ gen' \in Nat \ gens
    /\ gens' = gens \cup {gen'}

Next == Write \/ Adopt

Spec == Init /\ [][Next]_vars

-----------------------------------------------------------------------------
\* A (generation, revision) pair never stands for two different sets of
\* records: within a generation the revision grows with every change, and a
\* generation that was left is never entered again.  This is what makes the
\* pair a sound page token and cache validator (readPage compares the pair,
\* never the records).
PairNamesRecords ==
  [][/\ gen' = gen => rev' >= rev /\ (recs' # recs => rev' > rev)
     /\ gen' # gen => gen' \notin gens
     /\ gen \in gens' /\ gens \subseteq gens']_vars
=============================================================================
