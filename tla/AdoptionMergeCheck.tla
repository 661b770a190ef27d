-------------------------- MODULE AdoptionMergeCheck --------------------------
(***************************************************************************)
(* A guest device repeatedly merged into an account: every pair of         *)
(* snapshots the server accepts, every confirmation the preview allows.    *)
(***************************************************************************)
EXTENDS AdoptionMerge

CONSTANTS MaxMerges   \* bound on the number of merges in a behaviour

VARIABLES
  guest,      \* the guest snapshot, fixed
  merged,    \* the account's records
  merges      \* how many confirmations have been applied

vars == <<guest, merged, merges>>

\* Snapshots that pass assertGoalPlanBundles; stored records have version 1.
Snapshots ==
  {m \in [Keys -> (UNION {[val: ValsOf(k), ver: {1}] : k \in Keys}) \cup {None}] :
     /\ \A k \in Keys : Present(m, k) => m[k].val \in ValsOf(k)
     /\ BundlesOK(m)}

Init ==
  /\ guest \in Snapshots
  /\ merged \in Snapshots
  /\ merges = 0

\* buildGuestMergePreview rejects a bundle-invalid side before anything else.
Merge(c) ==
  /\ merges < MaxMerges
  /\ BundlesOK(guest) /\ BundlesOK(merged)
  /\ merged' = Materialize(guest, merged, c)
  /\ merges' = merges + 1
  /\ UNCHANGED guest

Next == \E c \in Confirmations(guest, merged) : Merge(c)

Spec == Init /\ [][Next]_vars

-----------------------------------------------------------------------------
TypeOK ==
  /\ \A k \in Keys : Present(merged, k) =>
        merged[k].val \in ValsOf(k) /\ merged[k].ver \in 1 .. MaxMerges + 1
  /\ merges \in 0 .. MaxMerges

\* No confirmation of a preview, however it mixes sides, leaves an account
\* whose plans do not fit their goals: the final assertGoalPlanBundles of the
\* materialization never rejects what validateGuestMergeConfirmation accepted.
MergedBundlesOK == BundlesOK(merged)

\* The side a unit (an item, or a whole track) must come from, stated without
\* the preview's upload/restore/conflict lists.
Side(g, r, held(_), same, choice) ==
  CASE same                   -> "account"
    [] ~held(g)               -> "account"
    [] held(g) /\ ~held(r)    -> "guest"
    [] OTHER                  -> IF choice = "keep_guest" THEN "guest" ELSE "account"

LiveVal(m, k) == IF Live(m, k) THEN m[k].val ELSE None

ItemsFromOneSide(c) ==
  \A k \in ItemKeys :
    LET held(m) == Present(m, k)
        side == Side(guest, merged, held, SameFingerprint(guest, merged, k),
                     IF k \in Conflicts(guest, merged) THEN c.resolutions[k] ELSE "none")
    IN  LiveVal(merged', k) = LiveVal(IF side = "guest" THEN guest ELSE merged, k)

TracksFromOneSide(c) ==
  \A t \in Tracks :
    LET held(m) == HasTrack(m, t)
        same == \A type \in GoalPlanTypes : SameFingerprint(guest, merged, Key(type, t))
        side == Side(guest, merged, held, same,
                     IF t \in GroupTracks(guest, merged) THEN c.groupChoices[t] ELSE "none")
    IN  \A type \in GoalPlanTypes :
          LiveVal(merged', Key(type, t)) =
            LiveVal(IF side = "guest" THEN guest ELSE merged, Key(type, t))

\* What a user sees after a merge is, unit by unit, exactly one side's content:
\* no track ever ends with one side's goal and the other side's plan, nothing
\* the guest alone holds is dropped, and an unchosen account record survives.
\* (That nothing changes comes first because TLC evaluates the disjuncts in order.)
OneSidePerUnit ==
  [][\/ UNCHANGED vars
     \/ \E c \in Confirmations(guest, merged) : ItemsFromOneSide(c) /\ TracksFromOneSide(c)]_vars

\* A merge never moves a record's version backwards, never drops a document,
\* and bumps the version exactly when it changes the content: the version is
\* what the next sync batch compares with expectedVersion.
VersionsFollow ==
  \A k \in Keys :
    /\ Present(merged, k) => Present(merged', k)
    /\ merged'[k] # merged[k] =>
         /\ ~SameFingerprint(merged, merged', k)
         /\ merged'[k].ver = NextVersion(merged, k)

VersionsTrackContent == [][VersionsFollow]_vars

\* A confirmed merge does what the preview showed and no more: unit by unit one
\* side's content, and versions that move exactly with it.
MergeIsExact == OneSidePerUnit /\ VersionsTrackContent
=============================================================================
