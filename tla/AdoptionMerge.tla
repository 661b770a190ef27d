---------------------------- MODULE AdoptionMerge ----------------------------
(***************************************************************************)
(* The pure merge of a guest snapshot into an account snapshot             *)
(* (src/modules/users/merge.ts and buildAdoptionMaterialization in         *)
(* src/modules/progress/store.ts).                                         *)
(*                                                                         *)
(* A snapshot maps every record key to a record [val, ver] or to None.  A  *)
(* record's fingerprint is a hash of its key and state, not of its         *)
(* version, so two records of one key have the same fingerprint exactly    *)
(* when their vals are equal.                                              *)
(***************************************************************************)
EXTENDS Integers, FiniteSets

CONSTANTS
  Items,      \* ids of the records that merge on their own
  Tracks,     \* learning tracks: each may hold a goal and a learning plan
  ItemVals,   \* states of an item record
  GoalVals,   \* live goal states: [revision, target]
  PlanVals,   \* live plan states: [schemaVersion, goalRevision, target]
  Tombstone,  \* the state {deleted: true}
  None        \* no document

Key(type, id) == [type |-> type, id |-> id]
GoalPlanTypes == {"goal", "learning_plan"}
ItemKeys      == {Key("item", i) : i \in Items}
GoalPlanKeys  == {Key(p[1], p[2]) : p \in GoalPlanTypes \X Tracks}
Keys          == ItemKeys \cup GoalPlanKeys

\* The states a key may hold; a tombstone is legal for every type.
ValsOf(k) == {Tombstone} \cup
  CASE k.type = "item"          -> ItemVals
    [] k.type = "goal"          -> GoalVals
    [] k.type = "learning_plan" -> PlanVals

Record   == [val: UNION {ValsOf(k) : k \in Keys}, ver: Nat]
Snapshot == [Keys -> Record \cup {None}]

ASSUME FiniteAssumption == IsFiniteSet(Items) /\ IsFiniteSet(Tracks)
ASSUME NoneAssumption == None \notin Record

Present(m, k) == m[k] # None
Live(m, k)    == Present(m, k) /\ m[k].val # Tombstone

\* `left?.fingerprint === right?.fingerprint`: equal also when both are absent.
SameFingerprint(m, n, k) ==
  /\ Present(m, k) = Present(n, k)
  /\ Present(m, k) => m[k].val = n[k].val

-----------------------------------------------------------------------------
(* assertGoalPlanBundles: a live plan needs a live goal that it fits. *)

PlanFits(goal, plan) ==
  /\ plan.goalRevision <= goal.revision
  /\ plan.schemaVersion = 2 =>
        plan.goalRevision = goal.revision /\ plan.target = goal.target

BundleOK(m, t) ==
  LET goal == Key("goal", t)
      plan == Key("learning_plan", t)
  IN  Live(m, plan) => Live(m, goal) /\ PlanFits(m[goal].val, m[plan].val)

BundlesOK(m) == \A t \in Tracks : BundleOK(m, t)

-----------------------------------------------------------------------------
(* buildGuestMergePreview: g is the guest snapshot, r the account's. *)

HasTrack(m, t) == \E type \in GoalPlanTypes : Present(m, Key(type, t))

\* A track that both sides hold, and hold differently, is decided as one group.
GroupTracks_None(g, r) == {}
GroupTracks(g, r) ==
  {t \in Tracks : /\ HasTrack(g, t)
                  /\ HasTrack(r, t)
                  /\ \E type \in GoalPlanTypes : ~SameFingerprint(g, r, Key(type, t))}

Grouped(g, r)   == {k \in GoalPlanKeys : k.id \in GroupTracks(g, r)}
Ungrouped(g, r) == Keys \ Grouped(g, r)

Uploads(g, r)   == {k \in Ungrouped(g, r) : Present(g, k) /\ ~Present(r, k)}
Restores(g, r)  == {k \in Ungrouped(g, r) : Present(r, k) /\ ~Present(g, k)}
Conflicts(g, r) == {k \in Ungrouped(g, r) : /\ Present(g, k)
                                            /\ Present(r, k)
                                            /\ ~SameFingerprint(g, r, k)}

\* The confirmations validateGuestMergeConfirmation lets through: one decided
\* resolution per conflict and one choice per group, and nothing else.
Choice == {"keep_guest", "keep_account"}
Confirmations(g, r) ==
  [resolutions: [Conflicts(g, r) -> Choice], groupChoices: [GroupTracks(g, r) -> Choice]]

-----------------------------------------------------------------------------
(* buildAdoptionMaterialization: what the account holds afterwards. *)

GroupWrites_LiveOnly(g, r, c) ==
  {k \in Grouped(g, r) :
     c.groupChoices[k.id] = "keep_guest" /\ Live(g, k) /\ ~SameFingerprint(g, r, k)}
GroupWrites_Always(g, r, c) ==
  {k \in Grouped(g, r) : c.groupChoices[k.id] = "keep_guest" /\ (Live(g, k) \/ Live(r, k))}
\* A kept guest group replaces the account's group: a record the guest does
\* not hold live is tombstoned.
GroupWrites(g, r, c) ==
  {k \in Grouped(g, r) :
     /\ c.groupChoices[k.id] = "keep_guest"
     /\ IF Live(g, k) THEN ~SameFingerprint(g, r, k) ELSE Live(r, k)}

RecordWrites(g, r, c) ==
  Uploads(g, r) \cup {k \in Conflicts(g, r) : c.resolutions[k] = "keep_guest"}

\* The keys that `queue` and `queueWrite` change.
Writes(g, r, c) == GroupWrites(g, r, c) \cup RecordWrites(g, r, c)

NextVersion(r, k) == IF Present(r, k) THEN r[k].ver + 1 ELSE 1

WrittenVal(g, r, k) ==
  IF k \in Grouped(g, r) /\ ~Live(g, k) THEN Tombstone ELSE g[k].val

Materialize(g, r, c) ==
  [k \in Keys |->
     IF k \in Writes(g, r, c)
       THEN [val |-> WrittenVal(g, r, k), ver |-> NextVersion(r, k)]
       ELSE r[k]]
=============================================================================
