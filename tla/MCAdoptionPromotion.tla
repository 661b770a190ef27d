------------------------- MODULE MCAdoptionPromotion -------------------------
EXTENDS AdoptionPromotion, TLC

CONSTANTS i1, i2, t1, s1, s2, w1, w2, va, vb

Rec(v)     == [val |-> v, ver |-> 1]
Snap(f)    == [k \in Keys |-> IF k \in DOMAIN f THEN Rec(f[k]) ELSE None]
I1 == Key("item", i1)
I2 == Key("item", i2)

MCNoVals   == {}
MCItemVals == {va, vb}

\* Two plain records.  The account holds the first; the guest holds both, and
\* the first differently.
MCItems2   == {i1, i2}
MCRank2    == [k \in Keys |-> IF k.id = i1 THEN 1 ELSE 2]
MCInitial2 == Snap([k \in {I1} |-> va])
MCGuests2  == {Snap([k \in {I1, I2} |-> vb])}
MCSync2    == [k \in Keys |-> IF k = I1 THEN {va} ELSE {}]

\* One record that both sides hold differently, for two transfer sessions.
MCItems1   == {i1}
MCRank1    == [k \in Keys |-> 1]
MCInitial0 == Snap(<<>>)
MCInitial1 == Snap([k \in {I1} |-> va])
MCGuests1  == {Snap([k \in {I1} |-> vb])}
MCSync1    == [k \in Keys |-> {va}]
MCNoSync   == [k \in Keys |-> {}]

\* One track: the account holds a goal and its plan, the guest a newer pair, or
\* a goal without a plan, or a deleted pair.
MCTracks1   == {t1}
MCGoalVals  == [revision: {1, 2}, target: {"x"}]
MCPlanVals  == [schemaVersion: {2}, goalRevision: {1, 2}, target: {"x"}]
Goal(n)     == [revision |-> n, target |-> "x"]
Plan(n)     == [schemaVersion |-> 2, goalRevision |-> n, target |-> "x"]
GoalT       == Key("goal", t1)
PlanT       == Key("learning_plan", t1)
Pair(g, p)  == [k \in {GoalT, PlanT} |-> IF k = GoalT THEN g ELSE p]
MCRankT     == [k \in Keys |-> IF k = GoalT THEN 1 ELSE 2]
MCInitialT  == Snap(Pair(Goal(1), Plan(1)))
MCGuestsT   == {Snap(Pair(Goal(2), Plan(2))), Snap(Pair(Goal(1), Tombstone)),
                Snap([k \in {GoalT} |-> Goal(2)])}
MCSyncT     == [k \in Keys |-> IF k = GoalT THEN {Goal(2)} ELSE {Plan(2)}]

WorkerSymmetry        == Permutations({w1, w2})
SessionSymmetry       == Permutations({s1, s2})
WorkerSessionSymmetry == Permutations({w1, w2}) \cup Permutations({s1, s2})
=============================================================================
