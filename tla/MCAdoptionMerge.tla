---------------------------- MODULE MCAdoptionMerge ----------------------------
EXTENDS AdoptionMergeCheck
CONSTANTS i1, t1, va, vb

MCItems    == {i1}
MCTracks   == {t1}
MCItemVals == {va, vb}
MCGoalVals == [revision: {1, 2}, target: {"x", "y"}]
MCPlanVals == [schemaVersion: {1}, goalRevision: {1, 2}, target: {"x"}]
              \cup [schemaVersion: {2}, goalRevision: {1, 2}, target: {"x", "y"}]
=============================================================================
