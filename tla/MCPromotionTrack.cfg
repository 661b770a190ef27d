CONSTANTS
  i1 = i1
  i2 = i2
  t1 = t1
  s1 = s1
  s2 = s2
  w1 = w1
  w2 = w2
  va = va
  vb = vb
  Items = {}
  Tracks <- MCTracks1
  ItemVals <- MCNoVals
  GoalVals <- MCGoalVals
  PlanVals <- MCPlanVals
  Tombstone = Tombstone
  None = None
  Sessions = {s1}
  Workers = {w1, w2}
  GuestSnapshots <- MCGuestsT
  InitialRecords <- MCInitialT
  SyncVals <- MCSyncT
  KeyRank <- MCRankT
  StageBatch = 1
  DecisionBatch = 1
  MaxGen = 1
  MaxRev = 2
SPECIFICATION FairSpec
PROPERTY BegunPromotionCompletes
CHECK_DEADLOCK FALSE
