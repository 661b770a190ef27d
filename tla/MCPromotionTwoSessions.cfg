CONSTANTS
  i1 = i1
  i2 = i2
  t1 = t1
  s1 = s1
  s2 = s2
  w1 = w1
  w2 = w2
  va = va
  vb = vb
  Items <- MCItems1
  Tracks = {}
  ItemVals <- MCItemVals
  GoalVals <- MCNoVals
  PlanVals <- MCNoVals
  Tombstone = Tombstone
  None = None
  Sessions = {s1, s2}
  Workers = {w1, w2}
  GuestSnapshots <- MCGuests1
  InitialRecords <- MCInitial0
  SyncVals <- MCNoSync
  KeyRank <- MCRank1
  StageBatch = 1
  DecisionBatch = 2
  MaxGen = 2
  MaxRev = 1
SYMMETRY WorkerSessionSymmetry
SPECIFICATION Spec
PROPERTY OneWriterPerGeneration
PROPERTY PairNamesRecords
CHECK_DEADLOCK FALSE
