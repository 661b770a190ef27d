CONSTANTS
  i1 = i1
  i2 = i2
  t1 = t1
  s1 = s1
  s2 = s2
  w1 = w1
  w2 = w2
  va = va
  vb = vb
  Items <- MCItems2
  Tracks = {}
  ItemVals <- MCItemVals
  GoalVals <- MCNoVals
  PlanVals <- MCNoVals
  Tombstone = Tombstone
  None = None
  Sessions = {s1}
  Workers = {w1, w2}
  GuestSnapshots <- MCGuests2
  InitialRecords <- MCInitial2
  SyncVals <- MCSync2
  KeyRank <- MCRank2
  StageBatch = 1
  DecisionBatch = 1
  MaxGen = 1
  MaxRev = 2
SYMMETRY WorkerSymmetry
SPECIFICATION Spec
PROPERTY PromotesWhatWasConfirmed
PROPERTY DeletedAccountIsFrozen
PROPERTY ImplementsAccountSnapshot
CHECK_DEADLOCK FALSE
