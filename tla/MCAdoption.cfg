CONSTANTS
  w1 = w1
  w2 = w2
  s1 = s1
  s2 = s2
  m1 = m1
  m2 = m2
  k1 = k1
  k2 = k2
  i1 = i1
  t1 = t1
  va = va
  vb = vb
  Items <- MCItems
  Tracks <- MCTracks
  ItemVals <- MCItemVals
  GoalVals <- MCGoalVals
  PlanVals <- MCPlanVals
  Tombstone = Tombstone
  None = None
  MaxMerges = 2
  \* sync
  Devices = {"device"}
  Batches = {w1, w2}
  Mutations = {m1, m2}
  LastRecord = 2
  Target <- MCTarget
  Initial = {2}
  SyncPage = 1
  Nil = Nil
  MaxSyncRev = 2
  MaxSwaps = 1
  \* upload
  Transfers = {s1, s2}
  Sealers = {w1, w2}
  RequestKeys = {"key"}
  Chunks <- MCChunks
  Claims <- MCClaims
  MaxRecords = 2
  \* purge
  Cleaners = {"job"}
  LastFiled = 1
  LastSession = 2
  Rows = 2
  FiledUntil <- MCUntil
  Keep = 1
  SessionUntil = 1
  Lease = 1
  MaxDeletes = 3
  MaxTransitions = 1
  MaxTime = 2
  MaxRuns = 1
SYMMETRY MCSymmetry
SPECIFICATION AdoptionSpec
CHECK_DEADLOCK FALSE
INVARIANT MergedBundlesOK
INVARIANT MutationsHold
INVARIANT SealedIsWhole
INVARIANT PurgeIsExact
PROPERTY MergeIsExact
PROPERTY SnapshotsAreTrue
