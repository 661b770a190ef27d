CONSTANTS
  w1 = w1
  w2 = w2
  a1 = a1
  a2 = a2
  o1 = o1
  o2 = o2
  \* sessions
  Workers = {w1, w2}
  Operations = {o1, o2}
  Legacy = {o2}
  Issued <- MCIssued
  Sessions = {"session"}
  Retention = 2
  FirstUse = 1
  Skew = 0
  MaxClock = 2
  None = None
  \* api
  Callers = {w1, w2}
  RecentAuth = 0
  MaxSecond = 2
  \* export
  Jobs = {w1, w2}
  Parts = 2
  Window = 1
  RateMax = 1
  ResponseTtl = 1
  MaxExports = 2
  MaxExportTime = 1
  MaxRevision = 1
  \* restore
  Identities = {w1, w2}
  Accounts = {a1, a2}
  NoAccount = NoAccount
  Earliest = 1
  RestoreAt = 3
  Cutoff = 4
  TombstoneRetention = 2
  MaxNow = 6
  MaxDrift = 1
  \* packages
  Publishers = {w1, w2}
  Downloads = {"download"}
  Packages = {"k1", "k2"}
  Manifests = {"m1", "m2", "m3", "m4"}
  ShaOf <- MCSha
  Sound = {"m1", "m2", "m3"}
  Foreign = "foreign"
  \* audit
  Clerks = {w1, w2}
  LastEntry = 4
  MaxHolds = 2
SYMMETRY MCSymmetry
SPECIFICATION AccountSpec
CHECK_DEADLOCK FALSE
INVARIANT RevocationsHold
INVARIANT ExportsAreAccounted
INVARIANT ReceiptIsTrue
INVARIANT PointerIsServable
INVARIANT TrailExpiresWithCase
PROPERTY DeletionEndsRevocations
PROPERTY NothingLate
