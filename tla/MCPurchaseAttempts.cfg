CONSTANTS
  a1 = a1
  a2 = a2
  t1 = t1
  t2 = t2
  Attempts = {a1, a2}
  Txs = {t1, t2}
  None = None
  Window = 2
  Resolution = 3
  MaxTime = 3
  MaxWait = 1
SYMMETRY MCSymmetry
SPECIFICATION Spec
CONSTRAINT Early
CONSTRAINT OneCase
CHECK_DEADLOCK FALSE
INVARIANT LockAndBindingsAgree
PROPERTY BindsWhatTheSheetSold
PROPERTY NothingAppearsAfterDeletion
PROPERTY ConsentsStand
