CONSTANTS
  i1 = i1
  i2 = i2
  w1 = w1
  w2 = w2
  f1 = f1
  f2 = f2
  f3 = f3
  f4 = f4
  Identities = {i1, i2}
  Workers = {w1, w2}
  Fences = {f1, f2, f3, f4}
  NoFence = NoFence
  InitialData <- MCFullData
SYMMETRY MCSymmetry
SPECIFICATION Spec
CHECK_DEADLOCK FALSE
INVARIANT IdentityStaysBlocked
INVARIANT Resumable
PROPERTY NewAccountUntouched
INVARIANT ErasureIsProved
