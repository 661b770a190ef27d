CONSTANTS
  i1 = i1
  i2 = i2
  w1 = w1
  w2 = w2
  f1 = f1
  f2 = f2
  f3 = f3
  f4 = f4
  Identities = {i1}
  Workers = {w1, w2}
  Fences = {f1, f2, f3, f4}
  NoFence = NoFence
  InitialData <- MCFullData
SPECIFICATION LiveSpec
PROPERTY DeletionCompletes
CHECK_DEADLOCK FALSE
