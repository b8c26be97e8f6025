SPECIFICATION Spec
CONSTANTS
  u = u
  v = v
  Dirs <- NoDirs
  Files <- Flat
  PathOrder <- FlatOrder
  Contents = {u, v}
  Trees <- FlatTrees
  MaxNames = 2
  MaxRetries = 2
  MaxKills = 2
CHECK_DEADLOCK FALSE
INVARIANTS
  KilledCanBeRetried
  RetryResumes
  BackgroundIsKept
  RetriedOnce
