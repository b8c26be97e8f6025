SPECIFICATION Spec
CONSTANTS
  u = u
  v = v
  Dirs <- MCDirs
  Files <- MCFiles
  PathOrder <- MCOrder
  Contents = {u, v}
  Trees <- MCTrees
  MaxNames = 2
  MaxRetries = 1
  MaxKills = 1
CHECK_DEADLOCK FALSE
INVARIANTS
  FindsTheVisible
  EveryContentOnce
  BatchIsWhole
