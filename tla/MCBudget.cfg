SPECIFICATION Spec
CONSTANTS
  Configs <- AllConfigs
  Machines <- AllMachines
  PeakCap = 3
  OwnRss = 1
CHECK_DEADLOCK FALSE
INVARIANTS
  TypeOK
  AcceptedIsStartable
  ThreadsWithinBudget
  MemoryWithinBudget
