SPECIFICATION QueueSpec
CONSTANTS
  t1 = t1
  t2 = t2
  t3 = t3
  b1 = b1
  b2 = b2
  Tasks = {t1, t2, t3}
  Batches = {b1, b2}
  TaskOrder <- ThreeTasks
  BatchOrder <- TwoBatches
  Workers = 1
  Reporting = FALSE
  Contended = TRUE
  MaxDeaths = 1
  Commands = {"cancel"}
  MaxCommands = 1
  MaxCrashes = 0
  MaxTimeouts = 0
CHECK_DEADLOCK FALSE
INVARIANTS
  WorkersBounded
PROPERTIES
  QueueDrains
