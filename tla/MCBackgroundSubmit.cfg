SPECIFICATION Spec
CONSTANTS
  t1 = t1
  t2 = t2
  t3 = t3
  b1 = b1
  b2 = b2
  Tasks = {t1}
  Batches = {b1}
  TaskOrder <- OneTask
  BatchOrder <- OneBatch
  Workers = 1
  Reporting = FALSE
  Contended = FALSE
  MaxDeaths = 0
  Commands = {}
  MaxCommands = 0
  MaxCrashes = 0
  MaxTimeouts = 1
CHECK_DEADLOCK FALSE
PROPERTIES
  NotSubmittedIsQueued
