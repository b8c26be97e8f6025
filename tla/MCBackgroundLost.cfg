SPECIFICATION Spec
CONSTANTS
  t1 = t1
  t2 = t2
  t3 = t3
  b1 = b1
  b2 = b2
  Tasks = {t1}
  Batches = {b1}
  TaskOrder <- OneTask
  BatchOrder <- OneBatch
  Workers = 1
  Reporting = FALSE
  Contended = FALSE
  MaxDeaths = 0
  Commands = {"cancel"}
  MaxCommands = 1
  MaxCrashes = 0
  MaxTimeouts = 0
CHECK_DEADLOCK FALSE
PROPERTIES
  SucceededStays
