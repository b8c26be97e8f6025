SPECIFICATION SocketSpec
CONSTANTS
  t1 = t1
  t2 = t2
  t3 = t3
  b1 = b1
  b2 = b2
  Tasks = {t1, t2}
  Batches = {b1, b2}
  TaskOrder <- TwoTasks
  BatchOrder <- TwoBatches
  Workers = 1
  Reporting = FALSE
  Contended = FALSE
  MaxDeaths = 0
  Commands = {"worker stop"}
  MaxCommands = 1
  MaxCrashes = 1
  MaxTimeouts = 1
CHECK_DEADLOCK FALSE
PROPERTIES
  AcceptedFinishes
