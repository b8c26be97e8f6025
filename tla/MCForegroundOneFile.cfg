SPECIFICATION Spec
CONSTANTS
  t1 = t1
  t2 = t2
  t3 = t3
  b = b
  Tasks = {t1}
  Batches = {b}
  Batch = b
  Order <- OneFile
  Workers = 1
  Reporting = TRUE
  Contended = FALSE
  MaxDeaths = 0
CHECK_DEADLOCK FALSE
PROPERTIES
  CtrlCCancels
