SPECIFICATION Spec
CONSTANTS
  t1 = t1
  t2 = t2
  t3 = t3
  b = b
  Tasks = {t1, t2, t3}
  Batches = {b}
  Batch = b
  Order <- ThreeFiles
  Workers = 2
  Reporting = TRUE
  Contended = FALSE
  MaxDeaths = 1
CHECK_DEADLOCK FALSE
PROPERTIES
  TerminalStays
