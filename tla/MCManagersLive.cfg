SPECIFICATION Spec
CONSTANTS
  Procs = {m1, m2}
  Tasks = {t1, t2}
  MaxStarts = 3
  MaxCrashes = 1
CHECK_DEADLOCK FALSE
INVARIANTS
  LiveIsNotInterrupted
