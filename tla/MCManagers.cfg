SPECIFICATION Spec
CONSTANTS
  Procs = {m1, m2, m3}
  Tasks = {t1, t2}
  MaxStarts = 4
  MaxCrashes = 2
SYMMETRY Symmetry
CHECK_DEADLOCK FALSE
INVARIANTS
  ServingIsReachable
  TranscribedOnce
