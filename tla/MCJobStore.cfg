SPECIFICATION Spec
CONSTANTS
  Ids = {j1, j2}
  Callers = {c1, c2}
  Reports <- MCReports
  MaxRevision = 2
  Overlap = FALSE
SYMMETRY Symmetry
INVARIANTS
  TypeOK
  ReturnedIsDurable
PROPERTIES
  ImplementsJobRecord
CHECK_DEADLOCK FALSE
