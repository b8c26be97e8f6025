SPECIFICATION RecordSpec
CONSTANTS
  Reports <- MCReports
  MaxRevision = 6
INVARIANTS
  RecordTypeOK
  RecordSane
PROPERTIES
  TerminalIsFinal
  NeverBackwards
CHECK_DEADLOCK FALSE
