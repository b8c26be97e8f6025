SPECIFICATION FairSpec
CONSTANTS
  Reports <- MCReports
  MaxRevision = 7
  MaxKills = 2
CHECK_DEADLOCK FALSE
INVARIANTS
  TypeOK
  SucceededIsComplete
  ReturnIsHonest
PROPERTIES
  CancelIsHonoured
  EndsUnlessGone
