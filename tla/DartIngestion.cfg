SPECIFICATION FairSpec
CONSTANTS
  N = 3
  QuarantineLimit = 2
  MaxTroubles = 6
INVARIANTS
  TypeOK
  QuarantineBounded
  AuthorizedWasVerified
  ReportedIsComplete
PROPERTIES
  AuthorizedCompletes
CHECK_DEADLOCK FALSE
