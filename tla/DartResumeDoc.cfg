SPECIFICATION FairSpec
CONSTANTS
  N = 2
  QuarantineLimit = 2
  MaxTroubles = 1
PROPERTIES
  RunIsResumable
CHECK_DEADLOCK FALSE
