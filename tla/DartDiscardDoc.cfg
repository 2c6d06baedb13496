SPECIFICATION Spec
CONSTANTS
  N = 2
  QuarantineLimit = 2
  MaxTroubles = 2
PROPERTIES
  DiscardsAreRecorded
CHECK_DEADLOCK FALSE
