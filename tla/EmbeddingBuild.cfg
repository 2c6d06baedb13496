SPECIFICATION FairSpec
CONSTANTS
  b1 = b1
  b2 = b2
  Builders <- MCBuilders
  Commands <- MCCommands
  N = 3
  InitialCorpus = {1, 3}
  BatchSize = 2
  SampleLimit = 2
  Strategy = {1}
  Risk = {2}
  Expectations = {2, 3}
  MaxAttempts = 2
  Quota = 3
  MaxTroubles = 1
INVARIANTS
  NoLockCycle
PROPERTIES
  FailuresAreCaused
  ReportsAddUp
  CorpusGetsEmbedded
