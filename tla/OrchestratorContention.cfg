SPECIFICATION FairSpec
CONSTANTS
  r1 = r1
  r2 = r2
  a = a
  b = b
  c = c
  d = d
  Runs = {r1, r2}
  Tasks = {a, b, d}
  RunOf <- TwoRuns
  Plans <- ContentionPlans
  MaxConcurrency = 1
INVARIANTS
  PermitsConserved
PROPERTIES
  RunsReturn
CHECK_DEADLOCK FALSE
