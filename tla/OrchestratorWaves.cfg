SPECIFICATION Spec
CONSTANTS
  r1 = r1
  r2 = r2
  a = a
  b = b
  c = c
  d = d
  Runs = {r1}
  Tasks = {a, b, c}
  RunOf <- OneRun
  Plans <- JoinPlans
  MaxConcurrency = 2
INVARIANTS
  TypeOK
  DependenciesSucceeded
  RetriesAreCharged
  ResultIsValid
  NeverStalls
PROPERTIES
  ImplementsEvaluation
CHECK_DEADLOCK FALSE
