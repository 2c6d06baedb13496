SPECIFICATION PipelineSpec
CONSTANTS
  r1 = r1
  a = a
  b = b
  c = c
  c1 = c1
  c2 = c2
  e1 = e1
  e2 = e2
  o1 = o1
  Runs = {r1}
  Tasks = {a, b, c}
  RunOf <- OneRun
  Plans <- ShapedPlans
  Chunks = {c1, c2}
  Relations = {e1, e2}
  Observations = {o1}
  Cutoff = 1
  TopK = 2
  Worlds <- SomeWorlds
INVARIANT
  SqlAnswersReachClaims
CHECK_DEADLOCK FALSE
