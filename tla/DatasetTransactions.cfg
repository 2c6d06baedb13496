SPECIFICATION TransactionsSpec
CONSTANTS
  s1 = s1
  s2 = s2
  d1 = d1
  d2 = d2
  v1 = v1
  v2 = v2
  q1 = q1
  f1 = f1
  graph = graph
  A = A
  B = B
  x = x
  y = y
  Sessions = {s1, s2}
  Datasets = {d1, d2}
  Current = {d1, d2}
  NoDataset = NoDataset
  Components = {graph}
  Validations = {v1, v2}
  Facts = {f1}
  Requests = {q1}
  Metrics = {A, B}
  Payloads = {x, y}
  Batches <- SmallBatches
SYMMETRY SessionSymmetry
INVARIANTS
  OnlyDefinitionsDeadlock
  DefinitionsAgree
PROPERTIES
  ImplementsLifecycle
CHECK_DEADLOCK FALSE
