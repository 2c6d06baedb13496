SPECIFICATION Spec
CONSTANTS
  d1 = d1
  d2 = d2
  d3 = d3
  v1 = v1
  v2 = v2
  q1 = q1
  q2 = q2
  f1 = f1
  postgres = postgres
  graph = graph
  vector = vector
  evidence = evidence
  Datasets = {d1, d2, d3}
  Current = {d1, d2}
  NoDataset = NoDataset
  Components = {postgres, graph, vector, evidence}
  Validations = {v1, v2}
  Facts = {f1}
  Requests = {q1, q2}
SYMMETRY DatasetSymmetry
INVARIANTS
  TypeOK
  PointerAgrees
  ServedIsEndorsed
  RequestsAreServed
CHECK_DEADLOCK FALSE
