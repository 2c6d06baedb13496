SPECIFICATION Spec
CONSTANTS
  Activations = 2
  Contexts <- MCContexts
  Claims = {"c1", "c2"}
  Evidence = {"e1"}
  Subtasks = {"s1", "s2"}
  SubtaskOf <- MCSubtaskOf
  SupportOf <- MCSupportOf
  Ids = {"t1", "v1", "v2"}
  Offers <- MCOffers
  Verdicts <- MCVerdicts
  None = None
INVARIANTS
  TypeOK
  RetriesSucceed
  OneArtifactPerId
  SuccessIsVerified
  ServedIsGrounded
  ReleasePathIsOpen
CHECK_DEADLOCK FALSE
