SPECIFICATION Spec
CONSTANTS
  ref = ref
  c1 = c1
  c2 = c2
  c3 = c3
  Views <- MCViews
  Proposals <- MCProposals
  Candidates = {c1, c2, c3}
  Quality <- MCQuality
  Deadline = 1
  MaxTime = 1
SYMMETRY SameQuality
INVARIANTS
  CallsAreAccounted
  CompleteMeansUnique
  SearchedAsNamed
  ResolvedMeansChosen
CHECK_DEADLOCK FALSE
