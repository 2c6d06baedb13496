------------------------- MODULE MCDatasetLifecycle -------------------------
(***************************************************************************)
(* Small instances of DatasetLifecycle: interchangeable datasets,          *)
(* validation runs and components.                                         *)
(***************************************************************************)
EXTENDS DatasetLifecycle, TLC

CONSTANTS d1, d2, d3, v1, v2, q1, q2, f1, postgres, graph, vector, evidence

DatasetSymmetry ==
  Permutations({d1, d2}) \cup Permutations(Validations)
    \cup Permutations(Components) \cup Permutations(Requests)
=============================================================================
