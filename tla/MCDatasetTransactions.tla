----------------------- MODULE MCDatasetTransactions ------------------------
(***************************************************************************)
(* Small instances of DatasetTransactions.                                 *)
(***************************************************************************)
EXTENDS DatasetTransactions, TLC

CONSTANTS s1, s2, d1, d2, v1, v2, q1, f1, graph, A, B, x, y

\* No metric, or two that come in both orders, one of them in two wordings.
SmallBatches ==
  LET d(m, p) == [metric |-> m, payload |-> p]
  IN {<<>>, <<d(A, x), d(B, x)>>, <<d(B, x), d(A, y)>>}

SessionSymmetry ==
  Permutations(Sessions) \cup Permutations(Validations) \cup Permutations(Datasets)
=============================================================================
