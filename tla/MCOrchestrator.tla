--------------------------- MODULE MCOrchestrator ---------------------------
(***************************************************************************)
(* Small instances of Orchestrator: which tasks there are and which graphs *)
(* are tried.                                                              *)
(***************************************************************************)
EXTENDS Orchestrator

CONSTANTS r1, r2, a, b, c, d

Plan(edges, critical) ==
  [dependsOn |-> [t \in Tasks |-> {u \in Tasks : <<u, t>> \in edges}],
   critical |-> critical]

OneRun == [t \in Tasks |-> r1]
TwoRuns == [t \in Tasks |-> IF t = d THEN r2 ELSE r1]

\* A chain, a fork, a join and independent tasks, a join below a mixed pair.
JoinPlans ==
  {Plan({<<a, b>>, <<b, c>>}, {c}),
   Plan({<<a, b>>, <<a, c>>}, {b}),
   Plan({<<a, c>>, <<b, c>>}, {c}),
   Plan({<<a, c>>, <<b, c>>, <<a, b>>}, {a, b, c}),
   Plan({}, {a})}

\* Two runs contending for the permits.
ContentionPlans == {Plan({<<a, b>>}, {a})}
=============================================================================
