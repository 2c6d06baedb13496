--------------------------- MODULE ExecutionGraph ---------------------------
(***************************************************************************)
(* The frozen execution graphs an Orchestrator is handed                   *)
(* (contracts/execution.py, contracts/validation.py).  A plan gives every  *)
(* task its direct dependencies and says which tasks belong to a CRITICAL  *)
(* subtask.  Several requests run at once, each with its own tasks, so a   *)
(* plan covers the tasks of all runs and no edge joins two runs.           *)
(***************************************************************************)
EXTENDS Naturals, FiniteSets

CONSTANTS
  Runs,    \* the requests in flight on one Orchestrator
  Tasks,   \* all tasks of all runs
  RunOf,   \* the run a task belongs to
  Plans    \* the graphs that may be executed

\* require_acyclic_edges peels off nodes without incoming edges until none is
\* left; it succeeds exactly when every non-empty set of tasks holds a task
\* with no dependency inside the set.
Acyclic(dependsOn) ==
  \A S \in SUBSET Tasks :
    S # {} => \E t \in S : dependsOn[t] \cap S = {}

\* What ExecutionGraph.validate_graph accepts: known ids, no cycle.
WellFormed(p) ==
  /\ p.dependsOn \in [Tasks -> SUBSET Tasks]
  /\ p.critical \subseteq Tasks
  /\ \A t \in Tasks : \A d \in p.dependsOn[t] : RunOf[d] = RunOf[t]
  /\ Acyclic(p.dependsOn)

ASSUME GraphAssumption ==
  /\ IsFiniteSet(Tasks)
  /\ RunOf \in [Tasks -> Runs]
  /\ \A p \in Plans : WellFormed(p)

TasksOf(r) == {t \in Tasks : RunOf[t] = r}

\* dependency_ancestors: every task reachable over depends_on.
Ancestors(dependsOn, t) ==
  {a \in Tasks :
     \A S \in SUBSET Tasks :
       (dependsOn[t] \cup UNION {dependsOn[s] : s \in S} \subseteq S) => a \in S}

=============================================================================
