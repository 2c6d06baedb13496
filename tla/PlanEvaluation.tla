--------------------------- MODULE PlanEvaluation ---------------------------
(***************************************************************************)
(* What one execution of a plan promises, whatever the scheduling: each    *)
(* task gets one verdict, after its dependencies have theirs, and a run is *)
(* concluded from the verdicts alone.  Waves, permits, retries, timers and *)
(* the deadline do not exist here; Orchestrator is shown to implement it.  *)
(***************************************************************************)
EXTENDS ExecutionGraph

VARIABLES
  plan,     \* the graph being executed, fixed
  verdict,  \* what has become of each task
  outcome   \* execution_outcome of each run, "none" before it is concluded

vars == <<plan, verdict, outcome>>

Executed == {"success", "empty", "failed"}
Skipped  == {"benign", "hard"}
Verdicts == Executed \cup Skipped
Outcomes == {"completed", "completed_with_failures", "failed"}

TypeOK ==
  /\ plan \in Plans
  /\ verdict \in [Tasks -> Verdicts \cup {"open"}]
  /\ outcome \in [Runs -> Outcomes \cup {"none"}]

DependencyVerdicts(t) == {verdict[d] : d \in plan.dependsOn[t]}

\* Fault: a task below a hard skip is run, only a direct failure stops it.
PermittedBelowHardSkip(t) ==
  IF DependencyVerdicts(t) \cap {"empty", "benign"} # {} THEN {"benign"}
  ELSE IF "failed" \notin DependencyVerdicts(t) THEN Executed
  ELSE {"hard"}

(***************************************************************************)
(* The verdicts a task may get.  An empty upstream result wins over a      *)
(* failed one: the benign branch of _schedule comes first.                 *)
(***************************************************************************)
Permitted(t) ==
  IF DependencyVerdicts(t) \cap {"empty", "benign"} # {} THEN {"benign"}
  ELSE IF DependencyVerdicts(t) \subseteq {"success"} THEN Executed
  ELSE {"hard"}

Resolvable(r) ==
  {t \in TasksOf(r) : verdict[t] = "open" /\ "open" \notin DependencyVerdicts(t)}

\* Several tasks of a run may be decided in one step: a wave is merged at once.
Resolve(r) ==
  \E S \in (SUBSET Resolvable(r)) \ {{}} :
    \E decided \in [S -> Verdicts] :
      /\ \A t \in S : decided[t] \in Permitted(t)
      /\ verdict' = [t \in Tasks |-> IF t \in S THEN decided[t] ELSE verdict[t]]
      /\ UNCHANGED <<plan, outcome>>

Lost(r) == {t \in TasksOf(r) : verdict[t] \in {"failed", "hard"}}

OutcomeOf(r) ==
  IF Lost(r) \cap plan.critical # {} THEN "failed"
  ELSE IF Lost(r) # {} THEN "completed_with_failures"
  ELSE "completed"

Conclude(r) ==
  /\ outcome[r] = "none"
  /\ \A t \in TasksOf(r) : verdict[t] # "open"
  /\ outcome' = [outcome EXCEPT ![r] = OutcomeOf(r)]
  /\ UNCHANGED <<plan, verdict>>

Init ==
  /\ plan \in Plans
  /\ verdict = [t \in Tasks |-> "open"]
  /\ outcome = [r \in Runs |-> "none"]

Next == \E r \in Runs : Resolve(r) \/ Conclude(r)

Spec == Init /\ [][Next]_vars

AncestorVerdicts(t) == {verdict[a] : a \in Ancestors(plan.dependsOn, t)}

(***************************************************************************)
(* A task is only skipped for a reason found upstream: a hard skip has a   *)
(* failed ancestor, a benign one an ancestor that answered with no rows,   *)
(* and an executed task has nothing but successes above it.                *)
(***************************************************************************)
SkipsAreCaused ==
  \A t \in Tasks :
    /\ verdict[t] = "hard"     => "failed" \in AncestorVerdicts(t)
    /\ verdict[t] = "benign"   => "empty" \in AncestorVerdicts(t)
    /\ verdict[t] \in Executed => AncestorVerdicts(t) \subseteq {"success"}

(***************************************************************************)
(* A run reported "completed" lost nothing to a failure: each of its tasks *)
(* answered, or stands below a task that answered with no rows.  A run     *)
(* reported without "failed" has no critical task below a failure, unless  *)
(* an empty answer stands above that task too.                             *)
(***************************************************************************)
OutcomeIsHonest ==
  \A r \in Runs :
    /\ outcome[r] = "completed" =>
         \A t \in TasksOf(r) :
           verdict[t] \in {"success", "empty"} \/ "empty" \in AncestorVerdicts(t)
    /\ outcome[r] \in {"completed", "completed_with_failures"} =>
         \A t \in TasksOf(r) \cap plan.critical :
           "failed" \in AncestorVerdicts(t) \cup {verdict[t]} =>
             "empty" \in AncestorVerdicts(t)

=============================================================================
