---------------------------- MODULE Orchestrator ----------------------------
(***************************************************************************)
(* The deterministic orchestrator (orchestration/service.py): the wave     *)
(* scheduler _schedule, the attempt loop _run_task, the retry budget each  *)
(* run shares among its tasks and the one asyncio.Semaphore shared by all  *)
(* runs of an Orchestrator.                                                *)
(*                                                                         *)
(* Everything between two awaits is one action.  Time is one flag per run, *)
(* expired: the clock has reached the run's deadline.  A task budget can   *)
(* run out at any moment of an execution, so it needs no clock.  The       *)
(* non-transient statuses (permanent_error, invalid_input, unsupported)    *)
(* are treated alike by the code and are one value here.                   *)
(***************************************************************************)
EXTENDS ExecutionGraph, Sequences

CONSTANT MaxConcurrency    \* the semaphore's permits

ASSUME ConcurrencyAssumption == MaxConcurrency \in Nat \ {0}

RetryAllowance == 2        \* _RetryBudget(2)

Answered  == {"success", "empty"}
Transient == {"timeout", "transient_error"}
ToolStatuses == Answered \cup Transient \cup {"permanent_error"}
NoResult == "no_result"

VARIABLES
  plan,         \* the graphs of all runs, fixed
  runState,     \* where the coroutine _schedule of a run stands
  expired,      \* has a run's deadline passed
  retryBudget,  \* retries left to a run
  pending,      \* the union of the runs' pending dicts
  results,      \* final_results: status published for a task, or NoResult
  failures,     \* tasks with an ExecutionFailure
  benign,       \* benign_skipped
  hard,         \* hard_skipped
  outcome,      \* execution_outcome, "none" before the run returns
  pc,           \* where the coroutine _run_task of a task stands
  attempts,     \* statuses of the recorded attempts of a task
  answer,       \* the _TaskOutcome returned and not yet merged
  permits       \* value of the semaphore

runVars  == <<runState, expired, retryBudget>>
mergeVars == <<pending, results, failures, benign, hard, outcome>>
taskVars == <<pc, attempts, answer>>
vars == <<plan, runVars, mergeVars, taskVars, permits>>

NoAnswer == [result |-> NoResult, failed |-> FALSE]
Answers  == [result : ToolStatuses \cup {NoResult}, failed : BOOLEAN]

RunStates == {"created", "scheduling", "gathering", "returned"}
TaskStates ==
  {"idle", "building", "attempting", "queued", "granted", "executing", "returned"}

TypeOK ==
  /\ plan \in Plans
  /\ runState \in [Runs -> RunStates]
  /\ expired \in [Runs -> BOOLEAN]
  /\ retryBudget \in [Runs -> 0..RetryAllowance]
  /\ pending \in SUBSET Tasks
  /\ results \in [Tasks -> ToolStatuses \cup {NoResult}]
  /\ failures \in SUBSET Tasks
  /\ benign \in SUBSET Tasks
  /\ hard \in SUBSET Tasks
  /\ outcome \in [Runs -> {"none", "completed", "completed_with_failures", "failed"}]
  /\ pc \in [Tasks -> TaskStates]
  /\ attempts \in [Tasks -> Seq(ToolStatuses)]
  /\ answer \in [Tasks -> Answers]
  /\ permits \in Nat

Dependencies(t) == plan.dependsOn[t]

Init ==
  /\ plan \in Plans
  /\ runState = [r \in Runs |-> "created"]
  /\ expired = [r \in Runs |-> FALSE]
  /\ retryBudget = [r \in Runs |-> RetryAllowance]
  /\ pending = Tasks
  /\ results = [t \in Tasks |-> NoResult]
  /\ failures = {}
  /\ benign = {}
  /\ hard = {}
  /\ outcome = [r \in Runs |-> "none"]
  /\ pc = [t \in Tasks |-> "idle"]
  /\ attempts = [t \in Tasks |-> <<>>]
  /\ answer = [t \in Tasks |-> NoAnswer]
  /\ permits = MaxConcurrency

(***************************************************************************)
(* _schedule                                                               *)
(***************************************************************************)

\* The deadline starts to run.
StartRun(r) ==
  /\ runState[r] = "created"
  /\ runState' = [runState EXCEPT ![r] = "scheduling"]
  /\ UNCHANGED <<plan, expired, retryBudget, mergeVars, taskVars, permits>>

\* The clock reaches start + hard_deadline_ms.
DeadlinePasses(r) ==
  /\ runState[r] \in {"scheduling", "gathering"}
  /\ ~expired[r]
  /\ expired' = [expired EXCEPT ![r] = TRUE]
  /\ UNCHANGED <<plan, runState, retryBudget, mergeVars, taskVars, permits>>

PendingOf(r) == pending \cap TasksOf(r)

\* Fault: a task waits for the results of its dependencies, not for their end.
ReadyByResults(r) ==
  {t \in PendingOf(r) : \A d \in Dependencies(t) : results[d] # NoResult}

Ready(r) == {t \in PendingOf(r) : Dependencies(t) \cap pending = {}}

BelowEmpty(t) ==
  \E d \in Dependencies(t) : d \in benign \/ results[d] = "empty"

\* Fault: a failure that kept no result is not seen.
BelowFailureWithResult(t) ==
  \E d \in Dependencies(t) :
    d \in benign \cup hard \/ results[d] \notin {"success", NoResult}

BelowFailure(t) ==
  \E d \in Dependencies(t) :
    d \in benign \cup hard \/ d \in failures \/ results[d] # "success"

(***************************************************************************)
(* One turn of the while loop up to the gather: classify the ready tasks,  *)
(* drop the skipped ones and start a coroutine for each of the others.     *)
(* The gather of an empty list returns at once, which is GatherReturns.    *)
(***************************************************************************)
StartWave(r) ==
  LET skipBenign == {t \in Ready(r) : BelowEmpty(t)}
      skipHard   == {t \in Ready(r) \ skipBenign : BelowFailure(t)}
      runnable   == Ready(r) \ (skipBenign \cup skipHard)
  IN
  /\ runState[r] = "scheduling"
  /\ Ready(r) # {}
  /\ benign' = benign \cup skipBenign
  /\ hard' = hard \cup skipHard
  /\ pending' = pending \ (skipBenign \cup skipHard)
  /\ pc' = [t \in Tasks |-> IF t \in runnable THEN "building" ELSE pc[t]]
  /\ runState' = [runState EXCEPT ![r] = "gathering"]
  /\ UNCHANGED <<plan, expired, retryBudget, results, failures, outcome,
                 attempts, answer, permits>>

\* Where _schedule raises ORCHESTRATOR_GRAPH_STALLED.
Stalled(r) == runState[r] = "scheduling" /\ PendingOf(r) # {} /\ Ready(r) = {}

Wave(r) == {t \in TasksOf(r) : pc[t] # "idle"}

\* Fault: only failures that kept their result are recorded as failures.
GatherReturnsResultsOnly(r) ==
  /\ runState[r] = "gathering"
  /\ \A t \in Wave(r) : pc[t] = "returned"
  /\ pending' = pending \ Wave(r)
  /\ results' = [t \in Tasks |-> IF t \in Wave(r) THEN answer[t].result ELSE results[t]]
  /\ failures' = failures \cup
       {t \in Wave(r) : answer[t].failed /\ answer[t].result # NoResult}
  /\ pc' = [t \in Tasks |-> IF t \in Wave(r) THEN "idle" ELSE pc[t]]
  /\ answer' = [t \in Tasks |-> IF t \in Wave(r) THEN NoAnswer ELSE answer[t]]
  /\ runState' = [runState EXCEPT ![r] = "scheduling"]
  /\ UNCHANGED <<plan, expired, retryBudget, benign, hard, outcome, attempts, permits>>

(***************************************************************************)
(* The gather returns when every coroutine of the wave has: only then are  *)
(* the outcomes merged, all in one step.                                   *)
(***************************************************************************)
GatherReturns(r) ==
  /\ runState[r] = "gathering"
  /\ \A t \in Wave(r) : pc[t] = "returned"
  /\ pending' = pending \ Wave(r)
  /\ results' = [t \in Tasks |-> IF t \in Wave(r) THEN answer[t].result ELSE results[t]]
  /\ failures' = failures \cup {t \in Wave(r) : answer[t].failed}
  /\ pc' = [t \in Tasks |-> IF t \in Wave(r) THEN "idle" ELSE pc[t]]
  /\ answer' = [t \in Tasks |-> IF t \in Wave(r) THEN NoAnswer ELSE answer[t]]
  /\ runState' = [runState EXCEPT ![r] = "scheduling"]
  /\ UNCHANGED <<plan, expired, retryBudget, benign, hard, outcome, attempts, permits>>

Lost(r) == (failures \cup hard) \cap TasksOf(r)

ReturnResult(r) ==
  /\ runState[r] = "scheduling"
  /\ PendingOf(r) = {}
  /\ outcome' = [outcome EXCEPT ![r] =
       IF Lost(r) \cap plan.critical # {} THEN "failed"
       ELSE IF Lost(r) # {} THEN "completed_with_failures"
       ELSE "completed"]
  /\ runState' = [runState EXCEPT ![r] = "returned"]
  /\ UNCHANGED <<plan, expired, retryBudget, pending, results, failures, benign,
                 hard, taskVars, permits>>

(***************************************************************************)
(* _run_task                                                               *)
(***************************************************************************)

MoveTo(t, where) == pc' = [pc EXCEPT ![t] = where]
Record(t, status) == attempts' = [attempts EXCEPT ![t] = Append(@, status)]
Answer(t, result, failed) ==
  answer' = [answer EXCEPT ![t] = [result |-> result, failed |-> failed]]

\* The task fails without a result: EXECUTION_REQUEST_INVALID,
\* EXECUTOR_EXCEPTION or a violated tool-result contract.
FailWithoutResult(t) ==
  /\ Record(t, "permanent_error")
  /\ Answer(t, NoResult, TRUE)
  /\ MoveTo(t, "returned")
  /\ UNCHANGED retryBudget

\* request_factory reads the published results and may raise.
BuildRequest(t) ==
  /\ pc[t] = "building"
  /\ \/ FailWithoutResult(t)
     \/ MoveTo(t, "attempting") /\ UNCHANGED <<attempts, answer, retryBudget>>
  /\ UNCHANGED <<plan, runState, expired, mergeVars, permits>>

\* Fault: the allowance is kept per task, the run's budget is never charged.
ConcludeAttemptFreeRetry(t, status) ==
  LET r == RunOf[t]
      last == status \notin Transient \/ Len(attempts[t]) = 1 \/ expired[r]
  IN
  /\ Record(t, status)
  /\ \/ /\ status \in Answered
        /\ Answer(t, status, FALSE)
        /\ MoveTo(t, "returned")
     \/ /\ status \notin Answered
        /\ last
        /\ Answer(t, status, TRUE)
        /\ MoveTo(t, "returned")
     \/ /\ status \notin Answered
        /\ ~last
        /\ MoveTo(t, "attempting")
        /\ UNCHANGED answer
  /\ UNCHANGED retryBudget

\* Fault: the budget is charged without asking whether anything is left.
ConcludeAttemptOverdraw(t, status) ==
  LET r == RunOf[t]
      last == status \notin Transient \/ Len(attempts[t]) = 1 \/ expired[r]
  IN
  /\ Record(t, status)
  /\ \/ /\ status \in Answered \/ last
        /\ Answer(t, status, status \notin Answered)
        /\ MoveTo(t, "returned")
        /\ UNCHANGED retryBudget
     \/ /\ status \notin Answered
        /\ ~last
        /\ retryBudget' = [retryBudget EXCEPT ![r] = @ - 1]
        /\ MoveTo(t, "attempting")
        /\ UNCHANGED answer

(***************************************************************************)
(* An attempt has ended with a validated result: record it, then return or *)
(* retry.  The last test, retry_budget.consume(), charges the run.         *)
(***************************************************************************)
ConcludeAttempt(t, status) ==
  LET r == RunOf[t]
      last == \/ status \notin Transient
              \/ Len(attempts[t]) = 1
              \/ expired[r]
              \/ retryBudget[r] = 0
  IN
  /\ Record(t, status)
  /\ \/ /\ status \in Answered
        /\ Answer(t, status, FALSE)
        /\ MoveTo(t, "returned")
        /\ UNCHANGED retryBudget
     \/ /\ status \notin Answered
        /\ last
        /\ Answer(t, status, TRUE)
        /\ MoveTo(t, "returned")
        /\ UNCHANGED retryBudget
     \/ /\ status \notin Answered
        /\ ~last
        /\ retryBudget' = [retryBudget EXCEPT ![r] = @ - 1]
        /\ MoveTo(t, "attempting")
        /\ UNCHANGED answer

\* remaining <= 0 at the head of the loop: no permit is asked for.
AttemptTooLate(t) ==
  /\ pc[t] = "attempting"
  /\ expired[RunOf[t]]
  /\ ConcludeAttempt(t, "timeout")
  /\ UNCHANGED <<plan, runState, expired, mergeVars, permits>>

\* wait_for(semaphore.acquire(), timeout=remaining)
AskPermit(t) ==
  /\ pc[t] = "attempting"
  /\ ~expired[RunOf[t]]
  /\ MoveTo(t, "queued")
  /\ UNCHANGED <<plan, runVars, mergeVars, attempts, answer, permits>>

\* The semaphore hands a permit to a waiter, whose coroutine resumes later.
GrantPermit(t) ==
  /\ pc[t] = "queued"
  /\ permits > 0
  /\ permits' = permits - 1
  /\ MoveTo(t, "granted")
  /\ UNCHANGED <<plan, runVars, mergeVars, attempts, answer>>

\* The timer of the wait fires while the task still queues.
QueueTimesOut(t) ==
  /\ pc[t] = "queued"
  /\ expired[RunOf[t]]
  /\ ConcludeAttempt(t, "timeout")
  /\ UNCHANGED <<plan, runState, expired, mergeVars, permits>>

ReleasePermit == permits' = permits + 1

\* The permit came too late: the recheck of remaining, or the wait's timer
\* firing before the coroutine resumes.  Either way the permit goes back.
GrantTooLate(t) ==
  /\ pc[t] = "granted"
  /\ expired[RunOf[t]]
  /\ ReleasePermit
  /\ ConcludeAttempt(t, "timeout")
  /\ UNCHANGED <<plan, runState, expired, mergeVars>>

StartExecutor(t) ==
  /\ pc[t] = "granted"
  /\ ~expired[RunOf[t]]
  /\ MoveTo(t, "executing")
  /\ UNCHANGED <<plan, runVars, mergeVars, attempts, answer, permits>>

\* The executor answers and its result passes validate_tool_result.
ExecutorReturns(t) ==
  /\ pc[t] = "executing"
  /\ ReleasePermit
  /\ \E status \in ToolStatuses : ConcludeAttempt(t, status)
  /\ UNCHANGED <<plan, runState, expired, mergeVars>>

\* Fault: no timer is armed when the deadline passes during the execution.
ExecutorTimesOutInTime(t) ==
  /\ pc[t] = "executing"
  /\ ~expired[RunOf[t]]
  /\ ReleasePermit
  /\ ConcludeAttempt(t, "timeout")
  /\ UNCHANGED <<plan, runState, expired, mergeVars>>

\* wait_for gives up on the executor: task budget or deadline, or the
\* executor itself raises TimeoutError.
ExecutorTimesOut(t) ==
  /\ pc[t] = "executing"
  /\ ReleasePermit
  /\ ConcludeAttempt(t, "timeout")
  /\ UNCHANGED <<plan, runState, expired, mergeVars>>

\* Fault: the permit is not given back when the executor raises.
ExecutorFailsHolding(t) ==
  /\ pc[t] = "executing"
  /\ FailWithoutResult(t)
  /\ UNCHANGED <<plan, runState, expired, mergeVars, permits>>

\* The executor raises, or its result violates the contract.
ExecutorFails(t) ==
  /\ pc[t] = "executing"
  /\ ReleasePermit
  /\ FailWithoutResult(t)
  /\ UNCHANGED <<plan, runState, expired, mergeVars>>

RunStep(r) == StartWave(r) \/ GatherReturns(r) \/ ReturnResult(r)

TaskStep(t) ==
  \/ BuildRequest(t) \/ AttemptTooLate(t) \/ AskPermit(t) \/ GrantPermit(t)
  \/ QueueTimesOut(t) \/ GrantTooLate(t) \/ StartExecutor(t)
  \/ ExecutorReturns(t) \/ ExecutorTimesOut(t) \/ ExecutorFails(t)

Next ==
  \/ \E r \in Runs : StartRun(r) \/ DeadlinePasses(r) \/ RunStep(r)
  \/ \E t \in Tasks : TaskStep(t)

Spec == Init /\ [][Next]_vars

(***************************************************************************)
(* The event loop resumes every coroutine that can go on, timers fire (so  *)
(* an execution ends by itself or by its timer) and the clock reaches the  *)
(* deadline.  No request need ever arrive, and no executor need ever       *)
(* answer.                                                                 *)
(***************************************************************************)
Fairness ==
  /\ \A r \in Runs : WF_vars(RunStep(r)) /\ WF_vars(DeadlinePasses(r))
  /\ \A t \in Tasks :
       /\ WF_vars(BuildRequest(t) \/ AttemptTooLate(t) \/ AskPermit(t))
       /\ WF_vars(QueueTimesOut(t))
       /\ WF_vars(GrantTooLate(t) \/ StartExecutor(t))
       /\ WF_vars(ExecutorTimesOut(t))

FairSpec == Spec /\ Fairness

-----------------------------------------------------------------------------
Holders == {t \in Tasks : pc[t] \in {"granted", "executing"}}
Retrying(t) == Len(attempts[t]) = 1 /\ pc[t] \in {"attempting", "queued", "granted", "executing"}
Retried(r) == {t \in TasksOf(r) : Retrying(t) \/ Len(attempts[t]) = 2}

(***************************************************************************)
(* No task is ever attempted, or its request built, before each of its     *)
(* dependencies has published a success: a failed, empty, skipped or still *)
(* running dependency keeps every executor away from its dependents.       *)
(***************************************************************************)
DependenciesSucceeded ==
  \A t \in Tasks :
    pc[t] # "idle" \/ attempts[t] # <<>> =>
      \A d \in Dependencies(t) : results[d] = "success" /\ d \notin pending

(***************************************************************************)
(* The semaphore the runs share neither leaks nor invents a permit on any  *)
(* of the five ways out of an attempt, so at most MaxConcurrency attempts  *)
(* of all runs together are past acquire().                                *)
(***************************************************************************)
PermitsConserved == permits + Cardinality(Holders) = MaxConcurrency

(***************************************************************************)
(* The tasks of a run share two retries: each retry under way or done is   *)
(* charged once to its run's budget, whichever waves they belong to; no    *)
(* task is attempted three times, and none again after an attempt that did *)
(* not time out or fail transiently.                                       *)
(***************************************************************************)
RetriesAreCharged ==
  /\ \A t \in Tasks : Len(attempts[t]) <= 2
  /\ \A t \in Tasks :
       Retrying(t) \/ Len(attempts[t]) = 2 => attempts[t][1] \in Transient
  /\ \A r \in Runs : retryBudget[r] + Cardinality(Retried(r)) = RetryAllowance

(***************************************************************************)
(* What OrchestrationResult.validate_result demands of the collections the *)
(* scheduler kept apart: completed, failed and skipped tasks are disjoint  *)
(* and cover the graph, a result that is not an answer belongs to a        *)
(* failure, and exactly the executed tasks have attempt records.  A run    *)
(* that broke it would end in a ValueError instead of a result.            *)
(***************************************************************************)
ResultIsValid ==
  \A r \in Runs : runState[r] = "returned" =>
    LET completed == {t \in TasksOf(r) : results[t] \in Answered}
        failed    == failures \cap TasksOf(r)
        skipped   == (benign \cup hard) \cap TasksOf(r)
        attempted == {t \in TasksOf(r) : attempts[t] # <<>>}
    IN
    /\ completed \cap failed = {} /\ completed \cap skipped = {} /\ failed \cap skipped = {}
    /\ benign \cap hard = {}
    /\ completed \cup failed \cup skipped = TasksOf(r)
    /\ {t \in TasksOf(r) : results[t] \notin Answered \cup {NoResult}} \subseteq failed
    /\ attempted = completed \cup failed

(***************************************************************************)
(* The while loop always finds a ready task: no run ends in                *)
(* ORCHESTRATOR_GRAPH_STALLED.                                             *)
(***************************************************************************)
NeverStalls == \A r \in Runs : ~Stalled(r)

(***************************************************************************)
(* No executor is started once the deadline of its run has passed, however *)
(* long the task queued and whichever run held the permits meanwhile.      *)
(***************************************************************************)
NoLateStart ==
  [][\A t \in Tasks :
       pc[t] # "executing" /\ pc'[t] = "executing" => ~expired[RunOf[t]]]_vars

(***************************************************************************)
(* Every request that arrives gets a result, even if the other runs keep   *)
(* the permits and no executor ever answers.                               *)
(***************************************************************************)
RunsReturn ==
  \A r \in Runs : runState[r] = "scheduling" ~> runState[r] = "returned"

(***************************************************************************)
(* Refinement of PlanEvaluation: the verdict of a task read off the        *)
(* scheduler's collections.                                                *)
(***************************************************************************)
Verdict(t) ==
  IF t \in pending THEN "open"
  ELSE IF t \in benign THEN "benign"
  ELSE IF t \in hard THEN "hard"
  ELSE IF t \in failures THEN "failed"
  ELSE results[t]

Evaluation == INSTANCE PlanEvaluation WITH verdict <- [t \in Tasks |-> Verdict(t)]

\* The scheduler implements the evaluation of the plan: waves, retries and
\* timeouts change when verdicts come, never which verdicts are possible.
ImplementsEvaluation == Evaluation!Spec

=============================================================================
