------------------------- MODULE OrchestratorProofs -------------------------
(***************************************************************************)
(* Theorems about Orchestrator for every set of runs and tasks, every      *)
(* acyclic plan and every number of permits.                               *)
(***************************************************************************)
EXTENDS Orchestrator, FiniteSetTheorems, TLAPS

(***************************************************************************)
(* The inductive invariant.  Coroutines exist only while their run awaits  *)
(* a gather, and only for tasks that are still pending: a task that has    *)
(* left pending is never touched again, so what it published stands.       *)
(***************************************************************************)
CoroutinesBelongToWave ==
  \A t \in Tasks : pc[t] # "idle" => t \in pending /\ runState[RunOf[t]] = "gathering"

IInv ==
  /\ TypeOK
  /\ CoroutinesBelongToWave
  /\ DependenciesSucceeded

\* An acyclic plan always has a ready task while a run has a pending one.
LEMMA SomeTaskReady ==
  ASSUME TypeOK, NEW r \in Runs, PendingOf(r) # {}
  PROVE  Ready(r) # {}
<1>1. WellFormed(plan)
  BY GraphAssumption DEF TypeOK
<1>2. PendingOf(r) \in SUBSET Tasks
  BY DEF PendingOf, TasksOf, TypeOK
<1>3. PICK t \in PendingOf(r) : plan.dependsOn[t] \cap PendingOf(r) = {}
  BY <1>1, <1>2 DEF WellFormed, Acyclic
<1>4. t \in Tasks /\ RunOf[t] = r
  BY <1>3 DEF PendingOf, TasksOf
<1>5. \A d \in plan.dependsOn[t] : d \in Tasks /\ RunOf[d] = r
  BY <1>1, <1>4 DEF WellFormed
<1>6. plan.dependsOn[t] \cap pending = {}
  BY <1>3, <1>5 DEF PendingOf, TasksOf
<1> QED
  BY <1>3, <1>6 DEF Ready, Dependencies

\* The types of what an attempt records.
LEMMA ConcludeAttemptType ==
  ASSUME TypeOK, NEW t \in Tasks, NEW status \in ToolStatuses,
         ConcludeAttempt(t, status)
  PROVE  /\ attempts' \in [Tasks -> Seq(ToolStatuses)]
         /\ answer' \in [Tasks -> Answers]
         /\ pc' \in [Tasks -> TaskStates]
         /\ retryBudget' \in [Runs -> 0..RetryAllowance]
<1> USE DEF TypeOK
<1>0. RunOf[t] \in Runs
  BY GraphAssumption
<1>1. attempts' \in [Tasks -> Seq(ToolStatuses)]
  BY DEF ConcludeAttempt, Record
<1>2. answer' \in [Tasks -> Answers]
  <2>1. \A f \in BOOLEAN : [result |-> status, failed |-> f] \in Answers
    BY DEF Answers
  <2>2. \/ Answer(t, status, FALSE)
        \/ Answer(t, status, TRUE)
        \/ UNCHANGED answer
    BY DEF ConcludeAttempt
  <2> QED
    BY <2>1, <2>2 DEF Answer
<1>3. pc' \in [Tasks -> TaskStates]
  BY DEF ConcludeAttempt, MoveTo, TaskStates
<1>4. retryBudget' \in [Runs -> 0..RetryAllowance]
  <2>1. \/ UNCHANGED retryBudget
        \/ /\ retryBudget[RunOf[t]] # 0
           /\ retryBudget' = [retryBudget EXCEPT ![RunOf[t]] = @ - 1]
    BY DEF ConcludeAttempt
  <2>2. retryBudget \in [Runs -> 0..2]
    BY DEF RetryAllowance
  <2>3. ASSUME retryBudget[RunOf[t]] # 0
        PROVE  retryBudget[RunOf[t]] - 1 \in 0..2
    BY <1>0, <2>2, <2>3
  <2> QED
    BY <1>0, <2>1, <2>2, <2>3 DEF RetryAllowance
<1> QED
  BY <1>1, <1>2, <1>3, <1>4

\* The same for a failure that keeps no result.
LEMMA FailWithoutResultType ==
  ASSUME TypeOK, NEW t \in Tasks, FailWithoutResult(t)
  PROVE  /\ attempts' \in [Tasks -> Seq(ToolStatuses)]
         /\ answer' \in [Tasks -> Answers]
         /\ pc' \in [Tasks -> TaskStates]
         /\ retryBudget' = retryBudget
<1>1. "permanent_error" \in ToolStatuses
  BY DEF ToolStatuses
<1>2. attempts' \in [Tasks -> Seq(ToolStatuses)]
  BY <1>1 DEF TypeOK, FailWithoutResult, Record
<1>3. [result |-> NoResult, failed |-> TRUE] \in Answers
  BY DEF Answers
<1>4. answer' \in [Tasks -> Answers]
  BY <1>3 DEF TypeOK, FailWithoutResult, Answer
<1>5. pc' \in [Tasks -> TaskStates]
  BY DEF TypeOK, FailWithoutResult, MoveTo, TaskStates
<1> QED
  BY <1>2, <1>4, <1>5 DEF FailWithoutResult

LEMMA TypeInit == Init => TypeOK
<1> SUFFICES ASSUME Init PROVE TypeOK
  OBVIOUS
<1>1. \A t \in Tasks : <<>> \in Seq(ToolStatuses)
  OBVIOUS
<1> QED
  BY <1>1, ConcurrencyAssumption
  DEF Init, TypeOK, RunStates, TaskStates, Answers, NoAnswer, RetryAllowance

LEMMA TypeStep == TypeOK /\ [Next]_vars => TypeOK'
<1> SUFFICES ASSUME TypeOK, [Next]_vars PROVE TypeOK'
  OBVIOUS
<1> USE DEF TypeOK, runVars, mergeVars, taskVars
<1>1. ASSUME NEW r \in Runs, StartRun(r) PROVE TypeOK'
  BY <1>1 DEF StartRun, RunStates
<1>2. ASSUME NEW r \in Runs, DeadlinePasses(r) PROVE TypeOK'
  BY <1>2 DEF DeadlinePasses
<1>3. ASSUME NEW r \in Runs, StartWave(r) PROVE TypeOK'
  BY <1>3 DEF StartWave, RunStates, TaskStates, Ready, PendingOf, TasksOf
<1>5. ASSUME NEW r \in Runs, GatherReturns(r) PROVE TypeOK'
  BY <1>5 DEF GatherReturns, RunStates, TaskStates, Wave, TasksOf, Answers, NoAnswer
<1>6. ASSUME NEW r \in Runs, ReturnResult(r) PROVE TypeOK'
  BY <1>6 DEF ReturnResult, RunStates
<1>7. ASSUME NEW t \in Tasks, BuildRequest(t) PROVE TypeOK'
  BY <1>7, FailWithoutResultType
  DEF BuildRequest, FailWithoutResult, MoveTo, TaskStates
<1>8. ASSUME NEW t \in Tasks, AttemptTooLate(t) PROVE TypeOK'
  <2>1. "timeout" \in ToolStatuses
    BY DEF ToolStatuses, Transient
  <2> QED
    BY <1>8, <2>1, ConcludeAttemptType DEF AttemptTooLate
<1>9. ASSUME NEW t \in Tasks, AskPermit(t) PROVE TypeOK'
  BY <1>9 DEF AskPermit, MoveTo, TaskStates
<1>10. ASSUME NEW t \in Tasks, GrantPermit(t) PROVE TypeOK'
  BY <1>10, ConcurrencyAssumption DEF GrantPermit, MoveTo, TaskStates
<1>11. ASSUME NEW t \in Tasks, QueueTimesOut(t) PROVE TypeOK'
  <2>1. "timeout" \in ToolStatuses
    BY DEF ToolStatuses, Transient
  <2> QED
    BY <1>11, <2>1, ConcludeAttemptType DEF QueueTimesOut
<1>12. ASSUME NEW t \in Tasks, GrantTooLate(t) PROVE TypeOK'
  <2>1. "timeout" \in ToolStatuses
    BY DEF ToolStatuses, Transient
  <2> QED
    BY <1>12, <2>1, ConcludeAttemptType DEF GrantTooLate, ReleasePermit
<1>13. ASSUME NEW t \in Tasks, StartExecutor(t) PROVE TypeOK'
  BY <1>13 DEF StartExecutor, MoveTo, TaskStates
<1>14. ASSUME NEW t \in Tasks, ExecutorReturns(t) PROVE TypeOK'
  BY <1>14, ConcludeAttemptType DEF ExecutorReturns, ReleasePermit
<1>15. ASSUME NEW t \in Tasks, ExecutorTimesOut(t) PROVE TypeOK'
  <2>1. "timeout" \in ToolStatuses
    BY DEF ToolStatuses, Transient
  <2> QED
    BY <1>15, <2>1, ConcludeAttemptType DEF ExecutorTimesOut, ReleasePermit
<1>16. ASSUME NEW t \in Tasks, ExecutorFails(t) PROVE TypeOK'
  BY <1>16, FailWithoutResultType DEF ExecutorFails, ReleasePermit
<1>17. CASE UNCHANGED vars
  BY <1>17 DEF vars
<1> QED
  BY <1>1, <1>2, <1>3, <1>5, <1>6, <1>7, <1>8, <1>9, <1>10, <1>11, <1>12,
     <1>13, <1>14, <1>15, <1>16, <1>17 DEF Next, RunStep, TaskStep

\* Every reachable state has the types TypeOK states.
THEOREM TypeCorrect == Spec => []TypeOK
  BY TypeInit, TypeStep, PTL DEF Spec

-----------------------------------------------------------------------------
(***************************************************************************)
(* A step of a coroutine touches its own task only, and nothing that has   *)
(* been merged.                                                            *)
(***************************************************************************)
LEMMA TaskStepFrame ==
  ASSUME TypeOK, NEW t \in Tasks, TaskStep(t)
  PROVE  /\ pc[t] # "idle" /\ pc'[t] # "idle"
         /\ \A u \in Tasks \ {t} : pc'[u] = pc[u] /\ attempts'[u] = attempts[u]
         /\ UNCHANGED <<plan, runState, expired, mergeVars>>
<1> USE DEF TypeOK
<1>1. ASSUME NEW status, ConcludeAttempt(t, status)
      PROVE  /\ pc'[t] # "idle"
             /\ \A u \in Tasks \ {t} : pc'[u] = pc[u] /\ attempts'[u] = attempts[u]
  BY <1>1 DEF ConcludeAttempt, Record, MoveTo
<1>2. ASSUME FailWithoutResult(t)
      PROVE  /\ pc'[t] # "idle"
             /\ \A u \in Tasks \ {t} : pc'[u] = pc[u] /\ attempts'[u] = attempts[u]
  BY <1>2 DEF FailWithoutResult, Record, MoveTo
<1>3. CASE BuildRequest(t)
  BY <1>2, <1>3 DEF BuildRequest, MoveTo
<1>4. CASE AttemptTooLate(t)
  BY <1>1, <1>4 DEF AttemptTooLate
<1>5. CASE AskPermit(t)
  BY <1>5 DEF AskPermit, MoveTo, runVars
<1>6. CASE GrantPermit(t)
  BY <1>6 DEF GrantPermit, MoveTo, runVars
<1>7. CASE QueueTimesOut(t)
  BY <1>1, <1>7 DEF QueueTimesOut
<1>8. CASE GrantTooLate(t)
  BY <1>1, <1>8 DEF GrantTooLate
<1>9. CASE StartExecutor(t)
  BY <1>9 DEF StartExecutor, MoveTo, runVars
<1>10. CASE ExecutorReturns(t)
  BY <1>1, <1>10 DEF ExecutorReturns
<1>11. CASE ExecutorTimesOut(t)
  BY <1>1, <1>11 DEF ExecutorTimesOut
<1>12. CASE ExecutorFails(t)
  BY <1>2, <1>12 DEF ExecutorFails
<1> QED
  BY <1>3, <1>4, <1>5, <1>6, <1>7, <1>8, <1>9, <1>10, <1>11, <1>12 DEF TaskStep

LEMMA IInvInit == Init => IInv
  BY TypeInit
  DEF Init, IInv, CoroutinesBelongToWave, DependenciesSucceeded

LEMMA IInvStep == IInv /\ [Next]_vars => IInv'
<1> SUFFICES ASSUME IInv, [Next]_vars PROVE IInv'
  OBVIOUS
<1> USE DEF IInv, TypeOK, CoroutinesBelongToWave, runVars, mergeVars, taskVars
<1>0. TypeOK'
  BY TypeStep DEF TypeOK
<1>a. \A t \in Tasks : RunOf[t] \in Runs
  BY GraphAssumption
<1>b. \A t \in Tasks : \A d \in plan.dependsOn[t] : d \in Tasks
  BY GraphAssumption DEF WellFormed
<1>1. ASSUME NEW r \in Runs, StartRun(r) PROVE IInv'
  BY <1>0, <1>1, <1>a DEF StartRun, DependenciesSucceeded, Dependencies
<1>2. ASSUME NEW r \in Runs, DeadlinePasses(r) PROVE IInv'
  BY <1>0, <1>2 DEF DeadlinePasses, DependenciesSucceeded, Dependencies
<1>3. ASSUME NEW r \in Runs, StartWave(r) PROVE IInv'
  <2> DEFINE skipBenign == {t \in Ready(r) : BelowEmpty(t)}
             skipHard   == {t \in Ready(r) \ skipBenign : BelowFailure(t)}
             runnable   == Ready(r) \ (skipBenign \cup skipHard)
  <2>1. Ready(r) \subseteq pending /\ \A t \in Ready(r) : t \in Tasks /\ RunOf[t] = r
    BY DEF Ready, PendingOf, TasksOf
  <2>2. \A t \in runnable : \A d \in Dependencies(t) :
          results[d] = "success" /\ d \notin pending
    BY <1>b, <2>1 DEF Ready, BelowEmpty, BelowFailure
  <2>3. /\ pending' = pending \ (skipBenign \cup skipHard)
        /\ pc' = [t \in Tasks |-> IF t \in runnable THEN "building" ELSE pc[t]]
        /\ runState' = [runState EXCEPT ![r] = "gathering"]
        /\ runState[r] = "scheduling"
        /\ UNCHANGED <<plan, results, attempts>>
    BY <1>3 DEF StartWave
  <2> HIDE DEF skipBenign, skipHard, runnable
  <2>4. runnable \subseteq Ready(r) /\ runnable \cap (skipBenign \cup skipHard) = {}
        /\ skipBenign \cup skipHard \subseteq Ready(r)
    BY DEF skipBenign, skipHard, runnable
  <2>5. CoroutinesBelongToWave'
    BY <1>a, <2>1, <2>3, <2>4
  <2>6. DependenciesSucceeded'
    BY <2>1, <2>2, <2>3, <2>4 DEF DependenciesSucceeded, Dependencies
  <2> QED
    BY <1>0, <2>5, <2>6
<1>5. ASSUME NEW r \in Runs, GatherReturns(r) PROVE IInv'
  <2>1. /\ pending' = pending \ Wave(r)
        /\ results' = [t \in Tasks |-> IF t \in Wave(r) THEN answer[t].result ELSE results[t]]
        /\ pc' = [t \in Tasks |-> IF t \in Wave(r) THEN "idle" ELSE pc[t]]
        /\ runState' = [runState EXCEPT ![r] = "scheduling"]
        /\ UNCHANGED <<plan, attempts>>
    BY <1>5 DEF GatherReturns
  <2>2. Wave(r) \subseteq pending
    BY DEF Wave, TasksOf
  <2>3. CoroutinesBelongToWave'
    BY <1>a, <2>1 DEF Wave, TasksOf
  <2>4. DependenciesSucceeded'
    BY <1>b, <2>1, <2>2 DEF DependenciesSucceeded, Dependencies
  <2> QED
    BY <1>0, <2>3, <2>4
<1>6. ASSUME NEW r \in Runs, ReturnResult(r) PROVE IInv'
  BY <1>0, <1>6, <1>a DEF ReturnResult, DependenciesSucceeded, Dependencies
<1>7. ASSUME NEW t \in Tasks, TaskStep(t) PROVE IInv'
  <2>1. /\ pc[t] # "idle" /\ pc'[t] # "idle"
        /\ \A u \in Tasks \ {t} : pc'[u] = pc[u] /\ attempts'[u] = attempts[u]
        /\ UNCHANGED <<plan, runState, pending, results>>
    BY <1>7, TaskStepFrame
  <2>2. CoroutinesBelongToWave'
    BY <2>1
  <2>3. DependenciesSucceeded'
    BY <2>1 DEF DependenciesSucceeded, Dependencies
  <2> QED
    BY <1>0, <2>1, <2>2, <2>3
<1>8. CASE UNCHANGED vars
  BY <1>0, <1>8 DEF vars, DependenciesSucceeded, Dependencies
<1> QED
  BY <1>1, <1>2, <1>3, <1>5, <1>6, <1>7, <1>8 DEF Next, RunStep

(***************************************************************************)
(* No task is attempted, and no request built, before all its dependencies *)
(* have published a success (StartWave, _run_task).                        *)
(***************************************************************************)
THEOREM DependenciesCorrect == Spec => []DependenciesSucceeded
<1>1. IInv => DependenciesSucceeded
  BY DEF IInv
<1> QED
  BY <1>1, IInvInit, IInvStep, PTL DEF Spec

(***************************************************************************)
(* On an acyclic graph the scheduling loop never ends in                   *)
(* ORCHESTRATOR_GRAPH_STALLED.                                             *)
(***************************************************************************)
THEOREM StallFree == Spec => []NeverStalls
<1>1. TypeOK => NeverStalls
  BY SomeTaskReady DEF NeverStalls, Stalled
<1> QED
  BY <1>1, TypeCorrect, PTL

-----------------------------------------------------------------------------
(***************************************************************************)
(* Permits.  Granting adds one holder, each way out of an attempt removes  *)
(* one, and nothing else starts or stops holding.                          *)
(***************************************************************************)
LEMMA HoldersFinite == IsFiniteSet(Holders)
<1>1. Holders \in SUBSET Tasks
  BY DEF Holders
<1> QED
  BY <1>1, GraphAssumption, FS_Subset

\* The same holders before and after leave a conserved count conserved.
LEMMA SameHolders ==
  ASSUME PermitsConserved, Holders' = Holders, permits' = permits
  PROVE  PermitsConserved'
  BY DEF PermitsConserved

\* An attempt that ends gives its permit back.
LEMMA LeavingHolder ==
  ASSUME TypeOK, PermitsConserved, NEW t \in Tasks, t \in Holders, ReleasePermit,
         pc'[t] \notin {"granted", "executing"},
         \A u \in Tasks \ {t} : pc'[u] = pc[u]
  PROVE  PermitsConserved'
<1>1. Holders' = Holders \ {t}
  BY DEF Holders
<1>2. Cardinality(Holders') = Cardinality(Holders) - 1
  BY <1>1, HoldersFinite, FS_RemoveElement
<1>3. Cardinality(Holders) \in Nat
  BY HoldersFinite, FS_CardinalityType
<1> QED
  BY <1>2, <1>3, ConcurrencyAssumption DEF PermitsConserved, ReleasePermit, TypeOK

PInv == IInv /\ PermitsConserved

LEMMA PInvInit == Init => PInv
<1> SUFFICES ASSUME Init PROVE PermitsConserved
  BY IInvInit DEF PInv
<1>1. Holders = {}
  BY DEF Init, Holders
<1> QED
  BY <1>1, FS_EmptySet, ConcurrencyAssumption DEF Init, PermitsConserved

LEMMA PInvStep == PInv /\ [Next]_vars => PInv'
<1> SUFFICES ASSUME PInv, [Next]_vars PROVE PermitsConserved'
  BY IInvStep DEF PInv
<1>0. IInv /\ TypeOK /\ PermitsConserved /\ CoroutinesBelongToWave
  BY DEF PInv, IInv
<1> USE DEF runVars, mergeVars, taskVars
<1>1. ASSUME NEW r \in Runs, StartRun(r) \/ DeadlinePasses(r) \/ ReturnResult(r)
      PROVE  PermitsConserved'
  BY <1>0, <1>1, SameHolders DEF StartRun, DeadlinePasses, ReturnResult, Holders
<1>2. ASSUME NEW r \in Runs, StartWave(r) PROVE PermitsConserved'
  <2>1. \A t \in Ready(r) : t \in Tasks /\ RunOf[t] = r
    BY DEF Ready, PendingOf, TasksOf
  <2>2. \A t \in Ready(r) : pc[t] = "idle"
    BY <1>0, <1>2, <2>1 DEF CoroutinesBelongToWave, StartWave
  <2>3. \A t \in Tasks : pc'[t] = pc[t] \/ (pc[t] = "idle" /\ pc'[t] = "building")
    BY <1>0, <1>2, <2>2 DEF StartWave, TypeOK
  <2>4. Holders' = Holders
    BY <2>3 DEF Holders
  <2> QED
    BY <1>0, <1>2, <2>4, SameHolders DEF StartWave
<1>3. ASSUME NEW r \in Runs, GatherReturns(r) PROVE PermitsConserved'
  <2>1. \A t \in Tasks : pc'[t] = pc[t] \/ (pc[t] = "returned" /\ pc'[t] = "idle")
    BY <1>3 DEF GatherReturns
  <2>2. Holders' = Holders
    BY <2>1 DEF Holders
  <2> QED
    BY <1>0, <1>3, <2>2, SameHolders DEF GatherReturns
<1>4. ASSUME NEW t \in Tasks, NEW status, ConcludeAttempt(t, status)
      PROVE  pc'[t] \notin {"granted", "executing"}
  BY <1>0, <1>4 DEF ConcludeAttempt, MoveTo, TypeOK
<1>5. ASSUME NEW t \in Tasks, FailWithoutResult(t)
      PROVE  pc'[t] \notin {"granted", "executing"}
  BY <1>0, <1>5 DEF FailWithoutResult, MoveTo, TypeOK
<1>6. ASSUME NEW t \in Tasks, TaskStep(t) PROVE PermitsConserved'
  <2>0. \A u \in Tasks \ {t} : pc'[u] = pc[u]
    BY <1>0, <1>6, TaskStepFrame
  <2>1. CASE BuildRequest(t) \/ AttemptTooLate(t) \/ AskPermit(t) \/ QueueTimesOut(t)
    <3>1. pc[t] \notin {"granted", "executing"} /\ permits' = permits
      BY <2>1 DEF BuildRequest, AttemptTooLate, AskPermit, QueueTimesOut
    <3>2. pc'[t] \notin {"granted", "executing"}
      BY <1>0, <1>4, <1>5, <2>1
      DEF BuildRequest, AttemptTooLate, AskPermit, QueueTimesOut, MoveTo, TypeOK
    <3>3. Holders' = Holders
      BY <2>0, <3>1, <3>2 DEF Holders
    <3> QED
      BY <1>0, <3>1, <3>3, SameHolders
  <2>2. CASE GrantPermit(t)
    <3>1. pc[t] = "queued" /\ pc'[t] = "granted" /\ permits > 0 /\ permits' = permits - 1
      BY <1>0, <2>2 DEF GrantPermit, MoveTo, TypeOK
    <3>2. Holders' = Holders \cup {t} /\ t \notin Holders
      BY <2>0, <3>1 DEF Holders
    <3>3. Cardinality(Holders') = Cardinality(Holders) + 1
      BY <3>2, HoldersFinite, FS_AddElement
    <3>4. Cardinality(Holders) \in Nat /\ permits \in Nat
      BY <1>0, HoldersFinite, FS_CardinalityType DEF TypeOK
    <3> QED
      BY <1>0, <3>1, <3>3, <3>4, ConcurrencyAssumption DEF PermitsConserved
  <2>3. CASE StartExecutor(t)
    <3>1. Holders' = Holders /\ permits' = permits
      BY <1>0, <2>0, <2>3 DEF StartExecutor, MoveTo, Holders, TypeOK
    <3> QED
      BY <1>0, <3>1, SameHolders
  <2>4. CASE GrantTooLate(t) \/ ExecutorReturns(t) \/ ExecutorTimesOut(t) \/ ExecutorFails(t)
    <3>1. t \in Holders /\ ReleasePermit
      BY <2>4 DEF GrantTooLate, ExecutorReturns, ExecutorTimesOut, ExecutorFails, Holders
    <3>2. pc'[t] \notin {"granted", "executing"}
      BY <1>4, <1>5, <2>4 DEF GrantTooLate, ExecutorReturns, ExecutorTimesOut, ExecutorFails
    <3> QED
      BY <1>0, <2>0, <3>1, <3>2, LeavingHolder
  <2> QED
    BY <1>6, <2>1, <2>2, <2>3, <2>4 DEF TaskStep
<1>7. CASE UNCHANGED vars
  BY <1>0, <1>7, SameHolders DEF vars, Holders
<1> QED
  BY <1>1, <1>2, <1>3, <1>6, <1>7 DEF Next, RunStep

(***************************************************************************)
(* The shared semaphore neither leaks nor invents a permit, whatever the   *)
(* number of runs, tasks and permits and whichever way attempts end.       *)
(***************************************************************************)
THEOREM PermitsCorrect == Spec => []PermitsConserved
<1>1. PInv => PermitsConserved
  BY DEF PInv
<1> QED
  BY <1>1, PInvInit, PInvStep, PTL DEF Spec

-----------------------------------------------------------------------------
(***************************************************************************)
(* No executor starts once the deadline of its run has passed: the only    *)
(* step into "executing" is StartExecutor, after the recheck.              *)
(***************************************************************************)
THEOREM NoLateStartCorrect == Spec => NoLateStart
<1> DEFINE Step ==
      \A t \in Tasks : pc[t] # "executing" /\ pc'[t] = "executing" => ~expired[RunOf[t]]
<1>1. ASSUME TypeOK, [Next]_vars PROVE [Step]_vars
  <2> USE DEF TypeOK, taskVars
  <2>1. ASSUME NEW r \in Runs, StartRun(r) \/ DeadlinePasses(r) \/ RunStep(r) PROVE Step
    BY <1>1, <2>1 DEF StartRun, DeadlinePasses, RunStep, StartWave, GatherReturns,
                ReturnResult
  <2>2. ASSUME NEW t \in Tasks, TaskStep(t) PROVE Step
    <3>1. ASSUME NEW status, ConcludeAttempt(t, status) PROVE pc'[t] # "executing"
      BY <1>1, <3>1 DEF ConcludeAttempt, MoveTo
    <3>2. ASSUME FailWithoutResult(t) PROVE pc'[t] # "executing"
      BY <1>1, <3>2 DEF FailWithoutResult, MoveTo
    <3>3. pc'[t] = "executing" => ~expired[RunOf[t]]
      BY <1>1, <2>2, <3>1, <3>2
      DEF TaskStep, BuildRequest, AttemptTooLate, AskPermit, GrantPermit, QueueTimesOut,
          GrantTooLate, StartExecutor, ExecutorReturns, ExecutorTimesOut, ExecutorFails,
          MoveTo
    <3> QED
      BY <1>1, <2>2, <3>3, TaskStepFrame
  <2>3. CASE UNCHANGED vars
    BY <2>3
  <2> QED
    BY <1>1, <2>1, <2>2, <2>3 DEF Next
<1> QED
  BY <1>1, TypeInit, TypeStep, PTL DEF Spec, NoLateStart

-----------------------------------------------------------------------------
(***************************************************************************)
(* Attempts.  How many attempts a task has recorded follows from where its *)
(* coroutine stands: none before its wave and while its request is built,  *)
(* at most one while another may follow.                                   *)
(***************************************************************************)
AttemptsFitState ==
  \A t \in Tasks :
    /\ pc[t] = "building" => attempts[t] = <<>>
    /\ pc[t] = "idle" /\ t \in pending => attempts[t] = <<>>
    /\ pc[t] \in {"attempting", "queued", "granted", "executing"} => Len(attempts[t]) <= 1

AttemptsAreFew == \A t \in Tasks : Len(attempts[t]) <= 2

RetriesAreTransient ==
  \A t \in Tasks : Retrying(t) \/ Len(attempts[t]) = 2 => attempts[t][1] \in Transient

RetriesAreCounted ==
  \A r \in Runs : retryBudget[r] + Cardinality(Retried(r)) = RetryAllowance

RInv == IInv /\ AttemptsFitState /\ AttemptsAreFew /\ RetriesAreTransient /\ RetriesAreCounted

\* t has been, or is being, attempted a second time.
Again(t) == Retrying(t) \/ Len(attempts[t]) = 2

\* Recording an attempt makes the record one longer and leaves the first alone.
LEMMA RecordedOnce ==
  ASSUME TypeOK, NEW t \in Tasks, NEW status \in ToolStatuses, Record(t, status)
  PROVE  /\ Len(attempts'[t]) = Len(attempts[t]) + 1
         /\ attempts'[t] # <<>>
         /\ Len(attempts[t]) = 0 => attempts'[t][1] = status
         /\ Len(attempts[t]) = 1 => attempts'[t][1] = attempts[t][1]
<1> DEFINE s == attempts[t]
<1>1. s \in Seq(ToolStatuses) /\ attempts'[t] = Append(s, status)
  BY DEF TypeOK, Record
<1> HIDE DEF s
<1>2. Len(Append(s, status)) = Len(s) + 1 /\ Append(s, status) # <<>>
  BY <1>1
<1>3. Len(s) = 0 => Append(s, status)[1] = status
  BY <1>1
<1>4. Len(s) = 1 => Append(s, status)[1] = s[1]
  BY <1>1
<1> QED
  BY <1>1, <1>2, <1>3, <1>4 DEF s

LEMMA RetriedFinite ==
  ASSUME NEW r \in Runs
  PROVE  IsFiniteSet(Retried(r)) /\ Cardinality(Retried(r)) \in Nat
<1>1. Retried(r) \in SUBSET Tasks
  BY DEF Retried, TasksOf
<1> QED
  BY <1>1, GraphAssumption, FS_Subset, FS_CardinalityType

(***************************************************************************)
(* What a step of a coroutine does to its own task's attempts: nothing     *)
(* while it stays the same attempt; an end that leaves the budget alone;   *)
(* or a first transient attempt whose repetition is charged.               *)
(***************************************************************************)
LEMMA AttemptStep ==
  ASSUME RInv, NEW t \in Tasks, TaskStep(t)
  PROVE  /\ Len(attempts'[t]) <= 2
         /\ pc'[t] # "building"
         /\ pc'[t] \in {"attempting", "queued", "granted", "executing"} => Len(attempts'[t]) <= 1
         /\ Again(t)' => attempts'[t][1] \in Transient
         /\ \/ (Again(t)' <=> Again(t)) /\ retryBudget' = retryBudget
            \/ /\ ~Again(t) /\ Again(t)' /\ retryBudget[RunOf[t]] # 0
               /\ retryBudget' = [retryBudget EXCEPT ![RunOf[t]] = @ - 1]
<1> DEFINE Out == {"attempting", "queued", "granted", "executing"}
           n == Len(attempts[t])
           m == Len(attempts'[t])
<1>0. TypeOK /\ n \in Nat /\ RunOf[t] \in Runs /\ pc \in [Tasks -> TaskStates]
  BY GraphAssumption DEF RInv, IInv, TypeOK
<1>a. /\ n <= 2
      /\ pc[t] = "building" => n = 0
      /\ pc[t] \in Out => n <= 1
      /\ Again(t) => attempts[t][1] \in Transient
  BY DEF RInv, AttemptsFitState, AttemptsAreFew, RetriesAreTransient, Again
<1>b. /\ Again(t) <=> (pc[t] \in Out /\ n = 1) \/ n = 2
      /\ Again(t)' <=> (pc'[t] \in Out /\ m = 1) \/ m = 2
  BY DEF Again, Retrying
<1>c. ASSUME NEW status \in ToolStatuses, Record(t, status)
      PROVE  /\ m = n + 1
             /\ n = 0 => attempts'[t][1] = status
             /\ n = 1 => attempts'[t][1] = attempts[t][1]
  BY <1>0, <1>c, RecordedOnce
<1>d. UNCHANGED attempts => m = n /\ attempts'[t] = attempts[t]
  OBVIOUS
<1> HIDE DEF n, m
<1> SUFFICES /\ m <= 2
             /\ pc'[t] # "building"
             /\ pc'[t] \in Out => m <= 1
             /\ Again(t)' => attempts'[t][1] \in Transient
             /\ \/ (Again(t)' <=> Again(t)) /\ retryBudget' = retryBudget
                \/ /\ ~Again(t) /\ Again(t)' /\ retryBudget[RunOf[t]] # 0
                   /\ retryBudget' = [retryBudget EXCEPT ![RunOf[t]] = @ - 1]
  BY DEF m
<1>1. ASSUME NEW status \in ToolStatuses, ConcludeAttempt(t, status), pc[t] \in Out
      PROVE  /\ m <= 2
             /\ pc'[t] # "building"
             /\ pc'[t] \in Out => m <= 1
             /\ Again(t)' => attempts'[t][1] \in Transient
             /\ \/ (Again(t)' <=> Again(t)) /\ retryBudget' = retryBudget
                \/ /\ ~Again(t) /\ Again(t)' /\ retryBudget[RunOf[t]] # 0
                   /\ retryBudget' = [retryBudget EXCEPT ![RunOf[t]] = @ - 1]
  <2>1. /\ m = n + 1
        /\ n = 0 => attempts'[t][1] = status
        /\ n = 1 => attempts'[t][1] = attempts[t][1]
    BY <1>c, <1>1 DEF ConcludeAttempt
  <2>2. n = 0 \/ n = 1
    BY <1>0, <1>1, <1>a
  <2>3. CASE pc'[t] = "returned" /\ retryBudget' = retryBudget
    BY <1>1, <1>a, <1>b, <2>1, <2>2, <2>3
  <2>4. CASE /\ pc'[t] = "attempting" /\ status \in Transient /\ n # 1
             /\ retryBudget[RunOf[t]] # 0
             /\ retryBudget' = [retryBudget EXCEPT ![RunOf[t]] = @ - 1]
    BY <1>b, <2>1, <2>2, <2>4
  <2>5. \/ pc'[t] = "returned" /\ retryBudget' = retryBudget
        \/ /\ pc'[t] = "attempting" /\ status \in Transient /\ n # 1
           /\ retryBudget[RunOf[t]] # 0
           /\ retryBudget' = [retryBudget EXCEPT ![RunOf[t]] = @ - 1]
    BY <1>0, <1>1 DEF ConcludeAttempt, MoveTo, n
  <2> QED
    BY <2>3, <2>4, <2>5
<1>2. ASSUME FailWithoutResult(t), pc[t] \in Out \cup {"building"}
      PROVE  /\ m <= 2
             /\ pc'[t] = "returned"
             /\ Again(t)' => attempts'[t][1] \in Transient
             /\ (Again(t)' <=> Again(t)) /\ retryBudget' = retryBudget
  <2>0. "permanent_error" \in ToolStatuses
    BY DEF ToolStatuses
  <2>1. m = n + 1 /\ (n = 1 => attempts'[t][1] = attempts[t][1])
    BY <1>c, <1>2, <2>0 DEF FailWithoutResult
  <2>2. (n = 0 \/ n = 1) /\ (pc[t] = "building" => n = 0)
    BY <1>0, <1>2, <1>a
  <2>3. pc'[t] = "returned" /\ retryBudget' = retryBudget
    BY <1>0, <1>2 DEF FailWithoutResult, MoveTo
  <2> QED
    BY <1>2, <1>a, <1>b, <2>1, <2>2, <2>3
<1>3. ASSUME pc[t] \in Out \cup {"building"}, NEW where \in Out, MoveTo(t, where),
             UNCHANGED <<attempts, retryBudget>>
      PROVE  /\ pc'[t] \in Out /\ m <= 1 /\ m <= 2
             /\ Again(t)' => attempts'[t][1] \in Transient
             /\ (Again(t)' <=> Again(t)) /\ retryBudget' = retryBudget
  <2>1. pc'[t] = where
    BY <1>0, <1>3 DEF MoveTo
  <2>2. (n = 0 \/ n = 1) /\ (pc[t] = "building" => n = 0)
    BY <1>0, <1>3, <1>a
  <2> QED
    BY <1>3, <1>a, <1>b, <1>d, <2>1, <2>2
<1>4. "timeout" \in ToolStatuses
  BY DEF ToolStatuses, Transient
<1>5. CASE BuildRequest(t)
  <2>1. CASE FailWithoutResult(t)
    BY <1>2, <1>5, <2>1 DEF BuildRequest
  <2>2. CASE MoveTo(t, "attempting") /\ UNCHANGED <<attempts, answer, retryBudget>>
    BY <1>3, <1>5, <2>2 DEF BuildRequest
  <2> QED
    BY <1>5, <2>1, <2>2 DEF BuildRequest
<1>6. CASE AskPermit(t) \/ GrantPermit(t) \/ StartExecutor(t)
  <2>1. pc[t] \in Out \cup {"building"} /\ UNCHANGED <<attempts, retryBudget>>
    BY <1>6 DEF AskPermit, GrantPermit, StartExecutor, runVars
  <2>2. PICK where \in Out : MoveTo(t, where)
    BY <1>6 DEF AskPermit, GrantPermit, StartExecutor
  <2>3. pc'[t] \in Out /\ m <= 1 /\ m <= 2 /\ (Again(t)' => attempts'[t][1] \in Transient)
    BY <1>3, <2>1, <2>2
  <2>4. (Again(t)' <=> Again(t)) /\ retryBudget' = retryBudget
    BY <1>3, <2>1, <2>2
  <2> QED
    BY <1>0, <2>3, <2>4
<1>7. CASE AttemptTooLate(t) \/ QueueTimesOut(t) \/ GrantTooLate(t) \/ ExecutorReturns(t)
          \/ ExecutorTimesOut(t)
  <2>1. pc[t] \in Out
    BY <1>7
    DEF AttemptTooLate, QueueTimesOut, GrantTooLate, ExecutorReturns, ExecutorTimesOut
  <2>2. PICK status \in ToolStatuses : ConcludeAttempt(t, status)
    BY <1>4, <1>7
    DEF AttemptTooLate, QueueTimesOut, GrantTooLate, ExecutorReturns, ExecutorTimesOut
  <2> QED
    BY <1>1, <2>1, <2>2
<1>8. CASE ExecutorFails(t)
  BY <1>2, <1>8 DEF ExecutorFails
<1> QED
  BY <1>5, <1>6, <1>7, <1>8 DEF TaskStep

LEMMA RInvInit == Init => RInv
<1> SUFFICES ASSUME Init
             PROVE  AttemptsFitState /\ AttemptsAreFew /\ RetriesAreTransient /\ RetriesAreCounted
  BY IInvInit DEF RInv
<1>1. \A t \in Tasks : attempts[t] = <<>> /\ Len(attempts[t]) = 0 /\ pc[t] = "idle"
  BY DEF Init
<1>2. \A r \in Runs : Retried(r) = {}
  BY <1>1 DEF Retried, Retrying, TasksOf
<1>3. \A r \in Runs : retryBudget[r] = RetryAllowance /\ RetryAllowance \in Nat
  BY DEF Init, RetryAllowance
<1>4. AttemptsFitState /\ AttemptsAreFew /\ RetriesAreTransient
  BY <1>1 DEF AttemptsFitState, AttemptsAreFew, RetriesAreTransient, Retrying
<1>5. RetriesAreCounted
  BY <1>2, <1>3, FS_EmptySet DEF RetriesAreCounted
<1> QED
  BY <1>4, <1>5

\* Steps of the scheduler move coroutines, but none into or out of an attempt.
LEMMA SameAttempts ==
  ASSUME RInv, AttemptsFitState', UNCHANGED <<attempts, retryBudget>>,
         \A t \in Tasks : Retrying(t)' <=> Retrying(t)
  PROVE  /\ AttemptsFitState' /\ AttemptsAreFew'
         /\ RetriesAreTransient' /\ RetriesAreCounted'
<1>1. \A r \in Runs : Retried(r)' = Retried(r)
  BY DEF Retried, TasksOf
<1>2. AttemptsAreFew' /\ RetriesAreTransient'
  BY DEF RInv, AttemptsAreFew, RetriesAreTransient
<1>3. RetriesAreCounted'
  BY <1>1 DEF RInv, RetriesAreCounted
<1> QED
  BY <1>2, <1>3

LEMMA RInvStep == RInv /\ [Next]_vars => RInv'
<1> SUFFICES ASSUME RInv, [Next]_vars
             PROVE  /\ AttemptsFitState' /\ AttemptsAreFew'
                    /\ RetriesAreTransient' /\ RetriesAreCounted'
  BY IInvStep DEF RInv
<1>0. IInv /\ TypeOK /\ CoroutinesBelongToWave /\ AttemptsFitState
  BY DEF RInv, IInv
<1> USE DEF runVars, mergeVars, taskVars
<1>1. ASSUME NEW r \in Runs, StartRun(r) \/ DeadlinePasses(r) \/ ReturnResult(r)
      PROVE  /\ AttemptsFitState' /\ AttemptsAreFew'
             /\ RetriesAreTransient' /\ RetriesAreCounted'
  <2>1. UNCHANGED <<pc, attempts, retryBudget, pending>>
    BY <1>1 DEF StartRun, DeadlinePasses, ReturnResult
  <2> QED
    BY <1>0, <2>1, SameAttempts DEF AttemptsFitState, Retrying
<1>2. ASSUME NEW r \in Runs, StartWave(r)
      PROVE  /\ AttemptsFitState' /\ AttemptsAreFew'
             /\ RetriesAreTransient' /\ RetriesAreCounted'
  <2>1. \A t \in Ready(r) : t \in Tasks /\ RunOf[t] = r /\ t \in pending
    BY DEF Ready, PendingOf, TasksOf
  <2>2. \A t \in Ready(r) : pc[t] = "idle"
    BY <1>0, <1>2, <2>1 DEF CoroutinesBelongToWave, StartWave
  <2>3. /\ \A t \in Tasks : pc'[t] = pc[t] \/ (t \in Ready(r) /\ pc'[t] = "building")
        /\ pending' \subseteq pending /\ UNCHANGED <<attempts, retryBudget>>
    BY <1>2 DEF StartWave
  <2>4. AttemptsFitState'
    BY <1>0, <2>1, <2>2, <2>3 DEF AttemptsFitState
  <2>5. \A t \in Tasks : Retrying(t)' <=> Retrying(t)
    BY <2>2, <2>3 DEF Retrying
  <2> QED
    BY <2>3, <2>4, <2>5, SameAttempts
<1>3. ASSUME NEW r \in Runs, GatherReturns(r)
      PROVE  /\ AttemptsFitState' /\ AttemptsAreFew'
             /\ RetriesAreTransient' /\ RetriesAreCounted'
  <2>1. /\ \A t \in Tasks :
             \/ pc'[t] = pc[t] /\ (t \in pending' => t \in pending)
             \/ pc[t] = "returned" /\ pc'[t] = "idle" /\ t \notin pending'
        /\ UNCHANGED <<attempts, retryBudget>>
    BY <1>3 DEF GatherReturns
  <2>2. AttemptsFitState'
    BY <1>0, <2>1 DEF AttemptsFitState
  <2>3. \A t \in Tasks : Retrying(t)' <=> Retrying(t)
    BY <2>1 DEF Retrying
  <2> QED
    BY <2>1, <2>2, <2>3, SameAttempts
<1>4. ASSUME NEW t \in Tasks, TaskStep(t)
      PROVE  /\ AttemptsFitState' /\ AttemptsAreFew'
             /\ RetriesAreTransient' /\ RetriesAreCounted'
  <2>1. /\ pc'[t] # "idle"
        /\ \A u \in Tasks \ {t} : pc'[u] = pc[u] /\ attempts'[u] = attempts[u]
        /\ pending' = pending
    BY <1>0, <1>4, TaskStepFrame
  <2>2. /\ Len(attempts'[t]) <= 2
        /\ pc'[t] # "building"
        /\ pc'[t] \in {"attempting", "queued", "granted", "executing"} => Len(attempts'[t]) <= 1
        /\ Again(t)' => attempts'[t][1] \in Transient
    BY <1>4, AttemptStep
  <2>3. AttemptsFitState'
    BY <1>0, <2>1, <2>2 DEF AttemptsFitState
  <2>4. AttemptsAreFew'
    BY <2>1, <2>2 DEF RInv, AttemptsAreFew
  <2>5. \A u \in Tasks \ {t} : Again(u)' <=> Again(u)
    BY <2>1 DEF Again, Retrying
  <2>6. RetriesAreTransient'
    BY <2>1, <2>2, <2>5 DEF RInv, RetriesAreTransient, Again
  <2>7. \A r \in Runs : Retried(r) = {u \in TasksOf(r) : Again(u)}
    BY DEF Retried, Again
  <2>8. \A r \in Runs : Retried(r)' = {u \in TasksOf(r) : Again(u)'}
    BY DEF Retried, Again, TasksOf
  <2>9. RetriesAreCounted'
    <3>1. CASE (Again(t)' <=> Again(t)) /\ retryBudget' = retryBudget
      <4>0. \A u \in Tasks : Again(u)' <=> Again(u)
        BY <2>5, <3>1
      <4>1. ASSUME NEW r \in Runs PROVE Retried(r)' = Retried(r)
        <5>1. \A u : u \in TasksOf(r) => u \in Tasks
          BY DEF TasksOf
        <5>2. \A u : u \in Retried(r) <=> u \in TasksOf(r) /\ Again(u)
          BY <2>7
        <5>3. \A u : u \in Retried(r)' <=> u \in TasksOf(r) /\ Again(u)'
          BY <2>8
        <5> QED
          BY <4>0, <5>1, <5>2, <5>3
      <4> QED
        BY <3>1, <4>1 DEF RInv, RetriesAreCounted
    <3>2. CASE /\ ~Again(t) /\ Again(t)' /\ retryBudget[RunOf[t]] # 0
               /\ retryBudget' = [retryBudget EXCEPT ![RunOf[t]] = @ - 1]
      <4> SUFFICES ASSUME NEW r \in Runs
                   PROVE  retryBudget'[r] + Cardinality(Retried(r)') = RetryAllowance
        BY DEF RetriesAreCounted
      <4>1. retryBudget[r] + Cardinality(Retried(r)) = RetryAllowance
        BY DEF RInv, RetriesAreCounted
      <4>2. retryBudget[r] \in 0..2 /\ Cardinality(Retried(r)) \in Nat /\ RetryAllowance = 2
        BY <1>0, RetriedFinite DEF TypeOK, RetryAllowance
      <4>3. CASE r = RunOf[t]
        <5>1. Retried(r)' = Retried(r) \cup {t} /\ t \notin Retried(r)
          BY <2>5, <2>7, <2>8, <3>2, <4>3 DEF TasksOf
        <5>2. Cardinality(Retried(r) \cup {t}) = Cardinality(Retried(r)) + 1
          BY <5>1, RetriedFinite, FS_AddElement
        <5>3. retryBudget'[r] = retryBudget[r] - 1
          BY <1>0, <3>2, <4>3 DEF TypeOK
        <5> QED
          BY <4>1, <4>2, <5>1, <5>2, <5>3
      <4>4. CASE r # RunOf[t]
        <5>1. Retried(r)' = Retried(r)
          BY <2>5, <2>7, <2>8, <4>4 DEF TasksOf
        <5>2. retryBudget'[r] = retryBudget[r]
          BY <1>0, <3>2, <4>4 DEF TypeOK
        <5> QED
          BY <4>1, <5>1, <5>2
      <4> QED
        BY <4>3, <4>4
    <3> QED
      BY <1>4, <3>1, <3>2, AttemptStep
  <2> QED
    BY <2>3, <2>4, <2>6, <2>9
<1>5. CASE UNCHANGED vars
  <2>1. UNCHANGED <<pc, attempts, retryBudget, pending>>
    BY <1>5 DEF vars
  <2> QED
    BY <1>0, <2>1, SameAttempts DEF AttemptsFitState, Retrying
<1> QED
  BY <1>1, <1>2, <1>3, <1>4, <1>5 DEF Next, RunStep

(***************************************************************************)
(* The retries of a run are never more than its budget, each is charged    *)
(* once, and only a transient failure is retried, once per task            *)
(* (_RetryBudget.consume, _run_task).                                      *)
(***************************************************************************)
THEOREM RetriesCorrect == Spec => []RetriesAreCharged
<1>1. RInv => RetriesAreCharged
  BY DEF RInv, AttemptsAreFew, RetriesAreTransient, RetriesAreCounted, RetriesAreCharged
<1> QED
  BY <1>1, RInvInit, RInvStep, PTL DEF Spec

-----------------------------------------------------------------------------
(***************************************************************************)
(* Collections.  A task that has left pending is answered, failed, or      *)
(* skipped in exactly one of the two ways, and the scheduler's collections *)
(* agree on which; a pending task is in none of them.                      *)
(***************************************************************************)
CollectionsFit ==
  \A t \in Tasks :
    \/ /\ t \in pending
       /\ results[t] = NoResult
       /\ t \notin failures \cup benign \cup hard
    \/ /\ t \notin pending \cup benign \cup hard
       /\ attempts[t] # <<>>
       /\ results[t] \in Answered <=> t \notin failures
    \/ /\ t \notin pending \cup failures
       /\ results[t] = NoResult
       /\ attempts[t] = <<>>
       /\ t \in benign <=> t \notin hard

\* What a coroutine hands to the gather: a failure or an answer, never both.
AnswersFit ==
  \A t \in Tasks : pc[t] = "returned" =>
    /\ attempts[t] # <<>>
    /\ answer[t].failed <=> answer[t].result \notin Answered

\* A run returns once, when none of its tasks is pending any more.
ReturnsFit ==
  \A r \in Runs :
    /\ runState[r] = "returned" => PendingOf(r) = {}
    /\ runState[r] # "returned" => outcome[r] = "none"

CInv == RInv /\ CollectionsFit /\ AnswersFit /\ ReturnsFit

LEMMA CInvInit == Init => CInv
<1> SUFFICES ASSUME Init PROVE CollectionsFit /\ AnswersFit /\ ReturnsFit
  BY RInvInit DEF CInv
<1> QED
  BY DEF Init, CollectionsFit, AnswersFit, ReturnsFit

\* A coroutine that returns has recorded an attempt and answered in kind.
LEMMA TaskStepAnswer ==
  ASSUME TypeOK, NEW t \in Tasks, TaskStep(t)
  PROVE  /\ pc'[t] = "returned" =>
              /\ attempts'[t] # <<>>
              /\ answer'[t].failed <=> answer'[t].result \notin Answered
         /\ \A u \in Tasks \ {t} : answer'[u] = answer[u]
<1>0. pc \in [Tasks -> TaskStates] /\ answer \in [Tasks -> Answers]
  BY DEF TypeOK
<1>1. ASSUME NEW status \in ToolStatuses, ConcludeAttempt(t, status)
      PROVE  /\ pc'[t] = "returned" =>
                  /\ attempts'[t] # <<>>
                  /\ answer'[t].failed <=> answer'[t].result \notin Answered
             /\ \A u \in Tasks \ {t} : answer'[u] = answer[u]
  <2>1. attempts'[t] # <<>>
    BY <1>1, RecordedOnce DEF ConcludeAttempt
  <2>2. CASE status \in Answered /\ Answer(t, status, FALSE)
    BY <1>0, <2>1, <2>2 DEF Answer
  <2>3. CASE status \notin Answered /\ Answer(t, status, TRUE)
    BY <1>0, <2>1, <2>3 DEF Answer
  <2>4. CASE UNCHANGED answer /\ MoveTo(t, "attempting")
    BY <1>0, <2>4 DEF MoveTo
  <2> QED
    BY <1>1, <2>2, <2>3, <2>4 DEF ConcludeAttempt
<1>2. ASSUME FailWithoutResult(t)
      PROVE  /\ attempts'[t] # <<>>
             /\ answer'[t].failed <=> answer'[t].result \notin Answered
             /\ \A u \in Tasks \ {t} : answer'[u] = answer[u]
  <2>1. "permanent_error" \in ToolStatuses /\ NoResult \notin Answered
    BY DEF ToolStatuses, NoResult, Answered
  <2>2. attempts'[t] # <<>>
    BY <1>2, <2>1, RecordedOnce DEF FailWithoutResult
  <2> QED
    BY <1>0, <1>2, <2>1, <2>2 DEF FailWithoutResult, Answer
<1>3. ASSUME NEW where, where # "returned", MoveTo(t, where), UNCHANGED answer
      PROVE  /\ pc'[t] # "returned"
             /\ \A u \in Tasks \ {t} : answer'[u] = answer[u]
  BY <1>0, <1>3 DEF MoveTo
<1>4. CASE BuildRequest(t)
  BY <1>2, <1>3, <1>4 DEF BuildRequest
<1>5. CASE AskPermit(t)
  BY <1>3, <1>5 DEF AskPermit
<1>6. CASE GrantPermit(t)
  BY <1>3, <1>6 DEF GrantPermit
<1>7. CASE StartExecutor(t)
  BY <1>3, <1>7 DEF StartExecutor
<1>8. CASE AttemptTooLate(t) \/ QueueTimesOut(t) \/ GrantTooLate(t) \/ ExecutorReturns(t)
          \/ ExecutorTimesOut(t)
  <2>1. "timeout" \in ToolStatuses
    BY DEF ToolStatuses, Transient
  <2>2. PICK status \in ToolStatuses : ConcludeAttempt(t, status)
    BY <1>8, <2>1
    DEF AttemptTooLate, QueueTimesOut, GrantTooLate, ExecutorReturns, ExecutorTimesOut
  <2> QED
    BY <1>1, <2>2
<1>9. CASE ExecutorFails(t)
  BY <1>2, <1>9 DEF ExecutorFails
<1> QED
  BY <1>4, <1>5, <1>6, <1>7, <1>8, <1>9 DEF TaskStep

LEMMA CInvStep == CInv /\ [Next]_vars => CInv'
<1> SUFFICES ASSUME CInv, [Next]_vars PROVE CollectionsFit' /\ AnswersFit' /\ ReturnsFit'
  BY RInvStep DEF CInv
<1>0. /\ TypeOK /\ CoroutinesBelongToWave /\ AttemptsFitState
      /\ CollectionsFit /\ AnswersFit /\ ReturnsFit
  BY DEF CInv, RInv, IInv
<1> USE DEF runVars, mergeVars, taskVars
<1>1. ASSUME NEW r \in Runs, StartRun(r) \/ DeadlinePasses(r) \/ ReturnResult(r)
      PROVE  CollectionsFit' /\ AnswersFit' /\ ReturnsFit'
  <2>1. UNCHANGED <<pending, results, failures, benign, hard, pc, attempts, answer>>
    BY <1>1 DEF StartRun, DeadlinePasses, ReturnResult
  <2>2. CollectionsFit' /\ AnswersFit'
    BY <1>0, <2>1 DEF CollectionsFit, AnswersFit
  <2>3. \A q \in Runs : PendingOf(q)' = PendingOf(q)
    BY <2>1 DEF PendingOf, TasksOf
  <2>4. ASSUME StartRun(r) \/ DeadlinePasses(r) PROVE ReturnsFit'
    BY <1>0, <2>3, <2>4 DEF StartRun, DeadlinePasses, ReturnsFit, TypeOK
  <2>5. ASSUME ReturnResult(r) PROVE ReturnsFit'
    <3>1. PendingOf(r) = {} /\ runState'[r] = "returned"
      BY <1>0, <2>5 DEF ReturnResult, TypeOK
    <3>2. \A q \in Runs \ {r} : runState'[q] = runState[q] /\ outcome'[q] = outcome[q]
      BY <1>0, <2>5 DEF ReturnResult, TypeOK
    <3> QED
      BY <1>0, <2>3, <3>1, <3>2 DEF ReturnsFit
  <2> QED
    BY <1>1, <2>2, <2>4, <2>5
<1>2. ASSUME NEW r \in Runs, StartWave(r)
      PROVE  CollectionsFit' /\ AnswersFit' /\ ReturnsFit'
  <2>1. PICK skipBenign \in SUBSET Ready(r), skipHard \in SUBSET Ready(r) :
          /\ skipBenign \cap skipHard = {}
          /\ benign' = benign \cup skipBenign
          /\ hard' = hard \cup skipHard
          /\ pending' = pending \ (skipBenign \cup skipHard)
    <3> DEFINE B == {t \in Ready(r) : BelowEmpty(t)}
               H == {t \in Ready(r) \ B : BelowFailure(t)}
    <3>1. B \in SUBSET Ready(r) /\ H \in SUBSET Ready(r) /\ B \cap H = {}
      OBVIOUS
    <3>2. benign' = benign \cup B /\ hard' = hard \cup H /\ pending' = pending \ (B \cup H)
      BY <1>2 DEF StartWave
    <3> HIDE DEF B, H
    <3> QED
      BY <3>1, <3>2
  <2>2. /\ \A t \in Tasks : pc'[t] = pc[t] \/ pc'[t] = "building"
        /\ runState' = [runState EXCEPT ![r] = "gathering"] /\ runState[r] = "scheduling"
        /\ UNCHANGED <<results, failures, outcome, attempts, answer>>
    BY <1>2 DEF StartWave
  <2>3. \A t \in Ready(r) : t \in pending /\ attempts[t] = <<>>
    <3>1. \A t \in Ready(r) : t \in Tasks /\ RunOf[t] = r /\ t \in pending
      BY DEF Ready, PendingOf, TasksOf
    <3> QED
      BY <1>0, <2>2, <3>1 DEF CoroutinesBelongToWave, AttemptsFitState
  <2>4. CollectionsFit'
    BY <1>0, <2>1, <2>2, <2>3 DEF CollectionsFit
  <2>5. AnswersFit'
    BY <1>0, <2>2 DEF AnswersFit
  <2>6. ReturnsFit'
    BY <1>0, <2>1, <2>2 DEF ReturnsFit, PendingOf, TypeOK
  <2> QED
    BY <2>4, <2>5, <2>6
<1>3. ASSUME NEW r \in Runs, GatherReturns(r)
      PROVE  CollectionsFit' /\ AnswersFit' /\ ReturnsFit'
  <2>1. /\ \A t \in Wave(r) : t \in Tasks /\ pc[t] = "returned" /\ t \in pending
        /\ pending' = pending \ Wave(r)
        /\ results' = [t \in Tasks |-> IF t \in Wave(r) THEN answer[t].result ELSE results[t]]
        /\ failures' = failures \cup {t \in Wave(r) : answer[t].failed}
        /\ \A t \in Tasks : pc'[t] = "returned" => pc[t] = "returned" /\ t \notin Wave(r)
        /\ \A t \in Tasks \ Wave(r) : answer'[t] = answer[t]
        /\ runState' = [runState EXCEPT ![r] = "scheduling"]
        /\ UNCHANGED <<benign, hard, outcome, attempts>>
    BY <1>0, <1>3 DEF GatherReturns, CoroutinesBelongToWave, Wave, TasksOf
  <2>2. CollectionsFit'
    <3> SUFFICES ASSUME NEW t \in Tasks
                 PROVE  \/ /\ t \in pending'
                           /\ results'[t] = NoResult
                           /\ t \notin failures' \cup benign' \cup hard'
                        \/ /\ t \notin pending' \cup benign' \cup hard'
                           /\ attempts'[t] # <<>>
                           /\ results'[t] \in Answered <=> t \notin failures'
                        \/ /\ t \notin pending' \cup failures'
                           /\ results'[t] = NoResult
                           /\ attempts'[t] = <<>>
                           /\ t \in benign' <=> t \notin hard'
      BY DEF CollectionsFit
    <3>1. CASE t \in Wave(r)
      <4>1. /\ t \in pending /\ t \notin failures \cup benign \cup hard
            /\ attempts[t] # <<>> /\ (answer[t].failed <=> answer[t].result \notin Answered)
        BY <1>0, <2>1, <3>1 DEF CollectionsFit, AnswersFit
      <4> QED
        BY <2>1, <3>1, <4>1
    <3>2. CASE t \notin Wave(r)
      BY <1>0, <2>1, <3>2 DEF CollectionsFit
    <3> QED
      BY <3>1, <3>2
  <2>3. AnswersFit'
    BY <1>0, <2>1 DEF AnswersFit
  <2>4. ReturnsFit'
    BY <1>0, <1>3, <2>1 DEF ReturnsFit, PendingOf, TypeOK, GatherReturns
  <2> QED
    BY <2>2, <2>3, <2>4
<1>4. ASSUME NEW t \in Tasks, TaskStep(t)
      PROVE  CollectionsFit' /\ AnswersFit' /\ ReturnsFit'
  <2>1. /\ pc[t] # "idle"
        /\ \A u \in Tasks \ {t} : pc'[u] = pc[u] /\ attempts'[u] = attempts[u]
        /\ UNCHANGED <<runState, pending, results, failures, benign, hard, outcome>>
    BY <1>0, <1>4, TaskStepFrame
  <2>2. t \in pending
    BY <1>0, <2>1 DEF CoroutinesBelongToWave
  <2>3. CollectionsFit'
    BY <1>0, <2>1, <2>2 DEF CollectionsFit
  <2>4. AnswersFit'
    BY <1>0, <1>4, <2>1, TaskStepAnswer DEF AnswersFit
  <2>5. ReturnsFit'
    BY <1>0, <2>1 DEF ReturnsFit, PendingOf
  <2> QED
    BY <2>3, <2>4, <2>5
<1>5. CASE UNCHANGED vars
  BY <1>0, <1>5 DEF vars, CollectionsFit, AnswersFit, ReturnsFit, PendingOf, TasksOf
<1> QED
  BY <1>1, <1>2, <1>3, <1>4, <1>5 DEF Next, RunStep

LEMMA CInvariant == Spec => []CInv
  BY CInvInit, CInvStep, PTL DEF Spec

(***************************************************************************)
(* No run that returns is refused by OrchestrationResult.validate_result:  *)
(* its completed, failed and skipped tasks partition its graph, and the    *)
(* attempt records are exactly those of the executed tasks.                *)
(***************************************************************************)
THEOREM ResultCorrect == Spec => []ResultIsValid
<1>1. CInv => ResultIsValid
  <2> SUFFICES ASSUME CInv, NEW r \in Runs, runState[r] = "returned"
               PROVE  LET completed == {t \in TasksOf(r) : results[t] \in Answered}
                          failed    == failures \cap TasksOf(r)
                          skipped   == (benign \cup hard) \cap TasksOf(r)
                          attempted == {t \in TasksOf(r) : attempts[t] # <<>>}
                      IN  /\ completed \cap failed = {} /\ completed \cap skipped = {}
                          /\ failed \cap skipped = {}
                          /\ benign \cap hard = {}
                          /\ completed \cup failed \cup skipped = TasksOf(r)
                          /\ {t \in TasksOf(r) : results[t] \notin Answered \cup {NoResult}}
                               \subseteq failed
                          /\ attempted = completed \cup failed
    BY Zenon DEF ResultIsValid
  <2>1. \A t \in TasksOf(r) : t \in Tasks /\ t \notin pending
    BY DEF CInv, ReturnsFit, PendingOf, TasksOf
  <2>2. NoResult \notin Answered
    BY DEF NoResult, Answered
  <2>3. \A t \in TasksOf(r) :
          \/ /\ t \notin benign \cup hard
             /\ attempts[t] # <<>>
             /\ results[t] \in Answered <=> t \notin failures
          \/ /\ t \notin failures
             /\ results[t] = NoResult
             /\ attempts[t] = <<>>
             /\ t \in benign <=> t \notin hard
    BY <2>1 DEF CInv, CollectionsFit
  <2>4. benign \cap hard = {}
    <3>1. benign \subseteq Tasks
      BY DEF CInv, RInv, IInv, TypeOK
    <3> QED
      BY <3>1 DEF CInv, CollectionsFit
  <2> QED
    BY <2>2, <2>3, <2>4
<1> QED
  BY <1>1, CInvariant, PTL

-----------------------------------------------------------------------------
(***************************************************************************)
(* The refinement.  A step that keeps the collections keeps every verdict; *)
(* StartWave resolves the tasks it skips, GatherReturns those that ran,    *)
(* and ReturnResult concludes the run.                                     *)
(***************************************************************************)
verdictBar == [t \in Tasks |-> Verdict(t)]

\* A verdict is open exactly while its task is pending, and otherwise says
\* which of the collections holds the task.
LEMMA VerdictReadOff ==
  ASSUME CInv, NEW t \in Tasks
  PROVE  /\ Verdict(t) = "open" <=> t \in pending
         /\ Verdict(t) = "benign" <=> t \in benign
         /\ Verdict(t) = "hard" <=> t \in hard
         /\ Verdict(t) = "failed" <=> t \in failures
         /\ Verdict(t) = "empty" <=> results[t] = "empty"
         /\ Verdict(t) = "success" <=> results[t] = "success"
  BY DEF CInv, CollectionsFit, RInv, IInv, TypeOK, Verdict, ToolStatuses, Answered, Transient,
         NoResult

\* The collections alone determine the verdicts.
LEMMA SameVerdicts ==
  ASSUME UNCHANGED <<plan, mergeVars>>
  PROVE  UNCHANGED Evaluation!vars
  BY DEF mergeVars, Verdict, Evaluation!vars

LEMMA ConcludeSimulated ==
  ASSUME CInv, NEW r \in Runs, ReturnResult(r)
  PROVE  Evaluation!Conclude(r)
<1>1. \A t \in Tasks : verdictBar[t] = Verdict(t)
  BY DEF verdictBar
<1>2. outcome[r] = "none" /\ PendingOf(r) = {}
  BY DEF CInv, ReturnsFit, ReturnResult
<1>3. \A t \in TasksOf(r) : t \in Tasks /\ verdictBar[t] # "open"
  BY <1>1, <1>2, VerdictReadOff DEF PendingOf, TasksOf
<1>4. {t \in TasksOf(r) : verdictBar[t] \in {"failed", "hard"}} = Lost(r)
  BY <1>1, VerdictReadOff DEF Lost, TasksOf
<1>5. UNCHANGED <<plan, verdictBar>>
  BY DEF ReturnResult, Verdict, verdictBar
<1>6. outcome' = [outcome EXCEPT ![r] =
        IF Lost(r) \cap plan.critical # {} THEN "failed"
        ELSE IF Lost(r) # {} THEN "completed_with_failures"
        ELSE "completed"]
  BY DEF ReturnResult
<1> QED
  BY <1>2, <1>3, <1>4, <1>5, <1>6
  DEF Evaluation!Conclude, Evaluation!TasksOf, TasksOf, Evaluation!OutcomeOf, Evaluation!Lost, verdictBar

\* Several tasks decided at once, as Evaluation!Resolve asks for.
LEMMA ResolveIntro ==
  ASSUME NEW r \in Runs, NEW S \in SUBSET Tasks, S # {}, NEW decided \in [S -> Evaluation!Verdicts],
         S \subseteq Evaluation!Resolvable(r),
         \A t \in S : decided[t] \in Evaluation!Permitted(t),
         \A t \in Tasks : verdictBar'[t] = IF t \in S THEN decided[t] ELSE verdictBar[t],
         UNCHANGED <<plan, outcome>>
  PROVE  Evaluation!Resolve(r)
<1>1. verdictBar' = [t \in Tasks |-> IF t \in S THEN decided[t] ELSE verdictBar[t]]
  BY DEF verdictBar
<1>2. S \in (SUBSET Evaluation!Resolvable(r)) \ {{}}
  OBVIOUS
<1> QED
  BY <1>1, <1>2, Zenon DEF Evaluation!Resolve, verdictBar

\* The verdicts of a ready task's dependencies are final.
LEMMA ReadyIsResolvable ==
  ASSUME CInv, NEW r \in Runs, NEW t \in TasksOf(r), t \in pending,
         Dependencies(t) \cap pending = {}
  PROVE  t \in Evaluation!Resolvable(r)
<1>1. t \in Tasks /\ RunOf[t] = r
  BY DEF TasksOf
<1>2. \A d \in Dependencies(t) : d \in Tasks
  BY <1>1, GraphAssumption DEF CInv, RInv, IInv, TypeOK, WellFormed, Dependencies
<1>3. \A d \in Dependencies(t) : verdictBar[d] # "open"
  BY <1>2, VerdictReadOff DEF verdictBar
<1>4. verdictBar[t] = "open"
  BY <1>1, VerdictReadOff DEF verdictBar
<1> QED
  BY <1>1, <1>3, <1>4
  DEF Evaluation!Resolvable, Evaluation!DependencyVerdicts, Evaluation!TasksOf, verdictBar,
      Dependencies

LEMMA StartWaveSimulated ==
  ASSUME CInv, NEW r \in Runs, StartWave(r)
  PROVE  Evaluation!Resolve(r) \/ UNCHANGED Evaluation!vars
<1> DEFINE B == {t \in Ready(r) : BelowEmpty(t)}
           H == {t \in Ready(r) \ B : BelowFailure(t)}
           decided == [t \in B \cup H |-> IF t \in B THEN "benign" ELSE "hard"]
<1>0. TypeOK
  BY DEF CInv, RInv, IInv
<1>1. /\ benign' = benign \cup B /\ hard' = hard \cup H
      /\ pending' = pending \ (B \cup H)
      /\ UNCHANGED <<plan, results, failures, outcome>>
  BY DEF StartWave
<1>2. \A t \in Ready(r) : t \in Tasks /\ t \in TasksOf(r) /\ t \in pending
                         /\ Dependencies(t) \cap pending = {}
  BY DEF Ready, PendingOf, TasksOf
<1>3. \A t \in Tasks : \A d \in Dependencies(t) : d \in Tasks
  BY <1>0, GraphAssumption DEF TypeOK, WellFormed, Dependencies
<1>4. ASSUME NEW t \in B PROVE Evaluation!Permitted(t) = {"benign"}
  <2>1. t \in Tasks /\ t \in Ready(r)
    BY <1>2
  <2>2. PICK d \in Dependencies(t) : d \in benign \/ results[d] = "empty"
    BY <1>4 DEF BelowEmpty
  <2>3. verdictBar[d] \in {"empty", "benign"}
    BY <1>3, <2>1, <2>2, VerdictReadOff DEF verdictBar
  <2> QED
    BY <2>2, <2>3
    DEF Evaluation!Permitted, Evaluation!DependencyVerdicts, verdictBar, Dependencies
<1>5. ASSUME NEW t \in H PROVE Evaluation!Permitted(t) = {"hard"}
  <2>1. t \in Tasks /\ t \in Ready(r) /\ ~BelowEmpty(t) /\ BelowFailure(t)
    BY <1>2
  <2>2. \A d \in Dependencies(t) : d \in Tasks /\ d \notin benign /\ results[d] # "empty"
    BY <1>3, <2>1 DEF BelowEmpty
  <2>3. \A d \in Dependencies(t) : verdictBar[d] \notin {"empty", "benign"}
    BY <2>2, VerdictReadOff DEF verdictBar
  <2>4. PICK d \in Dependencies(t) : d \in benign \cup hard \/ d \in failures \/ results[d] # "success"
    BY <2>1 DEF BelowFailure
  <2>5. verdictBar[d] # "success"
    BY <2>2, <2>4, VerdictReadOff DEF verdictBar
  <2> QED
    BY <2>3, <2>4, <2>5
    DEF Evaluation!Permitted, Evaluation!DependencyVerdicts, verdictBar, Dependencies
<1>6. B \subseteq Ready(r) /\ H \subseteq Ready(r) /\ B \cap H = {}
  OBVIOUS
<1>7. /\ DOMAIN decided = B \cup H
      /\ \A t \in B : decided[t] = "benign"
      /\ \A t \in H : decided[t] = "hard"
      /\ decided \in [B \cup H -> Evaluation!Verdicts]
  BY DEF Evaluation!Verdicts, Evaluation!Skipped
<1> HIDE DEF B, H, decided
<1>8. \A t \in Tasks : verdictBar'[t] = IF t \in B \cup H THEN decided[t] ELSE verdictBar[t]
  <2> SUFFICES ASSUME NEW t \in Tasks
               PROVE  Verdict(t)' = IF t \in B \cup H THEN decided[t] ELSE Verdict(t)
    BY DEF verdictBar
  <2>1. CASE t \in B
    BY <1>1, <1>7, <2>1 DEF Verdict
  <2>2. CASE t \in H
    <3>1. t \notin B /\ t \in pending
      BY <1>2, <1>6, <2>2
    <3>2. t \notin benign
      BY <3>1 DEF CInv, CollectionsFit
    <3> QED
      BY <1>1, <1>7, <2>2, <3>1, <3>2 DEF Verdict
  <2>3. CASE t \notin B \cup H
    BY <1>1, <2>3 DEF Verdict
  <2> QED
    BY <2>1, <2>2, <2>3
<1>9. CASE B \cup H = {}
  <2>1. UNCHANGED <<plan, mergeVars>>
    BY <1>1, <1>9 DEF mergeVars
  <2> QED
    BY <2>1, SameVerdicts
<1>10. CASE B \cup H # {}
  <2>1. B \cup H \in SUBSET Tasks /\ B \cup H \subseteq Evaluation!Resolvable(r)
    BY <1>2, <1>6, ReadyIsResolvable
  <2>2. \A t \in B \cup H : decided[t] \in Evaluation!Permitted(t)
    BY <1>4, <1>5, <1>7
  <2> QED
    BY <1>1, <1>7, <1>8, <1>10, <2>1, <2>2, ResolveIntro
<1> QED
  BY <1>9, <1>10

LEMMA GatherSimulated ==
  ASSUME CInv, NEW r \in Runs, GatherReturns(r)
  PROVE  Evaluation!Resolve(r) \/ UNCHANGED Evaluation!vars
<1> DEFINE S == Wave(r)
           decided == [t \in S |-> IF answer[t].failed THEN "failed" ELSE answer[t].result]
<1>0. TypeOK /\ CoroutinesBelongToWave /\ DependenciesSucceeded /\ CollectionsFit /\ AnswersFit
  BY DEF CInv, RInv, IInv
<1>1. /\ pending' = pending \ S
      /\ results' = [t \in Tasks |-> IF t \in S THEN answer[t].result ELSE results[t]]
      /\ failures' = failures \cup {t \in S : answer[t].failed}
      /\ UNCHANGED <<plan, benign, hard, outcome>>
  BY DEF GatherReturns
<1>2. \A t \in S : /\ t \in Tasks /\ t \in TasksOf(r) /\ t \in pending
                  /\ pc[t] = "returned" /\ t \notin benign \cup hard \cup failures
                  /\ (answer[t].failed <=> answer[t].result \notin Answered)
  BY <1>0 DEF GatherReturns, Wave, TasksOf, CoroutinesBelongToWave, CollectionsFit, AnswersFit
<1>3. \A t \in S : \A d \in Dependencies(t) :
        d \in Tasks /\ results[d] = "success" /\ d \notin pending
  <2>1. \A t \in S : t \in Tasks /\ pc[t] # "idle"
    BY <1>2
  <2>2. \A t \in Tasks : \A d \in Dependencies(t) : d \in Tasks
    BY <1>0, GraphAssumption DEF TypeOK, WellFormed, Dependencies
  <2> QED
    BY <1>0, <2>1, <2>2 DEF DependenciesSucceeded
<1>4. ASSUME NEW t \in S PROVE Evaluation!Permitted(t) = Evaluation!Executed
  <2>1. \A d \in Dependencies(t) : verdictBar[d] = "success"
    BY <1>3, VerdictReadOff DEF verdictBar
  <2> QED
    BY <2>1
    DEF Evaluation!Permitted, Evaluation!DependencyVerdicts, verdictBar, Dependencies
<1>5. \A t \in S : decided[t] = IF answer[t].failed THEN "failed" ELSE answer[t].result
  OBVIOUS
<1>6. \A t \in S : decided[t] \in Evaluation!Executed
  BY <1>2, <1>5 DEF Evaluation!Executed, Answered
<1>7. decided \in [S -> Evaluation!Verdicts]
  BY <1>2, <1>6 DEF Evaluation!Verdicts
<1> HIDE DEF S, decided
<1>8. \A t \in Tasks : verdictBar'[t] = IF t \in S THEN decided[t] ELSE verdictBar[t]
  <2> SUFFICES ASSUME NEW t \in Tasks
               PROVE  Verdict(t)' = IF t \in S THEN decided[t] ELSE Verdict(t)
    BY DEF verdictBar
  <2>1. CASE t \in S
    <3>1. t \notin pending' /\ t \notin benign' /\ t \notin hard'
      BY <1>1, <1>2, <2>1
    <3>2. (t \in failures' <=> answer[t].failed) /\ results'[t] = answer[t].result
      BY <1>1, <1>2, <2>1
    <3> QED
      BY <1>5, <2>1, <3>1, <3>2 DEF Verdict
  <2>2. CASE t \notin S
    BY <1>1, <2>2 DEF Verdict
  <2> QED
    BY <2>1, <2>2
<1>9. CASE S = {}
  <2>1. /\ pending' = pending /\ failures' = failures /\ results' = results
        /\ UNCHANGED <<plan, benign, hard, outcome>>
    BY <1>0, <1>1, <1>9 DEF TypeOK
  <2> QED
    BY <2>1, SameVerdicts DEF mergeVars
<1>10. CASE S # {}
  <2>1. S \in SUBSET Tasks /\ S \subseteq Evaluation!Resolvable(r)
    <3>1. \A t \in S : t \in Evaluation!Resolvable(r)
      BY <1>2, <1>3, ReadyIsResolvable
    <3> QED
      BY <1>2, <3>1
  <2>2. \A t \in S : decided[t] \in Evaluation!Permitted(t)
    BY <1>4, <1>6
  <2> QED
    BY <1>1, <1>7, <1>8, <1>10, <2>1, <2>2, ResolveIntro
<1> QED
  BY <1>9, <1>10

LEMMA StepSimulated == CInv /\ [Next]_vars => [Evaluation!Next]_(Evaluation!vars)
<1> SUFFICES ASSUME CInv, [Next]_vars PROVE Evaluation!Next \/ UNCHANGED Evaluation!vars
  OBVIOUS
<1>1. ASSUME NEW r \in Runs, RunStep(r) PROVE Evaluation!Next \/ UNCHANGED Evaluation!vars
  BY <1>1, StartWaveSimulated, GatherSimulated, ConcludeSimulated
  DEF RunStep, Evaluation!Next
<1>2. ASSUME NEW r \in Runs, StartRun(r) \/ DeadlinePasses(r) PROVE UNCHANGED Evaluation!vars
  BY <1>2, SameVerdicts DEF StartRun, DeadlinePasses
<1>3. ASSUME NEW t \in Tasks, TaskStep(t) PROVE UNCHANGED Evaluation!vars
  BY <1>3, TaskStepFrame, SameVerdicts DEF CInv, RInv, IInv
<1>4. CASE UNCHANGED vars
  BY <1>4, SameVerdicts DEF vars
<1> QED
  BY <1>1, <1>2, <1>3, <1>4 DEF Next

LEMMA InitSimulated == Init => Evaluation!Init
  BY DEF Init, Evaluation!Init, Verdict

(***************************************************************************)
(* Waves, retries, permits, timers and the deadline change when verdicts   *)
(* come, never which verdicts are possible: every behaviour of the         *)
(* scheduler is one of PlanEvaluation, for every acyclic plan.             *)
(***************************************************************************)
THEOREM EvaluationImplemented == Spec => ImplementsEvaluation
  BY InitSimulated, StepSimulated, CInvariant, PTL
  DEF Spec, ImplementsEvaluation, Evaluation!Spec

-----------------------------------------------------------------------------
(***************************************************************************)
(* What is proved of PlanEvaluation then holds of the scheduler.  The two  *)
(* instances differ in name only: one carries the theorems.                *)
(***************************************************************************)
Evaluated == INSTANCE PlanEvaluationProofs WITH verdict <- [t \in Tasks |-> Verdict(t)]

LEMMA GraphsAreEvaluated ==
  /\ Evaluated!IsFiniteSet(Tasks)
  /\ \A p \in Plans : Evaluated!WellFormed(p)
  BY GraphAssumption
  DEF IsFiniteSet, Evaluated!IsFiniteSet, WellFormed, Acyclic, Evaluated!WellFormed,
      Evaluated!Acyclic

LEMMA SameEvaluation ==
  /\ Evaluation!Init => Evaluated!Init
  /\ [Evaluation!Next]_(Evaluation!vars) => [Evaluated!Next]_(Evaluated!vars)
<1>1. Evaluation!Init => Evaluated!Init
  BY DEF Evaluation!Init, Evaluated!Init
<1>2. Evaluation!vars = Evaluated!vars /\ Evaluation!vars' = Evaluated!vars'
  BY DEF Evaluation!vars, Evaluated!vars
<1>3. \A r : Evaluation!Resolve(r) => Evaluated!Resolve(r)
  BY DEF Evaluation!Resolve, Evaluation!Resolvable, Evaluation!TasksOf,
         Evaluation!DependencyVerdicts, Evaluation!Permitted, Evaluation!Verdicts,
         Evaluation!Executed, Evaluation!Skipped,
         Evaluated!Resolve, Evaluated!Resolvable, Evaluated!TasksOf,
         Evaluated!DependencyVerdicts, Evaluated!Permitted, Evaluated!Verdicts,
         Evaluated!Executed, Evaluated!Skipped
<1>4. \A r : Evaluation!Conclude(r) => Evaluated!Conclude(r)
  BY DEF Evaluation!Conclude, Evaluation!TasksOf, Evaluation!OutcomeOf, Evaluation!Lost,
         Evaluated!Conclude, Evaluated!TasksOf, Evaluated!OutcomeOf, Evaluated!Lost
<1> QED
  BY <1>1, <1>2, <1>3, <1>4 DEF Evaluation!Next, Evaluated!Next

LEMMA SpecIsEvaluated == Spec => Evaluated!Spec
<1>1. Evaluation!Spec => Evaluated!Spec
  BY SameEvaluation, PTL DEF Evaluation!Spec, Evaluated!Spec
<1> QED
  BY <1>1, EvaluationImplemented DEF ImplementsEvaluation

(***************************************************************************)
(* A task the scheduler skips has a failed ancestor, or one that answered  *)
(* with no rows, and a task it ran has none but successful ones, whatever  *)
(* the waves, retries and deadlines that led there.                        *)
(***************************************************************************)
THEOREM SchedulerSkipsCorrect == Spec => []Evaluated!SkipsAreCaused
<1>1. Evaluated!Spec => []Evaluated!SkipsAreCaused
  BY GraphsAreEvaluated, GraphAssumption, Evaluated!SkipsCorrect
<1> QED
  BY <1>1, SpecIsEvaluated

(***************************************************************************)
(* The execution_outcome of a run that returned is honest: "completed"     *)
(* lost nothing to a failure, and no critical task of a run that did not   *)
(* fail stands below a failure without an empty answer above it.           *)
(***************************************************************************)
THEOREM SchedulerOutcomeCorrect == Spec => []Evaluated!OutcomeIsHonest
<1>1. Evaluated!Spec => []Evaluated!OutcomeIsHonest
  BY GraphsAreEvaluated, GraphAssumption, Evaluated!OutcomeCorrect
<1> QED
  BY <1>1, SpecIsEvaluated
=============================================================================
