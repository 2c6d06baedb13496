------------------------ MODULE PlanEvaluationProofs ------------------------
(***************************************************************************)
(* Proofs about PlanEvaluation.  The inductive invariant adds to the       *)
(* stated ones that every ancestor of a decided task is decided: a         *)
(* verdict is then never given on the strength of one that still changes.  *)
(***************************************************************************)
EXTENDS PlanEvaluation, TLAPS

\* The ancestors of a task are its dependencies and their ancestors.
LEMMA AncestorStep ==
  ASSUME NEW dep \in [Tasks -> SUBSET Tasks], NEW t \in Tasks, NEW a
  PROVE  a \in Ancestors(dep, t) <=>
           a \in dep[t] \/ \E d \in dep[t] : a \in Ancestors(dep, d)
<1> DEFINE Closed(S, u) == dep[u] \cup UNION {dep[s] : s \in S} \subseteq S
<1>1. \A u \in Tasks : \A x : x \in Ancestors(dep, u) <=>
        x \in Tasks /\ \A S \in SUBSET Tasks : Closed(S, u) => x \in S
  BY Zenon DEF Ancestors
<1>2. ASSUME NEW S \in SUBSET Tasks
      PROVE  /\ \A u \in Tasks : Closed(S, u) => dep[u] \subseteq S
             /\ \A u \in Tasks, s \in S : Closed(S, u) => Closed(S, s)
  OBVIOUS
<1>3. ASSUME NEW d \in dep[t], NEW x \in Ancestors(dep, d)
      PROVE  x \in Ancestors(dep, t)
  <2>1. d \in Tasks
    OBVIOUS
  <2>2. ASSUME NEW S \in SUBSET Tasks, Closed(S, t)
        PROVE  Closed(S, d)
    <3>1. d \in S
      BY <2>2
    <3> QED BY <3>1, <2>2, <1>2
  <2> HIDE DEF Closed
  <2> QED BY <1>1, <2>1, <2>2
<1>4. ASSUME NEW u \in Tasks
      PROVE  dep[u] \subseteq Ancestors(dep, u)
  <2>1. \A x \in dep[u] : x \in Tasks
    OBVIOUS
  <2>2. ASSUME NEW S \in SUBSET Tasks, Closed(S, u)
        PROVE  dep[u] \subseteq S
    BY <2>2
  <2> HIDE DEF Closed
  <2> QED BY <1>1, <2>1, <2>2
<1>5. ASSUME NEW u \in Tasks, NEW s \in Ancestors(dep, u)
      PROVE  dep[s] \subseteq Ancestors(dep, u)
  <2>1. s \in Tasks /\ \A x \in dep[s] : x \in Tasks
    BY DEF Ancestors
  <2>2. ASSUME NEW S \in SUBSET Tasks, Closed(S, u)
        PROVE  dep[s] \subseteq S
    <3> HIDE DEF Closed
    <3>1. s \in S
      BY <1>1, <2>2
    <3> USE DEF Closed
    <3> QED BY <3>1, <2>2
  <2> HIDE DEF Closed
  <2> QED BY <1>1, <2>1, <2>2
<1> DEFINE Above == dep[t] \cup {x \in Tasks : \E d \in dep[t] : x \in Ancestors(dep, d)}
<1>6. Above \in SUBSET Tasks
  OBVIOUS
<1>7. ASSUME NEW s \in Above
      PROVE  dep[s] \subseteq Above
  <2>1. CASE s \in dep[t]
    BY <1>4, <2>1
  <2>2. CASE \E d \in dep[t] : s \in Ancestors(dep, d)
    BY <1>5, <2>2
  <2> QED BY <2>1, <2>2
<1>8. Closed(Above, t)
  BY <1>7
<1>9. a \in Ancestors(dep, t) => a \in Above
  <2> HIDE DEF Closed, Above
  <2> QED BY <1>1, <1>6, <1>8
<1> QED
  <2> HIDE DEF Closed
  <2> QED BY <1>3, <1>4, <1>9

\* Every ancestor of a decided task is decided.
AncestorsDecided ==
  \A t \in Tasks : verdict[t] # "open" =>
    \A a \in Ancestors(plan.dependsOn, t) : verdict[a] # "open"

SkipsInv == TypeOK /\ AncestorsDecided /\ SkipsAreCaused

\* A plan is a well-formed graph.
LEMMA PlanIsWellFormed ==
  ASSUME TypeOK
  PROVE  plan.dependsOn \in [Tasks -> SUBSET Tasks]
  BY GraphAssumption DEF TypeOK, WellFormed

\* The initial states satisfy the invariant.
LEMMA SkipsInit == Init => SkipsInv
<1> SUFFICES ASSUME Init PROVE SkipsInv
  OBVIOUS
<1>1. TypeOK
  BY DEF Init, TypeOK, Verdicts, Outcomes
<1>2. AncestorsDecided /\ SkipsAreCaused
  BY DEF Init, AncestorsDecided, SkipsAreCaused, Executed
<1> QED BY <1>1, <1>2 DEF SkipsInv

\* What the verdict of a task says about its ancestors, from what the verdicts of
\* its dependencies say.
LEMMA VerdictIsCaused ==
  ASSUME SkipsInv, NEW t \in Tasks, "open" \notin DependencyVerdicts(t)
  PROVE  /\ \A a \in Ancestors(plan.dependsOn, t) : verdict[a] # "open"
         /\ "hard" \in Permitted(t)   => "failed" \in AncestorVerdicts(t)
         /\ "benign" \in Permitted(t) => "empty" \in AncestorVerdicts(t)
         /\ Permitted(t) \cap Executed # {} => AncestorVerdicts(t) \subseteq {"success"}
<1> DEFINE dep == plan.dependsOn
<1> USE DEF SkipsInv
<1>1. dep \in [Tasks -> SUBSET Tasks]
  BY PlanIsWellFormed
<1>2. \A a : a \in Ancestors(dep, t) <=>
        a \in dep[t] \/ \E d \in dep[t] : a \in Ancestors(dep, d)
  BY <1>1, AncestorStep
<1>3. \A d \in dep[t] : /\ d \in Tasks /\ verdict[d] # "open" /\ verdict[d] \in Verdicts
                        /\ verdict[d] \in DependencyVerdicts(t)
  BY <1>1 DEF DependencyVerdicts, TypeOK
<1>4. \A d \in dep[t] : /\ verdict[d] \in AncestorVerdicts(t)
                        /\ AncestorVerdicts(d) \subseteq AncestorVerdicts(t)
  BY <1>2 DEF AncestorVerdicts
<1>5. \A v \in DependencyVerdicts(t) : \E d \in dep[t] : v = verdict[d]
  BY DEF DependencyVerdicts
<1>6. \A a \in Ancestors(dep, t) : verdict[a] # "open"
  BY <1>2, <1>3 DEF AncestorsDecided
<1>7. ASSUME "benign" \in Permitted(t)
      PROVE  "empty" \in AncestorVerdicts(t)
  <2>1. DependencyVerdicts(t) \cap {"empty", "benign"} # {}
    BY <1>7 DEF Permitted, Executed
  <2>2. PICK d \in dep[t] : verdict[d] \in {"empty", "benign"}
    BY <2>1, <1>5
  <2> QED BY <2>2, <1>3, <1>4 DEF SkipsAreCaused
<1>8. ASSUME "hard" \in Permitted(t)
      PROVE  "failed" \in AncestorVerdicts(t)
  <2>1. /\ DependencyVerdicts(t) \cap {"empty", "benign"} = {}
        /\ ~ DependencyVerdicts(t) \subseteq {"success"}
    BY <1>8 DEF Permitted, Executed
  <2>2. PICK d \in dep[t] : verdict[d] # "success"
    BY <2>1, <1>5
  <2>3. verdict[d] \in {"failed", "hard"}
    BY <2>1, <2>2, <1>3 DEF Verdicts, Executed, Skipped
  <2> QED BY <2>3, <1>3, <1>4 DEF SkipsAreCaused
<1>9. ASSUME Permitted(t) \cap Executed # {}
      PROVE  AncestorVerdicts(t) \subseteq {"success"}
  <2>1. DependencyVerdicts(t) \subseteq {"success"}
    BY <1>9 DEF Permitted, Executed
  <2>2. \A d \in dep[t] : verdict[d] = "success"
    BY <2>1, <1>3
  <2>3. \A d \in dep[t] : AncestorVerdicts(d) \subseteq {"success"}
    BY <2>2, <1>3 DEF SkipsAreCaused, Executed
  <2>4. ASSUME NEW v \in AncestorVerdicts(t)
        PROVE  v = "success"
    <3>1. PICK a \in Ancestors(dep, t) : v = verdict[a]
      BY DEF AncestorVerdicts
    <3>2. CASE a \in dep[t]
      BY <3>1, <3>2, <2>2
    <3>3. CASE \E d \in dep[t] : a \in Ancestors(dep, d)
      BY <3>1, <3>3, <2>3 DEF AncestorVerdicts
    <3> QED BY <1>2, <3>2, <3>3
  <2> QED BY <2>4
<1> QED BY <1>6, <1>7, <1>8, <1>9

\* Every step preserves the invariant.
LEMMA SkipsStep == SkipsInv /\ [Next]_vars => SkipsInv'
<1> SUFFICES ASSUME SkipsInv, [Next]_vars PROVE SkipsInv'
  OBVIOUS
<1> USE DEF SkipsInv
<1>1. ASSUME NEW r \in Runs, Resolve(r) PROVE SkipsInv'
  <2>0. PICK S \in SUBSET Resolvable(r) : \E decided \in [S -> Verdicts] :
          /\ \A t \in S : decided[t] \in Permitted(t)
          /\ verdict' = [t \in Tasks |-> IF t \in S THEN decided[t] ELSE verdict[t]]
          /\ UNCHANGED <<plan, outcome>>
    BY <1>1 DEF Resolve
  <2>1. PICK decided \in [S -> Verdicts] :
          /\ \A t \in S : decided[t] \in Permitted(t)
          /\ verdict' = [t \in Tasks |-> IF t \in S THEN decided[t] ELSE verdict[t]]
          /\ UNCHANGED <<plan, outcome>>
    BY <2>0
  <2>2. \A t \in S : /\ t \in Tasks /\ verdict[t] = "open"
                     /\ "open" \notin DependencyVerdicts(t)
                     /\ decided[t] \in Permitted(t) /\ decided[t] # "open"
    BY <2>1 DEF Resolvable, TasksOf, Verdicts, Executed, Skipped
  <2>3. TypeOK'
    BY <2>1, <2>2 DEF TypeOK
  <2>4. \A t \in Tasks : /\ Ancestors(plan.dependsOn, t)' = Ancestors(plan.dependsOn, t)
                         /\ Ancestors(plan.dependsOn, t) \subseteq Tasks
    BY <2>1 DEF Ancestors
  <2>5. ASSUME NEW t \in Tasks, verdict'[t] # "open"
        PROVE  /\ \A a \in Ancestors(plan.dependsOn, t) :
                    verdict[a] # "open" /\ verdict'[a] = verdict[a]
               /\ AncestorVerdicts(t)' = AncestorVerdicts(t)
    <3>1. \A a \in Ancestors(plan.dependsOn, t) : verdict[a] # "open"
      <4>1. CASE t \in S
        BY <4>1, <2>2, VerdictIsCaused
      <4>2. CASE t \notin S
        BY <4>2, <2>1, <2>5 DEF AncestorsDecided
      <4> QED BY <4>1, <4>2
    <3>2. \A a \in Ancestors(plan.dependsOn, t) : verdict'[a] = verdict[a]
      BY <3>1, <2>1, <2>2, <2>4
    <3> QED BY <3>1, <3>2, <2>1, <2>4 DEF AncestorVerdicts
  <2>6. AncestorsDecided'
    BY <2>4, <2>5 DEF AncestorsDecided
  <2>7. SkipsAreCaused'
    <3>1. ASSUME NEW t \in Tasks, verdict'[t] # "open"
          PROVE  /\ verdict'[t] = "hard"     => "failed" \in AncestorVerdicts(t)'
                 /\ verdict'[t] = "benign"   => "empty" \in AncestorVerdicts(t)'
                 /\ verdict'[t] \in Executed => AncestorVerdicts(t)' \subseteq {"success"}
      <4>1. CASE t \in S
        <5>1. verdict'[t] \in Permitted(t)
          BY <4>1, <2>1, <2>2
        <5>2. /\ "hard" \in Permitted(t)   => "failed" \in AncestorVerdicts(t)
              /\ "benign" \in Permitted(t) => "empty" \in AncestorVerdicts(t)
              /\ Permitted(t) \cap Executed # {} => AncestorVerdicts(t) \subseteq {"success"}
          BY <4>1, <2>2, VerdictIsCaused
        <5>3. AncestorVerdicts(t)' = AncestorVerdicts(t)
          BY <2>5, <3>1
        <5> HIDE DEF SkipsInv
        <5> QED BY <5>1, <5>2, <5>3
      <4>2. CASE t \notin S
        <5>1. verdict'[t] = verdict[t] /\ AncestorVerdicts(t)' = AncestorVerdicts(t)
          BY <4>2, <2>1, <2>5, <3>1
        <5> QED BY <5>1 DEF SkipsAreCaused
      <4> QED BY <4>1, <4>2
    <3> QED BY <3>1 DEF SkipsAreCaused, Executed
  <2> QED BY <2>3, <2>6, <2>7
<1>2. ASSUME NEW r \in Runs, Conclude(r) PROVE SkipsInv'
  <2>1. TypeOK'
    BY <1>2 DEF Conclude, TypeOK, OutcomeOf, Outcomes
  <2>2. plan' = plan /\ verdict' = verdict
    BY <1>2 DEF Conclude
  <2>3. AncestorsDecided' /\ SkipsAreCaused'
    BY <2>2 DEF AncestorsDecided, SkipsAreCaused, AncestorVerdicts
  <2> QED BY <2>1, <2>3
<1>3. CASE UNCHANGED vars
  BY <1>3 DEF vars, TypeOK, AncestorsDecided, SkipsAreCaused, AncestorVerdicts
<1> QED BY <1>1, <1>2, <1>3 DEF Next

\* Plans, verdicts and outcomes stay well-typed: _schedule never derives another one.
THEOREM TypeCorrect == Spec => []TypeOK
<1>1. SkipsInv => TypeOK
  BY DEF SkipsInv
<1> QED BY <1>1, SkipsInit, SkipsStep, PTL DEF Spec

\* A task is only skipped for a reason found upstream, and only executed when
\* everything above it succeeded (the branches of _schedule).
THEOREM SkipsCorrect == Spec => []SkipsAreCaused
<1>1. SkipsInv => SkipsAreCaused
  BY DEF SkipsInv
<1> QED BY <1>1, SkipsInit, SkipsStep, PTL DEF Spec
-----------------------------------------------------------------------------
\* The outcome of a concluded run is the one its final verdicts give.
OutcomeStands ==
  \A r \in Runs : outcome[r] # "none" =>
    /\ \A t \in TasksOf(r) : verdict[t] # "open"
    /\ outcome[r] = OutcomeOf(r)

\* Every step leaves the verdicts of a concluded run, and with them its outcome.
LEMMA OutcomeStep == OutcomeStands /\ TypeOK /\ [Next]_vars => OutcomeStands'
<1> SUFFICES ASSUME OutcomeStands, TypeOK, [Next]_vars PROVE OutcomeStands'
  OBVIOUS
<1>1. ASSUME NEW q \in Runs, outcome[q] # "none", outcome'[q] = outcome[q],
             UNCHANGED plan,
             \A t \in TasksOf(q) : verdict'[t] = verdict[t]
      PROVE  /\ \A t \in TasksOf(q) : verdict'[t] # "open"
             /\ outcome'[q] = OutcomeOf(q)'
  <2>1. Lost(q)' = Lost(q)
    BY <1>1 DEF Lost
  <2> QED BY <2>1, <1>1 DEF OutcomeStands, OutcomeOf
<1>2. ASSUME NEW r \in Runs, Resolve(r) PROVE OutcomeStands'
  <2>1. UNCHANGED <<plan, outcome>>
    BY <1>2 DEF Resolve
  <2>2. ASSUME NEW t \in Tasks, verdict[t] # "open" PROVE verdict'[t] = verdict[t]
    BY <1>2, <2>2 DEF Resolve, Resolvable
  <2>3. \A q \in Runs : outcome[q] # "none" =>
          \A t \in TasksOf(q) : verdict'[t] = verdict[t]
    BY <2>2 DEF OutcomeStands, TasksOf
  <2> QED BY <1>1, <2>1, <2>3 DEF OutcomeStands
<1>3. ASSUME NEW r \in Runs, Conclude(r) PROVE OutcomeStands'
  <2>1. ASSUME NEW q \in Runs, outcome'[q] # "none"
        PROVE  /\ \A t \in TasksOf(q) : verdict'[t] # "open"
               /\ outcome'[q] = OutcomeOf(q)'
    <3>1. OutcomeOf(q)' = OutcomeOf(q) /\ verdict' = verdict
      BY <1>3 DEF Conclude, OutcomeOf, Lost
    <3>2. CASE q = r
      BY <3>1, <3>2, <1>3 DEF Conclude, TypeOK
    <3>3. CASE q # r
      BY <3>1, <3>3, <1>3, <2>1 DEF Conclude, TypeOK, OutcomeStands
    <3> QED BY <3>2, <3>3
  <2> QED BY <2>1 DEF OutcomeStands
<1>4. CASE UNCHANGED vars
  BY <1>4, <1>1 DEF vars, OutcomeStands
<1> QED BY <1>2, <1>3, <1>4 DEF Next

\* The outcome of a run is a function of its final verdicts.
LEMMA OutcomeInvariant == Spec => []OutcomeStands
<1>1. Init => OutcomeStands
  BY DEF Init, OutcomeStands
<1> QED BY <1>1, OutcomeStep, TypeCorrect, PTL DEF Spec

\* What a run's final verdicts say about its outcome, given why tasks are skipped.
LEMMA HonestyFollows == OutcomeStands /\ SkipsInv => OutcomeIsHonest
<1> SUFFICES ASSUME OutcomeStands, SkipsInv, NEW r \in Runs,
                    outcome[r] \in {"completed", "completed_with_failures"}
             PROVE  /\ outcome[r] = "completed" =>
                         \A t \in TasksOf(r) :
                           \/ verdict[t] \in {"success", "empty"}
                           \/ "empty" \in AncestorVerdicts(t)
                    /\ \A t \in TasksOf(r) \cap plan.critical :
                         "failed" \in AncestorVerdicts(t) \cup {verdict[t]} =>
                           "empty" \in AncestorVerdicts(t)
  BY DEF OutcomeIsHonest
<1> USE DEF SkipsInv
<1>1. Lost(r) \cap plan.critical = {} /\ (outcome[r] = "completed" => Lost(r) = {})
  BY DEF OutcomeStands, OutcomeOf
<1>2. \A t \in TasksOf(r) : t \in Tasks /\ verdict[t] \in Verdicts
  BY DEF OutcomeStands, TasksOf, TypeOK
<1>3. ASSUME NEW t \in TasksOf(r), t \notin Lost(r)
      PROVE  \/ verdict[t] \in {"success", "empty"}
             \/ verdict[t] = "benign" /\ "empty" \in AncestorVerdicts(t)
  BY <1>2, <1>3 DEF Lost, SkipsAreCaused, Verdicts, Executed, Skipped
<1>4. ASSUME NEW t \in TasksOf(r), t \notin Lost(r),
             "failed" \in AncestorVerdicts(t) \cup {verdict[t]}
      PROVE  "empty" \in AncestorVerdicts(t)
  <2>1. CASE verdict[t] \in {"success", "empty"}
    BY <2>1, <1>2, <1>4 DEF SkipsAreCaused, Executed
  <2> QED BY <2>1, <1>3, <1>4
<1> QED BY <1>1, <1>3, <1>4

\* A run reported "completed" lost nothing to a failure, and one that is not
\* reported "failed" has no critical task below a failure, unless an empty answer
\* stands above it too.
THEOREM OutcomeCorrect == Spec => []OutcomeIsHonest
BY HonestyFollows, OutcomeInvariant, SkipsInit, SkipsStep, PTL DEF Spec
=============================================================================
