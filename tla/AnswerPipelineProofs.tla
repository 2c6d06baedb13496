------------------------ MODULE AnswerPipelineProofs ------------------------
(***************************************************************************)
(* The claims of an answer, for any plan, any data and any cutoff.         *)
(*                                                                         *)
(* Two facts carry the proofs.  Seoul is ahead of UTC, so that what is on  *)
(* time in Seoul is on time in UTC: the rules of search, promotion, export *)
(* and verifier imply the ledger's.  And the tasks of a concluded run do   *)
(* nothing any more, so that what was true of its results when they were   *)
(* assembled stays true.                                                   *)
(***************************************************************************)
EXTENDS AnswerPipeline, PlanEvaluationProofs

\* A day that has begun in UTC has begun in Seoul.
LEMMA SeoulIsAhead ==
  ASSUME NEW h \in Int, NEW day \in Int, SeoulDay(h) <= day
  PROVE  UtcDay(h) <= day
BY SMT DEF SeoulDay, UtcDay

LEMMA SeoulImpliesUtc ==
  ASSUME NEW e \in Records, SeoulOnTime(e)
  PROVE  UtcOnTime(e)
<1>1. e.published \subseteq Int /\ e.available \subseteq Int
  BY DEF Records, Optional
<1>2. \A h \in e.published \cup e.available : SeoulDay(h) <= Cutoff
  BY DEF SeoulOnTime, NotAfter
<1>3. \A h \in e.published \cup e.available : UtcDay(h) <= Cutoff
  BY <1>1, <1>2, SeoulIsAhead, WorldAssumption
<1> QED BY <1>3 DEF UtcOnTime, NotAfter

\* What the run has of data and plan.
LEMMA WorldTypes ==
  ASSUME world \in Worlds
  PROVE  /\ world.route \in [Tasks -> {"sql", "graph", "document"}]
         /\ world.subtask \in [Tasks -> Tasks]
         /\ world.record \in [Facts -> Records]
         /\ \A c \in Chunks : /\ c \in Facts /\ world.record[c] \in Records
                              /\ world.record[c].applicable = world.record[c].from
                              /\ world.record[c].vintage = {}
         /\ \A f \in Relations : f \in Facts /\ world.record[f] \in Records
BY WorldAssumption DEF Facts

\* What the search returns, the promoter takes if the artifact was verified, and
\* what the promoter takes, the ledger and the verifier take.
LEMMA PromotionChain ==
  ASSUME world \in Worlds, NEW c \in Chunks
  PROVE  /\ Searchable(c) /\ world.record[c].verified => Promotable(c)
         /\ Promotable(c) => /\ LedgerTakes(world.record[c])
                             /\ VerifierAccepts(world.record[c])
<1> DEFINE e == world.record[c]
<1>1. e \in Records /\ e.applicable = e.from /\ e.vintage = {}
  BY WorldTypes
<1>2. Searchable(c) /\ e.verified => Promotable(c)
  BY DEF Searchable, Promotable
<1>3. ASSUME Promotable(c)
      PROVE  /\ UtcOnTime(e) /\ SeoulOnTime(e) /\ e.authoritative /\ e.eligible
             /\ NotAfter(e.from) /\ NotAfter(e.applicable) /\ NotAfter(e.vintage)
             /\ \A d \in e.to : d >= Cutoff
  BY <1>1, <1>3, SeoulImpliesUtc DEF Promotable, NotAfter
<1>4. ASSUME Promotable(c)
      PROVE  LedgerTakes(e) /\ VerifierAccepts(e)
  BY <1>3, <1>4 DEF LedgerTakes, VerifierAccepts, NotAfter
<1> QED BY <1>2, <1>4

\* A stored record the verifier takes is in the database's own view.
LEMMA VerifiedIsEligible ==
  ASSUME world \in Worlds, NEW f \in ledger, f \in Facts, VerifierAccepts(world.record[f])
  PROVE  /\ ClaimEligible(f) /\ SeoulOnTime(world.record[f])
         /\ NotAfter(world.record[f].from)
         /\ \A d \in world.record[f].to : d >= Cutoff
<1>1. world.record[f] \in Records
  BY WorldTypes
<1> QED BY <1>1, SeoulImpliesUtc DEF VerifierAccepts, ClaimEligible, NotAfter

\* The verifier rejects an exported relation for its source or its end only.
LEMMA ExportedIsRejected ==
  ASSUME NEW e, Exportable(e), ~ VerifierAccepts(e)
  PROVE  ~ e.authoritative \/ \E d \in e.to : ~ (d >= Cutoff)
BY DEF Exportable, VerifierAccepts, NotAfter
-----------------------------------------------------------------------------
(***************************************************************************)
(* The inductive invariant.                                                *)
(***************************************************************************)
\* An executor works on a task all of whose dependencies succeeded, and the verdict
\* of the task is the status of its result.
WorkIsDecided ==
  \A t \in Tasks :
    /\ task[t].at # "waiting" =>
         /\ "open" \notin DependencyVerdicts(t)
         /\ Permitted(t) = Executed
         /\ verdict[t] \in Executed \cup {"open"}
    /\ verdict[t] \in Executed => task[t].at = "ended" /\ verdict[t] = VerdictOf(t)
    /\ task[t].status # "none" => task[t].at = "ended"
    /\ task[t].status \in {"empty", "timeout"} => task[t].rows = {}

HitsAreSearchable ==
  \A t \in Tasks : \A c \in task[t].hits :
    /\ world.route[t] = "document"
    /\ dataset = "active" => Searchable(c)

RowsAreSupported ==
  \A t \in Tasks : \A f \in task[t].rows :
    /\ world.route[t] = "document" =>
         f \in Chunks /\ f \in ledger /\ VerifierAccepts(world.record[f])
    /\ world.route[t] = "graph" =>
         f \in Relations /\ f \in ledger /\ Exportable(world.record[f])

ReleaseIsDerived ==
  \A r \in Runs :
    /\ release[r].at # "none" => outcome[r] # "none"
    /\ release[r].at \in {"assembled", "passed"} =>
         /\ release[r].claims = UNION {ClaimsOf(t) : t \in Answered(r)}
         /\ \A t \in Answered(r) : task[t].rows \subseteq ledger
    /\ release[r].at = "passed" =>
         /\ release[r].disposition = DispositionOf(r)
         /\ \A claim \in release[r].claims : VerifierAccepts(world.record[claim[2]])
    /\ release[r].at # "passed" => release[r].disposition = "none"

PipelineInv ==
  /\ SkipsInv /\ OutcomeStands /\ PipelineTypeOK
  /\ WorkIsDecided /\ HitsAreSearchable /\ RowsAreSupported
  /\ ReleaseIsDerived /\ LossIsCaused

\* The initial states satisfy it.
LEMMA PipelineInvInit == PipelineInit => PipelineInv
<1> SUFFICES ASSUME PipelineInit PROVE PipelineInv
  OBVIOUS
<1>1. SkipsInv /\ OutcomeStands
  BY SkipsInit DEF PipelineInit, Init, OutcomeStands
<1>2. \A t \in Tasks : task[t] = NoWork /\ verdict[t] = "open"
  BY DEF PipelineInit, Init
<1>3. \A r \in Runs : release[r] = NoRelease /\ outcome[r] = "none"
  BY DEF PipelineInit, Init
<1>4. NoWork \in Work /\ NoWork.at = "waiting" /\ NoWork.hits = {} /\ NoWork.rows = {}
        /\ NoWork.status = "none"
  BY DEF NoWork, Work
<1>5. PipelineTypeOK
  <2>1. TypeOK
    BY <1>1 DEF SkipsInv
  <2>2. ledger \subseteq Facts
    BY DEF PipelineInit, Facts
  <2>3. NoRelease \in [at : ReleaseStates, claims : SUBSET (Tasks \X Facts),
                       disposition : Dispositions]
    BY DEF NoRelease, ReleaseStates, Dispositions
  <2> QED BY <2>1, <2>2, <2>3, <1>4 DEF PipelineTypeOK, PipelineInit
<1>6. WorkIsDecided /\ HitsAreSearchable /\ RowsAreSupported
  BY <1>2, <1>4 DEF WorkIsDecided, HitsAreSearchable, RowsAreSupported, Executed
<1>7. ReleaseIsDerived /\ LossIsCaused
  BY <1>3 DEF ReleaseIsDerived, LossIsCaused, NoRelease
<1> QED BY <1>1, <1>5, <1>6, <1>7 DEF PipelineInv
-----------------------------------------------------------------------------
Works(t) ==
  \/ Search(t) \/ Traverse(t) \/ Select(t) \/ Raise(t) \/ TimeOut(t)
  \/ \E c \in Chunks : Promote(t, c)

\* What an executor can have become.
NextWork(t) ==
  \/ task'[t] = NoWork
  \/ \E status \in {"none", "timeout", "empty"} : task'[t] = Ended(status, {})
  \/ /\ task[t].at = "waiting" /\ world.route[t] = "document"
     /\ \E hits \in SUBSET {c \in Chunks : Searchable(c)} :
          task'[t] = [task[t] EXCEPT !.at = "promoting", !.hits = hits]
  \/ \E c \in task[t].hits : \E rows \in SUBSET Facts :
       /\ Promotable(c) /\ ledger' = ledger \cup {c}
       /\ rows = task[t].rows \cup {c}
       /\ task[t].at = "promoting"
       /\ \/ task'[t] = Ended("success", rows)
          \/ task'[t] = [task[t] EXCEPT !.hits = @ \ {c}, !.rows = rows]
  \/ /\ world.route[t] = "graph"
     /\ \E rows \in SUBSET Graph : task'[t] = Ended("success", rows)
  \/ /\ world.route[t] = "sql"
     /\ \E rows \in SUBSET Observations : task'[t] = Ended("success", rows)

\* A step of an executor changes its own task and, when it promotes, the ledger.
LEMMA WorkStep ==
  ASSUME PipelineTypeOK, NEW t \in Tasks, Works(t)
  PROVE  /\ UNCHANGED <<plan, verdict, outcome, world, dataset, release>>
         /\ t \in Resolvable(RunOf[t]) /\ Permitted(t) = Executed
         /\ \A u \in Tasks : u # t => task'[u] = task[u]
         /\ NextWork(t)
         /\ ledger \subseteq ledger' /\ ledger' \subseteq Facts
         /\ \E w : task' = [task EXCEPT ![t] = w]
<1>1. task \in [Tasks -> Work] /\ ledger \subseteq Facts /\ Chunks \subseteq Facts
  BY DEF PipelineTypeOK, Facts
<1>2. /\ task[t].hits \subseteq Chunks /\ task[t].rows \subseteq Facts
  BY <1>1 DEF Work
<1>3. CASE Search(t)
  <2>1. PICK hits \in SUBSET {c \in Chunks : Searchable(c)} :
          IF hits = {} THEN Answer(t, {})
          ELSE task' = [task EXCEPT ![t].at = "promoting", ![t].hits = hits]
    BY <1>3 DEF Search
  <2>2. CASE hits = {}
    BY <1>1, <1>3, <2>1, <2>2 DEF Search, Busy, Answer, NextWork, vars
  <2>3. CASE hits # {}
    <3>1. task' = [task EXCEPT ![t] = [task[t] EXCEPT !.at = "promoting", !.hits = hits]]
      BY <2>1, <2>3, <1>1 DEF Work
    <3>2. task'[t] = [task[t] EXCEPT !.at = "promoting", !.hits = hits]
      BY <3>1, <1>1
    <3> QED BY <1>1, <1>3, <3>1, <3>2 DEF Search, Busy, NextWork, vars
  <2> QED BY <2>2, <2>3
<1>4. CASE Traverse(t)
  <2>1. PICK rows \in SUBSET Graph : Answer(t, rows)
    BY <1>4 DEF Traverse
  <2>2. task' = [task EXCEPT ![t] = Ended(IF rows = {} THEN "empty" ELSE "success", rows)]
    BY <2>1 DEF Answer
  <2>3. task'[t] = Ended(IF rows = {} THEN "empty" ELSE "success", rows)
    BY <2>2, <1>1
  <2>4. NextWork(t)
    BY <2>3, <1>4 DEF NextWork, Traverse
  <2> QED BY <1>1, <1>4, <2>2, <2>4 DEF Traverse, Busy, vars
<1>5. CASE Select(t)
  <2>1. PICK rows \in SUBSET Observations, status \in {"empty", "success"} :
          /\ status = "empty" => rows = {}
          /\ task' = [task EXCEPT ![t] = Ended(status, rows)]
    BY <1>5 DEF Select
  <2>2. task'[t] = Ended(status, rows)
    BY <2>1, <1>1
  <2>3. NextWork(t)
    BY <2>1, <2>2, <1>5 DEF NextWork, Select
  <2> QED BY <1>1, <1>5, <2>1, <2>3 DEF Select, Busy, vars
<1>6. CASE Raise(t)
  BY <1>1, <1>6 DEF Raise, Busy, NextWork, vars
<1>7. CASE TimeOut(t)
  BY <1>1, <1>7 DEF TimeOut, Busy, NextWork, vars
<1>8. ASSUME NEW c \in Chunks, Promote(t, c)
      PROVE  /\ NextWork(t) /\ ledger \subseteq ledger' /\ ledger' \subseteq Facts
             /\ \E w : task' = [task EXCEPT ![t] = w]
  <2>1. CASE Promotable(c) /\ LedgerTakes(world.record[c])
    <3> DEFINE rows == task[t].rows \cup {c}
    <3>1. rows \in SUBSET Facts /\ c \in task[t].hits /\ task[t].at = "promoting"
      BY <1>1, <1>2, <1>8 DEF Promote, Busy
    <3>2. ledger' = ledger \cup {c}
      BY <1>8, <2>1 DEF Promote
    <3>3. CASE task[t].hits = {c}
      <4>1. task' = [task EXCEPT ![t] = Ended("success", rows)]
        BY <1>8, <2>1, <3>3 DEF Promote, Answer
      <4>2. task'[t] = Ended("success", rows)
        BY <4>1, <1>1
      <4> QED BY <1>1, <2>1, <3>1, <3>2, <4>1, <4>2 DEF NextWork
    <3>4. CASE task[t].hits # {c}
      <4>1. task' = [task EXCEPT ![t].hits = @ \ {c}, ![t].rows = @ \cup {c}]
        BY <1>8, <2>1, <3>4 DEF Promote
      <4>2. task' = [task EXCEPT ![t] = [task[t] EXCEPT !.hits = @ \ {c}, !.rows = rows]]
        BY <4>1, <1>1 DEF Work
      <4>3. task'[t] = [task[t] EXCEPT !.hits = @ \ {c}, !.rows = rows]
        BY <4>2, <1>1
      <4> QED BY <1>1, <2>1, <3>1, <3>2, <4>2, <4>3 DEF NextWork
    <3> QED BY <3>3, <3>4
  <2>2. CASE ~ (Promotable(c) /\ LedgerTakes(world.record[c]))
    BY <1>1, <1>8, <2>2 DEF Promote, NextWork
  <2> QED BY <2>1, <2>2
<1>9. ASSUME NEW c \in Chunks, Promote(t, c)
      PROVE  /\ UNCHANGED <<plan, verdict, outcome, world, dataset, release>>
             /\ t \in Resolvable(RunOf[t]) /\ Permitted(t) = Executed
  BY <1>9 DEF Promote, Busy, vars
<1>10. CASE \E c \in Chunks : Promote(t, c)
  BY <1>1, <1>8, <1>9, <1>10
<1> QED BY <1>3, <1>4, <1>5, <1>6, <1>7, <1>10 DEF Works

\* Every step is one of the plan's evaluation, or leaves it alone.
LEMMA PlanStep == PipelineTypeOK /\ [PipelineNext]_pipelineVars => [Next]_vars
<1> SUFFICES ASSUME PipelineTypeOK, [PipelineNext]_pipelineVars PROVE [Next]_vars
  OBVIOUS
<1>1. ASSUME NEW t \in Tasks, Works(t) PROVE UNCHANGED vars
  BY <1>1, WorkStep DEF vars
<1>2. ASSUME NEW r \in Runs, GatherWave(r) \/ ConcludeRun(r) PROVE Next
  BY <1>2 DEF GatherWave, ConcludeRun, Next
<1>3. ASSUME NEW r \in Runs, Assemble(r) \/ Verify(r) PROVE UNCHANGED vars
  BY <1>3 DEF Assemble, Verify
<1>4. RetireDataset => UNCHANGED vars
  BY DEF RetireDataset
<1> QED BY <1>1, <1>2, <1>3, <1>4 DEF PipelineNext, Works, pipelineVars

\* A record written by an executor is a piece of work, and says what it may say.
LEMMA NextWorkIsWork ==
  ASSUME PipelineTypeOK, NEW t \in Tasks, NextWork(t)
  PROVE  task'[t] \in Work
<1>1. task[t] \in Work /\ task[t].hits \subseteq Chunks /\ task[t].rows \subseteq Facts
  BY DEF PipelineTypeOK, Work
<1>2. \A status \in {"none", "success", "empty", "timeout"}, rows \in SUBSET Facts :
        Ended(status, rows) \in Work
  BY DEF Ended, NoWork, Work
<1>3. NoWork \in Work /\ Graph \subseteq Facts /\ Observations \subseteq Facts
  BY DEF NoWork, Work, Graph, Facts
<1>4. \A hits \in SUBSET Chunks :
        [task[t] EXCEPT !.at = "promoting", !.hits = hits] \in Work
  BY <1>1 DEF Work
<1>5. \A c \in Chunks, rows \in SUBSET Facts :
        [task[t] EXCEPT !.hits = @ \ {c}, !.rows = rows] \in Work
  BY <1>1 DEF Work
<1>6. CASE \E hits \in SUBSET {c \in Chunks : Searchable(c)} :
             task'[t] = [task[t] EXCEPT !.at = "promoting", !.hits = hits]
  BY <1>4, <1>6
<1>7. CASE \E c \in task[t].hits : \E rows \in SUBSET Facts :
             \/ task'[t] = Ended("success", rows)
             \/ task'[t] = [task[t] EXCEPT !.hits = @ \ {c}, !.rows = rows]
  BY <1>1, <1>2, <1>5, <1>7
<1>8. CASE \/ task'[t] = NoWork
           \/ \E status \in {"none", "success", "empty", "timeout"}, rows \in SUBSET Facts :
                task'[t] = Ended(status, rows)
  BY <1>2, <1>3, <1>8
<1> QED BY <1>3, <1>6, <1>7, <1>8 DEF NextWork

LEMMA PipelineTypeStep ==
  ASSUME PipelineTypeOK, TypeOK', [PipelineNext]_pipelineVars
  PROVE  PipelineTypeOK'
<1> DEFINE Entries == [at : ReleaseStates, claims : SUBSET (Tasks \X Facts),
                       disposition : Dispositions]
<1>1. release \in [Runs -> Entries] /\ task \in [Tasks -> Work]
  BY DEF PipelineTypeOK
<1>2. ASSUME NEW t \in Tasks, Works(t) PROVE PipelineTypeOK'
  <2>1. PICK w : task' = [task EXCEPT ![t] = w]
    BY <1>2, WorkStep
  <2>2. task'[t] \in Work
    BY <1>2, WorkStep, NextWorkIsWork
  <2>3. task' \in [Tasks -> Work]
    BY <1>1, <2>1, <2>2
  <2> QED BY <1>2, <2>3, WorkStep DEF PipelineTypeOK
<1>3. ASSUME NEW r \in Runs, GatherWave(r) \/ ConcludeRun(r) PROVE PipelineTypeOK'
  BY <1>3 DEF GatherWave, ConcludeRun, PipelineTypeOK
<1>4. ASSUME NEW r \in Runs, Assemble(r) PROVE PipelineTypeOK'
  <2>1. UNION {ClaimsOf(t) : t \in Answered(r)} \in SUBSET (Tasks \X Facts)
    <3>1. \A t \in Answered(r) : t \in Tasks /\ task[t].rows \subseteq Facts
      BY <1>1 DEF Answered, ResultsOf, TasksOf, Work
    <3>2. world.subtask \in [Tasks -> Tasks]
      BY WorldTypes DEF PipelineTypeOK
    <3>3. \A t \in Answered(r) : ClaimsOf(t) \subseteq Tasks \X Facts
      BY <3>1, <3>2 DEF ClaimsOf
    <3> QED BY <3>3
  <2>2. \E e \in Entries : release' = [release EXCEPT ![r] = e]
    <3>1. [NoRelease EXCEPT !.at = "refused"] \in Entries
      BY DEF NoRelease, ReleaseStates, Dispositions
    <3>2. [NoRelease EXCEPT !.at = "assembled",
                            !.claims = UNION {ClaimsOf(t) : t \in Answered(r)}] \in Entries
      BY <2>1 DEF NoRelease, ReleaseStates, Dispositions
    <3> QED BY <3>1, <3>2, <1>4 DEF Assemble
  <2>3. release' \in [Runs -> Entries]
    BY <1>1, <2>2
  <2> QED BY <2>3, <1>4 DEF Assemble, PipelineTypeOK
<1>5. ASSUME NEW r \in Runs, Verify(r) PROVE PipelineTypeOK'
  <2>1. \A e \in Entries :
          /\ [e EXCEPT !.at = "passed", !.disposition = DispositionOf(r)] \in Entries
          /\ [e EXCEPT !.at = "failed", !.claims = {}] \in Entries
    BY DEF ReleaseStates, Dispositions, DispositionOf
  <2>2. \E e \in Entries : release' = [release EXCEPT ![r] = e]
    BY <1>1, <2>1, <1>5 DEF Verify
  <2>3. release' \in [Runs -> Entries]
    BY <1>1, <2>2
  <2> QED BY <2>3, <1>5 DEF Verify, PipelineTypeOK
<1>6. RetireDataset => PipelineTypeOK'
  BY DEF RetireDataset, PipelineTypeOK
<1>7. CASE UNCHANGED pipelineVars
  BY <1>7 DEF pipelineVars, vars, PipelineTypeOK
<1> QED BY <1>2, <1>3, <1>4, <1>5, <1>6, <1>7 DEF PipelineNext, Works

\* The tasks of a step that is not an executor's keep their work.
LEMMA OtherStep ==
  ASSUME [PipelineNext]_pipelineVars, \A t \in Tasks : ~ Works(t)
  PROVE  /\ UNCHANGED <<world, ledger, task>>
         /\ dataset' = dataset \/ dataset' = "retired"
<1>1. ASSUME NEW r \in Runs, GatherWave(r) \/ ConcludeRun(r) \/ Assemble(r) \/ Verify(r)
      PROVE  UNCHANGED <<world, dataset, ledger, task>>
  BY <1>1 DEF GatherWave, ConcludeRun, Assemble, Verify
<1> QED BY <1>1 DEF PipelineNext, Works, RetireDataset, pipelineVars

\* Hits are searchable as long as the dataset is active.
LEMMA HitsStep ==
  ASSUME PipelineTypeOK, HitsAreSearchable, [PipelineNext]_pipelineVars
  PROVE  HitsAreSearchable'
<1>1. ASSUME NEW t \in Tasks, Works(t) PROVE HitsAreSearchable'
  <2>1. UNCHANGED <<world, dataset>> /\ \A c : Searchable(c)' = Searchable(c)
    BY <1>1, WorkStep DEF Searchable, SeoulOnTime, NotAfter
  <2>2. \A u \in Tasks : u # t => task'[u] = task[u]
    BY <1>1, WorkStep
  <2>3. ASSUME NEW c \in task'[t].hits
        PROVE  world.route[t] = "document" /\ (dataset = "active" => Searchable(c))
    <3>1. task[t] \in Work /\ NextWork(t)
      BY <1>1, WorkStep DEF PipelineTypeOK
    <3>2. \A status, rows : Ended(status, rows).hits = {}
      BY DEF Ended, NoWork
    <3>3. NoWork.hits = {}
      BY DEF NoWork
    <3>4. CASE \E hits \in SUBSET {d \in Chunks : Searchable(d)} :
                 /\ world.route[t] = "document"
                 /\ task'[t] = [task[t] EXCEPT !.at = "promoting", !.hits = hits]
      BY <3>1, <3>4, <2>3 DEF Work
    <3>5. CASE \E d \in task[t].hits, rows \in SUBSET Facts :
                 task'[t] = [task[t] EXCEPT !.hits = @ \ {d}, !.rows = rows]
      BY <3>1, <3>5, <2>3 DEF Work, HitsAreSearchable
    <3> QED BY <3>1, <3>2, <3>3, <3>4, <3>5, <2>3 DEF NextWork
  <2> QED BY <2>1, <2>2, <2>3 DEF HitsAreSearchable
<1>2. CASE \A t \in Tasks : ~ Works(t)
  <2>1. UNCHANGED <<world, task>> /\ (dataset' = dataset \/ dataset' = "retired")
    BY <1>2, OtherStep
  <2>2. dataset' = "active" => \A c : Searchable(c)' = Searchable(c)
    BY <2>1 DEF Searchable, SeoulOnTime, NotAfter
  <2> QED BY <2>1, <2>2 DEF HitsAreSearchable
<1> QED BY <1>1, <1>2

\* What supports a row stays: the ledger only grows and the records are fixed.
LEMMA RowsStep ==
  ASSUME PipelineTypeOK, HitsAreSearchable, RowsAreSupported,
         [PipelineNext]_pipelineVars
  PROVE  RowsAreSupported'
<1>1. ASSUME NEW t \in Tasks, Works(t) PROVE RowsAreSupported'
  <2>1. /\ UNCHANGED world /\ ledger \subseteq ledger'
        /\ \A u \in Tasks : u # t => task'[u] = task[u]
    BY <1>1, WorkStep
  <2>2. \A f : /\ VerifierAccepts(world.record[f])' = VerifierAccepts(world.record[f])
               /\ Exportable(world.record[f])' = Exportable(world.record[f])
    BY <2>1 DEF VerifierAccepts, Exportable, SeoulOnTime, NotAfter
  <2>3. ASSUME NEW f \in task'[t].rows
        PROVE  /\ world.route[t] = "document" =>
                    f \in Chunks /\ f \in ledger' /\ VerifierAccepts(world.record[f])
               /\ world.route[t] = "graph" =>
                    f \in Relations /\ f \in ledger' /\ Exportable(world.record[f])
    <3>1. task[t] \in Work /\ NextWork(t) /\ world \in Worlds
      BY <1>1, WorkStep DEF PipelineTypeOK
    <3>2. \A status, rows : Ended(status, rows).rows = rows
      BY DEF Ended, NoWork
    <3>3. NoWork.rows = {}
      BY DEF NoWork
    <3>4. CASE f \in task[t].rows
      BY <3>4, <2>1 DEF RowsAreSupported
    <3>5. ASSUME NEW c \in task[t].hits, Promotable(c), ledger' = ledger \cup {c},
                 task'[t].rows = task[t].rows \cup {c}
          PROVE  /\ world.route[t] = "document" =>
                    f \in Chunks /\ f \in ledger' /\ VerifierAccepts(world.record[f])
                 /\ world.route[t] = "graph" =>
                    f \in Relations /\ f \in ledger' /\ Exportable(world.record[f])
      <4>1. c \in Chunks /\ world.route[t] = "document"
        BY <3>1 DEF Work, HitsAreSearchable
      <4>2. VerifierAccepts(world.record[c])
        BY <3>1, <3>5, <4>1, PromotionChain
      <4>3. CASE f = c
        BY <3>5, <4>1, <4>2, <4>3
      <4> QED BY <3>5, <4>3, <3>4, <2>3
    <3>6. CASE /\ world.route[t] = "graph"
               /\ \E rows \in SUBSET Graph : task'[t] = Ended("success", rows)
      BY <3>2, <3>6, <2>1, <2>3 DEF Graph
    <3>7. CASE world.route[t] = "sql"
      BY <3>7
    <3>8. CASE \E hits : task'[t] = [task[t] EXCEPT !.at = "promoting", !.hits = hits]
      BY <3>1, <3>4, <3>8, <2>3 DEF Work
    <3>9. \A c, rows : task'[t] = [task[t] EXCEPT !.hits = @ \ {c}, !.rows = rows]
                         => task'[t].rows = rows
      BY <3>1 DEF Work
    <3>10. CASE \E c \in task[t].hits : \E rows \in SUBSET Facts :
                  /\ Promotable(c) /\ ledger' = ledger \cup {c}
                  /\ rows = task[t].rows \cup {c}
                  /\ \/ task'[t] = Ended("success", rows)
                     \/ task'[t] = [task[t] EXCEPT !.hits = @ \ {c}, !.rows = rows]
      <4>1. PICK c \in task[t].hits : \E rows \in SUBSET Facts :
                  /\ Promotable(c) /\ ledger' = ledger \cup {c}
                  /\ rows = task[t].rows \cup {c}
                  /\ \/ task'[t] = Ended("success", rows)
                     \/ task'[t] = [task[t] EXCEPT !.hits = @ \ {c}, !.rows = rows]
        BY <3>10
      <4>2. task'[t].rows = task[t].rows \cup {c}
        BY <4>1, <3>2, <3>9
      <4> QED BY <4>1, <4>2, <3>5
    <3>11. CASE \/ task'[t] = NoWork
                \/ \E status : task'[t] = Ended(status, {})
      BY <3>11, <3>2, <3>3, <2>3
    <3> QED BY <3>1, <3>6, <3>7, <3>8, <3>10, <3>11 DEF NextWork
  <2> QED BY <2>1, <2>2, <2>3 DEF RowsAreSupported
<1>2. CASE \A t \in Tasks : ~ Works(t)
  <2>1. UNCHANGED <<world, ledger, task>>
    BY <1>2, OtherStep
  <2>2. /\ world' = world /\ ledger' = ledger
        /\ \A t \in Tasks : task'[t].rows = task[t].rows
    BY <2>1
  <2> QED BY <2>2 DEF RowsAreSupported, VerifierAccepts, Exportable, SeoulOnTime, NotAfter
<1> QED BY <1>1, <1>2
-----------------------------------------------------------------------------
\* A verdict once given stands.
LEMMA VerdictStands ==
  ASSUME TypeOK, [Next]_vars, NEW t \in Tasks, verdict[t] # "open"
  PROVE  verdict'[t] = verdict[t] /\ plan' = plan
<1>1. ASSUME NEW r \in Runs, Resolve(r) PROVE verdict'[t] = verdict[t] /\ plan' = plan
  BY <1>1 DEF Resolve, Resolvable
<1>2. ASSUME NEW r \in Runs, Conclude(r) PROVE verdict'[t] = verdict[t] /\ plan' = plan
  BY <1>2 DEF Conclude
<1> QED BY <1>1, <1>2 DEF Next, vars

\* A gathered wave gives its tasks the verdicts of their results.
LEMMA Gathered ==
  ASSUME PipelineTypeOK, NEW r \in Runs, GatherWave(r), NEW t \in Tasks
  PROVE  /\ t \notin Resolvable(r) => verdict'[t] = verdict[t]
         /\ t \in Resolvable(r) =>
              /\ verdict'[t] \in Permitted(t)
              /\ verdict'[t] \in Executed =>
                   task[t].at = "ended" /\ verdict'[t] = VerdictOf(t)
<1>1. PICK S \in SUBSET Resolvable(r) : \E decided \in [S -> Verdicts] :
        /\ \A u \in S : decided[u] \in Permitted(u)
        /\ verdict' = [u \in Tasks |-> IF u \in S THEN decided[u] ELSE verdict[u]]
  BY DEF GatherWave, Resolve
<1>2. t \notin Resolvable(r) => verdict'[t] = verdict[t]
  BY <1>1
<1>3. ASSUME t \in Resolvable(r)
      PROVE  /\ verdict'[t] \in Permitted(t)
             /\ verdict'[t] \in Executed =>
                  task[t].at = "ended" /\ verdict'[t] = VerdictOf(t)
  <2>1. verdict[t] = "open" /\ verdict'[t] # "open"
    BY <1>3 DEF Resolvable, GatherWave
  <2>2. verdict'[t] \in Permitted(t)
    BY <1>1, <2>1
  <2>3. Permitted(t) = Executed \/ Permitted(t) \cap Executed = {}
    BY DEF Permitted, Executed
  <2>4. (Permitted(t) = Executed => task[t].at = "ended")
        /\ (verdict'[t] \in Executed => verdict'[t] = VerdictOf(t))
    BY <1>3 DEF GatherWave
  <2> QED BY <2>2, <2>3, <2>4
<1> QED BY <1>2, <1>3

\* Executors and verdicts stay in step.
LEMMA DecidedStep ==
  ASSUME TypeOK, PipelineTypeOK, WorkIsDecided, [PipelineNext]_pipelineVars
  PROVE  WorkIsDecided'
<1>1. ASSUME NEW t \in Tasks, Works(t) PROVE WorkIsDecided'
  <2>1. /\ plan' = plan /\ verdict' = verdict
        /\ \A u \in Tasks : u # t => task'[u] = task[u]
        /\ t \in Resolvable(RunOf[t]) /\ Permitted(t) = Executed /\ NextWork(t)
    BY <1>1, WorkStep
  <2>2. \A u \in Tasks : /\ DependencyVerdicts(u)' = DependencyVerdicts(u)
                         /\ Permitted(u)' = Permitted(u)
    BY <2>1 DEF DependencyVerdicts, Permitted
  <2>3. verdict[t] = "open" /\ "open" \notin DependencyVerdicts(t)
    BY <2>1 DEF Resolvable
  <2>4. /\ task'[t].status # "none" => task'[t].at = "ended"
        /\ task'[t].status \in {"empty", "timeout"} => task'[t].rows = {}
    <3>1. task[t] \in Work
      BY DEF PipelineTypeOK
    <3>2. \A status, rows : /\ Ended(status, rows).at = "ended"
                            /\ Ended(status, rows).status = status
                            /\ Ended(status, rows).rows = rows
      BY DEF Ended, NoWork
    <3>3. NoWork.status = "none"
      BY DEF NoWork
    <3>4. CASE \E hits : /\ task[t].at = "waiting"
                         /\ task'[t] = [task[t] EXCEPT !.at = "promoting", !.hits = hits]
      BY <3>1, <3>4 DEF WorkIsDecided, Work
    <3>5. CASE \E c, rows : /\ task[t].at = "promoting"
                            /\ task'[t] = [task[t] EXCEPT !.hits = @ \ {c}, !.rows = rows]
      BY <3>1, <3>5 DEF WorkIsDecided, Work
    <3>6. CASE \/ task'[t] = NoWork
               \/ \E status : task'[t] = Ended(status, {})
               \/ \E rows : task'[t] = Ended("success", rows)
      BY <3>2, <3>3, <3>6
    <3> QED BY <2>1, <3>4, <3>5, <3>6 DEF NextWork
  <2>5. \A u \in Tasks : u # t => VerdictOf(u)' = VerdictOf(u)
    BY <2>1 DEF VerdictOf
  <2>6. "open" \notin Executed
    BY DEF Executed
  <2> QED BY <2>1, <2>2, <2>3, <2>4, <2>5, <2>6 DEF WorkIsDecided
<1>2. ASSUME NEW r \in Runs, GatherWave(r) PROVE WorkIsDecided'
  <2>1. plan' = plan /\ task' = task /\ [Next]_vars
    BY <1>2 DEF GatherWave, Resolve, Next
  <2>2. ASSUME NEW t \in Tasks, "open" \notin DependencyVerdicts(t)
        PROVE  /\ DependencyVerdicts(t)' = DependencyVerdicts(t)
               /\ Permitted(t)' = Permitted(t)
    <3>1. plan.dependsOn[t] \subseteq Tasks
      BY PlanIsWellFormed
    <3>2. \A d \in plan.dependsOn[t] : verdict'[d] = verdict[d]
      BY <3>1, <2>1, <2>2, VerdictStands DEF DependencyVerdicts
    <3>3. DependencyVerdicts(t)' = DependencyVerdicts(t)
      BY <3>2, <2>1 DEF DependencyVerdicts
    <3> QED BY <3>3 DEF Permitted
  <2>3. ASSUME NEW t \in Tasks
        PROVE  /\ task[t].at # "waiting" => verdict'[t] \in Executed \cup {"open"}
               /\ verdict'[t] \in Executed =>
                    task[t].at = "ended" /\ verdict'[t] = VerdictOf(t)
    BY <1>2, Gathered DEF WorkIsDecided
  <2>4. \A t \in Tasks : VerdictOf(t)' = VerdictOf(t)
    BY <2>1 DEF VerdictOf
  <2> QED BY <2>1, <2>2, <2>3, <2>4 DEF WorkIsDecided
<1>3. CASE UNCHANGED <<plan, verdict, task>>
  BY <1>3 DEF WorkIsDecided, DependencyVerdicts, Permitted, VerdictOf
<1>4. ASSUME NEW r \in Runs, ConcludeRun(r) \/ Assemble(r) \/ Verify(r)
      PROVE  UNCHANGED <<plan, verdict, task>>
  BY <1>4 DEF ConcludeRun, Conclude, Assemble, Verify, vars
<1>5. RetireDataset \/ UNCHANGED pipelineVars => UNCHANGED <<plan, verdict, task>>
  BY DEF RetireDataset, pipelineVars, vars
<1> QED BY <1>1, <1>2, <1>3, <1>4, <1>5 DEF PipelineNext, Works
-----------------------------------------------------------------------------
\* Nothing a release is made of changes once the run is concluded.
LEMMA ConcludedIsFrozen ==
  ASSUME PipelineInv, [PipelineNext]_pipelineVars, NEW r \in Runs, outcome[r] # "none"
  PROVE  /\ world' = world /\ ledger \subseteq ledger' /\ plan' = plan
         /\ outcome'[r] = outcome[r]
         /\ \A t \in TasksOf(r) : task'[t] = task[t] /\ verdict'[t] = verdict[t]
         /\ ResultsOf(r)' = ResultsOf(r) /\ Answered(r)' = Answered(r)
         /\ Unanswered(r)' = Unanswered(r) /\ DispositionOf(r)' = DispositionOf(r)
         /\ \A t \in TasksOf(r) : ClaimsOf(t)' = ClaimsOf(t)
<1> USE DEF PipelineInv, SkipsInv
<1>1. [Next]_vars
  BY PlanStep
<1>2. \A t \in TasksOf(r) : t \in Tasks /\ verdict[t] # "open"
  BY DEF OutcomeStands, TasksOf
<1>3. plan' = plan /\ outcome'[r] = outcome[r]
  <2>1. ASSUME NEW q \in Runs, Resolve(q) PROVE plan' = plan /\ outcome'[r] = outcome[r]
    BY <2>1 DEF Resolve
  <2>2. ASSUME NEW q \in Runs, Conclude(q) PROVE plan' = plan /\ outcome'[r] = outcome[r]
    BY <2>2 DEF Conclude, TypeOK
  <2> QED BY <1>1, <2>1, <2>2 DEF Next, vars
<1>4. \A t \in TasksOf(r) : verdict'[t] = verdict[t]
  BY <1>1, <1>2, VerdictStands
<1>5. /\ world' = world /\ ledger \subseteq ledger'
      /\ \A t \in TasksOf(r) : task'[t] = task[t]
  <2>1. ASSUME NEW t \in Tasks, Works(t)
        PROVE  /\ world' = world /\ ledger \subseteq ledger' /\ t \notin TasksOf(r)
               /\ \A u \in Tasks : u # t => task'[u] = task[u]
    BY <2>1, <1>2, WorkStep DEF Resolvable
  <2>2. CASE \A t \in Tasks : ~ Works(t)
    BY <2>2, OtherStep
  <2> QED BY <2>1, <2>2, <1>2
<1>6. ResultsOf(r)' = ResultsOf(r) /\ ResultsOf(r) \subseteq TasksOf(r)
  BY <1>5 DEF ResultsOf, TasksOf
<1>7. Answered(r)' = Answered(r) /\ Unanswered(r)' = Unanswered(r)
  BY <1>5, <1>6 DEF Answered, Unanswered
<1>8. DispositionOf(r)' = DispositionOf(r)
  BY <1>7 DEF DispositionOf
<1>9. \A t \in TasksOf(r) : ClaimsOf(t)' = ClaimsOf(t)
  BY <1>5 DEF ClaimsOf
<1> QED BY <1>3, <1>4, <1>5, <1>6, <1>7, <1>8, <1>9

\* Why a run lost its answer.
LossCause(r) ==
  \/ \E t \in ResultsOf(r) : world.route[t] = "sql" /\ task[t].rows # {}
  \/ \E t, u \in ResultsOf(r) : t # u /\ world.subtask[t] = world.subtask[u]
  \/ \E t \in ResultsOf(r) : \E f \in task[t].rows \cap Relations :
       \/ ~ world.record[f].authoritative
       \/ \E d \in world.record[f].to : d < Cutoff

\* What the assembler refuses.
LEMMA RefusalIsCaused ==
  ASSUME PipelineInv, NEW r \in Runs, ~ Assemblable(r), ResultsOf(r) # {}
  PROVE  LossCause(r)
<1> USE DEF PipelineInv
<1>1. \A t \in ResultsOf(r) : t \in Tasks /\ task[t].rows \subseteq Facts
  BY DEF ResultsOf, TasksOf, PipelineTypeOK, Work
<1>2. ASSUME NEW t \in ResultsOf(r), ~ task[t].rows \subseteq Found(t)
      PROVE  LossCause(r)
  <2>1. PICK f \in task[t].rows : f \notin Found(t)
    BY <1>2
  <2>2. CASE world.route[t] = "sql"
    BY <2>1, <2>2 DEF LossCause
  <2>3. CASE world.route[t] # "sql"
    <3>1. f \in ledger
      BY <1>1, <2>1, <2>3, WorldTypes DEF RowsAreSupported, PipelineTypeOK
    <3>2. [space |-> "", id |-> f] \in RefsOf(t)
      BY <2>1, <2>3 DEF RefsOf
    <3> QED BY <2>1, <3>1, <3>2 DEF Found
  <2> QED BY <2>2, <2>3
<1>3. ASSUME NEW t \in ResultsOf(r), NEW u \in ResultsOf(r), t # u,
             ClaimsOf(t) \cap ClaimsOf(u) # {}
      PROVE  LossCause(r)
  <2>1. world.subtask[t] = world.subtask[u]
    BY <1>3 DEF ClaimsOf
  <2> QED BY <2>1, <1>3 DEF LossCause
<1>4. ASSUME SubtasksOf(Answered(r)) \cap SubtasksOf(Unanswered(r)) # {}
      PROVE  LossCause(r)
  <2>1. PICK t \in Answered(r), u \in Unanswered(r) : world.subtask[t] = world.subtask[u]
    BY <1>4 DEF SubtasksOf
  <2>2. t \in ResultsOf(r) /\ u \in ResultsOf(r) /\ t # u
    BY DEF Answered, Unanswered
  <2> QED BY <2>1, <2>2 DEF LossCause
<1> QED BY <1>2, <1>3, <1>4 DEF Assemblable

\* What the verifier rejects.
LEMMA RejectionIsCaused ==
  ASSUME PipelineInv, NEW r \in Runs, NEW claim \in release[r].claims,
         release[r].at = "assembled", ~ VerifierAccepts(world.record[claim[2]])
  PROVE  ResultsOf(r) # {} /\ LossCause(r)
<1> USE DEF PipelineInv
<1>1. PICK t \in Answered(r) : claim \in ClaimsOf(t)
  BY DEF ReleaseIsDerived
<1>2. PICK f \in task[t].rows : claim = <<world.subtask[t], f>>
  BY <1>1 DEF ClaimsOf
<1>3. t \in ResultsOf(r) /\ t \in Tasks /\ task[t].rows # {}
  BY DEF Answered, ResultsOf, TasksOf
<1>4. ~ VerifierAccepts(world.record[f]) /\ world \in Worlds
  BY <1>2 DEF PipelineTypeOK
<1>5. CASE world.route[t] = "sql"
  BY <1>3, <1>5 DEF LossCause
<1>6. CASE world.route[t] = "document"
  BY <1>3, <1>4, <1>6 DEF RowsAreSupported
<1>7. CASE world.route[t] = "graph"
  <2>1. f \in Relations /\ Exportable(world.record[f])
    BY <1>3, <1>7 DEF RowsAreSupported
  <2>2. ~ world.record[f].authoritative \/ \E d \in world.record[f].to : ~ (d >= Cutoff)
    BY <1>4, <2>1, ExportedIsRejected
  <2>3. world.record[f].to \subseteq Int
    BY <1>4, <2>1, WorldTypes DEF Records, Optional
  <2>4. ~ world.record[f].authoritative \/ \E d \in world.record[f].to : d < Cutoff
    BY <2>2, <2>3, WorldAssumption
  <2> QED BY <1>3, <2>1, <2>4 DEF LossCause
<1> QED BY <1>3, <1>4, <1>5, <1>6, <1>7, WorldTypes

\* What a release is derived from, and why one is lost, stays true.
LEMMA ReleaseStep ==
  ASSUME PipelineInv, [PipelineNext]_pipelineVars
  PROVE  ReleaseIsDerived' /\ LossIsCaused'
<1> USE DEF PipelineInv
<1> DEFINE
  Derived(r) ==
    /\ release[r].at # "none" => outcome[r] # "none"
    /\ release[r].at \in {"assembled", "passed"} =>
         /\ release[r].claims = UNION {ClaimsOf(t) : t \in Answered(r)}
         /\ \A t \in Answered(r) : task[t].rows \subseteq ledger
    /\ release[r].at = "passed" =>
         /\ release[r].disposition = DispositionOf(r)
         /\ \A claim \in release[r].claims : VerifierAccepts(world.record[claim[2]])
    /\ release[r].at # "passed" => release[r].disposition = "none"
  Caused(r) ==
    release[r].at \in {"refused", "failed"} /\ ResultsOf(r) # {} => LossCause(r)
<1>1. (ReleaseIsDerived <=> \A r \in Runs : Derived(r))
      /\ (LossIsCaused <=> \A r \in Runs : Caused(r))
  BY DEF ReleaseIsDerived, LossIsCaused, LossCause
<1>2. (\A r \in Runs : Derived(r)' /\ Caused(r)') => ReleaseIsDerived' /\ LossIsCaused'
  BY DEF ReleaseIsDerived, LossIsCaused, LossCause
<1>3. \A r \in Runs : /\ Answered(r) \subseteq ResultsOf(r)
                      /\ ResultsOf(r) \subseteq TasksOf(r) /\ TasksOf(r) \subseteq Tasks
  BY DEF Answered, ResultsOf, TasksOf
<1>4. ASSUME NEW r \in Runs, outcome[r] # "none"
      PROVE  /\ outcome'[r] # "none" /\ Answered(r)' = Answered(r)
             /\ ResultsOf(r)' = ResultsOf(r) /\ DispositionOf(r)' = DispositionOf(r)
             /\ UNION {ClaimsOf(t) : t \in Answered(r)}' =
                  UNION {ClaimsOf(t) : t \in Answered(r)}
             /\ \A t \in Answered(r) : task'[t] = task[t]
             /\ LossCause(r)' <=> LossCause(r)
             /\ ledger \subseteq ledger' /\ world' = world
  <2>1. LossCause(r)' <=> LossCause(r)
    BY <1>3, <1>4, ConcludedIsFrozen DEF LossCause
  <2> QED BY <1>3, <1>4, <2>1, ConcludedIsFrozen
<1>5. \A f : world' = world =>
        VerifierAccepts(world.record[f])' = VerifierAccepts(world.record[f])
  BY DEF VerifierAccepts, SeoulOnTime, NotAfter
<1>6. ASSUME NEW r \in Runs, release'[r] = release[r]
      PROVE  Derived(r)' /\ Caused(r)'
  <2>1. CASE release[r].at = "none"
    <3>1. release'[r].at = "none" /\ release'[r].disposition = "none"
      BY <1>1, <1>6, <2>1
    <3> QED BY <3>1
  <2>2. CASE release[r].at # "none"
    <3>1. outcome[r] # "none" /\ Derived(r) /\ Caused(r)
      BY <1>1, <2>2
    <3>2. Derived(r)'
      BY <1>4, <1>5, <1>6, <3>1
    <3>3. Caused(r)'
      BY <1>4, <1>6, <3>1
    <3> QED BY <3>2, <3>3
  <2> QED BY <2>1, <2>2
<1>7. release \in [Runs -> [at : ReleaseStates, claims : SUBSET (Tasks \X Facts),
                           disposition : Dispositions]]
  BY DEF PipelineTypeOK
<1>8. ASSUME NEW r \in Runs, Assemble(r) PROVE Derived(r)' /\ Caused(r)'
  <2>1. outcome[r] # "none" /\ ledger' = ledger
    BY <1>8 DEF Assemble
  <2>2. CASE Assemblable(r)
    <3>1. release'[r] = [NoRelease EXCEPT !.at = "assembled",
                           !.claims = UNION {ClaimsOf(t) : t \in Answered(r)}]
      BY <1>7, <1>8, <2>2 DEF Assemble
    <3>2. /\ release'[r].at = "assembled" /\ release'[r].disposition = "none"
          /\ release'[r].claims = UNION {ClaimsOf(t) : t \in Answered(r)}
      BY <3>1 DEF NoRelease
    <3>3. \A t \in Answered(r) : task[t].rows \subseteq ledger
      BY <2>2, <1>3 DEF Assemblable, Found
    <3>4. Derived(r)'
      BY <3>2, <3>3, <2>1, <1>4
    <3> QED BY <3>2, <3>4
  <2>3. CASE ~ Assemblable(r)
    <3>1. release'[r].at = "refused" /\ release'[r].disposition = "none"
      BY <1>7, <1>8, <2>3 DEF Assemble, NoRelease
    <3>2. ResultsOf(r) # {} => LossCause(r)
      BY <2>3, RefusalIsCaused
    <3> QED BY <3>1, <3>2, <2>1, <1>4
  <2> QED BY <2>2, <2>3
<1>9. ASSUME NEW r \in Runs, Verify(r) PROVE Derived(r)' /\ Caused(r)'
  <2>1. release[r].at = "assembled" /\ Derived(r) /\ outcome[r] # "none"
    BY <1>1, <1>9 DEF Verify
  <2>2. CASE \A claim \in release[r].claims : VerifierAccepts(world.record[claim[2]])
    <3>1. release'[r] = [release[r] EXCEPT !.at = "passed", !.disposition = DispositionOf(r)]
      BY <1>7, <1>9, <2>2 DEF Verify
    <3>2. /\ release'[r].at = "passed" /\ release'[r].disposition = DispositionOf(r)
          /\ release'[r].claims = release[r].claims
      BY <3>1, <1>7
    <3> QED BY <3>2, <2>1, <2>2, <1>4, <1>5
  <2>3. CASE ~ \A claim \in release[r].claims : VerifierAccepts(world.record[claim[2]])
    <3>1. release'[r] = [release[r] EXCEPT !.at = "failed", !.claims = {}]
      BY <1>7, <1>9, <2>3 DEF Verify
    <3>2. release'[r].at = "failed" /\ release'[r].disposition = "none"
      BY <3>1, <2>1, <1>7
    <3>3. LossCause(r)
      BY <2>1, <2>3, RejectionIsCaused
    <3> QED BY <3>2, <3>3, <2>1, <1>4
  <2> QED BY <2>2, <2>3
<1>10. ASSUME NEW r \in Runs
       PROVE  Assemble(r) \/ Verify(r) \/ release'[r] = release[r]
  <2>1. ASSUME NEW q \in Runs, q # r, Assemble(q) \/ Verify(q)
        PROVE  release'[r] = release[r]
    BY <2>1, <1>7 DEF Assemble, Verify
  <2>2. ASSUME NEW q \in Runs, GatherWave(q) \/ ConcludeRun(q)
        PROVE  release'[r] = release[r]
    BY <2>2 DEF GatherWave, ConcludeRun
  <2>3. ASSUME NEW t \in Tasks, Works(t) PROVE release'[r] = release[r]
    BY <2>3, WorkStep
  <2>4. RetireDataset \/ UNCHANGED pipelineVars => release'[r] = release[r]
    BY DEF RetireDataset, pipelineVars
  <2> QED BY <2>1, <2>2, <2>3, <2>4 DEF PipelineNext, Works
<1> HIDE DEF Derived, Caused
<1> QED BY <1>2, <1>6, <1>8, <1>9, <1>10
-----------------------------------------------------------------------------
\* The invariant is inductive.
LEMMA PipelineInvStep == PipelineInv /\ [PipelineNext]_pipelineVars => PipelineInv'
<1> SUFFICES ASSUME PipelineInv, [PipelineNext]_pipelineVars PROVE PipelineInv'
  OBVIOUS
<1>1. SkipsInv' /\ OutcomeStands'
  BY PlanStep, SkipsStep, OutcomeStep DEF PipelineInv, SkipsInv
<1>2. PipelineTypeOK'
  BY <1>1, PipelineTypeStep DEF PipelineInv, SkipsInv
<1>3. WorkIsDecided' /\ HitsAreSearchable' /\ RowsAreSupported'
  BY DecidedStep, HitsStep, RowsStep DEF PipelineInv, SkipsInv
<1> QED BY <1>1, <1>2, <1>3, ReleaseStep DEF PipelineInv

LEMMA PipelineInvariant == PipelineSpec => []PipelineInv
BY PipelineInvInit, PipelineInvStep, PTL DEF PipelineSpec

\* Adding executors and evidence does not change what the evaluation of a plan may
\* do: what is proved of PlanEvaluation holds here (_schedule knows its executors by
\* their results only).
THEOREM PipelineEvaluates == PipelineSpec => Spec
<1>1. PipelineInit => Init
  BY DEF PipelineInit
<1>2. PipelineInv /\ [PipelineNext]_pipelineVars => [Next]_vars
  BY PlanStep DEF PipelineInv
<1> QED BY <1>1, <1>2, PipelineInvariant, PTL DEF PipelineSpec, Spec

\* The state of executors, ledger and releases stays well-formed.
THEOREM PipelineTypeCorrect == PipelineSpec => []PipelineTypeOK
<1>1. PipelineInv => PipelineTypeOK
  BY DEF PipelineInv
<1> QED BY <1>1, PipelineInvariant, PTL

\* In a run with executors, too, every skip has its cause upstream.
THEOREM PipelineSkipsCorrect == PipelineSpec => []SkipsAreCaused
BY PipelineEvaluates, SkipsCorrect, PTL

\* A hit the promoter has not reached yet is taken by promoter, ledger and verifier
\* while the dataset is active, if only its artifact was verified.
THEOREM HitsCorrect == PipelineSpec => []HitsArePromotable
<1>1. ASSUME PipelineInv, NEW t \in Tasks, NEW c \in task[t].hits,
             dataset = "active", world.record[c].verified
      PROVE  /\ Promotable(c) /\ LedgerTakes(world.record[c])
             /\ VerifierAccepts(world.record[c])
  <2>1. c \in Chunks /\ Searchable(c) /\ world \in Worlds
    BY <1>1 DEF PipelineInv, PipelineTypeOK, Work, HitsAreSearchable
  <2> QED BY <2>1, <1>1, PromotionChain
<1>2. PipelineInv => HitsArePromotable
  BY <1>1 DEF HitsArePromotable
<1> QED BY <1>2, PipelineInvariant, PTL

\* A run with a result loses its answer for one of the three stated reasons only.
THEOREM LossCorrect == PipelineSpec => []LossIsCaused
<1>1. PipelineInv => LossIsCaused
  BY DEF PipelineInv
<1> QED BY <1>1, PipelineInvariant, PTL

\* The tasks that have rows in the results of a concluded run succeeded.
LEMMA AnsweredSucceeded ==
  ASSUME PipelineInv, NEW r \in Runs, outcome[r] # "none", NEW t \in ResultsOf(r)
  PROVE  /\ t \in Tasks /\ t \in TasksOf(r) /\ verdict[t] = VerdictOf(t)
         /\ t \in Answered(r) => verdict[t] = "success"
<1>1. t \in Tasks /\ t \in TasksOf(r) /\ task[t].status # "none" /\ verdict[t] # "open"
  BY DEF ResultsOf, TasksOf, PipelineInv, OutcomeStands
<1>2. task[t].at = "ended" /\ verdict[t] = VerdictOf(t)
  BY <1>1 DEF PipelineInv, WorkIsDecided
<1>3. task[t].status \in {"success", "empty", "timeout"}
  BY <1>1 DEF PipelineInv, PipelineTypeOK, Work
<1>4. t \in Answered(r) => verdict[t] = "success"
  BY <1>1, <1>2, <1>3 DEF Answered, PipelineInv, WorkIsDecided, VerdictOf
<1> QED BY <1>1, <1>2, <1>4

\* Every claim that may be released has its record in the ledger and in the view of
\* eligible evidence, from a task of the run that succeeded, on time in Seoul and
\* still valid on the cutoff day.
THEOREM ReleaseCorrect == PipelineSpec => []ReleasedIsBacked
<1>1. ASSUME PipelineInv, NEW r \in Runs, NEW claim \in Released(r)
      PROVE  /\ \E t \in TasksOf(r) : /\ verdict[t] = "success"
                                      /\ world.subtask[t] = claim[1]
                                      /\ claim[2] \in task[t].rows
             /\ ClaimEligible(claim[2]) /\ SeoulOnTime(world.record[claim[2]])
             /\ NotAfter(world.record[claim[2]].from)
             /\ \A d \in world.record[claim[2]].to : d >= Cutoff
  <2> USE DEF PipelineInv
  <2>1. /\ release[r].at = "passed" /\ claim \in release[r].claims
        /\ outcome[r] # "none"
    BY <1>1 DEF Released, ReleaseIsDerived
  <2>2. /\ \E t \in Answered(r) : claim \in ClaimsOf(t)
        /\ \A t \in Answered(r) : task[t].rows \subseteq ledger
        /\ VerifierAccepts(world.record[claim[2]])
    BY <1>1, <2>1 DEF ReleaseIsDerived
  <2>3. PICK t \in Answered(r) : claim \in ClaimsOf(t)
    BY <2>2
  <2>4. PICK f \in task[t].rows : claim = <<world.subtask[t], f>>
    BY <2>3 DEF ClaimsOf
  <2>5. t \in ResultsOf(r)
    BY DEF Answered
  <2>6. t \in TasksOf(r) /\ verdict[t] = "success"
    BY <1>1, <2>1, <2>5, AnsweredSucceeded
  <2>7. f \in ledger /\ f \in Facts /\ world \in Worlds /\ claim[1] = world.subtask[t]
          /\ claim[2] = f
    BY <1>1, <2>2, <2>4 DEF PipelineTypeOK
  <2>8. /\ ClaimEligible(f) /\ SeoulOnTime(world.record[f])
        /\ NotAfter(world.record[f].from)
        /\ \A d \in world.record[f].to : d >= Cutoff
    BY <2>2, <2>7, VerifiedIsEligible
  <2> QED BY <2>4, <2>6, <2>7, <2>8
<1>2. PipelineInv => ReleasedIsBacked
  BY <1>1 DEF ReleasedIsBacked
<1> QED BY <1>2, PipelineInvariant, PTL

\* The ancestors of a task belong to its run.
LEMMA AncestorsInRun ==
  ASSUME PipelineInv, NEW r \in Runs, NEW t \in TasksOf(r),
         NEW a \in Ancestors(plan.dependsOn, t)
  PROVE  a \in TasksOf(r)
<1>1. /\ plan.dependsOn \in [Tasks -> SUBSET Tasks]
      /\ \A u \in Tasks : \A d \in plan.dependsOn[u] : RunOf[d] = RunOf[u]
  BY GraphAssumption DEF PipelineInv, SkipsInv, TypeOK, WellFormed
<1>2. plan.dependsOn[t] \cup UNION {plan.dependsOn[s] : s \in TasksOf(r)} \subseteq TasksOf(r)
  BY <1>1 DEF TasksOf
<1>3. TasksOf(r) \in SUBSET Tasks
  BY DEF TasksOf
<1> QED BY <1>2, <1>3 DEF Ancestors

\* Outcome and disposition together hide no task: a completed run that is answered
\* has a releaseable claim for the subtask of every one of its tasks.
THEOREM AnswerCorrect == PipelineSpec => []AnsweredMeansComplete
<1>1. ASSUME PipelineInv, NEW r \in Runs, outcome[r] = "completed",
             release[r].disposition = "answer", NEW t \in TasksOf(r)
      PROVE  /\ verdict[t] = "success"
             /\ \E claim \in Released(r) : claim[1] = world.subtask[t]
  <2> USE DEF PipelineInv
  <2>1. /\ release[r].at = "passed" /\ DispositionOf(r) = "answer"
        /\ release[r].claims = UNION {ClaimsOf(u) : u \in Answered(r)}
    BY <1>1 DEF ReleaseIsDerived
  <2>2. Unanswered(r) = {}
    BY <2>1 DEF DispositionOf
  <2>3. \A u \in TasksOf(r) : u \in Tasks /\ verdict[u] # "open" /\ verdict[u] \in Verdicts
    BY <1>1 DEF OutcomeStands, TasksOf, SkipsInv, TypeOK
  <2>4. ASSUME NEW u \in TasksOf(r), verdict[u] \in {"success", "empty"}
        PROVE  u \in Answered(r)
    <3>1. verdict[u] = VerdictOf(u) /\ u \in Tasks
      BY <1>1, <2>3, <2>4 DEF WorkIsDecided, Executed
    <3>2. task[u].status \in {"success", "empty"}
      BY <3>1, <2>4 DEF VerdictOf
    <3>3. u \in ResultsOf(r)
      BY <3>2 DEF ResultsOf
    <3> QED BY <3>3, <2>2 DEF Unanswered
  <2>5. ASSUME NEW u \in TasksOf(r) PROVE verdict[u] # "empty"
    <3>1. u \in Answered(r) => verdict[u] = "success"
      BY <1>1, AnsweredSucceeded DEF Answered
    <3> QED BY <3>1, <2>4
  <2>6. Lost(r) = {}
    BY <1>1 DEF OutcomeStands, OutcomeOf
  <2>7. verdict[t] # "benign"
    <3>1. SUFFICES ASSUME verdict[t] = "benign" PROVE FALSE
      OBVIOUS
    <3>2. "empty" \in AncestorVerdicts(t)
      BY <1>1, <2>3, <3>1 DEF SkipsInv, SkipsAreCaused
    <3>3. PICK a \in Ancestors(plan.dependsOn, t) : verdict[a] = "empty"
      BY <3>2 DEF AncestorVerdicts
    <3>4. a \in TasksOf(r)
      BY <1>1, AncestorsInRun
    <3> QED BY <2>5, <3>3, <3>4
  <2>8. verdict[t] = "success"
    BY <2>3, <2>5, <2>6, <2>7 DEF Lost, Verdicts, Executed, Skipped
  <2>9. t \in Answered(r)
    BY <2>4, <2>8
  <2>10. PICK f \in task[t].rows : <<world.subtask[t], f>> \in ClaimsOf(t)
    BY <2>9 DEF Answered, ClaimsOf
  <2>11. <<world.subtask[t], f>> \in Released(r)
    BY <2>1, <2>9, <2>10 DEF Released
  <2> QED BY <2>8, <2>11
<1>2. PipelineInv => AnsweredMeansComplete
  BY <1>1 DEF AnsweredMeansComplete
<1> QED BY <1>2, PipelineInvariant, PTL
=============================================================================
