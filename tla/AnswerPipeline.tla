--------------------------- MODULE AnswerPipeline ---------------------------
(***************************************************************************)
(* From the data of a dataset to the claims of an answer: the executors    *)
(* that answer the tasks of a plan (orchestration/stage05.py and           *)
(* executors.py), the promotion of document hits to evidence, the evidence *)
(* ledger, and the bundle and the verification report that are made of the *)
(* tool results once the run is concluded.  The scheduling is that of      *)
(* PlanEvaluation; the gate and the renderer, which release exactly the    *)
(* claims of a passing report, are in ReleaseGate.                         *)
(*                                                                         *)
(* Every stage applies a cutoff rule of its own to the same record: in     *)
(* Python, in a query, in a trigger, in Seoul dates or in UTC dates.  Days *)
(* and hours are integers, hour 0 being midnight UTC of day 0.             *)
(*                                                                         *)
(* A stored fact is a document chunk, an exported relation or an observed  *)
(* value, and stands for its evidence record as well: the evidence id is a *)
(* function of the fact, for one entity and one topic.  Left out: texts,   *)
(* hashes, ranks and scores, the roles behind publisher authority (search  *)
(* and promotion share those rules), calculation and no-match claims, for  *)
(* which no executor makes a result.                                       *)
(***************************************************************************)
EXTENDS PlanEvaluation, Integers

CONSTANTS
  Chunks, Relations, Observations, \* the stored facts, by kind
  Cutoff,                          \* the dataset's cutoff day
  TopK,                            \* top_k of DocumentSearchCapabilityExecutor
  Worlds                           \* data and logical plans the runs may meet

Facts == Chunks \cup Relations \cup Observations

\* At most one value: a column that may be NULL.
Optional(S) == {v \in SUBSET S : \A a, b \in v : a = b}

Records ==
  [published : Optional(Int), available : Optional(Int), \* hours
   applicable : Optional(Int), vintage : Optional(Int),  \* days
   from : Optional(Int), to : Optional(Int),             \* valid_from, valid_to
   eligible : BOOLEAN,        \* cutoff_status is eligible, or cutoff_eligible
   authoritative : BOOLEAN,   \* eligible_for_claim of the source
   verified : BOOLEAN]        \* the source artifact was verified

ASSUME WorldAssumption ==
  /\ Cutoff \in Int /\ TopK \in Nat \ {0}
  /\ \A w \in Worlds :
       /\ w.route \in [Tasks -> {"sql", "graph", "document"}]
       /\ w.subtask \in [Tasks -> Tasks]
       /\ w.record \in [Facts -> Records]
       \* document_profile.effective_from is not null; the columns of an
       \* evidence record that a document does not have
       /\ \A c \in Chunks : /\ w.record[c].from # {}
                            /\ w.record[c].applicable = w.record[c].from
                            /\ w.record[c].vintage = {}

VARIABLES
  world,    \* the records of the dataset and the logical plan, fixed
  dataset,  \* its status
  ledger,   \* facts whose evidence is stored
  task,     \* per task, how far its executor got
  release   \* per run, the bundle and the report made of its results

pipelineVars == <<vars, world, dataset, ledger, task, release>>

NoWork == [at |-> "waiting", hits |-> {}, rows |-> {}, status |-> "none"]

\* The status "none" of an ended task: it raised, and there is no ToolResult.
Work ==
  [at : {"waiting", "promoting", "ended"},
   hits : SUBSET Chunks,   \* fused candidates that are still to be promoted
   rows : SUBSET Facts,    \* facts in the rows found so far
   status : {"none", "success", "empty", "timeout"}]

NoRelease == [at |-> "none", claims |-> {}, disposition |-> "none"]

ReleaseStates == {"none", "refused", "assembled", "failed", "passed"}
Dispositions == {"none", "answer", "partial", "limitation"}

\* What is stored, and which tasks did what, is consistent in every state.
PipelineTypeOK ==
  /\ TypeOK
  /\ world \in Worlds
  /\ dataset \in {"active", "retired"}
  /\ ledger \subseteq Facts
  /\ task \in [Tasks -> Work]
  /\ release \in [Runs -> [at : ReleaseStates, claims : SUBSET (Tasks \X Facts),
                           disposition : Dispositions]]
-----------------------------------------------------------------------------
\* The date of an hour in Asia/Seoul, nine hours ahead of UTC.
SeoulDay(h) == (h + 9) \div 24
UtcDay(h)   == h \div 24

NotAfter(days) == \A d \in days : d <= Cutoff
SeoulOnTime(e) == NotAfter({SeoulDay(h) : h \in e.published \cup e.available})
UtcOnTime(e)   == NotAfter({UtcDay(h) : h \in e.published \cup e.available})

\* Fault: the time zone is left out of the query.
SearchableInUtc(c) ==
  LET e == world.record[c] IN
  /\ dataset = "active"
  /\ e.authoritative /\ e.eligible
  /\ e.published # {} /\ e.available # {} /\ UtcOnTime(e)
  /\ NotAfter(e.from)
  /\ \A d \in e.to : d >= Cutoff

\* _metadata_candidates: what both searches may return.
Searchable(c) ==
  LET e == world.record[c] IN
  /\ dataset = "active"
  /\ e.authoritative /\ e.eligible
  /\ e.published # {} /\ e.available # {} /\ SeoulOnTime(e)
  /\ NotAfter(e.from)
  /\ \A d \in e.to : d >= Cutoff

\* DocumentEvidencePromoter._validate, on the rows as they are now.
Promotable(c) ==
  LET e == world.record[c] IN
  /\ dataset = "active" /\ e.authoritative /\ e.verified /\ e.eligible
  /\ e.published # {} /\ e.available # {} /\ SeoulOnTime(e)
  /\ NotAfter(e.from)
  /\ \A d \in e.to : d >= Cutoff

\* The trigger validate_cutoff_status, for a record that claims to be eligible.
LedgerTakes(e) ==
  e.eligible => UtcOnTime(e) /\ NotAfter(e.applicable) /\ NotAfter(e.vintage)

\* The view claim_eligible_evidence.
ClaimEligible(f) ==
  LET e == world.record[f] IN
  /\ f \in ledger /\ e.authoritative /\ e.eligible
  /\ UtcOnTime(e) /\ NotAfter(e.applicable) /\ NotAfter(e.vintage)

\* Fault: the exporter compares UTC dates, as the ledger does.
ExportableInUtc(e) ==
  /\ e.eligible /\ UtcOnTime(e)
  /\ NotAfter(e.applicable \cup e.from \cup e.to \cup e.vintage)

\* _validate_batch for the evidence of a relation; the source is not looked at.
Exportable(e) ==
  /\ e.eligible /\ SeoulOnTime(e)
  /\ NotAfter(e.applicable \cup e.from \cup e.to \cup e.vintage)

\* One record that is not exportable fails the export, and the graph stays empty.
Graph ==
  IF \A f \in Relations : f \in ledger /\ Exportable(world.record[f])
    THEN Relations ELSE {}

\* Fault: the verifier leaves the end of validity to the stores.
VerifierAcceptsExpired(e) ==
  /\ e.authoritative /\ e.eligible /\ SeoulOnTime(e)
  /\ NotAfter(e.applicable \cup e.from \cup e.vintage)

\* EvidenceVerifier: source-authority.v1 and cutoff.v1 of a claim.
VerifierAccepts(e) ==
  /\ e.authoritative /\ e.eligible /\ SeoulOnTime(e)
  /\ NotAfter(e.applicable \cup e.from \cup e.vintage)
  /\ \A d \in e.to : d >= Cutoff
-----------------------------------------------------------------------------
\* The executor of a task of the current wave is at work.
Busy(t, at) ==
  /\ t \in Resolvable(RunOf[t]) /\ Permitted(t) = Executed
  /\ task[t].at = at

Ended(status, rows) == [NoWork EXCEPT !.at = "ended", !.status = status, !.rows = rows]

\* execute returns a ToolResult, validated against the request.
Answer(t, rows) ==
  task' = [task EXCEPT ![t] = Ended(IF rows = {} THEN "empty" ELSE "success", rows)]

\* search_keyword, search_vector and their fusion: the ranks may bring any of the
\* candidates to the top.
Search(t) ==
  /\ Busy(t, "waiting") /\ world.route[t] = "document"
  /\ \E hits \in SUBSET {c \in Chunks : Searchable(c)} :
       /\ Cardinality(hits) <= TopK
       /\ IF hits = {} THEN Answer(t, {})
          ELSE task' = [task EXCEPT ![t].at = "promoting", ![t].hits = hits]
  /\ UNCHANGED <<vars, world, dataset, ledger, release>>

\* promote: one hit after the other; the first one that is refused ends the task
\* without a result.  Evidence that is stored already is taken as it is.
Promote(t, c) ==
  /\ Busy(t, "promoting") /\ c \in task[t].hits
  /\ IF Promotable(c) /\ LedgerTakes(world.record[c])
       THEN /\ ledger' = ledger \cup {c}
            /\ IF task[t].hits = {c} THEN Answer(t, task[t].rows \cup {c})
               ELSE task' = [task EXCEPT ![t].hits = @ \ {c}, ![t].rows = @ \cup {c}]
       ELSE /\ task' = [task EXCEPT ![t] = Ended("none", {})]
            /\ UNCHANGED ledger
  /\ UNCHANGED <<vars, world, dataset, release>>

\* One select on the exported graph, restricted to the entities in scope.
Traverse(t) ==
  /\ Busy(t, "waiting") /\ world.route[t] = "graph"
  /\ \E rows \in SUBSET Graph : Answer(t, rows)
  /\ UNCHANGED <<vars, world, dataset, ledger, release>>

\* The compiled statement returns no row, or rows with some observed values; rows
\* may also hold nothing but the product names.
Select(t) ==
  /\ Busy(t, "waiting") /\ world.route[t] = "sql"
  /\ \E rows \in SUBSET Observations, status \in {"empty", "success"} :
       /\ status = "empty" => rows = {}
       /\ task' = [task EXCEPT ![t] = Ended(status, rows)]
  /\ UNCHANGED <<vars, world, dataset, ledger, release>>

\* _run_task: an executor that raises, an invalid request and a result that breaks
\* its contract fail the task without a result.
Raise(t) ==
  /\ Busy(t, "waiting") \/ Busy(t, "promoting")
  /\ task' = [task EXCEPT ![t] = Ended("none", {})]
  /\ UNCHANGED <<vars, world, dataset, ledger, release>>

\* An attempt times out: the executor is cancelled where it waits, and the task is
\* tried again or failed with a result.  Orchestrator bounds the attempts.
TimeOut(t) ==
  /\ Busy(t, "waiting") \/ Busy(t, "promoting")
  /\ \E after \in {NoWork, Ended("timeout", {})} : task' = [task EXCEPT ![t] = after]
  /\ UNCHANGED <<vars, world, dataset, ledger, release>>

VerdictOf(t) ==
  IF task[t].status \in {"success", "empty"} THEN task[t].status ELSE "failed"

\* The wave is gathered: every task that could be decided now is.
GatherWave(r) ==
  /\ \A t \in Resolvable(r) : Permitted(t) = Executed => task[t].at = "ended"
  /\ Resolve(r)
  /\ \A t \in Resolvable(r) :
       /\ verdict'[t] # "open"
       /\ verdict'[t] \in Executed => verdict'[t] = VerdictOf(t)
  /\ UNCHANGED <<world, dataset, ledger, task, release>>

ConcludeRun(r) ==
  /\ Conclude(r)
  /\ UNCHANGED <<world, dataset, ledger, task, release>>

\* Another dataset is activated; chunks and evidence stay as they are.
RetireDataset ==
  /\ dataset = "active"
  /\ dataset' = "retired"
  /\ UNCHANGED <<vars, world, ledger, task, release>>
-----------------------------------------------------------------------------
\* The results an OrchestrationResult carries: skips and exceptions leave none.
ResultsOf(r) == {t \in TasksOf(r) : task[t].status # "none"}

\* evidence_refs of a result: map_sql_rows puts the kind of record before the id.
RefsOf(t) ==
  [space : IF world.route[t] = "sql" THEN {"evidence:"} ELSE {""}, id : task[t].rows]

\* The ledger records that the assembler finds under the ids of a result.
Found(t) == {f \in ledger : [space |-> "", id |-> f] \in RefsOf(t)}

\* The id of a claim is a hash of its subtask and its evidence record.
ClaimsOf(t) == {<<world.subtask[t], f>> : f \in task[t].rows}

SubtasksOf(S) == {world.subtask[t] : t \in S}
Answered(r)   == {t \in ResultsOf(r) : task[t].rows # {}}
Unanswered(r) == ResultsOf(r) \ Answered(r)

\* EvidenceBundleAssembler and the validator of EvidenceBundle.
Assemblable(r) ==
  /\ ResultsOf(r) # {}
  /\ \A t \in ResultsOf(r) : task[t].rows \subseteq Found(t)
  /\ \A t, u \in ResultsOf(r) : t # u => ClaimsOf(t) \cap ClaimsOf(u) = {}
  /\ SubtasksOf(Answered(r)) \cap SubtasksOf(Unanswered(r)) = {}

Assemble(r) ==
  /\ outcome[r] # "none" /\ release[r].at = "none"
  /\ release' = [release EXCEPT ![r] =
       IF Assemblable(r)
         THEN [NoRelease EXCEPT !.at = "assembled",
                                !.claims = UNION {ClaimsOf(t) : t \in Answered(r)}]
         ELSE [NoRelease EXCEPT !.at = "refused"]]
  /\ UNCHANGED <<vars, world, dataset, ledger, task>>

\* Fault: only what was asked and answered counts, as if nothing were missing.
DispositionOfClaims(r) == IF Answered(r) # {} THEN "answer" ELSE "limitation"

DispositionOf(r) ==
  IF Answered(r) = {} THEN "limitation"
  ELSE IF Unanswered(r) = {} THEN "answer"
  ELSE "partial"

\* EvidenceVerifier.verify: one rejected claim fails the report, and nothing of it
\* may be released.
Verify(r) ==
  /\ release[r].at = "assembled"
  /\ release' = [release EXCEPT ![r] =
       IF \A claim \in release[r].claims : VerifierAccepts(world.record[claim[2]])
         THEN [@ EXCEPT !.at = "passed", !.disposition = DispositionOf(r)]
         ELSE [@ EXCEPT !.at = "failed", !.claims = {}]]
  /\ UNCHANGED <<vars, world, dataset, ledger, task>>
-----------------------------------------------------------------------------
\* Relations and observations got their evidence when the dataset was built.
PipelineInit ==
  /\ Init
  /\ world \in Worlds
  /\ dataset = "active"
  /\ ledger = {f \in Relations \cup Observations : LedgerTakes(world.record[f])}
  /\ task = [t \in Tasks |-> NoWork]
  /\ release = [r \in Runs |-> NoRelease]

PipelineNext ==
  \/ \E t \in Tasks : \/ Search(t) \/ Traverse(t) \/ Select(t) \/ Raise(t) \/ TimeOut(t)
                      \/ \E c \in Chunks : Promote(t, c)
  \/ \E r \in Runs : GatherWave(r) \/ ConcludeRun(r) \/ Assemble(r) \/ Verify(r)
  \/ RetireDataset

PipelineSpec == PipelineInit /\ [][PipelineNext]_pipelineVars
-----------------------------------------------------------------------------
Released(r) == IF release[r].at = "passed" THEN release[r].claims ELSE {}

(***************************************************************************)
(* A claim that may be released rests on a stored record of a task that    *)
(* succeeded in this run for the claim's subtask; the record is one of the *)
(* database's own claim_eligible_evidence, was known by the cutoff in      *)
(* Seoul too, and is still valid on the cutoff day.                        *)
(***************************************************************************)
ReleasedIsBacked ==
  \A r \in Runs : \A claim \in Released(r) :
    LET e == world.record[claim[2]] IN
    /\ \E t \in TasksOf(r) : /\ verdict[t] = "success"
                             /\ world.subtask[t] = claim[1]
                             /\ claim[2] \in task[t].rows
    /\ ClaimEligible(claim[2])
    /\ SeoulOnTime(e)
    /\ NotAfter(e.from) /\ \A d \in e.to : d >= Cutoff

(***************************************************************************)
(* The verifier's "answer" counts tool results only: tasks that raised or  *)
(* were skipped have none.  Together with the run's outcome it hides       *)
(* nothing: when the outcome is "completed" and the disposition "answer",  *)
(* every task succeeded and its subtask has a releaseable claim.           *)
(***************************************************************************)
AnsweredMeansComplete ==
  \A r \in Runs :
    outcome[r] = "completed" /\ release[r].disposition = "answer" =>
      \A t \in TasksOf(r) :
        /\ verdict[t] = "success"
        /\ \E claim \in Released(r) : claim[1] = world.subtask[t]

(***************************************************************************)
(* A run with a result loses its answer, by the assembler or the verifier, *)
(* only to a value read by SQL, to two results for one subtask, or to a    *)
(* relation whose source is not authoritative or whose validity ended      *)
(* before the cutoff.  Dates in two time zones, a dataset retired on the   *)
(* way and promoted documents are never the reason.                        *)
(***************************************************************************)
LossIsCaused ==
  \A r \in Runs :
    release[r].at \in {"refused", "failed"} /\ ResultsOf(r) # {} =>
      \/ \E t \in ResultsOf(r) : world.route[t] = "sql" /\ task[t].rows # {}
      \/ \E t, u \in ResultsOf(r) : t # u /\ world.subtask[t] = world.subtask[u]
      \/ \E t \in ResultsOf(r) : \E f \in task[t].rows \cap Relations :
           \/ ~ world.record[f].authoritative
           \/ \E d \in world.record[f].to : d < Cutoff

(***************************************************************************)
(* A document found by the search is refused by the promoter, and with it  *)
(* the whole task fails, only because its artifact was never verified or   *)
(* because the dataset was retired in between: while it is active, every   *)
(* hit of a verified artifact that is still to be promoted will be taken   *)
(* by the promoter, the ledger's trigger and, in the end, the verifier.    *)
(***************************************************************************)
HitsArePromotable ==
  \A t \in Tasks : \A c \in task[t].hits :
    dataset = "active" /\ world.record[c].verified =>
      /\ Promotable(c)
      /\ LedgerTakes(world.record[c])
      /\ VerifierAccepts(world.record[c])

(***************************************************************************)
(* The design lets the result of the SQL executor become claims.  A run    *)
(* whose only result holds values read by SQL, each with its record in the *)
(* ledger, is assembled.                                                   *)
(***************************************************************************)
SqlAnswersReachClaims ==
  \A r \in Runs : \A t \in ResultsOf(r) :
    /\ release[r].at # "none" /\ ResultsOf(r) = {t}
    /\ world.route[t] = "sql" /\ task[t].rows \subseteq ledger
    => release[r].at # "refused"
=============================================================================
