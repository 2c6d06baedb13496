# Verification of the financial product analyst

The repository answers questions about financial products from a versioned
dataset. Data are loaded into PostgreSQL under a *dataset version*, validated,
and activated; a request is resolved to a plan of tasks, an orchestrator executes
the tasks against the active dataset, and what was found is verified, released and
cached. This directory holds TLA+ models of the parts of that program whose
behaviour depends on order, concurrency, failure or restart, the TLC runs that
check them and the TLAPS proofs about them.

Paths below are relative to the repository root (`src/financial_agent/...`,
`alembic/versions/...`, `docs/...`).

## 1. Inventory

### Orchestrator — `orchestration/service.py`, `contracts/execution.py`, `contracts/validation.py`
* State: per run the dictionary `pending`, the collections of results, failures,
  benign and hard skips, a retry budget of two and a deadline; per task the
  coroutine `_run_task`; one `asyncio.Semaphore` for all runs of an `Orchestrator`.
* Operations: `_schedule` classifies the ready tasks, gathers one coroutine per
  runnable task, merges their outcomes and derives the execution outcome; `_run_task`
  asks for a permit, calls the executor under two timers and retries once.
* Interactions: executors (`orchestration/executors.py`, `stage05.py`) are called
  through one interface; runs meet in the semaphore only.
* Hard: several coroutines per run and several runs; timers racing answers; a permit
  granted at the deadline; retries shared between tasks; collections kept apart that
  must agree in the end.
* Correct when: no task runs before its inputs exist, permits and retries are conserved,
  the run always returns, and the outcome hides no lost task.

### Dataset lifecycle — `alembic/versions/0001, 0006, 0009`, `ingestion/writer.py`
* State: tables `dataset_version`, `dataset_validation_run`, `dataset_readiness`,
  `active_dataset`, `request_run`, the content rows of a dataset version, and
  `metric_definition`, whose rows belong to no dataset version.
* Operations: `create_building_dataset`, `write_rows`, the insert of a validation run,
  `finish_dataset_validation`, `record_dataset_readiness`, `activate_dataset`,
  `start_request_run`; triggers on the tables.
* Interactions: ingestion processes, an operator and requests call them concurrently;
  they meet in row locks, advisory locks and the keys of rows being inserted.
* Hard: each function checks under one lock what another changes under a second one;
  lock order; sessions cut off half-way; writes of two datasets, which no lock keeps apart,
  insert the same metric definitions.
* Correct when: what is served was validated and made ready, a dataset takes no row once its
  building has ended, whatever was under way then, the pointer and the status agree, datasets
  do not rest on different definitions of a metric, and calls deadlock nowhere but where they
  insert metric definitions.

### DART corpus ingestion — `ingestion/document_sources/dart_ingestion.py`, `ingestion/cli.py`, `ingestion/official/snapshot.py`, `db/repositories/documents.py`
* State: the retention disposition of each document in PostgreSQL, its directory on
  disk, and the report of the running batch in memory.
* Operations: look a document up and choose how to resume it, reserve quarantine,
  download, process, append, read back, authorize deletion, delete, complete; the
  batch loop and what it does on errors.
* Hard: a crash between any two durable steps; two stores (record and directory) that
  must agree; a limit over what dead processes left.
* Correct when: no PDF is deleted on the success path before its corpus was read back,
  an authorized deletion is completed, the quarantine is bounded, the report is true.

### Request artifacts and request lifecycle — `alembic/versions/0001, 0005, 0010, 0011`, `db/repositories/artifacts.py`, `operations.py`
* State: `request_run` with its terminal columns, the append-only `request_artifact`, its
  references to claims and evidence, `request_subtask`.
* Operations: `start_request_run`, `append_request_artifact`, `finish_request_run`,
  `append_failure_event`.
* Interactions: every stage of a request appends its artifact; claims of the evidence
  ledger need the subtasks of a query plan; the cache reads reports, plans and answers.
* Hard: a client repeats a call whose answer it lost, after anything may have happened;
  writers race for one contract object id; artifacts arrive after the run has finished.
* Correct when: equal calls agree and unequal ones do not both succeed, a 200 has its
  passing report, an outcome never changes.

### Verified release cache — `alembic/versions/0012`, `db/repositories/releases.py`
* State: one row per request key, dataset version and schema version.
* Operations: `cache_verified_release`, `get_cached_release`.
* Hard: two runs of one key; report, plan and answer are stored by separate calls.
* Correct when: an answer served leads back to verified claims.

### Execution of a plan and the answer — `orchestration/stage05.py, executors.py`, `retrieval/`, `graph/`, `release/claims.py, verifier.py, gate.py, renderer.py`, `alembic/versions/0004`
* State: per task the candidates a search brought up and the rows promoted so far; the
  evidence ledger; the dataset's status; per run the tool results, the evidence bundle and
  the verification report.
* Operations: the three executors (compiled SQL, traversal of the exported graph, document
  search with promotion of the hits to evidence), the trigger of the ledger, assembly of the
  bundle, verification, plan, gate and rendering.
* Interactions: executors are called by the orchestrator and write evidence records that
  assembler and verifier read back after the run was concluded.
* Hard: each stage has its own cutoff rule, some in Python, some in SQL, in two time zones;
  what a task read may be retired before it is promoted; a task that raised has no result
  and the stages behind it see only results; gate and cache check the same thing twice.
* Correct when: every released claim is backed by an eligible record of a task that
  succeeded for its subtask, an answer that calls itself complete is, and no answer is lost
  for a reason other than its data.

### Document embedding — `embeddings/builder.py, repository.py, ncp.py`
* State: the embeddings in PostgreSQL, the registered model, and per process the batch it
  read as missing, the vectors it has in memory and its counts.
* Operations: the commands canary, sample and full: preflight counts, registration, one
  provider call after another with retries, the insert of a batch, reconciliation.
* Interactions: several processes on one table and on one provider's quota; the corpus grows
  and the dataset is finished while they run.
* Hard: minutes between reading what is missing and inserting it; a batch dropped with the
  vectors it already has; rows inserted by two transactions at once; counts that are
  compared at the start and at the end only.
* Correct when: the report adds up, a failure has a cause outside the build, builders do not
  wait for each other in a circle, and a corpus at rest gets embedded if the provider's window
  is large enough for the builders there are.

### Intent resolver — `intent/service.py, assembler.py, hybrid_assembler.py, validation.py, context.py, query_contract_solver.py, query_contract_judge.py, clova.py`
* State: per request what the question offers (spans, exact names, references), the axes the
  language model proposed and the issues they leave open, and the contracts each frame admits.
* Operations: one call for the axes, one repair call for an answer an instruction can mend,
  validation, reconciliation with exact family names (V2), solving, tie-break, one call of a judge.
* Interactions: the request waits for the model; what is decided becomes the logical plan.
* Hard: two calls share one allowance and one deadline; a name of the question is attributed to
  a frame by two different rules; an issue is removed after the fact; a search may be cut off.
* Correct when: the model is called as often as allowed and as reported, a frame is complete only
  if its contract is the only one, names in the question are searched as they stand, and nothing
  unsettled counts as resolved.

### Others
Structured ingestion (file mapping in front of the dataset writer), query planning and SQL compilation, execution-graph
compilation, text extraction and chunking, preflight and configuration. `PROJECT.json`
names each with its sources and says why it is not modelled; most are pure data
transformations.

## 2. Modules

| Module | Models | Role |
| --- | --- | --- |
| `ExecutionGraph` | the frozen graphs a run is handed | constants and assumptions shared by the next two |
| `PlanEvaluation` | what executing a plan promises | abstract specification |
| `Orchestrator` | `_schedule` and `_run_task` | detailed specification, implements `PlanEvaluation` |
| `OrchestratorProofs` | | theorems about `Orchestrator` |
| `DatasetLifecycle` | the dataset functions, one transaction a step | abstract specification |
| `DatasetTransactions` | the same functions statement by statement, with locks | detailed specification, implements `DatasetLifecycle` |
| `DatasetProofs` | | theorems about both |
| `PlanEvaluationProofs` | | theorems about `PlanEvaluation` |
| `AnswerPipeline` | executors, promotion, ledger, assembly, verification | extends `PlanEvaluation` with what a task does |
| `AnswerPipelineProofs` | | theorems about `AnswerPipeline` |
| `DartIngestion` | the DART batch | crash-recovery protocol |
| `DartIngestionProofs` | | theorems about `DartIngestion` |
| `EmbeddingBuild` | the embedding commands | processes on one table and one quota |
| `EmbeddingBuildProofs` | | theorems about `EmbeddingBuild` |
| `RequestArtifacts` | runs, artifacts, claims, outcomes and the release cache | one transaction a step |
| `ReleaseGate` | default plan, Claim Gate, renderer | operators over the tables of `RequestArtifacts`, which it extends |
| `RequestArtifactsProofs` | | theorems about both |
| `IntentAxes` | validation and reconciliation of the proposed axes, scope of the search | operators |
| `IntentResolver` | the flow of calls around them | extends `IntentAxes` |
| `IntentResolverProofs` | | theorems about both |
| `MC...` | | instances for TLC |

Operators whose comment begins with "Fault:" are variants of the definition that
follows them, each written as a mistake that code could plausibly contain. No
specification uses them; replacing the definition by the variant must break the property
`PROJECT.json` ("mutants") pairs it with, which shows the property has something to say.

### Orchestrator
Everything between two `await`s is one action. `StartWave` is a turn of the `while`
loop up to `asyncio.gather`, `GatherReturns` the merging after it and `ReturnResult` the
code after the loop. The `RuntimeError` for a graph with nothing ready is the predicate
`Stalled`, which is never true (`NeverStalls`).
`pc[t]` is where `_run_task` stands:

    building -> attempting -> queued -> granted -> executing -> (attempting | returned)

`ConcludeAttempt` is the recording of a validated attempt and the decision to retry, used
by all five ways an attempt ends. The deadline is one flag per run, `expired`; a task's
own budget may run out at any moment of an execution, so `ExecutorTimesOut` needs no
clock. The statuses `permanent_error`, `invalid_input` and `unsupported` take the same
branches and are one value. The semaphore wakes any waiter (in the code: the first),
which allows more behaviours. Executors are an environment: they answer with any status,
raise, violate the result contract or never answer.

`PlanEvaluation` knows neither waves nor permits nor time: a set of tasks whose
dependencies are decided gets verdicts, and a run is concluded from the verdicts.
`Orchestrator!Verdict` is the refinement mapping; it reads a task's verdict off
`pending`, `benign`, `hard`, `failures` and `results`.

### Dataset lifecycle
In `DatasetLifecycle` each function is one action whose guard is the conjunction of the
checks that raise and whose effect is what the transaction writes. Left out: manifest
hashes (a composite foreign key copies the parent's hash, which nobody may update, so
the mismatch branches cannot be taken), timestamps, and constraints that restate what the
functions do.

`DatasetTransactions` splits each function at its lock acquisitions. A session has a
call, a statement it stands before and the locks it holds; a statement waits until no
other session holds a conflicting lock, evaluates the function's check against committed
data and goes on, or raises and rolls back. Writes appear at commit, with the release of
the locks: no function reads back what it wrote. An insert waits for an insert of the same
key, not for a lock on the row, hence the separate keys. `Abort` is a lost connection, or the
deadlock detector. A session runs one call per transaction; a caller that combines several
calls in one transaction is not modelled.

`write_rows` inserts into thirteen tables. All have the dataset version in their keys and are
covered by its advisory lock, but `metric_definition`: `WriteDefinition` inserts one row of the
batch, in the batch's order, and waits while another session has inserted the key and is
open; `CompareDefinitions` is the comparison of the batch with what is stored
(`_write_exact_records`). So two writes of *different* datasets can wait for each other in a
circle when both bring definitions nobody has committed yet, in different orders. The
instance reaches that state; PostgreSQL then ends one of them with an error `write_rows`
neither translates nor retries. `OnlyDefinitionsDeadlock` says that there is no other circle,
and the theorem `SortedBatchesNeverDeadlock` that sorting the batches by key would remove it.
What the definitions are for, the comparison, is safe: `DefinitionsAgree`.

### DART ingestion
A document has a record (`retention`), a directory (`disk`) and, while it is the
batch's current one, a place in `ingest_one_dart_document` (`step`). The branches after
`_find_existing` are the actions `AlreadyComplete`, `ResumeDeletion`, `ResumeProcessing`,
`Unresumable`, `IdentityMismatch` and `Reserve`. `Succeed` and `Fail` are the loop's two
ways of ending a document; `Fail` includes `_discard_failed_dart_pdf`, as both handlers of
the loop call it. `Crash` may happen anywhere while a batch runs and takes the report
with it; `StartBatch` is the next invocation. Left out: sizes (the quarantine counts files
only), checksums (a PDF on disk is the one the record describes, or processing fails),
concurrent processes on one run root, the selection of the documents, and an extraction whose result differs between two
runs (it would end in `DOCUMENT_CORPUS_CONFLICT`). The fourth disposition,
`quarantined`, is never asked for by any caller.

Every batch is assumed to select the same documents. In the code `--limit` and `--target-key` cut the
inventory, and `--missing-only` drops targets whose products all have an embedding. With other
arguments, or when a product has meanwhile got its embedding from another document, a
later batch may leave a document out; `AuthorizedCompletes` rests on the assumption, because it
is the next batch that resumes an authorized deletion. The safety properties do not.

### Embedding build
A builder's job has the step it stands before (`at`), the batch it read, how much of it the
current step has dealt with (`todo`), the rows its open transaction inserted (`held`) and the
counts of the report. `ReadStatus`, `CountEligible` and `CountExisting` are the statements of
`_checked_preflight`, each with a snapshot of its own; `ReadCanary`, `ReadSample` and
`ReadBatch` the queries for missing chunks, `ReadSections` that for the sections a sample covers; `Answered`, `Refused` and `RefusedForGood` one
request to the provider, `Refused` with the client's attempts and the pause of the full build
after the last one; `InsertRow` and `Commit` one `append_embeddings`; `Report` the end of a
canary or sample, and `ReconcileEligible`, `ReconcileExact`, `ReconcileMissing` and
`ReconcileOrphans` the counts at the end of a full build, one statement each. They run under READ
COMMITTED: chunks may be added, and embedded by another builder, between the count of exact
embeddings and that of missing ones, and the build reports success with a total that is
older than the table. `Die` stands for every
way a process is lost, the exception of a body that breaks off while it is read among them.
Chunks are numbers in the order of the query, and one model is approved, so that the table of
embeddings is a set of chunks. `byOthers` is a count the code does not have: what other
builders committed from a job's count of the existing embeddings to its count of the exact ones;
only properties read it. `TypeOK` there
documents the variables and is not among the checked properties; nor is that of
`PlanEvaluation` or `IntentResolver`, which are proved.

### Answer pipeline
`AnswerPipeline` has the variables of `PlanEvaluation` and says what the verdict of a task
depends on. `Search`, `Promote`, `Traverse` and `Select` are the executors, `Raise` and
`TimeOut` the ways an attempt ends without an answer; `GatherWave` and `ConcludeRun` are
`Resolve` and `Conclude` of `PlanEvaluation` with the verdicts the executors earned, so that
every behaviour of `AnswerPipeline` is one of `PlanEvaluation`. `Assemble` and `Verify` run
after the run is concluded. `Searchable`, `Promotable`, `LedgerTakes`, `ClaimEligible`,
`Exportable` and `VerifierAccepts` are the six rules one record meets on its way, each
translated from its own place in the code: dates of published and available hours are taken in
Seoul by search, promoter, exporter and verifier and in UTC by the ledger's trigger and view.
`world` holds the records and the logical plan and never changes; `RetireDataset` is
the only other actor. Left out: texts, ranks (any candidates may come to the top), hashes,
and the roles of publishers, which search and promotion read from one table.

### Intent resolver
`IntentResolver` follows the two coroutines `resolve_query_contract_candidates` (V2) and
`resolve_hybrid_query_contract_candidates` (V3), which differ in the rules and not in the
flow. `InvokeAxis`, `InvokeRepair` and `InvokeJudge` ask for the time that is left and call the
adapter, `Tick` is time passing while a call is out, `CallFails`, `Reject`, `Accept`,
`JudgeIsNoHelp` and `JudgeSelects` are the answers; `Reconcile`, `Solve` and `Conclude` are what
the coroutine does without waiting. The model is an environment: it proposes anything, and
`Accepted` is what the assembler and the validators let pass. `IntentAxes` holds the rules as
operators: `Validated` derives the issues and the status of every frame, `Reconciled` is
`reconcile_exact_axis_locks`, `Searchable` and `ScopeFamilies` are what `_solve_frame` decides before
contracts are enumerated. The enumeration itself is any set of contracts, with or without
having ended at a bound. Left out: slot mutations (they must cite slots an
axis proposal may not have), the order of ids (validation sorts them), prompts and usage counts,
and `resolve_once` and `resolve_task_bound`, which only tests and evaluation scripts call.

Two things the model makes visible and no property forbids. Two exact names in one segment, cited
by two frames, pass reconciliation and then block both frames, because the solver attributes names
by segment. And the issue of semantic coverage is removed with the issue of an overridden family
choice if both have the same code and evidence: the frame then has status `resolved`, and
only the coverage check of the solver itself keeps it from being searched, which is why
`ResolvedMeansChosen` speaks of action and families only.

### Request artifacts, release cache and release gate
`RequestArtifacts` has one action for each call that writes: `StartRun`, `AppendEvidence`,
`AppendClaim`, `AppendArtifact`, `FinishRun`, `CacheRelease`, and `ActivateDataset`, the
effect of `DatasetLifecycle` that starting a run depends on. A call is one transaction and
one step: two inserts of one key wait for each other in the unique index, the functions lock
the rows they decide on (`FOR UPDATE` on the run, `FOR SHARE` on artifacts), nothing is
ever deleted or, apart from a run's end, updated, and what a statement finds
it finds for good. `X_Reply` operators (`StartReply`, `AppendReply`, `FinishReply`,
`CacheReply`) are the answer a call would get now; the action is enabled when the answer is
`inserted`, all other answers change nothing. A lost answer followed by a retry is
therefore the reply evaluated in any later state.

An artifact is the record of the ids in its payload that something compares: scope,
contract object id, subtasks, releaseable and rejected claims, claim slots, table cells,
bindings, disposition. Two artifacts are equal when their canonical payloads are, so
hashes are left out, and `model` stands for model id and prompt version, which the retry
comparison reads too. Reports obey `VerificationReport.validate_report`; nothing else about
them is assumed, so the results do not depend on the verifier. Left out:
calculations (cited like claims), failure events, context, intent, query-contract and graph
artifacts (stored the same way, cited by nothing), errors for malformed payloads, which the
repository rejects before the call. The question, deadline and creation time of a request
are part of its identity as `run` and `key` are.

`ReleaseGate` defines `DefaultPlan`, `Authorized` and `Render` as the pure functions they
are. Slots are counted, not listed (`slots \in [Claims -> Nat]`): gate and cache compare
them as sets with duplicates refused, resp. as sorted arrays.

## 3. Runs

| Run | Instance | Shows |
| --- | --- | --- |
| `orchestrator_waves` | 1 run, 3 tasks, 5 graph shapes, 2 permits | bookkeeping of the scheduler and attempt loop; implements `PlanEvaluation` |
| `orchestrator_contention` | 2 runs, 1 permit, with fairness | permits of runs that share the semaphore; every started run returns |
| `answer_pipeline` | 1 run, 3 tasks, 3 graph shapes, 108 worlds | skips have a cause upstream, released claims are backed, a complete answer is complete, a lost answer has a cause, hits are promotable |
| `sql_answer_doc` | violation expected | finding 1 |
| `dataset_lifecycle` | 3 datasets (one not activatable), 4 components, 2 validations, 2 requests | pointer, endorsement, captured requests |
| `dataset_transactions` | 2 sessions, 2 datasets, 2 metrics with 2 definitions each, every pair of calls | implements `DatasetLifecycle`; no circle of waiting sessions but over metric definitions; definitions agree |
| `dart_ingestion` | 3 documents, limit 2, 6 crashes or failures, with fairness | quarantine, authority to delete, truth of the report; an authorized deletion is completed |
| `request_artifacts` | 2 runs of one request, 2 datasets, 15 artifacts, 3 verdicts | retries, unique ids, verified outcomes, grounded answers, agreement of gate and cache |
| `embedding_build` | 2 builders, 3 chunks, batches of 2, 1 failure, with fairness | no circle of waiting builders, failures have a cause, reports add up, a complete corpus gets embedded |
| `intent_resolution` | 4 views, 644 proposals, 3 contracts, deadline of 1 tick | allowance and deadline of the calls, unique contracts, names searched as they stand, settled frames |
| `dart_discard_doc` | violation expected | finding 2 |
| `dart_resume_doc` | violation expected | finding 3 |

**Bounds.** Three tasks give every shape the scheduler distinguishes: a chain, a fork, a
join, a join under a mixed pair, independent tasks. Two permits against three tasks make one queue;
one permit against two runs makes runs wait for each other. The retry budget is the code's
own (2) and is exhausted by two retries in different waves. Two sessions are enough to
break a check made without its lock, since each function's promise is broken by one other
writer; two metrics are the least a circle over definitions needs, and the batches bring none, or
both in either order, one of them in two wordings. Three datasets allow an
activation, its replacement and one that must stay out. A batch
resolves the PDFs it comes to, so the quarantine only fills from the last document to the
first: with three documents it takes five failures and crashes to bring a batch to a limit
of two, and a sixth to pass a limit that is off by one. `MaxTroubles` bounds crashes and
failures so that "nothing fails any more" can be stated. The theorems of section 4 hold
without these bounds.

Two runs of one key are what the cache can be raced by; the second run may be
of a newer dataset, whose activation makes a repeated start of the first arrive late. The
offered artifacts are a pipeline's own for each run and, for the first run, the ones that
collide with it or that a cache must refuse: a failing report with the id of the passing one, a
plan that repeats a subtask, a plan with a rejected claim in a table row, an answer that
binds no claim, an empty limitation report, the same plan from another model.

Three chunks, two of them there from the start, and batches of two make a full batch, a rest, a
corpus that grows and two batches that overlap; operators expect two or three chunks, which is
right at one time and wrong at another. A quota of three answers one batch and a part of the
next, so that two builders refuse each other. It is also the least with which they get on:
a batch is dropped with the vectors it has, so in every window each of two builders can spend one
request in vain, and a quota of two can be lost for ever (TLC finds the behaviour). `QuotaSuffices`
states the relation, a window of more requests than all builders together can have answered
short of a batch, and `CorpusGetsEmbedded` is conditional on it; nothing in the code ensures it. One failure is enough for each way a
command can be lost, as a builder starts afresh.

The records of `answer_pipeline` are good but for one column, and for each column there is one;
hours 38 and 39 are the last of the cutoff day and the first after it in Seoul, 47 and 48 the
same in UTC. Two chunks and two relations put a good record beside a bad one in one result, and
a second choice of subtasks gives one subtask two tasks. Three tasks make the chain and the join
in which a task is skipped below another.

In `intent_resolution` a question has two segments, two product names in the first and one in
the second, and one reference. The proposals have one frame with every doubt the axes can leave, two
frames on one or two segments, or three of which the last asks among the results of the others;
three contracts, one of the best quality and two alike, make every outcome of the
tie-break. One tick separates calls before the deadline from calls after it.

**Symmetry** is used for sessions, validation runs, datasets of the same cutoff, components
and requests in the safety runs of the dataset modules and for contracts of one quality; the orchestrator's runs and
all runs with liveness use none. Chunks are ordered and never symmetric.

**Deadlock** is not checked where the system really stops: all runs have returned, all
keys are used, every artifact is stored, a question is resolved, or the last trouble stopped a batch at a full quarantine.

**Fairness.** Orchestrator: the event loop resumes every coroutine that can go on, timers
fire and the clock advances (weak fairness of the run's steps, of the deadline, and of
each task's steps up to its timer). Not assumed: that a request arrives, that an executor
answers, or that a queued task ever gets a permit. DART: a running process goes on
until it dies, and the operator starts it again (`WF` of the ingestion steps and of
`StartBatch \/ WriteReport`); crashes and failures are never fair and are finite. A
full quarantine stops every batch for an operator's review by design, so
`AuthorizedCompletes` names a quarantine that stays full as its exception. Embedding: a
builder goes on (`WF` of its steps), the provider's window ends (`WF`), and some operator
repeats the full build with the right count whenever that keeps being possible (`SF`; the
decisions 0042 and 0043 in `docs/planning/decisions` make the repeated build the way a gap is closed).
Deaths, refusals for good and the growth of the corpus are not fair.

### Findings
1. *SQL answers.* The design lets results of the SQL executor become claims. `map_sql_rows`
   writes their evidence references as `evidence:<id>`, the assembler looks a reference up as
   the id of a ledger record, and no record has such an id; a result with observed values is
   therefore refused, and the bundle of the whole run with it.
2. *Failure receipts.* The recovery plan says a PDF is deleted after its failure receipt
   was recorded; the code deletes it first and keeps the receipt in memory until the report
   is written after the last document. A crash, or a fatal error of a later document,
   loses the receipt.
3. *Resumption.* A process killed in the middle of a download leaves the temporary file of
   `capture_http_object`; every later batch refuses the document with
   `dart_ingestion_untracked_path` and removes only `source.pdf`, so it is never ingested.
   A failed document with a `pending_delete` record is in the same position: its PDF is
   discarded and `dart_ingestion_resume_source_missing` is all it can get afterwards.

Noted while modelling, and not runs of their own: the design says deadline exhaustion is a failed
execution, whereas the code derives the outcome from the criticality of the lost tasks, so that a
deadline that cuts off only non-critical tasks ends `completed_with_failures`. And a critical task below one empty and one failed
dependency is skipped as benign, because the benign branch comes first, and the run is not
`failed`. `OutcomeIsHonest` names that exception, and `AnsweredMeansComplete` shows that such
an answer is not taken for a complete one.

## 4. Proofs

`PlanEvaluationProofs` (any runs, tasks, acyclic plans; assumption `GraphAssumption`):

* `TypeCorrect`; `SkipsCorrect` (`SkipsInv` is `SkipsAreCaused` with the types).
* `OutcomeCorrect`: `OutcomeIsHonest` from `OutcomeStands`, which says what the outcome of a
  concluded run was derived from; verdicts of a concluded run do not change.

`AnswerPipelineProofs` (any plans, facts, worlds; assumptions `GraphAssumption` and
`WorldAssumption`):

* `PipelineEvaluates`: every behaviour is one of `PlanEvaluation`, step by step, which
  carries `SkipsCorrect` over (`PipelineSkipsCorrect`).
* `PipelineTypeCorrect`, `HitsCorrect`, `LossCorrect`, `ReleaseCorrect` and `AnswerCorrect` rest on
  `PipelineInv`, one conjunct for each hand-over: a task that is not waiting was permitted to
  run (`WorkIsDecided`), hits were searchable (`HitsAreSearchable`), the rows of a result are in
  the ledger and passed the rule of their executor (`RowsAreSupported`), a release is the
  bundle of the concluded run (`ReleaseIsDerived`), a refusal has a cause (`LossIsCaused`). None of the
  four properties is inductive alone: each speaks of the last stage and relies on the rule that
  an earlier one applied to the same record. The arithmetic that relates the time zones is one
  lemma: a Seoul day is never before the UTC day of the same hour.

`OrchestratorProofs` (any runs, tasks, acyclic plans, any positive number of permits;
assumptions `GraphAssumption` and `ConcurrencyAssumption`):

* `TypeCorrect`: `Spec => []TypeOK`, with the range of the retry budget.
* `DependenciesCorrect` rests on `IInv`: besides the property and the types it says
  that a coroutine exists only for a pending task whose run is gathering
  (`CoroutinesBelongToWave`). It is needed because `DependenciesSucceeded` alone does not
  survive `GatherReturns`: the step overwrites `results` of the wave, and only the conjunct
  tells that no dependency of a running task is in a wave.
* `StallFree` follows from type correctness and
  `SomeTaskReady`: in an acyclic graph the pending tasks of a run contain one with no
  pending dependency.
* `PermitsCorrect` rests on `PInv` and three cardinality lemmas on the set of holders:
  it stays, loses or gains one member.
* `NoLateStartCorrect`: an action property, directly from the guard of `StartExecutor` and
  the frame of every other step.
* `RetriesCorrect` rests on `RInv`: how many attempts a task has recorded follows from where
  its coroutine stands (`AttemptsFitState`), and what is left of the budget and the tasks
  attempted again add up to the allowance. `AttemptStep` says what one step of a coroutine
  does to both: nothing, or one charge for one transient first attempt.
* `ResultCorrect` rests on `CInv`, which adds that the scheduler's collections agree
  (`CollectionsFit`: a task no longer pending is answered, failed or skipped in exactly one
  way), that what a coroutine hands to the gather is a failure or an answer, and that a run
  returns with nothing pending.
* `EvaluationImplemented`: `Spec => ImplementsEvaluation`, with the same `CInv`. The mapping reads
  a task's verdict off those collections (`Verdict`). A turn of the loop that skips tasks is
  a step that settles several of them (`StartWaveSimulated`), a gather that returns settles its wave
  (`GatherSimulated`), a return concludes the run, and everything else, retries, permits and
  timers, is a stutter.
* `SchedulerSkipsCorrect` and `SchedulerOutcomeCorrect`: what is proved of `PlanEvaluation` holds
  of the scheduler, by that refinement.

`DatasetProofs` (any sessions, datasets, validations, components, requests; assumption
`DatasetAssumption`), about the lifecycle:

* `TypeCorrect`, `PointerCorrect` (inductive as it stands).
* `EndorsementCorrect` rests on `EndorsementInv`: what is `validated` already has a passing
  run, whatever is served has all components ready, and every readiness row was passed.
  `ServedIsEndorsed` alone is not inductive since activation relies on the validation of an
  earlier state.
* `RequestsCorrect`, `ForwardCorrect`.

and about the transactions, which rest on one invariant, `TInv`:

* `TInv` says what each session may rely on at each statement and which lock protects it
  (`Relies`, one part per function), which kinds of locks it holds there (`KindsFit`), that no
  two sessions hold conflicting locks (`LocksAreExclusive`), and that keys are unique.
  The refinement is not inductive without it: at commit a function writes what it decided
  several statements earlier.
* The argument is that of two-phase locking. `Respects(s)`: what a commit of `s` changes is
  a row `s` has locked for itself. `OthersRely`: then every other session finds what it relies on
  unchanged. `PassKeeps` and `EndKeeps` reduce each statement and each commit to its own
  session; one lemma for each group of statements and one for each commit do the rest.
* `LifecycleImplemented`: `TransactionsSpec => ImplementsLifecycle`. Each commit is an action of the
  lifecycle, or no change where the function found its work done (`CommitsCreate` to `CommitsStart`); all
  other steps leave the tables alone. `CountedComponents` shows that counting a dataset's
  readiness rows, as `activate_dataset` does, is comparing the set of its components, because
  no component has two rows.
* `OnlyDefinitionsCorrect`: `TransactionsSpec => []OnlyDefinitionsDeadlock`. Statements are
  ranked (`Rank`) by what they lock; who blocks a session stands before a statement of a
  higher rank, unless both insert metric definitions. So of any set of sessions that wait for each
  other one of the highest rank inserts one, and those that do are stuck among themselves
  (`StuckBehindDefinitions`); two of one dataset are kept apart by its advisory lock. The one
  statement that locks a second dataset, that which retires the prior one, needs that the row of
  `active_dataset` admits one activation at a time (`OneRetires`).
* `SortedBatchesNeverDeadlock`: if one order of the metrics sorts every batch,
  `TransactionsSpec => []NoLockCycle`: the session that awaits the highest metric is blocked by none.
* `DefinitionsCorrect`: `TransactionsSpec => []DefinitionsAgree`. From its insert to its commit a
  session holds the key of every definition that is its own, and one that was stored stays as it is.
* `TransactionsCorrect` carries the lifecycle's properties over to the transactions.

`DartIngestionProofs` (any number of documents, any limit, any number of crashes; assumption
`DartAssumption`):

* `TypeCorrect`, `VerificationCorrect` and `ReportCorrect` rest on `Safe`. It adds to the properties
  what a record says about its directory, whoever wrote it and wherever that process died
  (`RecordFitsDisk`), what `ingest_one_dart_document` has established at each step
  (`StepIsPrepared`), and that the report speaks of documents behind the cursor only. `AuthorizedWasVerified`
  needs it because a resumed deletion asserts that the corpus was read back without reading it.
* `QuarantineCorrect` rests on `IInv`, with `RoomIsReserved`: between the check of the limit and
  the PDF there is room. Only `FinishDownload` adds a PDF.

`EmbeddingBuildProofs` (any number of builders, any corpus; assumption `BuildAssumption`) rests
on `IInv`: what holds of each builder's job (`Local`: rows are inserted in order, what a batch
has dealt with is its own or was there, counts add up, the corpus is the expected one or has
grown) and `RowsAreFree`, that a row of an open transaction is in no other and not committed.

* `TypeCorrect`; `NoLockCycleCorrect`: who waits for a row of another awaits a lower one
  than the other does (`WaitsGoDown`).
* `FailuresCorrect` and `ReportsCorrect` are action properties. `CountsAddUp` is what the report rests on: the
  counts are those of the table until the exact embeddings are counted, and stand still from then on,
  while the table may grow. `EndsForReason` lists for each outcome
  the step and the condition it comes from, and `IInv` turns the condition into the cause:
  what is counted again at the end differs from what was expected only if the corpus grew.

`RequestArtifactsProofs` (any contexts, claims, artifacts, verdicts; assumption
`ArtifactsAssumption`) rests on `TablesGrow`, that no step removes a row, and on `IInv`:

* `IInv` adds to the types that a run has one context (`OneContextPerRun`) and that artifacts,
  claims, outcomes and cache rows refer to rows that are there (`ArtifactsGrounded`,
  `ClaimsGrounded`, `OutcomesGrounded`, `CacheGrounded`). `ServedIsGrounded` and
  `RetriesSucceed` are not inductive: a cache row was compared with artifacts that an
  earlier step stored, and a repeated append must not find another artifact of its id.
* `TypeCorrect`, `IdsCorrect`, `SuccessCorrect`, `ServedCorrect`, `RetriesCorrect` are
  invariants.

`IntentResolverProofs` (any views, proposals, contracts, qualities and deadlines; assumption
`ResolverAssumption`):

* `CallsCorrect` rests on `CallsSoFar`: what the flags say about the calls made so far depends on
  where the coroutine stands, and only there does a repair exclude the judge.
* `SearchCorrect` and `ResolvedCorrect` rest on `ResolutionSoFar`: the accepted axes are `Sound`
  (evidence lies in a frame's own segments, choices are what their state says), every choice that is
  not selected has an issue that blocks the frame (`CodeBlocks`, `ChoiceHasIssue`), and
  reconciliation preserves both (`ReconciledIsSound`). `OwnedIsPlaced` relates the two ways of
  attributing a name: a span owned by evidence lies in a segment of its owner.
* `CompleteCorrect` needs that tie-break and judge start from an unbounded search; `TypeCorrect`.

`ReleasePathCorrect`, in `RequestArtifactsProofs`, needs that a list that names each claim at most
once is determined by the set of claims it names (`NamedOnce`), which is why the gate's
set comparison and the cache's array comparison agree.

Some theorems state what no run checks, because it follows from a single guard and its frame:
`NoLateStartCorrect` (no executor is started after the deadline), `ForwardCorrect` (a dataset's status never goes back), `TypeCorrect` of the pipeline, of
`PlanEvaluation` and of the resolver, and `OutcomeCorrect`. `SortedBatchesNeverDeadlock` is about batches
the code does not sort.

Every invariant, action property and refinement the passing runs check is also a theorem.
Only model-checked: liveness (`RunsReturn`, `AuthorizedCompletes`, `CorpusGetsEmbedded`), which is out of
the prover's reach, as is anything about `ENABLED`. Each inductive invariant also holds, as an
invariant, on the instance of its run.

## 5. Plan

In this order, the most important behaviour first; steps 1 to 7 are done.

1. `ExecutionGraph`, `PlanEvaluation`, `Orchestrator` and their proofs.
2. `DatasetLifecycle`, `DatasetTransactions`, `DatasetProofs`.
3. `DartIngestion`.
4. `RequestArtifacts`, `ReleaseGate` and their proofs.
5. `EmbeddingBuild`.
6. `AnswerPipeline`: executors, promotion, ledger, assembly and verification, with proofs.
7. `IntentAxes`, `IntentResolver` and their proofs.
8. The evidence ledger: later supports, calculations and the deferred constraint
   triggers (no cycle of calculations under concurrent inserts).
9. An abstract specification of an answered request (open, ended, served) that
   `RequestArtifacts` implements.
10. The threads behind blocking executors, composed with `Orchestrator`.
11. The enumeration of contracts in the solver, and structured ingestion in front of the
   dataset writer.

With each of the remaining steps come its theorems: that the constraint triggers of the ledger
admit no cycle of calculations, and the refinement of step 9. What is left to prove of the
models there are is liveness, which stays with TLC.

## 6. Not modelled

Besides the parts named in section 1 as planned: query planning, SQL compilation,
ranking in retrieval, extraction, chunking, mapping rules and preflight, which are sequential data
transformations with no state between calls; contracts, which are declarations; the
language-model prompts; tests, fixtures and generated data.
