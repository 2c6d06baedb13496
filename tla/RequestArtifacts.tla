--------------------------- MODULE RequestArtifacts -------------------------
(***************************************************************************)
(* What PostgreSQL keeps of one answered request: the run, the artifacts   *)
(* its steps append, the claims and the evidence they cite, the outcome of *)
(* the run, and the cache of verified releases.  Every write is a call     *)
(* that a client may repeat, because its answer was lost, or that two      *)
(* clients may make at once; each call is one transaction, and the unique  *)
(* indexes and row locks make the calls that concern one row wait for each *)
(* other, so a call is one step here.  X_Reply says what a call of X would *)
(* answer now:                                                             *)
(*   "inserted"   it stores its row (the only reply that changes a table)  *)
(*   "existing"   the row it would store is there already: success         *)
(*   "conflict"   another row has the place of the one it would store      *)
(*   "refused"    any other error                                          *)
(*                                                                         *)
(* An artifact is its canonical payload: two artifacts with one hash have  *)
(* one payload.  Of a payload the model keeps its scope, its contract      *)
(* object id and the ids that the foreign keys, the cache and the Claim    *)
(* Gate compare.  The repositories validate payloads before the call, so   *)
(* the errors of derive_request_artifact for malformed ones do not occur.  *)
(* Calculations are left out: they are cited as claims are.                *)
(***************************************************************************)
EXTENDS Naturals, FiniteSets

CONSTANTS
  Activations,   \* how many datasets are activated; a dataset is its turn
  Contexts,      \* request contexts [run, key, version]
  Claims, Evidence, Subtasks,
  SubtaskOf,     \* the subtask a claim answers
  SupportOf,     \* the evidence a claim rests on
  Ids,           \* contract object ids
  Offers,        \* the artifacts clients try to append: [payload, model]
  Verdicts,      \* the outcomes clients try to finish a run with
  None           \* NULL

Runs == {c.run : c \in Contexts}
Dispositions == {"answer", "partial", "limitation", "abstain"}
ClaimLists == [Claims -> Nat]      \* how often a list names each claim

QueryPlans == [kind : {"query_plan"}, ctx : Contexts, oid : {None},
               subtasks : SUBSET Subtasks]
Findings == [kind : {"tool_result", "evidence_bundle"}, ctx : Contexts, oid : Ids,
             evidence : SUBSET Evidence, claims : SUBSET Claims]
Reports == [kind : {"verification_report"}, ctx : Contexts, oid : Ids,
            passed : BOOLEAN, disposition : Dispositions \cup {None},
            releaseable : SUBSET Claims, rejected : SUBSET Claims]
AnswerPlans == [kind : {"answer_plan"}, ctx : Contexts, oid : {None},
                report : Ids, disposition : Dispositions,
                template : {"fact-list", "limitation", "abstention"},
                slots : ClaimLists, cells : SUBSET Claims]
Answers == [kind : {"released_answer"}, ctx : Contexts, oid : {None},
            disposition : Dispositions, bound : ClaimLists]
Payloads == QueryPlans \cup Findings \cup Reports \cup AnswerPlans \cup Answers

Outcomes == [http : Nat, execution : {"completed", "completed_with_failures", "failed"},
             passed : BOOLEAN, disposition : Dispositions \cup {None},
             report : Ids \cup {None}, failure : BOOLEAN, at : Nat]

\* VerificationReport.validate_report: what a report that can be appended obeys.
WellFormedReport(p) ==
  /\ p.releaseable \cap p.rejected = {}
  /\ p.passed <=> p.disposition # None
  /\ ~p.passed => p.releaseable = {}

ASSUME ArtifactsAssumption ==
  /\ Activations \in Nat
  /\ \A c \in Contexts : c.version \in 1..Activations
  /\ SubtaskOf \in [Claims -> Subtasks] /\ SupportOf \in [Claims -> Evidence]
  /\ None \notin Ids /\ None \notin Dispositions
  /\ Verdicts \subseteq Outcomes /\ None \notin Verdicts
  /\ \A o \in Offers : /\ DOMAIN o = {"payload", "model"}
                       /\ o.payload \in Payloads
                       /\ o.payload \in Reports => WellFormedReport(o.payload)

VARIABLES
  active,        \* the dataset version requests are started on, 0 for none
  runs,          \* request_run: the contexts of the runs started
  artifacts,     \* request_artifact
  evidence,      \* evidence_record: [version, id]
  claims,        \* atomic_claim with its supports: [run, id]
  outcome,       \* the terminal columns of request_run, None while open
  cache          \* verified_release_cache: [report, plan, answer]

vars == <<active, runs, artifacts, evidence, claims, outcome, cache>>

TypeOK ==
  /\ active \in 0..Activations
  /\ runs \subseteq Contexts
  /\ artifacts \subseteq Offers
  /\ evidence \subseteq [version : 1..Activations, id : Evidence]
  /\ claims \subseteq [run : Runs, id : Claims]
  /\ outcome \in [Runs -> Verdicts \cup {None}]
  /\ cache \subseteq [report : Reports, plan : AnswerPlans, answer : Answers]

Init ==
  /\ active = 0
  /\ runs = {}
  /\ artifacts = {}
  /\ evidence = {}
  /\ claims = {}
  /\ outcome = [r \in Runs |-> None]
  /\ cache = {}
-----------------------------------------------------------------------------
Stored(kinds, run) ==
  {p \in {a.payload : a \in artifacts} : p.kind \in kinds /\ p.ctx.run = run}
SubtasksOf(run) == UNION {p.subtasks : p \in Stored({"query_plan"}, run)}
ClaimsOf(run) == {c \in Claims : [run |-> run, id |-> c] \in claims}
Named(list) == {c \in Claims : list[c] > 0}
Once(S) == [c \in Claims |-> IF c \in S THEN 1 ELSE 0]

\* activate_dataset, as DatasetLifecycle has it: no dataset becomes active twice.
ActivateDataset ==
  /\ active < Activations
  /\ active' = active + 1
  /\ UNCHANGED <<runs, artifacts, evidence, claims, outcome, cache>>

\* Fault: the version is compared with the active one before the run is looked for.
StartReplyActiveFirst(ctx) ==
  IF ctx.version # active THEN "refused"
  ELSE IF \E c \in runs : c.run = ctx.run
  THEN IF ctx \in runs THEN "existing" ELSE "conflict"
  ELSE "inserted"

StartReply(ctx) ==
  IF \E c \in runs : c.run = ctx.run
  THEN IF ctx \in runs THEN "existing" ELSE "conflict"
  ELSE IF ctx.version = active THEN "inserted" ELSE "refused"

StartRun(ctx) ==
  /\ StartReply(ctx) = "inserted"
  /\ runs' = runs \cup {ctx}
  /\ UNCHANGED <<active, artifacts, evidence, claims, outcome, cache>>

AppendEvidence(v, e) ==
  /\ [version |-> v, id |-> e] \notin evidence
  /\ evidence' = evidence \cup {[version |-> v, id |-> e]}
  /\ UNCHANGED <<active, runs, artifacts, claims, outcome, cache>>

\* A claim needs the scope of a started run, a subtask of a query plan of that
\* run, and supporting evidence of its dataset.
AppendClaim(ctx, c) ==
  /\ ctx \in runs
  /\ c \notin ClaimsOf(ctx.run)
  /\ SubtaskOf[c] \in SubtasksOf(ctx.run)
  /\ [version |-> ctx.version, id |-> SupportOf[c]] \in evidence
  /\ claims' = claims \cup {[run |-> ctx.run, id |-> c]}
  /\ UNCHANGED <<active, runs, artifacts, evidence, outcome, cache>>
-----------------------------------------------------------------------------
\* The claims and the evidence an artifact refers to.  The evidence that a
\* report or an answer names is the evidence its claims rest on.
CitedClaims(p) ==
  CASE p.kind = "evidence_bundle"     -> p.claims
    [] p.kind = "verification_report" -> p.releaseable \cup p.rejected
    [] p.kind = "answer_plan"         -> Named(p.slots) \cup p.cells
    [] p.kind = "released_answer"     -> Named(p.bound)
    [] OTHER                          -> {}
CitedEvidence(p) ==
  IF p.kind \in {"tool_result", "evidence_bundle"} THEN p.evidence ELSE {}

ReferencesExist(p) ==
  /\ CitedClaims(p) \subseteq ClaimsOf(p.ctx.run)
  /\ \A e \in CitedEvidence(p) : [version |-> p.ctx.version, id |-> e] \in evidence

\* Fault: the unique index covers task results only.
IdTakenOfResults(p) ==
  p.kind = "tool_result" /\ \E q \in Stored({p.kind}, p.ctx.run) : q # p /\ q.oid = p.oid

\* The artifact has the contract object id of another one of its run and type.
IdTaken(p) ==
  p.oid # None /\ \E q \in Stored({p.kind}, p.ctx.run) : q # p /\ q.oid = p.oid
SubtaskTaken(p) ==
  p.kind = "query_plan" /\ p.subtasks \cap SubtasksOf(p.ctx.run) # {}

\* The unique indexes of request_artifact come first, then its foreign key to
\* the run, then the rows the artifact adds to the other tables.
AppendReply(o) ==
  LET p == o.payload IN
  IF p \in Stored({p.kind}, p.ctx.run)
  THEN IF o \in artifacts THEN "existing" ELSE "conflict"
  ELSE IF IdTaken(p) THEN "conflict"
  ELSE IF p.ctx \notin runs THEN "refused"
  ELSE IF SubtaskTaken(p) THEN "conflict"
  ELSE IF ReferencesExist(p) THEN "inserted" ELSE "refused"

AppendArtifact(o) ==
  /\ AppendReply(o) = "inserted"
  /\ artifacts' = artifacts \cup {o}
  /\ UNCHANGED <<active, runs, evidence, claims, outcome, cache>>
-----------------------------------------------------------------------------
\* Fault: any report of the id will do.
FinalReportById(run, v) == {p \in Stored({"verification_report"}, run) : p.oid = v.report}

\* The passing report, with the disposition of the verdict, that it names.
FinalReport(run, v) ==
  {p \in Stored({"verification_report"}, run) :
     p.oid = v.report /\ p.passed /\ p.disposition = v.disposition}

ValidSuccess(v) ==
  /\ v.http = 200
  /\ v.execution # "failed"
  /\ v.passed /\ v.disposition # None /\ v.report # None /\ ~v.failure
ValidFailure(v) ==
  /\ v.http \in 500..599
  /\ v.execution = "failed"
  /\ ~v.passed /\ v.disposition = None /\ v.report = None /\ v.failure

FinishReply(run, v) ==
  IF \A c \in runs : c.run # run THEN "refused"
  ELSE IF outcome[run] # None
  THEN IF outcome[run] = v THEN "existing" ELSE "conflict"
  ELSE IF \/ ValidFailure(v)
          \/ ValidSuccess(v) /\ FinalReport(run, v) # {}
  THEN "inserted" ELSE "refused"

\* Fault: the UPDATE leaves the finishing time out.
FinishRunUntimed(run, v) ==
  /\ FinishReply(run, v) = "inserted"
  /\ outcome' = [outcome EXCEPT ![run] = [v EXCEPT !.at = 0]]
  /\ UNCHANGED <<active, runs, artifacts, evidence, claims, cache>>

FinishRun(run, v) ==
  /\ FinishReply(run, v) = "inserted"
  /\ outcome' = [outcome EXCEPT ![run] = v]
  /\ UNCHANGED <<active, runs, artifacts, evidence, claims, cache>>
-----------------------------------------------------------------------------
\* get_cached_release.
Served(key, version) ==
  {row \in cache : row.answer.ctx.key = key /\ row.answer.ctx.version = version}

\* Fault: the claims the answer binds are not compared with the report.
ReleasesUnbound(row) ==
  /\ row.report.passed
  /\ row.plan.report = row.report.oid
  /\ row.plan.disposition = row.report.disposition
  /\ row.answer.disposition = row.plan.disposition
  /\ row.plan.slots = Once(row.report.releaseable)

\* Fault: the aggregate over no claims is NULL and equals nothing.
ReleasesSome(row) ==
  /\ row.report.passed /\ row.report.releaseable # {}
  /\ row.plan.report = row.report.oid
  /\ row.plan.disposition = row.report.disposition
  /\ row.answer.disposition = row.plan.disposition
  /\ row.plan.slots = Once(row.report.releaseable)
  /\ row.answer.bound = Once(row.report.releaseable)

\* The comparisons of cache_verified_release.  Its scope comparisons always hold:
\* the three artifacts are of one run, whose scope the foreign key gives them.
Releases(row) ==
  /\ row.report.passed
  /\ row.plan.report = row.report.oid
  /\ row.plan.disposition = row.report.disposition
  /\ row.answer.disposition = row.plan.disposition
  /\ row.plan.slots = Once(row.report.releaseable)
  /\ row.answer.bound = Once(row.report.releaseable)

CacheReply(row) ==
  LET held == Served(row.answer.ctx.key, row.answer.ctx.version) IN
  IF ~Releases(row) THEN "refused"
  ELSE IF held = {} THEN "inserted"
  ELSE IF row \in held THEN "existing" ELSE "conflict"

CacheRelease(row) ==
  /\ CacheReply(row) = "inserted"
  /\ cache' = cache \cup {row}
  /\ UNCHANGED <<active, runs, artifacts, evidence, claims, outcome>>

\* The rows a client of the cache can ask for: stored artifacts of one run.
Rows(run) ==
  [report : Stored({"verification_report"}, run), plan : Stored({"answer_plan"}, run),
   answer : Stored({"released_answer"}, run)]
-----------------------------------------------------------------------------
Next ==
  \/ ActivateDataset
  \/ \E ctx \in Contexts : StartRun(ctx)
  \/ \E v \in 1..Activations, e \in Evidence : AppendEvidence(v, e)
  \/ \E ctx \in Contexts, c \in Claims : AppendClaim(ctx, c)
  \/ \E o \in Offers : AppendArtifact(o)
  \/ \E run \in Runs, v \in Verdicts : FinishRun(run, v)
  \/ \E run \in Runs : \E row \in Rows(run) : CacheRelease(row)

Spec == Init /\ [][Next]_vars
-----------------------------------------------------------------------------
(* Properties *)

\* A call that took effect may be repeated, whatever happened since its answer
\* was lost: another dataset became active, the run finished, later artifacts or
\* another run's release arrived.  It is answered as it was the first time.
RetriesSucceed ==
  /\ \A ctx \in runs : StartReply(ctx) = "existing"
  /\ \A o \in artifacts : AppendReply(o) = "existing"
  /\ \A run \in Runs : outcome[run] # None => FinishReply(run, outcome[run]) = "existing"
  /\ \A row \in cache : CacheReply(row) = "existing"

\* Two writers of one contract object never both succeed: a run has one result
\* of a task, one bundle and one report of an id, and one subtask is of one
\* query plan.
OneArtifactPerId ==
  \A run \in Runs :
    /\ \A kind \in {"tool_result", "evidence_bundle", "verification_report"} :
         \A p, q \in Stored({kind}, run) : p.oid = q.oid => p = q
    /\ \A p, q \in Stored({"query_plan"}, run) :
         p # q => p.subtasks \cap q.subtasks = {}

\* A run that ended with 200 has, and keeps, a passing report of its own that
\* recommends the disposition it ended with; one that ended with 5xx shows none.
SuccessIsVerified ==
  \A run \in Runs : outcome[run] # None =>
    IF outcome[run].http = 200
    THEN /\ outcome[run].execution # "failed"
         /\ \E p \in Stored({"verification_report"}, run) :
              p.oid = outcome[run].report /\ p.passed /\ p.disposition = outcome[run].disposition
    ELSE outcome[run].execution = "failed" /\ outcome[run].disposition = None

\* The way back from an answer served out of the cache: its report passed, is of
\* the same request and dataset, and releases exactly the claims of the answer,
\* none of which it rejects; each is a claim of the run, answers a subtask of a
\* query plan of the run and rests on evidence of the run's dataset.
ServedIsGrounded ==
  \A row \in cache :
    LET ctx == row.answer.ctx IN
    /\ ctx \in runs /\ row.report.ctx = ctx /\ row.plan.ctx = ctx
    /\ row.report.passed
    /\ Named(row.answer.bound) = row.report.releaseable
    /\ \A c \in Named(row.answer.bound) :
         /\ c \in ClaimsOf(ctx.run) \ row.report.rejected
         /\ SubtaskOf[c] \in SubtasksOf(ctx.run)
         /\ [version |-> ctx.version, id |-> SupportOf[c]] \in evidence
=============================================================================
