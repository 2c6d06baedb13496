----------------------- MODULE RequestArtifactsProofs -----------------------
(***************************************************************************)
(* The safety properties of RequestArtifacts and ReleaseGate, for any      *)
(* requests, artifacts, claims, plans and verdicts.  The argument: no table *)
(* ever loses a row, so what held when a row was written still holds; a    *)
(* run has one context, so rows of one run agree about the dataset; and    *)
(* each table refers only to rows that are there, so a served answer can   *)
(* be followed back to evidence.                                           *)
(***************************************************************************)
EXTENDS ReleaseGate, TLAPS

OneContextPerRun == \A c, d \in runs : c.run = d.run => c = d

ArtifactsGrounded ==
  \A a \in artifacts : a.payload.ctx \in runs /\ ReferencesExist(a.payload)

ClaimsGrounded ==
  \A row \in claims : \E ctx \in runs :
    /\ ctx.run = row.run
    /\ SubtaskOf[row.id] \in SubtasksOf(ctx.run)
    /\ [version |-> ctx.version, id |-> SupportOf[row.id]] \in evidence

OutcomesGrounded ==
  \A run \in Runs : outcome[run] # None => \E c \in runs : c.run = run

CacheGrounded ==
  \A row \in cache :
    /\ Releases(row)
    /\ \E run \in Runs : row \in Rows(run)

IInv ==
  /\ TypeOK
  /\ OneContextPerRun
  /\ ArtifactsGrounded
  /\ ClaimsGrounded
  /\ OutcomesGrounded
  /\ CacheGrounded
  /\ SuccessIsVerified
  /\ OneArtifactPerId
-----------------------------------------------------------------------------
\* Stored in terms of the table.
LEMMA StoredRows ==
  ASSUME NEW K, NEW run, NEW p
  PROVE  p \in Stored(K, run) <=>
           \E a \in artifacts : a.payload = p /\ p.kind \in K /\ p.ctx.run = run
BY DEF Stored

\* The payloads of the three kinds the cache links have the types it stores.
LEMMA StoredTypes ==
  ASSUME TypeOK, NEW run, NEW K, NEW p \in Stored(K, run)
  PROVE  /\ p \in Payloads /\ p.kind \in K /\ p.ctx.run = run /\ p.ctx \in Contexts
         /\ p.kind = "verification_report" => p \in Reports /\ WellFormedReport(p)
         /\ p.kind = "answer_plan" => p \in AnswerPlans
         /\ p.kind = "released_answer" => p \in Answers
<1>1. PICK a \in artifacts : a.payload = p /\ p.kind \in K /\ p.ctx.run = run
  BY StoredRows
<1>2. a \in Offers
  BY <1>1 DEF TypeOK
<1>3. p \in Payloads /\ (p \in Reports => WellFormedReport(p))
  BY <1>1, <1>2, ArtifactsAssumption
<1>4. p.ctx \in Contexts
  BY <1>3 DEF Payloads, QueryPlans, Findings, Reports, AnswerPlans, Answers
<1>5. p.kind = "verification_report" => p \in Reports
  BY <1>3 DEF Payloads, QueryPlans, Findings, Reports, AnswerPlans, Answers
<1>6. p.kind = "answer_plan" => p \in AnswerPlans
  BY <1>3 DEF Payloads, QueryPlans, Findings, Reports, AnswerPlans, Answers
<1>7. p.kind = "released_answer" => p \in Answers
  BY <1>3 DEF Payloads, QueryPlans, Findings, Reports, AnswerPlans, Answers
<1> QED BY <1>1, <1>3, <1>4, <1>5, <1>6, <1>7

\* No call removes a row of any table.
LEMMA TablesGrow ==
  ASSUME [Next]_vars
  PROVE  /\ runs \subseteq runs' /\ artifacts \subseteq artifacts'
         /\ evidence \subseteq evidence' /\ claims \subseteq claims'
         /\ cache \subseteq cache'
<1>1. CASE ActivateDataset
  BY <1>1 DEF ActivateDataset
<1>2. ASSUME NEW ctx \in Contexts, StartRun(ctx) PROVE UNCHANGED <<artifacts, evidence, claims, cache>> /\ runs \subseteq runs'
  BY <1>2 DEF StartRun
<1>3. ASSUME NEW v \in 1..Activations, NEW e \in Evidence, AppendEvidence(v, e)
      PROVE  UNCHANGED <<runs, artifacts, claims, cache>> /\ evidence \subseteq evidence'
  BY <1>3 DEF AppendEvidence
<1>4. ASSUME NEW ctx \in Contexts, NEW c \in Claims, AppendClaim(ctx, c)
      PROVE  UNCHANGED <<runs, artifacts, evidence, cache>> /\ claims \subseteq claims'
  BY <1>4 DEF AppendClaim
<1>5. ASSUME NEW o \in Offers, AppendArtifact(o)
      PROVE  UNCHANGED <<runs, evidence, claims, cache>> /\ artifacts \subseteq artifacts'
  BY <1>5 DEF AppendArtifact
<1>6. ASSUME NEW run \in Runs, NEW v \in Verdicts, FinishRun(run, v)
      PROVE  UNCHANGED <<runs, artifacts, evidence, claims, cache>>
  BY <1>6 DEF FinishRun
<1>7. ASSUME NEW run \in Runs, NEW row \in Rows(run), CacheRelease(row)
      PROVE  UNCHANGED <<runs, artifacts, evidence, claims>> /\ cache \subseteq cache'
  BY <1>7 DEF CacheRelease
<1>8. CASE UNCHANGED vars
  BY <1>8 DEF vars
<1> QED
  BY <1>1, <1>2, <1>3, <1>4, <1>5, <1>6, <1>7, <1>8 DEF Next

\* Hence what was stored stays stored.
LEMMA StoredGrows ==
  ASSUME artifacts \subseteq artifacts', NEW run
  PROVE  /\ \A K : Stored(K, run) \subseteq Stored(K, run)'
         /\ SubtasksOf(run) \subseteq SubtasksOf(run)'
BY DEF Stored, SubtasksOf
-----------------------------------------------------------------------------
(***************************************************************************)
(* Type correctness: the tables hold only rows clients may write, and the  *)
(* cache links a report, an answer plan and a released answer, in this     *)
(* order (the artifact_type comparisons of cache_verified_release).        *)
(***************************************************************************)
THEOREM TypeCorrect == Spec => []TypeOK
<1>1. Init => TypeOK
  BY ArtifactsAssumption DEF Init, TypeOK
<1>2. TypeOK /\ [Next]_vars => TypeOK'
  <2> SUFFICES ASSUME TypeOK, [Next]_vars PROVE TypeOK'
    OBVIOUS
  <2>1. CASE ActivateDataset
    BY <2>1, ArtifactsAssumption DEF ActivateDataset, TypeOK
  <2>2. ASSUME NEW ctx \in Contexts, StartRun(ctx) PROVE TypeOK'
    BY <2>2 DEF StartRun, TypeOK
  <2>3. ASSUME NEW v \in 1..Activations, NEW e \in Evidence, AppendEvidence(v, e) PROVE TypeOK'
    BY <2>3 DEF AppendEvidence, TypeOK
  <2>4. ASSUME NEW ctx \in Contexts, NEW c \in Claims, AppendClaim(ctx, c) PROVE TypeOK'
    BY <2>4 DEF AppendClaim, TypeOK, Runs
  <2>5. ASSUME NEW o \in Offers, AppendArtifact(o) PROVE TypeOK'
    BY <2>5 DEF AppendArtifact, TypeOK
  <2>6. ASSUME NEW run \in Runs, NEW v \in Verdicts, FinishRun(run, v) PROVE TypeOK'
    BY <2>6 DEF FinishRun, TypeOK
  <2>7. ASSUME NEW run \in Runs, NEW row \in Rows(run), CacheRelease(row) PROVE TypeOK'
    <3>1. /\ row.report \in Stored({"verification_report"}, run)
          /\ row.plan \in Stored({"answer_plan"}, run)
          /\ row.answer \in Stored({"released_answer"}, run)
          /\ row = [report |-> row.report, plan |-> row.plan, answer |-> row.answer]
      BY DEF Rows
    <3>2. row.report \in Reports /\ row.plan \in AnswerPlans /\ row.answer \in Answers
      BY <3>1, StoredTypes
    <3>3. row \in [report : Reports, plan : AnswerPlans, answer : Answers]
      BY <3>1, <3>2
    <3> QED BY <2>7, <3>3 DEF CacheRelease, TypeOK
  <2>8. CASE UNCHANGED vars
    BY <2>8 DEF vars, TypeOK
  <2> QED
    BY <2>1, <2>2, <2>3, <2>4, <2>5, <2>6, <2>7, <2>8 DEF Next
<1> QED
  BY <1>1, <1>2, PTL DEF Spec
-----------------------------------------------------------------------------
LEMMA ContextsPreserved ==
  ASSUME OneContextPerRun, [Next]_vars
  PROVE  OneContextPerRun'
<1>1. ASSUME NEW ctx \in Contexts, StartRun(ctx) PROVE OneContextPerRun'
  <2>1. \A c \in runs : c.run # ctx.run
    BY <1>1 DEF StartRun, StartReply
  <2> QED BY <1>1, <2>1 DEF StartRun, OneContextPerRun
<1>2. CASE UNCHANGED runs
  BY <1>2 DEF OneContextPerRun
<1> QED
  BY <1>1, <1>2 DEF Next, vars, ActivateDataset, AppendEvidence, AppendClaim,
                    AppendArtifact, FinishRun, CacheRelease

LEMMA ReferencesPreserved ==
  ASSUME ArtifactsGrounded, [Next]_vars
  PROVE  ArtifactsGrounded'
<1>1. \A p : ReferencesExist(p) => ReferencesExist(p)'
  BY TablesGrow DEF ReferencesExist, ClaimsOf, CitedClaims, CitedEvidence, Named
<1>2. ASSUME NEW o \in Offers, AppendArtifact(o) PROVE ArtifactsGrounded'
  <2>1. o.payload.ctx \in runs /\ ReferencesExist(o.payload) /\ artifacts' = artifacts \cup {o}
    BY <1>2 DEF AppendArtifact, AppendReply
  <2> QED BY <1>1, <2>1, TablesGrow DEF ArtifactsGrounded
<1>3. CASE UNCHANGED artifacts
  BY <1>1, <1>3, TablesGrow DEF ArtifactsGrounded
<1> QED
  BY <1>2, <1>3 DEF Next, vars, ActivateDataset, StartRun, AppendEvidence, AppendClaim,
                    FinishRun, CacheRelease

LEMMA ClaimsPreserved ==
  ASSUME ClaimsGrounded, [Next]_vars
  PROVE  ClaimsGrounded'
<1>1. ASSUME NEW row, NEW ctx \in runs, ctx.run = row.run,
             SubtaskOf[row.id] \in SubtasksOf(ctx.run),
             [version |-> ctx.version, id |-> SupportOf[row.id]] \in evidence
      PROVE  /\ ctx \in runs'
             /\ SubtaskOf[row.id] \in SubtasksOf(ctx.run)'
             /\ [version |-> ctx.version, id |-> SupportOf[row.id]] \in evidence'
  BY <1>1, TablesGrow, StoredGrows
<1>2. ASSUME NEW ctx \in Contexts, NEW c \in Claims, AppendClaim(ctx, c) PROVE ClaimsGrounded'
  <2> DEFINE row == [run |-> ctx.run, id |-> c]
  <2>1. /\ ctx \in runs /\ SubtaskOf[c] \in SubtasksOf(ctx.run)
        /\ [version |-> ctx.version, id |-> SupportOf[c]] \in evidence
        /\ claims' = claims \cup {row}
        /\ UNCHANGED <<runs, artifacts, evidence>>
    BY <1>2 DEF AppendClaim
  <2>2. SubtaskOf[c] \in SubtasksOf(ctx.run)'
    BY <2>1, StoredGrows
  <2>3. ASSUME NEW r \in claims
        PROVE  \E d \in runs' : /\ d.run = r.run
                                /\ SubtaskOf[r.id] \in SubtasksOf(d.run)'
                                /\ [version |-> d.version, id |-> SupportOf[r.id]] \in evidence'
    BY <1>1 DEF ClaimsGrounded
  <2>4. \E d \in runs' : /\ d.run = row.run
                         /\ SubtaskOf[row.id] \in SubtasksOf(d.run)'
                         /\ [version |-> d.version, id |-> SupportOf[row.id]] \in evidence'
    BY <2>1, <2>2
  <2> QED BY <2>1, <2>3, <2>4 DEF ClaimsGrounded
<1>3. CASE UNCHANGED claims
  BY <1>1, <1>3 DEF ClaimsGrounded
<1> QED
  BY <1>2, <1>3 DEF Next, vars, ActivateDataset, StartRun, AppendEvidence, AppendArtifact,
                    FinishRun, CacheRelease

LEMMA OutcomesPreserved ==
  ASSUME TypeOK, OutcomesGrounded, SuccessIsVerified, [Next]_vars
  PROVE  OutcomesGrounded' /\ SuccessIsVerified'
<1>1. ASSUME NEW run \in Runs, NEW v \in Verdicts, FinishRun(run, v)
      PROVE  OutcomesGrounded' /\ SuccessIsVerified'
  <2>1. /\ outcome' = [outcome EXCEPT ![run] = v]
        /\ UNCHANGED <<runs, artifacts>>
        /\ \E c \in runs : c.run = run
        /\ ValidFailure(v) \/ (ValidSuccess(v) /\ FinalReport(run, v) # {})
    BY <1>1 DEF FinishRun, FinishReply
  <2>2. OutcomesGrounded'
    BY <2>1 DEF OutcomesGrounded, TypeOK
  <2>3. ASSUME ValidSuccess(v), FinalReport(run, v) # {}
        PROVE  /\ v.http = 200 /\ v.execution # "failed"
               /\ \E p \in Stored({"verification_report"}, run)' :
                    p.oid = v.report /\ p.passed /\ p.disposition = v.disposition
    BY <2>1, <2>3, StoredGrows DEF ValidSuccess, FinalReport
  <2>4. ASSUME ValidFailure(v)
        PROVE  v.http # 200 /\ v.execution = "failed" /\ v.disposition = None
    BY <2>4 DEF ValidFailure
  <2>5. \A r \in Runs \ {run} : outcome'[r] = outcome[r]
    BY <2>1 DEF TypeOK
  <2>6. outcome'[run] = v
    BY <2>1 DEF TypeOK
  <2>7. \A r \in Runs : Stored({"verification_report"}, r) \subseteq Stored({"verification_report"}, r)'
    BY <2>1, StoredGrows
  <2>8. SuccessIsVerified'
    BY <2>1, <2>3, <2>4, <2>5, <2>6, <2>7 DEF SuccessIsVerified
  <2> QED BY <2>2, <2>8
<1>2. CASE UNCHANGED outcome
  <2>1. OutcomesGrounded'
    BY <1>2, TablesGrow DEF OutcomesGrounded
  <2>2. \A r \in Runs : Stored({"verification_report"}, r) \subseteq Stored({"verification_report"}, r)'
    BY TablesGrow, StoredGrows
  <2>3. SuccessIsVerified'
    BY <1>2, <2>2 DEF SuccessIsVerified
  <2> QED BY <2>1, <2>3
<1> QED
  BY <1>1, <1>2 DEF Next, vars, ActivateDataset, StartRun, AppendEvidence, AppendClaim,
                    AppendArtifact, CacheRelease

LEMMA CachePreserved ==
  ASSUME CacheGrounded, [Next]_vars
  PROVE  CacheGrounded'
<1>1. \A run : Rows(run) \subseteq Rows(run)'
  BY TablesGrow, StoredGrows DEF Rows
<1>2. \A row : Releases(row)' <=> Releases(row)
  BY DEF Releases
<1>3. ASSUME NEW run \in Runs, NEW row \in Rows(run), CacheRelease(row) PROVE CacheGrounded'
  <2>1. Releases(row) /\ cache' = cache \cup {row}
    BY <1>3 DEF CacheRelease, CacheReply
  <2> QED BY <1>1, <1>2, <1>3, <2>1 DEF CacheGrounded
<1>4. CASE UNCHANGED cache
  BY <1>1, <1>2, <1>4 DEF CacheGrounded
<1> QED
  BY <1>3, <1>4 DEF Next, vars, ActivateDataset, StartRun, AppendEvidence, AppendClaim,
                    AppendArtifact, FinishRun

LEMMA IdsPreserved ==
  ASSUME TypeOK, OneArtifactPerId, [Next]_vars
  PROVE  OneArtifactPerId'
<1>1. ASSUME NEW o \in Offers, AppendArtifact(o) PROVE OneArtifactPerId'
  <2> DEFINE p == o.payload
  <2>1. ~IdTaken(p) /\ ~SubtaskTaken(p) /\ artifacts' = artifacts \cup {o} /\ p \in Payloads
    BY <1>1, ArtifactsAssumption DEF AppendArtifact, AppendReply
  <2>2. \A K, run : Stored(K, run)' =
          Stored(K, run) \cup (IF p.kind \in K /\ p.ctx.run = run THEN {p} ELSE {})
    BY <2>1 DEF Stored
  <2>3. ASSUME NEW run \in Runs,
               NEW kind \in {"tool_result", "evidence_bundle", "verification_report"},
               NEW q \in Stored({kind}, run)', NEW r \in Stored({kind}, run)', q.oid = r.oid
        PROVE  q = r
    <3>1. p.kind = kind => p.oid # None
      BY <2>1, ArtifactsAssumption DEF Payloads, QueryPlans, Findings, Reports, AnswerPlans, Answers
    <3>2. \A t \in Stored({p.kind}, p.ctx.run) : t # p => p.oid = None \/ t.oid # p.oid
      BY <2>1 DEF IdTaken
    <3> QED BY <2>2, <2>3, <3>1, <3>2 DEF OneArtifactPerId
  <2>4. ASSUME NEW run \in Runs, NEW q \in Stored({"query_plan"}, run)',
               NEW r \in Stored({"query_plan"}, run)', q # r
        PROVE  q.subtasks \cap r.subtasks = {}
    <3>1. p.kind = "query_plan" => \A t \in Stored({"query_plan"}, p.ctx.run) : p.subtasks \cap t.subtasks = {}
      BY <2>1 DEF SubtaskTaken, SubtasksOf
    <3> QED BY <2>2, <2>4, <3>1 DEF OneArtifactPerId
  <2> QED BY <2>3, <2>4 DEF OneArtifactPerId
<1>2. CASE UNCHANGED artifacts
  BY <1>2 DEF OneArtifactPerId, Stored
<1> QED
  BY <1>1, <1>2 DEF Next, vars, ActivateDataset, StartRun, AppendEvidence, AppendClaim,
                    FinishRun, CacheRelease

\* The inductive invariant.
LEMMA Inductive == Spec => []IInv
<1>1. Init => IInv
  <2> SUFFICES ASSUME Init PROVE IInv
    OBVIOUS
  <2>1. TypeOK
    BY ArtifactsAssumption DEF Init, TypeOK
  <2>2. OneContextPerRun /\ ArtifactsGrounded /\ ClaimsGrounded /\ CacheGrounded
    BY DEF Init, OneContextPerRun, ArtifactsGrounded, ClaimsGrounded, CacheGrounded
  <2>3. OutcomesGrounded /\ SuccessIsVerified
    BY DEF Init, OutcomesGrounded, SuccessIsVerified
  <2>4. OneArtifactPerId
    BY DEF Init, OneArtifactPerId, Stored
  <2> QED BY <2>1, <2>2, <2>3, <2>4 DEF IInv
<1>2. TypeOK' /\ IInv /\ [Next]_vars => IInv'
  BY ContextsPreserved, ReferencesPreserved, ClaimsPreserved, OutcomesPreserved,
     CachePreserved, IdsPreserved DEF IInv
<1> QED
  BY <1>1, <1>2, TypeCorrect, PTL DEF Spec
-----------------------------------------------------------------------------
(***************************************************************************)
(* Two writers of one contract object never both succeed: the unique       *)
(* indexes of request_artifact and the key of request_subtask.             *)
(***************************************************************************)
THEOREM IdsCorrect == Spec => []OneArtifactPerId
<1>1. IInv => OneArtifactPerId
  BY DEF IInv
<1> QED BY <1>1, Inductive, PTL

(***************************************************************************)
(* A run finished with 200 keeps a passing report of its own with its      *)
(* disposition (finish_request_run).                                       *)
(***************************************************************************)
THEOREM SuccessCorrect == Spec => []SuccessIsVerified
<1>1. IInv => SuccessIsVerified
  BY DEF IInv
<1> QED BY <1>1, Inductive, PTL

(***************************************************************************)
(* A served answer leads back, over its report, its claims and the query   *)
(* plan, to evidence of its own dataset (cache_verified_release on top of  *)
(* the foreign keys of the reference tables).                              *)
(***************************************************************************)
THEOREM ServedCorrect == Spec => []ServedIsGrounded
<1>1. IInv => ServedIsGrounded
  <2> SUFFICES ASSUME IInv, NEW row \in cache
               PROVE  LET ctx == row.answer.ctx IN
                      /\ ctx \in runs /\ row.report.ctx = ctx /\ row.plan.ctx = ctx
                      /\ row.report.passed
                      /\ Named(row.answer.bound) = row.report.releaseable
                      /\ \A c \in Named(row.answer.bound) :
                           /\ c \in ClaimsOf(ctx.run) \ row.report.rejected
                           /\ SubtaskOf[c] \in SubtasksOf(ctx.run)
                           /\ [version |-> ctx.version, id |-> SupportOf[c]] \in evidence
    BY DEF ServedIsGrounded
  <2> DEFINE ctx == row.answer.ctx
  <2>1. PICK run \in Runs : row \in Rows(run)
    BY DEF IInv, CacheGrounded
  <2>2. /\ row.report \in Stored({"verification_report"}, run)
        /\ row.plan \in Stored({"answer_plan"}, run)
        /\ row.answer \in Stored({"released_answer"}, run)
    BY <2>1 DEF Rows
  <2>3. \A K : \A p \in Stored(K, run) : p.ctx \in runs /\ p.ctx.run = run /\ ReferencesExist(p)
    BY DEF IInv, ArtifactsGrounded, Stored
  <2>4. ctx \in runs /\ ctx.run = run /\ row.report.ctx = ctx /\ row.plan.ctx = ctx
    BY <2>2, <2>3 DEF IInv, OneContextPerRun
  <2>5. row.report.kind = "verification_report" /\ row.report \in Reports /\ WellFormedReport(row.report)
    BY <2>2, StoredTypes DEF IInv
  <2>6. row.report.passed /\ row.answer.bound = Once(row.report.releaseable)
    BY DEF IInv, CacheGrounded, Releases
  <2>7. Named(row.answer.bound) = row.report.releaseable
    BY <2>5, <2>6 DEF Named, Once, Reports
  <2>8. ASSUME NEW c \in Named(row.answer.bound)
        PROVE  /\ c \in ClaimsOf(ctx.run) \ row.report.rejected
               /\ SubtaskOf[c] \in SubtasksOf(ctx.run)
               /\ [version |-> ctx.version, id |-> SupportOf[c]] \in evidence
    <3>1. c \in CitedClaims(row.report)
      BY <2>5, <2>7, <2>8 DEF CitedClaims
    <3>2. c \in ClaimsOf(ctx.run)
      BY <2>2, <2>3, <2>4, <3>1 DEF ReferencesExist
    <3>3. c \notin row.report.rejected
      BY <2>5, <2>7, <2>8 DEF WellFormedReport
    <3>4. [run |-> ctx.run, id |-> c] \in claims
      BY <3>2 DEF ClaimsOf
    <3>5. PICK d \in runs : /\ d.run = ctx.run
                           /\ SubtaskOf[c] \in SubtasksOf(d.run)
                           /\ [version |-> d.version, id |-> SupportOf[c]] \in evidence
      BY <3>4 DEF IInv, ClaimsGrounded
    <3>6. d = ctx
      BY <2>4, <3>5 DEF IInv, OneContextPerRun
    <3> QED BY <3>2, <3>3, <3>5, <3>6
  <2> QED BY <2>4, <2>6, <2>7, <2>8
<1> QED BY <1>1, Inductive, PTL

(***************************************************************************)
(* A call that took effect succeeds again, however much later it is made.  *)
(***************************************************************************)
THEOREM RetriesCorrect == Spec => []RetriesSucceed
<1>1. IInv => RetriesSucceed
  <2> SUFFICES ASSUME IInv PROVE RetriesSucceed
    OBVIOUS
  <2>1. \A ctx \in runs : StartReply(ctx) = "existing"
    BY DEF StartReply
  <2>2. \A o \in artifacts : AppendReply(o) = "existing"
    BY DEF AppendReply, Stored
  <2>3. \A run \in Runs : outcome[run] # None => FinishReply(run, outcome[run]) = "existing"
    BY DEF IInv, OutcomesGrounded, FinishReply
  <2>4. \A row \in cache : CacheReply(row) = "existing"
    BY DEF IInv, CacheGrounded, CacheReply, Served
  <2> QED BY <2>1, <2>2, <2>3, <2>4 DEF RetriesSucceed
<1> QED BY <1>1, Inductive, PTL
-----------------------------------------------------------------------------
(***************************************************************************)
(* The Claim Gate, the renderer and the release cache agree.               *)
(***************************************************************************)
\* A list that names each claim at most once is known by the claims it names.
LEMMA NamedOnce ==
  ASSUME NEW list \in ClaimLists, \A c \in Claims : list[c] <= 1
  PROVE  list = Once(Named(list))
<1>1. \A c \in Claims : list[c] \in Nat /\ list[c] <= 1
  BY DEF ClaimLists
<1>2. \A c \in Claims : list[c] = IF c \in Named(list) THEN 1 ELSE 0
  BY <1>1 DEF Named
<1> QED BY <1>2 DEF Once, ClaimLists

LEMMA OnceNames ==
  ASSUME NEW S \in SUBSET Claims
  PROVE  Named(Once(S)) = S /\ Once(S) \in ClaimLists /\ \A c \in Claims : Once(S)[c] <= 1
BY DEF Named, Once, ClaimLists

(***************************************************************************)
(* Every passing report has a plan ClaimGate.authorize accepts, and every  *)
(* plan it accepts is rendered to an answer cache_verified_release takes.  *)
(***************************************************************************)
THEOREM ReleasePathCorrect == Spec => []ReleasePathIsOpen
<1>1. IInv => ReleasePathIsOpen
  <2> SUFFICES ASSUME IInv, NEW run \in Runs,
                      NEW report \in Stored({"verification_report"}, run)
               PROVE  /\ report.passed => Authorized(DefaultPlan(report), report)
                      /\ \A plan \in Stored({"answer_plan"}, run) \cup {DefaultPlan(report)} :
                           Authorized(plan, report) =>
                             CacheReply([report |-> report, plan |-> plan,
                                         answer |-> Render(plan)]) # "refused"
    BY DEF ReleasePathIsOpen
  <2>1. report \in Reports /\ report.kind = "verification_report"
    BY StoredTypes DEF IInv
  <2>2. report.releaseable \in SUBSET Claims
    BY <2>1 DEF Reports
  <2>3. report.releaseable \subseteq ClaimsOf(report.ctx.run)
    BY <2>1 DEF IInv, ArtifactsGrounded, ReferencesExist, CitedClaims, Stored
  <2>4. report.passed => Authorized(DefaultPlan(report), report)
    BY <2>2, <2>3, OnceNames DEF Authorized, DefaultPlan
  <2>5. ASSUME NEW plan \in Stored({"answer_plan"}, run) \cup {DefaultPlan(report)},
               Authorized(plan, report)
        PROVE  CacheReply([report |-> report, plan |-> plan, answer |-> Render(plan)]) # "refused"
    <3> DEFINE row == [report |-> report, plan |-> plan, answer |-> Render(plan)]
    <3>1. plan.slots \in ClaimLists
      <4>1. CASE plan \in Stored({"answer_plan"}, run)
        BY <4>1, StoredTypes DEF IInv, AnswerPlans
      <4>2. CASE plan = DefaultPlan(report)
        BY <4>2, <2>2, OnceNames DEF DefaultPlan
      <4> QED BY <4>1, <4>2
    <3>2. plan.slots = Once(report.releaseable)
      BY <2>5, <3>1, NamedOnce DEF Authorized
    <3>3. Releases(row)
      BY <2>5, <3>2 DEF Releases, Authorized, Render
    <3> QED BY <3>3 DEF CacheReply
  <2> QED BY <2>4, <2>5
<1> QED BY <1>1, Inductive, PTL
=============================================================================
