--------------------------- MODULE EmbeddingBuild ---------------------------
(***************************************************************************)
(* The document embedding build: commands canary, sample and full of       *)
(* EmbeddingBuildService, run by operators as processes of their own       *)
(* against one database and one provider account.                          *)
(*                                                                         *)
(* A builder counts the chunks that are to be embedded, reads those that   *)
(* have no embedding yet, asks the provider for one vector after another   *)
(* and inserts a batch in one transaction.  Between the read and the       *)
(* insert lie minutes: another builder may insert the same chunks, the     *)
(* corpus may grow, the dataset may be finished, the provider may refuse.  *)
(*                                                                         *)
(* Chunks are numbers in the order of (document_id, chunk_id).  A chunk    *)
(* has one embedding_id for the one approved model, so that the table      *)
(* search.document_embedding is a set of chunks.  The lengths of pauses    *)
(* and the numbers of tokens are left out.                                 *)
(***************************************************************************)
EXTENDS Naturals, FiniteSets

CONSTANTS
  Builders,     \* processes that run a command
  Commands,     \* the commands each is used for
  N,            \* chunks the corpus will have
  InitialCorpus, \* chunks it has to begin with
  BatchSize,    \* --batch-size
  SampleLimit,  \* --limit of the sample command
  Strategy,     \* chunks of the sample product, by the section they are from
  Risk,
  Expectations, \* what operators pass as --expected-chunks
  MaxAttempts,  \* max_attempts of NcpEmbeddingClient
  Quota,        \* requests the provider answers in one window
  MaxTroubles   \* bound on the failures the environment causes

ASSUME BuildAssumption ==
  /\ N \in Nat \ {0} /\ BatchSize \in Nat \ {0} /\ SampleLimit \in Nat \ {0}
  /\ InitialCorpus \subseteq 1..N
  /\ Strategy \subseteq 1..N /\ Risk \subseteq 1..N
  /\ Expectations \subseteq Nat
  /\ Commands \in [Builders -> SUBSET {"canary", "sample", "full"}]
  /\ MaxAttempts \in Nat \ {0} /\ Quota \in Nat /\ MaxTroubles \in Nat

Chunks == 1..N

VARIABLES
  building,    \* the dataset's status is "building"
  eligible,    \* chunks that meet the other conditions of eligible_statement
  embedded,    \* chunks with a committed embedding
  registered,  \* the approved model is in search.embedding_model
  job,         \* per builder, the command it runs and how the last one ended
  quota,       \* requests left in the provider's window
  troubles     \* failures so far

vars == <<building, eligible, embedded, registered, job, quota, troubles>>
world == <<building, eligible, embedded, registered>>

Modes == {"canary", "sample", "full"}
Steps == {"idle", "status", "eligible", "existing", "missing", "sections", "register",
          "embed", "insert", "pause", "report", "count", "exact", "absent", "orphans"}
\* "stopped" stands for every other way out, and for no command so far.
Outcomes == {"stopped", "ok", "preflight_projection_invalid",
             "canary_readback_failed", "build_made_no_progress",
             "reconciliation_failed", "database"}

Idle == [at |-> "idle", mode |-> "full", expected |-> 0, batch |-> {}, todo |-> {},
         held |-> {}, attempt |-> 1, skipped |-> 0, inserted |-> 0, byOthers |-> 0,
         outcome |-> "stopped"]

Jobs == [at : Steps, mode : Modes, expected : Nat,
         batch : SUBSET Chunks, \* chunks read as missing
         todo : SUBSET Chunks,  \* those of them the current step has not reached
         held : SUBSET Chunks,  \* rows inserted by the open transaction
         attempt : 1..MaxAttempts, skipped : Nat, inserted : Nat,
         byOthers : Nat,     \* embeddings others committed after it counted the
                             \* existing ones and before it counted the exact ones
         outcome : Outcomes] \* how the last command ended

TypeOK ==
  /\ building \in BOOLEAN
  /\ eligible \subseteq Chunks
  /\ embedded \subseteq eligible
  /\ registered \in BOOLEAN
  /\ embedded # {} => registered
  /\ job \in [Builders -> Jobs]
  /\ quota \in 0..Quota
  /\ troubles \in 0..MaxTroubles

Init ==
  /\ building = TRUE
  /\ eligible = InitialCorpus
  /\ embedded = {}
  /\ registered = FALSE
  /\ job = [b \in Builders |-> Idle]
  /\ quota = Quota
  /\ troubles = 0
-----------------------------------------------------------------------------
\* eligible_statement selects chunks of a dataset that is being built only.
Corpus == IF building THEN eligible ELSE {}
Missing == Corpus \ embedded
Orphans == embedded \ Corpus

\* The first n chunks of a set, and the first one, in the order of the query.
Lowest(S, n) == {c \in S : Cardinality({d \in S : d <= c}) <= n}
First(S) == CHOOSE c \in S : \A d \in S : c <= d

At(b, step) == job[b].at = step
Goto(b, step) == job' = [job EXCEPT ![b].at = step]

\* The command returns its report, or raises.
End(b, outcome) == job' = [job EXCEPT ![b] = [Idle EXCEPT !.outcome = outcome]]

Start(b, mode, expected) ==
  /\ At(b, "idle")
  /\ job' = [job EXCEPT ![b] = [Idle EXCEPT !.at = "status", !.mode = mode,
                                            !.expected = expected]]
  /\ UNCHANGED <<world, quota, troubles>>
-----------------------------------------------------------------------------
(* _checked_preflight: statements of one connection, each with a snapshot  *)
(* of its own.  The count of existing embeddings and those of stale and    *)
(* orphaned ones are one step: whatever falls between them fails the build *)
(* as it would have before the first.                                      *)

ReadStatus(b) ==
  /\ At(b, "status")
  /\ IF building THEN Goto(b, "eligible") ELSE End(b, "stopped")
  /\ UNCHANGED <<world, quota, troubles>>

CountEligible(b) ==
  /\ At(b, "eligible")
  /\ IF Cardinality(Corpus) = job[b].expected THEN Goto(b, "existing")
     ELSE End(b, "stopped")
  /\ UNCHANGED <<world, quota, troubles>>

CountExisting(b) ==
  /\ At(b, "existing")
  /\ IF Orphans = {}
     THEN job' = [job EXCEPT
            ![b].at = IF job[b].mode = "sample" THEN "missing" ELSE "register",
            ![b].skipped = Cardinality(Corpus \cap embedded),
            ![b].byOthers = 0]
     ELSE End(b, "preflight_projection_invalid")
  /\ UNCHANGED <<world, quota, troubles>>

\* A row that is there already is compared with the approved contract, which
\* every builder carries alike.  A sample registers after its query.
Register(b) ==
  /\ At(b, "register")
  /\ registered' = TRUE
  /\ Goto(b, CASE job[b].mode # "sample" -> "missing"
              [] job[b].batch # {} -> "embed"
              [] OTHER -> "insert")
  /\ UNCHANGED <<building, eligible, embedded, quota, troubles>>

Take(b, chunks, step) ==
  job' = [job EXCEPT ![b].at = step, ![b].batch = chunks, ![b].todo = chunks,
                     ![b].attempt = 1]
-----------------------------------------------------------------------------
(* What is missing is read anew for each batch.                            *)

ReadCanary(b) ==
  /\ At(b, "missing") /\ job[b].mode = "canary"
  /\ IF Missing = {} THEN End(b, "stopped")
     ELSE Take(b, Lowest(Missing, 1), "embed")
  /\ UNCHANGED <<world, quota, troubles>>

SampleProduct == Corpus \cap (Strategy \cup Risk)

\* A product that is not there ends the command before, and in the same way.
ReadSample(b) ==
  /\ At(b, "missing") /\ job[b].mode = "sample"
  /\ IF SampleProduct = {} THEN End(b, "stopped")
     ELSE Take(b, Lowest(SampleProduct \ embedded, SampleLimit), "sections")
  /\ UNCHANGED <<world, quota, troubles>>

\* A section counts if the batch or the embeddings there are by now cover it.
ReadSections(b) ==
  LET covered == job[b].batch \cup (SampleProduct \cap embedded)
  IN /\ At(b, "sections")
     /\ IF covered \cap Strategy = {} \/ covered \cap Risk = {}
        THEN End(b, "stopped") ELSE Goto(b, "register")
     /\ UNCHANGED <<world, quota, troubles>>

\* Fault: the query has lost its NOT EXISTS.
ReadBatchAgain(b) ==
  /\ At(b, "missing") /\ job[b].mode = "full"
  /\ IF Missing = {} THEN Goto(b, "count")
     ELSE Take(b, Lowest(Corpus, BatchSize), "embed")
  /\ UNCHANGED <<world, quota, troubles>>

\* Fault: a batch that is not full is taken for the end.
ReadBatchOfFullSize(b) ==
  /\ At(b, "missing") /\ job[b].mode = "full"
  /\ IF Cardinality(Missing) < BatchSize THEN Goto(b, "count")
     ELSE Take(b, Lowest(Missing, BatchSize), "embed")
  /\ UNCHANGED <<world, quota, troubles>>

ReadBatch(b) ==
  /\ At(b, "missing") /\ job[b].mode = "full"
  /\ IF Missing = {} THEN Goto(b, "count")
     ELSE Take(b, Lowest(Missing, BatchSize), "embed")
  /\ UNCHANGED <<world, quota, troubles>>
-----------------------------------------------------------------------------
(* One vector after another; vectors are kept in memory until all are      *)
(* there.                                                                  *)

Answered(b) ==
  /\ At(b, "embed")
  /\ quota > 0
  /\ quota' = quota - 1
  /\ LET rest == job[b].todo \ {First(job[b].todo)}
     IN job' = [job EXCEPT ![b].at = IF rest = {} THEN "insert" ELSE "embed",
                           ![b].todo = IF rest = {} THEN job[b].batch ELSE rest,
                           ![b].attempt = 1]
  /\ UNCHANGED <<world, troubles>>

\* 429, 5xx or no answer.  Only the full build outlives the last attempt: it
\* drops the vectors of the batch and pauses.
Refused(b) ==
  /\ At(b, "embed")
  /\ \/ quota = 0 /\ UNCHANGED troubles
     \/ troubles < MaxTroubles /\ troubles' = troubles + 1
  /\ IF job[b].attempt < MaxAttempts
     THEN job' = [job EXCEPT ![b].attempt = @ + 1]
     ELSE IF job[b].mode = "full" THEN Take(b, {}, "pause")
     ELSE End(b, "stopped")
  /\ UNCHANGED <<world, quota>>

RefusedForGood(b) ==
  /\ At(b, "embed")
  /\ troubles < MaxTroubles /\ troubles' = troubles + 1
  /\ End(b, "stopped")
  /\ UNCHANGED <<world, quota>>

Resume(b) ==
  /\ At(b, "pause")
  /\ Goto(b, "missing")
  /\ UNCHANGED <<world, quota, troubles>>
-----------------------------------------------------------------------------
(* append_embeddings: one INSERT ... ON CONFLICT DO NOTHING of the batch.  *)
(* The trigger of each row locks the dataset and wants it to be building;  *)
(* the row then waits for a transaction that has inserted it but is open.  *)

HeldByOther(b, c) == \E r \in Builders \ {b} : c \in job[r].held
LocksDataset(b) == At(b, "insert") /\ job[b].todo # job[b].batch

\* Fault: the rows are inserted in no particular order.
InsertRowAnyOrder(b) ==
  /\ At(b, "insert") /\ job[b].todo # {}
  /\ \E c \in job[b].todo :
       IF ~building THEN End(b, "database")
       ELSE /\ ~HeldByOther(b, c)
            /\ job' = [job EXCEPT ![b].todo = @ \ {c},
                                  ![b].held = @ \cup ({c} \ embedded)]
  /\ UNCHANGED <<world, quota, troubles>>

InsertRow(b) ==
  LET c == First(job[b].todo)
  IN /\ At(b, "insert") /\ job[b].todo # {}
     /\ IF ~building THEN End(b, "database")
        ELSE /\ ~HeldByOther(b, c)
             /\ job' = [job EXCEPT ![b].todo = @ \ {c},
                                   ![b].held = @ \cup ({c} \ embedded)]
     /\ UNCHANGED <<world, quota, troubles>>

Running(b) == ~At(b, "idle")

\* The exact embeddings have been counted for the report.
Counted(b) == job[b].at \in {"absent", "orphans"}

\* The builder's own job after its commit, and everyone's.
Committed(b, inserted) ==
  [job[b] EXCEPT !.at = IF job[b].mode = "full" THEN "missing" ELSE "report",
                 !.batch = {}, !.held = {}, !.inserted = @ + inserted]
AfterCommit(b, own) ==
  [r \in Builders |->
     IF r = b THEN own
     ELSE [job[r] EXCEPT !.byOthers = IF Running(r) /\ ~Counted(r)
                                     THEN @ + Cardinality(job[b].held) ELSE @]]

\* Fault: the report counts the rows of the batch, not those inserted.
CommitRequested(b) ==
  /\ At(b, "insert") /\ job[b].todo = {}
  /\ embedded' = embedded \cup job[b].held
  /\ IF job[b].mode = "full" /\ job[b].held = {}
     THEN End(b, "build_made_no_progress")
     ELSE job' = AfterCommit(b, Committed(b, Cardinality(job[b].batch)))
  /\ UNCHANGED <<building, eligible, registered, quota, troubles>>

Commit(b) ==
  /\ At(b, "insert") /\ job[b].todo = {}
  /\ embedded' = embedded \cup job[b].held
  /\ IF job[b].mode = "full" /\ job[b].held = {}
     THEN End(b, "build_made_no_progress")
     ELSE job' = AfterCommit(b, Committed(b, Cardinality(job[b].held)))
  /\ UNCHANGED <<building, eligible, registered, quota, troubles>>
-----------------------------------------------------------------------------
(* The report.  Canary and sample put the counts of reconcile into it      *)
(* without looking at them; a full build compares them.  Each count is a   *)
(* statement with a snapshot of its own: chunks and embeddings may be      *)
(* added between two of them.  A count that will fail the build ends it    *)
(* here, because the statements after it change nothing; and those that    *)
(* are zero whatever happens are left out, for the table admits neither    *)
(* two embeddings of a chunk nor one of another content or dimension.      *)

Report(b) ==
  /\ At(b, "report")
  /\ IF job[b].mode = "canary" /\ job[b].inserted # 1
     THEN End(b, "canary_readback_failed") ELSE End(b, "ok")
  /\ UNCHANGED <<world, quota, troubles>>

ReconcileEligible(b) ==
  /\ At(b, "count")
  /\ IF Cardinality(Corpus) = job[b].expected THEN Goto(b, "exact")
     ELSE End(b, "reconciliation_failed")
  /\ UNCHANGED <<world, quota, troubles>>

ReconcileExact(b) ==
  /\ At(b, "exact")
  /\ IF Cardinality(Corpus \cap embedded) = job[b].expected THEN Goto(b, "absent")
     ELSE End(b, "reconciliation_failed")
  /\ UNCHANGED <<world, quota, troubles>>

ReconcileMissing(b) ==
  /\ At(b, "absent")
  /\ IF Missing = {} THEN Goto(b, "orphans") ELSE End(b, "reconciliation_failed")
  /\ UNCHANGED <<world, quota, troubles>>

ReconcileOrphans(b) ==
  /\ At(b, "orphans")
  /\ IF Orphans = {} THEN End(b, "ok") ELSE End(b, "reconciliation_failed")
  /\ UNCHANGED <<world, quota, troubles>>
-----------------------------------------------------------------------------
(* What goes on around the builders.                                       *)

\* The process is killed, the database fails, or an exception nobody catches
\* ends the command: a response that breaks off or times out while its body is
\* read is one, because only opening the connection is guarded.
Die(b) ==
  /\ Running(b)
  /\ troubles < MaxTroubles /\ troubles' = troubles + 1
  /\ End(b, "stopped")
  /\ UNCHANGED <<world, quota>>

WindowResets ==
  /\ quota < Quota
  /\ quota' = Quota
  /\ UNCHANGED <<world, job, troubles>>

\* A document's source is discarded: its chunks become eligible.
CorpusGrows(c) ==
  /\ building /\ c \in Chunks \ eligible
  /\ eligible' = eligible \cup {c}
  /\ UNCHANGED <<building, embedded, registered, job, quota, troubles>>

\* finish_dataset_validation locks the dataset's row for itself.
FinishDataset ==
  /\ building
  /\ \A b \in Builders : ~LocksDataset(b)
  /\ building' = FALSE
  /\ UNCHANGED <<eligible, embedded, registered, job, quota, troubles>>

Step(b) ==
  \/ ReadStatus(b) \/ CountEligible(b) \/ CountExisting(b) \/ Register(b)
  \/ ReadCanary(b) \/ ReadSample(b) \/ ReadSections(b) \/ ReadBatch(b)
  \/ Answered(b) \/ Refused(b) \/ RefusedForGood(b) \/ Resume(b)
  \/ InsertRow(b) \/ Commit(b)
  \/ Report(b) \/ ReconcileEligible(b) \/ ReconcileExact(b)
  \/ ReconcileMissing(b) \/ ReconcileOrphans(b)

Next ==
  \/ \E b \in Builders : Step(b) \/ Die(b)
  \/ \E b \in Builders : \E mode \in Commands[b], expected \in Expectations :
       Start(b, mode, expected)
  \/ WindowResets
  \/ \E c \in Chunks : CorpusGrows(c)
  \/ FinishDataset

Spec == Init /\ [][Next]_vars

\* An operator who knows the size of the corpus.
StartFull(b) ==
  /\ "full" \in Commands[b] /\ Cardinality(eligible) \in Expectations
  /\ Start(b, "full", Cardinality(eligible))

\* A process goes on, a window ends, and some operator repeats the full build.
Fairness ==
  /\ \A b \in Builders : WF_vars(Step(b))
  /\ SF_vars(\E b \in Builders : StartFull(b))
  /\ WF_vars(WindowResets)

FairSpec == Spec /\ Fairness
-----------------------------------------------------------------------------
Awaited(b) == First(job[b].todo)
Waits(b) == At(b, "insert") /\ job[b].todo # {} /\ HeldByOther(b, Awaited(b))

\* A builder that waits for a row of another that waits itself awaits a lower
\* row: however many builders insert overlapping batches, their transactions
\* cannot wait in a circle.  It is the order of the query that sees to it.
NoLockCycle ==
  \A b, r \in Builders :
    Waits(b) /\ Waits(r) /\ Awaited(b) \in job[r].held => Awaited(b) < Awaited(r)

Ends(b, outcome) == Running(b) /\ job'[b].at = "idle" /\ job'[b].outcome = outcome

\* A build blames nothing that did not happen: no progress, or no canary read
\* back, only if another builder inserted meanwhile; orphans only if the dataset
\* was finished; a failed reconciliation only if it was finished or the corpus
\* has grown.  A single builder of a corpus at rest never ends like this.
FailuresAreCaused ==
  [][\A b \in Builders :
       /\ Ends(b, "build_made_no_progress") => job[b].byOthers > 0
       /\ Ends(b, "canary_readback_failed") => job[b].byOthers > 0
       /\ Ends(b, "preflight_projection_invalid") => ~building
       /\ Ends(b, "database") => ~building
       /\ Ends(b, "reconciliation_failed") =>
            ~building \/ job[b].expected < Cardinality(eligible)]_vars

\* The report of a full build adds up, although each of its counts is of another
\* moment: the rows it found, those it says it inserted and those others inserted
\* until it counted them are all the chunks it was to embed.  What is embedded
\* by the time the report is out can be more, with chunks added meanwhile.
ReportsAddUp ==
  [][\A b \in Builders : job[b].mode = "full" /\ Ends(b, "ok") =>
       /\ job[b].expected <= Cardinality(embedded)
       /\ job[b].skipped + job[b].inserted + job[b].byOthers = job[b].expected]_vars

\* Batches are dropped with the vectors they have, by every builder in every
\* window: one is completed only if the window holds more requests than all
\* builders together can have answered short of a batch.
QuotaSuffices ==
  \A size \in {BatchSize, SampleLimit} : Quota > Cardinality(Builders) * (size - 1)

\* A corpus that is complete gets embedded, whatever builders do to each other
\* and however often they fail, unless the dataset is finished before, or the
\* provider's window is too small for the builders.
CorpusGetsEmbedded ==
  QuotaSuffices => (eligible = Chunks ~> embedded = Chunks \/ ~building)
=============================================================================
