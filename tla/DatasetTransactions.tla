------------------------- MODULE DatasetTransactions ------------------------
(***************************************************************************)
(* The functions and triggers of the schema operations, statement by       *)
(* statement: sessions run them concurrently under READ COMMITTED, taking  *)
(* row locks (FOR SHARE, FOR UPDATE, the lock of an UPDATE or of a unique  *)
(* key being inserted) and transaction-scoped advisory locks, and may be   *)
(* cut off before they commit.                                             *)
(*                                                                         *)
(* A statement sees what others have committed.  A transaction here runs   *)
(* one call, and no call depends on reading back what it wrote: writes     *)
(* appear when the transaction commits, which is also when its locks go.   *)
(*                                                                         *)
(* The metric definitions have no dataset version: write_rows of different *)
(* datasets, which nothing else keeps apart, meet in that table, row by    *)
(* row.  Every other table it writes has the dataset in its key.           *)
(***************************************************************************)
EXTENDS DatasetLifecycle, Sequences, Naturals

CONSTANTS
  Sessions,
  Metrics,       \* keys (metric_id, definition_version)
  Payloads,      \* the other columns of a metric definition
  Batches        \* the definitions a call of write_rows may bring, in order

MetricDefinitions == [metric : Metrics, payload : Payloads]

\* _prepare_records refuses two payloads of a key and keeps one of each.
ASSUME BatchAssumption ==
  \A b \in Batches :
    /\ b \in Seq(MetricDefinitions)
    /\ \A i, j \in DOMAIN b : b[i].metric = b[j].metric => i = j

VARIABLES
  definitions,   \* the table metric_definition
  inserted,      \* how many definitions of its batch a session has inserted
  call,          \* the call a session is executing, or NoCall
  pc,            \* the statement it stands before
  pointer,       \* its copy of active_dataset, read under the row's lock
  held           \* the locks it holds: pairs of what is locked and the mode

sessionVars == <<call, pc, pointer, held, inserted>>
allVars == <<vars, definitions, sessionVars>>

NoCall == [op |-> "none"]
Calls ==
  [op : {"create", "activate"}, dataset : Datasets]
    \cup [op : {"write"}, dataset : Datasets, fact : Facts, batch : Batches]
    \cup [op : {"validate"}, row : ValidationRows]
    \cup [op : {"finish"}, id : Validations]
    \cup [op : {"ready"}, row : ReadinessRows]
    \cup [op : {"start"}, row : RequestRows]

\* What can be locked.  The key of a row being inserted is not the row: an
\* insert waits for another insert of its key, not for a lock on the row.
DatasetRow(d)    == <<"dataset", d>>
ValidationRow(v) == <<"validation", v>>
ReadinessKey(r)  == <<"readiness key", r.dataset, r.component>>
ValidationKey(v) == <<"validation key", v>>
MetricKey(m)     == <<"metric key", m>>
Singleton        == <<"active_dataset">>

Known(id) == \E v \in validations : v.id = id
ValidationOf(id) == CHOOSE v \in validations : v.id = id
Stored(m) == \E e \in definitions : e.metric = m

\* record_dataset_readiness locks a validation run before its dataset.
\* Fault: the other way round, against finish_dataset_validation.
LockedForReadinessSwapped(row) ==
  <<DatasetRow(row.dataset), ValidationRow(row.validation)>>
LockedForReadiness(row) ==
  <<ValidationRow(row.validation), DatasetRow(row.dataset)>>

\* What the statement at a session's pc locks, and in which mode.
NextLock(s) ==
  LET c == call[s] IN
  CASE pc[s] \in {"create key", "write key"} -> <<<<"build key", c.dataset>>, "update">>
    [] pc[s] = "write row"           -> <<DatasetRow(c.dataset), "share">>
    [] pc[s] = "write definition"    -> <<MetricKey(c.batch[inserted[s] + 1].metric), "update">>
    [] pc[s] = "validate trigger"    -> <<DatasetRow(c.row.dataset), "share">>
    [] pc[s] = "validate insert"     -> <<ValidationKey(c.row.id), "update">>
    [] pc[s] = "finish validation"   -> <<ValidationRow(c.id), "update">>
    [] pc[s] = "finish dataset"      -> <<DatasetRow(ValidationOf(c.id).dataset), "update">>
    [] pc[s] = "ready validation"    -> <<LockedForReadiness(c.row)[1], "share">>
    [] pc[s] = "ready dataset"       -> <<LockedForReadiness(c.row)[2], "share">>
    [] pc[s] = "ready insert"        -> <<ReadinessKey(c.row), "update">>
    [] pc[s] = "activate key"        -> <<<<"activation key">>, "update">>
    [] pc[s] = "activate singleton"  -> <<Singleton, "update">>
    [] pc[s] = "activate dataset"    -> <<DatasetRow(c.dataset), "update">>
    [] pc[s] = "activate retire"     -> <<DatasetRow(pointer[s]), "update">>
    [] pc[s] = "start key"           -> <<<<"run key", c.row.id>>, "update">>
    [] pc[s] = "start singleton"     -> <<Singleton, "share">>
    [] pc[s] = "start dataset"       -> <<DatasetRow(c.row.dataset), "share">>

Waitable == {"create key", "write key", "write row", "write definition",
  "validate trigger", "validate insert", "finish validation", "finish dataset",
  "ready validation", "ready dataset", "ready insert", "activate key",
  "activate singleton", "activate dataset", "activate retire", "start key",
  "start singleton", "start dataset"}

Conflicts(l, m) == l[1] = m[1] /\ "update" \in {l[2], m[2]}

\* t holds what s is about to lock.
Blocks(t, s) ==
  /\ t # s
  /\ pc[s] \in Waitable
  /\ \E l \in held[t] : Conflicts(l, NextLock(s))

InitSessions ==
  /\ call = [s \in Sessions |-> NoCall]
  /\ pc = [s \in Sessions |-> "idle"]
  /\ pointer = [s \in Sessions |-> NoDataset]
  /\ held = [s \in Sessions |-> {}]
  /\ inserted = [s \in Sessions |-> 0]

FirstStatement ==
  [create |-> "create key", write |-> "write key", validate |-> "validate trigger",
   finish |-> "finish validation", ready |-> "ready validation",
   activate |-> "activate key", start |-> "start key"]

Begin(s, c) ==
  /\ pc[s] = "idle"
  /\ call' = [call EXCEPT ![s] = c]
  /\ pc' = [pc EXCEPT ![s] = FirstStatement[c.op]]
  /\ UNCHANGED <<vars, definitions, pointer, held, inserted>>

\* The transaction ends, one way or the other.
End(s) ==
  /\ call' = [call EXCEPT ![s] = NoCall]
  /\ pc' = [pc EXCEPT ![s] = "idle"]
  /\ pointer' = [pointer EXCEPT ![s] = NoDataset]
  /\ held' = [held EXCEPT ![s] = {}]
  /\ inserted' = [inserted EXCEPT ![s] = 0]

\* A lost connection, an expired timeout or the deadlock detector rolls the
\* transaction back.
Abort(s) == pc[s] # "idle" /\ End(s) /\ UNCHANGED <<vars, definitions>>

\* The statement at `here' waits for its lock, then passes or raises; `seen'
\* is what the local copy of active_dataset is afterwards.
Statement(s, here, check, seen, next) ==
  /\ pc[s] = here
  /\ \A t \in Sessions : ~Blocks(t, s)
  /\ \/ /\ check
        /\ held' = [held EXCEPT ![s] = @ \cup {NextLock(s)}]
        /\ pointer' = [pointer EXCEPT ![s] = seen]
        /\ pc' = [pc EXCEPT ![s] = next]
        /\ UNCHANGED <<call, inserted>>
     \/ ~check /\ End(s)
  /\ UNCHANGED <<vars, definitions>>

Check(s, here, check, next) == Statement(s, here, check, pointer[s], next)

\* A session that has run its last statement, of a call `op', commits.
Commits(s, op) == pc[s] = "commit" /\ call[s].op = op /\ End(s)
-----------------------------------------------------------------------------
\* create_building_dataset and write_rows of the dataset writer.
CreateKey(s) ==
  Check(s, "create key", status[call[s].dataset] \in {"absent", "building"}, "commit")

\* ON CONFLICT DO NOTHING: a dataset that exists is left as it is.
CommitCreate(s) ==
  /\ Commits(s, "create")
  /\ status' = [status EXCEPT ![call[s].dataset] = IF @ = "absent" THEN "building" ELSE @]
  /\ UNCHANGED <<content, validations, readiness, active, requests, definitions>>

WriteKey(s) ==
  Check(s, "write key", status[call[s].dataset] = "building", "write row")

\* The trigger of the tables locks the dataset and looks at the status again.
\* Every mapped row with a metric definition has rows of the tables before
\* it, so this lock comes first; the rows of the tables after it find it held.
AfterTrigger(s) == IF call[s].batch = <<>> THEN "commit" ELSE "write definition"

\* Fault: it reads the status without FOR SHARE.
WriteTriggerUnlocked(s) ==
  /\ pc[s] = "write row"
  /\ status[call[s].dataset] = "building"
  /\ pc' = [pc EXCEPT ![s] = AfterTrigger(s)]
  /\ UNCHANGED <<vars, definitions, call, pointer, held, inserted>>
WriteTrigger(s) ==
  Check(s, "write row", status[call[s].dataset] = "building", AfterTrigger(s))

\* INSERT ... ON CONFLICT DO NOTHING takes the definitions in the order of the
\* batch: it waits for another insert of the key, and then holds the key if
\* the row is its own, nothing if the row is there already.
WriteDefinition(s) ==
  LET next == inserted[s] + 1 IN
  /\ pc[s] = "write definition"
  /\ \A t \in Sessions : ~Blocks(t, s)
  /\ held' = [held EXCEPT ![s] =
                IF Stored(call[s].batch[next].metric) THEN @ ELSE @ \cup {NextLock(s)}]
  /\ inserted' = [inserted EXCEPT ![s] = next]
  /\ pc' = [pc EXCEPT ![s] =
               IF next = Len(call[s].batch) THEN "compare definitions" ELSE @]
  /\ UNCHANGED <<vars, definitions, call, pointer>>

\* The stored rows must be those of the batch (which fits one chunk of
\* _SQL_CHUNK_SIZE; a longer one is inserted and compared chunk by chunk).
Agree(batch) ==
  \A i \in DOMAIN batch, e \in definitions :
    e.metric = batch[i].metric => e = batch[i]

\* Fault: a definition that is stored is taken to be the right one.
CompareNothing(s) ==
  /\ pc[s] = "compare definitions"
  /\ pc' = [pc EXCEPT ![s] = "commit"]
  /\ UNCHANGED <<vars, definitions, call, pointer, held, inserted>>
CompareDefinitions(s) ==
  /\ pc[s] = "compare definitions"
  /\ \/ /\ Agree(call[s].batch)
        /\ pc' = [pc EXCEPT ![s] = "commit"]
        /\ UNCHANGED <<call, pointer, held, inserted>>
     \/ ~Agree(call[s].batch) /\ End(s)
  /\ UNCHANGED <<vars, definitions>>

CommitWrite(s) ==
  LET c == call[s] IN
  /\ Commits(s, "write")
  /\ content' = [content EXCEPT ![c.dataset] = @ \cup {c.fact}]
  /\ definitions' = definitions \cup
       {c.batch[i] : i \in {k \in DOMAIN c.batch : ~Stored(c.batch[k].metric)}}
  /\ UNCHANGED <<status, validations, readiness, active, requests>>
-----------------------------------------------------------------------------
\* INSERT INTO dataset_validation_run, with the same trigger.
ValidateTrigger(s) ==
  Check(s, "validate trigger", status[call[s].row.dataset] = "building", "validate insert")

ValidateInsert(s) ==
  Check(s, "validate insert", ~Known(call[s].row.id), "commit")

CommitValidate(s) ==
  /\ Commits(s, "validate")
  /\ validations' = validations \cup {call[s].row}
  /\ UNCHANGED <<status, content, readiness, active, requests, definitions>>

\* finish_dataset_validation
FinishRun(s) ==
  Check(s, "finish validation", Known(call[s].id), "finish dataset")

FinishDataset(s) ==
  Check(s, "finish dataset",
        status[ValidationOf(call[s].id).dataset] = "building", "commit")

CommitFinish(s) ==
  LET v == ValidationOf(call[s].id) IN
  /\ Commits(s, "finish")
  /\ status' = [status EXCEPT ![v.dataset] =
                  IF v.verdict = "pass" THEN "validated" ELSE "failed"]
  /\ UNCHANGED <<content, validations, readiness, active, requests, definitions>>
-----------------------------------------------------------------------------
\* record_dataset_readiness
ReadyValidation(s) ==
  LET row == call[s].row IN
  Check(s, "ready validation", Passed(row.validation, row.dataset), "ready dataset")

ReadyDataset(s) ==
  Check(s, "ready dataset",
        status[call[s].row.dataset] \in {"building", "validated"}, "ready insert")

ReadyInsert(s) ==
  LET row == call[s].row IN
  Check(s, "ready insert",
        \A other \in readiness : ReadinessKey(other) # ReadinessKey(row), "commit")

CommitReady(s) ==
  /\ Commits(s, "ready")
  /\ readiness' = readiness \cup {call[s].row}
  /\ UNCHANGED <<status, content, validations, active, requests, definitions>>
-----------------------------------------------------------------------------
\* activate_dataset
ActivateKey(s) == Check(s, "activate key", TRUE, "activate singleton")

ActivateSingleton(s) ==
  Statement(s, "activate singleton", TRUE, active, "activate dataset")

\* The target's checks, the count of its readiness rows included.
Activatable(d) ==
  /\ d \in Current
  /\ status[d] = "validated"
  /\ Cardinality({row \in readiness : row.dataset = d}) = Cardinality(Components)

ActivateDataset(s) ==
  LET d == call[s].dataset IN
  Check(s, "activate dataset", Activatable(d),
        IF pointer[s] \in {NoDataset, d} THEN "commit" ELSE "activate retire")

\* The UPDATE that retires the prior dataset locks its row.
ActivateRetire(s) == Check(s, "activate retire", TRUE, "commit")

\* An UPDATE of no row raises DATASET_ACTIVATION_CONFLICT.
CommitActivate(s) ==
  LET d == call[s].dataset IN
  /\ Commits(s, "activate")
  /\ \/ /\ status[d] = "validated"
        /\ status' = [e \in Datasets |->
                        IF e = d THEN "active"
                        ELSE IF e = pointer[s] /\ status[e] = "active" THEN "retired"
                        ELSE status[e]]
        /\ active' = d
     \/ status[d] # "validated" /\ UNCHANGED <<status, active>>
  /\ UNCHANGED <<content, validations, readiness, requests, definitions>>
-----------------------------------------------------------------------------
\* start_request_run: the same request again returns the stored row, another
\* one under its id raises; neither reads the datasets.
StartKey(s) ==
  LET row == call[s].row IN
  Check(s, "start key", \A q \in requests : q.id # row.id, "start singleton")

StartSingleton(s) ==
  Statement(s, "start singleton", TRUE, active, "start dataset")

StartDataset(s) ==
  LET d == call[s].row.dataset IN
  Check(s, "start dataset", pointer[s] = d /\ status[d] = "active", "commit")

CommitStart(s) ==
  /\ Commits(s, "start")
  /\ requests' = requests \cup {call[s].row}
  /\ UNCHANGED <<status, content, validations, readiness, active, definitions>>
-----------------------------------------------------------------------------
TransactionsInit == Init /\ definitions = {} /\ InitSessions

Building(s) ==
  \/ CreateKey(s) \/ CommitCreate(s)
  \/ WriteKey(s) \/ WriteTrigger(s) \/ WriteDefinition(s)
  \/ CompareDefinitions(s) \/ CommitWrite(s)
Validating(s) ==
  \/ ValidateTrigger(s) \/ ValidateInsert(s) \/ CommitValidate(s)
  \/ FinishRun(s) \/ FinishDataset(s) \/ CommitFinish(s)
  \/ ReadyValidation(s) \/ ReadyDataset(s) \/ ReadyInsert(s) \/ CommitReady(s)
Activating(s) ==
  \/ ActivateKey(s) \/ ActivateSingleton(s) \/ ActivateDataset(s)
  \/ ActivateRetire(s) \/ CommitActivate(s)
Starting(s) ==
  StartKey(s) \/ StartSingleton(s) \/ StartDataset(s) \/ CommitStart(s)

TransactionsNext == \E s \in Sessions :
  \/ \E c \in Calls : Begin(s, c)
  \/ Abort(s)
  \/ Building(s) \/ Validating(s) \/ Activating(s) \/ Starting(s)

TransactionsSpec == TransactionsInit /\ [][TransactionsNext]_allVars
-----------------------------------------------------------------------------
\* Each waits for another of them: nobody but the deadlock detector helps.
Stuck(W) == W # {} /\ \A s \in W : \E t \in W : Blocks(t, s)

NoLockCycle == \A W \in SUBSET Sessions : ~Stuck(W)

(***************************************************************************)
(* The functions of the schema operations lock in one order (the pointer   *)
(* before the datasets, a validation run before its dataset), so that they *)
(* never make transactions wait in a circle.  The one circle there can be  *)
(* is of calls of write_rows, for different datasets, that insert metric   *)
(* definitions none of them has committed yet in different orders          *)
(* (_write_exact_records): whoever is stuck is stuck behind one.           *)
(***************************************************************************)
OnlyDefinitionsDeadlock ==
  \A W \in SUBSET Sessions : Stuck(W) =>
    \E V \in SUBSET W :
      /\ Stuck(V)
      /\ \A s \in V : pc[s] = "write definition"
      /\ \A s, t \in V : s # t => call[s].dataset # call[t].dataset

(***************************************************************************)
(* Datasets never rest on different definitions of a metric: what a write  *)
(* is about to commit agrees with what is stored and with what any other   *)
(* write is about to commit, whoever came first (_write_exact_records).    *)
(***************************************************************************)
DefinitionsAgree ==
  \A s \in Sessions : pc[s] = "commit" /\ call[s].op = "write" =>
    /\ Agree(call[s].batch)
    /\ \A t \in Sessions : pc[t] = "commit" /\ call[t].op = "write" =>
         \A i \in DOMAIN call[s].batch, j \in DOMAIN call[t].batch :
           call[s].batch[i].metric = call[t].batch[j].metric =>
             call[s].batch[i] = call[t].batch[j]

(***************************************************************************)
(* The transactions do what the lifecycle says, in the order they commit:  *)
(* a status read under a lock is still the status at commit.               *)
(***************************************************************************)
ImplementsLifecycle == Spec
=============================================================================
