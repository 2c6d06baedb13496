--------------------------- MODULE DatasetLifecycle -------------------------
(***************************************************************************)
(* What the PostgreSQL schema operations promises about datasets: how a    *)
(* dataset version is built, validated, declared ready, activated and      *)
(* retired, and which dataset a request is answered from.  Every action is *)
(* one committed transaction; DatasetTransactions splits them into the     *)
(* statements and row locks the functions are made of.                     *)
(*                                                                         *)
(* Left out: the manifest hashes (a composite foreign key copies the       *)
(* parent's hash, which no role may update, into every child row, so the   *)
(* DATASET_MANIFEST_MISMATCH branches are never taken), timestamps, and    *)
(* the constraints that only restate what the functions guarantee, such as *)
(* the partial unique index on the active status.                          *)
(***************************************************************************)
EXTENDS FiniteSets

CONSTANTS
  Datasets,      \* dataset_version keys
  Current,       \* those with the cutoff date that may be activated
  NoDataset,     \* NULL in active_dataset.dataset_version
  Components,    \* postgres, graph, vector, evidence
  Validations,   \* validation_run_id keys
  Facts,         \* identities of catalog, fact, document and search rows
  Requests       \* run_id keys

ASSUME DatasetAssumption ==
  /\ Current \subseteq Datasets
  /\ NoDataset \notin Datasets
  /\ IsFiniteSet(Components)

VARIABLES
  status,        \* dataset_version.status
  content,       \* rows stored under a dataset version
  validations,   \* the table dataset_validation_run
  readiness,     \* the table dataset_readiness
  active,        \* the singleton row of active_dataset
  requests       \* the table request_run

vars == <<status, content, validations, readiness, active, requests>>

Statuses == {"absent", "building", "validated", "active", "retired", "failed"}
ValidationRows == [id : Validations, dataset : Datasets, verdict : {"pass", "fail"}]
ReadinessRows == [dataset : Datasets, component : Components, validation : Validations]
RequestRows == [id : Requests, dataset : Datasets]

TypeOK ==
  /\ status \in [Datasets -> Statuses]
  /\ content \in [Datasets -> SUBSET Facts]
  /\ validations \subseteq ValidationRows
  /\ readiness \subseteq ReadinessRows
  /\ active \in Datasets \cup {NoDataset}
  /\ requests \subseteq RequestRows

Init ==
  /\ status = [d \in Datasets |-> "absent"]
  /\ content = [d \in Datasets |-> {}]
  /\ validations = {}
  /\ readiness = {}
  /\ active = NoDataset
  /\ requests = {}
-----------------------------------------------------------------------------
CreateDataset(d) ==
  /\ status[d] = "absent"
  /\ status' = [status EXCEPT ![d] = "building"]
  /\ UNCHANGED <<content, validations, readiness, active, requests>>

WriteRow(d, f) ==
  /\ status[d] = "building"
  /\ content' = [content EXCEPT ![d] = @ \cup {f}]
  /\ UNCHANGED <<status, validations, readiness, active, requests>>

RecordValidation(v) ==
  /\ status[v.dataset] = "building"
  /\ \A w \in validations : w.id # v.id
  /\ validations' = validations \cup {v}
  /\ UNCHANGED <<status, content, readiness, active, requests>>

\* Fault: the verdict of the run is stored as the status of the dataset.
FinishValidationVerdict(v) ==
  /\ v \in validations
  /\ status[v.dataset] = "building"
  /\ status' = [status EXCEPT ![v.dataset] = v.verdict]
  /\ UNCHANGED <<content, validations, readiness, active, requests>>
FinishValidation(v) ==
  /\ v \in validations
  /\ status[v.dataset] = "building"
  /\ status' = [status EXCEPT ![v.dataset] =
                  IF v.verdict = "pass" THEN "validated" ELSE "failed"]
  /\ UNCHANGED <<content, validations, readiness, active, requests>>

\* dataset_readiness accepts passing validation runs only.
Passed(id, d) == [id |-> id, dataset |-> d, verdict |-> "pass"] \in validations

RecordReadiness(row) ==
  /\ Passed(row.validation, row.dataset)
  /\ status[row.dataset] \in {"building", "validated"}
  /\ \A other \in readiness :
       <<other.dataset, other.component>> # <<row.dataset, row.component>>
  /\ readiness' = readiness \cup {row}
  /\ UNCHANGED <<status, content, validations, active, requests>>

\* Fault: readiness rows of all datasets are counted.
ReadyComponentsOfAny(d) == {row.component : row \in readiness}
ReadyComponents(d) == {row.component : row \in {r \in readiness : r.dataset = d}}

\* The prior active dataset is retired in the transaction that replaces it.
\* Fault: the first active dataset is never retired.
ActivateBeside(d) ==
  /\ d \in Current
  /\ status[d] = "validated"
  /\ ReadyComponents(d) = Components
  /\ status' = [status EXCEPT ![d] = "active"]
  /\ active' = d
  /\ UNCHANGED <<content, validations, readiness, requests>>
Activate(d) ==
  /\ d \in Current
  /\ status[d] = "validated"
  /\ ReadyComponents(d) = Components
  /\ status' = [e \in Datasets |->
                  IF e = d THEN "active"
                  ELSE IF e = active /\ status[e] = "active" THEN "retired"
                  ELSE status[e]]
  /\ active' = d
  /\ UNCHANGED <<content, validations, readiness, requests>>

\* Fault: the caller's dataset is taken without comparing it with the pointer.
StartRequestOnAny(q) ==
  /\ \A p \in requests : p.id # q.id
  /\ requests' = requests \cup {q}
  /\ UNCHANGED <<status, content, validations, readiness, active>>
StartRequest(q) ==
  /\ \A p \in requests : p.id # q.id
  /\ active = q.dataset
  /\ status[q.dataset] = "active"
  /\ requests' = requests \cup {q}
  /\ UNCHANGED <<status, content, validations, readiness, active>>

Next ==
  \/ \E d \in Datasets : CreateDataset(d) \/ Activate(d)
  \/ \E d \in Datasets, f \in Facts : WriteRow(d, f)
  \/ \E v \in ValidationRows : RecordValidation(v) \/ FinishValidation(v)
  \/ \E row \in ReadinessRows : RecordReadiness(row)
  \/ \E q \in RequestRows : StartRequest(q)

Spec == Init /\ [][Next]_vars
-----------------------------------------------------------------------------
(***************************************************************************)
(* The pointer of active_dataset and the status column agree: a dataset is *)
(* served exactly when it is the active one, so there is at most one       *)
(* (activate_dataset, alembic/versions/0006).                              *)
(***************************************************************************)
PointerAgrees == \A d \in Datasets : status[d] = "active" <=> active = d

Served == {"active", "retired"}

(***************************************************************************)
(* Whatever was ever served has the current cutoff, passed a validation,   *)
(* and has a readiness row of every component that a passing validation of *)
(* this very dataset stands behind.                                        *)
(***************************************************************************)
ServedIsEndorsed ==
  \A d \in Datasets : status[d] \in Served =>
    /\ d \in Current
    /\ \E id \in Validations : Passed(id, d)
    /\ \A c \in Components : \E row \in readiness :
         row.dataset = d /\ row.component = c /\ Passed(row.validation, d)

(***************************************************************************)
(* A request captured one dataset, and that dataset was served             *)
(* (start_request_run).  It may have been retired since.                   *)
(***************************************************************************)
RequestsAreServed ==
  /\ \A q \in requests : status[q.dataset] \in Served
  /\ \A p, q \in requests : p.id = q.id => p = q

(***************************************************************************)
(* A dataset moves along building, validated, active, retired and never    *)
(* back, failed ones stay failed, and nothing becomes active while the     *)
(* dataset it replaces stays active (validate_dataset_transition).         *)
(***************************************************************************)
Transitions ==
  {<<"absent", "building">>, <<"building", "validated">>, <<"building", "failed">>,
   <<"validated", "active">>, <<"active", "retired">>}

LifecycleIsForward ==
  [][\A d \in Datasets : status'[d] # status[d] =>
       /\ <<status[d], status'[d]>> \in Transitions
       /\ status'[d] = "retired" => active' # d /\ active' # NoDataset]_vars
=============================================================================
