---------------------------- MODULE DatasetProofs ---------------------------
(***************************************************************************)
(* Proofs about DatasetLifecycle and about DatasetTransactions, which is   *)
(* shown to implement it, for any sets of sessions, datasets, validation   *)
(* runs, components and requests.                                          *)
(***************************************************************************)
EXTENDS DatasetTransactions, FiniteSetTheorems, FunctionTheorems,
        WellFoundedInduction, TLAPS

LEMMA TypeInductive == TypeOK /\ [Next]_vars => TypeOK'
<1> SUFFICES ASSUME TypeOK, [Next]_vars PROVE TypeOK'
  OBVIOUS
<1>1. ASSUME NEW d \in Datasets, CreateDataset(d) PROVE TypeOK'
  BY <1>1 DEF CreateDataset, TypeOK, Statuses
<1>2. ASSUME NEW d \in Datasets, Activate(d) PROVE TypeOK'
  BY <1>2 DEF Activate, TypeOK, Statuses
<1>3. ASSUME NEW d \in Datasets, NEW f \in Facts, WriteRow(d, f) PROVE TypeOK'
  BY <1>3 DEF WriteRow, TypeOK
<1>4. ASSUME NEW v \in ValidationRows, RecordValidation(v) PROVE TypeOK'
  BY <1>4 DEF RecordValidation, TypeOK
<1>5. ASSUME NEW v \in ValidationRows, FinishValidation(v) PROVE TypeOK'
  BY <1>5 DEF FinishValidation, TypeOK, Statuses, ValidationRows
<1>6. ASSUME NEW row \in ReadinessRows, RecordReadiness(row) PROVE TypeOK'
  BY <1>6 DEF RecordReadiness, TypeOK
<1>7. ASSUME NEW q \in RequestRows, StartRequest(q) PROVE TypeOK'
  BY <1>7 DEF StartRequest, TypeOK
<1>8. CASE UNCHANGED vars
  BY <1>8 DEF vars, TypeOK
<1> QED
  BY <1>1, <1>2, <1>3, <1>4, <1>5, <1>6, <1>7, <1>8 DEF Next

(***************************************************************************)
(* Type correctness: in particular every status the functions write is one *)
(* the CHECK constraint of dataset_version allows.                         *)
(***************************************************************************)
THEOREM TypeCorrect == Spec => []TypeOK
<1>1. Init => TypeOK
  BY DatasetAssumption DEF Init, TypeOK, Statuses
<1> QED
  BY <1>1, TypeInductive, PTL DEF Spec

(***************************************************************************)
(* The pointer and the status column agree in every reachable state, so    *)
(* there is never more than one active dataset, and never one the pointer  *)
(* does not name (activate_dataset).                                       *)
(***************************************************************************)
THEOREM PointerCorrect == Spec => []PointerAgrees
<1>1. Init => PointerAgrees
  BY DatasetAssumption DEF Init, PointerAgrees
<1>2. TypeOK /\ PointerAgrees /\ [Next]_vars => PointerAgrees'
  <2> SUFFICES ASSUME TypeOK, PointerAgrees, [Next]_vars PROVE PointerAgrees'
    OBVIOUS
  <2>1. ASSUME NEW d \in Datasets, CreateDataset(d) PROVE PointerAgrees'
    BY <2>1 DEF CreateDataset, TypeOK, PointerAgrees
  <2>2. ASSUME NEW d \in Datasets, Activate(d) PROVE PointerAgrees'
    BY <2>2 DEF Activate, TypeOK, PointerAgrees
  <2>3. ASSUME NEW v \in ValidationRows, FinishValidation(v) PROVE PointerAgrees'
    BY <2>3 DEF FinishValidation, TypeOK, PointerAgrees, ValidationRows
  <2>4. CASE UNCHANGED <<status, active>>
    BY <2>4 DEF PointerAgrees
  <2> QED
    BY <2>1, <2>2, <2>3, <2>4
    DEF Next, WriteRow, RecordValidation, RecordReadiness, StartRequest, vars
<1> QED
  BY <1>1, <1>2, TypeCorrect, PTL DEF Spec
-----------------------------------------------------------------------------
(***************************************************************************)
(* ServedIsEndorsed is not inductive: why a served dataset is endorsed     *)
(* goes back to what held when it was still validated, and to every        *)
(* readiness row having passed when it was recorded.                       *)
(***************************************************************************)
EndorsementInv ==
  /\ \A d \in Datasets : status[d] \in Served \cup {"validated"} =>
       \E id \in Validations : Passed(id, d)
  /\ \A row \in readiness : Passed(row.validation, row.dataset)
  /\ \A d \in Datasets : status[d] \in Served =>
       d \in Current /\ Components \subseteq ReadyComponents(d)

LEMMA EndorsementInductive == Spec => []EndorsementInv
<1>1. Init => EndorsementInv
  BY DEF Init, EndorsementInv, Served
<1>2. TypeOK /\ EndorsementInv /\ [Next]_vars => EndorsementInv'
  <2> SUFFICES ASSUME TypeOK, EndorsementInv, [Next]_vars PROVE EndorsementInv'
    OBVIOUS
  <2>1. ASSUME NEW d \in Datasets, CreateDataset(d) PROVE EndorsementInv'
    BY <2>1 DEF CreateDataset, TypeOK, EndorsementInv, Served, Passed, ReadyComponents
  <2>2. ASSUME NEW d \in Datasets, Activate(d) PROVE EndorsementInv'
    BY <2>2 DEF Activate, TypeOK, EndorsementInv, Served, Passed, ReadyComponents
  <2>3. ASSUME NEW v \in ValidationRows, RecordValidation(v) PROVE EndorsementInv'
    BY <2>3 DEF RecordValidation, EndorsementInv, Served, Passed, ReadyComponents
  <2>4. ASSUME NEW v \in ValidationRows, FinishValidation(v) PROVE EndorsementInv'
    <3>1. v.verdict = "pass" => v = [id |-> v.id, dataset |-> v.dataset, verdict |-> "pass"]
      BY DEF ValidationRows
    <3>2. v.id \in Validations /\ v.dataset \in Datasets
      BY DEF ValidationRows
    <3>3. v.verdict = "pass" => \E id \in Validations : Passed(id, v.dataset)
      BY <2>4, <3>1, <3>2 DEF FinishValidation, Passed
    <3> QED
      BY <2>4, <3>2, <3>3
      DEF FinishValidation, TypeOK, EndorsementInv, Served, Passed, ReadyComponents
  <2>5. ASSUME NEW row \in ReadinessRows, RecordReadiness(row) PROVE EndorsementInv'
    BY <2>5 DEF RecordReadiness, EndorsementInv, Served, Passed, ReadyComponents
  <2>6. CASE UNCHANGED <<status, validations, readiness>>
    BY <2>6 DEF EndorsementInv, Served, Passed, ReadyComponents
  <2> QED
    BY <2>1, <2>2, <2>3, <2>4, <2>5, <2>6 DEF Next, WriteRow, StartRequest, vars
<1> QED
  BY <1>1, <1>2, TypeCorrect, PTL DEF Spec

(***************************************************************************)
(* No dataset is ever served that was not validated, is not of the current *)
(* cutoff or lacks a component's readiness, however activations, readiness *)
(* calls and validations follow each other.                                *)
(***************************************************************************)
THEOREM EndorsementCorrect == Spec => []ServedIsEndorsed
<1>1. EndorsementInv => ServedIsEndorsed
  BY DEF EndorsementInv, ServedIsEndorsed, Served, ReadyComponents
<1> QED
  BY <1>1, EndorsementInductive, PTL
-----------------------------------------------------------------------------
(***************************************************************************)
(* Every request was started on a dataset that was being served, and keeps *)
(* it, whatever is activated later (start_request_run).                    *)
(***************************************************************************)
THEOREM RequestsCorrect == Spec => []RequestsAreServed
<1>1. Init => RequestsAreServed
  BY DEF Init, RequestsAreServed
<1>2. TypeOK /\ RequestsAreServed /\ [Next]_vars => RequestsAreServed'
  <2> SUFFICES ASSUME TypeOK, RequestsAreServed, [Next]_vars PROVE RequestsAreServed'
    OBVIOUS
  <2>0. \A q \in requests : q.dataset \in Datasets
    BY DEF TypeOK, RequestRows
  <2>1. ASSUME NEW d \in Datasets, CreateDataset(d) PROVE RequestsAreServed'
    BY <2>0, <2>1 DEF CreateDataset, TypeOK, RequestsAreServed, Served
  <2>2. ASSUME NEW d \in Datasets, Activate(d) PROVE RequestsAreServed'
    BY <2>0, <2>2 DEF Activate, TypeOK, RequestsAreServed, Served
  <2>3. ASSUME NEW v \in ValidationRows, FinishValidation(v) PROVE RequestsAreServed'
    BY <2>0, <2>3 DEF FinishValidation, TypeOK, RequestsAreServed, Served, ValidationRows
  <2>4. ASSUME NEW q \in RequestRows, StartRequest(q) PROVE RequestsAreServed'
    BY <2>4 DEF StartRequest, RequestsAreServed, Served
  <2>5. CASE UNCHANGED <<status, requests>>
    BY <2>5 DEF RequestsAreServed
  <2> QED
    BY <2>1, <2>2, <2>3, <2>4, <2>5
    DEF Next, WriteRow, RecordValidation, RecordReadiness, vars
<1> QED
  BY <1>1, <1>2, TypeCorrect, PTL DEF Spec

(***************************************************************************)
(* The status of a dataset only moves forward, and a dataset is retired by *)
(* nothing but the activation of another (validate_dataset_transition).    *)
(***************************************************************************)
THEOREM ForwardCorrect == Spec => LifecycleIsForward
<1> DEFINE Forward == \A d \in Datasets : status'[d] # status[d] =>
             /\ <<status[d], status'[d]>> \in Transitions
             /\ status'[d] = "retired" => active' # d /\ active' # NoDataset
<1>1. TypeOK /\ [Next]_vars => Forward
  <2> SUFFICES ASSUME TypeOK, [Next]_vars PROVE Forward
    OBVIOUS
  <2>1. ASSUME NEW d \in Datasets, CreateDataset(d) PROVE Forward
    BY <2>1 DEF CreateDataset, TypeOK, Transitions
  <2>2. ASSUME NEW d \in Datasets, Activate(d) PROVE Forward
    BY <2>2, DatasetAssumption DEF Activate, TypeOK, Transitions
  <2>3. ASSUME NEW v \in ValidationRows, FinishValidation(v) PROVE Forward
    BY <2>3 DEF FinishValidation, TypeOK, Transitions, ValidationRows
  <2>4. CASE UNCHANGED status
    BY <2>4
  <2> QED
    BY <2>1, <2>2, <2>3, <2>4
    DEF Next, WriteRow, RecordValidation, RecordReadiness, StartRequest, vars
<1> QED
  BY <1>1, TypeCorrect, PTL DEF Spec, LifecycleIsForward
-----------------------------------------------------------------------------
(***************************************************************************)
(* The transactions.  A session relies on what it read under a lock until  *)
(* it commits; Relies(s) says what that is for each kind of call, and with *)
(* which lock it is protected.                                             *)
(***************************************************************************)
Locks(s, what, mode) == <<what, mode>> \in held[s]

ReliesCreate(s) == call[s].op = "create" =>
  /\ call[s].dataset \in Datasets
  /\ pc[s] \in {"create key", "commit"}

\* From the trigger on.
WithTrigger == {"write definition", "compare definitions", "commit"}

ReliesWrite(s) == call[s].op = "write" =>
  LET d == call[s].dataset
      b == call[s].batch
  IN
  /\ d \in Datasets /\ call[s].fact \in Facts /\ b \in Batches
  /\ pc[s] \in {"write key", "write row"} \cup WithTrigger
  /\ pc[s] \in {"write key", "write row"} => inserted[s] = 0
  /\ pc[s] # "write key" => Locks(s, <<"build key", d>>, "update")
  /\ pc[s] \in WithTrigger => status[d] = "building" /\ Locks(s, DatasetRow(d), "share")
  /\ inserted[s] \in 0..Len(b)
  /\ \A i \in 1..inserted[s] :
       Stored(b[i].metric) \/ Locks(s, MetricKey(b[i].metric), "update")
  /\ pc[s] = "write definition" => inserted[s] < Len(b)
  /\ pc[s] \in {"compare definitions", "commit"} => inserted[s] = Len(b)
  /\ pc[s] = "commit" => Agree(b)

ReliesValidate(s) == call[s].op = "validate" =>
  LET row == call[s].row IN
  /\ row \in ValidationRows
  /\ pc[s] \in {"validate trigger", "validate insert", "commit"}
  /\ pc[s] \in {"validate insert", "commit"} =>
       status[row.dataset] = "building" /\ Locks(s, DatasetRow(row.dataset), "share")
  /\ pc[s] = "commit" => ~Known(row.id) /\ Locks(s, ValidationKey(row.id), "update")

ReliesFinish(s) == call[s].op = "finish" =>
  LET d == ValidationOf(call[s].id).dataset IN
  /\ pc[s] \in {"finish validation", "finish dataset", "commit"}
  /\ pc[s] \in {"finish dataset", "commit"} => Known(call[s].id)
  /\ pc[s] = "commit" => status[d] = "building" /\ Locks(s, DatasetRow(d), "update")

ReliesReady(s) == call[s].op = "ready" =>
  LET row == call[s].row IN
  /\ row \in ReadinessRows
  /\ pc[s] \in {"ready validation", "ready dataset", "ready insert", "commit"}
  /\ pc[s] # "ready validation" => Passed(row.validation, row.dataset)
  /\ pc[s] \in {"ready insert", "commit"} =>
       /\ status[row.dataset] \in {"building", "validated"}
       /\ Locks(s, DatasetRow(row.dataset), "share")
  /\ pc[s] = "commit" =>
       /\ \A other \in readiness : ReadinessKey(other) # ReadinessKey(row)
       /\ Locks(s, ReadinessKey(row), "update")

ReliesActivate(s) == call[s].op = "activate" =>
  LET d == call[s].dataset IN
  /\ d \in Datasets
  /\ pc[s] \in {"activate key", "activate singleton", "activate dataset",
                "activate retire", "commit"}
  /\ pc[s] \in {"activate dataset", "activate retire", "commit"} =>
       pointer[s] = active /\ Locks(s, Singleton, "update")
  /\ pc[s] \in {"activate retire", "commit"} =>
       /\ d \in Current /\ ReadyComponents(d) = Components
       /\ Locks(s, DatasetRow(d), "update")
  /\ pc[s] = "commit" => pointer[s] \in {NoDataset, d} \/ Locks(s, DatasetRow(pointer[s]), "update")

ReliesStart(s) == call[s].op = "start" =>
  LET row == call[s].row IN
  /\ row \in RequestRows
  /\ pc[s] \in {"start key", "start singleton", "start dataset", "commit"}
  /\ pc[s] # "start key" =>
       /\ \A q \in requests : q.id # row.id
       /\ Locks(s, <<"run key", row.id>>, "update")
  /\ pc[s] \in {"start dataset", "commit"} =>
       pointer[s] = active /\ Locks(s, Singleton, "share")
  /\ pc[s] = "commit" =>
       /\ pointer[s] = row.dataset /\ status[row.dataset] = "active"
       /\ Locks(s, DatasetRow(row.dataset), "share")

Relies(s) ==
  /\ ReliesCreate(s) /\ ReliesWrite(s) /\ ReliesValidate(s) /\ ReliesFinish(s)
  /\ ReliesReady(s) /\ ReliesActivate(s) /\ ReliesStart(s)

\* The kinds of locks a session holds at each statement before its last.
Kinds(place) ==
  CASE place = "write row" -> {"build key"}
    [] place \in {"write definition", "compare definitions"} ->
         {"build key", "dataset", "metric key"}
    [] place = "validate insert" -> {"dataset"}
    [] place \in {"finish dataset", "ready dataset"} -> {"validation"}
    [] place = "ready insert" -> {"validation", "dataset"}
    [] place = "activate singleton" -> {"activation key"}
    [] place = "activate dataset" -> {"activation key", "active_dataset"}
    [] place = "activate retire" -> {"activation key", "active_dataset", "dataset"}
    [] place = "start singleton" -> {"run key"}
    [] place = "start dataset" -> {"run key", "active_dataset"}
    [] OTHER -> {}

KindsFit(s) == pc[s] # "commit" => \A l \in held[s] : l[1][1] \in Kinds(pc[s])

\* A session belongs to a call from its first statement to its commit.
SessionFits(s) ==
  /\ pc[s] = "idle" <=> call[s].op = "none"
  /\ call[s].op \in DOMAIN FirstStatement \cup {"none"}
  /\ pc[s] = "idle" => inserted[s] = 0

\* The keys of definitions a session holds are those it has inserted.
KeysFit(s) ==
  \A l \in held[s] : l[1][1] = "metric key" =>
    /\ call[s].op = "write"
    /\ \E i \in 1..inserted[s] : l[1] = MetricKey(call[s].batch[i].metric)

LocksAreExclusive ==
  \A s, t \in Sessions : s # t =>
    \A l \in held[s], m \in held[t] : ~Conflicts(l, m)

\* No two rows of a table have the same key.
RowsAreUnique ==
  /\ \A v, w \in validations : v.id = w.id => v = w
  /\ \A r, o \in readiness :
       r.dataset = o.dataset /\ r.component = o.component => r = o

DefinitionsAreUnique == \A d, e \in definitions : d.metric = e.metric => d = e

SessionsTyped ==
  /\ DOMAIN call = Sessions /\ DOMAIN pc = Sessions
  /\ DOMAIN pointer = Sessions /\ DOMAIN held = Sessions
  /\ DOMAIN inserted = Sessions

TInv ==
  /\ TypeOK /\ RowsAreUnique /\ DefinitionsAreUnique
  /\ SessionsTyped /\ LocksAreExclusive
  /\ \A s \in Sessions : Relies(s) /\ KindsFit(s) /\ SessionFits(s) /\ KeysFit(s)

-----------------------------------------------------------------------------
(***************************************************************************)
(* Circles of waiting transactions.  Every statement has a rank; who       *)
(* blocks a session stands before a statement of a higher rank, unless     *)
(* both are about to insert a metric definition.  So in a set where every  *)
(* session is blocked by another those of the highest rank are all about   *)
(* to insert one, and block each other.                                    *)
(***************************************************************************)
Rank(place) ==
  CASE place \in {"create key", "write key", "activate key", "start key"} -> 0
    [] place \in {"activate singleton", "start singleton"} -> 1
    [] place \in {"finish validation", "ready validation"} -> 2
    [] place \in {"write row", "validate trigger", "finish dataset", "ready dataset",
                  "activate dataset", "start dataset"} -> 3
    [] place = "activate retire" -> 4
    [] place \in {"validate insert", "ready insert", "write definition"} -> 5
    [] OTHER -> 6

LEMMA RankTable ==
  /\ \A p \in {"create key", "write key", "activate key", "start key"} : Rank(p) = 0
  /\ \A p \in {"activate singleton", "start singleton"} : Rank(p) = 1
  /\ \A p \in {"finish validation", "ready validation"} : Rank(p) = 2
  /\ \A p \in {"write row", "validate trigger", "finish dataset", "ready dataset",
                "activate dataset", "start dataset"} : Rank(p) = 3
  /\ Rank("activate retire") = 4
  /\ \A p \in {"validate insert", "ready insert", "write definition"} : Rank(p) = 5
  /\ Rank("commit") = 6 /\ Rank("compare definitions") = 6
BY DEF Rank

\* The kind of lock a statement waits for.
KindAt(place) ==
  CASE place \in {"create key", "write key"} -> "build key"
    [] place = "activate key" -> "activation key"
    [] place = "start key" -> "run key"
    [] place \in {"activate singleton", "start singleton"} -> "active_dataset"
    [] place \in {"finish validation", "ready validation"} -> "validation"
    [] place = "validate insert" -> "validation key"
    [] place = "ready insert" -> "readiness key"
    [] place = "write definition" -> "metric key"
    [] OTHER -> "dataset"

LEMMA NextLockKind ==
  ASSUME NEW s \in Sessions, pc[s] \in Waitable
  PROVE  NextLock(s)[1][1] = KindAt(pc[s])
<1>1. CASE pc[s] \in {"create key", "write key"}
  BY <1>1 DEF NextLock, KindAt
<1>2. CASE pc[s] \in {"write row", "validate trigger", "finish dataset", "activate dataset",
                      "activate retire", "start dataset"}
  BY <1>2 DEF NextLock, KindAt, DatasetRow
<1>3. CASE pc[s] \in {"validate insert", "finish validation", "ready insert"}
  BY <1>3 DEF NextLock, KindAt, ValidationKey, ValidationRow, ReadinessKey
<1>4. CASE pc[s] \in {"ready validation", "ready dataset"}
  BY <1>4 DEF NextLock, KindAt, ValidationRow, DatasetRow, LockedForReadiness
<1>5. CASE pc[s] = "activate key"
  BY <1>5 DEF NextLock, KindAt
<1>6. CASE pc[s] = "start key"
  BY <1>6 DEF NextLock, KindAt
<1>7. CASE pc[s] \in {"activate singleton", "start singleton"}
  BY <1>7 DEF NextLock, KindAt, Singleton
<1>8. CASE pc[s] = "write definition"
  BY <1>8 DEF NextLock, KindAt, MetricKey
<1>9. QED  BY <1>1, <1>2, <1>3, <1>4, <1>5, <1>6, <1>7, <1>8 DEF Waitable

\* Only an activation stands before the retirement of the prior dataset, and
\* there is one activation at a time from the lock of active_dataset on.
LEMMA OneRetires ==
  ASSUME TInv, NEW s \in Sessions, NEW t \in Sessions,
         pc[s] = "activate retire", pc[t] = "activate retire"
  PROVE  s = t
<1>1. ASSUME NEW r \in Sessions, pc[r] = "activate retire" PROVE Locks(r, Singleton, "update")
  <2>1. Relies(r) /\ SessionFits(r)
    BY DEF TInv
  <2>2. call[r].op = "activate"
    BY <1>1, <2>1 DEF SessionFits, FirstStatement, Relies, ReliesCreate, ReliesWrite,
                      ReliesValidate, ReliesFinish, ReliesReady, ReliesStart, WithTrigger
  <2>3. QED  BY <1>1, <2>1, <2>2 DEF Relies, ReliesActivate
<1>2. Conflicts(<<Singleton, "update">>, <<Singleton, "update">>)
  BY DEF Conflicts
<1>3. QED  BY <1>1, <1>2 DEF TInv, LocksAreExclusive, Locks

LEMMA BlockerIsAhead ==
  ASSUME TInv, NEW s \in Sessions, NEW t \in Sessions, Blocks(t, s)
  PROVE  \/ Rank(pc[s]) < Rank(pc[t])
         \/ pc[s] = "write definition" /\ pc[t] = "write definition"
<1>1. pc[s] \in Waitable /\ t # s
  BY DEF Blocks
<1>2. CASE pc[t] \in {"compare definitions", "commit"}
  <2>1. Rank(pc[t]) = 6
    BY <1>2, RankTable
  <2>2. \/ Rank(pc[s]) = 0 \/ Rank(pc[s]) = 1 \/ Rank(pc[s]) = 2
        \/ Rank(pc[s]) = 3 \/ Rank(pc[s]) = 4 \/ Rank(pc[s]) = 5
    BY <1>1, RankTable DEF Waitable
  <2>3. Rank(pc[s]) < Rank(pc[t])
    BY <2>1, <2>2
  <2>4. QED  BY <2>3
<1>3. CASE pc[t] \notin {"compare definitions", "commit"}
  <2>1. PICK l \in held[t] : l[1] = NextLock(s)[1]
    BY DEF Blocks, Conflicts
  <2>2. l[1][1] \in Kinds(pc[t]) /\ l[1][1] = KindAt(pc[s])
    BY <1>1, <1>3, <2>1, NextLockKind DEF TInv, KindsFit
  <2>3. ~(pc[s] = "activate retire" /\ pc[t] = "activate retire")
    BY <1>1, OneRetires
  <2> DEFINE p == pc[s]
             q == pc[t]
  <2>4. KindAt(p) \in Kinds(q)
    BY <2>2
  <2> HIDE DEF p, q
  <2>5. CASE p \in {"create key", "write key", "activate key", "start key"}
    <3>1. q \in {"write row", "write definition", "activate singleton", "activate dataset",
                 "activate retire", "start singleton", "start dataset"}
      BY <1>3, <2>4, <2>5 DEF Kinds, KindAt, q
    <3>2. Rank(p) = 0
      BY <2>5, RankTable
    <3>3. Rank(q) = 1 \/ Rank(q) = 3 \/ Rank(q) = 4 \/ Rank(q) = 5
      BY <3>1, RankTable
    <3>4. Rank(p) < Rank(q)
      BY <3>2, <3>3
    <3>5. QED  BY <3>4 DEF p, q
  <2>6. CASE p \in {"activate singleton", "start singleton"}
    <3>1. q \in {"activate dataset", "activate retire", "start dataset"}
      BY <2>4, <2>6 DEF Kinds, KindAt
    <3>2. Rank(p) = 1
      BY <2>6, RankTable
    <3>3. Rank(q) = 3 \/ Rank(q) = 4
      BY <3>1, RankTable
    <3>4. Rank(p) < Rank(q)
      BY <3>2, <3>3
    <3>5. QED  BY <3>4 DEF p, q
  <2>7. CASE p \in {"finish validation", "ready validation"}
    <3>1. q \in {"finish dataset", "ready dataset", "ready insert"}
      BY <2>4, <2>7 DEF Kinds, KindAt
    <3>2. Rank(p) = 2
      BY <2>7, RankTable
    <3>3. Rank(q) = 3 \/ Rank(q) = 5
      BY <3>1, RankTable
    <3>4. Rank(p) < Rank(q)
      BY <3>2, <3>3
    <3>5. QED  BY <3>4 DEF p, q
  <2>8. CASE p \in {"write row", "validate trigger", "finish dataset", "ready dataset",
                    "activate dataset", "start dataset"}
    <3>1. q \in {"validate insert", "ready insert", "write definition", "activate retire"}
      BY <1>3, <2>4, <2>8 DEF Kinds, KindAt, q
    <3>2. Rank(p) = 3
      BY <2>8, RankTable
    <3>3. Rank(q) = 4 \/ Rank(q) = 5
      BY <3>1, RankTable
    <3>4. Rank(p) < Rank(q)
      BY <3>2, <3>3
    <3>5. QED  BY <3>4 DEF p, q
  <2>9. CASE p = "activate retire"
    <3>1. q \in {"validate insert", "ready insert", "write definition"}
      BY <1>3, <2>3, <2>4, <2>9 DEF Kinds, KindAt, p, q
    <3>2. Rank(p) = 4
      BY <2>9, RankTable
    <3>3. Rank(q) = 5
      BY <3>1, RankTable
    <3>4. Rank(p) < Rank(q)
      BY <3>2, <3>3
    <3>5. QED  BY <3>4 DEF p, q
  <2>10. CASE p \in {"validate insert", "ready insert"}
    BY <2>4, <2>10 DEF Kinds, KindAt
  <2>11. CASE p = "write definition"
    <3>1. q = "write definition"
      BY <1>3, <2>4, <2>11 DEF Kinds, KindAt, q
    <3>2. QED  BY <2>11, <3>1 DEF p, q
  <2>12. QED  BY <1>1, <2>5, <2>6, <2>7, <2>8, <2>9, <2>10, <2>11 DEF Waitable, p, q
<1>4. QED  BY <1>2, <1>3

LEMMA LeastNatural ==
  ASSUME NEW T \in SUBSET Nat, T # {}
  PROVE  \E m \in T : \A n \in T : m <= n
<1> DEFINE Less == {ss \in Nat \X Nat : ss[1] < ss[2]}
<1>1. IsWellFoundedOn(Less, Nat)
  BY NatLessThanWellFounded DEF OpToRel
<1>2. PICK m \in T : \A n \in T : ~(<<n, m>> \in Less)
  BY <1>1, WFMin
<1>3. \A i, k \in Nat : i < k => <<i, k>> \in Less
  OBVIOUS
<1>4. \A n \in T : ~(n < m)
  BY <1>2, <1>3
<1>5. QED  BY <1>4

\* Two sessions do not hold a lock that one of them wants for itself.
LEMMA Exclusive ==
  ASSUME LocksAreExclusive, NEW s \in Sessions, NEW t \in Sessions, s # t,
         NEW what, NEW mode, Locks(s, what, "update"), Locks(t, what, mode)
  PROVE  FALSE
BY DEF LocksAreExclusive, Locks, Conflicts

\* The statement a session stands before belongs to its call.
LEMMA OpAt ==
  ASSUME TInv, NEW s \in Sessions
  PROVE  /\ pc[s] = "create key" => call[s].op = "create"
         /\ pc[s] \in {"write key", "write row", "write definition", "compare definitions"} =>
              call[s].op = "write"
         /\ pc[s] \in {"validate trigger", "validate insert"} => call[s].op = "validate"
         /\ pc[s] \in {"finish validation", "finish dataset"} => call[s].op = "finish"
         /\ pc[s] \in {"ready validation", "ready dataset", "ready insert"} =>
              call[s].op = "ready"
         /\ pc[s] \in {"activate key", "activate singleton", "activate dataset",
                       "activate retire"} => call[s].op = "activate"
         /\ pc[s] \in {"start key", "start singleton", "start dataset"} => call[s].op = "start"
<1>1. Relies(s) /\ SessionFits(s)
  BY DEF TInv
<1>2. /\ pc[s] \notin {"idle"} => call[s].op \in {"create", "write", "validate", "finish",
                                                 "ready", "activate", "start"}
  BY <1>1 DEF SessionFits, FirstStatement
<1>3. QED
  BY <1>1, <1>2 DEF Relies, ReliesCreate, ReliesWrite, ReliesValidate, ReliesFinish,
                    ReliesReady, ReliesActivate, ReliesStart, WithTrigger

LEMMA StuckBehindDefinitions == TInv => OnlyDefinitionsDeadlock
<1> SUFFICES ASSUME TInv, NEW W \in SUBSET Sessions, Stuck(W)
             PROVE  \E V \in SUBSET W :
                      /\ Stuck(V)
                      /\ \A s \in V : pc[s] = "write definition"
                      /\ \A s, t \in V : s # t => call[s].dataset # call[t].dataset
  BY DEF OnlyDefinitionsDeadlock
<1>1. \A place : Rank(place) \in 0..6
  BY DEF Rank
<1> DEFINE T == {6 - Rank(pc[s]) : s \in W}
<1>2. T \in SUBSET Nat /\ T # {}
  BY <1>1 DEF Stuck
<1>3. PICK m \in T : \A n \in T : m <= n
  BY <1>2, LeastNatural
<1> DEFINE V == {s \in W : 6 - Rank(pc[s]) = m}
<1>4. V # {} /\ V \in SUBSET W
  OBVIOUS
<1>5. ASSUME NEW s \in V
      PROVE  pc[s] = "write definition" /\ \E t \in V : Blocks(t, s)
  <2>1. PICK t \in W : Blocks(t, s)
    BY DEF Stuck
  <2>2. m <= 6 - Rank(pc[t]) /\ m = 6 - Rank(pc[s])
    BY <1>3
  <2>3. Rank(pc[s]) \in 0..6 /\ Rank(pc[t]) \in 0..6
    BY <1>1
  <2>4. ~(Rank(pc[s]) < Rank(pc[t]))
    BY <2>2, <2>3
  <2>5. pc[s] = "write definition" /\ pc[t] = "write definition"
    BY <2>1, <2>4, BlockerIsAhead
  <2>6. t \in V
    BY <2>2, <2>5
  <2>7. QED  BY <2>1, <2>5, <2>6
<1>6. ASSUME NEW s \in V, NEW t \in V, s # t PROVE call[s].dataset # call[t].dataset
  <2>1. \A r \in {s, t} : Locks(r, <<"build key", call[r].dataset>>, "update")
    BY <1>5, OpAt DEF TInv, Relies, ReliesWrite
  <2>2. QED  BY <1>6, <2>1, Exclusive DEF TInv
<1> HIDE DEF V
<1>7. QED  BY <1>4, <1>5, <1>6 DEF Stuck
-----------------------------------------------------------------------------
(***************************************************************************)
(* What a transaction changes it has locked for itself, so that the others *)
(* find what they rely on unchanged.                                       *)
(***************************************************************************)
Respects(s) ==
  /\ \A d \in Datasets : status[d] # "absent" /\ ~Locks(s, DatasetRow(d), "update") =>
       status'[d] = status[d]
  /\ validations \subseteq validations'
  /\ \A v \in validations' \ validations : Locks(s, ValidationKey(v.id), "update")
  /\ readiness \subseteq readiness'
  /\ \A r \in readiness' \ readiness : Locks(s, ReadinessKey(r), "update")
  /\ active' = active \/ Locks(s, Singleton, "update")
  /\ \A q \in requests' \ requests : Locks(s, <<"run key", q.id>>, "update")
  /\ definitions \subseteq definitions'
  /\ \A d \in definitions' \ definitions : Locks(s, MetricKey(d.metric), "update")

Keeps(t) ==
  /\ call'[t] = call[t] /\ pc'[t] = pc[t] /\ pointer'[t] = pointer[t]
  /\ held'[t] = held[t] /\ inserted'[t] = inserted[t]

LEMMA SameValidation ==
  ASSUME RowsAreUnique', validations \subseteq validations', NEW id, Known(id)
  PROVE  ValidationOf(id) \in validations /\ ValidationOf(id)' = ValidationOf(id)
<1>1. PICK v \in validations : v.id = id
  BY DEF Known
<1>2. \A w \in validations' : w.id = id <=> w = v
  BY <1>1 DEF RowsAreUnique
<1>3. ValidationOf(id) = v
  <2>1. \A w \in validations : w.id = id <=> w = v
    BY <1>2
  <2>2. QED  BY <1>1, <2>1 DEF ValidationOf
<1>4. (CHOOSE w \in validations' : w.id = id) = v
  BY <1>1, <1>2
<1>5. QED  BY <1>1, <1>3, <1>4 DEF ValidationOf

LEMMA OthersRely ==
  ASSUME TInv, TypeOK', RowsAreUnique', DefinitionsAreUnique', NEW s \in Sessions,
         Respects(s), NEW t \in Sessions, t # s, Keeps(t)
  PROVE  Relies(t)' /\ KindsFit(t)' /\ SessionFits(t)' /\ KeysFit(t)'
<1>1. /\ LocksAreExclusive /\ Relies(t) /\ KindsFit(t) /\ SessionFits(t) /\ KeysFit(t)
      /\ TypeOK
  BY DEF TInv
<1>2. KindsFit(t)' /\ SessionFits(t)' /\ KeysFit(t)'
  BY <1>1 DEF Keeps, KindsFit, SessionFits, KeysFit, FirstStatement
<1>3. \A what, mode : Locks(t, what, mode) <=> Locks(t, what, mode)'
  BY DEF Keeps, Locks
<1>4. \A what, mode : Locks(t, what, mode) => ~Locks(s, what, "update")
  BY <1>1, Exclusive
<1>5. \A d \in Datasets : \A mode : Locks(t, DatasetRow(d), mode) /\ status[d] # "absent" =>
        status'[d] = status[d]
  BY <1>4 DEF Respects
<1>6. \A id, d : Passed(id, d) => Passed(id, d)'
  BY DEF Respects, Passed
<1>7. ReliesCreate(t)'
  BY <1>1 DEF Keeps, Relies, ReliesCreate
<1>8. ReliesWrite(t)'
  <2>1. \A m : Stored(m) => Stored(m)'
    BY DEF Respects, Stored
  <2>2. ASSUME call[t].op = "write", pc[t] = "commit" PROVE Agree(call[t].batch)'
    <3> DEFINE b == call[t].batch
    <3>1. Agree(b) /\ b \in Batches /\ inserted[t] = Len(b)
      BY <1>1, <2>2 DEF Relies, ReliesWrite
    <3>2. b \in Seq(MetricDefinitions)
      BY <3>1, BatchAssumption
    <3>7. \A i \in 1..inserted[t] : Stored(b[i].metric) \/ Locks(t, MetricKey(b[i].metric), "update")
      BY <1>1, <2>2 DEF Relies, ReliesWrite
    <3>3. \A i \in DOMAIN b : Stored(b[i].metric) \/ Locks(t, MetricKey(b[i].metric), "update")
      BY <3>1, <3>2, <3>7
    <3>4. ASSUME NEW i \in DOMAIN b, NEW e \in definitions', e.metric = b[i].metric
          PROVE  e = b[i]
      <4>1. CASE e \in definitions
        BY <3>1, <3>4, <4>1 DEF Agree
      <4>2. CASE e \notin definitions
        <5>1. Stored(b[i].metric)
          BY <1>4, <3>3, <3>4, <4>2 DEF Respects
        <5>2. PICK f \in definitions : f.metric = e.metric
          BY <3>4, <5>1 DEF Stored
        <5>3. QED  BY <4>2, <5>2 DEF Respects, DefinitionsAreUnique
      <4>3. QED  BY <4>1, <4>2
    <3>5. call'[t].batch = b
      BY DEF Keeps
    <3>6. QED  BY <3>4, <3>5 DEF Agree
  <2>3. QED  BY <1>1, <1>3, <1>5, <2>1, <2>2 DEF Keeps, Relies, ReliesWrite, WithTrigger
<1>9. ReliesValidate(t)'
  <2>1. \A id : Locks(t, ValidationKey(id), "update") /\ ~Known(id) => ~Known(id)'
    BY <1>4 DEF Respects, Known
  <2>2. \A row \in ValidationRows : row.dataset \in Datasets
    BY DEF ValidationRows
  <2>3. QED  BY <1>1, <1>3, <1>5, <2>1, <2>2 DEF Keeps, Relies, ReliesValidate
<1>10. ReliesFinish(t)'
  <2>1. ASSUME call[t].op = "finish", pc[t] \in {"finish dataset", "commit"}
        PROVE  /\ Known(call[t].id)' /\ ValidationOf(call[t].id)' = ValidationOf(call[t].id)
               /\ ValidationOf(call[t].id).dataset \in Datasets
    <3>1. Known(call[t].id)
      BY <1>1, <2>1 DEF Relies, ReliesFinish
    <3>2. /\ ValidationOf(call[t].id)' = ValidationOf(call[t].id)
          /\ ValidationOf(call[t].id) \in validations
      <4> DEFINE id == call[t].id
      <4>1. call'[t].id = id
        BY DEF Keeps
      <4>2. ValidationOf(id) \in validations /\ (CHOOSE v \in validations' : v.id = id) = ValidationOf(id)
        BY <3>1, SameValidation DEF Respects, ValidationOf
      <4>3. QED  BY <4>1, <4>2 DEF ValidationOf
    <3>3. Known(call[t].id)'
      BY <3>1 DEF Known, Respects, Keeps
    <3>4. QED  BY <1>1, <3>2, <3>3 DEF TypeOK, ValidationRows
  <2>2. QED  BY <1>1, <1>3, <1>5, <2>1 DEF Keeps, Relies, ReliesFinish
<1>11. ReliesReady(t)'
  <2>1. \A row \in ReadinessRows : row.dataset \in Datasets
    BY DEF ReadinessRows
  <2>2. \A row : Locks(t, ReadinessKey(row), "update")
                   /\ (\A other \in readiness : ReadinessKey(other) # ReadinessKey(row)) =>
                 \A other \in readiness' : ReadinessKey(other) # ReadinessKey(row)
    BY <1>4 DEF Respects
  <2>3. QED  BY <1>1, <1>3, <1>5, <1>6, <2>1, <2>2 DEF Keeps, Relies, ReliesReady
<1>12. \A mode : Locks(t, Singleton, mode) => active' = active
  BY <1>4 DEF Respects
<1>13. ReliesActivate(t)'
  <2>1. \A d : ReadyComponents(d) = Components => ReadyComponents(d)' = Components
    <3>1. \A d : ReadyComponents(d) \subseteq ReadyComponents(d)'
      BY DEF Respects, ReadyComponents
    <3>2. \A d : ReadyComponents(d)' \subseteq Components
      BY DEF TypeOK, ReadinessRows, ReadyComponents
    <3>3. QED  BY <3>1, <3>2
  <2>2. QED  BY <1>1, <1>3, <1>12, <2>1 DEF Keeps, Relies, ReliesActivate
<1>14. ReliesStart(t)'
  <2>1. \A row \in RequestRows : row.dataset \in Datasets
    BY DEF RequestRows
  <2>2. \A id : Locks(t, <<"run key", id>>, "update") /\ (\A q \in requests : q.id # id) =>
                \A q \in requests' : q.id # id
    BY <1>4 DEF Respects
  <2>3. QED  BY <1>1, <1>3, <1>5, <1>12, <2>1, <2>2 DEF Keeps, Relies, ReliesStart
<1>15. QED
  BY <1>2, <1>7, <1>8, <1>9, <1>10, <1>11, <1>13, <1>14 DEF Relies

LEMMA UniqueInductive == TypeOK /\ RowsAreUnique /\ [Next]_vars => RowsAreUnique'
<1> SUFFICES ASSUME TypeOK, RowsAreUnique, [Next]_vars PROVE RowsAreUnique'
  OBVIOUS
<1>1. ASSUME NEW v \in ValidationRows, RecordValidation(v) PROVE RowsAreUnique'
  BY <1>1 DEF RecordValidation, RowsAreUnique
<1>2. ASSUME NEW row \in ReadinessRows, RecordReadiness(row) PROVE RowsAreUnique'
  BY <1>2 DEF RecordReadiness, RowsAreUnique
<1>3. CASE UNCHANGED <<validations, readiness>>
  BY <1>3 DEF RowsAreUnique
<1> QED
  BY <1>1, <1>2, <1>3
  DEF Next, CreateDataset, Activate, WriteRow, FinishValidation, StartRequest, vars

\* A transaction that ends leaves nothing but what it has committed.
LEMMA EndKeeps ==
  ASSUME TInv, NEW s \in Sessions, End(s), [Next]_vars, Respects(s), DefinitionsAreUnique'
  PROVE  TInv'
<1>1. TypeOK' /\ RowsAreUnique'
  BY TypeInductive, UniqueInductive DEF TInv
<1>2. SessionsTyped'
  BY DEF TInv, SessionsTyped, End
<1>3. /\ call'[s] = NoCall /\ pc'[s] = "idle" /\ held'[s] = {} /\ inserted'[s] = 0
      /\ \A t \in Sessions : t # s => Keeps(t)
  BY DEF TInv, SessionsTyped, End, Keeps
<1>4. LocksAreExclusive'
  BY <1>3 DEF TInv, LocksAreExclusive, Keeps, Conflicts
<1>5. Relies(s)' /\ KindsFit(s)' /\ SessionFits(s)' /\ KeysFit(s)'
  BY <1>3 DEF Relies, ReliesCreate, ReliesWrite, ReliesValidate, ReliesFinish, ReliesReady,
              ReliesActivate, ReliesStart, KindsFit, SessionFits, KeysFit, NoCall
<1>6. \A t \in Sessions : t # s =>
        Relies(t)' /\ KindsFit(t)' /\ SessionFits(t)' /\ KeysFit(t)'
  BY <1>1, <1>3, OthersRely
<1>7. QED  BY <1>1, <1>2, <1>4, <1>5, <1>6 DEF TInv

LEMMA AbortKeeps ==
  ASSUME TInv, NEW s \in Sessions, End(s), UNCHANGED <<vars, definitions>>
  PROVE  TInv'
<1>1. Respects(s) /\ DefinitionsAreUnique'
  BY DEF Respects, vars, TInv, DefinitionsAreUnique
<1>2. QED  BY <1>1, EndKeeps

\* A session that has taken a step within its transaction.
LEMMA StepKeeps ==
  ASSUME TInv, NEW s \in Sessions, UNCHANGED <<vars, definitions>>,
         \A t \in Sessions : t # s => Keeps(t), SessionsTyped', LocksAreExclusive',
         Relies(s)', KindsFit(s)', SessionFits(s)', KeysFit(s)'
  PROVE  TInv'
<1>1. TypeOK' /\ RowsAreUnique' /\ DefinitionsAreUnique'
  BY TypeInductive, UniqueInductive DEF TInv, DefinitionsAreUnique
<1>2. Respects(s)
  BY DEF Respects, vars
<1>3. \A t \in Sessions : t # s =>
        Relies(t)' /\ KindsFit(t)' /\ SessionFits(t)' /\ KeysFit(t)'
  BY <1>1, <1>2, OthersRely
<1>4. QED  BY <1>1, <1>3 DEF TInv

LEMMA BeginKeeps ==
  ASSUME TInv, NEW s \in Sessions, NEW c \in Calls, Begin(s, c)
  PROVE  TInv'
<1>1. /\ c.op \in {"create", "write", "activate"} => c.dataset \in Datasets
      /\ c.op = "write" => c.fact \in Facts /\ c.batch \in Batches
      /\ c.op = "validate" => c.row \in ValidationRows
      /\ c.op = "ready" => c.row \in ReadinessRows
      /\ c.op = "start" => c.row \in RequestRows
      /\ c.op \in {"create", "write", "validate", "finish", "ready", "activate", "start"}
  BY DEF Calls
<1>2. /\ call'[s] = c /\ pc'[s] = FirstStatement[c.op] /\ pc[s] = "idle"
      /\ held' = held /\ pointer' = pointer /\ UNCHANGED <<vars, definitions>>
      /\ inserted'[s] = 0
      /\ \A t \in Sessions : t # s => Keeps(t)
  BY DEF TInv, SessionsTyped, SessionFits, Begin, Keeps
<1>3. SessionsTyped'
  BY DEF TInv, SessionsTyped, Begin
<1>4. LocksAreExclusive'
  BY <1>2 DEF TInv, LocksAreExclusive, Conflicts
<1>5. held'[s] = {}
  BY <1>2 DEF TInv, KindsFit, Kinds
<1>6. Relies(s)' /\ KindsFit(s)' /\ SessionFits(s)' /\ KeysFit(s)'
  <2>1. /\ c.op = "create" => pc'[s] = "create key"
        /\ c.op = "write" => pc'[s] = "write key"
        /\ c.op = "validate" => pc'[s] = "validate trigger"
        /\ c.op = "finish" => pc'[s] = "finish validation"
        /\ c.op = "ready" => pc'[s] = "ready validation"
        /\ c.op = "activate" => pc'[s] = "activate key"
        /\ c.op = "start" => pc'[s] = "start key"
    <3>1. /\ FirstStatement["create"] = "create key" /\ FirstStatement["write"] = "write key"
          /\ FirstStatement["validate"] = "validate trigger"
          /\ FirstStatement["finish"] = "finish validation"
          /\ FirstStatement["ready"] = "ready validation"
          /\ FirstStatement["activate"] = "activate key"
          /\ FirstStatement["start"] = "start key"
      BY DEF FirstStatement
    <3>2. QED  BY <1>2, <3>1
  <2>2. KindsFit(s)' /\ SessionFits(s)' /\ KeysFit(s)'
    BY <1>1, <1>2, <1>5, <2>1 DEF KindsFit, SessionFits, KeysFit, FirstStatement
  <2>3. ReliesCreate(s)' /\ ReliesValidate(s)' /\ ReliesFinish(s)'
    BY <1>1, <1>2, <2>1 DEF ReliesCreate, ReliesValidate, ReliesFinish
  <2>6. ReliesWrite(s)'
    <3>1. c.op = "write" => Len(c.batch) \in Nat
      BY <1>1, BatchAssumption
    <3>2. c.op = "write" => 0 \in 0..Len(c.batch) /\ 1..0 = {}
      BY <3>1
    <3>3. QED  BY <1>1, <1>2, <2>1, <3>2 DEF ReliesWrite, WithTrigger
  <2>4. ReliesReady(s)' /\ ReliesActivate(s)' /\ ReliesStart(s)'
    BY <1>1, <1>2, <2>1 DEF ReliesReady, ReliesActivate, ReliesStart
  <2>5. QED  BY <2>2, <2>3, <2>4, <2>6 DEF Relies
<1>7. QED  BY <1>2, <1>3, <1>4, <1>6, StepKeeps

\* A statement that passes: its session holds one lock more, which nobody else
\* has in a conflicting mode.
Passes(s, seen, next) ==
  /\ \A t \in Sessions : ~Blocks(t, s)
  /\ held' = [held EXCEPT ![s] = @ \cup {NextLock(s)}]
  /\ pointer' = [pointer EXCEPT ![s] = seen]
  /\ pc' = [pc EXCEPT ![s] = next]
  /\ UNCHANGED <<call, inserted>>
  /\ UNCHANGED <<vars, definitions>>

LEMMA OneLockMore ==
  ASSUME TInv, NEW s \in Sessions, NEW l, held'[s] \subseteq held[s] \cup {l},
         \A t \in Sessions : t # s => held'[t] = held[t],
         \A t \in Sessions : t # s => \A m \in held[t] : ~Conflicts(m, l) /\ ~Conflicts(l, m)
  PROVE  LocksAreExclusive'
<1> SUFFICES ASSUME NEW a \in Sessions, NEW b \in Sessions, a # b,
                    NEW x \in held'[a], NEW y \in held'[b]
             PROVE  ~Conflicts(x, y)
  BY DEF LocksAreExclusive, Conflicts
<1>1. \A c, d \in Sessions : c # d => \A m \in held[c], n \in held[d] : ~Conflicts(m, n)
  BY DEF TInv, LocksAreExclusive
<1>2. CASE a = s
  BY <1>1, <1>2
<1>3. CASE b = s
  BY <1>1, <1>3
<1>4. CASE a # s /\ b # s
  BY <1>1, <1>4
<1>5. QED  BY <1>2, <1>3, <1>4

LEMMA PassKeeps ==
  ASSUME TInv, NEW s \in Sessions, pc[s] \in Waitable, pc[s] # "write definition",
         NEW seen, NEW next,
         Passes(s, seen, next), Relies(s)', KindsFit(s)', next # "idle"
  PROVE  TInv'
<1>1. /\ held'[s] = held[s] \cup {NextLock(s)} /\ pc'[s] = next /\ call'[s] = call[s]
      /\ inserted'[s] = inserted[s]
      /\ UNCHANGED <<vars, definitions>> /\ \A t \in Sessions : t # s => Keeps(t)
  BY DEF TInv, SessionsTyped, Passes, Keeps
<1>2. SessionsTyped'
  BY DEF TInv, SessionsTyped, Passes
<1>3. LocksAreExclusive'
  <2>1. \A t \in Sessions : t # s => \A l \in held[t] :
          ~Conflicts(l, NextLock(s)) /\ ~Conflicts(NextLock(s), l)
    BY DEF Passes, Blocks, Conflicts
  <2>2. \A t \in Sessions : t # s => held'[t] = held[t]
    BY <1>1 DEF Keeps
  <2>3. held'[s] \subseteq held[s] \cup {NextLock(s)}
    BY <1>1
  <2>4. QED  BY <2>1, <2>2, <2>3, OneLockMore
<1>4. SessionFits(s)'
  BY <1>1 DEF TInv, SessionFits, Waitable, FirstStatement
<1>5. KeysFit(s)'
  <2>1. NextLock(s)[1][1] # "metric key"
    BY NextLockKind DEF KindAt, Waitable
  <2>2. QED  BY <1>1, <2>1 DEF TInv, KeysFit
<1>6. QED  BY <1>1, <1>2, <1>3, <1>4, <1>5, StepKeeps

\* What a session relies on is what its kind of call relies on.
LEMMA OwnRelies ==
  ASSUME NEW s \in Sessions
  PROVE  /\ call'[s].op = "create" /\ ReliesCreate(s)' => Relies(s)'
         /\ call'[s].op = "write" /\ ReliesWrite(s)' => Relies(s)'
         /\ call'[s].op = "validate" /\ ReliesValidate(s)' => Relies(s)'
         /\ call'[s].op = "finish" /\ ReliesFinish(s)' => Relies(s)'
         /\ call'[s].op = "ready" /\ ReliesReady(s)' => Relies(s)'
         /\ call'[s].op = "activate" /\ ReliesActivate(s)' => Relies(s)'
         /\ call'[s].op = "start" /\ ReliesStart(s)' => Relies(s)'
BY DEF Relies, ReliesCreate, ReliesWrite, ReliesValidate, ReliesFinish, ReliesReady,
       ReliesActivate, ReliesStart

LEMMA PassEffect ==
  ASSUME TInv, NEW s \in Sessions, NEW seen, NEW next, Passes(s, seen, next)
  PROVE  /\ call'[s] = call[s] /\ pc'[s] = next /\ pointer'[s] = seen
         /\ inserted'[s] = inserted[s] /\ definitions' = definitions
         /\ held'[s] = held[s] \cup {NextLock(s)}
         /\ status' = status /\ content' = content /\ validations' = validations
         /\ readiness' = readiness /\ active' = active /\ requests' = requests
BY DEF TInv, SessionsTyped, Passes, vars

LEMMA BuildingStatements ==
  ASSUME TInv, NEW s \in Sessions, CreateKey(s) \/ WriteKey(s) \/ WriteTrigger(s)
  PROVE  TInv'
<1>1. Relies(s) /\ KindsFit(s)
  BY DEF TInv
<1>2. CASE pc[s] = "create key" /\ Passes(s, pointer[s], "commit")
  <2>1. call[s].op = "create"
    BY <1>2, OpAt
  <2>2. Relies(s)' /\ KindsFit(s)'
    BY <1>1, <1>2, <2>1, OwnRelies, PassEffect DEF Relies, ReliesCreate, KindsFit
  <2>3. QED  BY <1>2, <2>2, PassKeeps DEF Waitable
<1>3. CASE pc[s] = "write key" /\ Passes(s, pointer[s], "write row")
  <2>1. call[s].op = "write"
    BY <1>3, OpAt
  <2>2. NextLock(s) = <<<<"build key", call[s].dataset>>, "update">>
    BY <1>3 DEF NextLock
  <2>3. /\ call'[s] = call[s] /\ pc'[s] = "write row" /\ inserted'[s] = inserted[s]
        /\ held'[s] = held[s] \cup {NextLock(s)}
    BY <1>3, PassEffect
  <2>4. ReliesWrite(s)'
    <3>1. /\ call[s].dataset \in Datasets /\ call[s].fact \in Facts
          /\ call[s].batch \in Batches /\ inserted[s] = 0
      BY <1>1, <1>3, <2>1 DEF Relies, ReliesWrite
    <3>2. 0 \in 0..Len(call[s].batch) /\ \A i \in 1..0 : FALSE
      BY <3>1, BatchAssumption
    <3>3. Locks(s, <<"build key", call[s].dataset>>, "update")'
      BY <2>2, <2>3 DEF Locks
    <3>4. QED  BY <2>1, <2>3, <3>1, <3>2, <3>3 DEF ReliesWrite, WithTrigger
  <2>5. held[s] = {} /\ NextLock(s)[1][1] = "build key"
    BY <1>1, <1>3, NextLockKind DEF KindsFit, Kinds, Waitable, KindAt
  <2>6. Relies(s)' /\ KindsFit(s)'
    BY <2>1, <2>3, <2>4, <2>5, OwnRelies DEF KindsFit, Kinds
  <2>7. QED  BY <1>3, <2>6, PassKeeps DEF Waitable
<1>4. CASE /\ pc[s] = "write row" /\ status[call[s].dataset] = "building"
           /\ Passes(s, pointer[s], AfterTrigger(s))
  <2> DEFINE b == call[s].batch
  <2>1. call[s].op = "write" /\ inserted[s] = 0 /\ b \in Seq(MetricDefinitions)
    BY <1>1, <1>4, OpAt, BatchAssumption DEF Relies, ReliesWrite
  <2>2. NextLock(s) = <<DatasetRow(call[s].dataset), "share">>
    BY <1>4 DEF NextLock
  <2>3. /\ call'[s] = call[s] /\ pc'[s] = AfterTrigger(s) /\ status' = status
        /\ inserted'[s] = 0 /\ definitions' = definitions
        /\ held'[s] = held[s] \cup {NextLock(s)}
    BY <1>4, <2>1 DEF TInv, SessionsTyped, Passes, vars
  <2>4. \/ AfterTrigger(s) = "commit" /\ Len(b) = 0 /\ DOMAIN b = {}
        \/ AfterTrigger(s) = "write definition" /\ 0 < Len(b)
    BY <2>1 DEF AfterTrigger
  <2>5. AfterTrigger(s) = "commit" => Agree(b)'
    BY <2>3, <2>4 DEF Agree
  <2>6. ReliesWrite(s)'
    <3>1. /\ call[s].dataset \in Datasets /\ call[s].fact \in Facts /\ b \in Batches
          /\ Locks(s, <<"build key", call[s].dataset>>, "update")
      BY <1>1, <1>4, <2>1 DEF Relies, ReliesWrite
    <3>2. 0 \in 0..Len(b) /\ \A i \in 1..0 : FALSE
      BY <2>1
    <3>3. /\ Locks(s, <<"build key", call[s].dataset>>, "update")'
          /\ Locks(s, DatasetRow(call[s].dataset), "share")'
      BY <2>2, <2>3, <3>1 DEF Locks
    <3>4. status'[call'[s].dataset] = "building" /\ call'[s].batch = b
      BY <1>4, <2>3
    <3>5. QED
      BY <2>1, <2>3, <2>4, <2>5, <3>1, <3>2, <3>3, <3>4 DEF ReliesWrite, WithTrigger
  <2>7. (\A l \in held[s] : l[1][1] = "build key") /\ NextLock(s)[1][1] = "dataset"
    BY <1>1, <1>4, NextLockKind DEF KindsFit, Kinds, Waitable, KindAt
  <2>8. Relies(s)' /\ KindsFit(s)'
    BY <2>1, <2>3, <2>4, <2>6, <2>7, OwnRelies DEF KindsFit, Kinds
  <2>9. QED  BY <1>4, <2>4, <2>8, PassKeeps DEF Waitable
<1>5. CASE End(s) /\ UNCHANGED <<vars, definitions>>
  BY <1>5, AbortKeeps
<1>6. QED
  BY <1>2, <1>3, <1>4, <1>5 DEF CreateKey, WriteKey, WriteTrigger, Check, Statement, Passes

LEMMA InsertsDefinition ==
  ASSUME TInv, NEW s \in Sessions, WriteDefinition(s)
  PROVE  TInv'
<1> DEFINE b == call[s].batch
           n == inserted[s]
           m == b[n + 1].metric
<1>1. Relies(s) /\ KindsFit(s) /\ SessionFits(s) /\ KeysFit(s) /\ pc[s] = "write definition"
  BY DEF TInv, WriteDefinition
<1>2. call[s].op = "write"
  BY <1>1, OpAt
<1>3. /\ b \in Batches /\ n \in 0..Len(b) /\ n < Len(b)
      /\ \A i \in 1..n : Stored(b[i].metric) \/ Locks(s, MetricKey(b[i].metric), "update")
  BY <1>1, <1>2 DEF Relies, ReliesWrite
<1>4. b \in Seq(MetricDefinitions) /\ Len(b) \in Nat
  BY <1>3, BatchAssumption
<1>5. NextLock(s) = <<MetricKey(m), "update">>
  BY <1>1 DEF NextLock
<1>6. /\ call'[s] = call[s] /\ inserted'[s] = n + 1 /\ status' = status
      /\ held'[s] = IF Stored(m) THEN held[s] ELSE held[s] \cup {NextLock(s)}
      /\ pc'[s] = IF n + 1 = Len(b) THEN "compare definitions" ELSE "write definition"
      /\ \A t \in Sessions : t # s => Keeps(t)
      /\ UNCHANGED <<vars, definitions>>
  BY <1>1 DEF TInv, SessionsTyped, WriteDefinition, Keeps, vars
<1>7. SessionsTyped'
  BY DEF TInv, SessionsTyped, WriteDefinition
<1>8. LocksAreExclusive'
  <2>1. \A t \in Sessions : t # s => \A l \in held[t] :
          ~Conflicts(l, NextLock(s)) /\ ~Conflicts(NextLock(s), l)
    BY DEF WriteDefinition, Blocks, Conflicts, Waitable
  <2>2. held'[s] \subseteq held[s] \cup {NextLock(s)}
    BY <1>6
  <2>3. \A t \in Sessions : t # s => held'[t] = held[t]
    BY <1>6 DEF Keeps
  <2>4. QED  BY <2>1, <2>2, <2>3, OneLockMore
<1>9. \A what, mode : Locks(s, what, mode) => Locks(s, what, mode)'
  BY <1>6 DEF Locks
<1>10. \A i : i = n + 1 => Stored(b[i].metric)' \/ Locks(s, MetricKey(b[i].metric), "update")'
  <2> SUFFICES ASSUME NEW i, i = n + 1
               PROVE  Stored(b[i].metric)' \/ Locks(s, MetricKey(b[i].metric), "update")'
    OBVIOUS
  <2>1. Stored(b[i].metric)' <=> Stored(m)
    BY <1>6 DEF Stored
  <2>2. ~Stored(m) => <<MetricKey(m), "update">> \in held'[s]
    BY <1>5, <1>6
  <2>3. b'[i].metric = m
    BY <1>6
  <2>4. QED  BY <2>1, <2>2, <2>3 DEF Locks
<1>11. \A i \in 1..(n + 1) :
         Stored(b[i].metric)' \/ Locks(s, MetricKey(b[i].metric), "update")'
  <2>1. ASSUME NEW i \in 1..(n + 1), i # n + 1
        PROVE  Stored(b[i].metric)' \/ Locks(s, MetricKey(b[i].metric), "update")'
    <3>1. i \in 1..n
      BY <1>3, <2>1
    <3>2. Stored(b[i].metric) => Stored(b[i].metric)'
      BY <1>6 DEF Stored
    <3>3. Locks(s, MetricKey(b[i].metric), "update") =>
            Locks(s, MetricKey(b[i].metric), "update")'
      BY <1>6 DEF Locks
    <3>4. QED  BY <1>3, <3>1, <3>2, <3>3
  <2>2. QED  BY <1>10, <2>1
<1>12. ReliesWrite(s)'
  <2>1. n + 1 \in 0..Len(b) /\ (n + 1 # Len(b) => n + 1 < Len(b))
    <3>1. \A i, k \in Nat : i < k => i + 1 \in 0..k /\ (i + 1 # k => i + 1 < k)
      OBVIOUS
    <3>2. n \in Nat
      BY <1>3
    <3>3. QED  BY <1>3, <1>4, <3>1, <3>2
  <2>2. /\ call[s].dataset \in Datasets /\ call[s].fact \in Facts
        /\ status[call[s].dataset] = "building"
        /\ Locks(s, <<"build key", call[s].dataset>>, "update")
        /\ Locks(s, DatasetRow(call[s].dataset), "share")
    BY <1>1, <1>2 DEF Relies, ReliesWrite, WithTrigger
  <2>3. /\ Locks(s, <<"build key", call[s].dataset>>, "update")'
        /\ Locks(s, DatasetRow(call[s].dataset), "share")'
    BY <1>6, <2>2 DEF Locks
  <2>4. status'[call'[s].dataset] = "building" /\ call'[s].batch = b
    BY <1>6, <2>2
  <2>5. QED
    BY <1>2, <1>3, <1>6, <1>11, <2>1, <2>2, <2>3, <2>4 DEF ReliesWrite, WithTrigger
<1>13. SessionFits(s)' /\ KindsFit(s)'
  <2>1. \A l \in held'[s] : l[1][1] \in {"build key", "dataset", "metric key"}
    <3>1. \A l \in held[s] : l[1][1] \in {"build key", "dataset", "metric key"}
      BY <1>1 DEF KindsFit, Kinds
    <3>2. NextLock(s)[1][1] = "metric key"
      BY <1>1, NextLockKind DEF Waitable, KindAt
    <3>3. QED  BY <1>6, <3>1, <3>2
  <2>2. QED  BY <1>1, <1>6, <2>1 DEF KindsFit, Kinds, SessionFits
<1>14. KeysFit(s)'
  <2>1. ASSUME NEW l \in held'[s], l[1][1] = "metric key"
        PROVE  \E i \in 1..(n + 1) : l[1] = MetricKey(b[i].metric)
    <3>1. CASE l \in held[s]
      <4>1. PICK i \in 1..n : l[1] = MetricKey(b[i].metric)
        BY <1>1, <2>1, <3>1 DEF KeysFit
      <4>2. i \in 1..(n + 1)
        BY <1>3
      <4>3. QED  BY <4>1, <4>2
    <3>2. CASE l \notin held[s]
      <4>1. l = NextLock(s)
        BY <1>6, <2>1, <3>2
      <4>2. l[1] = MetricKey(b[n + 1].metric) /\ n + 1 \in 1..(n + 1)
        BY <1>3, <1>5, <4>1
      <4>3. QED  BY <4>2
    <3>3. QED  BY <3>1, <3>2
  <2>2. QED  BY <1>2, <1>6, <2>1 DEF KeysFit
<1>15. Relies(s)'
  BY <1>2, <1>6, <1>12, OwnRelies
<1>16. QED  BY <1>6, <1>7, <1>8, <1>13, <1>14, <1>15, StepKeeps

LEMMA ComparesDefinitions ==
  ASSUME TInv, NEW s \in Sessions, CompareDefinitions(s)
  PROVE  TInv'
<1>1. Relies(s) /\ KeysFit(s) /\ SessionFits(s) /\ pc[s] = "compare definitions"
  BY DEF TInv, CompareDefinitions
<1>2. call[s].op = "write"
  BY <1>1, OpAt
<1>3. CASE End(s)
  BY <1>3, AbortKeeps DEF CompareDefinitions
<1>4. CASE ~End(s)
  <2>1. /\ Agree(call[s].batch) /\ UNCHANGED <<vars, definitions>> /\ pc'[s] = "commit"
        /\ UNCHANGED <<call, held, inserted>> /\ \A t \in Sessions : t # s => Keeps(t)
        /\ SessionsTyped'
    BY <1>4 DEF CompareDefinitions, TInv, SessionsTyped, Keeps
  <2>2. ReliesWrite(s)'
    BY <1>1, <1>2, <2>1 DEF Relies, ReliesWrite, WithTrigger, Locks, Stored, Agree, vars
  <2>3. KindsFit(s)' /\ KeysFit(s)' /\ SessionFits(s)'
    BY <1>1, <1>2, <2>1 DEF KindsFit, KeysFit, SessionFits
  <2>4. LocksAreExclusive'
    BY <2>1 DEF TInv, LocksAreExclusive, Conflicts
  <2>5. Relies(s)'
    BY <1>2, <2>1, <2>2, OwnRelies
  <2>6. QED  BY <2>1, <2>3, <2>4, <2>5, StepKeeps
<1>5. QED  BY <1>3, <1>4

LEMMA ValidatingStatements ==
  ASSUME TInv, NEW s \in Sessions,
         ValidateTrigger(s) \/ ValidateInsert(s) \/ FinishRun(s) \/ FinishDataset(s)
  PROVE  TInv'
<1>1. Relies(s) /\ KindsFit(s)
  BY DEF TInv
<1>2. CASE /\ pc[s] = "validate trigger" /\ status[call[s].row.dataset] = "building"
           /\ Passes(s, pointer[s], "validate insert")
  <2>1. call[s].op = "validate"
    BY <1>2, OpAt
  <2>2. NextLock(s) = <<DatasetRow(call[s].row.dataset), "share">>
    BY <1>2 DEF NextLock
  <2>3. /\ call'[s] = call[s] /\ pc'[s] = "validate insert" /\ status' = status
        /\ held'[s] = held[s] \cup {NextLock(s)}
    <3>1. Passes(s, pointer[s], "validate insert")
      BY <1>2
    <3>2. QED  BY <3>1, PassEffect
  <2>4. ReliesValidate(s)'
    BY <1>1, <1>2, <2>1, <2>2, <2>3 DEF Relies, ReliesValidate, Locks
  <2>5. held[s] = {} /\ NextLock(s)[1][1] = "dataset"
    BY <1>1, <1>2, NextLockKind DEF KindsFit, Kinds, KindAt, Waitable
  <2>6. Relies(s)' /\ KindsFit(s)'
    BY <2>1, <2>3, <2>4, <2>5, OwnRelies DEF KindsFit, Kinds
  <2>7. QED  BY <1>2, <2>6, PassKeeps DEF Waitable
<1>3. CASE /\ pc[s] = "validate insert" /\ ~Known(call[s].row.id)
           /\ Passes(s, pointer[s], "commit")
  <2>1. call[s].op = "validate"
    BY <1>3, OpAt
  <2>2. NextLock(s) = <<ValidationKey(call[s].row.id), "update">>
    BY <1>3 DEF NextLock
  <2>3. /\ call'[s] = call[s] /\ pc'[s] = "commit" /\ status' = status
        /\ validations' = validations /\ held'[s] = held[s] \cup {NextLock(s)}
    BY <1>3, PassEffect
  <2>4. ReliesValidate(s)'
    BY <1>1, <1>3, <2>1, <2>2, <2>3 DEF Relies, ReliesValidate, Locks, Known
  <2>5. Relies(s)' /\ KindsFit(s)'
    BY <2>1, <2>3, <2>4, OwnRelies DEF KindsFit
  <2>6. QED  BY <1>3, <2>5, PassKeeps DEF Waitable
<1>4. CASE /\ pc[s] = "finish validation" /\ Known(call[s].id)
           /\ Passes(s, pointer[s], "finish dataset")
  <2>1. call[s].op = "finish"
    BY <1>4, OpAt
  <2>2. NextLock(s) = <<ValidationRow(call[s].id), "update">>
    BY <1>4 DEF NextLock
  <2>3. /\ call'[s] = call[s] /\ pc'[s] = "finish dataset"
        /\ validations' = validations /\ held'[s] = held[s] \cup {NextLock(s)}
    BY <1>4, PassEffect
  <2>4. ReliesFinish(s)'
    BY <1>1, <1>4, <2>1, <2>3 DEF Relies, ReliesFinish, Known
  <2>5. held[s] = {} /\ NextLock(s)[1][1] = "validation"
    BY <1>1, <1>4, NextLockKind DEF KindsFit, Kinds, KindAt, Waitable
  <2>6. Relies(s)' /\ KindsFit(s)'
    BY <2>1, <2>3, <2>4, <2>5, OwnRelies DEF KindsFit, Kinds
  <2>7. QED  BY <1>4, <2>6, PassKeeps DEF Waitable
<1>5. CASE /\ pc[s] = "finish dataset" /\ status[ValidationOf(call[s].id).dataset] = "building"
           /\ Passes(s, pointer[s], "commit")
  <2>1. call[s].op = "finish"
    BY <1>5, OpAt
  <2>2. NextLock(s) = <<DatasetRow(ValidationOf(call[s].id).dataset), "update">>
    BY <1>5 DEF NextLock
  <2>3. /\ call'[s] = call[s] /\ pc'[s] = "commit" /\ status' = status
        /\ validations' = validations /\ held'[s] = held[s] \cup {NextLock(s)}
    BY <1>5 DEF TInv, SessionsTyped, Passes, vars
  <2>4. Known(call[s].id)' /\ ValidationOf(call[s].id)' = ValidationOf(call[s].id)
    BY <1>1, <1>5, <2>1, <2>3 DEF Relies, ReliesFinish, Known, ValidationOf
  <2>5. ReliesFinish(s)'
    BY <1>1, <1>5, <2>1, <2>2, <2>3, <2>4 DEF ReliesFinish, Locks
  <2>6. Relies(s)' /\ KindsFit(s)'
    BY <2>1, <2>3, <2>5, OwnRelies DEF KindsFit
  <2>7. QED  BY <1>5, <2>6, PassKeeps DEF Waitable
<1>6. CASE End(s) /\ UNCHANGED <<vars, definitions>>
  BY <1>6, AbortKeeps
<1>7. QED
  BY <1>2, <1>3, <1>4, <1>5, <1>6
  DEF ValidateTrigger, ValidateInsert, FinishRun, FinishDataset, Check, Statement, Passes

LEMMA ReadinessStatements ==
  ASSUME TInv, NEW s \in Sessions, ReadyValidation(s) \/ ReadyDataset(s) \/ ReadyInsert(s)
  PROVE  TInv'
<1>1. Relies(s) /\ KindsFit(s)
  BY DEF TInv
<1>2. CASE /\ pc[s] = "ready validation" /\ Passed(call[s].row.validation, call[s].row.dataset)
           /\ Passes(s, pointer[s], "ready dataset")
  <2>1. call[s].op = "ready"
    BY <1>2, OpAt
  <2>2. /\ call'[s] = call[s] /\ pc'[s] = "ready dataset"
        /\ validations' = validations /\ held'[s] = held[s] \cup {NextLock(s)}
    BY <1>2, PassEffect
  <2>3. ReliesReady(s)'
    BY <1>1, <1>2, <2>1, <2>2 DEF Relies, ReliesReady, Passed
  <2>4. held[s] = {} /\ NextLock(s)[1][1] = "validation"
    BY <1>1, <1>2, NextLockKind DEF KindsFit, Kinds, KindAt, Waitable
  <2>5. Relies(s)' /\ KindsFit(s)'
    BY <2>1, <2>2, <2>3, <2>4, OwnRelies DEF KindsFit, Kinds
  <2>6. QED  BY <1>2, <2>5, PassKeeps DEF Waitable
<1>3. CASE /\ pc[s] = "ready dataset" /\ status[call[s].row.dataset] \in {"building", "validated"}
           /\ Passes(s, pointer[s], "ready insert")
  <2>1. call[s].op = "ready"
    BY <1>3, OpAt
  <2>2. NextLock(s) = <<DatasetRow(call[s].row.dataset), "share">>
    BY <1>3 DEF NextLock, LockedForReadiness
  <2>3. /\ call'[s] = call[s] /\ pc'[s] = "ready insert" /\ status' = status
        /\ validations' = validations /\ held'[s] = held[s] \cup {NextLock(s)}
    BY <1>3, PassEffect
  <2>4. ReliesReady(s)'
    BY <1>1, <1>3, <2>1, <2>2, <2>3 DEF Relies, ReliesReady, Passed, Locks
  <2>5. (\A l \in held[s] : l[1][1] = "validation") /\ NextLock(s)[1][1] = "dataset"
    BY <1>1, <1>3, NextLockKind DEF KindsFit, Kinds, KindAt, Waitable
  <2>6. Relies(s)' /\ KindsFit(s)'
    BY <2>1, <2>3, <2>4, <2>5, OwnRelies DEF KindsFit, Kinds
  <2>7. QED  BY <1>3, <2>6, PassKeeps DEF Waitable
<1>4. CASE /\ pc[s] = "ready insert"
           /\ \A other \in readiness : ReadinessKey(other) # ReadinessKey(call[s].row)
           /\ Passes(s, pointer[s], "commit")
  <2>1. call[s].op = "ready"
    BY <1>4, OpAt
  <2>2. NextLock(s) = <<ReadinessKey(call[s].row), "update">>
    BY <1>4 DEF NextLock
  <2>3. /\ call'[s] = call[s] /\ pc'[s] = "commit" /\ status' = status
        /\ validations' = validations /\ readiness' = readiness
        /\ held'[s] = held[s] \cup {NextLock(s)}
    BY <1>4, PassEffect
  <2>4. ReliesReady(s)'
    BY <1>1, <1>4, <2>1, <2>2, <2>3 DEF Relies, ReliesReady, Passed, Locks
  <2>5. Relies(s)' /\ KindsFit(s)'
    BY <2>1, <2>3, <2>4, OwnRelies DEF KindsFit
  <2>6. QED  BY <1>4, <2>5, PassKeeps DEF Waitable
<1>5. CASE End(s) /\ UNCHANGED <<vars, definitions>>
  BY <1>5, AbortKeeps
<1>6. QED
  BY <1>2, <1>3, <1>4, <1>5 DEF ReadyValidation, ReadyDataset, ReadyInsert, Check, Statement, Passes

\* Activation counts a dataset's readiness rows; since no component has two,
\* the full count means all components.
LEMMA CountedComponents ==
  ASSUME TypeOK, RowsAreUnique, NEW d \in Datasets,
         Cardinality({row \in readiness : row.dataset = d}) = Cardinality(Components)
  PROVE  ReadyComponents(d) = Components
<1> DEFINE rows == {row \in readiness : row.dataset = d}
           f == [row \in rows |-> row.component]
<1>1. \A row \in rows : row.component \in Components
  BY DEF TypeOK, ReadinessRows
<1>2. \A r, o \in rows : r.component = o.component => r = o
  BY DEF RowsAreUnique
<1>3. f \in Bijection(rows, ReadyComponents(d))
  <2>1. f \in [rows -> ReadyComponents(d)]
    BY DEF ReadyComponents
  <2>2. \A c \in ReadyComponents(d) : \E row \in rows : f[row] = c
    BY DEF ReadyComponents
  <2>3. \A r, o \in rows : f[r] = f[o] => r = o
    BY <1>2
  <2>4. DOMAIN f = rows
    OBVIOUS
  <2> HIDE DEF rows, f
  <2>5. QED  BY <2>1, <2>2, <2>3, <2>4 DEF Bijection, Injection, Surjection, IsInjective
<1>4. ReadyComponents(d) \subseteq Components
  BY <1>1 DEF ReadyComponents
<1>5. IsFiniteSet(ReadyComponents(d))
  BY <1>4, DatasetAssumption, FS_Subset
<1>6. IsFiniteSet(rows) /\ Cardinality(rows) = Cardinality(ReadyComponents(d))
  <2>1. ExistsBijection(rows, ReadyComponents(d))
    BY <1>3 DEF ExistsBijection
  <2>2. ExistsBijection(ReadyComponents(d), rows)
    BY <2>1, Fun_ExistsBijSymmetric
  <2> HIDE DEF rows
  <2>3. IsFiniteSet(rows) /\ Cardinality(rows) = Cardinality(ReadyComponents(d))
    BY <1>5, <2>1, <2>2, FS_Bijection
  <2>4. QED  BY <2>3
<1>7. QED
  BY <1>4, <1>6, DatasetAssumption, FS_Subset

LEMMA ActivatingStatements ==
  ASSUME TInv, NEW s \in Sessions,
         ActivateKey(s) \/ ActivateSingleton(s) \/ ActivateDataset(s) \/ ActivateRetire(s)
  PROVE  TInv'
<1>1. Relies(s) /\ KindsFit(s) /\ TypeOK /\ RowsAreUnique
  BY DEF TInv
<1>2. CASE pc[s] = "activate key" /\ Passes(s, pointer[s], "activate singleton")
  <2>1. call[s].op = "activate"
    BY <1>2, OpAt
  <2>2. /\ call'[s] = call[s] /\ pc'[s] = "activate singleton"
        /\ held'[s] = held[s] \cup {NextLock(s)}
    BY <1>2, PassEffect
  <2>3. ReliesActivate(s)'
    BY <1>1, <1>2, <2>1, <2>2 DEF Relies, ReliesActivate
  <2>4. held[s] = {} /\ NextLock(s)[1][1] = "activation key"
    BY <1>1, <1>2, NextLockKind DEF KindsFit, Kinds, KindAt, Waitable
  <2>5. Relies(s)' /\ KindsFit(s)'
    BY <2>1, <2>2, <2>3, <2>4, OwnRelies DEF KindsFit, Kinds
  <2>6. QED  BY <1>2, <2>5, PassKeeps DEF Waitable
<1>3. CASE pc[s] = "activate singleton" /\ Passes(s, active, "activate dataset")
  <2>1. call[s].op = "activate"
    BY <1>3, OpAt
  <2>2. NextLock(s) = <<Singleton, "update">>
    BY <1>3 DEF NextLock
  <2>3. /\ call'[s] = call[s] /\ pc'[s] = "activate dataset" /\ pointer'[s] = active
        /\ active' = active /\ held'[s] = held[s] \cup {NextLock(s)}
    BY <1>3, PassEffect
  <2>4. ReliesActivate(s)'
    BY <1>1, <1>3, <2>1, <2>2, <2>3 DEF Relies, ReliesActivate, Locks
  <2>5. /\ \A l \in held[s] : l[1][1] = "activation key"
        /\ NextLock(s)[1][1] = "active_dataset"
    BY <1>1, <1>3, NextLockKind DEF KindsFit, Kinds, KindAt, Waitable
  <2>6. Relies(s)' /\ KindsFit(s)'
    BY <2>1, <2>3, <2>4, <2>5, OwnRelies DEF KindsFit, Kinds
  <2>7. QED  BY <1>3, <2>6, PassKeeps DEF Waitable
<1>4. ASSUME pc[s] = "activate dataset", Activatable(call[s].dataset),
             NEW next \in {"commit", "activate retire"}, Passes(s, pointer[s], next),
             next = "commit" => pointer[s] \in {NoDataset, call[s].dataset}
      PROVE  TInv'
  <2>1. call[s].op = "activate"
    BY <1>4, OpAt
  <2>2. NextLock(s) = <<DatasetRow(call[s].dataset), "update">>
    BY <1>4 DEF NextLock
  <2>3. /\ call'[s] = call[s] /\ pc'[s] = next /\ pointer'[s] = pointer[s]
        /\ active' = active /\ readiness' = readiness /\ held'[s] = held[s] \cup {NextLock(s)}
    BY <1>4, PassEffect
  <2>4. call[s].dataset \in Current /\ ReadyComponents(call[s].dataset) = Components
    BY <1>1, <1>4, <2>1, CountedComponents DEF Activatable, Relies, ReliesActivate
  <2>5. ReadyComponents(call[s].dataset)' = Components
    BY <2>3, <2>4 DEF ReadyComponents
  <2>6. ReliesActivate(s)'
    BY <1>1, <1>4, <2>1, <2>2, <2>3, <2>4, <2>5 DEF Relies, ReliesActivate, Locks
  <2>7. /\ \A l \in held[s] : l[1][1] \in {"activation key", "active_dataset"}
        /\ NextLock(s)[1][1] = "dataset"
    BY <1>1, <1>4, NextLockKind DEF KindsFit, Kinds, KindAt, Waitable
  <2>8. Relies(s)' /\ KindsFit(s)'
    BY <1>4, <2>1, <2>3, <2>6, <2>7, OwnRelies DEF KindsFit, Kinds
  <2>9. QED  BY <1>4, <2>8, PassKeeps DEF Waitable
<1>5. CASE pc[s] = "activate retire" /\ Passes(s, pointer[s], "commit")
  <2>1. call[s].op = "activate"
    BY <1>5, OpAt
  <2>2. NextLock(s) = <<DatasetRow(pointer[s]), "update">>
    BY <1>5 DEF NextLock
  <2>3. /\ call'[s] = call[s] /\ pc'[s] = "commit" /\ pointer'[s] = pointer[s]
        /\ active' = active /\ readiness' = readiness /\ held'[s] = held[s] \cup {NextLock(s)}
    BY <1>5, PassEffect
  <2>4. ReadyComponents(call[s].dataset)' = ReadyComponents(call[s].dataset)
    BY <2>3 DEF ReadyComponents
  <2>5. ReliesActivate(s)'
    BY <1>1, <1>5, <2>1, <2>2, <2>3, <2>4 DEF Relies, ReliesActivate, Locks
  <2>6. Relies(s)' /\ KindsFit(s)'
    BY <2>1, <2>3, <2>5, OwnRelies DEF KindsFit
  <2>7. QED  BY <1>5, <2>6, PassKeeps DEF Waitable
<1>6. CASE End(s) /\ UNCHANGED <<vars, definitions>>
  BY <1>6, AbortKeeps
<1>7. ASSUME ActivateDataset(s) PROVE TInv'
  <2>1. CASE pointer[s] \in {NoDataset, call[s].dataset}
    BY <1>4, <1>6, <1>7, <2>1 DEF ActivateDataset, Check, Statement, Passes
  <2>2. CASE pointer[s] \notin {NoDataset, call[s].dataset}
    BY <1>4, <1>6, <1>7, <2>2 DEF ActivateDataset, Check, Statement, Passes
  <2>3. QED  BY <2>1, <2>2
<1>8. QED
  BY <1>2, <1>3, <1>5, <1>6, <1>7
  DEF ActivateKey, ActivateSingleton, ActivateRetire, Check, Statement, Passes

LEMMA StartingStatements ==
  ASSUME TInv, NEW s \in Sessions, StartKey(s) \/ StartSingleton(s) \/ StartDataset(s)
  PROVE  TInv'
<1>1. Relies(s) /\ KindsFit(s)
  BY DEF TInv
<1>2. CASE /\ pc[s] = "start key" /\ \A q \in requests : q.id # call[s].row.id
           /\ Passes(s, pointer[s], "start singleton")
  <2>1. call[s].op = "start"
    BY <1>2, OpAt
  <2>2. NextLock(s) = <<<<"run key", call[s].row.id>>, "update">>
    BY <1>2 DEF NextLock
  <2>3. /\ call'[s] = call[s] /\ pc'[s] = "start singleton"
        /\ requests' = requests /\ held'[s] = held[s] \cup {NextLock(s)}
    BY <1>2 DEF TInv, SessionsTyped, Passes, vars
  <2>4. ReliesStart(s)'
    BY <1>1, <1>2, <2>1, <2>2, <2>3 DEF Relies, ReliesStart, Locks
  <2>5. held[s] = {} /\ NextLock(s)[1][1] = "run key"
    BY <1>1, <1>2, NextLockKind DEF KindsFit, Kinds, KindAt, Waitable
  <2>6. Relies(s)' /\ KindsFit(s)'
    BY <2>1, <2>3, <2>4, <2>5, OwnRelies DEF KindsFit, Kinds
  <2>7. QED  BY <1>2, <2>6, PassKeeps DEF Waitable
<1>3. CASE pc[s] = "start singleton" /\ Passes(s, active, "start dataset")
  <2>1. call[s].op = "start"
    BY <1>3, OpAt
  <2>2. NextLock(s) = <<Singleton, "share">>
    BY <1>3 DEF NextLock
  <2>3. /\ call'[s] = call[s] /\ pc'[s] = "start dataset" /\ pointer'[s] = active
        /\ active' = active /\ requests' = requests /\ held'[s] = held[s] \cup {NextLock(s)}
    BY <1>3, PassEffect
  <2>4. ReliesStart(s)'
    BY <1>1, <1>3, <2>1, <2>2, <2>3 DEF Relies, ReliesStart, Locks
  <2>5. (\A l \in held[s] : l[1][1] = "run key") /\ NextLock(s)[1][1] = "active_dataset"
    BY <1>1, <1>3, NextLockKind DEF KindsFit, Kinds, KindAt, Waitable
  <2>6. Relies(s)' /\ KindsFit(s)'
    BY <2>1, <2>3, <2>4, <2>5, OwnRelies DEF KindsFit, Kinds
  <2>7. QED  BY <1>3, <2>6, PassKeeps DEF Waitable
<1>4. CASE /\ pc[s] = "start dataset"
           /\ pointer[s] = call[s].row.dataset /\ status[call[s].row.dataset] = "active"
           /\ Passes(s, pointer[s], "commit")
  <2>1. call[s].op = "start"
    BY <1>4, OpAt
  <2>2. NextLock(s) = <<DatasetRow(call[s].row.dataset), "share">>
    BY <1>4 DEF NextLock
  <2>3. /\ call'[s] = call[s] /\ pc'[s] = "commit" /\ pointer'[s] = pointer[s] /\ status' = status
        /\ active' = active /\ requests' = requests /\ held'[s] = held[s] \cup {NextLock(s)}
    BY <1>4 DEF TInv, SessionsTyped, Passes, vars
  <2>4. ReliesStart(s)'
    BY <1>1, <1>4, <2>1, <2>2, <2>3 DEF Relies, ReliesStart, Locks
  <2>5. Relies(s)' /\ KindsFit(s)'
    BY <2>1, <2>3, <2>4, OwnRelies DEF KindsFit
  <2>6. QED  BY <1>4, <2>5, PassKeeps DEF Waitable
<1>5. CASE End(s) /\ UNCHANGED <<vars, definitions>>
  BY <1>5, AbortKeeps
<1>6. QED
  BY <1>2, <1>3, <1>4, <1>5 DEF StartKey, StartSingleton, StartDataset, Check, Statement, Passes
-----------------------------------------------------------------------------
(***************************************************************************)
(* What each kind of transaction commits is an action of DatasetLifecycle  *)
(* or, where the function has nothing left to do, no change at all; and it *)
(* changes only what it has locked.                                        *)
(***************************************************************************)
LEMMA CommitsCreate ==
  ASSUME TInv, NEW s \in Sessions, CommitCreate(s)
  PROVE  [Next]_vars /\ Respects(s) /\ DefinitionsAreUnique'
<1> DEFINE d == call[s].dataset
<1>0. definitions' = definitions /\ DefinitionsAreUnique'
  BY DEF CommitCreate, TInv, DefinitionsAreUnique
<1>1. d \in Datasets
  BY DEF CommitCreate, Commits, TInv, Relies, ReliesCreate
<1>2. CASE status[d] = "absent"
  <2>1. CreateDataset(d)
    BY <1>2 DEF CommitCreate, CreateDataset
  <2>2. QED  BY <1>0, <1>1, <1>2, <2>1 DEF Next, CreateDataset, Respects, TInv, TypeOK
<1>3. CASE status[d] # "absent"
  <2>1. UNCHANGED vars
    BY <1>1, <1>3 DEF CommitCreate, vars, TInv, TypeOK
  <2>2. QED  BY <1>0, <2>1 DEF Respects, vars
<1>4. QED  BY <1>0, <1>2, <1>3

LEMMA CommitsWrite ==
  ASSUME TInv, NEW s \in Sessions, CommitWrite(s)
  PROVE  [Next]_vars /\ Respects(s) /\ DefinitionsAreUnique'
<1> DEFINE d == call[s].dataset
           b == call[s].batch
           new == {b[i] : i \in {k \in DOMAIN b : ~Stored(b[k].metric)}}
<1>1. d \in Datasets /\ call[s].fact \in Facts /\ status[d] = "building"
  BY DEF CommitWrite, Commits, TInv, Relies, ReliesWrite, WithTrigger
<1>2. WriteRow(d, call[s].fact)
  BY <1>1 DEF CommitWrite, WriteRow
<1>3. definitions' = definitions \cup new
  BY DEF CommitWrite
<1>4. /\ b \in Seq(MetricDefinitions) /\ inserted[s] = Len(b)
      /\ \A i, k \in DOMAIN b : b[i].metric = b[k].metric => i = k
      /\ \A i \in 1..Len(b) : Stored(b[i].metric) \/ Locks(s, MetricKey(b[i].metric), "update")
  BY BatchAssumption DEF CommitWrite, Commits, TInv, Relies, ReliesWrite
<1>5. \A e \in new : ~Stored(e.metric) /\ Locks(s, MetricKey(e.metric), "update")
  BY <1>4
<1>6. DefinitionsAreUnique'
  <2>1. \A e, f \in new : e.metric = f.metric => e = f
    BY <1>4
  <2>2. \A e \in new, f \in definitions : e.metric # f.metric
    BY <1>5 DEF Stored
  <2>3. QED  BY <1>3, <2>1, <2>2 DEF TInv, DefinitionsAreUnique
<1>7. Respects(s)
  BY <1>2, <1>3, <1>5 DEF WriteRow, Respects
<1>8. QED  BY <1>1, <1>2, <1>6, <1>7 DEF Next

LEMMA CommitsValidate ==
  ASSUME TInv, NEW s \in Sessions, CommitValidate(s)
  PROVE  [Next]_vars /\ Respects(s) /\ DefinitionsAreUnique'
<1> DEFINE row == call[s].row
<1>0. definitions' = definitions /\ DefinitionsAreUnique'
  BY DEF CommitValidate, TInv, DefinitionsAreUnique
<1>1. /\ row \in ValidationRows /\ status[row.dataset] = "building" /\ ~Known(row.id)
      /\ Locks(s, ValidationKey(row.id), "update")
  BY DEF CommitValidate, Commits, TInv, Relies, ReliesValidate
<1>2. RecordValidation(row)
  BY <1>1 DEF CommitValidate, RecordValidation, Known
<1>3. QED  BY <1>0, <1>1, <1>2 DEF Next, RecordValidation, Respects

LEMMA CommitsFinish ==
  ASSUME TInv, NEW s \in Sessions, CommitFinish(s)
  PROVE  [Next]_vars /\ Respects(s) /\ DefinitionsAreUnique'
<1> DEFINE v == ValidationOf(call[s].id)
<1>0. definitions' = definitions /\ DefinitionsAreUnique'
  BY DEF CommitFinish, TInv, DefinitionsAreUnique
<1>1. /\ Known(call[s].id) /\ status[v.dataset] = "building"
      /\ Locks(s, DatasetRow(v.dataset), "update")
  BY DEF CommitFinish, Commits, TInv, Relies, ReliesFinish
<1>2. v \in validations
  BY <1>1 DEF Known, ValidationOf
<1>3. v \in ValidationRows /\ v.dataset \in Datasets
  BY <1>2 DEF TInv, TypeOK, ValidationRows
<1>4. FinishValidation(v)
  BY <1>1, <1>2 DEF CommitFinish, FinishValidation
<1> HIDE DEF v
<1>5. QED  BY <1>0, <1>1, <1>3, <1>4 DEF Next, FinishValidation, Respects, TInv, TypeOK

LEMMA CommitsReady ==
  ASSUME TInv, NEW s \in Sessions, CommitReady(s)
  PROVE  [Next]_vars /\ Respects(s) /\ DefinitionsAreUnique'
<1> DEFINE row == call[s].row
<1>0. definitions' = definitions /\ DefinitionsAreUnique'
  BY DEF CommitReady, TInv, DefinitionsAreUnique
<1>1. /\ row \in ReadinessRows /\ Passed(row.validation, row.dataset)
      /\ status[row.dataset] \in {"building", "validated"}
      /\ \A other \in readiness : ReadinessKey(other) # ReadinessKey(row)
      /\ Locks(s, ReadinessKey(row), "update")
  BY DEF CommitReady, Commits, TInv, Relies, ReliesReady
<1>2. RecordReadiness(row)
  BY <1>1 DEF CommitReady, RecordReadiness, ReadinessKey
<1>3. QED  BY <1>0, <1>1, <1>2 DEF Next, RecordReadiness, Respects

\* The row of active_dataset is locked since it was read, and so is the row
\* of the dataset that is retired.
LEMMA CommitsActivate ==
  ASSUME TInv, NEW s \in Sessions, CommitActivate(s)
  PROVE  [Next]_vars /\ Respects(s) /\ DefinitionsAreUnique'
<1> DEFINE d == call[s].dataset
<1>0. definitions' = definitions /\ DefinitionsAreUnique'
  BY DEF CommitActivate, TInv, DefinitionsAreUnique
<1>1. /\ d \in Datasets /\ d \in Current /\ ReadyComponents(d) = Components
      /\ pointer[s] = active /\ Locks(s, Singleton, "update")
      /\ Locks(s, DatasetRow(d), "update")
      /\ pointer[s] \in {NoDataset, d} \/ Locks(s, DatasetRow(pointer[s]), "update")
  BY DEF CommitActivate, Commits, TInv, Relies, ReliesActivate
<1>2. CASE status[d] # "validated"
  <2>1. UNCHANGED vars
    BY <1>2 DEF CommitActivate, vars
  <2>2. QED  BY <1>0, <2>1 DEF Respects, vars
<1>3. CASE status[d] = "validated"
  <2>1. Activate(d)
    BY <1>1, <1>3 DEF CommitActivate, Activate
  <2>2. \A e \in Datasets : ~Locks(s, DatasetRow(e), "update") => status'[e] = status[e]
    BY <1>1, <2>1, DatasetAssumption DEF Activate
  <2>3. QED  BY <1>0, <1>1, <2>1, <2>2 DEF Next, Activate, Respects
<1>4. QED  BY <1>0, <1>2, <1>3

LEMMA CommitsStart ==
  ASSUME TInv, NEW s \in Sessions, CommitStart(s)
  PROVE  [Next]_vars /\ Respects(s) /\ DefinitionsAreUnique'
<1> DEFINE row == call[s].row
<1>0. definitions' = definitions /\ DefinitionsAreUnique'
  BY DEF CommitStart, TInv, DefinitionsAreUnique
<1>1. /\ row \in RequestRows /\ active = row.dataset /\ status[row.dataset] = "active"
      /\ \A q \in requests : q.id # row.id
      /\ Locks(s, <<"run key", row.id>>, "update")
  BY DEF CommitStart, Commits, TInv, Relies, ReliesStart
<1>2. StartRequest(row)
  BY <1>1 DEF CommitStart, StartRequest
<1>3. QED  BY <1>0, <1>1, <1>2 DEF Next, StartRequest, Respects

\* Every step: the invariant is kept, and the tables change as the lifecycle
\* says or not at all.
LEMMA TransactionStep ==
  ASSUME TInv, [TransactionsNext]_allVars
  PROVE  TInv' /\ [Next]_vars
<1>1. ASSUME NEW s \in Sessions,
             \/ CommitCreate(s) \/ CommitWrite(s) \/ CommitValidate(s) \/ CommitFinish(s)
             \/ CommitReady(s) \/ CommitActivate(s) \/ CommitStart(s)
      PROVE  TInv' /\ [Next]_vars
  <2>1. [Next]_vars /\ Respects(s) /\ DefinitionsAreUnique'
    BY <1>1, CommitsCreate, CommitsWrite, CommitsValidate, CommitsFinish, CommitsReady,
       CommitsActivate, CommitsStart
  <2>2. End(s)
    BY <1>1 DEF CommitCreate, CommitWrite, CommitValidate, CommitFinish, CommitReady,
                CommitActivate, CommitStart, Commits
  <2>3. QED  BY <2>1, <2>2, EndKeeps
<1>2. ASSUME NEW s \in Sessions,
             CreateKey(s) \/ WriteKey(s) \/ WriteTrigger(s)
      PROVE  TInv' /\ [Next]_vars
  BY <1>2, BuildingStatements DEF CreateKey, WriteKey, WriteTrigger, Check, Statement
<1>11. ASSUME NEW s \in Sessions, WriteDefinition(s) \/ CompareDefinitions(s)
      PROVE  TInv' /\ [Next]_vars
  BY <1>11, InsertsDefinition, ComparesDefinitions DEF WriteDefinition, CompareDefinitions
<1>3. ASSUME NEW s \in Sessions,
             ValidateTrigger(s) \/ ValidateInsert(s) \/ FinishRun(s) \/ FinishDataset(s)
      PROVE  TInv' /\ [Next]_vars
  BY <1>3, ValidatingStatements
  DEF ValidateTrigger, ValidateInsert, FinishRun, FinishDataset, Check, Statement
<1>4. ASSUME NEW s \in Sessions, ReadyValidation(s) \/ ReadyDataset(s) \/ ReadyInsert(s)
      PROVE  TInv' /\ [Next]_vars
  BY <1>4, ReadinessStatements DEF ReadyValidation, ReadyDataset, ReadyInsert, Check, Statement
<1>5. ASSUME NEW s \in Sessions,
             ActivateKey(s) \/ ActivateSingleton(s) \/ ActivateDataset(s) \/ ActivateRetire(s)
      PROVE  TInv' /\ [Next]_vars
  BY <1>5, ActivatingStatements
  DEF ActivateKey, ActivateSingleton, ActivateDataset, ActivateRetire, Check, Statement
<1>6. ASSUME NEW s \in Sessions, StartKey(s) \/ StartSingleton(s) \/ StartDataset(s)
      PROVE  TInv' /\ [Next]_vars
  BY <1>6, StartingStatements DEF StartKey, StartSingleton, StartDataset, Check, Statement
<1>7. ASSUME NEW s \in Sessions, NEW c \in Calls, Begin(s, c) PROVE TInv' /\ [Next]_vars
  BY <1>7, BeginKeeps DEF Begin, vars
<1>8. ASSUME NEW s \in Sessions, Abort(s) PROVE TInv' /\ [Next]_vars
  BY <1>8, AbortKeeps DEF Abort
<1>9. CASE UNCHANGED allVars
  <2>1. UNCHANGED <<vars, definitions>> /\ UNCHANGED <<call, pc, pointer, held, inserted>>
    BY <1>9 DEF allVars, sessionVars
  <2>2. \A s \in Sessions : Keeps(s)
    BY <2>1 DEF Keeps
  <2>3. TypeOK' /\ RowsAreUnique' /\ DefinitionsAreUnique'
    BY <2>1, TypeInductive, UniqueInductive DEF TInv, DefinitionsAreUnique
  <2>4. SessionsTyped' /\ LocksAreExclusive'
    BY <2>1 DEF TInv, SessionsTyped, LocksAreExclusive, Conflicts
  <2>5. ASSUME NEW s \in Sessions
        PROVE  Relies(s)' /\ KindsFit(s)' /\ SessionFits(s)' /\ KeysFit(s)'
    <3>1. Relies(s) /\ KindsFit(s) /\ SessionFits(s) /\ KeysFit(s)
      BY DEF TInv
    <3>2. KindsFit(s)' /\ SessionFits(s)' /\ KeysFit(s)'
      BY <2>1, <3>1 DEF KindsFit, SessionFits, KeysFit
    <3>3. ReliesCreate(s)' /\ ReliesWrite(s)'
      BY <2>1, <3>1 DEF Relies, ReliesCreate, ReliesWrite, Locks, vars, Stored, Agree
    <3>4. ReliesValidate(s)' /\ ReliesFinish(s)'
      BY <2>1, <3>1 DEF Relies, ReliesValidate, ReliesFinish, Locks, vars, Known, ValidationOf
    <3>5. ReliesReady(s)'
      BY <2>1, <3>1 DEF Relies, ReliesReady, Locks, vars, Passed
    <3>6. ReliesActivate(s)' /\ ReliesStart(s)'
      BY <2>1, <3>1 DEF Relies, ReliesActivate, ReliesStart, Locks, vars, ReadyComponents
    <3>7. QED  BY <3>2, <3>3, <3>4, <3>5, <3>6 DEF Relies
  <2>6. QED  BY <2>1, <2>3, <2>4, <2>5 DEF TInv
<1>10. QED
  BY <1>1, <1>2, <1>11, <1>3, <1>4, <1>5, <1>6, <1>7, <1>8, <1>9
  DEF TransactionsNext, Building, Validating, Activating, Starting

LEMMA TransactionsStart == TransactionsInit => TInv
<1> SUFFICES ASSUME TransactionsInit PROVE TInv
  OBVIOUS
<1>1. TypeOK /\ RowsAreUnique /\ DefinitionsAreUnique
  BY DatasetAssumption
  DEF TransactionsInit, Init, TypeOK, RowsAreUnique, DefinitionsAreUnique, Statuses
<1>2. SessionsTyped /\ LocksAreExclusive
  BY DEF TransactionsInit, InitSessions, SessionsTyped, LocksAreExclusive
<1>3. \A s \in Sessions :
        call[s].op = "none" /\ pc[s] = "idle" /\ held[s] = {} /\ inserted[s] = 0
  BY DEF TransactionsInit, InitSessions, NoCall
<1>4. ASSUME NEW s \in Sessions
      PROVE  Relies(s) /\ KindsFit(s) /\ SessionFits(s) /\ KeysFit(s)
  <2>1. Relies(s)
    BY <1>3 DEF Relies, ReliesCreate, ReliesWrite, ReliesValidate, ReliesFinish, ReliesReady,
                ReliesActivate, ReliesStart
  <2>2. KindsFit(s) /\ SessionFits(s) /\ KeysFit(s)
    BY <1>3 DEF KindsFit, SessionFits, KeysFit
  <2>3. QED  BY <2>1, <2>2
<1>5. QED  BY <1>1, <1>2, <1>4 DEF TInv

LEMMA TransactionsInductive == TransactionsSpec => []TInv
BY TransactionsStart, TransactionStep, PTL DEF TransactionsSpec

(***************************************************************************)
(* However many sessions call the functions together, whatever set of      *)
(* transactions is stuck is stuck behind writes of different datasets that *)
(* insert metric definitions (activate_dataset, start_request_run,         *)
(* finish_dataset_validation and record_dataset_readiness,                 *)
(* alembic/versions/0006; _write_exact_records, ingestion/writer.py).      *)
(***************************************************************************)
THEOREM OnlyDefinitionsCorrect == TransactionsSpec => []OnlyDefinitionsDeadlock
BY TransactionsInductive, StuckBehindDefinitions, PTL

(***************************************************************************)
(* What would be enough to rule deadlocks out: if write_rows brought the   *)
(* definitions of every batch in one order, no transactions would ever     *)
(* wait in a circle.                                                       *)
(***************************************************************************)
THEOREM SortedBatchesNeverDeadlock ==
  ASSUME NEW K \in Nat, NEW Place \in [Metrics -> 0..K],
         \A b \in Batches : \A i, j \in DOMAIN b :
           i < j => Place[b[i].metric] < Place[b[j].metric]
  PROVE  TransactionsSpec => []NoLockCycle
<1>1. TInv => NoLockCycle
  <2> SUFFICES ASSUME TInv, NEW W \in SUBSET Sessions, Stuck(W) PROVE FALSE
    BY DEF NoLockCycle
  <2>1. PICK V \in SUBSET W : Stuck(V) /\ \A s \in V : pc[s] = "write definition"
    BY StuckBehindDefinitions DEF OnlyDefinitionsDeadlock
  <2> DEFINE at(s) == Place[call[s].batch[inserted[s] + 1].metric]
             T == {K - at(s) : s \in V}
  <2>2. ASSUME NEW s \in V
        PROVE  /\ call[s].op = "write" /\ call[s].batch \in Batches
               /\ call[s].batch \in Seq(MetricDefinitions)
               /\ inserted[s] \in 0..Len(call[s].batch) /\ inserted[s] < Len(call[s].batch)
               /\ Len(call[s].batch) \in Nat
               /\ at(s) \in 0..K
    <3>1. call[s].op = "write"
      BY <2>1, OpAt
    <3>2. /\ call[s].batch \in Batches /\ inserted[s] \in 0..Len(call[s].batch)
          /\ inserted[s] < Len(call[s].batch)
      BY <2>1, <3>1 DEF TInv, Relies, ReliesWrite
    <3>3. call[s].batch \in Seq(MetricDefinitions) /\ Len(call[s].batch) \in Nat
      BY <3>2, BatchAssumption
    <3>4. inserted[s] + 1 \in DOMAIN call[s].batch
      BY <3>2, <3>3
    <3>5. call[s].batch[inserted[s] + 1] \in MetricDefinitions
      BY <3>3, <3>4
    <3>6. call[s].batch[inserted[s] + 1].metric \in Metrics
      BY <3>5 DEF MetricDefinitions
    <3>7. QED  BY <3>1, <3>2, <3>3, <3>6
  <2>3. T \in SUBSET Nat /\ T # {}
    <3>1. V # {}
      BY <2>1 DEF Stuck
    <3>2. \A s \in V : at(s) \in 0..K
      BY <2>2
    <3> HIDE DEF at
    <3>3. \A s \in V : K - at(s) \in Nat
      BY <3>2
    <3>4. QED  BY <3>1, <3>3
  <2>4. PICK m \in T : \A n \in T : m <= n
    BY <2>3, LeastNatural
  <2>5. PICK s \in V : m = K - at(s)
    OBVIOUS
  <2>6. PICK t \in V : Blocks(t, s)
    BY <2>1 DEF Stuck
  <2>7. at(s) < at(t)
    <3> DEFINE b == call[t].batch
    <3>1. NextLock(s)[1] = MetricKey(call[s].batch[inserted[s] + 1].metric)
      BY <2>1 DEF NextLock
    <3>2. PICK l \in held[t] : l[1] = NextLock(s)[1]
      BY <2>6 DEF Blocks, Conflicts
    <3>3. l[1] = MetricKey(call[s].batch[inserted[s] + 1].metric)
      BY <3>1, <3>2
    <3>9. l[1][1] = "metric key"
      <4>1. \A x : MetricKey(x)[1] = "metric key"
        BY DEF MetricKey
      <4>2. QED  BY <3>3, <4>1
    <3>4. PICK i \in 1..inserted[t] : l[1] = MetricKey(b[i].metric)
      BY <3>2, <3>9 DEF TInv, KeysFit
    <3>5. b[i].metric = call[s].batch[inserted[s] + 1].metric
      <4>1. \A m1, m2 : MetricKey(m1) = MetricKey(m2) => m1 = m2
        BY DEF MetricKey
      <4>2. QED  BY <3>3, <3>4, <4>1
    <3>6. /\ i \in DOMAIN b /\ inserted[t] + 1 \in DOMAIN b /\ i < inserted[t] + 1
          /\ b \in Batches
      BY <2>2, <3>4
    <3>7. Place[b[i].metric] < Place[b[inserted[t] + 1].metric]
      BY <3>6
    <3>8. QED  BY <3>5, <3>7
  <2>8. m <= K - at(t)
    BY <2>4
  <2>9. at(s) \in 0..K /\ at(t) \in 0..K
    BY <2>2
  <2> HIDE DEF at
  <2>10. QED  BY <2>5, <2>7, <2>8, <2>9
<1>2. QED  BY <1>1, TransactionsInductive, PTL

(***************************************************************************)
(* The datasets of all concurrent writers share one definition of a metric *)
(* (_write_exact_records, ingestion/writer.py).                            *)
(***************************************************************************)
THEOREM DefinitionsCorrect == TransactionsSpec => []DefinitionsAgree
<1>1. TInv => DefinitionsAgree
  <2> SUFFICES ASSUME TInv, NEW s \in Sessions, pc[s] = "commit", call[s].op = "write"
               PROVE  /\ Agree(call[s].batch)
                      /\ \A t \in Sessions : pc[t] = "commit" /\ call[t].op = "write" =>
                           \A i \in DOMAIN call[s].batch, j \in DOMAIN call[t].batch :
                             call[s].batch[i].metric = call[t].batch[j].metric =>
                               call[s].batch[i] = call[t].batch[j]
    BY DEF DefinitionsAgree
  <2>1. ASSUME NEW r \in Sessions, pc[r] = "commit", call[r].op = "write"
        PROVE  /\ Agree(call[r].batch)
               /\ \A i \in DOMAIN call[r].batch :
                    \/ Stored(call[r].batch[i].metric)
                    \/ Locks(r, MetricKey(call[r].batch[i].metric), "update")
    <3>1. /\ Agree(call[r].batch) /\ call[r].batch \in Batches
          /\ inserted[r] = Len(call[r].batch)
          /\ \A i \in 1..inserted[r] :
               \/ Stored(call[r].batch[i].metric)
               \/ Locks(r, MetricKey(call[r].batch[i].metric), "update")
      BY <2>1 DEF TInv, Relies, ReliesWrite
    <3>2. call[r].batch \in Seq(MetricDefinitions)
      BY <3>1, BatchAssumption
    <3>3. QED  BY <3>1, <3>2
  <2>2. ASSUME NEW t \in Sessions, pc[t] = "commit", call[t].op = "write",
               NEW i \in DOMAIN call[s].batch, NEW j \in DOMAIN call[t].batch,
               call[s].batch[i].metric = call[t].batch[j].metric
        PROVE  call[s].batch[i] = call[t].batch[j]
    <3>1. CASE Stored(call[s].batch[i].metric)
      BY <2>1, <2>2, <3>1 DEF Stored, Agree
    <3>2. CASE ~Stored(call[s].batch[i].metric) /\ s # t
      BY <2>1, <2>2, <3>2, Exclusive DEF TInv
    <3>3. CASE s = t
      <4>1. call[s].batch \in Batches
        BY DEF TInv, Relies, ReliesWrite
      <4>2. QED  BY <2>2, <3>3, <4>1, BatchAssumption
    <3>4. QED  BY <3>1, <3>2, <3>3
  <2>3. QED  BY <2>1, <2>2
<1>2. QED  BY <1>1, TransactionsInductive, PTL

(***************************************************************************)
(* The transactions implement the lifecycle: what a function checked in an *)
(* earlier statement, under a lock, still holds when it commits, so that   *)
(* every commit is one atomic action of DatasetLifecycle.                  *)
(***************************************************************************)
THEOREM LifecycleImplemented == TransactionsSpec => ImplementsLifecycle
<1>1. TransactionsInit => Init
  BY DEF TransactionsInit
<1>2. TInv /\ [TransactionsNext]_allVars => [Next]_vars
  BY TransactionStep
<1>3. QED
  BY <1>1, <1>2, TransactionsInductive, PTL DEF TransactionsSpec, ImplementsLifecycle, Spec

(***************************************************************************)
(* What the lifecycle promises the interleaved transactions keep: one      *)
(* active dataset and it is the pointer's, nothing served that was not     *)
(* endorsed, no request on a dataset that was never served, and a status   *)
(* that only moves forward.                                                *)
(***************************************************************************)
THEOREM TransactionsCorrect ==
  TransactionsSpec =>
    /\ [](PointerAgrees /\ ServedIsEndorsed /\ RequestsAreServed)
    /\ LifecycleIsForward
BY LifecycleImplemented, PointerCorrect, EndorsementCorrect, RequestsCorrect,
   ForwardCorrect, PTL
DEF ImplementsLifecycle
=============================================================================
