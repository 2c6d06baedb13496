------------------------ MODULE EmbeddingBuildProofs ------------------------
(***************************************************************************)
(* Proofs about the document embedding build: its transactions cannot wait *)
(* for each other in a circle, a failure it reports has a cause, and the   *)
(* counts of a report add up, for any number of builders of any corpus.    *)
(*                                                                         *)
(* What is inductive is a statement about each builder's job, Local, and   *)
(* one about the rows of the open transactions, RowsAreFree.               *)
(***************************************************************************)
EXTENDS EmbeddingBuild, FiniteSetTheorems, WellFoundedInduction, TLAPS

\* The preflight: nothing has been counted yet.
Preflight == {"idle", "status", "eligible", "existing"}

\* Rows are inserted in the order of the query, from the lowest, and only those
\* of the batch.
InsertsInOrder(b) ==
  /\ job[b].todo \subseteq job[b].batch
  /\ job[b].held \subseteq job[b].batch \ job[b].todo
  /\ \A h \in job[b].held, t \in job[b].todo : h < t
  /\ ~At(b, "insert") => job[b].held = {}

\* What a builder works on at each step.
WorkFits(b) ==
  /\ At(b, "embed") => job[b].todo # {}
  /\ job[b].at \in {"sections", "register"} => job[b].todo = job[b].batch
  /\ At(b, "insert") /\ job[b].mode # "sample" => job[b].batch # {}
  /\ job[b].at \in Preflight => job[b].batch = {}
  /\ At(b, "report") => job[b].mode # "full"
  /\ job[b].mode = "canary" => \A c, d \in job[b].batch : c = d

\* The model is registered before the first embedding of a command.
RegisteredFirst(b) ==
  \/ job[b].at \in Preflight \cup {"sections", "register"}
  \/ At(b, "missing") /\ job[b].mode = "sample"
  \/ registered

\* A row of the batch the transaction has dealt with is its own or was there;
\* one that is there was inserted by another builder.
BatchIsAccounted(b) ==
  /\ At(b, "insert") => job[b].batch \ job[b].todo \subseteq job[b].held \cup embedded
  /\ job[b].at \notin {"absent", "orphans"} /\ job[b].batch \cap embedded # {} =>
       job[b].byOthers > 0

\* Nothing is inserted in the preflight; canary and sample commit once, before
\* their report.
CanaryCounts(b) ==
  /\ job[b].at \in Preflight => job[b].inserted = 0
  /\ job[b].mode # "full" /\ ~At(b, "report") => job[b].inserted = 0
  /\ At(b, "report") /\ job[b].mode = "canary" =>
       job[b].inserted = 1 \/ job[b].byOthers > 0

\* The counts of a builder are those of the table.  Once the exact embeddings are
\* counted it stands still while the table may grow; what it counted is what was
\* expected, or nothing because the dataset is finished.
CountsAddUp(b) ==
  /\ job[b].at \notin Preflight \cup {"absent", "orphans"} =>
       job[b].skipped + job[b].inserted + job[b].byOthers = Cardinality(embedded)
  /\ job[b].at \in {"absent", "orphans"} =>
       /\ job[b].expected <= Cardinality(embedded)
       /\ \/ job[b].skipped + job[b].inserted + job[b].byOthers = job[b].expected
          \/ ~building /\ embedded # {}

\* The corpus is the expected one or has grown since; when it is counted again,
\* all of it is embedded or it has grown.
CorpusIsExpected(b) ==
  building =>
    /\ job[b].at \notin Preflight \ {"existing"} => job[b].expected <= Cardinality(eligible)
    /\ job[b].at \in {"count", "exact", "absent", "orphans"} =>
         eligible \subseteq embedded \/ job[b].expected < Cardinality(eligible)

Local(b) ==
  /\ InsertsInOrder(b)
  /\ WorkFits(b)
  /\ RegisteredFirst(b)
  /\ BatchIsAccounted(b)
  /\ CanaryCounts(b)
  /\ CountsAddUp(b)
  /\ CorpusIsExpected(b)
  /\ job[b].batch \subseteq eligible

\* A row of an open transaction is in no other and is not committed.
RowsAreFree ==
  \A b \in Builders :
    /\ job[b].held \cap embedded = {}
    /\ \A r \in Builders \ {b} : job[b].held \cap job[r].held = {}

IInv == TypeOK /\ RowsAreFree /\ \A b \in Builders : Local(b)
-----------------------------------------------------------------------------
(* The order of the chunks.                                                *)

LEMMA ChunksFinite == /\ IsFiniteSet(Chunks)
                      /\ \A S \in SUBSET Chunks : IsFiniteSet(S) /\ Cardinality(S) \in Nat
<1>1. IsFiniteSet(Chunks)
  BY BuildAssumption, FS_Interval DEF Chunks
<1>2. QED  BY <1>1, FS_Subset, FS_CardinalityType

\* The first chunk of a set is its least.
LEMMA FirstIsLeast ==
  ASSUME NEW S \in SUBSET Chunks, S # {}
  PROVE  First(S) \in S /\ \A c \in S : First(S) <= c
<1> DEFINE Less == {ss \in Nat \X Nat : ss[1] < ss[2]}
<1>1. IsWellFoundedOn(Less, Nat)
  BY NatLessThanWellFounded DEF OpToRel
<1>2. S \subseteq Nat
  BY BuildAssumption DEF Chunks
<1>3. PICK c \in S : \A d \in S : ~(<<d, c>> \in Less)
  BY <1>1, <1>2, WFMin
<1>4. \A d \in S : c <= d
  <2>1. \A m, k \in Nat : m < k => <<m, k>> \in Less
    OBVIOUS
  <2>2. \A d \in S : ~(d < c)
    BY <1>2, <1>3, <2>1
  <2>3. QED  BY <1>2, <2>2
<1>5. \A d \in S : (\A e \in S : d <= e) => d = c
  BY <1>2, <1>4
<1>6. QED  BY <1>4, <1>5 DEF First

\* The first n chunks of a set are of it, and some if it has any; the first one
\* is alone.
LEMMA LowestFits ==
  ASSUME NEW S \in SUBSET Chunks, NEW n \in Nat \ {0}
  PROVE  /\ Lowest(S, n) \subseteq S
         /\ S # {} => Lowest(S, n) # {}
         /\ n = 1 => \A c, d \in Lowest(S, n) : c = d
<1>1. Lowest(S, n) \subseteq S
  BY DEF Lowest
<1>2. ASSUME S # {} PROVE Lowest(S, n) # {}
  <2>1. First(S) \in S /\ {d \in S : d <= First(S)} = {First(S)}
    <3>1. S \subseteq Nat /\ First(S) \in S /\ \A d \in S : First(S) <= d
      BY <1>2, FirstIsLeast, BuildAssumption DEF Chunks
    <3>2. ASSUME NEW d \in S PROVE d <= First(S) <=> d = First(S)
      <4>1. d \in Nat /\ First(S) \in Nat /\ First(S) <= d
        BY <3>1
      <4>2. QED  BY <4>1
    <3>3. QED  BY <3>1, <3>2
  <2>2. Cardinality({d \in S : d <= First(S)}) = 1
    BY <2>1, FS_Singleton
  <2>3. First(S) \in Lowest(S, n)
    BY <2>1, <2>2 DEF Lowest
  <2>4. QED  BY <2>3
<1>3. ASSUME n = 1, NEW c \in Lowest(S, n), NEW d \in Lowest(S, n), c # d
      PROVE  FALSE
  <2>1. /\ c \in S /\ Cardinality({e \in S : e <= c}) <= 1
        /\ d \in S /\ Cardinality({e \in S : e <= d}) <= 1
    BY <1>3 DEF Lowest
  <2>2. ASSUME NEW u \in S, NEW v \in S, u < v PROVE Cardinality({e \in S : e <= v}) >= 2
    <3>1. {u, v} \subseteq {e \in S : e <= v} /\ {e \in S : e <= v} \in SUBSET Chunks
      <4>1. u <= v /\ v <= v
        BY <2>2, BuildAssumption DEF Chunks
      <4>2. QED  BY <4>1
    <3>2. Cardinality({u, v}) = 2
      <4>1. u # v  BY <2>2, BuildAssumption DEF Chunks
      <4>2. IsFiniteSet({u}) /\ Cardinality({u}) = 1 /\ v \notin {u} /\ {u, v} = {u} \cup {v}
        BY <4>1, FS_Singleton
      <4>3. QED  BY <4>2, FS_AddElement
    <3>3. QED  BY <3>1, <3>2, ChunksFinite, FS_Subset
  <2>3. c < d \/ d < c
    BY <1>3, <2>1, BuildAssumption DEF Chunks
  <2>4. ASSUME NEW T \in SUBSET Chunks, Cardinality(T) >= 2, Cardinality(T) <= 1 PROVE FALSE
    BY <2>4, ChunksFinite
  <2>5. {e \in S : e <= c} \in SUBSET Chunks /\ {e \in S : e <= d} \in SUBSET Chunks
    OBVIOUS
  <2>6. QED  BY <2>1, <2>2, <2>3, <2>4, <2>5
<1>4. QED  BY <1>1, <1>2, <1>3
-----------------------------------------------------------------------------
(* The open transactions.                                                  *)

\* The order of the rows: a builder that waits for a row of another awaits a
\* lower one than that.
LEMMA WaitsGoDown == IInv => NoLockCycle
<1> SUFFICES ASSUME IInv, NEW b \in Builders, NEW r \in Builders,
                    Waits(b), Waits(r), Awaited(b) \in job[r].held
             PROVE  Awaited(b) < Awaited(r)
  BY DEF NoLockCycle
<1>1. Awaited(r) \in job[r].todo
  <2>1. job[r].todo \in SUBSET Chunks  BY DEF IInv, TypeOK, Jobs
  <2>2. QED  BY <2>1, FirstIsLeast DEF Waits, Awaited
<1>2. QED  BY <1>1 DEF IInv, Local, InsertsInOrder

LEMMA InitIInv == Init => IInv
<1> SUFFICES ASSUME Init PROVE IInv  OBVIOUS
<1>1. TypeOK
  <2>1. Idle \in Jobs
    BY BuildAssumption DEF Idle, Jobs, Steps, Modes, Outcomes
  <2>2. quota \in 0..Quota /\ troubles \in 0..MaxTroubles
    BY BuildAssumption DEF Init
  <2>3. QED  BY <2>1, <2>2, BuildAssumption DEF Init, TypeOK, Chunks
<1>2. RowsAreFree
  BY DEF Init, RowsAreFree, Idle
<1>3. ASSUME NEW b \in Builders PROVE Local(b)
  BY <1>3 DEF Init, Local, InsertsInOrder, WorkFits, RegisteredFirst, BatchIsAccounted,
              CanaryCounts, CountsAddUp, CorpusIsExpected, Idle, At, Preflight
<1>4. QED  BY <1>1, <1>2, <1>3 DEF IInv

\* A step that concerns one builder's job, and the registration at most, leaves
\* everyone else as they are.
Alone(b) ==
  /\ UNCHANGED <<building, eligible, embedded>>
  /\ registered' \in BOOLEAN /\ (registered => registered')
  /\ quota' \in 0..Quota
  /\ troubles' \in 0..MaxTroubles
  /\ job' \in [Builders -> Jobs]
  /\ \A r \in Builders \ {b} : job'[r] = job[r]

LEMMA AloneFits ==
  ASSUME IInv, NEW b \in Builders, Alone(b), Local(b)',
         \A r \in Builders \ {b} : job'[b].held \cap job[r].held = {},
         job'[b].held \cap embedded = {}
  PROVE  IInv'
<1>1. TypeOK'
  BY DEF IInv, TypeOK, Alone
<1>2. RowsAreFree'
  BY DEF IInv, RowsAreFree, Alone
<1>3. ASSUME NEW r \in Builders, r # b PROVE Local(r)'
  <2>1. Local(r) /\ job'[r] = job[r]
    BY <1>3 DEF IInv, Alone
  <2>2. /\ InsertsInOrder(r)' /\ WorkFits(r)' /\ CanaryCounts(r)'
    BY <2>1 DEF Local, InsertsInOrder, WorkFits, CanaryCounts, At
  <2>3. RegisteredFirst(r)'
    BY <2>1 DEF Local, Alone, RegisteredFirst, At
  <2>4. BatchIsAccounted(r)' /\ CountsAddUp(r)' /\ CorpusIsExpected(r)'
    BY <2>1 DEF Local, Alone, BatchIsAccounted, CountsAddUp, CorpusIsExpected, At
  <2>5. job'[r].batch \subseteq eligible'
    BY <2>1 DEF Local, Alone
  <2>6. QED  BY <2>2, <2>3, <2>4, <2>5 DEF Local
<1>4. QED  BY <1>1, <1>2, <1>3 DEF IInv

\* A builder's new job: the steps before the insert open no transaction.
LEMMA MoveFits ==
  ASSUME IInv, NEW b \in Builders, NEW j \in Jobs, job' = [job EXCEPT ![b] = j],
         UNCHANGED <<building, eligible, embedded>>,
         registered' \in BOOLEAN, registered => registered',
         quota' \in 0..Quota, troubles' \in 0..MaxTroubles,
         j.held = {}, Local(b)'
  PROVE  IInv'
<1>1. job' \in [Builders -> Jobs] /\ job'[b] = j /\ \A r \in Builders \ {b} : job'[r] = job[r]
  BY DEF IInv, TypeOK
<1>2. Alone(b)
  BY <1>1 DEF Alone
<1>3. /\ \A r \in Builders \ {b} : job'[b].held \cap job[r].held = {}
      /\ job'[b].held \cap embedded = {}
  BY <1>1
<1>4. QED  BY <1>2, <1>3, AloneFits

\* The command is over, one way or another.
LEMMA EndFits ==
  ASSUME IInv, NEW b \in Builders, NEW outcome \in Outcomes, End(b, outcome),
         UNCHANGED world, quota' \in 0..Quota, troubles' \in 0..MaxTroubles
  PROVE  IInv'
<1> DEFINE j == [Idle EXCEPT !.outcome = outcome]
<1>1. j \in Jobs /\ job' = [job EXCEPT ![b] = j]
  BY BuildAssumption DEF End, Idle, Jobs, Steps, Modes
<1>2. job'[b] = j
  BY <1>1 DEF IInv, TypeOK
<1>3. Local(b)'
  BY <1>2 DEF Local, InsertsInOrder, WorkFits, RegisteredFirst, BatchIsAccounted,
              CanaryCounts, CountsAddUp, CorpusIsExpected, Idle, At, Preflight
<1>4. j.held = {}
  BY DEF Idle
<1>5. registered' \in BOOLEAN /\ (registered => registered')
  BY DEF IInv, TypeOK, world
<1> HIDE DEF j
<1>6. QED  BY <1>1, <1>3, <1>4, <1>5, MoveFits DEF world
-----------------------------------------------------------------------------
(* One step of one builder.                                                *)

LEMMA PreflightFits ==
  ASSUME IInv, NEW b \in Builders,
         ReadStatus(b) \/ CountEligible(b) \/ CountExisting(b)
  PROVE  IInv'
<1>1. /\ job[b] \in Jobs /\ Local(b) /\ job \in [Builders -> Jobs]
      /\ quota \in 0..Quota /\ troubles \in 0..MaxTroubles /\ registered \in BOOLEAN
      /\ embedded \subseteq eligible /\ eligible \in SUBSET Chunks
  BY DEF IInv, TypeOK
<1>2. ASSUME NEW outcome \in Outcomes, End(b, outcome) PROVE IInv'
  BY <1>1, <1>2, EndFits DEF ReadStatus, CountEligible, CountExisting
<1>3. ASSUME NEW j \in Jobs, job' = [job EXCEPT ![b] = j], job'[b] = j, j.held = {}, Local(b)'
      PROVE  IInv'
  BY <1>1, <1>3, MoveFits DEF ReadStatus, CountEligible, CountExisting, world
<1>4. CASE ReadStatus(b) /\ building
  <2> DEFINE j == [job[b] EXCEPT !.at = "eligible"]
  <2>1. j \in Jobs /\ job' = [job EXCEPT ![b] = j] /\ job'[b] = j /\ j.held = {}
    BY <1>1, <1>4 DEF ReadStatus, Goto, Jobs, Steps, Local, InsertsInOrder, At
  <2>2. Local(b)'
    BY <1>1, <1>4, <2>1 DEF ReadStatus, Local, InsertsInOrder, WorkFits, RegisteredFirst,
         BatchIsAccounted, CanaryCounts, CountsAddUp, CorpusIsExpected, At, Preflight, Jobs, world
  <2> HIDE DEF j
  <2>3. QED  BY <1>3, <2>1, <2>2
<1>5. CASE CountEligible(b) /\ Cardinality(Corpus) = job[b].expected
  <2> DEFINE j == [job[b] EXCEPT !.at = "existing"]
  <2>1. j \in Jobs /\ job' = [job EXCEPT ![b] = j] /\ job'[b] = j /\ j.held = {}
    BY <1>1, <1>5 DEF CountEligible, Goto, Jobs, Steps, Local, InsertsInOrder, At
  <2>2. building => j.expected <= Cardinality(eligible)
    BY <1>1, <1>5, ChunksFinite DEF Corpus, Jobs
  <2>3. Local(b)'
    BY <1>1, <1>5, <2>1, <2>2 DEF CountEligible, Local, InsertsInOrder, WorkFits, RegisteredFirst,
         BatchIsAccounted, CanaryCounts, CountsAddUp, CorpusIsExpected, At, Preflight, Jobs, world
  <2> HIDE DEF j
  <2>4. QED  BY <1>3, <2>1, <2>3
<1>6. CASE CountExisting(b) /\ Orphans = {}
  <2> DEFINE j == [job[b] EXCEPT !.at = IF job[b].mode = "sample" THEN "missing" ELSE "register",
                                 !.skipped = Cardinality(Corpus \cap embedded),
                                 !.byOthers = 0]
  <2>1. Corpus \cap embedded = embedded /\ Cardinality(embedded) \in Nat
    BY <1>1, <1>6, ChunksFinite DEF Orphans
  <2>2. j \in Jobs /\ job' = [job EXCEPT ![b] = j] /\ job'[b] = j /\ j.held = {}
    BY <1>1, <1>6, <2>1 DEF CountExisting, Jobs, Steps, Local, InsertsInOrder, At
  <2>3. j.inserted = 0
    BY <1>1, <1>6 DEF CountExisting, Local, CanaryCounts, At, Preflight
  <2>4. /\ job[b].at = "existing" /\ UNCHANGED world
        /\ j.mode = job[b].mode /\ j.at \in {"missing", "register"}
        /\ j.at = "missing" => j.mode = "sample"
        /\ j.batch = job[b].batch /\ j.batch = {} /\ j.todo = job[b].todo
        /\ j.expected = job[b].expected
        /\ j.skipped = Cardinality(embedded) /\ j.byOthers = 0
    BY <1>1, <1>6, <2>1 DEF CountExisting, Jobs, Local, WorkFits, At, Preflight
  <2>5. j.skipped + j.inserted + j.byOthers = Cardinality(embedded)
    BY <2>1, <2>3, <2>4
  <2> HIDE DEF j
  <2>6. InsertsInOrder(b)' /\ WorkFits(b)' /\ RegisteredFirst(b)' /\ BatchIsAccounted(b)'
    BY <1>1, <2>2, <2>4 DEF Local, InsertsInOrder, WorkFits, RegisteredFirst,
                            BatchIsAccounted, At, Preflight, world
  <2>7. CanaryCounts(b)' /\ CountsAddUp(b)' /\ CorpusIsExpected(b)'
    BY <1>1, <2>2, <2>3, <2>4, <2>5 DEF Local, CanaryCounts, CountsAddUp, CorpusIsExpected,
                                        At, Preflight, world
  <2>8. Local(b)'
    BY <2>2, <2>4, <2>6, <2>7 DEF Local
  <2>9. QED  BY <1>3, <2>2, <2>8
<1>7. QED
  BY <1>2, <1>4, <1>5, <1>6 DEF ReadStatus, CountEligible, CountExisting, Outcomes

\* A builder passes to a later step with the same work.
LEMMA PassFits ==
  ASSUME IInv, NEW b \in Builders, NEW step \in {"missing", "register", "embed", "insert", "count",
                                              "exact", "absent", "orphans"},
         job[b].at \in {"sections", "register", "missing", "pause", "count", "exact", "absent"},
         Goto(b, step),
         UNCHANGED <<building, eligible, embedded, quota, troubles>>,
         registered' \in BOOLEAN, registered => registered',
         ~registered' => step = "register" \/ (step = "missing" /\ job[b].mode = "sample"),
         step = "register" => job[b].at = "sections",
         step = "embed" => job[b].todo # {},
         step = "insert" => job[b].mode = "sample" /\ job[b].batch = {},
         step \in {"count", "exact", "absent", "orphans"} /\ building =>
           eligible \subseteq embedded \/ job[b].expected < Cardinality(eligible),
         job[b].at = "absent" => step = "orphans",
         step \in {"absent", "orphans"} =>
           /\ job[b].expected <= Cardinality(embedded)
           /\ \/ job[b].skipped + job[b].inserted + job[b].byOthers = job[b].expected
              \/ ~building /\ embedded # {}
  PROVE  IInv'
<1> DEFINE j == [job[b] EXCEPT !.at = step]
<1>1. job[b] \in Jobs /\ Local(b) /\ job \in [Builders -> Jobs]
  BY DEF IInv, TypeOK
<1>2. /\ quota' \in 0..Quota /\ troubles' \in 0..MaxTroubles
  BY DEF IInv, TypeOK
<1>3. j \in Jobs /\ job' = [job EXCEPT ![b] = j] /\ job'[b] = j /\ j.held = {}
  BY <1>1 DEF Goto, Jobs, Steps, Local, InsertsInOrder, At
<1>4. /\ j.at = step /\ j.mode = job[b].mode /\ j.batch = job[b].batch
      /\ j.todo = job[b].todo /\ j.expected = job[b].expected
      /\ j.skipped = job[b].skipped /\ j.inserted = job[b].inserted
      /\ j.byOthers = job[b].byOthers
  BY <1>1 DEF Jobs
<1> HIDE DEF j
<1>5. InsertsInOrder(b)' /\ WorkFits(b)' /\ RegisteredFirst(b)' /\ BatchIsAccounted(b)'
  BY <1>1, <1>3, <1>4 DEF Local, InsertsInOrder, WorkFits, RegisteredFirst, BatchIsAccounted,
                          At, Preflight
<1>6. CanaryCounts(b)' /\ CountsAddUp(b)' /\ CorpusIsExpected(b)'
  BY <1>1, <1>3, <1>4 DEF Local, CanaryCounts, CountsAddUp, CorpusIsExpected, At, Preflight
<1>7. Local(b)'
  BY <1>1, <1>3, <1>4, <1>5, <1>6 DEF Local
<1>8. QED  BY <1>2, <1>3, <1>7, MoveFits

\* A builder takes up chunks that have no embedding, or drops those it had.
LEMMA TakeFits ==
  ASSUME IInv, NEW b \in Builders, NEW chunks \in SUBSET eligible,
         NEW step \in {"sections", "embed", "pause"},
         job[b].at \in {"missing", "embed"}, Take(b, chunks, step),
         UNCHANGED world, quota' \in 0..Quota, troubles' \in 0..MaxTroubles,
         chunks \cap embedded = {},
         step # "sections" => registered,
         step = "embed" => chunks # {},
         job[b].mode = "canary" => \A c, d \in chunks : c = d
  PROVE  IInv'
<1> DEFINE j == [job[b] EXCEPT !.at = step, !.batch = chunks, !.todo = chunks, !.attempt = 1]
<1>1. /\ job[b] \in Jobs /\ Local(b) /\ job \in [Builders -> Jobs]
      /\ registered' \in BOOLEAN /\ chunks \in SUBSET Chunks
  BY DEF IInv, TypeOK, world
<1>2. j \in Jobs /\ job' = [job EXCEPT ![b] = j] /\ job'[b] = j /\ j.held = {}
  <2>1. j \in Jobs
    <3>1. step \in Steps /\ 1 \in 1..MaxAttempts /\ chunks \in SUBSET Chunks
      BY <1>1, BuildAssumption DEF Steps
    <3>2. QED  BY <1>1, <3>1 DEF Jobs
  <2>2. job' = [job EXCEPT ![b] = j] /\ job'[b] = j
    BY <1>1 DEF Take
  <2>3. job[b].at # "insert" /\ j.held = job[b].held
    BY <1>1 DEF Jobs
  <2>4. QED  BY <1>1, <2>1, <2>2, <2>3 DEF Local, InsertsInOrder, At
<1>3. /\ j.at = step /\ j.mode = job[b].mode /\ j.batch = chunks
      /\ j.todo = chunks /\ j.expected = job[b].expected
      /\ j.skipped = job[b].skipped /\ j.inserted = job[b].inserted
      /\ j.byOthers = job[b].byOthers
  BY <1>1 DEF Jobs
<1> HIDE DEF j
<1>4. InsertsInOrder(b)' /\ WorkFits(b)' /\ RegisteredFirst(b)' /\ BatchIsAccounted(b)'
  BY <1>1, <1>2, <1>3 DEF Local, InsertsInOrder, WorkFits, RegisteredFirst, BatchIsAccounted,
                          At, Preflight, world
<1>5. CanaryCounts(b)' /\ CountsAddUp(b)' /\ CorpusIsExpected(b)'
  BY <1>1, <1>2, <1>3 DEF Local, CanaryCounts, CountsAddUp, CorpusIsExpected, At, Preflight, world
<1>6. Local(b)'
  BY <1>2, <1>3, <1>4, <1>5 DEF Local, world
<1>7. QED  BY <1>1, <1>2, <1>6, MoveFits DEF world

LEMMA StartFits ==
  ASSUME IInv, NEW b \in Builders, NEW mode \in Commands[b], NEW expected \in Expectations,
         Start(b, mode, expected)
  PROVE  IInv'
<1> DEFINE j == [Idle EXCEPT !.at = "status", !.mode = mode, !.expected = expected]
<1>1. /\ job \in [Builders -> Jobs] /\ registered' \in BOOLEAN
      /\ quota' \in 0..Quota /\ troubles' \in 0..MaxTroubles
      /\ mode \in Modes /\ expected \in Nat
  BY BuildAssumption DEF IInv, TypeOK, Start, world, Modes
<1>2. j \in Jobs /\ job' = [job EXCEPT ![b] = j] /\ job'[b] = j /\ j.held = {}
  <2>1. j \in Jobs
    <3>1. Idle \in Jobs /\ "status" \in Steps
      BY BuildAssumption DEF Idle, Jobs, Steps, Modes, Outcomes
    <3>2. QED  BY <1>1, <3>1 DEF Jobs
  <2>2. job' = [job EXCEPT ![b] = j] /\ job'[b] = j
    BY <1>1 DEF Start
  <2>3. QED  BY <2>1, <2>2 DEF Idle
<1>3. j.at = "status" /\ j.batch = {} /\ j.todo = {} /\ j.inserted = 0
  BY DEF Idle
<1> HIDE DEF j
<1>4. Local(b)'
  BY <1>2, <1>3 DEF Local, InsertsInOrder, WorkFits, RegisteredFirst, BatchIsAccounted,
                    CanaryCounts, CountsAddUp, CorpusIsExpected, At, Preflight
<1>5. registered => registered'
  BY DEF Start, world
<1>6. QED  BY <1>1, <1>2, <1>4, <1>5, MoveFits DEF Start, world

LEMMA RegisterFits ==
  ASSUME IInv, NEW b \in Builders, Register(b)
  PROVE  IInv'
<1>1. /\ job[b].at = "register" /\ registered' = TRUE /\ job[b] \in Jobs
      /\ UNCHANGED <<building, eligible, embedded, quota, troubles>>
  BY DEF Register, At, IInv, TypeOK
<1>2. job[b].todo = job[b].batch
  BY <1>1 DEF IInv, Local, WorkFits, At
<1>3. PICK step \in {"missing", "embed", "insert", "count", "exact", "absent", "orphans"} :
        /\ step \notin {"count", "exact", "absent", "orphans"}
        /\ Goto(b, step)
        /\ step = "embed" => job[b].batch # {}
        /\ step = "insert" => job[b].mode = "sample" /\ job[b].batch = {}
  BY DEF Register
<1>4. /\ registered' \in BOOLEAN /\ (registered => registered')
      /\ ~registered' => step = "missing" /\ job[b].mode = "sample"
  BY <1>1
<1>5. /\ job[b].at \in {"register", "missing", "pause", "count", "exact", "absent"}
      /\ job[b].at # "absent"
      /\ step \notin {"count", "exact", "absent", "orphans"}
  BY <1>1, <1>3
<1>6. step = "embed" => job[b].todo # {}
  BY <1>2, <1>3
<1>7. QED  BY <1>1, <1>3, <1>4, <1>5, <1>6, PassFits

LEMMA ReadFits ==
  ASSUME IInv, NEW b \in Builders, ReadCanary(b) \/ ReadSample(b) \/ ReadBatch(b)
  PROVE  IInv'
<1>1. /\ job[b].at = "missing" /\ UNCHANGED world /\ job[b].batch \in SUBSET Chunks
      /\ quota' = quota /\ troubles' = troubles
      /\ quota' \in 0..Quota /\ troubles' \in 0..MaxTroubles /\ registered \in BOOLEAN
      /\ Missing \in SUBSET Chunks /\ Missing \subseteq eligible /\ Missing \cap embedded = {}
      /\ embedded \subseteq eligible /\ eligible \subseteq Chunks
  BY DEF ReadCanary, ReadSample, ReadBatch, At, IInv, TypeOK, Jobs, Missing, Corpus
<1>2. job[b].mode # "sample" => registered
  BY <1>1 DEF IInv, Local, RegisteredFirst, Preflight, At
<1>3. CASE End(b, "stopped")
  BY <1>1, <1>3, EndFits DEF Outcomes
<1>4. CASE ReadCanary(b) /\ Missing # {}
  <2> DEFINE chunks == Lowest(Missing, 1)
  <2>1. /\ chunks \subseteq Missing /\ chunks # {} /\ \A c, d \in chunks : c = d
    BY <1>1, <1>4, LowestFits
  <2>2. job[b].mode = "canary" /\ Take(b, chunks, "embed")
    BY <1>4 DEF ReadCanary
  <2> HIDE DEF chunks
  <2>3. registered /\ chunks \in SUBSET eligible /\ chunks \cap embedded = {}
    BY <1>1, <1>2, <2>1, <2>2
  <2>4. QED  BY <1>1, <2>1, <2>2, <2>3, TakeFits
<1>5. CASE ReadBatch(b) /\ Missing # {}
  <2> DEFINE chunks == Lowest(Missing, BatchSize)
  <2>1. chunks \subseteq Missing /\ chunks # {}
    BY <1>1, <1>5, LowestFits, BuildAssumption
  <2>2. job[b].mode = "full" /\ Take(b, chunks, "embed")
    BY <1>5 DEF ReadBatch
  <2> HIDE DEF chunks
  <2>3. registered /\ chunks \in SUBSET eligible /\ chunks \cap embedded = {}
    BY <1>1, <1>2, <2>1, <2>2
  <2>4. QED  BY <1>1, <2>1, <2>2, <2>3, TakeFits
<1>6. CASE ReadBatch(b) /\ Missing = {}
  <2>1. job[b].mode = "full" /\ Goto(b, "count") /\ registered
    BY <1>2, <1>6 DEF ReadBatch
  <2>2. building => eligible \subseteq embedded
    BY <1>6 DEF Missing, Corpus
  <2>3. /\ UNCHANGED <<building, eligible, embedded, quota, troubles>>
        /\ registered' \in BOOLEAN /\ (registered => registered') /\ registered'
    BY <1>1, <2>1 DEF world
  <2>4. ~registered' => "count" = "missing" /\ job[b].mode = "sample"
    BY <2>3
  <2>5. QED  BY <1>1, <2>1, <2>2, <2>3, <2>4, PassFits
<1>7. CASE ReadSample(b) /\ ~End(b, "stopped")
  <2> DEFINE chunks == Lowest(SampleProduct \ embedded, SampleLimit)
  <2>1. SampleProduct \ embedded \subseteq Missing
    BY DEF Missing, SampleProduct
  <2>2. chunks \subseteq Missing
    BY <1>1, <2>1, LowestFits, BuildAssumption
  <2>3. job[b].mode = "sample" /\ Take(b, chunks, "sections")
    BY <1>7 DEF ReadSample
  <2> HIDE DEF chunks
  <2>4. chunks \in SUBSET eligible /\ chunks \cap embedded = {}
    BY <1>1, <2>2
  <2>5. QED  BY <1>1, <2>3, <2>4, TakeFits
<1>8. QED
  BY <1>3, <1>4, <1>5, <1>6, <1>7 DEF ReadCanary, ReadBatch

LEMMA SectionsFits ==
  ASSUME IInv, NEW b \in Builders, ReadSections(b)
  PROVE  IInv'
<1>1. /\ job[b].at = "sections" /\ registered \in BOOLEAN /\ registered' = registered
      /\ UNCHANGED <<building, eligible, embedded, quota, troubles>>
      /\ UNCHANGED world /\ quota' \in 0..Quota /\ troubles' \in 0..MaxTroubles
  BY DEF ReadSections, At, IInv, TypeOK, world
<1>2. CASE End(b, "stopped")
  BY <1>1, <1>2, EndFits DEF Outcomes
<1>3. CASE Goto(b, "register")
  <2>1. ~registered' => "register" = "register" \/ ("register" = "missing" /\ job[b].mode = "sample")
    OBVIOUS
  <2>2. (registered => registered') /\ registered' \in BOOLEAN
    BY <1>1
  <2>3. QED  BY <1>1, <1>3, <2>1, <2>2, PassFits
<1>4. QED  BY <1>2, <1>3 DEF ReadSections

LEMMA RefusedFits ==
  ASSUME IInv, NEW b \in Builders, Refused(b) \/ RefusedForGood(b)
  PROVE  IInv'
<1>1. /\ job[b] \in Jobs /\ Local(b) /\ job \in [Builders -> Jobs]
      /\ At(b, "embed") /\ UNCHANGED world
      /\ quota' \in 0..Quota /\ troubles' \in 0..MaxTroubles /\ registered \in BOOLEAN
  BY BuildAssumption DEF IInv, TypeOK, Refused, RefusedForGood
<1>2. registered
  BY <1>1 DEF Local, RegisteredFirst, At, Preflight
<1>3. CASE End(b, "stopped")
  BY <1>1, <1>3, EndFits DEF Outcomes
<1>4. CASE Take(b, {}, "pause")
  BY <1>1, <1>2, <1>4, TakeFits DEF At
<1>5. CASE job[b].attempt < MaxAttempts /\ job' = [job EXCEPT ![b].attempt = @ + 1]
  <2> DEFINE j == [job[b] EXCEPT !.attempt = @ + 1]
  <2>1. job[b].attempt + 1 \in 1..MaxAttempts
    BY <1>1, <1>5, BuildAssumption DEF Jobs
  <2>2. j \in Jobs /\ job' = [job EXCEPT ![b] = j] /\ job'[b] = j
    BY <1>1, <1>5, <2>1 DEF Jobs
  <2>3. /\ j.at = job[b].at /\ j.mode = job[b].mode /\ j.batch = job[b].batch
        /\ j.todo = job[b].todo /\ j.expected = job[b].expected /\ j.held = job[b].held
        /\ j.skipped = job[b].skipped /\ j.inserted = job[b].inserted
        /\ j.byOthers = job[b].byOthers
    BY <1>1 DEF Jobs
  <2> HIDE DEF j
  <2>4. Local(b)'
    BY <1>1, <2>2, <2>3 DEF Local, InsertsInOrder, WorkFits, RegisteredFirst, BatchIsAccounted,
         CanaryCounts, CountsAddUp, CorpusIsExpected, At, world
  <2>5. j.held = {}
    BY <1>1, <2>3 DEF Local, InsertsInOrder, At
  <2>6. QED  BY <1>1, <1>2, <2>2, <2>4, <2>5, MoveFits DEF world
<1>6. QED  BY <1>3, <1>4, <1>5 DEF Refused, RefusedForGood

LEMMA ResumeFits ==
  ASSUME IInv, NEW b \in Builders, Resume(b)
  PROVE  IInv'
<1>1. /\ job[b].at = "pause" /\ Goto(b, "missing") /\ registered \in BOOLEAN
      /\ UNCHANGED <<building, eligible, embedded, quota, troubles>> /\ registered' = registered
  BY DEF Resume, At, IInv, TypeOK, world
<1>2. registered
  BY <1>1 DEF IInv, Local, RegisteredFirst, Preflight, At
<1>3. /\ registered' \in BOOLEAN /\ (registered => registered')
      /\ ~registered' => "missing" = "missing" /\ job[b].mode = "sample"
  BY <1>1, <1>2
<1>4. QED  BY <1>1, <1>3, PassFits

LEMMA ReconcileFits ==
  ASSUME IInv, NEW b \in Builders,
         \/ Report(b) \/ ReconcileEligible(b) \/ ReconcileExact(b)
         \/ ReconcileMissing(b) \/ ReconcileOrphans(b)
  PROVE  IInv'
<1>1. /\ job[b] \in Jobs /\ Local(b) /\ UNCHANGED world /\ registered \in BOOLEAN
      /\ embedded \subseteq eligible /\ eligible \in SUBSET Chunks
      /\ quota' = quota /\ troubles' = troubles
      /\ quota' \in 0..Quota /\ troubles' \in 0..MaxTroubles
  BY DEF Report, ReconcileEligible, ReconcileExact, ReconcileMissing, ReconcileOrphans,
         IInv, TypeOK
<1>2. ASSUME NEW outcome \in Outcomes, End(b, outcome) PROVE IInv'
  BY <1>1, <1>2, EndFits
<1>3. ASSUME NEW step \in {"exact", "absent", "orphans"}, Goto(b, step),
             job[b].at \in {"count", "exact", "absent"},
             job[b].at = "absent" => step = "orphans",
             step \in {"absent", "orphans"} =>
               /\ job[b].expected <= Cardinality(embedded)
               /\ \/ job[b].skipped + job[b].inserted + job[b].byOthers = job[b].expected
                  \/ ~building /\ embedded # {}
      PROVE  IInv'
  <2>1. registered
    BY <1>1, <1>3 DEF Local, RegisteredFirst, Preflight, At
  <2>2. building => eligible \subseteq embedded \/ job[b].expected < Cardinality(eligible)
    BY <1>1, <1>3 DEF Local, CorpusIsExpected
  <2>3. /\ UNCHANGED <<building, eligible, embedded, quota, troubles>>
        /\ registered' \in BOOLEAN /\ (registered => registered') /\ registered'
    BY <1>1, <2>1 DEF world
  <2>4. /\ job[b].at \in {"register", "missing", "pause", "count", "exact", "absent"}
        /\ step \in {"missing", "embed", "insert", "count", "exact", "absent", "orphans"}
        /\ step # "embed" /\ step # "insert"
    BY <1>3
  <2>5. QED  BY <1>3, <2>2, <2>3, <2>4, PassFits
<1>4. CASE ReconcileEligible(b) /\ Goto(b, "exact")
  <2>1. job[b].at = "count"
    BY <1>4 DEF ReconcileEligible, At
  <2>2. QED  BY <1>3, <1>4, <2>1
<1>5. CASE ReconcileExact(b) /\ Cardinality(Corpus \cap embedded) = job[b].expected
  <2>1. job[b].at = "exact" /\ Goto(b, "absent")
    BY <1>5 DEF ReconcileExact, At
  <2>2. job[b].skipped + job[b].inserted + job[b].byOthers = Cardinality(embedded)
    BY <1>1, <2>1 DEF Local, CountsAddUp, Preflight
  <2>3. Cardinality(embedded) \in Nat
    BY <1>1, ChunksFinite
  <2>4. CASE building
    <3>1. Corpus \cap embedded = embedded
      BY <1>1, <2>4 DEF Corpus
    <3>2. QED  BY <1>3, <1>5, <2>1, <2>2, <2>3, <3>1
  <2>5. CASE ~building
    <3>1. Corpus \cap embedded = {}
      BY <2>5 DEF Corpus
    <3>2. job[b].expected = 0
      BY <1>5, <3>1, FS_EmptySet
    <3>3. embedded = {} => Cardinality(embedded) = 0
      BY FS_EmptySet
    <3>4. QED  BY <1>3, <2>1, <2>2, <2>3, <2>5, <3>2, <3>3
  <2>6. QED  BY <2>4, <2>5
<1>6. CASE ReconcileMissing(b) /\ Goto(b, "orphans")
  <2>1. job[b].at = "absent"
    BY <1>6 DEF ReconcileMissing, At
  <2>2. /\ job[b].expected <= Cardinality(embedded)
        /\ \/ job[b].skipped + job[b].inserted + job[b].byOthers = job[b].expected
           \/ ~building /\ embedded # {}
    BY <1>1, <2>1 DEF Local, CountsAddUp
  <2>3. QED  BY <1>3, <1>6, <2>1, <2>2
<1>7. QED
  BY <1>2, <1>4, <1>5, <1>6 DEF Report, ReconcileEligible, ReconcileExact, ReconcileMissing,
                                ReconcileOrphans, Outcomes

LEMMA AnsweredFits ==
  ASSUME IInv, NEW b \in Builders, Answered(b)
  PROVE  IInv'
<1> DEFINE rest == job[b].todo \ {First(job[b].todo)}
           j == [job[b] EXCEPT !.at = IF rest = {} THEN "insert" ELSE "embed",
                               !.todo = IF rest = {} THEN job[b].batch ELSE rest,
                               !.attempt = 1]
<1>1. /\ job[b] \in Jobs /\ Local(b) /\ job \in [Builders -> Jobs]
      /\ job[b].at = "embed" /\ UNCHANGED world /\ registered \in BOOLEAN
      /\ quota' \in 0..Quota /\ troubles' \in 0..MaxTroubles
  <2>1. quota \in 0..Quota /\ troubles \in 0..MaxTroubles
    BY DEF IInv, TypeOK
  <2>2. quota' \in 0..Quota /\ troubles' \in 0..MaxTroubles
    <3>1. quota > 0 /\ quota' = quota - 1 /\ troubles' = troubles
      BY DEF Answered
    <3>2. QED  BY <2>1, <3>1, BuildAssumption
  <2>3. QED  BY <2>2 DEF IInv, TypeOK, Answered, At
<1>2. job' = [job EXCEPT ![b] = j] /\ job'[b] = j
  BY <1>1 DEF Answered
<1>3. j \in Jobs
  <2>1. 1 \in 1..MaxAttempts /\ rest \in SUBSET Chunks /\ job[b].batch \in SUBSET Chunks
    BY <1>1, BuildAssumption DEF Jobs
  <2> HIDE DEF rest
  <2>2. QED  BY <1>1, <2>1 DEF Jobs, Steps
<1>4. job[b].held = {} /\ job[b].batch # {}
  BY <1>1 DEF Local, InsertsInOrder, WorkFits, At
<1>5. /\ j.at = IF rest = {} THEN "insert" ELSE "embed"
      /\ j.todo = IF rest = {} THEN job[b].batch ELSE rest
      /\ j.mode = job[b].mode /\ j.batch = job[b].batch
      /\ j.expected = job[b].expected /\ j.held = {}
      /\ j.skipped = job[b].skipped /\ j.inserted = job[b].inserted
      /\ j.byOthers = job[b].byOthers
  BY <1>1, <1>4 DEF Jobs
<1>6. rest \subseteq job[b].batch
  BY <1>1 DEF Local, InsertsInOrder
<1> HIDE DEF j, rest
<1>7. InsertsInOrder(b)' /\ WorkFits(b)' /\ RegisteredFirst(b)' /\ BatchIsAccounted(b)'
  BY <1>1, <1>2, <1>4, <1>5, <1>6 DEF Local, InsertsInOrder, WorkFits, RegisteredFirst,
                                      BatchIsAccounted, At, Preflight, world
<1>8. CanaryCounts(b)' /\ CountsAddUp(b)' /\ CorpusIsExpected(b)'
  BY <1>1, <1>2, <1>5 DEF Local, CanaryCounts, CountsAddUp, CorpusIsExpected, At, Preflight, world
<1>9. Local(b)'
  BY <1>1, <1>2, <1>5, <1>7, <1>8 DEF Local, world
<1>10. QED  BY <1>1, <1>2, <1>3, <1>5, <1>9, MoveFits DEF world

\* The row is above all those the transaction holds, no other holds it, and it
\* is held only if it is not there yet.
LEMMA InsertRowFits ==
  ASSUME IInv, NEW b \in Builders, InsertRow(b)
  PROVE  IInv'
<1> DEFINE c == First(job[b].todo)
           j == [job[b] EXCEPT !.todo = @ \ {c}, !.held = @ \cup ({c} \ embedded)]
<1>1. /\ job[b] \in Jobs /\ Local(b) /\ job \in [Builders -> Jobs] /\ RowsAreFree
      /\ job[b].at = "insert" /\ UNCHANGED world /\ registered \in BOOLEAN
      /\ quota' \in 0..Quota /\ troubles' \in 0..MaxTroubles
      /\ job[b].todo \in SUBSET Chunks /\ job[b].todo # {}
  BY DEF IInv, TypeOK, InsertRow, At, Jobs
<1>2. c \in job[b].todo /\ \A t \in job[b].todo : c <= t
  BY <1>1, FirstIsLeast
<1>3. CASE End(b, "database")
  BY <1>1, <1>3, EndFits DEF Outcomes
<1>4. CASE ~End(b, "database")
  <2>1. ~HeldByOther(b, c) /\ job' = [job EXCEPT ![b] = j] /\ job'[b] = j
    BY <1>1, <1>4 DEF InsertRow
  <2>2. j \in Jobs
    <3>1. c \in Chunks
      BY <1>1, <1>2
    <3> HIDE DEF c
    <3>2. QED  BY <1>1, <3>1 DEF Jobs
  <2>3. /\ j.at = "insert" /\ j.mode = job[b].mode /\ j.batch = job[b].batch
        /\ j.todo = job[b].todo \ {c} /\ j.held = job[b].held \cup ({c} \ embedded)
        /\ j.expected = job[b].expected
        /\ j.skipped = job[b].skipped /\ j.inserted = job[b].inserted
        /\ j.byOthers = job[b].byOthers
    BY <1>1 DEF Jobs
  <2> HIDE DEF j, c
  <2>4. InsertsInOrder(b)'
    <3>1. \A t \in j.todo : c < t
      <4>1. c \in Nat /\ \A t \in job[b].todo : t \in Nat
        BY <1>1, <1>2, BuildAssumption DEF Chunks
      <4>2. QED  BY <1>2, <2>3, <4>1
    <3>2. \A h \in j.held, t \in j.todo : h < t
      BY <1>1, <2>3, <3>1 DEF Local, InsertsInOrder
    <3>3. /\ j.todo \subseteq j.batch
          /\ j.held \subseteq j.batch \ j.todo
      BY <1>1, <1>2, <2>3 DEF Local, InsertsInOrder
    <3>4. QED  BY <2>1, <2>3, <3>2, <3>3 DEF InsertsInOrder, At
  <2>5. WorkFits(b)' /\ RegisteredFirst(b)' /\ BatchIsAccounted(b)'
    BY <1>1, <2>1, <2>3 DEF Local, WorkFits, RegisteredFirst, BatchIsAccounted, At, Preflight, world
  <2>6. CanaryCounts(b)' /\ CountsAddUp(b)' /\ CorpusIsExpected(b)'
    BY <1>1, <2>1, <2>3 DEF Local, CanaryCounts, CountsAddUp, CorpusIsExpected, At, Preflight, world
  <2>7. Local(b)'
    BY <1>1, <2>1, <2>3, <2>4, <2>5, <2>6 DEF Local, world
  <2>8. /\ \A r \in Builders \ {b} : job'[b].held \cap job[r].held = {}
        /\ job'[b].held \cap embedded = {}
    BY <1>1, <2>1, <2>3 DEF RowsAreFree, HeldByOther
  <2>9. Alone(b)
    BY <1>1, <2>1, <2>2 DEF Alone, world
  <2>10. QED  BY <2>7, <2>8, <2>9, AloneFits
<1>5. QED  BY <1>3, <1>4

\* What goes on around the builders.
LEMMA DieFits ==
  ASSUME IInv, NEW b \in Builders, Die(b)
  PROVE  IInv'
<1>1. quota' \in 0..Quota /\ troubles' \in 0..MaxTroubles
  BY BuildAssumption DEF Die, IInv, TypeOK
<1>2. QED  BY <1>1, EndFits DEF Die, Outcomes

LEMMA AroundFits ==
  ASSUME IInv, WindowResets \/ FinishDataset \/ \E c \in Chunks : CorpusGrows(c)
  PROVE  IInv'
<1>1. job' = job /\ embedded' = embedded /\ registered' = registered
  BY DEF WindowResets, FinishDataset, CorpusGrows, world
<1>2. RowsAreFree'
  BY <1>1 DEF IInv, RowsAreFree
<1>3. CASE WindowResets
  <2>1. quota' \in 0..Quota
    BY <1>3, BuildAssumption DEF WindowResets
  <2>2. TypeOK'
    BY <1>3, <2>1 DEF IInv, TypeOK, WindowResets, world
  <2>3. ASSUME NEW b \in Builders PROVE Local(b)'
    BY <1>3 DEF IInv, WindowResets, world, Local, InsertsInOrder, WorkFits, RegisteredFirst,
                BatchIsAccounted, CanaryCounts, CountsAddUp, CorpusIsExpected, At
  <2>4. QED  BY <1>2, <2>2, <2>3 DEF IInv
<1>4. CASE FinishDataset
  <2>1. TypeOK'
    BY <1>4 DEF IInv, TypeOK, FinishDataset
  <2>2. ASSUME NEW b \in Builders PROVE Local(b)'
    BY <1>4 DEF IInv, FinishDataset, Local, InsertsInOrder, WorkFits, RegisteredFirst,
                BatchIsAccounted, CanaryCounts, CountsAddUp, CorpusIsExpected, At
  <2>3. QED  BY <1>2, <2>1, <2>2 DEF IInv
<1>5. ASSUME NEW c \in Chunks, CorpusGrows(c) PROVE IInv'
  <2>1. /\ eligible' = eligible \cup {c} /\ c \notin eligible /\ eligible \in SUBSET Chunks
        /\ UNCHANGED <<building, embedded, job, quota, troubles>>
    BY <1>5 DEF CorpusGrows, IInv, TypeOK
  <2>2. Cardinality(eligible') = Cardinality(eligible) + 1 /\ Cardinality(eligible) \in Nat
    BY <2>1, ChunksFinite, FS_AddElement
  <2>3. TypeOK'
    BY <1>1, <2>1 DEF IInv, TypeOK
  <2>4. ASSUME NEW b \in Builders PROVE Local(b)'
    <3>1. Local(b) /\ job[b].expected \in Nat
      BY DEF IInv, TypeOK, Jobs
    <3>2. CorpusIsExpected(b)'
      BY <2>1, <2>2, <3>1 DEF Local, CorpusIsExpected, Preflight
    <3>3. InsertsInOrder(b)' /\ WorkFits(b)' /\ RegisteredFirst(b)' /\ BatchIsAccounted(b)'
      BY <1>1, <3>1 DEF Local, InsertsInOrder, WorkFits, RegisteredFirst, BatchIsAccounted, At
    <3>4. CanaryCounts(b)' /\ CountsAddUp(b)'
      BY <1>1, <2>1, <3>1 DEF Local, CanaryCounts, CountsAddUp, At
    <3>5. QED  BY <1>1, <2>1, <3>1, <3>2, <3>3, <3>4 DEF Local
  <2>5. QED  BY <1>2, <2>3, <2>4 DEF IInv
<1>6. QED  BY <1>3, <1>4, <1>5

\* The rows of the transaction are new; to the others they are embeddings that
\* somebody else inserted.
LEMMA CommitFits ==
  ASSUME IInv, NEW b \in Builders, Commit(b)
  PROVE  IInv'
<1> DEFINE H == job[b].held
<1>1. /\ job[b] \in Jobs /\ Local(b) /\ job \in [Builders -> Jobs] /\ RowsAreFree
      /\ job[b].at = "insert" /\ job[b].todo = {} /\ embedded' = embedded \cup H
      /\ UNCHANGED <<building, eligible, registered, quota, troubles>>
      /\ embedded \in SUBSET Chunks /\ H \in SUBSET Chunks /\ eligible \subseteq Chunks
      /\ quota' \in 0..Quota /\ troubles' \in 0..MaxTroubles /\ registered \in BOOLEAN
  BY DEF IInv, TypeOK, Commit, At, Jobs
<1>2. H \subseteq job[b].batch /\ H \cap embedded = {} /\ registered
  BY <1>1 DEF Local, InsertsInOrder, RowsAreFree, RegisteredFirst, Preflight, At
<1>3. /\ Cardinality(H) \in Nat /\ Cardinality(embedded) \in Nat
      /\ Cardinality(embedded') = Cardinality(embedded) + Cardinality(H)
      /\ H # {} => Cardinality(H) > 0
  <2>1. IsFiniteSet(H) /\ IsFiniteSet(embedded) /\ Cardinality(H) \in Nat /\ Cardinality(embedded) \in Nat
    BY <1>1, ChunksFinite
  <2>2. Cardinality(embedded \cap H) = 0
    BY <1>2, FS_EmptySet
  <2>3. Cardinality(embedded \cup H) = Cardinality(embedded) + Cardinality(H) - Cardinality(embedded \cap H)
    BY <2>1, FS_Union
  <2>4. H # {} => Cardinality(H) # 0
    BY <2>1, FS_EmptySet
  <2>5. QED  BY <1>1, <2>1, <2>2, <2>3, <2>4
<1>4. CASE End(b, "build_made_no_progress") /\ H = {}
  BY <1>1, <1>4, EndFits DEF Outcomes, world
<1>5. CASE job' = AfterCommit(b, Committed(b, Cardinality(job[b].held)))
  <2> DEFINE j == Committed(b, Cardinality(job[b].held))
  <2>1. /\ j \in Jobs /\ j.mode = job[b].mode /\ j.expected = job[b].expected
        /\ j.at = IF job[b].mode = "full" THEN "missing" ELSE "report"
        /\ j.batch = {} /\ j.held = {} /\ j.todo = {}
        /\ j.skipped = job[b].skipped /\ j.byOthers = job[b].byOthers
        /\ j.inserted = job[b].inserted + Cardinality(H)
    <3>1. job[b].inserted + Cardinality(H) \in Nat
      BY <1>1, <1>3 DEF Jobs
    <3>2. j.at \in Steps /\ j.at = IF job[b].mode = "full" THEN "missing" ELSE "report"
      BY <1>1 DEF Committed, Jobs, Steps
    <3>3. QED  BY <1>1, <3>1, <3>2 DEF Committed, Jobs
  <2> HIDE DEF j
  <2>2. /\ job'[b] = j
        /\ \A r \in Builders \ {b} :
             job'[r] = [job[r] EXCEPT !.byOthers =
                          IF job[r].at \notin {"idle", "absent", "orphans"}
                          THEN @ + Cardinality(H) ELSE @]
    BY <1>5 DEF AfterCommit, Running, Counted, At, j
  <2> HIDE DEF H
  <2>3. ASSUME NEW r \in Builders, r # b
        PROVE  /\ job'[r] \in Jobs /\ job'[r].at = job[r].at /\ job'[r].mode = job[r].mode
               /\ job'[r].expected = job[r].expected /\ job'[r].batch = job[r].batch
               /\ job'[r].todo = job[r].todo /\ job'[r].held = job[r].held
               /\ job'[r].skipped = job[r].skipped /\ job'[r].inserted = job[r].inserted
               /\ job'[r].byOthers = IF job[r].at \notin {"idle", "absent", "orphans"}
                                     THEN job[r].byOthers + Cardinality(H)
                                     ELSE job[r].byOthers
    <3>1. job[r] \in Jobs
      BY <1>1
    <3>2. CASE job[r].at \notin {"idle", "absent", "orphans"}
      <4>1. job'[r] = [job[r] EXCEPT !.byOthers = @ + Cardinality(H)]
        BY <2>2, <2>3, <3>2
      <4>2. job[r].byOthers + Cardinality(H) \in Nat
        BY <1>3, <3>1 DEF Jobs
      <4>3. QED  BY <3>1, <3>2, <4>1, <4>2 DEF Jobs
    <3>3. CASE job[r].at \in {"idle", "absent", "orphans"}
      <4>1. job'[r] = job[r]
        BY <2>2, <2>3, <3>1, <3>3 DEF Jobs
      <4>2. QED  BY <3>1, <3>3, <4>1
    <3>4. QED  BY <3>2, <3>3
  <2>4. TypeOK'
    <3>1. job' \in [Builders -> Jobs]
      <4>1. \A r \in Builders : job'[r] \in Jobs
        BY <2>1, <2>2, <2>3
      <4>2. QED  BY <1>5, <4>1 DEF AfterCommit
    <3>2. embedded' \subseteq eligible'
      BY <1>1, <1>2 DEF IInv, TypeOK, Local
    <3>3. QED  BY <1>1, <1>2, <3>1, <3>2 DEF IInv, TypeOK
  <2>5. RowsAreFree'
    <3>1. \A r \in Builders : job'[r].held \subseteq job[r].held
      BY <2>1, <2>2, <2>3
    <3>2. \A r \in Builders : job'[r].held \cap embedded' = {}
      BY <1>1, <2>1, <2>2, <2>3 DEF RowsAreFree, H
    <3>3. QED  BY <1>1, <3>1, <3>2 DEF RowsAreFree
  <2>6. Local(b)'
    <3>1. InsertsInOrder(b)' /\ WorkFits(b)' /\ RegisteredFirst(b)' /\ BatchIsAccounted(b)'
      BY <1>1, <1>2, <2>1, <2>2 DEF InsertsInOrder, WorkFits, RegisteredFirst,
                                    BatchIsAccounted, At, Preflight
    <3>2. CanaryCounts(b)'
      <4>1. ASSUME job[b].mode = "canary" PROVE j.inserted = 1 \/ j.byOthers > 0
        <5>1. job[b].inserted = 0 /\ job[b].batch # {} /\ job[b].batch \subseteq H \cup embedded
          BY <1>1, <4>1 DEF Local, CanaryCounts, WorkFits, BatchIsAccounted, At, H
        <5>2. CASE H = {}
          BY <1>1, <2>1, <5>1, <5>2 DEF Local, BatchIsAccounted
        <5>3. CASE H # {}
          <6>1. PICK c \in H : H = {c}
            BY <1>1, <1>2, <4>1, <5>3 DEF Local, WorkFits
          <6>2. Cardinality(H) = 1
            BY <6>1, FS_Singleton
          <6>3. QED  BY <2>1, <5>1, <6>2
        <5>4. QED  BY <5>2, <5>3
      <4>2. QED  BY <2>1, <2>2, <4>1 DEF CanaryCounts, At, Preflight
    <3>3. CountsAddUp(b)'
      <4>1. /\ job[b].skipped \in Nat /\ job[b].inserted \in Nat /\ job[b].byOthers \in Nat
            /\ job[b].skipped + job[b].inserted + job[b].byOthers = Cardinality(embedded)
        BY <1>1 DEF Local, CountsAddUp, Preflight, Jobs
      <4>2. j.skipped + j.inserted + j.byOthers = Cardinality(embedded')
        BY <1>3, <2>1, <4>1
      <4>3. j.at \notin {"absent", "orphans"}
        BY <2>1
      <4>4. QED  BY <2>2, <4>2, <4>3 DEF CountsAddUp
    <3>4. CorpusIsExpected(b)'
      BY <1>1, <2>1, <2>2 DEF Local, CorpusIsExpected, Preflight
    <3>5. QED  BY <2>1, <2>2, <3>1, <3>2, <3>3, <3>4 DEF Local
  <2>7. ASSUME NEW r \in Builders, r # b PROVE Local(r)'
    <3>1. Local(r) /\ job[r].byOthers \in Nat /\ job'[r].byOthers >= job[r].byOthers
      BY <1>1, <1>3, <2>3, <2>7 DEF IInv, Jobs
    <3>2. InsertsInOrder(r)' /\ WorkFits(r)' /\ RegisteredFirst(r)'
      BY <1>1, <2>3, <2>7, <3>1 DEF Local, InsertsInOrder, WorkFits, RegisteredFirst, At, Preflight
    <3>3. BatchIsAccounted(r)'
      <4>1. At(r, "insert")' =>
              job'[r].batch \ job'[r].todo \subseteq job'[r].held \cup embedded'
        BY <1>1, <2>3, <2>7, <3>1 DEF Local, BatchIsAccounted, At
      <4>2. ASSUME job'[r].at \notin {"absent", "orphans"}, job'[r].batch \cap embedded' # {}
            PROVE  job'[r].byOthers > 0
        <5>1. CASE job[r].batch \cap embedded # {}
          BY <1>3, <2>3, <2>7, <3>1, <4>2, <5>1 DEF Local, BatchIsAccounted
        <5>2. CASE job[r].batch \cap embedded = {}
          <6>1. H # {} /\ job[r].batch # {}
            BY <1>1, <2>3, <2>7, <4>2, <5>2
          <6>2. job[r].at \notin {"idle", "absent", "orphans"}
            BY <2>3, <2>7, <3>1, <4>2, <6>1 DEF Local, WorkFits, Preflight
          <6>3. QED  BY <1>3, <2>3, <2>7, <3>1, <6>1, <6>2
        <5>3. QED  BY <5>1, <5>2
      <4>3. QED  BY <4>1, <4>2 DEF BatchIsAccounted
    <3>4. CanaryCounts(r)'
      BY <1>3, <2>3, <2>7, <3>1 DEF Local, CanaryCounts, At
    <3>5. CountsAddUp(r)'
      <4>1. job[r] \in Jobs
        BY <1>1
      <4>2. ASSUME job[r].at \notin Preflight \cup {"absent", "orphans"}
            PROVE  job'[r].skipped + job'[r].inserted + job'[r].byOthers = Cardinality(embedded')
        <5>1. /\ job[r].skipped \in Nat /\ job[r].inserted \in Nat
              /\ job[r].skipped + job[r].inserted + job[r].byOthers = Cardinality(embedded)
              /\ job[r].at \notin {"idle", "absent", "orphans"}
          BY <3>1, <4>1, <4>2 DEF Local, CountsAddUp, Preflight, Jobs
        <5>2. QED  BY <1>3, <2>3, <2>7, <3>1, <5>1
      <4>3. ASSUME job[r].at \in {"absent", "orphans"}
            PROVE  /\ job'[r].expected <= Cardinality(embedded')
                   /\ \/ job'[r].skipped + job'[r].inserted + job'[r].byOthers = job'[r].expected
                      \/ ~building' /\ embedded' # {}
        <5>1. /\ job[r].expected \in Nat /\ job[r].expected <= Cardinality(embedded)
              /\ \/ job[r].skipped + job[r].inserted + job[r].byOthers = job[r].expected
                 \/ ~building /\ embedded # {}
          BY <3>1, <4>1, <4>3 DEF Local, CountsAddUp, Jobs
        <5>2. job'[r].byOthers = job[r].byOthers
          BY <2>3, <2>7, <4>3
        <5>3. job'[r].expected <= Cardinality(embedded')
          BY <1>3, <2>3, <2>7, <5>1
        <5>4. QED  BY <1>1, <2>3, <2>7, <5>1, <5>2, <5>3
      <4>4. QED  BY <2>3, <2>7, <4>2, <4>3 DEF CountsAddUp
    <3>6. CorpusIsExpected(r)'
      BY <1>1, <2>3, <2>7, <3>1 DEF Local, CorpusIsExpected
    <3>7. QED
      BY <1>1, <2>3, <2>7, <3>1, <3>2, <3>3, <3>4, <3>5, <3>6 DEF Local
  <2>8. QED  BY <2>4, <2>5, <2>6, <2>7 DEF IInv
<1>6. QED  BY <1>4, <1>5 DEF Commit
-----------------------------------------------------------------------------
LEMMA NextFits == IInv /\ [Next]_vars => IInv'
<1> SUFFICES ASSUME IInv, [Next]_vars PROVE IInv'
  OBVIOUS
<1>1. ASSUME NEW b \in Builders, Step(b) PROVE IInv'
  BY <1>1, PreflightFits, RegisterFits, ReadFits, SectionsFits, AnsweredFits, RefusedFits, ResumeFits,
     InsertRowFits, CommitFits, ReconcileFits DEF Step
<1>2. CASE UNCHANGED vars
  BY <1>2 DEF vars, IInv, TypeOK, RowsAreFree, Local, InsertsInOrder, WorkFits, RegisteredFirst,
              BatchIsAccounted, CanaryCounts, CountsAddUp, CorpusIsExpected, At
<1>3. QED  BY <1>1, <1>2, StartFits, DieFits, AroundFits DEF Next

LEMMA Invariant == Spec => []IInv
<1>1. QED  BY InitIInv, NextFits, PTL DEF Spec

\* The rows of the table are chunks of the corpus, and none is there before the
\* model is registered.
THEOREM TypeCorrect == Spec => []TypeOK
<1>1. IInv => TypeOK
  BY DEF IInv
<1>2. QED  BY <1>1, Invariant, PTL

\* Transactions that insert overlapping batches never wait for each other in a
\* circle: who waits for a row of another awaits a lower row than the other.
THEOREM NoLockCycleCorrect == Spec => []NoLockCycle
<1>1. QED  BY WaitsGoDown, Invariant, PTL
-----------------------------------------------------------------------------
(* How a command ends.                                                     *)

LEMMA EndsByOwnStep ==
  ASSUME IInv, Next, NEW b \in Builders, NEW outcome \in Outcomes \ {"stopped"},
         Ends(b, outcome)
  PROVE  Step(b)
<1>1. job \in [Builders -> Jobs] /\ job[b].at # "idle" /\ job'[b].at = "idle"
      /\ job'[b].outcome = outcome
  BY DEF IInv, TypeOK, Ends, Running, At
<1>2. ASSUME NEW r \in Builders, r # b, Step(r) \/ Die(r) PROVE FALSE
  <2>1. \/ job'[b] = job[b]
        \/ job'[b] = [job[b] EXCEPT !.byOthers = @ + Cardinality(job[r].held)]
    <3>1. ASSUME NEW o, End(r, o) PROVE job'[b] = job[b]
      BY <1>1, <1>2, <3>1 DEF End
    <3>2. ASSUME NEW step, Goto(r, step) PROVE job'[b] = job[b]
      BY <1>1, <1>2, <3>2 DEF Goto
    <3>3. ASSUME NEW chunks, NEW step, Take(r, chunks, step) PROVE job'[b] = job[b]
      BY <1>1, <1>2, <3>3 DEF Take
    <3>4. ASSUME ReadStatus(r) \/ CountEligible(r) \/ ReadSections(r) \/ Register(r) \/ Resume(r) \/ Report(r)
                   \/ ReconcileEligible(r) \/ ReconcileExact(r) \/ ReconcileMissing(r)
                   \/ ReconcileOrphans(r) \/ RefusedForGood(r) \/ Die(r)
          PROVE  job'[b] = job[b]
      BY <3>1, <3>2, <3>4 DEF ReadStatus, CountEligible, ReadSections, Register, Resume, Report,
         ReconcileEligible, ReconcileExact, ReconcileMissing, ReconcileOrphans,
         RefusedForGood, Die
    <3>5. ASSUME ReadCanary(r) \/ ReadSample(r) \/ ReadBatch(r) PROVE job'[b] = job[b]
      BY <3>1, <3>2, <3>3, <3>5 DEF ReadCanary, ReadSample, ReadBatch
    <3>6. ASSUME CountExisting(r) \/ Answered(r) PROVE job'[b] = job[b]
      BY <1>1, <1>2, <3>1, <3>6 DEF CountExisting, Answered
    <3>7. ASSUME Refused(r) PROVE job'[b] = job[b]
      BY <1>1, <1>2, <3>1, <3>3, <3>7 DEF Refused
    <3>8. ASSUME InsertRow(r) PROVE job'[b] = job[b]
      BY <1>1, <1>2, <3>1, <3>8 DEF InsertRow
    <3>9. ASSUME Commit(r)
          PROVE  \/ job'[b] = job[b]
                 \/ job'[b] = [job[b] EXCEPT !.byOthers = @ + Cardinality(job[r].held)]
      <4>1. CASE job' = AfterCommit(r, Committed(r, Cardinality(job[r].held)))
        BY <1>1, <1>2, <4>1 DEF AfterCommit, Running, Counted, At
      <4>2. QED  BY <3>1, <3>9, <4>1 DEF Commit
    <3>10. QED  BY <1>2, <3>4, <3>5, <3>6, <3>7, <3>8, <3>9 DEF Step
  <2>2. job[b] \in Jobs
    BY <1>1
  <2>3. job'[b].at = job[b].at
    BY <2>1, <2>2 DEF Jobs
  <2>4. QED  BY <1>1, <2>3
<1>3. ASSUME NEW r \in Builders, NEW mode \in Commands[r], NEW expected \in Expectations,
             Start(r, mode, expected)
      PROVE  FALSE
  <2>1. CASE r = b
    BY <1>1, <1>3, <2>1 DEF Start, At
  <2>2. CASE r # b
    BY <1>1, <1>3, <2>2 DEF Start
  <2>3. QED  BY <2>1, <2>2
<1>4. ~Die(b)
  BY <1>1 DEF Die, End, Idle
<1>5. job' # job
  BY <1>1
<1>6. QED
  BY <1>2, <1>3, <1>4, <1>5 DEF Next, WindowResets, CorpusGrows, FinishDataset

\* The reasons the code has for each outcome but "stopped".
LEMMA EndsForReason ==
  ASSUME IInv, Next, NEW b \in Builders, NEW outcome \in Outcomes \ {"stopped"},
         Ends(b, outcome)
  PROVE  \/ CountExisting(b) /\ Orphans # {} /\ outcome = "preflight_projection_invalid"
         \/ InsertRow(b) /\ ~building /\ outcome = "database"
         \/ /\ Commit(b) /\ job[b].mode = "full" /\ job[b].held = {}
            /\ outcome = "build_made_no_progress"
         \/ /\ Report(b) /\ outcome \in {"ok", "canary_readback_failed"}
            /\ outcome = "canary_readback_failed" => job[b].mode = "canary" /\ job[b].inserted # 1
         \/ /\ ReconcileEligible(b) /\ Cardinality(Corpus) # job[b].expected
            /\ outcome = "reconciliation_failed"
         \/ /\ ReconcileExact(b) /\ Cardinality(Corpus \cap embedded) # job[b].expected
            /\ outcome = "reconciliation_failed"
         \/ ReconcileMissing(b) /\ Missing # {} /\ outcome = "reconciliation_failed"
         \/ /\ ReconcileOrphans(b) /\ outcome \in {"ok", "reconciliation_failed"}
            /\ outcome = "ok" <=> Orphans = {}
<1>1. /\ job \in [Builders -> Jobs] /\ job[b] \in Jobs /\ job'[b].at = "idle"
      /\ job[b].at # "idle" /\ job'[b].outcome = outcome /\ outcome # "stopped"
  BY DEF IInv, TypeOK, Ends, Running, At
<1>2. ASSUME NEW o \in Outcomes, End(b, o) PROVE outcome = o
  BY <1>1, <1>2 DEF End, Idle
<1>3. ASSUME NEW step, Goto(b, step) PROVE step = "idle"
  BY <1>1, <1>3 DEF Goto, Jobs
<1>4. ASSUME NEW chunks, NEW step, Take(b, chunks, step) PROVE step = "idle"
  BY <1>1, <1>4 DEF Take, Jobs
<1>5. Step(b)
  BY EndsByOwnStep
<1>6. ~ReadStatus(b) /\ ~CountEligible(b) /\ ~ReadSections(b) /\ ~Register(b) /\ ~Resume(b) /\ ~ReadCanary(b)
      /\ ~ReadSample(b) /\ ~ReadBatch(b) /\ ~RefusedForGood(b)
  BY <1>1, <1>2, <1>3, <1>4 DEF ReadStatus, CountEligible, ReadSections, Register, Resume, ReadCanary,
                                ReadSample, ReadBatch, RefusedForGood, Outcomes
<1>7. ~Refused(b)
  <2>1. ASSUME job' = [job EXCEPT ![b].attempt = @ + 1] PROVE FALSE
    BY <1>1, <2>1 DEF Jobs
  <2>2. QED  BY <1>1, <1>2, <1>4, <2>1 DEF Refused, Outcomes
<1>8. ~Answered(b)
  <2> SUFFICES ASSUME Answered(b) PROVE FALSE
    OBVIOUS
  <2>1. PICK at \in {"insert", "embed"} : \E todo :
          job' = [job EXCEPT ![b].at = at, ![b].todo = todo, ![b].attempt = 1]
    BY DEF Answered
  <2>2. job'[b].at = at
    BY <1>1, <2>1 DEF Jobs
  <2>3. QED  BY <1>1, <2>2
<1>9. CountExisting(b) => Orphans # {} /\ outcome = "preflight_projection_invalid"
  <2>1. ASSUME CountExisting(b), Orphans = {} PROVE job'[b].at \in {"missing", "register"}
    BY <1>1, <2>1 DEF CountExisting, Jobs
  <2>2. QED  BY <1>1, <1>2, <2>1 DEF CountExisting, Outcomes
<1>10. InsertRow(b) => ~building /\ outcome = "database"
  BY <1>1, <1>2 DEF InsertRow, Outcomes, Jobs, At
<1>11. Commit(b) => /\ job[b].mode = "full" /\ job[b].held = {}
                    /\ outcome = "build_made_no_progress"
  <2>1. ASSUME job' = AfterCommit(b, Committed(b, Cardinality(job[b].held))) PROVE FALSE
    <3>1. job'[b] = Committed(b, Cardinality(job[b].held))
      BY <2>1 DEF AfterCommit
    <3>2. Committed(b, Cardinality(job[b].held)).at # "idle"
      BY <1>1 DEF Committed, Jobs
    <3>3. QED  BY <1>1, <3>1, <3>2
  <2>2. QED  BY <1>2, <2>1 DEF Commit, Outcomes
<1>12. Report(b) => /\ outcome \in {"ok", "canary_readback_failed"}
                    /\ outcome = "canary_readback_failed" =>
                         job[b].mode = "canary" /\ job[b].inserted # 1
  BY <1>2 DEF Report, Outcomes
<1>13. ReconcileEligible(b) => /\ Cardinality(Corpus) # job[b].expected
                               /\ outcome = "reconciliation_failed"
  BY <1>2, <1>3 DEF ReconcileEligible, Outcomes
<1>14. ReconcileExact(b) => /\ Cardinality(Corpus \cap embedded) # job[b].expected
                            /\ outcome = "reconciliation_failed"
  BY <1>2, <1>3 DEF ReconcileExact, Outcomes
<1>15. ReconcileMissing(b) => Missing # {} /\ outcome = "reconciliation_failed"
  BY <1>2, <1>3 DEF ReconcileMissing, Outcomes
<1>16. ReconcileOrphans(b) => /\ outcome \in {"ok", "reconciliation_failed"}
                              /\ outcome = "ok" <=> Orphans = {}
  BY <1>2 DEF ReconcileOrphans, Outcomes
<1>17. QED
  BY <1>5, <1>6, <1>7, <1>8, <1>9, <1>10, <1>11, <1>12, <1>13, <1>14, <1>15, <1>16 DEF Step

\* A build blames nothing that did not happen: for any number of builders, a
\* failure of one is another's insert, the end of the dataset's building or new
\* chunks.
THEOREM FailuresCorrect == Spec => FailuresAreCaused
<1> DEFINE Caused ==
      \A b \in Builders :
        /\ Ends(b, "build_made_no_progress") => job[b].byOthers > 0
        /\ Ends(b, "canary_readback_failed") => job[b].byOthers > 0
        /\ Ends(b, "preflight_projection_invalid") => ~building
        /\ Ends(b, "database") => ~building
        /\ Ends(b, "reconciliation_failed") =>
             ~building \/ job[b].expected < Cardinality(eligible)
<1>1. ASSUME IInv, Next, NEW b \in Builders
      PROVE  /\ Ends(b, "build_made_no_progress") => job[b].byOthers > 0
             /\ Ends(b, "canary_readback_failed") => job[b].byOthers > 0
             /\ Ends(b, "preflight_projection_invalid") => ~building
             /\ Ends(b, "database") => ~building
             /\ Ends(b, "reconciliation_failed") =>
                  ~building \/ job[b].expected < Cardinality(eligible)
  <2>1. /\ Local(b) /\ job[b] \in Jobs /\ embedded \subseteq eligible /\ eligible \in SUBSET Chunks
    BY <1>1 DEF IInv, TypeOK
  <2>2. ASSUME Ends(b, "build_made_no_progress") PROVE job[b].byOthers > 0
    <3>1. Commit(b) /\ job[b].mode = "full" /\ job[b].held = {}
      BY <1>1, <2>2, EndsForReason DEF Outcomes
    <3>2. job[b].batch # {} /\ job[b].batch \subseteq embedded
      BY <2>1, <3>1 DEF Commit, Local, WorkFits, BatchIsAccounted, At
    <3>3. QED  BY <2>1, <3>1, <3>2 DEF Commit, Local, BatchIsAccounted, At
  <2>3. ASSUME Ends(b, "canary_readback_failed") PROVE job[b].byOthers > 0
    <3>1. Report(b) /\ job[b].mode = "canary" /\ job[b].inserted # 1
      BY <1>1, <2>3, EndsForReason DEF Outcomes
    <3>2. QED  BY <2>1, <3>1 DEF Report, Local, CanaryCounts
  <2>4. ASSUME Ends(b, "preflight_projection_invalid") PROVE ~building
    <3>1. Orphans # {}
      BY <1>1, <2>4, EndsForReason DEF Outcomes
    <3>2. QED  BY <2>1, <3>1 DEF Orphans, Corpus
  <2>5. ASSUME Ends(b, "database") PROVE ~building
    BY <1>1, <2>5, EndsForReason DEF Outcomes
  <2>6. ASSUME Ends(b, "reconciliation_failed"), building
        PROVE  job[b].expected < Cardinality(eligible)
    <3>1. /\ Corpus = eligible /\ Cardinality(eligible) \in Nat /\ job[b].expected \in Nat
      BY <2>1, <2>6, ChunksFinite DEF Corpus, Jobs
    <3>2. CASE ReconcileEligible(b) /\ Cardinality(Corpus) # job[b].expected
      <4>1. job[b].expected <= Cardinality(eligible)
        BY <2>1, <2>6, <3>2 DEF ReconcileEligible, Local, CorpusIsExpected, At, Preflight
      <4>2. QED  BY <3>1, <3>2, <4>1
    <3>3. ASSUME job[b].at \in {"exact", "absent", "orphans"}, eligible \subseteq embedded
          PROVE  Corpus \cap embedded = eligible /\ Missing = {} /\ Orphans = {}
      BY <2>1, <3>1, <3>3 DEF Missing, Orphans
    <3>4. ASSUME job[b].at \in {"exact", "absent", "orphans"}
          PROVE  /\ job[b].expected <= Cardinality(eligible)
                 /\ eligible \subseteq embedded \/ job[b].expected < Cardinality(eligible)
      BY <2>1, <2>6, <3>4 DEF Local, CorpusIsExpected, Preflight
    <3>5. CASE ReconcileExact(b) /\ Cardinality(Corpus \cap embedded) # job[b].expected
      <4>1. job[b].at = "exact"
        BY <3>5 DEF ReconcileExact, At
      <4>2. QED  BY <3>1, <3>3, <3>4, <3>5, <4>1
    <3>6. CASE ReconcileMissing(b) /\ Missing # {}
      <4>1. job[b].at = "absent"
        BY <3>6 DEF ReconcileMissing, At
      <4>2. QED  BY <3>3, <3>4, <3>6, <4>1
    <3>7. CASE ReconcileOrphans(b) /\ Orphans # {}
      <4>1. job[b].at = "orphans"
        BY <3>7 DEF ReconcileOrphans, At
      <4>2. QED  BY <3>3, <3>4, <3>7, <4>1
    <3>8. QED  BY <1>1, <2>6, <3>2, <3>5, <3>6, <3>7, EndsForReason DEF Outcomes
  <2>7. QED  BY <2>2, <2>3, <2>4, <2>5, <2>6
<1>2. IInv /\ [Next]_vars => [Caused]_vars
  BY <1>1 DEF vars
<1>3. QED  BY <1>2, Invariant, PTL DEF Spec, FailuresAreCaused

\* The report of a full build adds up, whoever else inserted before, between or
\* after its counts.
THEOREM ReportsCorrect == Spec => ReportsAddUp
<1> DEFINE AddUp ==
      \A b \in Builders : job[b].mode = "full" /\ Ends(b, "ok") =>
        /\ job[b].expected <= Cardinality(embedded)
        /\ job[b].skipped + job[b].inserted + job[b].byOthers = job[b].expected
<1>1. ASSUME IInv, Next, NEW b \in Builders, job[b].mode = "full", Ends(b, "ok")
      PROVE  /\ job[b].expected <= Cardinality(embedded)
             /\ job[b].skipped + job[b].inserted + job[b].byOthers = job[b].expected
  <2>1. Local(b) /\ job[b] \in Jobs /\ embedded \in SUBSET Chunks
    BY <1>1 DEF IInv, TypeOK
  <2>2. ~Report(b)
    BY <1>1, <2>1 DEF Report, Local, WorkFits
  <2>3. ReconcileOrphans(b) /\ Orphans = {}
    BY <1>1, <2>2, EndsForReason DEF Outcomes
  <2>4. ~building => embedded = {}
    BY <2>3 DEF Orphans, Corpus
  <2>5. QED
    BY <2>1, <2>3, <2>4 DEF ReconcileOrphans, Local, CountsAddUp, At
<1>2. IInv /\ [Next]_vars => [AddUp]_vars
  BY <1>1 DEF vars
<1>3. QED  BY <1>2, Invariant, PTL DEF Spec, ReportsAddUp
=============================================================================
