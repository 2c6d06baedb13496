------------------------ MODULE DartIngestionProofs ------------------------
(***************************************************************************)
(* Theorems about DartIngestion for every number of documents, every       *)
(* quarantine limit and any number of crashes and failures.                *)
(***************************************************************************)
EXTENDS DartIngestion, FiniteSetTheorems, TLAPS

(***************************************************************************)
(* The inductive invariant.  What a record says limits what its directory  *)
(* can hold, whichever process wrote it and wherever that process died: a  *)
(* committed record never lies beside a temporary file, and a finished one *)
(* lies beside nothing.                                                    *)
(***************************************************************************)
RecordFitsDisk ==
  \A d \in Docs :
    /\ retention[d] = "pending_delete" => disk[d] \in {"absent", "pdf"}
    /\ retention[d] = "delete_authorized" => disk[d] # "temporary"
    /\ retention[d] = "metadata_only_deleted" => disk[d] = "absent"

(***************************************************************************)
(* What ingest_one_dart_document has established where it stands.          *)
(***************************************************************************)
StepIsPrepared ==
  /\ cursor \notin Docs => step = "lookup"
  /\ \A d \in Docs : cursor = d =>
       /\ step \in {"capture", "download"} => retention[d] = "none" /\ disk[d] # "pdf"
       /\ step \in {"process", "append"} =>
            retention[d] \in {"none", "pending_delete"} /\ disk[d] = "pdf"
       /\ step \in {"read_back", "authorize"} =>
            retention[d] = "pending_delete" /\ disk[d] = "pdf"
       /\ step = "authorize" => d \in readBack
       /\ step \in {"discard", "complete"} => retention[d] = "delete_authorized"
       /\ step = "complete" => disk[d] # "pdf"

\* The report speaks of documents the batch has left behind only.
ReportIsOfThePast ==
  cursor # 0 => \A d \in indexed \cup failed : d < cursor

\* Between the check of the limit and the PDF, the room stays reserved.
RoomIsReserved ==
  step \in {"capture", "download"} => Cardinality(Pdfs) < QuarantineLimit

Safe ==
  /\ TypeOK
  /\ RecordFitsDisk
  /\ StepIsPrepared
  /\ ReportIsOfThePast
  /\ AuthorizedWasVerified
  /\ ReportedIsComplete

IInv == Safe /\ RoomIsReserved /\ QuarantineBounded
-----------------------------------------------------------------------------
\* There are finitely many PDFs, so they can be counted.
LEMMA PdfsType == Pdfs \subseteq Docs /\ IsFiniteSet(Pdfs) /\ Cardinality(Pdfs) \in Nat
<1>1. IsFiniteSet(Docs)
  BY DartAssumption, FS_Interval DEF Docs
<1>2. Pdfs \in SUBSET Docs
  BY DEF Pdfs
<1>3. IsFiniteSet(Pdfs)
  BY <1>1, <1>2, FS_Subset
<1> QED
  BY <1>2, <1>3, FS_CardinalityType

LEMMA SafeInit == Init => Safe
  BY DartAssumption
  DEF Init, Safe, TypeOK, Steps, Retentions, RecordFitsDisk, StepIsPrepared,
      ReportIsOfThePast, AuthorizedWasVerified, ReportedIsComplete, Docs

(***************************************************************************)
(* A batch that starts, ends or is stopped keeps records and directories:  *)
(* what a dead process leaves behind is as safe as what it found.          *)
(***************************************************************************)
LEMMA SafeBatch ==
  ASSUME Safe, StartBatch \/ WriteReport \/ (Crash /\ troubles' \in 0..MaxTroubles /\ recorded' = recorded)
  PROVE  Safe'
<1> USE DartAssumption
    DEF Safe, TypeOK, Steps, RecordFitsDisk, StepIsPrepared, ReportIsOfThePast,
        AuthorizedWasVerified, ReportedIsComplete, Docs, report
<1>1. CASE StartBatch
  BY <1>1 DEF StartBatch
<1>2. CASE WriteReport
  BY <1>2 DEF WriteReport
<1>3. CASE Crash /\ troubles' \in 0..MaxTroubles /\ recorded' = recorded
  BY <1>3 DEF Crash, Stops
<1> QED
  BY <1>1, <1>2, <1>3

(***************************************************************************)
(* Every outcome of a document's turn either stays with the document, and  *)
(* changes its record, directory and step only, or leaves it for the next  *)
(* with one more entry in the report.                                      *)
(***************************************************************************)
LEMMA SafeTurn ==
  ASSUME Safe, NEW d \in Docs, Ingest(d) \/ IdentityMismatch(d) \/ CaptureFails(d) \/ ProcessFails(d),
         troubles' \in 0..MaxTroubles, recorded' = recorded
  PROVE  Safe'
<1> USE DartAssumption
    DEF Safe, TypeOK, Steps, Retentions, RecordFitsDisk, StepIsPrepared, ReportIsOfThePast,
        AuthorizedWasVerified, ReportedIsComplete, Docs, report, At, Proceed, NextDocument
<1>1. CASE AlreadyComplete(d)
  BY <1>1 DEF AlreadyComplete, Succeed
<1>2. CASE ResumeDeletion(d)
  BY <1>2 DEF ResumeDeletion
<1>3. CASE ResumeProcessing(d)
  BY <1>3 DEF ResumeProcessing
<1>4. CASE Unresumable(d) \/ IdentityMismatch(d) \/ ProcessFails(d)
  <2>1. cursor = d /\ step \in {"lookup", "process"} /\ Fail(d)
    BY <1>4 DEF Unresumable, IdentityMismatch, ProcessFails
  <2>2. TypeOK'
    <3>1. discarded' \subseteq Docs
      BY <2>1, PdfsType DEF Fail
    <3> QED
      BY <2>1, <3>1 DEF Fail
  <2>3. RecordFitsDisk' /\ AuthorizedWasVerified'
    BY <2>1 DEF Fail
  <2>4. StepIsPrepared'
    BY <2>1 DEF Fail
  <2>5. ReportIsOfThePast' /\ ReportedIsComplete'
    BY <2>1 DEF Fail
  <2> QED
    BY <2>2, <2>3, <2>4, <2>5
<1>5. CASE Reserve(d)
  <2>1. cursor = d /\ retention[d] = "none"
    BY <1>5 DEF Reserve, Untouched
  <2>2. CASE Cardinality(Pdfs) < QuarantineLimit
    <3>1. /\ disk' = [disk EXCEPT ![d] = "empty"]
          /\ step' = "capture"
          /\ UNCHANGED <<cursor, indexed, failed, discarded, retention, readBack>>
      BY <1>5, <2>2, PdfsType DEF Reserve, Untouched
    <3>2. TypeOK' /\ ReportIsOfThePast' /\ ReportedIsComplete'
      BY <2>1, <3>1
    <3>3. RecordFitsDisk' /\ AuthorizedWasVerified'
      BY <2>1, <3>1
    <3>4. StepIsPrepared'
      BY <2>1, <3>1
    <3> QED
      BY <3>2, <3>3, <3>4
  <2>3. CASE Cardinality(Pdfs) >= QuarantineLimit
    <3>1. /\ Stops
          /\ disk' = [disk EXCEPT ![d] = "absent"]
          /\ UNCHANGED <<retention, readBack>>
      BY <1>5, <2>3, PdfsType DEF Reserve, Untouched
    <3>2. TypeOK' /\ ReportIsOfThePast' /\ ReportedIsComplete'
      BY <2>1, <3>1 DEF Stops
    <3>3. RecordFitsDisk' /\ AuthorizedWasVerified'
      BY <2>1, <3>1
    <3>4. StepIsPrepared'
      BY <2>1, <3>1 DEF Stops
    <3> QED
      BY <3>2, <3>3, <3>4
  <2> QED
    BY <2>2, <2>3, PdfsType
<1>6. CASE StartDownload(d)
  BY <1>6 DEF StartDownload
<1>7. CASE FinishDownload(d)
  BY <1>7 DEF FinishDownload
<1>8. CASE CaptureFails(d)
  BY <1>8 DEF CaptureFails
<1>9. CASE Process(d)
  BY <1>9 DEF Process
<1>10. CASE Append(d)
  BY <1>10 DEF Append
<1>11. CASE ReadBack(d)
  BY <1>11 DEF ReadBack
<1>12. CASE Authorize(d)
  BY <1>12 DEF Authorize
<1>13. CASE Discard(d)
  BY <1>13 DEF Discard
<1>14. CASE Complete(d)
  BY <1>14 DEF Complete, Succeed
<1> QED
  BY <1>1, <1>2, <1>3, <1>4, <1>5, <1>6, <1>7, <1>8, <1>9, <1>10, <1>11, <1>12,
     <1>13, <1>14 DEF Ingest

LEMMA SafeStep == Safe /\ [Next]_vars => Safe'
<1> SUFFICES ASSUME Safe, [Next]_vars PROVE Safe'
  OBVIOUS
<1>1. CASE StartBatch \/ WriteReport
  BY <1>1, SafeBatch
<1>2. ASSUME NEW d \in Docs, Ingest(d) /\ UNCHANGED <<recorded, troubles>> PROVE Safe'
  <2>1. troubles' \in 0..MaxTroubles
    BY <1>2 DEF Safe, TypeOK
  <2> QED
    BY <1>2, <2>1, SafeTurn
<1>3. CASE Trouble
  <2>1. troubles' \in 0..MaxTroubles /\ recorded' = recorded
    BY <1>3, DartAssumption DEF Trouble, Safe, TypeOK
  <2> QED
    BY <1>3, <2>1, SafeBatch, SafeTurn DEF Trouble
<1>4. CASE UNCHANGED vars
  BY <1>4
  DEF vars, report, Safe, TypeOK, RecordFitsDisk, StepIsPrepared, ReportIsOfThePast,
      AuthorizedWasVerified, ReportedIsComplete
<1> QED
  BY <1>1, <1>2, <1>3, <1>4 DEF Next

LEMMA SafeInvariant == Spec => []Safe
  BY SafeInit, SafeStep, PTL DEF Spec

(***************************************************************************)
(* Every reachable state has the types TypeOK states.                      *)
(***************************************************************************)
THEOREM TypeCorrect == Spec => []TypeOK
<1>1. Safe => TypeOK
  BY DEF Safe
<1> QED
  BY <1>1, SafeInvariant, PTL

(***************************************************************************)
(* Whenever a record authorizes a deletion, or says it is done, some       *)
(* process had read the committed corpus back: the resumed deletion, which *)
(* asserts readback_verified without reading, never asserts it falsely.    *)
(***************************************************************************)
THEOREM VerificationCorrect == Spec => []AuthorizedWasVerified
<1>1. Safe => AuthorizedWasVerified
  BY DEF Safe
<1> QED
  BY <1>1, SafeInvariant, PTL

(***************************************************************************)
(* A document reported as indexed is complete on disk and in its record,   *)
(* and no report names a document as both indexed and failed.              *)
(***************************************************************************)
THEOREM ReportCorrect == Spec => []ReportedIsComplete
<1>1. Safe => ReportedIsComplete
  BY DEF Safe
<1> QED
  BY <1>1, SafeInvariant, PTL
-----------------------------------------------------------------------------
(***************************************************************************)
(* The quarantine.  A step that adds no PDF keeps the bound; the one that  *)
(* does, FinishDownload, uses up the room Reserve saw.                     *)
(***************************************************************************)
LEMMA NoNewPdf ==
  ASSUME QuarantineBounded, Pdfs' \subseteq Pdfs, step' \notin {"capture", "download"}
  PROVE  QuarantineBounded' /\ RoomIsReserved'
<1>1. Cardinality(Pdfs') <= Cardinality(Pdfs) /\ Cardinality(Pdfs') \in Nat
  BY PdfsType, FS_Subset, FS_CardinalityType
<1> QED
  BY <1>1, PdfsType, DartAssumption DEF QuarantineBounded, RoomIsReserved

LEMMA IInvInit == Init => IInv
<1> SUFFICES ASSUME Init PROVE RoomIsReserved /\ QuarantineBounded
  BY SafeInit DEF IInv
<1>1. Pdfs = {}
  BY DEF Init, Pdfs
<1> QED
  BY <1>1, FS_EmptySet, DartAssumption DEF Init, RoomIsReserved, QuarantineBounded

LEMMA IInvTurn ==
  ASSUME IInv, NEW d \in Docs,
         Ingest(d) \/ IdentityMismatch(d) \/ CaptureFails(d) \/ ProcessFails(d)
  PROVE  RoomIsReserved' /\ QuarantineBounded'
<1> USE DEF IInv, Safe, TypeOK, At, Proceed
<1>1. CASE Reserve(d)
  <2>1. Pdfs' = Pdfs
    BY <1>1 DEF Reserve, Untouched, Pdfs
  <2>2. step' \in {"capture", "download"} => Cardinality(Pdfs) < QuarantineLimit
    BY <1>1 DEF Reserve, Stops
  <2> QED
    BY <2>1, <2>2 DEF RoomIsReserved, QuarantineBounded
<1>2. CASE StartDownload(d)
  <2>1. disk[d] # "pdf"
    BY <1>2 DEF StartDownload, StepIsPrepared
  <2>2. Pdfs' = Pdfs
    BY <1>2, <2>1 DEF StartDownload, Pdfs
  <2> QED
    BY <1>2, <2>2 DEF StartDownload, RoomIsReserved, QuarantineBounded
<1>3. CASE FinishDownload(d)
  <2>1. Pdfs' = Pdfs \cup {d}
    BY <1>3 DEF FinishDownload, Pdfs
  <2>2. Cardinality(Pdfs') <= Cardinality(Pdfs) + 1 /\ Cardinality(Pdfs') \in Nat
    <3>1. IsFiniteSet(Pdfs) /\ Cardinality(Pdfs) \in Nat
      BY PdfsType
    <3>2. Cardinality(Pdfs \cup {d}) \in {Cardinality(Pdfs), Cardinality(Pdfs) + 1}
      BY <3>1, FS_AddElement
    <3> QED
      BY <2>1, <3>1, <3>2
  <2>3. Cardinality(Pdfs) < QuarantineLimit /\ step' = "process"
    BY <1>3 DEF FinishDownload, RoomIsReserved
  <2> QED
    BY <2>2, <2>3, PdfsType, DartAssumption DEF RoomIsReserved, QuarantineBounded
<1>4. ASSUME Fail(d) \/ Succeed(d) \/ CaptureFails(d) PROVE RoomIsReserved' /\ QuarantineBounded'
  BY <1>4, NoNewPdf DEF Fail, Succeed, CaptureFails, NextDocument, Pdfs
<1>5. CASE \/ ResumeDeletion(d) \/ ResumeProcessing(d) \/ Process(d) \/ Append(d)
          \/ ReadBack(d) \/ Authorize(d) \/ Discard(d)
  <2>1. Pdfs' \subseteq Pdfs
    BY <1>5 DEF ResumeDeletion, ResumeProcessing, Process, Append, ReadBack, Authorize,
                Discard, Pdfs
  <2>2. step' \notin {"capture", "download"}
    BY <1>5 DEF ResumeDeletion, ResumeProcessing, Process, Append, ReadBack, Authorize,
                Discard
  <2> QED
    BY <2>1, <2>2, NoNewPdf
<1> QED
  BY <1>1, <1>2, <1>3, <1>4, <1>5
  DEF Ingest, AlreadyComplete, Unresumable, Complete, IdentityMismatch, ProcessFails

LEMMA IInvStep == IInv /\ [Next]_vars => IInv'
<1> SUFFICES ASSUME IInv, [Next]_vars PROVE RoomIsReserved' /\ QuarantineBounded'
  BY SafeStep DEF IInv
<1>1. CASE StartBatch \/ Crash
  BY <1>1, NoNewPdf DEF StartBatch, Crash, Stops, Pdfs, IInv
<1>2. CASE WriteReport \/ UNCHANGED vars
  <2>1. UNCHANGED <<disk, step>>
    BY <1>2 DEF WriteReport, vars
  <2> QED
    BY <2>1 DEF IInv, RoomIsReserved, QuarantineBounded, Pdfs
<1>3. ASSUME NEW d \in Docs,
             Ingest(d) \/ IdentityMismatch(d) \/ CaptureFails(d) \/ ProcessFails(d)
      PROVE  RoomIsReserved' /\ QuarantineBounded'
  BY <1>3, IInvTurn
<1> QED
  BY <1>1, <1>2, <1>3 DEF Next, Trouble

(***************************************************************************)
(* Never more PDFs on disk than the limit, however many processes died     *)
(* with one there, for every limit and any number of documents             *)
(* (_reserve_quarantine_capacity).                                         *)
(***************************************************************************)
THEOREM QuarantineCorrect == Spec => []QuarantineBounded
<1>1. IInv => QuarantineBounded
  BY DEF IInv
<1> QED
  BY <1>1, IInvInit, IInvStep, PTL DEF Spec
=============================================================================
