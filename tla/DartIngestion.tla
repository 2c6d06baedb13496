---------------------------- MODULE DartIngestion ---------------------------
(***************************************************************************)
(* The DART corpus batch: _run_dart_corpus takes the selected receipts in  *)
(* order and calls ingest_one_dart_document on each, which downloads a PDF *)
(* into a directory of its own, commits the corpus built from it, reads it *)
(* back, and deletes the PDF once the record authorizes that.  The process *)
(* may be stopped anywhere and is started again; the record in PostgreSQL  *)
(* and the directory are all that is left then.                            *)
(*                                                                         *)
(* Documents are the positions of the receipts.  Sizes are left out: the   *)
(* quarantine is limited by the number of files only.  One process runs at *)
(* a time.  Every batch selects the same documents: it is given the same   *)
(* --limit and --target-key, and with --missing-only no product among them *)
(* has got an embedding from another document since, which would take its  *)
(* target out of the selection.                                            *)
(***************************************************************************)
EXTENDS Naturals, FiniteSets

CONSTANTS
  N,               \* documents selected
  QuarantineLimit, \* _QUARANTINE_FILE_LIMIT
  MaxTroubles      \* bound on crashes and failures the environment causes

ASSUME DartAssumption ==
  /\ N \in Nat \ {0} /\ QuarantineLimit \in Nat \ {0} /\ MaxTroubles \in Nat

Docs == 1..N

VARIABLES
  retention,   \* retention_disposition of a document, "none" without a record
  disk,        \* its directory: absent, empty, with a temporary file or the PDF
  readBack,    \* documents whose committed corpus once compared equal
  cursor,      \* the document being ingested, N + 1 when all have been, 0 when
               \* no process runs
  step,        \* where ingest_one_dart_document stands
  indexed,     \* indexed documents of the run's report
  failed,      \* failed documents of the run's report
  discarded,   \* documents among discarded_failed_artifacts of the report
  recorded,    \* documents a report that was written names as discarded
  troubles     \* crashes and failures so far

report == <<indexed, failed, discarded>>
vars == <<retention, disk, readBack, cursor, step, report, recorded, troubles>>

\* No call asks for the fourth disposition, quarantined.
Retentions == {"none", "pending_delete", "delete_authorized", "metadata_only_deleted"}
Steps == {"lookup", "capture", "download", "process", "append", "read_back",
          "authorize", "discard", "complete"}

TypeOK ==
  /\ retention \in [Docs -> Retentions]
  /\ disk \in [Docs -> {"absent", "empty", "temporary", "pdf"}]
  /\ readBack \subseteq Docs
  /\ cursor \in 0..N+1
  /\ step \in Steps
  /\ indexed \subseteq Docs
  /\ failed \subseteq Docs
  /\ discarded \subseteq Docs
  /\ recorded \subseteq Docs
  /\ troubles \in 0..MaxTroubles

Init ==
  /\ retention = [d \in Docs |-> "none"]
  /\ disk = [d \in Docs |-> "absent"]
  /\ readBack = {}
  /\ cursor = 0
  /\ step = "lookup"
  /\ indexed = {}
  /\ failed = {}
  /\ discarded = {}
  /\ recorded = {}
  /\ troubles = 0

Pdfs == {d \in Docs : disk[d] = "pdf"}
-----------------------------------------------------------------------------
StartBatch ==
  /\ cursor = 0
  /\ cursor' = 1
  /\ step' = "lookup"
  /\ indexed' = {}
  /\ failed' = {}
  /\ discarded' = {}
  /\ UNCHANGED <<retention, disk, readBack, recorded, troubles>>

\* The report exists only now: until here it was in the process's memory.
WriteReport ==
  /\ cursor = N + 1
  /\ cursor' = 0
  /\ recorded' = recorded \cup discarded
  /\ UNCHANGED <<retention, disk, readBack, step, report, troubles>>

\* The process ends without a report: it was killed, or an exception that is
\* fatal to the batch went through.
Stops ==
  /\ cursor' = 0
  /\ step' = "lookup"
  /\ indexed' = {}
  /\ failed' = {}
  /\ discarded' = {}

Crash ==
  /\ cursor # 0
  /\ Stops
  /\ UNCHANGED <<retention, disk, readBack>>

NextDocument ==
  /\ cursor' = cursor + 1
  /\ step' = "lookup"

\* The document is in the report; its directory goes if it is empty.
Succeed(d) ==
  /\ indexed' = indexed \cup {d}
  /\ disk' = [disk EXCEPT ![d] = IF @ = "empty" THEN "absent" ELSE @]
  /\ NextDocument
  /\ UNCHANGED <<failed, discarded, readBack>>

\* An error the batch survives: _discard_failed_dart_pdf removes the PDF.
Fail(d) ==
  /\ failed' = failed \cup {d}
  /\ disk' = [disk EXCEPT ![d] = IF @ = "pdf" THEN "absent" ELSE @]
  /\ discarded' = discarded \cup ({d} \cap Pdfs)
  /\ NextDocument
  /\ UNCHANGED <<retention, indexed, readBack>>

At(d, here) == d # 0 /\ cursor = d /\ step = here

Proceed(there) ==
  /\ step' = there
  /\ UNCHANGED <<cursor, report>>
-----------------------------------------------------------------------------
(* What _find_existing found decides how the document is taken up.         *)

AlreadyComplete(d) ==
  /\ At(d, "lookup")
  /\ retention[d] = "metadata_only_deleted"
  /\ Succeed(d)
  /\ UNCHANGED retention

\* Fault: a committed record is taken for a verified one.
ResumeDeletionUnread(d) ==
  /\ At(d, "lookup")
  /\ retention[d] \in {"pending_delete", "delete_authorized"}
  /\ Proceed("discard")
  /\ UNCHANGED <<retention, disk, readBack>>

\* Fault: a run that finds the deletion authorized goes on with processing.
ResumeDeletionByProcessing(d) ==
  /\ At(d, "lookup")
  /\ retention[d] = "delete_authorized"
  /\ \/ disk[d] = "pdf" /\ Proceed("process") /\ UNCHANGED <<disk, retention, readBack>>
     \/ disk[d] # "pdf" /\ Fail(d)

ResumeDeletion(d) ==
  /\ At(d, "lookup")
  /\ retention[d] = "delete_authorized"
  /\ Proceed("discard")
  /\ UNCHANGED <<retention, disk, readBack>>

ResumeProcessing(d) ==
  /\ At(d, "lookup")
  /\ retention[d] = "pending_delete"
  /\ disk[d] = "pdf"
  /\ Proceed("process")
  /\ UNCHANGED <<retention, disk, readBack>>

\* dart_ingestion_resume_source_missing, _untracked_pdf and _untracked_path
Unresumable(d) ==
  /\ At(d, "lookup")
  /\ \/ retention[d] = "pending_delete" /\ disk[d] # "pdf"
     \/ retention[d] = "none" /\ disk[d] \in {"pdf", "temporary"}
  /\ Fail(d)

\* dart_ingestion_existing_identity_mismatch: the organizer's inventory binds
\* other members to the receipt than the record does.
IdentityMismatch(d) ==
  /\ At(d, "lookup")
  /\ retention[d] # "none"
  /\ Fail(d)

Untouched(d) ==
  At(d, "lookup") /\ retention[d] = "none" /\ disk[d] \in {"absent", "empty"}

\* Fault: the limit is compared after the fact.
ReserveOneMore(d) ==
  /\ Untouched(d)
  /\ \/ /\ Cardinality(Pdfs) <= QuarantineLimit
        /\ disk' = [disk EXCEPT ![d] = "empty"]
        /\ Proceed("capture")
     \/ Cardinality(Pdfs) > QuarantineLimit /\ Stops /\ UNCHANGED disk
  /\ UNCHANGED <<retention, readBack>>

\* dart_quarantine_limit_reached is fatal to the batch.
Reserve(d) ==
  /\ Untouched(d)
  /\ \/ /\ Cardinality(Pdfs) < QuarantineLimit
        /\ disk' = [disk EXCEPT ![d] = "empty"]
        /\ Proceed("capture")
     \/ /\ Cardinality(Pdfs) >= QuarantineLimit
        /\ Stops
        /\ disk' = [disk EXCEPT ![d] = "absent"]
  /\ UNCHANGED <<retention, readBack>>
-----------------------------------------------------------------------------
\* capture_http_object streams into a temporary file beside the destination.
StartDownload(d) ==
  /\ At(d, "capture")
  /\ disk' = [disk EXCEPT ![d] = "temporary"]
  /\ Proceed("download")
  /\ UNCHANGED <<retention, readBack>>

FinishDownload(d) ==
  /\ At(d, "download")
  /\ disk' = [disk EXCEPT ![d] = "pdf"]
  /\ Proceed("process")
  /\ UNCHANGED <<retention, readBack>>

\* An error of the capture removes what it left.
CaptureFails(d) ==
  /\ At(d, "capture") \/ At(d, "download")
  /\ failed' = failed \cup {d}
  /\ disk' = [disk EXCEPT ![d] = "absent"]
  /\ NextDocument
  /\ UNCHANGED <<retention, indexed, discarded, readBack>>

Process(d) ==
  /\ At(d, "process")
  /\ Proceed("append")
  /\ UNCHANGED <<retention, disk, readBack>>

\* Extraction fails or the quality report did not pass.
ProcessFails(d) == At(d, "process") /\ Fail(d)

\* Fault: the artifact begins in the fourth disposition the table allows.
AppendQuarantined(d) ==
  /\ At(d, "append")
  /\ retention' = [retention EXCEPT ![d] = IF @ = "none" THEN "quarantined" ELSE @]
  /\ Proceed("read_back")
  /\ UNCHANGED <<disk, readBack>>

\* append_captured_corpus: an identical corpus already there is left alone.
Append(d) ==
  /\ At(d, "append")
  /\ retention' = [retention EXCEPT ![d] = IF @ = "none" THEN "pending_delete" ELSE @]
  /\ Proceed("read_back")
  /\ UNCHANGED <<disk, readBack>>

ReadBack(d) ==
  /\ At(d, "read_back")
  /\ readBack' = readBack \cup {d}
  /\ Proceed("authorize")
  /\ UNCHANGED <<retention, disk>>

\* Fault: the record is completed at once and the PDF left for later.
AuthorizeAndComplete(d) ==
  /\ At(d, "authorize")
  /\ retention' = [retention EXCEPT ![d] = "delete_authorized"]
  /\ Proceed("complete")
  /\ UNCHANGED <<disk, readBack>>

\* transition_source_retention
Authorize(d) ==
  /\ At(d, "authorize")
  /\ retention' = [retention EXCEPT ![d] = "delete_authorized"]
  /\ Proceed("discard")
  /\ UNCHANGED <<disk, readBack>>

\* safe_discard_verified_pdf; a resumed deletion may find the PDF gone.
Discard(d) ==
  /\ At(d, "discard")
  /\ disk' = [disk EXCEPT ![d] = IF @ = "pdf" THEN "empty" ELSE @]
  /\ Proceed("complete")
  /\ UNCHANGED <<retention, readBack>>

Complete(d) ==
  /\ At(d, "complete")
  /\ retention' = [retention EXCEPT ![d] = "metadata_only_deleted"]
  /\ Succeed(d)
-----------------------------------------------------------------------------
Ingest(d) ==
  \/ AlreadyComplete(d) \/ ResumeDeletion(d) \/ ResumeProcessing(d)
  \/ Unresumable(d) \/ Reserve(d) \/ StartDownload(d) \/ FinishDownload(d)
  \/ Process(d) \/ Append(d) \/ ReadBack(d) \/ Authorize(d) \/ Discard(d)
  \/ Complete(d)

Trouble ==
  /\ troubles < MaxTroubles
  /\ troubles' = troubles + 1
  /\ UNCHANGED recorded
  /\ \/ Crash
     \/ \E d \in Docs : IdentityMismatch(d) \/ CaptureFails(d) \/ ProcessFails(d)

Next ==
  \/ StartBatch \/ WriteReport
  \/ \E d \in Docs : Ingest(d) /\ UNCHANGED <<recorded, troubles>>
  \/ Trouble

Spec == Init /\ [][Next]_vars

\* The process goes on while it runs, and is started again when it stopped.
FairSpec ==
  /\ Spec
  /\ WF_vars(StartBatch \/ WriteReport)
  /\ WF_vars(\E d \in Docs : Ingest(d) /\ UNCHANGED <<recorded, troubles>>)
-----------------------------------------------------------------------------
(***************************************************************************)
(* However often the process dies with a PDF on disk, no more than the     *)
(* limit are ever there (_reserve_quarantine_capacity).                    *)
(***************************************************************************)
QuarantineBounded == Cardinality(Pdfs) <= QuarantineLimit

(***************************************************************************)
(* A record authorizes the deletion, or says it is done, only if this or   *)
(* an earlier process read the committed corpus back and found it equal:   *)
(* the resumed path passes readback_verified=True on the record's word.    *)
(***************************************************************************)
AuthorizedWasVerified ==
  \A d \in Docs :
    retention[d] \in {"delete_authorized", "metadata_only_deleted"} => d \in readBack

(***************************************************************************)
(* A document the run reports as indexed is complete: its record says the  *)
(* PDF is deleted, and it is, and it is not reported as failed as well.    *)
(***************************************************************************)
ReportedIsComplete ==
  /\ \A d \in indexed : retention[d] = "metadata_only_deleted" /\ disk[d] = "absent"
  /\ indexed \cap failed = {}

(***************************************************************************)
(* A process that died between authorizing a deletion and recording it is  *)
(* made up for: no record keeps delete_authorized for ever, unless the     *)
(* quarantine is full for good, which stops every batch before it comes to *)
(* the document (dart_quarantine_limit_reached).  It is the next batch     *)
(* that resumes the deletion, so this rests on its selecting the document. *)
(***************************************************************************)
AuthorizedCompletes ==
  \A d \in Docs :
    \/ []<>(retention[d] # "delete_authorized")
    \/ <>[](Cardinality(Pdfs) >= QuarantineLimit)

(***************************************************************************)
(* A PDF is "deleted after verified commit/read-back, or after its         *)
(* sanitized failure receipt is recorded": what _discard_failed_dart_pdf   *)
(* removed is not forgotten before a report names it.                      *)
(***************************************************************************)
DiscardsAreRecorded == [][discarded \subseteq discarded' \cup recorded']_vars

(***************************************************************************)
(* "Full processing can stop and resume": once nothing fails any more,     *)
(* every document comes to be complete.                                    *)
(***************************************************************************)
RunIsResumable == \A d \in Docs : <>(retention[d] = "metadata_only_deleted")
=============================================================================
