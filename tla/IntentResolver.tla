--------------------------- MODULE IntentResolver ---------------------------
(***************************************************************************)
(* IntentResolverService, the paths that end in query contracts (V2 and    *)
(* V3): one call to the language model for the axes, one repair call when  *)
(* a validator rejects the answer in a way an instruction can mend, the    *)
(* deterministic solving of every frame, and, when one frame is left with  *)
(* several contracts and no repair was made, one call of a judge.          *)
(*                                                                         *)
(* The model may answer anything: a proposal of the given set that the     *)
(* validators accept, or one they reject.  A call may outlast the          *)
(* deadline, because the client's timeout bounds every read and not their  *)
(* sum.  Time passes during calls only; what runs between them is one      *)
(* step.                                                                   *)
(*                                                                         *)
(* Left out: which contracts a searchable frame admits (any, and the       *)
(* enumeration may end at a bound), prompts, usage counters and hashes.    *)
(***************************************************************************)
EXTENDS IntentAxes

CONSTANTS
  Views,         \* what a request may offer
  Proposals,     \* the proposals of the model that are tried
  Candidates,    \* ids of complete contracts
  Quality,       \* the rank of a contract by its provenance, lower is better
  Deadline,      \* deadline_at, in ticks
  MaxTime        \* bound of the model: the clock stops there

ASSUME ResolverAssumption ==
  /\ Deadline \in Nat /\ MaxTime \in Nat
  /\ Quality \in [Candidates -> Nat]
  /\ \A p \in Proposals : \A o \in Ordinals(p) : IsFrame(p.frames[o])

VARIABLES
  version,       \* which of the two paths
  view,          \* what the request offers
  pc,            \* where the coroutine stands
  now,           \* the clock
  calls,         \* times at which the adapter was invoked, in order
  repaired,      \* repair_used
  judged,        \* judge_used
  resolution,    \* the validated resolution, or NoResolution
  answers,       \* what is known of every frame, <<>> before solving
  reported       \* model_call_count of the telemetry, 0 before

vars == <<version, view, pc, now, calls, repaired, judged, resolution, answers, reported>>

NoResolution == [frames |-> <<>>, links |-> {}, issues |-> {}, status |-> <<>>]

PCs == {"start", "axis", "rejected", "repair", "validated", "reconciled",
        "solved", "judge", "done", "failed"}
InCall == {"axis", "repair", "judge"}
Readiness == {"complete", "ambiguous", "blocked"}

\* What is known of a frame searched in the given families: offered is what the
\* solver found, left what the tie-break and the judge left of it.
Answer(families) ==
  [families : {families}, offered : SUBSET Candidates, left : SUBSET Candidates,
   bound : BOOLEAN, readiness : Readiness]

Init ==
  /\ version \in {"v2", "v3"}
  /\ view \in Views
  /\ pc = "start"
  /\ now \in 0 .. MaxTime
  /\ calls = <<>>
  /\ repaired = FALSE /\ judged = FALSE
  /\ resolution = NoResolution
  /\ answers = <<>>
  /\ reported = 0
-----------------------------------------------------------------------------
Tick ==
  /\ pc \in InCall /\ now < MaxTime
  /\ now' = now + 1
  /\ UNCHANGED <<version, view, pc, calls, repaired, judged, resolution, answers, reported>>

\* _remaining_model_seconds raises when the deadline has passed.
Invoke(from, to) ==
  /\ pc = from
  /\ IF now < Deadline
     THEN pc' = to /\ calls' = Append(calls, now)
     ELSE pc' = "failed" /\ UNCHANGED calls
  /\ UNCHANGED <<version, view, now, repaired, judged, resolution, answers, reported>>

InvokeAxis == Invoke("start", "axis")
InvokeRepair == Invoke("rejected", "repair")

\* The provider fails or stays silent.
CallFails ==
  /\ pc \in {"axis", "repair"}
  /\ pc' = "failed"
  /\ UNCHANGED <<version, view, now, calls, repaired, judged, resolution, answers, reported>>

\* A rejected answer: the first may be repaired if its code has an instruction.
Reject ==
  /\ pc \in {"axis", "repair"}
  /\ pc' \in IF pc = "axis" THEN {"rejected", "failed"} ELSE {"failed"}
  /\ UNCHANGED <<version, view, now, calls, repaired, judged, resolution, answers, reported>>

\* validate_axis_response or validate_hybrid_response, to finalize_resolution.
Accept(p) ==
  /\ pc \in {"axis", "repair"}
  /\ Accepted(version, view, p)
  /\ resolution' = Validated(view, p)
  /\ repaired' = (pc = "repair")
  /\ pc' = "validated"
  /\ UNCHANGED <<version, view, now, calls, judged, answers, reported>>

\* Exact family names override the model's choice, in V2.
Reconcile ==
  /\ pc = "validated"
  /\ IF version = "v2" /\ Irreconcilable(view, resolution)
     THEN pc' = "failed" /\ UNCHANGED resolution
     ELSE /\ pc' = "reconciled"
          /\ resolution' = IF version = "v2" THEN Reconciled(view, resolution) ELSE resolution
  /\ UNCHANGED <<version, view, now, calls, repaired, judged, answers, reported>>
-----------------------------------------------------------------------------
\* What enumerating the contracts of a searchable frame can give, and whether it
\* ended at a bound (of the values of a role, or of the contracts of a frame).
Found == [ids : SUBSET Candidates, bound : BOOLEAN]

ReadinessOf(ids, open) ==
  IF open \/ (ids # {} /\ ~Single(ids)) THEN "ambiguous"
  ELSE IF ids = {} THEN "blocked" ELSE "complete"

\* The products it names are counted before its producers are looked at.
TooManySubjects(o) ==
  Scoped(view, resolution, o) /\ resolution.frames[o].subject

Solved(o, found) ==
  LET searched == Searchable(view, resolution, o)
      ids == IF searched THEN found.ids ELSE {}
      bound == found.bound /\ (searched \/ TooManySubjects(o))
  IN [families |-> IF searched THEN ScopeFamilies(view, resolution, o) ELSE {},
      offered |-> ids, left |-> ids, bound |-> bound,
      readiness |-> ReadinessOf(ids, bound \/ LinkIsAmbiguous(resolution, o))]

Best(ids) == {c \in ids : \A d \in ids : Quality[c] <= Quality[d]}

\* The one contract of the best quality wins, unless contracts were left out.
\* Fault: the bound is not looked at.
TieBrokenBound(a) ==
  IF Single(Best(a.left)) /\ ~Single(a.left)
  THEN [a EXCEPT !.left = Best(a.left), !.readiness = "complete"] ELSE a
TieBroken(a) ==
  IF ~a.bound /\ Single(Best(a.left)) /\ ~Single(a.left)
  THEN [a EXCEPT !.left = Best(a.left), !.readiness = "complete"] ELSE a

Solve ==
  /\ pc = "reconciled"
  /\ \E found \in [Ordinals(resolution) -> Found] :
       answers' = [o \in Ordinals(resolution) |-> TieBroken(Solved(o, found[o]))]
  /\ pc' = "solved"
  /\ UNCHANGED <<version, view, now, calls, repaired, judged, resolution, reported>>

Undecided ==
  {o \in DOMAIN answers :
     answers[o].left # {} /\ ~Single(answers[o].left) /\ ~answers[o].bound}

\* Fault: a judge is called although a repair was made.
JudgeAnyway == Single(Undecided)
Judge == ~repaired /\ Single(Undecided)

\* A judge without time left is not called, and the frame stays ambiguous.
InvokeJudge ==
  /\ pc = "solved" /\ Judge /\ now < Deadline
  /\ calls' = Append(calls, now)
  /\ pc' = "judge"
  /\ UNCHANGED <<version, view, now, repaired, judged, resolution, answers, reported>>

\* The telemetry counts the first call and the one extra call.
Report ==
  /\ pc' = "done"
  /\ reported' = 1 + IF repaired \/ judged' THEN 1 ELSE 0

Conclude ==
  /\ pc = "solved" /\ ~(Judge /\ now < Deadline)
  /\ UNCHANGED judged /\ Report
  /\ UNCHANGED <<version, view, now, calls, repaired, resolution, answers>>

\* The judge fails, breaks the schema or names an id that was not offered.
JudgeIsNoHelp ==
  /\ pc = "judge"
  /\ judged' = TRUE /\ Report
  /\ UNCHANGED <<version, view, now, calls, repaired, resolution, answers>>

JudgeSelects(c) ==
  /\ pc = "judge"
  /\ judged' = TRUE /\ Report
  /\ \E o \in Undecided :
       /\ c \in answers[o].left
       /\ answers' = [answers EXCEPT ![o].left = {c}, ![o].readiness = "complete"]
  /\ UNCHANGED <<version, view, now, calls, repaired, resolution>>

Next ==
  \/ Tick \/ InvokeAxis \/ InvokeRepair \/ CallFails \/ Reject
  \/ \E p \in Proposals : Accept(p)
  \/ Reconcile \/ Solve \/ InvokeJudge \/ Conclude
  \/ JudgeIsNoHelp \/ \E c \in Candidates : JudgeSelects(c)

Spec == Init /\ [][Next]_vars
-----------------------------------------------------------------------------
TypeOK ==
  /\ version \in {"v2", "v3"} /\ view \in Views /\ pc \in PCs
  /\ now \in 0 .. MaxTime
  /\ calls \in Seq(0 .. MaxTime)
  /\ repaired \in BOOLEAN /\ judged \in BOOLEAN
  /\ DOMAIN answers \in {{}, Ordinals(resolution)}
  /\ \A o \in DOMAIN answers :
       answers[o] \in Answer(answers[o].families)
  /\ reported \in 0 .. 2

(***************************************************************************)
(* The repair and the judge share one extra call: the model is never       *)
(* called more than twice, never after the deadline, and the telemetry     *)
(* reports the calls that were made, although the judge's is made under    *)
(* rules of its own (resolve_query_contract_candidates,                    *)
(* validate_model_allowance).                                              *)
(***************************************************************************)
CallsAreAccounted ==
  /\ Len(calls) <= 2
  /\ \A i \in 1 .. Len(calls) : calls[i] < Deadline
  /\ pc = "done" => reported = Len(calls)

(***************************************************************************)
(* A frame is reported complete exactly when one contract is left, of      *)
(* those the solver found, and the search did not end at a bound: neither  *)
(* the tie-break nor a judge, whatever it answers, settles a frame some of *)
(* whose contracts were never found (_tie_break_frame,                     *)
(* _apply_judge_result).                                                   *)
(***************************************************************************)
CompleteMeansUnique ==
  \A o \in DOMAIN answers :
    LET a == answers[o] IN
    /\ a.readiness = "complete" <=> Single(a.left) /\ ~a.bound
    /\ a.left \subseteq a.offered
    /\ a.left = {} <=> a.offered = {}
    /\ a.bound => a.left = a.offered

(***************************************************************************)
(* A frame that is searched is searched in families it selected, and in    *)
(* every family that the question names in its segments: an exact name is  *)
(* neither dropped nor taken over from another frame, although ownership   *)
(* by evidence (reconcile_exact_axis_locks) and by segment (_scopes)       *)
(* disagree.                                                               *)
(***************************************************************************)
SearchedAsNamed ==
  \A o \in DOMAIN answers : answers[o].offered # {} =>
    /\ answers[o].families \subseteq resolution.frames[o].family.ids
    /\ Named(view, resolution, o) \subseteq answers[o].families
    /\ version = "v2" =>
         OwnedFamilies(view, resolution, o) \subseteq answers[o].families

(***************************************************************************)
(* A frame counts as resolved only if its action and its product families  *)
(* are settled: removing the issue of an overridden family choice never    *)
(* removes the issue of the action choice that looks the same              *)
(* (_is_reconciled_family_issue).                                          *)
(***************************************************************************)
ResolvedMeansChosen ==
  \A o \in Ordinals(resolution) : resolution.status[o] = "resolved" =>
    /\ resolution.frames[o].action.state = "selected"
    /\ resolution.frames[o].family.state = "selected"
=============================================================================
