----------------------------- MODULE ReleaseGate ----------------------------
(***************************************************************************)
(* How the release pipeline turns a verification report into the answer    *)
(* plan and the released answer that RequestArtifacts stores: the default  *)
(* plan of a report, the Claim Gate and the renderer.  They are Python     *)
(* functions of one request's artifacts; the cache repeats part of their   *)
(* checks in SQL.                                                          *)
(*                                                                         *)
(* Left out: the hashes, which bind a plan and a report to their contents, *)
(* the wording of the answer, and the sources behind the evidence.  The    *)
(* claims of the assembly are those stored for the run.                    *)
(***************************************************************************)
EXTENDS RequestArtifacts

\* The block a plan for the report must consist of.
TemplateFor(report) ==
  IF report.releaseable # {} THEN "fact-list"
  ELSE IF report.disposition = "abstain" THEN "abstention"
  ELSE "limitation"

DefaultPlan(report) ==
  [kind |-> "answer_plan", ctx |-> report.ctx, oid |-> None, report |-> report.oid,
   disposition |-> report.disposition, template |-> TemplateFor(report),
   slots |-> Once(report.releaseable), cells |-> {}]

\* ClaimGate.authorize: every releaseable claim in one slot, nothing else, no rows.
Authorized(plan, report) ==
  /\ report.passed
  /\ plan.ctx = report.ctx
  /\ plan.report = report.oid
  /\ plan.disposition = report.disposition
  /\ plan.template = TemplateFor(report)
  /\ plan.cells = {}
  /\ \A c \in Claims : plan.slots[c] <= 1
  /\ Named(plan.slots) = report.releaseable
  /\ Named(plan.slots) \subseteq ClaimsOf(plan.ctx.run)

\* DeterministicRenderer.render: one binding, with one claim, for every slot.
Render(plan) ==
  [kind |-> "released_answer", ctx |-> plan.ctx, oid |-> None,
   disposition |-> plan.disposition, bound |-> plan.slots]

\* The gate, the renderer and the cache agree.  Every passing report has a plan
\* that the gate authorizes (up to the hashes), and a plan the gate authorizes is
\* rendered to an answer that the cache takes or has a conflicting row for: no
\* verified answer is lost between Python and SQL.
ReleasePathIsOpen ==
  \A run \in Runs : \A report \in Stored({"verification_report"}, run) :
    /\ report.passed => Authorized(DefaultPlan(report), report)
    /\ \A plan \in Stored({"answer_plan"}, run) \cup {DefaultPlan(report)} :
         Authorized(plan, report) =>
           CacheReply([report |-> report, plan |-> plan, answer |-> Render(plan)]) # "refused"
=============================================================================
