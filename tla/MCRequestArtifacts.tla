------------------------- MODULE MCRequestArtifacts -------------------------
(***************************************************************************)
(* Two runs of one request, the second one on either of two datasets, and  *)
(* the artifacts of a pipeline together with the ones a faulty or repeated *)
(* step would append: another report of the same id, a plan that names a   *)
(* rejected claim in a table row, an answer that binds no claim.           *)
(***************************************************************************)
EXTENDS ReleaseGate

MCContexts == {[run |-> "r1", key |-> "k", version |-> 1],
               [run |-> "r2", key |-> "k", version |-> 1],
               [run |-> "r2", key |-> "k", version |-> 2]}
MCSubtaskOf == [c1 |-> "s1", c2 |-> "s1"]
MCSupportOf == [c1 |-> "e1", c2 |-> "e1"]

Plan(ctx, subtasks) ==
  [kind |-> "query_plan", ctx |-> ctx, oid |-> None, subtasks |-> subtasks]
Result(ctx, refs) ==
  [kind |-> "tool_result", ctx |-> ctx, oid |-> "t1", evidence |-> refs, claims |-> {}]
Report(ctx, id, disposition, released, rejected) ==
  [kind |-> "verification_report", ctx |-> ctx, oid |-> id,
   passed |-> disposition # None, disposition |-> disposition,
   releaseable |-> released, rejected |-> rejected]

First == [run |-> "r1", key |-> "k", version |-> 1]
Second == [run |-> "r2", key |-> "k", version |-> 1]
FullReport(ctx) == Report(ctx, "v1", "partial", {"c1"}, {"c2"})
InTable(plan) == [plan EXCEPT !.cells = {"c2"}]
Unbound(answer) == [answer EXCEPT !.bound = Once({})]

\* What both runs append, and what only the first one does.
Pipeline(ctx) ==
  {Plan(ctx, {"s1"}), FullReport(ctx), DefaultPlan(FullReport(ctx)),
   Render(DefaultPlan(FullReport(ctx)))}
Variants(ctx) ==
  {Plan(ctx, {"s1", "s2"}), Result(ctx, {"e1"}),
   Report(ctx, "v1", None, {}, {"c1"}), Report(ctx, "v2", "limitation", {}, {}),
   InTable(DefaultPlan(FullReport(ctx))), Unbound(Render(DefaultPlan(FullReport(ctx))))}
MCOffers ==
  {[payload |-> p, model |-> IF p.kind = "query_plan" THEN "m1" ELSE None] :
     p \in Pipeline(First) \cup Variants(First) \cup Pipeline(Second)}
  \cup {[payload |-> Plan(First, {"s1"}), model |-> "m2"]}

Verdict(http, report, disposition, at) ==
  [http |-> http, execution |-> IF http = 200 THEN "completed" ELSE "failed",
   passed |-> http = 200, disposition |-> disposition, report |-> report,
   failure |-> http # 200, at |-> at]
MCVerdicts ==
  {Verdict(200, "v1", "partial", 1), Verdict(200, "v2", "limitation", 1),
   Verdict(500, None, None, 1)}
=============================================================================
