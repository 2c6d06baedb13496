-------------------------- MODULE MCAnswerPipeline --------------------------
(***************************************************************************)
(* One run of three tasks, two chunks, two relations and an observation,   *)
(* with the cutoff on day 1.  Hours 38 and 39 are the last of day 1 and    *)
(* the first of day 2 in Seoul, 47 and 48 the same in UTC.                 *)
(***************************************************************************)
EXTENDS AnswerPipeline

CONSTANTS r1, a, b, c, c1, c2, e1, e2, o1

OneRun == [t \in Tasks |-> r1]

Edges(edges) == [t \in Tasks |-> {u \in Tasks : <<u, t>> \in edges}]

\* Independent tasks, a chain, and a join below two roots; the last task is critical
\* in one of them.
ShapedPlans ==
  {[dependsOn |-> Edges({}), critical |-> {}],
   [dependsOn |-> Edges({<<a, b>>, <<b, c>>}), critical |-> {}],
   [dependsOn |-> Edges({<<a, c>>, <<b, c>>}), critical |-> {c}]}

Routes == {[t \in Tasks |-> IF t = a THEN x ELSE IF t = b THEN y ELSE z] :
             <<x, y, z>> \in {<<"sql", "graph", "document">>,
                              <<"document", "document", "graph">>}}

Subtasks == {[t \in Tasks |-> t], [t \in Tasks |-> IF t = b THEN a ELSE t]}

Good == [published |-> {38}, available |-> {38}, applicable |-> {1}, vintage |-> {},
         from |-> {1}, to |-> {}, eligible |-> TRUE, authoritative |-> TRUE,
         verified |-> TRUE]

\* A document that is good but for one column.
Documents ==
  {Good, [Good EXCEPT !.published = {}], [Good EXCEPT !.published = {39}],
   [Good EXCEPT !.available = {47}], [Good EXCEPT !.available = {48}],
   [Good EXCEPT !.from = {2}, !.applicable = {2}],
   [Good EXCEPT !.to = {0}], [Good EXCEPT !.to = {1}],
   [Good EXCEPT !.eligible = FALSE], [Good EXCEPT !.authoritative = FALSE],
   [Good EXCEPT !.verified = FALSE]}

RelationRecords ==
  {Good, [Good EXCEPT !.to = {0}], [Good EXCEPT !.to = {1}],
   [Good EXCEPT !.available = {39}], [Good EXCEPT !.available = {48}],
   [Good EXCEPT !.authoritative = FALSE]}

SomeWorlds ==
  {[route |-> route, subtask |-> subtask,
    record |-> [f \in Facts |-> CASE f = c1 -> document [] f = e1 -> relation
                                  [] f = c2 -> other [] OTHER -> Good]] :
     route \in Routes, subtask \in Subtasks,
     <<document, other, relation>> \in
       (Documents \X {Good, [Good EXCEPT !.verified = FALSE]} \X {Good})
       \cup ({Good} \X {Good} \X RelationRecords)}
=============================================================================
