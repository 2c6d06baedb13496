-------------------------- MODULE MCIntentResolver --------------------------
(***************************************************************************)
(* Instance of IntentResolver for TLC: a question of two segments, the     *)
(* first with two product names, the second with one, and one reference    *)
(* back.  The views differ in the names that were matched exactly and in   *)
(* where the reference stands.                                             *)
(***************************************************************************)
EXTENDS IntentResolver, TLC

CONSTANTS ref, c1, c2, c3

segmentOf == [e1 |-> "s1", e2 |-> "s1", e3 |-> "s2"]
Offered(locks, span) ==
  [segmentOf |-> segmentOf, locks |-> locks, mention |-> (ref :> span)]

MCViews ==
  {Offered(<<>>, "e3"),
   Offered([e1 |-> "fund"], "e3"),
   Offered([e1 |-> "fund", e2 |-> "etf"], "e1"),
   Offered([e1 |-> "fund", e3 |-> "etf"], "e3")}

MCQuality == (c1 :> 1) @@ (c2 :> 2) @@ (c3 :> 2)
SameQuality == Permutations({c2, c3})
-----------------------------------------------------------------------------
Choice(state, ids, evidence) == [state |-> state, ids |-> ids, evidence |-> evidence]
Frame(segment, action, family, coverage, link, subject) ==
  [segments |-> {segment}, action |-> action, family |-> family,
   coverage |-> coverage, link |-> link, subject |-> subject]

Lookup == Choice("selected", {"lookup"}, {})
Similar == Choice("selected", {"similar"}, {})
Family(ids, evidence) == Choice("selected", ids, evidence)
Unsure(evidence) == Choice("ambiguous", {}, evidence)
Unmapped(evidence) == Choice("unmapped", {}, evidence)
Covered == [reason |-> "none", evidence |-> {}]
Foreign(reason) == [reason |-> reason, evidence |-> {"e1"}]

\* The families that the first segment may be said to ask for.
Families ==
  {Family({"fund"}, {"e1"}), Family({"etf"}, {"e2"}),
   Family({"fund", "etf"}, {"e1", "e2"}), Unsure({"e1"}), Unsure({}),
   Unmapped({"e1"})}

\* One frame: every doubt the axes can leave.
Alone ==
  {<<Frame("s1", Lookup, family, Covered, link, subject)>> :
     family \in Families, link \in {"none", "ambiguous", "settled"}, subject \in BOOLEAN}
  \cup {<<Frame("s1", action, family, Foreign(reason), "none", FALSE)>> :
          action \in {Lookup, Unmapped({"e1"})}, family \in Families,
          reason \in {"lexical_ood", "domain_ood"}}
  \cup {<<Frame("s1", action, family, Covered, "none", FALSE)>> :
          action \in {Similar, Unsure({"e1"})}, family \in Families}

\* Two frames, the second on the other segment or on the same.
Second ==
  {Frame(segment, action, family, Covered, "none", FALSE) :
     segment \in {"s1", "s2"}, action \in {Lookup, Similar},
     family \in {Family({"fund"}, {}), Unsure({})}}
  \cup {Frame("s2", Lookup, family, Covered, "none", FALSE) :
          family \in {Family({"etf"}, {"e3"}), Unsure({"e3"})}}

Pairs ==
  {<<Frame("s1", Lookup, family, Covered, "none", FALSE), second>> :
     family \in Families, second \in Second}

\* Three frames, the third asking for products among the results of the others.
Trios ==
  {<<Frame("s1", Unsure({}), Family({"fund"}, {"e1"}), Covered, "none", FALSE),
     Frame("s1", Unsure({}), Family({"etf"}, {"e2"}), Covered, "none", FALSE),
     Frame("s2", Lookup, Family({"etf"}, {"e3"}), Covered, "none", subject)>> :
     subject \in BOOLEAN}
FromBoth ==
  {[reference |-> ref, producer |-> o, consumer |-> 3, slot |-> "result_set"] : o \in {1, 2}}

Proposal(frames, references, links, limited) ==
  [frames |-> frames, references |-> references, links |-> links, limited |-> limited]
Speaks(status, producers) == ref :> [status |-> status, producers |-> producers]
Back(slot) == {[reference |-> ref, producer |-> 1, consumer |-> 2, slot |-> slot]}

MCProposals ==
  {Proposal(frames, <<>>, {}, limited) : frames \in Alone, limited \in BOOLEAN}
  \cup {Proposal(frames, Speaks("unresolved", {}), {}, FALSE) : frames \in Alone}
  \cup {Proposal(frames, <<>>, {}, FALSE) : frames \in Pairs}
  \cup {Proposal(frames, Speaks(status, {}), {}, FALSE) :
          frames \in Pairs, status \in {"unresolved", "ambiguous"}}
  \cup {Proposal(frames, Speaks(status, {1}), Back(slot), FALSE) :
          frames \in Pairs, status \in {"resolved", "ambiguous"},
          slot \in {"result_set", "anchor"}}
  \cup {Proposal(frames, Speaks("resolved", {1, 2}), links, FALSE) :
          frames \in Trios, links \in SUBSET FromBoth}
=============================================================================
