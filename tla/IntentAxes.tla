----------------------------- MODULE IntentAxes -----------------------------
(***************************************************************************)
(* What the intent resolver makes of the axes the language model proposes: *)
(* which issues a proposal leaves open, which frames they keep from being  *)
(* resolved, how exact family names of the question override the model's   *)
(* family choice, and in which product families the solver then searches.  *)
(*                                                                         *)
(* A view is what the request offers: [segmentOf, locks, mention], where   *)
(* segmentOf gives the segment of every evidence span, locks the product   *)
(* family an exactly matched span names (for the spans that name one), and *)
(* mention the span of every reference the normaliser found.               *)
(*                                                                         *)
(* A proposal is [frames, references, links, limited]: a sequence of       *)
(* frames, the status and possible producers of the references it speaks   *)
(* of, the context links between its frames, and whether it was cut short. *)
(* A frame is [segments, action, family, coverage, link, subject]; action  *)
(* and family are choices [state, ids, evidence], coverage is              *)
(* [reason, evidence], link is the state of its semantic links (V3), and   *)
(* subject says whether it names a product.                                *)
(*                                                                         *)
(* Left out: slot mutations, which must cite slots that an axis proposal   *)
(* may not have; the status of a singular reference with several targets,  *)
(* which is treated like an ambiguous one; the order of ids in tuples.     *)
(***************************************************************************)
EXTENDS Naturals, FiniteSets, Sequences

Single(S) == \E x \in S : S = {x}

Evidence(f) == f.action.evidence \cup f.family.evidence \cup f.coverage.evidence

ChoiceStates == {"selected", "ambiguous", "unmapped"}
IsFrame(f) ==
  /\ DOMAIN f = {"segments", "action", "family", "coverage", "link", "subject"}
  /\ f.action.state \in ChoiceStates /\ f.family.state \in ChoiceStates

\* A resolution is the proposal with the status of each frame and the issues.
Ordinals(r) == DOMAIN r.frames
-----------------------------------------------------------------------------
\* What the assembler accepts of one frame, and of one context link.
FrameIsOffered(view, f) ==
  /\ \A e \in Evidence(f) : view.segmentOf[e] \in f.segments
  /\ (f.family.state = "selected") = (f.family.ids # {})
  /\ IF f.action.state = "selected" THEN Single(f.action.ids) ELSE f.action.ids = {}
  /\ f.action.state = "unmapped" => f.coverage.reason # "none"
  /\ (f.coverage.reason = "none") = (f.coverage.evidence = {})

LinkIsBackward(p, l) ==
  /\ l.reference \in DOMAIN p.references
  /\ {l.producer, l.consumer} \subseteq Ordinals(p)
  /\ l.producer < l.consumer
  /\ l.producer \in p.references[l.reference].producers

\* V3 refuses a proposal without a frame that selects what a span names.
LocksAreSelected(view, p) ==
  \A e \in DOMAIN view.locks : \E o \in Ordinals(p) :
    /\ view.segmentOf[e] \in p.frames[o].segments
    /\ view.locks[e] \in p.frames[o].family.ids

\* A proposal of V2 has no semantic links.
Accepted(version, view, p) ==
  /\ \A o \in Ordinals(p) : FrameIsOffered(view, p.frames[o])
  /\ \A ref \in DOMAIN p.references :
       ref \in DOMAIN view.mention /\ p.references[ref].producers \subseteq Ordinals(p)
  /\ \A l \in p.links : LinkIsBackward(p, l)
  /\ IF version = "v3" THEN LocksAreSelected(view, p)
     ELSE \A o \in Ordinals(p) : p.frames[o].link = "none"
-----------------------------------------------------------------------------
Issue(code, related, evidence) ==
  [code |-> code, related |-> related, evidence |-> evidence]

ChoiceCode ==
  [unmapped |-> "SEMANTIC_CONCEPT_UNMAPPED", ambiguous |-> "AMBIGUITY_UNRESOLVED"]
CoverageCode ==
  [lexical_ood |-> "SEMANTIC_CONCEPT_UNMAPPED", domain_ood |-> "SEMANTIC_DOMAIN_UNMAPPED",
   unsupported_operation |-> "SEMANTIC_OPERATION_UNSUPPORTED",
   missing_critical_semantic |-> "SEMANTIC_CRITICAL_SLOT_MISSING"]

FrameIssues(o, f) ==
  {Issue(ChoiceCode[c.state], {o}, c.evidence) :
     c \in {d \in {f.action, f.family} : d.state # "selected"}}
  \cup {Issue(CoverageCode[c.reason], {o}, c.evidence) :
          c \in {d \in {f.coverage} : d.reason # "none"}}
  \cup {Issue("AMBIGUITY_UNRESOLVED", {o}, {}) :
          c \in {d \in {f.link} : d # "none"}}

\* A link through a reference that is not resolved is dropped.
ValidLinks(p) == {l \in p.links : p.references[l.reference].status = "resolved"}

ReferenceCode(p, ref) ==
  IF p.references[ref].status = "ambiguous" THEN "REFERENCE_AMBIGUOUS"
  ELSE "REFERENCE_UNRESOLVED"

Unlinked(p, ref) == \A l \in ValidLinks(p) : l.reference # ref

ReferenceIssues(view, p) ==
  {Issue(ReferenceCode(p, ref), {ref}, {view.mention[ref]}) :
     ref \in {ref \in DOMAIN p.references : Unlinked(p, ref)}}

\* A search for similar products needs an anchor from an earlier frame.
AnchorIssues(p) ==
  {Issue("REFERENCE_UNRESOLVED", {o}, Evidence(p.frames[o])) :
     o \in {o \in Ordinals(p) :
              /\ p.frames[o].action.ids = {"similar"}
              /\ \A l \in ValidLinks(p) : ~(l.consumer = o /\ l.slot = "anchor")}}

LimitIssues(p) ==
  {Issue("FRAME_LIMIT_EXCEEDED", {}, {}) : b \in {b \in {p.limited} : b}}

Issues(view, p) ==
  UNION {FrameIssues(o, p.frames[o]) : o \in Ordinals(p)}
    \cup ReferenceIssues(view, p) \cup AnchorIssues(p) \cup LimitIssues(p)
-----------------------------------------------------------------------------
UnmappedCodes ==
  {"SEMANTIC_CONCEPT_UNMAPPED", "SEMANTIC_DOMAIN_UNMAPPED",
   "SEMANTIC_OPERATION_UNSUPPORTED", "SEMANTIC_CRITICAL_SLOT_MISSING"}
AmbiguousCodes == {"AMBIGUITY_UNRESOLVED", "REFERENCE_AMBIGUOUS"}

StatusOf(codes) ==
  IF codes \cap UnmappedCodes # {} THEN "unmapped"
  ELSE IF "REFERENCE_UNRESOLVED" \in codes THEN "context_unresolved"
  ELSE IF codes \cap AmbiguousCodes # {} THEN "ambiguous"
  ELSE "resolved"

\* The frames an issue of the proposal keeps from being resolved: those it is
\* about, and the consumers of its reference, or else whoever has its segment.
Affected(view, p, i) ==
  (i.related \cap Ordinals(p))
    \cup UNION {LET consumers == {l.consumer : l \in {l \in p.links : l.reference = ref}}
                IN IF consumers # {} THEN consumers
                   ELSE {o \in Ordinals(p) :
                           view.segmentOf[view.mention[ref]] \in p.frames[o].segments} :
                  ref \in i.related \cap DOMAIN p.references}

Validated(view, p) ==
  LET issues == Issues(view, p) IN
  [frames |-> p.frames,
   links |-> ValidLinks(p),
   issues |-> issues,
   status |-> [o \in Ordinals(p) |->
     StatusOf({i.code : i \in {i \in issues : o \in Affected(view, p, i)}})]]
-----------------------------------------------------------------------------
(* reconcile_exact_axis_locks, V2 only. *)

\* The frame whose family choice, or else whose evidence, cites a span; the
\* only frame owns every span.
Owners(r, e) ==
  LET byFamily == {o \in Ordinals(r) : e \in r.frames[o].family.evidence}
      byEvidence == {o \in Ordinals(r) : e \in Evidence(r.frames[o])}
  IN IF Single(byFamily) THEN byFamily
     ELSE IF Single(byEvidence) THEN byEvidence
     ELSE IF Single(Ordinals(r)) THEN Ordinals(r) ELSE {}

OwnedSpans(view, r, o) == {e \in DOMAIN view.locks : Owners(r, e) = {o}}
OwnedFamilies(view, r, o) == {view.locks[e] : e \in OwnedSpans(view, r, o)}

Owning(view, r) == {o \in Ordinals(r) : OwnedSpans(view, r, o) # {}}
Chosen(r, o) == r.frames[o].family.state = "selected"

\* EXACT_FAMILY_LOCK_UNATTRIBUTED or EXACT_LOCK_CONFLICT
Irreconcilable(view, r) ==
  \/ \E e \in DOMAIN view.locks : Owners(r, e) = {}
  \/ \E o \in Owning(view, r) :
       Chosen(r, o) /\ r.frames[o].family.ids # OwnedFamilies(view, r, o)

Overridden(view, r) == {o \in Owning(view, r) : ~Chosen(r, o)}

\* The issue of an overridden family choice, unless the action choice of the
\* frame has the same one.
\* Fault: the action choice is not looked at.
IsFamilyIssueOrAction(view, r, i) ==
  \E o \in Overridden(view, r) :
    LET family == r.frames[o].family IN
    i.related = {o} /\ i.code = ChoiceCode[family.state] /\ i.evidence = family.evidence
IsFamilyIssue(view, r, i) ==
  \E o \in Overridden(view, r) :
    LET family == r.frames[o].family
        action == r.frames[o].action
    IN /\ i.related = {o}
       /\ i.code = ChoiceCode[family.state]
       /\ i.evidence = family.evidence
       /\ ~(action.state = family.state /\ action.evidence = i.evidence)

\* The frames an issue belongs to here: the validated links count, not the
\* proposed ones, and evidence comes before segments.
IssueOwners(view, r, i) ==
  LET linked == {l.consumer : l \in {l \in r.links : l.reference \in i.related}}
      citing == {o \in Ordinals(r) : i.evidence \cap Evidence(r.frames[o]) # {}}
      placed == {o \in Ordinals(r) : \E ref \in i.related \cap DOMAIN view.mention :
                   view.segmentOf[view.mention[ref]] \in r.frames[o].segments}
  IN (i.related \cap Ordinals(r)) \cup linked \cup citing
       \cup (IF citing = {} /\ Single(placed) THEN placed ELSE {})

ReconciledStatus(view, r, issues, o) ==
  LET codes == {i.code : i \in {i \in issues : o \in IssueOwners(view, r, i)}} IN
  IF codes = {} /\ \E i \in issues : IssueOwners(view, r, i) = {}
  THEN r.status[o] ELSE StatusOf(codes)

Reconciled(view, r) ==
  LET issues == {i \in r.issues : ~IsFamilyIssue(view, r, i)} IN
  IF Overridden(view, r) = {} THEN r
  ELSE [r EXCEPT
    !.issues = issues,
    !.status = [o \in Ordinals(r) |-> ReconciledStatus(view, r, issues, o)],
    !.frames = [o \in Ordinals(r) |->
      IF o \notin Overridden(view, r) THEN r.frames[o]
      ELSE [r.frames[o] EXCEPT
              !.family = [state |-> "selected", ids |-> OwnedFamilies(view, r, o),
                          evidence |-> OwnedSpans(view, r, o)]]]]
-----------------------------------------------------------------------------
(* The part of _solve_frame before the contracts are enumerated. *)

\* The solver attributes names by segment.
SpansOfFrame(view, r, o) ==
  IF Single(Ordinals(r)) THEN DOMAIN view.locks
  ELSE {e \in DOMAIN view.locks : view.segmentOf[e] \in r.frames[o].segments}

Named(view, r, o) == {view.locks[e] : e \in SpansOfFrame(view, r, o)}

\* Fault: a named family is taken whatever the frame selected.
ScopeNeverConflicts(view, r, o) == FALSE
ScopeConflicts(view, r, o) ==
  r.frames[o].family.ids # {} /\ ~(Named(view, r, o) \subseteq r.frames[o].family.ids)

ScopeFamilies(view, r, o) ==
  IF Named(view, r, o) # {} THEN Named(view, r, o) ELSE r.frames[o].family.ids

\* The frames whose result set the frame is restricted to.
PriorResults(r, o) ==
  {l.producer : l \in {l \in r.links : l.consumer = o /\ l.slot = "result_set"}}

\* V3: an ambiguous link that no exact lock of an overlapping span settles.
LinkIsAmbiguous(r, o) == r.frames[o].link = "ambiguous"

\* The frame is scoped: its axes are settled and no name contradicts them.
Scoped(view, r, o) ==
  LET f == r.frames[o] IN
  /\ ~LinkIsAmbiguous(r, o)
  /\ r.status[o] = "resolved"
  /\ f.coverage.reason = "none"
  /\ f.action.state = "selected"
  /\ ~ScopeConflicts(view, r, o)

Searchable(view, r, o) ==
  /\ Scoped(view, r, o)
  /\ PriorResults(r, o) = {} \/ Single(PriorResults(r, o))
  /\ \/ ScopeFamilies(view, r, o) # {} \/ PriorResults(r, o) # {}
     \/ r.frames[o].subject
=============================================================================
