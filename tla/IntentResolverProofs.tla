------------------------ MODULE IntentResolverProofs ------------------------
(***************************************************************************)
(* Proofs about IntentResolver, for any views, proposals, contracts and    *)
(* deadline.  The invariant says, beside the properties, how many calls    *)
(* there were at every point, that the citations of a frame lie in its     *)
(* segments, and what is known of a resolution before it is reconciled.    *)
(***************************************************************************)
EXTENDS IntentResolver, TLAPS

\* No choice is made without naming something, and no citation is out of place.
Sound(v, r) ==
  \A o \in Ordinals(r) :
    /\ Chosen(r, o) => r.frames[o].family.ids # {}
    /\ \A e \in Evidence(r.frames[o]) :
         v.segmentOf[e] \in r.frames[o].segments \/ Single(Ordinals(r))

ChosenIfResolved(r) ==
  \A o \in Ordinals(r) : r.status[o] = "resolved" =>
    r.frames[o].action.state = "selected" /\ Chosen(r, o)

Extra == IF repaired THEN 1 ELSE 0

CallsSoFar ==
  /\ calls \in Seq(0 .. MaxTime)
  /\ \A i \in 1 .. Len(calls) : calls[i] < Deadline
  /\ Len(calls) <= 2
  /\ pc = "start" => Len(calls) = 0
  /\ pc \in {"axis", "rejected"} => Len(calls) = 1
  /\ pc = "repair" => Len(calls) = 2
  /\ pc \in {"validated", "reconciled", "solved"} => Len(calls) = 1 + Extra
  /\ pc = "judge" => Len(calls) = 2 /\ ~repaired
  /\ pc = "done" => reported = Len(calls)
  /\ pc \notin {"judge", "done"} => ~judged
  /\ pc \in {"start", "axis", "rejected", "repair"} => ~repaired

Before == {"start", "axis", "rejected", "repair"}

ResolutionSoFar ==
  /\ pc \in Before => resolution = NoResolution
  /\ pc = "validated" =>
       \E p \in Proposals : Accepted(version, view, p) /\ resolution = Validated(view, p)
  /\ pc \in Before \cup {"validated", "reconciled"} => answers = <<>>
  /\ Sound(view, resolution)
  /\ ChosenIfResolved(resolution)

IInv ==
  /\ TypeOK /\ CallsSoFar /\ ResolutionSoFar
  /\ CompleteMeansUnique /\ SearchedAsNamed
-----------------------------------------------------------------------------
(* Resolutions *)

\* The issue of a choice that is not made keeps the frame from being resolved.
LEMMA CodeBlocks ==
  ASSUME NEW codes, NEW state \in ChoiceStates, state # "selected",
         ChoiceCode[state] \in codes
  PROVE  StatusOf(codes) # "resolved"
  BY DEF ChoiceStates, ChoiceCode, StatusOf, UnmappedCodes, AmbiguousCodes

\* The issue of a choice of a frame.
LEMMA ChoiceHasIssue ==
  ASSUME NEW p, NEW v, NEW o \in Ordinals(p), NEW c \in {p.frames[o].action, p.frames[o].family},
         c.state # "selected"
  PROVE  Issue(ChoiceCode[c.state], {o}, c.evidence) \in Issues(v, p)
<1>1. Issue(ChoiceCode[c.state], {o}, c.evidence) \in FrameIssues(o, p.frames[o])
  BY DEF FrameIssues
<1> QED BY <1>1 DEF Issues

LEMMA ValidatedIsSound ==
  ASSUME NEW v, NEW w, NEW p, Accepted(w, v, p),
         \A o \in Ordinals(p) : IsFrame(p.frames[o])
  PROVE  Sound(v, Validated(v, p)) /\ ChosenIfResolved(Validated(v, p))
<1> DEFINE r == Validated(v, p)
<1>1. Ordinals(r) = Ordinals(p) /\ r.frames = p.frames
  BY DEF Validated, Ordinals
<1>2. \A o \in Ordinals(p) : FrameIsOffered(v, p.frames[o])
  BY DEF Accepted
<1>3. Sound(v, r)
  BY <1>1, <1>2 DEF Sound, FrameIsOffered, Chosen
<1>4. ASSUME NEW o \in Ordinals(p), NEW c \in {p.frames[o].action, p.frames[o].family},
             c.state # "selected"
      PROVE  r.status[o] # "resolved"
  <2> DEFINE i == Issue(ChoiceCode[c.state], {o}, c.evidence)
             codes == {j.code : j \in {j \in Issues(v, p) : o \in Affected(v, p, j)}}
  <2>1. i \in Issues(v, p)
    BY <1>4, ChoiceHasIssue
  <2>2. i.related = {o} /\ i.code = ChoiceCode[c.state]
    BY DEF Issue
  <2>3. o \in Affected(v, p, i)
    BY <2>2 DEF Affected
  <2>4. ChoiceCode[c.state] \in codes
    BY <2>1, <2>2, <2>3
  <2>5. r.status[o] = StatusOf(codes)
    BY DEF Validated
  <2>6. c.state \in ChoiceStates
    BY DEF IsFrame
  <2> QED BY <1>4, <2>4, <2>5, <2>6, CodeBlocks
<1>5. ChosenIfResolved(r)
  BY <1>1, <1>4 DEF ChosenIfResolved, Chosen
<1> QED BY <1>3, <1>5

\* An exact name belongs to a frame that cites it, or to the only frame.
LEMMA OwnedIsPlaced ==
  ASSUME NEW v, NEW r, Sound(v, r), NEW o \in Ordinals(r), NEW e \in OwnedSpans(v, r, o)
  PROVE  v.segmentOf[e] \in r.frames[o].segments \/ Single(Ordinals(r))
<1> DEFINE byFamily == {q \in Ordinals(r) : e \in r.frames[q].family.evidence}
           byEvidence == {q \in Ordinals(r) : e \in Evidence(r.frames[q])}
<1>1. Owners(r, e) = {o}
  BY DEF OwnedSpans
<1>2. Owners(r, e) = IF Single(byFamily) THEN byFamily
                     ELSE IF Single(byEvidence) THEN byEvidence
                     ELSE IF Single(Ordinals(r)) THEN Ordinals(r) ELSE {}
  BY DEF Owners
<1>3. o \in byFamily \/ o \in byEvidence \/ Single(Ordinals(r))
  BY <1>1, <1>2
<1>4. e \in Evidence(r.frames[o]) \/ Single(Ordinals(r))
  BY <1>3 DEF Evidence
<1> QED BY <1>4 DEF Sound

\* What an override leaves of a resolution r: R.
Overrides(v, r, R) ==
  /\ Ordinals(R) = Ordinals(r)
  /\ \A o \in Ordinals(r) :
       /\ R.status[o] =
            ReconciledStatus(v, r, {i \in r.issues : ~IsFamilyIssue(v, r, i)}, o)
       /\ R.frames[o].segments = r.frames[o].segments
       /\ R.frames[o].action = r.frames[o].action
       /\ R.frames[o].coverage = r.frames[o].coverage
       /\ o \notin Overridden(v, r) => R.frames[o].family = r.frames[o].family
       /\ o \in Overridden(v, r) =>
            /\ R.frames[o].family.state = "selected"
            /\ R.frames[o].family.ids = OwnedFamilies(v, r, o)
            /\ R.frames[o].family.evidence = OwnedSpans(v, r, o)

LEMMA ReconciledFields ==
  ASSUME NEW v, NEW p, \A o \in Ordinals(p) : IsFrame(p.frames[o]),
         NEW r, r = Validated(v, p), Overridden(v, r) # {}
  PROVE  Overrides(v, r, Reconciled(v, r))
<1>1. /\ Ordinals(r) = Ordinals(p) /\ r.frames = p.frames
      /\ r = [frames |-> p.frames, links |-> r.links, issues |-> r.issues, status |-> r.status]
  BY DEF Validated, Ordinals
<1>2. Reconciled(v, r).frames =
        [o \in Ordinals(r) |->
           IF o \notin Overridden(v, r) THEN r.frames[o]
           ELSE [r.frames[o] EXCEPT
                   !.family = [state |-> "selected", ids |-> OwnedFamilies(v, r, o),
                               evidence |-> OwnedSpans(v, r, o)]]]
  BY <1>1 DEF Reconciled
<1>3. Reconciled(v, r).status =
        [o \in Ordinals(r) |->
           ReconciledStatus(v, r, {i \in r.issues : ~IsFamilyIssue(v, r, i)}, o)]
  BY <1>1 DEF Reconciled
<1>4. Ordinals(Reconciled(v, r)) = Ordinals(r)
  BY <1>2 DEF Ordinals
<1>5. \A o \in Ordinals(r) : IsFrame(r.frames[o])
  BY <1>1
<1> DEFINE R == Reconciled(v, r)
<1> HIDE DEF R
<1>6. ASSUME NEW o \in Ordinals(r)
      PROVE  /\ R.frames[o].segments = r.frames[o].segments
             /\ R.frames[o].action = r.frames[o].action
             /\ R.frames[o].coverage = r.frames[o].coverage
             /\ o \notin Overridden(v, r) => R.frames[o].family = r.frames[o].family
             /\ o \in Overridden(v, r) =>
                  /\ R.frames[o].family.state = "selected"
                  /\ R.frames[o].family.ids = OwnedFamilies(v, r, o)
                  /\ R.frames[o].family.evidence = OwnedSpans(v, r, o)
  BY <1>2, <1>5 DEF IsFrame, R
<1>7. ASSUME NEW o \in Ordinals(r)
      PROVE  R.status[o] = ReconciledStatus(v, r, {i \in r.issues : ~IsFamilyIssue(v, r, i)}, o)
  BY <1>3 DEF R
<1>8. Ordinals(R) = Ordinals(r)
  BY <1>4 DEF R
<1>9. Overrides(v, r, R)
  BY <1>6, <1>7, <1>8, Zenon DEF Overrides
<1> QED BY <1>9 DEF R

\* An issue of a choice that reconciliation leaves alone is not taken for the
\* issue of a family choice that it overrides.
LEMMA OnlyFamilyIssuesGo ==
  ASSUME NEW v, NEW p, \A o \in Ordinals(p) : IsFrame(p.frames[o]),
         NEW r, r = Validated(v, p), NEW o \in Ordinals(r),
         NEW c, c.state # "selected",
         \/ c = r.frames[o].action
         \/ c = r.frames[o].family /\ o \notin Overridden(v, r)
  PROVE  ~IsFamilyIssue(v, r, Issue(ChoiceCode[c.state], {o}, c.evidence))
<1> DEFINE i == Issue(ChoiceCode[c.state], {o}, c.evidence)
<1>1. i.related = {o} /\ i.code = ChoiceCode[c.state] /\ i.evidence = c.evidence
  BY DEF Issue
<1>2. IsFrame(r.frames[o])
  BY DEF Validated, Ordinals
<1>3. CASE c = r.frames[o].family /\ o \notin Overridden(v, r)
  BY <1>1, <1>3 DEF IsFamilyIssue
<1>4. CASE c = r.frames[o].action
  <2> SUFFICES ASSUME IsFamilyIssue(v, r, i) PROVE FALSE
    OBVIOUS
  <2>1. /\ o \in Overridden(v, r)
        /\ i.code = ChoiceCode[r.frames[o].family.state]
        /\ ~(r.frames[o].action.state = r.frames[o].family.state
               /\ r.frames[o].action.evidence = i.evidence)
    BY <1>1 DEF IsFamilyIssue
  <2>2. r.frames[o].family.state # "selected"
    BY <2>1 DEF Overridden, Chosen
  <2>3. c.state # r.frames[o].family.state
    BY <1>1, <1>4, <2>1
  <2>4. ChoiceCode[c.state] = ChoiceCode[r.frames[o].family.state]
    BY <1>1, <2>1
  <2> QED BY <1>2, <1>4, <2>2, <2>3, <2>4 DEF IsFrame, ChoiceStates, ChoiceCode
<1> QED BY <1>3, <1>4

LEMMA ReconciledIsSound ==
  ASSUME NEW v, NEW w, NEW p, Accepted(w, v, p),
         \A o \in Ordinals(p) : IsFrame(p.frames[o]),
         NEW r, r = Validated(v, p)
  PROVE  Sound(v, Reconciled(v, r)) /\ ChosenIfResolved(Reconciled(v, r))
<1>1. Sound(v, r) /\ ChosenIfResolved(r)
  BY ValidatedIsSound
<1>2. CASE Overridden(v, r) = {}
  BY <1>1, <1>2 DEF Reconciled
<1>3. CASE Overridden(v, r) # {}
  <2> DEFINE kept == {i \in r.issues : ~IsFamilyIssue(v, r, i)}
  <2> PICK R : R = Reconciled(v, r)
    OBVIOUS
  <2>1. Overrides(v, r, R)
    BY <1>3, ReconciledFields
  <2>0. Ordinals(R) = Ordinals(r)
    BY <2>1 DEF Overrides
  <2>2. ASSUME NEW o \in Ordinals(r)
        PROVE  /\ Chosen(R, o) => R.frames[o].family.ids # {}
               /\ \A e \in Evidence(R.frames[o]) :
                    v.segmentOf[e] \in R.frames[o].segments \/ Single(Ordinals(R))
    <3>1. CASE o \notin Overridden(v, r)
      BY <1>1, <2>1, <3>1 DEF Overrides, Sound, Chosen, Evidence
    <3>2. CASE o \in Overridden(v, r)
      <4>1. OwnedSpans(v, r, o) # {}
        BY <3>2 DEF Overridden, Owning
      <4>0. OwnedFamilies(v, r, o) # {}
        BY <4>1 DEF OwnedFamilies
      <4>2. R.frames[o].family.ids # {}
        BY <2>1, <3>2, <4>0 DEF Overrides
      <4>3. \A e \in OwnedSpans(v, r, o) :
              v.segmentOf[e] \in r.frames[o].segments \/ Single(Ordinals(r))
        BY <1>1, OwnedIsPlaced
      <4>4. \A e \in Evidence(r.frames[o]) :
              v.segmentOf[e] \in r.frames[o].segments \/ Single(Ordinals(r))
        BY <1>1 DEF Sound
      <4>5. \A e \in Evidence(R.frames[o]) :
              e \in OwnedSpans(v, r, o) \/ e \in Evidence(r.frames[o])
        BY <2>1, <3>2 DEF Overrides, Evidence
      <4>6. R.frames[o].segments = r.frames[o].segments
        BY <2>1 DEF Overrides
      <4> QED BY <2>0, <4>2, <4>3, <4>4, <4>5, <4>6
    <3> QED BY <3>1, <3>2
  <2>3. ASSUME NEW o \in Ordinals(r), NEW c, c.state # "selected",
               \/ c = r.frames[o].action
               \/ c = r.frames[o].family /\ o \notin Overridden(v, r)
        PROVE  R.status[o] # "resolved"
    <3> DEFINE i == Issue(ChoiceCode[c.state], {o}, c.evidence)
               codes == {j.code : j \in {j \in kept : o \in IssueOwners(v, r, j)}}
    <3>1. Ordinals(r) = Ordinals(p) /\ r.frames = p.frames /\ r.issues = Issues(v, p)
      BY DEF Validated, Ordinals
    <3>2. i \in r.issues
      BY <2>3, <3>1, ChoiceHasIssue
    <3>3. i \in kept
      BY <2>3, <3>2, OnlyFamilyIssuesGo
    <3>4. i.related = {o} /\ i.code = ChoiceCode[c.state]
      BY DEF Issue
    <3>5. o \in IssueOwners(v, r, i)
      BY <3>4 DEF IssueOwners
    <3>6. ChoiceCode[c.state] \in codes
      BY <3>3, <3>4, <3>5
    <3>7. R.status[o] = StatusOf(codes)
      BY <2>1, <3>6 DEF Overrides, ReconciledStatus
    <3>8. c.state \in ChoiceStates
      BY <2>3, <3>1 DEF IsFrame
    <3> QED BY <2>3, <3>6, <3>7, <3>8, CodeBlocks
  <2>4. ASSUME NEW o \in Ordinals(r), R.status[o] = "resolved"
        PROVE  R.frames[o].action.state = "selected" /\ Chosen(R, o)
    <3>1. r.frames[o].action.state = "selected"
      BY <2>3, <2>4
    <3>2. CASE o \in Overridden(v, r)
      BY <2>1, <3>1, <3>2 DEF Overrides, Chosen
    <3>3. CASE o \notin Overridden(v, r)
      <4>1. r.frames[o].family.state = "selected"
        BY <2>3, <2>4, <3>3
      <4> QED BY <2>1, <3>1, <3>3, <4>1 DEF Overrides, Chosen
    <3> QED BY <3>2, <3>3
  <2>5. Sound(v, R) /\ ChosenIfResolved(R)
    BY <2>0, <2>2, <2>4 DEF Sound, ChosenIfResolved
  <2> QED BY <2>5
<1> QED BY <1>2, <1>3
-----------------------------------------------------------------------------
(* Solving *)

\* A frame that is searched is searched where it is said to be.
LEMMA SearchIsNamed ==
  ASSUME NEW v, NEW r, Sound(v, r), ChosenIfResolved(r),
         NEW o \in Ordinals(r), Searchable(v, r, o)
  PROVE  /\ ScopeFamilies(v, r, o) \subseteq r.frames[o].family.ids
         /\ Named(v, r, o) \subseteq ScopeFamilies(v, r, o)
         /\ OwnedFamilies(v, r, o) \subseteq ScopeFamilies(v, r, o)
<1>1. r.frames[o].family.ids # {}
  BY DEF Searchable, Scoped, ChosenIfResolved, Sound
<1>2. Named(v, r, o) \subseteq r.frames[o].family.ids
  BY <1>1 DEF Searchable, Scoped, ScopeConflicts
<1>3. OwnedSpans(v, r, o) \subseteq SpansOfFrame(v, r, o)
  BY OwnedIsPlaced DEF OwnedSpans, SpansOfFrame
<1>4. OwnedFamilies(v, r, o) \subseteq Named(v, r, o)
  BY <1>3 DEF OwnedFamilies, Named
<1> QED BY <1>2, <1>4 DEF ScopeFamilies

\* CompleteMeansUnique, of one answer.
Decided(a) ==
  /\ a.readiness = "complete" <=> Single(a.left) /\ ~a.bound
  /\ a.left \subseteq a.offered
  /\ a.left = {} <=> a.offered = {}
  /\ a.bound => a.left = a.offered

LEMMA SolvedIsDecided ==
  ASSUME NEW o, NEW found \in Found, NEW b, b = TieBroken(Solved(o, found))
  PROVE  /\ b \in Answer(b.families) /\ Decided(b)
         /\ b.offered # {} =>
              /\ Searchable(view, resolution, o)
              /\ b.families = ScopeFamilies(view, resolution, o)
<1> DEFINE searched == Searchable(view, resolution, o)
           ids == IF searched THEN found.ids ELSE {}
           bound == found.bound /\ (searched \/ TooManySubjects(o))
           families == IF searched THEN ScopeFamilies(view, resolution, o) ELSE {}
           ambiguous == bound \/ LinkIsAmbiguous(resolution, o)
<1> PICK a : a = Solved(o, found)
  OBVIOUS
<1>0. b = IF ~a.bound /\ Single(Best(a.left)) /\ ~Single(a.left)
          THEN [a EXCEPT !.left = Best(a.left), !.readiness = "complete"] ELSE a
  BY DEF TieBroken
<1>1. a = [families |-> families, offered |-> ids, left |-> ids, bound |-> bound,
           readiness |-> ReadinessOf(ids, ambiguous)]
  BY DEF Solved
<1>2. ids \subseteq Candidates /\ bound \in BOOLEAN
  BY DEF Found
<1>3. ambiguous => bound \/ ids = {}
  BY DEF Searchable, Scoped, TooManySubjects
<1>4. a.readiness = ReadinessOf(ids, ambiguous) /\ a.readiness \in Readiness
  BY <1>1 DEF ReadinessOf, Readiness
<1>5. a.readiness = "complete" <=> Single(ids) /\ ~bound
  BY <1>3, <1>4 DEF ReadinessOf, Single
<1> HIDE DEF ids, bound, families, ambiguous
<1>6. a \in Answer(a.families) /\ Decided(a)
  BY <1>1, <1>2, <1>4, <1>5 DEF Answer, Decided
<1>7. b \in Answer(b.families) /\ Decided(b) /\ b.families = families /\ b.offered = ids
  <2>1. CASE b = a
    BY <1>1, <1>6, <2>1
  <2>2. CASE ~a.bound /\ Single(Best(a.left)) /\ ~Single(a.left)
    <3>0. b = [a EXCEPT !.left = Best(a.left), !.readiness = "complete"]
      BY <1>0, <2>2
    <3>1. b = [families |-> families, offered |-> ids, left |-> Best(ids), bound |-> bound,
               readiness |-> "complete"]
      <4>1. a.left = ids
        BY <1>1
      <4>2. PICK best : best = Best(ids)
        OBVIOUS
      <4>3. b = [a EXCEPT !.left = best, !.readiness = "complete"]
        BY <3>0, <4>1, <4>2
      <4>4. b = [families |-> families, offered |-> ids, left |-> best, bound |-> bound,
                 readiness |-> "complete"]
        <5>1. PICK half : half = [a EXCEPT !.left = best]
          OBVIOUS
        <5>2. half = [families |-> families, offered |-> ids, left |-> best, bound |-> bound,
                      readiness |-> ReadinessOf(ids, ambiguous)]
          BY <1>1, <5>1
        <5>3. b = [half EXCEPT !.readiness = "complete"]
          BY <4>3, <5>1
        <5> QED BY <5>2, <5>3
      <4> QED BY <4>2, <4>4
    <3>2. ~bound /\ Single(Best(ids))
      BY <1>1, <2>2
    <3>3. Best(ids) \subseteq ids
      BY DEF Best
    <3> QED BY <1>2, <3>1, <3>2, <3>3 DEF Answer, Decided, Readiness, Single
  <2> QED BY <1>0, <2>1, <2>2
<1>8. ids # {} => searched /\ families = ScopeFamilies(view, resolution, o)
  BY DEF ids, families
<1> QED BY <1>7, <1>8
-----------------------------------------------------------------------------
(* Steps *)

LEMMA Frames == \A p \in Proposals : \A o \in Ordinals(p) : IsFrame(p.frames[o])
  BY ResolverAssumption

LEMMA TypeInit == Init => IInv
<1> SUFFICES ASSUME Init PROVE IInv
  OBVIOUS
<1>1. Ordinals(NoResolution) = {} /\ DOMAIN answers = {}
  BY DEF Init, NoResolution, Ordinals
<1>2. TypeOK
  <2>1. calls \in Seq(0 .. MaxTime)
    BY DEF Init
  <2>2. now \in 0 .. MaxTime /\ reported \in 0 .. 2
    BY DEF Init
  <2> QED BY <1>1, <2>1, <2>2 DEF Init, TypeOK, PCs
<1>3. CallsSoFar
  BY DEF Init, CallsSoFar, Extra
<1>4. ResolutionSoFar
  BY <1>1 DEF Init, ResolutionSoFar, Before, Sound, ChosenIfResolved
<1>5. CompleteMeansUnique /\ SearchedAsNamed
  BY <1>1 DEF CompleteMeansUnique, SearchedAsNamed
<1> QED BY <1>2, <1>3, <1>4, <1>5 DEF IInv

\* CompleteMeansUnique and SearchedAsNamed, of given answers.
AnswersAreRight(v, w, r, as) ==
  \A o \in DOMAIN as :
    /\ Decided(as[o])
    /\ as[o].offered # {} =>
         /\ as[o].families \subseteq r.frames[o].family.ids
         /\ Named(v, r, o) \subseteq as[o].families
         /\ w = "v2" => OwnedFamilies(v, r, o) \subseteq as[o].families

LEMMA AnswersRight ==
  /\ CompleteMeansUnique /\ SearchedAsNamed <=>
       AnswersAreRight(view, version, resolution, answers)
  /\ (CompleteMeansUnique /\ SearchedAsNamed)' <=>
       AnswersAreRight(view', version', resolution', answers')
  BY DEF CompleteMeansUnique, SearchedAsNamed, AnswersAreRight, Decided

\* Steps that leave the resolution and the answers alone.
LEMMA Quiet ==
  ASSUME IInv, UNCHANGED <<version, view, resolution, answers>>
  PROVE  CompleteMeansUnique' /\ SearchedAsNamed'
  BY AnswersRight DEF IInv

\* The telemetry counts the calls there were.
LEMMA Counted ==
  ASSUME IInv, Report, \/ pc = "solved" /\ judged' = judged
                       \/ pc = "judge" /\ judged' = TRUE
  PROVE  pc' = "done" /\ reported' = Len(calls) /\ reported' \in 0 .. 2
<1>1. CASE pc = "solved" /\ judged' = judged
  <2>1. ~judged' /\ Len(calls) = 1 + Extra
    BY <1>1 DEF IInv, CallsSoFar
  <2> QED BY <2>1 DEF Report, Extra
<1>2. CASE pc = "judge" /\ judged' = TRUE
  BY <1>2 DEF IInv, CallsSoFar, Report
<1> QED BY <1>1, <1>2

LEMMA TypeStep == IInv /\ [Next]_vars => IInv'
<1> SUFFICES ASSUME IInv, [Next]_vars PROVE IInv'
  OBVIOUS
<1> USE ResolverAssumption DEF IInv
<1>1. CASE Tick
  <2>1. TypeOK'
    BY <1>1 DEF Tick, TypeOK
  <2>2. CallsSoFar'
    BY <1>1 DEF Tick, CallsSoFar, Extra
  <2>3. ResolutionSoFar'
    BY <1>1 DEF Tick, ResolutionSoFar
  <2>4. CompleteMeansUnique' /\ SearchedAsNamed'
    BY <1>1, Quiet DEF Tick
  <2> QED BY <2>1, <2>2, <2>3, <2>4
<1>2. ASSUME NEW from, NEW to, Invoke(from, to),
             <<from, to>> \in {<<"start", "axis">>, <<"rejected", "repair">>}
      PROVE  IInv'
  <2>2. CallsSoFar'
    <3>1. CASE now < Deadline
      <4>1. calls \in Seq(0 .. MaxTime) /\ now \in 0 .. MaxTime /\ calls' = Append(calls, now)
        BY <1>2, <3>1 DEF Invoke, TypeOK
      <4>2. /\ calls' \in Seq(0 .. MaxTime) /\ Len(calls') = Len(calls) + 1
            /\ \A i \in 1 .. Len(calls') : calls'[i] = calls[i] \/ calls'[i] = now
            /\ \A i \in 1 .. Len(calls') : i \in 1 .. Len(calls) => calls'[i] = calls[i]
            /\ \A i \in 1 .. Len(calls') : i \notin 1 .. Len(calls) => calls'[i] = now
        BY <4>1
      <4>3. \A i \in 1 .. Len(calls') : calls'[i] < Deadline
        BY <3>1, <4>2 DEF CallsSoFar
      <4> QED BY <1>2, <3>1, <4>2, <4>3 DEF Invoke, CallsSoFar, Extra
    <3>2. CASE ~(now < Deadline)
      BY <1>2, <3>2 DEF Invoke, CallsSoFar, Extra
    <3> QED BY <3>1, <3>2
  <2>1. TypeOK'
    <3>1. calls' \in Seq(0 .. MaxTime)
      BY <2>2 DEF CallsSoFar
    <3>2. pc' \in PCs
      BY <1>2 DEF Invoke, PCs
    <3> QED BY <1>2, <3>1, <3>2 DEF Invoke, TypeOK
  <2>3. ResolutionSoFar'
    BY <1>2 DEF Invoke, ResolutionSoFar, Before
  <2>4. CompleteMeansUnique' /\ SearchedAsNamed'
    BY <1>2, Quiet DEF Invoke
  <2> QED BY <2>1, <2>2, <2>3, <2>4
<1>3. CASE CallFails \/ Reject
  <2>1. TypeOK'
    BY <1>3 DEF CallFails, Reject, TypeOK, PCs
  <2>2. CallsSoFar'
    BY <1>3 DEF CallFails, Reject, CallsSoFar, Extra
  <2>3. ResolutionSoFar'
    BY <1>3 DEF CallFails, Reject, ResolutionSoFar, Before
  <2>4. CompleteMeansUnique' /\ SearchedAsNamed'
    BY <1>3, Quiet DEF CallFails, Reject
  <2> QED BY <2>1, <2>2, <2>3, <2>4
<1>4. ASSUME NEW p \in Proposals, Accept(p) PROVE IInv'
  <2>0. answers = <<>> /\ DOMAIN answers = {} /\ DOMAIN answers' = {}
    BY <1>4 DEF Accept, ResolutionSoFar, Before
  <2>1. TypeOK'
    BY <1>4, <2>0 DEF Accept, TypeOK, PCs
  <2>2. CallsSoFar'
    <3>1. CASE pc = "axis"
      <4>1. pc' = "validated" /\ ~repaired' /\ calls' = calls /\ judged' = judged
        BY <1>4, <3>1 DEF Accept
      <4> QED BY <3>1, <4>1 DEF CallsSoFar, Extra
    <3>2. CASE pc = "repair"
      <4>1. pc' = "validated" /\ repaired' /\ calls' = calls /\ judged' = judged
        BY <1>4, <3>2 DEF Accept
      <4> QED BY <3>2, <4>1 DEF CallsSoFar, Extra
    <3> QED BY <1>4, <3>1, <3>2 DEF Accept
  <2>3. Sound(view, resolution') /\ ChosenIfResolved(resolution')
    BY <1>4, Frames, ValidatedIsSound DEF Accept
  <2>4. ResolutionSoFar'
    BY <1>4, <2>0, <2>3 DEF Accept, ResolutionSoFar, Before
  <2>5. CompleteMeansUnique' /\ SearchedAsNamed'
    BY <2>0 DEF CompleteMeansUnique, SearchedAsNamed
  <2> QED BY <2>1, <2>2, <2>4, <2>5
<1>5. CASE Reconcile
  <2>0. answers = <<>> /\ DOMAIN answers = {} /\ DOMAIN answers' = {}
    BY <1>5 DEF Reconcile, ResolutionSoFar
  <2>1. TypeOK'
    BY <1>5, <2>0 DEF Reconcile, TypeOK, PCs
  <2>2. CallsSoFar'
    BY <1>5 DEF Reconcile, CallsSoFar, Extra
  <2>3. PICK p \in Proposals : Accepted(version, view, p) /\ resolution = Validated(view, p)
    BY <1>5 DEF Reconcile, ResolutionSoFar
  <2>4. /\ Sound(view, resolution) /\ ChosenIfResolved(resolution)
        /\ Sound(view, Reconciled(view, resolution))
        /\ ChosenIfResolved(Reconciled(view, resolution))
    BY <2>3, Frames, ReconciledIsSound DEF ResolutionSoFar
  <2>5. Sound(view, resolution') /\ ChosenIfResolved(resolution')
    BY <1>5, <2>4 DEF Reconcile
  <2>6. ResolutionSoFar'
    BY <1>5, <2>0, <2>5 DEF Reconcile, ResolutionSoFar, Before
  <2>7. CompleteMeansUnique' /\ SearchedAsNamed'
    BY <2>0 DEF CompleteMeansUnique, SearchedAsNamed
  <2> QED BY <2>1, <2>2, <2>6, <2>7
<1>6. CASE Solve
  <2>1. PICK found \in [Ordinals(resolution) -> Found] :
          answers' = [o \in Ordinals(resolution) |-> TieBroken(Solved(o, found[o]))]
    BY <1>6 DEF Solve
  <2>2. ASSUME NEW o \in Ordinals(resolution)
        PROVE  /\ answers'[o] \in Answer(answers'[o].families) /\ Decided(answers'[o])
               /\ answers'[o].offered # {} =>
                    /\ Searchable(view, resolution, o)
                    /\ answers'[o].families = ScopeFamilies(view, resolution, o)
    <3>1. found[o] \in Found /\ answers'[o] = TieBroken(Solved(o, found[o]))
      BY <2>1
    <3> QED BY <3>1, SolvedIsDecided
  <2>3. DOMAIN answers' = Ordinals(resolution)
    BY <2>1
  <2>4. TypeOK'
    BY <1>6, <2>2, <2>3 DEF Solve, TypeOK, PCs, Answer
  <2>5. CallsSoFar'
    BY <1>6 DEF Solve, CallsSoFar, Extra
  <2>6. ResolutionSoFar'
    BY <1>6 DEF Solve, ResolutionSoFar, Before
  <2>7. Sound(view, resolution) /\ ChosenIfResolved(resolution)
    BY DEF ResolutionSoFar
  <2>8. AnswersAreRight(view, version, resolution, answers')
    BY <2>2, <2>3, <2>7, SearchIsNamed DEF AnswersAreRight
  <2>9. CompleteMeansUnique' /\ SearchedAsNamed'
    BY <1>6, <2>8, AnswersRight DEF Solve
  <2> QED BY <2>4, <2>5, <2>6, <2>9
<1>7. CASE InvokeJudge
  <2>1. TypeOK'
    BY <1>7 DEF InvokeJudge, TypeOK, PCs
  <2>2. CallsSoFar'
    <3>1. calls \in Seq(0 .. MaxTime) /\ now \in 0 .. MaxTime /\ calls' = Append(calls, now)
      BY <1>7 DEF InvokeJudge, TypeOK, CallsSoFar
    <3>2. /\ calls' \in Seq(0 .. MaxTime) /\ Len(calls') = Len(calls) + 1
          /\ \A i \in 1 .. Len(calls') : i \in 1 .. Len(calls) => calls'[i] = calls[i]
          /\ \A i \in 1 .. Len(calls') : i \notin 1 .. Len(calls) => calls'[i] = now
      BY <3>1
    <3>3. \A i \in 1 .. Len(calls') : calls'[i] < Deadline
      BY <1>7, <3>2 DEF InvokeJudge, CallsSoFar
    <3>4. ~repaired /\ Len(calls) = 1
      BY <1>7 DEF InvokeJudge, Judge, CallsSoFar, Extra
    <3> QED BY <1>7, <3>2, <3>3, <3>4 DEF InvokeJudge, CallsSoFar, Extra
  <2>3. ResolutionSoFar'
    BY <1>7 DEF InvokeJudge, ResolutionSoFar, Before
  <2>4. CompleteMeansUnique' /\ SearchedAsNamed'
    BY <1>7, Quiet DEF InvokeJudge
  <2> QED BY <2>1, <2>2, <2>3, <2>4
<1>8. CASE Conclude \/ JudgeIsNoHelp
  <2>0. /\ pc' = "done" /\ reported' = Len(calls) /\ reported' \in 0 .. 2
        /\ UNCHANGED <<version, view, now, calls, repaired, resolution, answers>>
        /\ judged' \in BOOLEAN
    BY <1>8, Counted DEF Conclude, JudgeIsNoHelp, TypeOK
  <2>1. TypeOK'
    BY <2>0 DEF TypeOK, PCs
  <2>2. CallsSoFar'
    BY <2>0 DEF CallsSoFar
  <2>3. ResolutionSoFar'
    BY <1>8 DEF Conclude, JudgeIsNoHelp, Report, ResolutionSoFar, Before
  <2>4. CompleteMeansUnique' /\ SearchedAsNamed'
    BY <1>8, Quiet DEF Conclude, JudgeIsNoHelp
  <2> QED BY <2>1, <2>2, <2>3, <2>4
<1>9. ASSUME NEW c \in Candidates, JudgeSelects(c) PROVE IInv'
  <2>1. PICK o \in Undecided :
          /\ c \in answers[o].left
          /\ answers' = [answers EXCEPT ![o].left = {c}, ![o].readiness = "complete"]
    BY <1>9 DEF JudgeSelects
  <2>2. o \in DOMAIN answers /\ ~answers[o].bound /\ answers[o].left # {}
    BY <2>1 DEF Undecided
  <2>3. answers[o] \in Answer(answers[o].families)
    BY <2>2 DEF TypeOK
  <2>4. /\ DOMAIN answers' = DOMAIN answers
        /\ \A q \in DOMAIN answers : q # o => answers'[q] = answers[q]
        /\ answers'[o] = [answers[o] EXCEPT !.left = {c}, !.readiness = "complete"]
    BY <2>1, <2>2
  <2>5. /\ answers'[o] \in Answer(answers'[o].families)
        /\ answers'[o].families = answers[o].families
        /\ answers'[o].offered = answers[o].offered /\ answers'[o].left = {c}
        /\ answers'[o].readiness = "complete" /\ answers'[o].bound = answers[o].bound
    <3>1. PICK a : a = answers[o]
      OBVIOUS
    <3>2. a = [families |-> a.families, offered |-> a.offered, left |-> a.left,
               bound |-> a.bound, readiness |-> a.readiness]
      BY <2>3, <3>1 DEF Answer
    <3>3. answers'[o] = [families |-> a.families, offered |-> a.offered, left |-> {c},
                         bound |-> a.bound, readiness |-> "complete"]
      BY <2>4, <3>1, <3>2
    <3>4. a.offered \in SUBSET Candidates /\ a.bound \in BOOLEAN
      BY <2>3, <3>1 DEF Answer
    <3> QED BY <3>1, <3>3, <3>4 DEF Answer, Readiness
  <2>0. /\ pc' = "done" /\ reported' = Len(calls) /\ reported' \in 0 .. 2
        /\ UNCHANGED <<version, view, now, calls, repaired, resolution>>
        /\ judged' \in BOOLEAN
    BY <1>9, Counted DEF JudgeSelects
  <2>6. TypeOK'
    BY <2>0, <2>4, <2>5 DEF TypeOK, PCs
  <2>7. CallsSoFar'
    BY <2>0 DEF CallsSoFar
  <2>8. ResolutionSoFar'
    BY <1>9 DEF JudgeSelects, Report, ResolutionSoFar, Before
  <2>9. AnswersAreRight(view, version, resolution, answers)
    BY AnswersRight
  <2>10. Decided(answers'[o])
    BY <2>1, <2>2, <2>5, <2>9 DEF AnswersAreRight, Decided, Single
  <2>11. AnswersAreRight(view, version, resolution, answers')
    BY <2>2, <2>4, <2>5, <2>9, <2>10 DEF AnswersAreRight
  <2>12. CompleteMeansUnique' /\ SearchedAsNamed'
    BY <1>9, <2>11, AnswersRight DEF JudgeSelects
  <2> QED BY <2>6, <2>7, <2>8, <2>12
<1>10. CASE UNCHANGED vars
  <2>1. TypeOK' /\ CallsSoFar' /\ ResolutionSoFar'
    BY <1>10 DEF vars, TypeOK, CallsSoFar, Extra, ResolutionSoFar
  <2>2. CompleteMeansUnique' /\ SearchedAsNamed'
    BY <1>10, Quiet DEF vars
  <2> QED BY <2>1, <2>2
<1> QED BY <1>1, <1>2, <1>3, <1>4, <1>5, <1>6, <1>7, <1>8, <1>9, <1>10
        DEF Next, InvokeAxis, InvokeRepair

LEMMA Invariance == Spec => []IInv
  BY TypeInit, TypeStep, PTL DEF Spec

(***************************************************************************)
(* The types of the variables of the resolver.                             *)
(***************************************************************************)
THEOREM TypeCorrect == Spec => []TypeOK
  BY Invariance, PTL DEF IInv

(***************************************************************************)
(* One extra call for repair and judge together, none after the deadline,  *)
(* all of them counted: whatever the model answers.                        *)
(***************************************************************************)
THEOREM CallsCorrect == Spec => []CallsAreAccounted
<1>1. IInv => CallsAreAccounted
  BY DEF IInv, CallsSoFar, CallsAreAccounted
<1> QED BY <1>1, Invariance, PTL

(***************************************************************************)
(* A frame is complete exactly when the search ended by itself and one of  *)
(* the contracts it found is left.                                         *)
(***************************************************************************)
THEOREM CompleteCorrect == Spec => []CompleteMeansUnique
  BY Invariance, PTL DEF IInv

(***************************************************************************)
(* A frame is searched in families it selected and in all that the         *)
(* question names for it.                                                  *)
(***************************************************************************)
THEOREM SearchCorrect == Spec => []SearchedAsNamed
  BY Invariance, PTL DEF IInv

(***************************************************************************)
(* Only frames whose action and product families are settled count as      *)
(* resolved, also after exact names overrode the model.                    *)
(***************************************************************************)
THEOREM ResolvedCorrect == Spec => []ResolvedMeansChosen
<1>1. IInv => ResolvedMeansChosen
  BY DEF IInv, ResolutionSoFar, ChosenIfResolved, Chosen, ResolvedMeansChosen
<1> QED BY <1>1, Invariance, PTL
=============================================================================
