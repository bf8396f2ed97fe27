-------------------------- MODULE GovernanceProofs --------------------------
(***************************************************************************)
(* What holds of the review backlog for any items, budgets and readings of *)
(* the clock, and the types of the three governed decisions together.      *)
(***************************************************************************)
EXTENDS MCGovernance, AdjudicationProofs, OntologyLifecycleProofs

-----------------------------------------------------------------------------
(* Each of the three takes steps of its own.                               *)

LEMMA GovernanceStep ==
    ASSUME [Next3]_allVars
    PROVE  /\ [AdjudicationNext]_adjudicationVars
           /\ [OntologyNext]_ontologyVars
           /\ [BacklogNext]_backlogVars
  BY DEF Next3, allVars, IdentityStep, OntologyStep, BacklogStep, adjudicationVars, ontologyVars,
         backlogVars

-----------------------------------------------------------------------------
(* The backlog.                                                            *)

BacklogTyped ==
    /\ waiting \in SUBSET ReviewItems
    /\ IsFiniteSet(waiting)
    /\ since \in [ReviewItems -> Hours]
    /\ now \in Hours

LEMMA BacklogTypedNext ==
    ASSUME BacklogTyped, [BacklogNext]_backlogVars
    PROVE  BacklogTyped'
  <1>1. CASE UNCHANGED backlogVars
    BY <1>1 DEF backlogVars, BacklogTyped
  <1>2. ASSUME NEW i \in ReviewItems, Enqueue(i) PROVE BacklogTyped'
    <2>1. IsFiniteSet(waiting \cup {i})
      BY FS_AddElement DEF BacklogTyped
    <2> QED BY <1>2, <2>1 DEF Enqueue, BacklogTyped
  <1>3. ASSUME NEW i \in waiting, ResolveItem(i) PROVE BacklogTyped'
    <2>1. IsFiniteSet(waiting \ {i})
      BY FS_RemoveElement DEF BacklogTyped
    <2> QED BY <1>3, <2>1, BacklogConstants DEF ResolveItem, BacklogTyped
  <1>4. ASSUME NEW hour \in Hours, Wait(hour) PROVE BacklogTyped'
    BY <1>4 DEF Wait, BacklogTyped
  <1> QED BY <1>1, <1>2, <1>3, <1>4 DEF BacklogNext

LEMMA SpecBacklogTyped == GovernanceSpec => []BacklogTyped
  <1>1. Init3 => BacklogTyped
    BY FS_EmptySet, BacklogConstants DEF Init3, BacklogInit, BacklogTyped
  <1>2. BacklogTyped /\ [Next3]_allVars => BacklogTyped'
    BY GovernanceStep, BacklogTypedNext
  <1> QED BY <1>1, <1>2, PTL DEF GovernanceSpec

LEMMA RanksOfItems == \A i \in ReviewItems : Rank(i) \in {1, 2, 3}
  <1> TAKE i \in ReviewItems
  <1>1. CaseOf[i].priority \in {"P1", "P2", "P3"}
    BY BacklogConstants
  <1> QED BY <1>1 DEF Rank, PriorityRank

LEMMA SourcesOfItems == \A i \in ReviewItems : CaseOf[i].source \in Nat
  BY BacklogConstants

\* Min is the least element.
LEMMA LeastOf ==
    ASSUME NEW S, NEW x \in S, \A y \in S : x <= y, S \subseteq Int
    PROVE  Min(S) \in S /\ \A y \in S : Min(S) <= y
  BY DEF Min

\* The items _priority_inversion lists are the starved ones.
LEMMA InversionIsStarvation ==
    ASSUME BacklogTyped
    PROVE  StarvedAreNamed
  <1> DEFINE fine == {j \in waiting : ~Breaching(j)}
             healthy == {Rank(i) : i \in fine}
  <1>1. \A j \in waiting : Rank(j) \in {1, 2, 3}
    BY RanksOfItems DEF BacklogTyped
  <1>2. CASE fine = {}
    BY <1>2 DEF StarvedAreNamed, PriorityInversion
  <1>3. CASE fine # {}
    <2>1. healthy # {} /\ healthy \subseteq {1, 2, 3}
      BY <1>1, <1>3
    <2> HIDE DEF healthy
    <2>2. PICK x \in healthy : \A y \in healthy : x <= y
      <3>1. \A y \in healthy : y = 1 \/ y = 2 \/ y = 3
        BY <2>1
      <3>2. CASE 1 \in healthy
        BY <3>1, <3>2
      <3>3. CASE 1 \notin healthy /\ 2 \in healthy
        BY <3>1, <3>3
      <3>4. CASE 1 \notin healthy /\ 2 \notin healthy
        <4>1. PICK h \in healthy : TRUE
          BY <2>1
        <4>2. h = 3 /\ \A y \in healthy : y = 3
          BY <3>1, <3>4
        <4> QED BY <4>1, <4>2
      <3> QED BY <3>2, <3>3, <3>4
    <2>3. Min(healthy) \in healthy /\ \A y \in healthy : Min(healthy) <= y
      <3>1. healthy \subseteq Int
        BY <2>1
      <3> QED BY <2>2, <3>1, LeastOf
    <2>4. ASSUME NEW i \in waiting
          PROVE  Rank(i) > Min(healthy) <=> \E j \in waiting : ~Breaching(j) /\ Rank(j) < Rank(i)
      <3>1. \E j \in fine : Min(healthy) = Rank(j)
        BY <2>3 DEF healthy
      <3>2. \A j \in fine : Min(healthy) <= Rank(j)
        BY <2>3 DEF healthy
      <3> QED BY <1>1, <3>1, <3>2
    <2>5. PriorityInversion = {i \in waiting : Breaching(i) /\ Rank(i) > Min(healthy)}
      BY <2>1 DEF PriorityInversion, healthy
    <2> QED BY <2>4, <2>5 DEF StarvedAreNamed
  <1> QED BY <1>2, <1>3

Late(s) == {i \in From(s) : Breaching(i)}

Counted(s) ==
    /\ IsFiniteSet(From(s)) /\ Depth(s) = Cardinality(From(s)) /\ Depth(s) \in Nat
    /\ IsFiniteSet(Late(s)) /\ Breaches(s) = Cardinality(Late(s)) /\ Breaches(s) \in Nat
    /\ s \in DepthBySource <=> From(s) # {}

AllCounted == \A s : Counted(s)

LEMMA DepthsAreCounts == BacklogTyped => AllCounted
  <1> SUFFICES ASSUME BacklogTyped, NEW s PROVE Counted(s)
    BY DEF AllCounted
  <1>1. IsFiniteSet(From(s))
    BY FS_Subset DEF BacklogTyped, From
  <1>2. IsFiniteSet(Late(s))
    BY <1>1, FS_Subset DEF Late
  <1> QED
    BY <1>1, <1>2, FS_CardinalityType DEF Counted, Depth, Breaches, DepthBySource, From, Late

\* Of some sources one is the deepest, and Top is one of those.
LEMMA TopIsDeepest ==
    ASSUME BacklogTyped, waiting # {}
    PROVE  Top \in DepthBySource /\ \A s \in DepthBySource : Depth(s) <= Depth(Top)
  <1> DEFINE sources == DepthBySource
             deepest == {s \in sources : \A other \in sources : Depth(s) >= Depth(other)}
             depths == {Depth(s) : s \in sources}
  <1>1. sources # {} /\ sources \subseteq Nat
    BY SourcesOfItems DEF DepthBySource, BacklogTyped
  <1>2. \A s \in sources : Depth(s) \in Nat
    BY DepthsAreCounts DEF AllCounted, Counted
  <1>3. IsFiniteSet(waiting) /\ \A s \in sources : Depth(s) <= Cardinality(waiting)
    <2>1. \A s : From(s) \subseteq waiting
      BY DEF From
    <2> QED BY <2>1, FS_Subset DEF Depth, BacklogTyped
  <1>4. Cardinality(waiting) \in Nat
    BY <1>3, FS_CardinalityType
  <1> HIDE DEF sources
  <1>5. PICK top \in depths : \A d \in depths : d <= top
    <2>1. depths # {} /\ depths \subseteq Nat /\ \A d \in depths : d <= Cardinality(waiting)
      BY <1>1, <1>2, <1>3
    <2> HIDE DEF depths
    <2>2. depths \subseteq 0..Cardinality(waiting)
      BY <1>4, <2>1
    <2>3. IsFiniteSet(depths)
      <3>1. IsFiniteSet(0..Cardinality(waiting))
        BY <1>4, FS_Interval
      <3> QED BY <2>2, <3>1, FS_Subset
    <2> QED BY <2>1, <2>3, GreatestNatural
  <1>6. deepest # {} /\ deepest \subseteq Nat
    BY <1>1, <1>2, <1>5
  <1> HIDE DEF deepest, depths
  <1>7. PICK least \in deepest : \A s \in deepest : least <= s
    BY <1>6, LeastNatural
  <1>8. Min(deepest) \in deepest
    <2>1. deepest \subseteq Int
      BY <1>6
    <2> QED BY <1>7, <2>1, LeastOf
  <1>9. Top = Min(deepest)
    BY DEF Top, deepest, sources
  <1> QED BY <1>2, <1>8, <1>9 DEF deepest, sources

\* A source over one of its budgets has a signal of its own.
LEMMA OwnBudgetsAreHeard ==
    ASSUME BacklogTyped, NEW s \in DepthBySource,
           Depth(s) >= Budgets.throttleDepth \/ Breaches(s) >= Budgets.breachQuarantine
    PROVE  s \in Signalled(OwnSignals)
  <1> DEFINE signal == [source |-> s, action |-> SignalFor(s)]
  <1>1. SignalFor(s) \in {"THROTTLE", "QUARANTINE"}
    BY DEF SignalFor
  <1>2. signal \in OwnSignals
    BY <1>1 DEF OwnSignals
  <1> QED BY <1>2 DEF Signalled

LEMMA EveryBudgetIsHeard ==
    ASSUME BacklogTyped
    PROVE  BudgetsAreHeard
  <1>1. Signalled(OwnSignals) \subseteq Signalled(Backpressure)
    BY DEF Signalled, Backpressure
  <1>2. ASSUME Cardinality(waiting) > Budgets.maxExposure
        PROVE  \E s \in Signalled(Backpressure) :
                  \A other \in DepthBySource : Depth(other) <= Depth(s)
    <2>1. waiting # {}
      <3>1. Budgets.maxExposure \in Nat
        BY BacklogConstants
      <3> QED BY <1>2, <3>1, FS_EmptySet
    <2>2. Top \in Signalled(Backpressure)
      <3>1. CASE Top \in Signalled(OwnSignals)
        BY <1>1, <3>1
      <3>2. CASE Top \notin Signalled(OwnSignals)
        <4> DEFINE signal == [source |-> Top, action |-> "THROTTLE"]
        <4>1. signal \in Backpressure
          BY <1>2, <3>2 DEF Backpressure
        <4>2. signal.source = Top
          OBVIOUS
        <4> HIDE DEF signal
        <4> QED BY <4>1, <4>2 DEF Signalled
      <3> QED BY <3>1, <3>2
    <2> QED BY <2>1, <2>2, TopIsDeepest
  <1> QED BY <1>1, <1>2, OwnBudgetsAreHeard DEF BudgetsAreHeard

\* A quarantine is the source's own signal.
OwnQuarantines ==
    \A s : Quarantined(s) <=> s \in DepthBySource /\ SignalFor(s) = "QUARANTINE"

LEMMA QuarantineIsOwn == OwnQuarantines
  <1> SUFFICES ASSUME NEW s
               PROVE  Quarantined(s) <=> s \in DepthBySource /\ SignalFor(s) = "QUARANTINE"
    BY DEF OwnQuarantines
  <1> DEFINE signal == [source |-> s, action |-> "QUARANTINE"]
  <1>1. signal \in Backpressure <=> signal \in OwnSignals
    <2>1. \A t : signal # [source |-> t, action |-> "THROTTLE"]
      OBVIOUS
    <2> QED BY <2>1 DEF Backpressure
  <1>2. signal \in OwnSignals <=> s \in DepthBySource /\ SignalFor(s) = "QUARANTINE"
    BY DEF OwnSignals
  <1> QED BY <1>1, <1>2 DEF Quarantined

\* What waits on goes on breaching.
LEMMA BreachesStay ==
    ASSUME BacklogTyped, [BacklogNext]_backlogVars, NEW i \in waiting, i \in waiting', Breaching(i)
    PROVE  Breaching(i)'
  <1>1. i \in ReviewItems /\ now \in Nat /\ now' \in Nat /\ since[i] \in Nat
    BY BacklogConstants, BacklogTypedNext DEF BacklogTyped
  <1>2. since'[i] = since[i] /\ now' >= now
    BY <1>1 DEF BacklogNext, backlogVars, Enqueue, ResolveItem, Wait, BacklogTyped
  <1>3. SlaHours[CaseOf[i].priority] \in Nat
    <2>1. CaseOf[i].priority \in {"P1", "P2", "P3"}
      BY <1>1, BacklogConstants
    <2> QED BY <2>1 DEF SlaHours
  <1> QED BY <1>1, <1>2, <1>3 DEF Breaching

LEMMA QuarantinesStand ==
    ASSUME BacklogTyped, [BacklogNext]_backlogVars
    PROVE  QuarantineNeedsWork
  <1> SUFFICES ASSUME NEW s \in DepthBySource, Quarantined(s),
                      \A i \in From(s) : i \in waiting'
               PROVE  Quarantined(s)'
    BY DEF QuarantineNeedsWork
  <1>1. BacklogTyped'
    BY BacklogTypedNext
  <1>2. Counted(s) /\ From(s) # {}
    BY DepthsAreCounts DEF AllCounted, Counted
  <1>3. Counted(s)'
    <2>1. AllCounted'
      BY <1>1, DepthsAreCounts, PTL
    <2> QED BY <2>1 DEF AllCounted
  <1>4. From(s) \subseteq From(s)'
    BY DEF From
  <1>5. Late(s) \subseteq Late(s)'
    BY <1>4, BreachesStay DEF Late, From
  <1>6. Depth(s) <= Depth(s)' /\ Breaches(s) <= Breaches(s)'
    BY <1>2, <1>3, <1>4, <1>5, FS_Subset DEF Counted
  <1>7. s \in DepthBySource'
    BY <1>2, <1>3, <1>4 DEF Counted
  <1>8. Depth(s) >= Budgets.quarantineDepth \/ Breaches(s) >= Budgets.breachQuarantine
    BY QuarantineIsOwn DEF OwnQuarantines, SignalFor
  <1>9. Depth(s)' >= Budgets.quarantineDepth \/ Breaches(s)' >= Budgets.breachQuarantine
    <2>1. Budgets.quarantineDepth \in Nat /\ Budgets.breachQuarantine \in Nat
      BY BacklogConstants
    <2> QED BY <1>2, <1>3, <1>6, <1>8, <2>1 DEF Counted
  <1>10. SignalFor(s)' = "QUARANTINE"
    BY <1>9 DEF SignalFor
  <1>11. OwnQuarantines'
    BY QuarantineIsOwn, PTL
  <1> QED BY <1>7, <1>10, <1>11 DEF OwnQuarantines

\* Law 15, "keeps curation debt from becoming a silent system failure"
\* (backlog.py), for any items, budgets and passing of time: what is starved is
\* named, whoever is over a budget hears of it, and a quarantine stands until
\* somebody works on the source.
THEOREM PressureIsAlwaysHeard == GovernanceSpec => PressureIsHeard
  <1>1. BacklogTyped => StarvedAreNamed /\ BudgetsAreHeard
    BY InversionIsStarvation, EveryBudgetIsHeard
  <1>2. BacklogTyped /\ [Next3]_allVars => [QuarantineNeedsWork]_backlogVars
    BY GovernanceStep, QuarantinesStand
  <1> QED BY <1>1, <1>2, SpecBacklogTyped, PTL DEF GovernanceSpec, PressureIsHeard

-----------------------------------------------------------------------------
(* The ontology's types. *)

\* The ladder has four rungs, and a walk only climbs.
LEMMA LawfulIsTyped ==
    ASSUME NEW term, Lawful(term)
    PROVE  TypeOfTerm(term)
  <1> DEFINE h == term.history
             L == Len(h)
  <1>1. h \in Seq(States) /\ h[1] = "PROPOSED" /\ L >= 1 /\ L \in Nat
        /\ \A n \in 1..L - 1 : IsLegalTransition(h[n], h[n + 1])
    BY DEF Lawful, Walk
  <1>2. L <= 4
    <2> SUFFICES ASSUME L > 4 PROVE FALSE
      BY <1>1
    <2>1. 1 \in 1..L - 1 /\ 2 \in 1..L - 1 /\ 3 \in 1..L - 1 /\ 4 \in 1..L - 1
      BY <1>1
    <2> HIDE DEF h, L
    <2>2. /\ IsLegalTransition(h[1], h[1 + 1]) /\ IsLegalTransition(h[2], h[2 + 1])
          /\ IsLegalTransition(h[3], h[3 + 1]) /\ IsLegalTransition(h[4], h[4 + 1])
      BY <1>1, <2>1
    <2>3. 1 + 1 = 2 /\ 2 + 1 = 3 /\ 3 + 1 = 4
      OBVIOUS
    <2>4. h[2] \in {"APPROVED", "DEPRECATED"}
      BY <1>1, <2>2, <2>3 DEF IsLegalTransition, AllowedTransitions
    <2>5. h[3] \in {"OBSERVED", "DEPRECATED"}
      BY <2>2, <2>3, <2>4 DEF IsLegalTransition, AllowedTransitions
    <2>6. h[4] = "DEPRECATED"
      BY <2>2, <2>3, <2>5 DEF IsLegalTransition, AllowedTransitions
    <2> QED BY <2>2, <2>6 DEF IsLegalTransition, AllowedTransitions
  <1>3. h \in [1..L -> States] /\ L \in 1..4
    <2>1. h \in [1..L -> States]
      BY <1>1, LenProperties
    <2> HIDE DEF h, L
    <2> QED BY <1>1, <1>2, <2>1
  <1>4. term.state \in States
    BY DEF Lawful
  <1> HIDE DEF h, L
  <1>5. h \in Histories
    BY <1>3 DEF Histories
  <1> QED BY <1>4, <1>5 DEF TypeOfTerm, h

-----------------------------------------------------------------------------
(* The types of what the resolvers do. *)

\* Every path of the gate, and of the fold, ends in an action.
LEMMA DecisionsAreTyped ==
    ASSUME NEW case, NEW profile, NEW valid, NEW stale
    PROVE  LET d == Decide(case, profile, valid, stale)
           IN  d.action \in ErActions /\ d.link \in {"SAME_AS", "POSSIBLY_SAME_AS", "none"}
  <1> DEFINE action == Choose(case, profile, valid, stale)
  <1>1. action \in ErActions
    BY DEF Choose, RiskRoute, LinkWithin, ErActions
  <1>2. LinkKindFor(action) \in {"SAME_AS", "POSSIBLY_SAME_AS", "none"}
    BY DEF LinkKindFor
  <1> HIDE DEF action
  <1>3. Decide(case, profile, valid, stale)
            = [action |-> action, link |-> LinkKindFor(action), cites |-> {}]
    BY DEF Decide, action
  <1> QED BY <1>1, <1>2, <1>3

LEMMA FoldsAreTyped ==
    ASSUME NEW baseline, NEW a, NEW profile,
           baseline.action \in ErActions \cup {""},
           baseline.link \in {"SAME_AS", "POSSIBLY_SAME_AS", "none"}
    PROVE  LET d == Fold(baseline, {a}, profile)
           IN  /\ d.action \in ErActions \cup {""}
               /\ d.link \in {"SAME_AS", "POSSIBLY_SAME_AS", "none"}
  <1> DEFINE action == AdvisedAction(Aggregate({a}), profile)
             d == Fold(baseline, {a}, profile)
  <1>1. action \in ErActions
    BY DEF AdvisedAction, LinkWithin, ErActions
  <1>2. LinkKindFor(action) \in {"SAME_AS", "POSSIBLY_SAME_AS", "none"}
    BY DEF LinkKindFor
  <1>3. /\ baseline.action # "LLM_ASSESS" \/ a.abstained => d = baseline
        /\ baseline.action = "LLM_ASSESS" /\ ~a.abstained =>
               d = [action |-> action, link |-> LinkKindFor(action), cites |-> a.cites]
    BY FoldOfOne
  <1> HIDE DEF d, action
  <1>4. CASE d = baseline
    BY <1>4 DEF d
  <1>5. CASE d = [action |-> action, link |-> LinkKindFor(action), cites |-> a.cites]
    <2>1. d.action = action /\ d.link = LinkKindFor(action)
      BY <1>5
    <2> QED BY <1>1, <1>2, <2>1 DEF d
  <1> QED BY <1>3, <1>4, <1>5

\* What a lookup came back with makes a line of the prompt.
LEMMA LinesAreTyped ==
    ASSUME NEW content \in Contents
    PROVE  Line(content) \in Lines
  <1>1. content.state \in LookupStates
    BY AdjudicationConstants
  <1> QED BY <1>1 DEF Line, Lines, LookupStates

Blocks == UNION {[cites -> Lines] : cites \in SUBSET EvidenceIds}

LEMMA BlocksAreTyped ==
    ASSUME registry \in [EvidenceIds -> Contents], NEW cites \in SUBSET EvidenceIds, NEW holders
    PROVE  Unrendered \in Blocks /\ Enrich(Unrendered, cites, registry, holders) \in Blocks
  <1>1. Unrendered \in [{} -> Lines]
    BY DEF Unrendered
  <1>2. Unrendered \in Blocks
    BY <1>1 DEF Blocks
  <1>3. RenderEvidence(cites, registry) \in [cites -> Lines]
    BY LinesAreTyped DEF RenderEvidence
  <1>4. RenderEvidence(cites, registry) \in Blocks
    BY <1>3 DEF Blocks
  <1> QED BY <1>2, <1>4 DEF Enrich

\* A resolver's record, with what its case may cite.
WorkWithin(w) ==
    /\ TypeOfWork(w)
    /\ w.baseline.link \in {"SAME_AS", "POSSIBLY_SAME_AS", "none"}
    /\ w.case # NoCase => w.case.cites \subseteq EvidenceIds

ResolversWithin ==
    /\ registry \in [EvidenceIds -> Contents]
    /\ \A r \in Resolvers : WorkWithin(work[r])

LEMMA MissIsTyped ==
    Miss.action \in ErActions \cup {""} /\ Miss.link \in {"SAME_AS", "POSSIBLY_SAME_AS", "none"}
  BY DEF Miss

LEMMA IdleIsWithin ==
    ASSUME registry \in [EvidenceIds -> Contents],
           NEW case, case # NoCase => case.cites \subseteq EvidenceIds
    PROVE  WorkWithin(Idle(case))
  <1> DEFINE w == Idle(case)
  <1>1. /\ w.phase = "idle" /\ w.case = case /\ w.block = Unrendered
        /\ w.baseline = Miss /\ w.decision = Miss
    BY DEF Idle
  <1>2. Unrendered \in Blocks
    BY BlocksAreTyped
  <1> HIDE DEF w
  <1>3. WorkWithin(w)
    BY <1>1, <1>2, MissIsTyped DEF WorkWithin, TypeOfWork, Blocks
  <1> QED BY <1>3 DEF w

LEMMA NewWorkIsWithin ==
    ASSUME SoundAdjudication, ResolversWithin, UNCHANGED registry, NEW r \in Resolvers,
           NEW v, WorkWithin(v), work' = [work EXCEPT ![r] = v]
    PROVE  ResolversWithin'
  <1>1. ASSUME NEW q \in Resolvers PROVE WorkWithin(work'[q])
    BY DEF SoundAdjudication, ResolversWithin
  <1> QED BY <1>1 DEF ResolversWithin, WorkWithin, TypeOfWork

LEMMA PinIsWithin ==
    ASSUME SoundAdjudication, ResolversWithin, UNCHANGED registry, NEW r \in Resolvers, Pin(r)
    PROVE  ResolversWithin'
  <1> DEFINE case == work[r].case
             scope == [graph |-> View[Seed].graph, type |-> View[Seed].type]
             matched == {<<Seed, case.other>>, <<case.other, Seed>>}
             ok == ValidateAddition(scope, cluster.members, case.other, matched)
             profile == ProfileFor(View[case.other])
             w == Idle(case)
             v == [w EXCEPT !.phase = "pinned", !.profile = profile, !.valid = ok]
  <1>1. work' = [work EXCEPT ![r] = v]
    BY DEF Pin
  <1>2. WorkWithin(w)
    BY IdleIsWithin DEF ResolversWithin, WorkWithin
  <1>3. DOMAIN w = WorkFields
    BY DEF Idle, WorkFields
  <1> HIDE DEF ok, profile, w
  <1>4. /\ v.phase = "pinned" /\ v.case = w.case /\ v.block = w.block
        /\ v.baseline = w.baseline /\ v.decision = w.decision
    BY <1>3 DEF WorkFields
  <1> HIDE DEF v
  <1>5. WorkWithin(v)
    BY <1>2, <1>4 DEF WorkWithin, TypeOfWork
  <1> QED BY <1>1, <1>5, NewWorkIsWithin

LEMMA ResolveIsWithin ==
    ASSUME SoundAdjudication, ResolversWithin, NEW r \in Resolvers, Resolve(r)
    PROVE  ResolversWithin'
  <1> DEFINE w == work[r]
             stale == IsStale(w.pin)
             baseline == Decide(w.case, w.profile, w.valid, stale)
             asks == baseline.action = "LLM_ASSESS" /\ Advised
             decision == IF asks THEN Miss ELSE baseline
             block == IF asks THEN Enrich(Unrendered, w.case.cites, registry, Lookups)
                      ELSE Unrendered
             phase == IF asks THEN "asked" ELSE "decided"
             v == [w EXCEPT !.stale = stale, !.baseline = baseline, !.decision = decision,
                            !.block = block, !.phase = phase]
  <1>1. w.phase = "pinned" /\ work' = [work EXCEPT ![r] = v] /\ UNCHANGED registry
    BY DEF Resolve
  <1>2. WorkWithin(w) /\ SoundWork(w) /\ registry \in [EvidenceIds -> Contents]
    BY DEF ResolversWithin, SoundAdjudication
  <1>3. DOMAIN w = WorkFields /\ w.case # NoCase
    BY <1>1, <1>2 DEF SoundWork, Prepared
  <1>4. w.case.cites \in SUBSET EvidenceIds
    BY <1>2, <1>3 DEF WorkWithin
  <1>5. block \in Blocks
    BY <1>2, <1>4, BlocksAreTyped
  <1>6. /\ baseline.action \in ErActions
        /\ baseline.link \in {"SAME_AS", "POSSIBLY_SAME_AS", "none"}
    BY DecisionsAreTyped
  <1>7. decision = Miss \/ decision = baseline
    OBVIOUS
  <1>8. phase \in {"asked", "decided"}
    OBVIOUS
  <1> HIDE DEF stale, baseline, decision, block, phase, asks
  <1>9. /\ v.phase = phase /\ v.baseline = baseline /\ v.decision = decision /\ v.block = block
        /\ v.case = w.case
    BY <1>3 DEF WorkFields
  <1> HIDE DEF v
  <1>10. WorkWithin(v)
    BY <1>2, <1>5, <1>6, <1>7, <1>8, <1>9, MissIsTyped DEF WorkWithin, TypeOfWork, Blocks
  <1> QED BY <1>1, <1>10, NewWorkIsWithin

LEMMA AnswerIsWithin ==
    ASSUME SoundAdjudication, ResolversWithin, NEW r \in Resolvers, NEW response \in Responses,
           Answer(r, response)
    PROVE  ResolversWithin'
  <1> DEFINE w == work[r]
             decision == Fold(w.baseline, {Assess(w.case, response)}, w.profile)
             v == [w EXCEPT !.answer = response, !.decision = decision, !.phase = "decided"]
  <1>1. work' = [work EXCEPT ![r] = v] /\ UNCHANGED registry
    BY DEF Answer, Folded
  <1>2. WorkWithin(w) /\ DOMAIN w = WorkFields
    BY DEF ResolversWithin, SoundAdjudication, SoundWork
  <1>3. /\ decision.action \in ErActions \cup {""}
        /\ decision.link \in {"SAME_AS", "POSSIBLY_SAME_AS", "none"}
    BY <1>2, FoldsAreTyped DEF WorkWithin, TypeOfWork
  <1> HIDE DEF decision
  <1>4. /\ v.phase = "decided" /\ v.baseline = w.baseline /\ v.decision = decision
        /\ v.block = w.block /\ v.case = w.case
    BY <1>2 DEF WorkFields
  <1> HIDE DEF v
  <1>5. WorkWithin(v)
    BY <1>2, <1>3, <1>4 DEF WorkWithin, TypeOfWork
  <1> QED BY <1>1, <1>5, NewWorkIsWithin

LEMMA DoneIsWithin ==
    ASSUME SoundAdjudication, ResolversWithin, UNCHANGED registry, NEW r \in Resolvers,
           work' = [work EXCEPT ![r].phase = "done"]
    PROVE  ResolversWithin'
  <1> DEFINE w == work[r]
             v == [w EXCEPT !.phase = "done"]
  <1>1. work' = [work EXCEPT ![r] = v]
    OBVIOUS
  <1>2. WorkWithin(w) /\ DOMAIN w = WorkFields
    BY DEF ResolversWithin, SoundAdjudication, SoundWork
  <1>3. /\ v.phase = "done" /\ v.baseline = w.baseline /\ v.decision = w.decision
        /\ v.block = w.block /\ v.case = w.case
    BY <1>2 DEF WorkFields
  <1> HIDE DEF v
  <1>4. WorkWithin(v)
    BY <1>2, <1>3 DEF WorkWithin, TypeOfWork
  <1> QED BY <1>1, <1>4, NewWorkIsWithin

LEMMA ResolversNext ==
    ASSUME SoundAdjudication, ResolversWithin, [AdjudicationNext]_adjudicationVars
    PROVE  ResolversWithin'
  <1>1. CASE UNCHANGED adjudicationVars
    BY <1>1 DEF adjudicationVars, ResolversWithin, WorkWithin, TypeOfWork
  <1>2. ASSUME NEW r \in Resolvers, Start(r) PROVE ResolversWithin'
    BY <1>2, PinIsWithin DEF Start
  <1>3. ASSUME NEW r \in Resolvers, Resolve(r) PROVE ResolversWithin'
    BY <1>3, ResolveIsWithin
  <1>4. ASSUME NEW r \in Resolvers, NEW response \in Responses, Answer(r, response)
        PROVE  ResolversWithin'
    BY <1>4, AnswerIsWithin
  <1>5. ASSUME NEW r \in Resolvers, Commit(r) PROVE ResolversWithin'
    BY <1>5, DoneIsWithin DEF Commit
  <1>6. ASSUME NEW r \in Resolvers, Recompute(r) PROVE ResolversWithin'
    BY <1>6, PinIsWithin DEF Recompute
  <1>7. ASSUME NEW r \in Resolvers, Leave(r) PROVE ResolversWithin'
    BY <1>7, DoneIsWithin DEF Leave
  <1>8. ASSUME NEW e \in EvidenceIds, NEW content \in Contents, EvidenceChanges(e, content)
        PROVE  ResolversWithin'
    BY <1>8 DEF EvidenceChanges, ResolversWithin, WorkWithin, TypeOfWork
  <1> QED
    BY <1>1, <1>2, <1>3, <1>4, <1>5, <1>6, <1>7, <1>8 DEF AdjudicationNext, Proceed

-----------------------------------------------------------------------------
(* The versions of the cluster.  A membership may be committed again, so the *)
(* entities do not bound them: the resolvers that are done do.               *)

Done == {r \in Resolvers : work[r].phase = "done"}

VersionsAreEarned == cluster.version \in 0..Cardinality(Done)

LEMMA DoneIsFinite == IsFiniteSet(Done) /\ Cardinality(Done) \in Nat
  <1>1. IsFiniteSet(Resolvers)
    BY AdjudicationConstants
  <1>2. IsFiniteSet(Done)
    BY <1>1, FS_Subset DEF Done
  <1> QED BY <1>2, FS_CardinalityType

\* A resolver that ends is one more.
LEMMA OneMoreIsDone ==
    ASSUME SoundAdjudication, NEW r \in Resolvers, work[r].phase = "decided",
           work' = [work EXCEPT ![r].phase = "done"]
    PROVE  Cardinality(Done') = Cardinality(Done) + 1
  <1> DEFINE v == [work[r] EXCEPT !.phase = "done"]
  <1>1. DOMAIN work[r] = WorkFields
    BY DEF SoundAdjudication, SoundWork
  <1>2. v.phase = "done"
    BY <1>1 DEF WorkFields
  <1>3. work' = [work EXCEPT ![r] = v]
    OBVIOUS
  <1> HIDE DEF v
  <1>4. work = [q \in Resolvers |-> work[q]]
    BY DEF SoundAdjudication
  <1>5. Done' = Done \cup {r}
    BY <1>2, <1>3, <1>4 DEF Done
  <1>6. r \notin Done
    BY DEF Done
  <1> QED BY <1>5, <1>6, DoneIsFinite, FS_AddElement

\* A step that moves one resolver between phases before the last.
LEMMA NobodyElseIsDone ==
    ASSUME SoundAdjudication, NEW r \in Resolvers, work[r].phase # "done",
           NEW v, v.phase # "done", work' = [work EXCEPT ![r] = v]
    PROVE  Done' = Done
  BY DEF SoundAdjudication, Done

LEMMA PinEndsNothing ==
    ASSUME SoundAdjudication, NEW r \in Resolvers, work[r].phase # "done", Pin(r)
    PROVE  Done' = Done
  <1> DEFINE case == work[r].case
             scope == [graph |-> View[Seed].graph, type |-> View[Seed].type]
             matched == {<<Seed, case.other>>, <<case.other, Seed>>}
             ok == ValidateAddition(scope, cluster.members, case.other, matched)
             profile == ProfileFor(View[case.other])
             v == [Idle(case) EXCEPT !.phase = "pinned", !.profile = profile, !.valid = ok]
  <1>1. work' = [work EXCEPT ![r] = v]
    BY DEF Pin
  <1> HIDE DEF ok, profile
  <1>2. v.phase = "pinned"
    BY DEF Idle
  <1> HIDE DEF v
  <1> QED BY <1>1, <1>2, NobodyElseIsDone

LEMMA ResolveEndsNothing ==
    ASSUME SoundAdjudication, NEW r \in Resolvers, Resolve(r)
    PROVE  Done' = Done
  <1> DEFINE w == work[r]
             stale == IsStale(w.pin)
             baseline == Decide(w.case, w.profile, w.valid, stale)
             asks == baseline.action = "LLM_ASSESS" /\ Advised
             decision == IF asks THEN Miss ELSE baseline
             block == IF asks THEN Enrich(Unrendered, w.case.cites, registry, Lookups)
                      ELSE Unrendered
             phase == IF asks THEN "asked" ELSE "decided"
             v == [w EXCEPT !.stale = stale, !.baseline = baseline, !.decision = decision,
                            !.block = block, !.phase = phase]
  <1>1. w.phase = "pinned" /\ work' = [work EXCEPT ![r] = v]
    BY DEF Resolve
  <1>2. DOMAIN w = WorkFields
    BY DEF SoundAdjudication, SoundWork
  <1>3. phase # "done"
    OBVIOUS
  <1> HIDE DEF stale, baseline, decision, block, phase, asks
  <1>4. v.phase = phase
    BY <1>2 DEF WorkFields
  <1> HIDE DEF v
  <1> QED BY <1>1, <1>3, <1>4, NobodyElseIsDone

LEMMA AnswerEndsNothing ==
    ASSUME SoundAdjudication, NEW r \in Resolvers, NEW response \in Responses,
           Answer(r, response)
    PROVE  Done' = Done
  <1> DEFINE w == work[r]
             decision == Fold(w.baseline, {Assess(w.case, response)}, w.profile)
             v == [w EXCEPT !.answer = response, !.decision = decision, !.phase = "decided"]
  <1>1. w.phase = "asked" /\ work' = [work EXCEPT ![r] = v]
    BY DEF Answer, Folded
  <1>2. DOMAIN w = WorkFields
    BY DEF SoundAdjudication, SoundWork
  <1> HIDE DEF decision
  <1>3. v.phase = "decided"
    BY <1>2 DEF WorkFields
  <1> HIDE DEF v
  <1> QED BY <1>1, <1>3, NobodyElseIsDone

LEMMA VersionsNext ==
    ASSUME SoundAdjudication, VersionsAreEarned, [AdjudicationNext]_adjudicationVars
    PROVE  VersionsAreEarned'
  <1>1. ASSUME cluster' = cluster, Done' = Done PROVE VersionsAreEarned'
    BY <1>1 DEF VersionsAreEarned
  <1>2. ASSUME cluster' = cluster, Cardinality(Done') = Cardinality(Done) + 1
        PROVE  VersionsAreEarned'
    BY <1>2, DoneIsFinite DEF VersionsAreEarned
  <1>3. CASE UNCHANGED <<cluster, work>>
    BY <1>1, <1>3 DEF Done
  <1>4. ASSUME NEW r \in Resolvers, Start(r) PROVE VersionsAreEarned'
    BY <1>1, <1>4, PinEndsNothing DEF Start
  <1>5. ASSUME NEW r \in Resolvers, Resolve(r) PROVE VersionsAreEarned'
    BY <1>1, <1>5, ResolveEndsNothing DEF Resolve
  <1>6. ASSUME NEW r \in Resolvers, NEW response \in Responses, Answer(r, response)
        PROVE  VersionsAreEarned'
    BY <1>1, <1>6, AnswerEndsNothing DEF Answer
  <1>7. ASSUME NEW r \in Resolvers, Commit(r) PROVE VersionsAreEarned'
    <2>1. Cardinality(Done') = Cardinality(Done) + 1
      BY <1>7, OneMoreIsDone DEF Commit
    <2>2. cluster'.version = cluster.version + 1
      BY <1>7 DEF Commit
    <2> QED BY <2>1, <2>2, DoneIsFinite DEF VersionsAreEarned
  <1>8. ASSUME NEW r \in Resolvers, Recompute(r) PROVE VersionsAreEarned'
    BY <1>1, <1>8, PinEndsNothing DEF Recompute
  <1>9. ASSUME NEW r \in Resolvers, Leave(r) PROVE VersionsAreEarned'
    BY <1>2, <1>9, OneMoreIsDone DEF Leave
  <1> QED
    BY <1>3, <1>4, <1>5, <1>6, <1>7, <1>8, <1>9
    DEF AdjudicationNext, Proceed, adjudicationVars, EvidenceChanges

-----------------------------------------------------------------------------
(* All of it together. *)

GovernanceTyped ==
    /\ SoundAdjudication
    /\ SurvivorSelected
    /\ ResolversWithin
    /\ VersionsAreEarned
    /\ LawfulCopies

LEMMA GovernanceTypedInit ==
    ASSUME Init3
    PROVE  GovernanceTyped
  <1>1. AdjudicationInit /\ OntologyInit
    BY DEF Init3
  <1>2. PICK a \in Assignments : work = [r \in Resolvers |-> Idle(a[r])]
    BY <1>1 DEF AdjudicationInit
  <1>3. ResolversWithin
    <2>1. registry \in [EvidenceIds -> Contents]
      BY <1>1 DEF AdjudicationInit
    <2>2. \A r \in Resolvers : WorkWithin(Idle(a[r]))
      BY <2>1, AdjudicationConstants, IdleIsWithin
    <2> QED BY <1>2, <2>1, <2>2 DEF ResolversWithin
  <1>4. VersionsAreEarned
    BY <1>1, DoneIsFinite DEF AdjudicationInit, VersionsAreEarned
  <1> QED
    BY <1>1, <1>3, <1>4, SoundInit, SurvivorSelectedInit, LawfulInit DEF GovernanceTyped

LEMMA GovernanceTypedNext ==
    ASSUME GovernanceTyped, [Next3]_allVars
    PROVE  GovernanceTyped'
  <1>1. [AdjudicationNext]_adjudicationVars /\ [OntologyNext]_ontologyVars
    BY GovernanceStep
  <1> QED
    BY <1>1, SoundNext, SurvivorSelectedNext, ResolversNext, VersionsNext, LawfulNext
    DEF GovernanceTyped

\* For any entities, cases, evidence, terms, curators and items every variable
\* stays within its type: a cluster never has more versions than resolvers are
\* done, nor a survivor that is not a member, and no history outgrows the ladder.
THEOREM GovernanceTypeCorrect == GovernanceSpec => []TypeOK
  <1>1. ASSUME GovernanceTyped, BacklogTyped PROVE TypeOK
    <2>1. cluster.version \in 0..Cardinality({r \in Resolvers : work[r].phase = "done"})
      BY <1>1 DEF GovernanceTyped, VersionsAreEarned, Done
    <2>2. cluster.members \subseteq Entities /\ cluster.survivor \in cluster.members
      BY <1>1, SurvivorIsBest DEF GovernanceTyped, SoundAdjudication, SoundCluster,
                                  SurvivorSelected
    <2>3. registry \in [EvidenceIds -> Contents] /\ \A r \in Resolvers : TypeOfWork(work[r])
      BY <1>1 DEF GovernanceTyped, ResolversWithin, WorkWithin
    <2>4. /\ \A t \in Terms : stored[t] # NoTerm => TypeOfTerm(stored[t])
          /\ \A c \in Curators : holding[c] # NoTerm => TypeOfTerm(holding[c])
      BY <1>1, LawfulIsTyped DEF GovernanceTyped, LawfulCopies
    <2>5. \A copy \in plans : TypeOfTerm(copy)
      BY <1>1, LawfulIsTyped DEF GovernanceTyped, LawfulCopies
    <2>6. waiting \subseteq ReviewItems /\ since \in [ReviewItems -> Hours] /\ now \in Hours
      BY <1>1 DEF BacklogTyped
    <2> QED BY <2>1, <2>2, <2>3, <2>4, <2>5, <2>6 DEF TypeOK
  <1>2. Init3 => GovernanceTyped
    BY GovernanceTypedInit
  <1>3. GovernanceTyped /\ [Next3]_allVars => GovernanceTyped'
    BY GovernanceTypedNext
  <1> QED BY <1>1, <1>2, <1>3, SpecBacklogTyped, PTL DEF GovernanceSpec

=============================================================================
