------------------------- MODULE AdjudicationProofs -------------------------
(***************************************************************************)
(* For any entities, profiles, cases, evidence and answers, and any number *)
(* of resolvers: a link is made within the profile's authority, an adviser *)
(* that fails changes nothing, every record replays to its decision, and   *)
(* the cluster implements LinkedCluster: it grows to coherent memberships  *)
(* only, under the survivor the rule names.                                *)
(***************************************************************************)
EXTENDS Adjudication, NaturalRecursion

-----------------------------------------------------------------------------
(* The gate.                                                               *)

\* What has been let through every gate when the risk has its say.
LEMMA GatesArePassed ==
    ASSUME NEW case, NEW profile, NEW valid, NEW stale,
           Choose(case, profile, valid, stale) \in {"AUTO_LINK", "LLM_ASSESS"}
    PROVE  /\ ~case.malformed /\ ~stale /\ valid
           /\ ~TooLittleEvidence(case, profile)
           /\ Choose(case, profile, valid, stale) = "AUTO_LINK" => AutoLinkPermitted(profile)
  BY DEF Choose, LinkWithin, RiskRoute

\* Only AUTO_LINK asserts an identity.
LEMMA OnlyAutoLinkAsserts ==
    ASSUME NEW action, LinkKindFor(action) = "SAME_AS"
    PROVE  action = "AUTO_LINK"
  BY DEF LinkKindFor

\* The baseline asserts an identity only where every gate let it.
LEMMA BaselineWithinAuthority ==
    ASSUME NEW case, NEW profile, NEW valid, NEW stale,
           Decide(case, profile, valid, stale).action \in {"AUTO_LINK", "LLM_ASSESS"}
    PROVE  /\ ~case.malformed /\ ~stale /\ valid
           /\ ~TooLittleEvidence(case, profile)
           /\ Decide(case, profile, valid, stale).action = "AUTO_LINK"
                => AutoLinkPermitted(profile)
  <1> DEFINE action == Choose(case, profile, valid, stale)
  <1>1. Decide(case, profile, valid, stale).action = action
    BY DEF Decide
  <1> QED BY <1>1, GatesArePassed

\* The fold of one assessment: the baseline, or what the profile lets the advice be.
LEMMA FoldOfOne ==
    ASSUME NEW baseline, NEW a, NEW profile
    PROVE  LET d == Fold(baseline, {a}, profile)
               action == AdvisedAction(Aggregate({a}), profile)
           IN  /\ baseline.action # "LLM_ASSESS" \/ a.abstained => d = baseline
               /\ baseline.action = "LLM_ASSESS" /\ ~a.abstained =>
                      d = [action |-> action, link |-> LinkKindFor(action), cites |-> a.cites]
  <1>1. CASE a.abstained
    <2>1. {x \in {a} : ~x.abstained} = {}
      BY <1>1
    <2> QED BY <1>1, <2>1 DEF Fold
  <1>2. CASE ~a.abstained
    <2>1. {x \in {a} : ~x.abstained} = {a}
      BY <1>2
    <2>2. UNION {x.cites : x \in {a}} = a.cites
      OBVIOUS
    <2> QED BY <1>2, <2>1, <2>2 DEF Fold
  <1> QED BY <1>1, <1>2

\* An adviser that abstained may as well not have been asked.
LEMMA AbstentionChangesNothing ==
    ASSUME NEW baseline, NEW a, NEW profile, a.abstained
    PROVE  Fold(baseline, {a}, profile) = baseline
  BY FoldOfOne

-----------------------------------------------------------------------------
(* Validation of a membership.                                             *)

\* What two views say of each other does not depend on the order.
LEMMA SignalsAreSymmetric ==
    ASSUME NEW x, NEW y
    PROVE  /\ Signals(x, y) = Signals(y, x)
           /\ ProvablyDisjoint(x, y) <=> ProvablyDisjoint(y, x)
  <1>1. ASSUME NEW n PROVE Signal(n, x, y) = Signal(n, y, x)
    <2>1. x.ids[n] \cap y.ids[n] = y.ids[n] \cap x.ids[n]
      OBVIOUS
    <2>2. ScopeNames(ScopedNamespaces[n], x, y) <=> ScopeNames(ScopedNamespaces[n], y, x)
      BY DEF ScopeNames
    <2> QED BY <2>1, <2>2 DEF Signal
  <1>2. Signals(x, y) = Signals(y, x)
    BY <1>1 DEF Signals
  <1> QED BY <1>2 DEF ProvablyDisjoint

\* A pair that excludes itself contradicts in a namespace, or in time.
LEMMA ExclusionShows ==
    ASSUME NEW x, NEW y, MutuallyExclusive(x, y)
    PROVE  \/ \E s \in Signals(x, y) : s.agreement = "CONTRADICT"
           \/ ProvablyDisjoint(x, y)
  <1>1. IdentifierAgreement(Signals(x, y)) = "CONTRADICT"
            => \E s \in Signals(x, y) : s.agreement = "CONTRADICT"
    BY DEF IdentifierAgreement
  <1>2. TemporalCompatible(x, y) = "no" => ProvablyDisjoint(x, y)
    BY DEF TemporalCompatible
  <1> QED BY <1>1, <1>2 DEF MutuallyExclusive

\* The five constraints see every pair, in one order; so no pair of a valid
\* membership is told apart in either.
LEMMA ValidMembersAreNotApart ==
    ASSUME NEW scope, NEW members \in SUBSET Entities, NEW matched,
           Validate(scope, members, matched),
           NEW m \in members, NEW n \in members
    PROVE  ~TellsApart(m, n)
  <1> SUFFICES ASSUME TellsApart(m, n) PROVE FALSE
    OBVIOUS
  <1> DEFINE x == View[m]
             y == View[n]
  <1>1. m # n /\ m \in Nat /\ n \in Nat
    BY EntitiesAreOrdered DEF TellsApart
  <1>2. <<m, n>> \in Pairs(members) \/ <<n, m>> \in Pairs(members)
    <2>1. m < n \/ n < m
      BY <1>1
    <2> QED BY <2>1 DEF Pairs
  <1>3. x.graph = y.graph /\ x.type = y.type
    BY DEF Validate, TenantBoundary
  <1>4. x.source = y.source => x.source \in AllowMultiple
    BY <1>2 DEF Validate, UniqueSource
  <1>5. ~ProvablyDisjoint(x, y)
    BY <1>2, SignalsAreSymmetric DEF Validate, TemporalConsistency
  <1>6. \A s \in Signals(x, y) : s.agreement # "CONTRADICT"
    BY <1>2, SignalsAreSymmetric DEF Validate, MutuallyExclusiveAttribute
  <1>7. ~MutuallyExclusive(x, y)
    BY <1>5, <1>6, ExclusionShows
  <1> QED BY <1>3, <1>4, <1>7 DEF TellsApart

\* A valid membership is coherent.
LEMMA ValidIsCoherent ==
    ASSUME NEW scope, NEW members \in SUBSET Entities, NEW matched,
           IsFiniteSet(members), Validate(scope, members, matched)
    PROVE  Link!Coherent(members)
  <1>1. ASSUME NEW a \in members, NEW b \in members PROVE {a, b} \notin KnownApart
    <2> SUFFICES ASSUME {a, b} \in KnownApart PROVE FALSE
      OBVIOUS
    <2>1. PICK p \in Entities \X Entities : {a, b} = {p[1], p[2]} /\ TellsApart(p[1], p[2])
      BY DEF KnownApart
    <2>2. p[1] \in members /\ p[2] \in members
      BY <2>1
    <2> QED BY <2>1, <2>2, ValidMembersAreNotApart
  <1>2. ASSUME NEW a \in members, NEW b \in members, a # b PROVE a \notin Owned
    <2>1. Cardinality({a, b}) = 2
      <3>1. IsFiniteSet({a}) /\ Cardinality({a}) = 1
        BY FS_Singleton
      <3>2. Cardinality({a} \cup {b}) = 1 + 1
        BY <1>2, <3>1, FS_AddElement
      <3>3. {a, b} = {a} \cup {b}
        OBVIOUS
      <3> QED BY <3>2, <3>3
    <2>2. Cardinality({a, b}) <= Cardinality(members) /\ Cardinality(members) \in Nat
      BY FS_Subset, FS_CardinalityType
    <2>3. ~ Cardinality(members) <= 1
      BY <2>1, <2>2
    <2> QED BY <2>3 DEF Validate, IdentityAuthority
  <1> QED BY <1>1, <1>2 DEF Link!Coherent

-----------------------------------------------------------------------------
(* The inductive invariant.                                                *)

Phases == {"idle", "pinned", "asked", "decided", "done"}

WorkFields ==
    {"phase", "case", "profile", "pin", "valid", "stale", "baseline", "block", "answer",
     "decision"}

\* What a resolver pinned: the cluster at an earlier version or the one it is.
PinnedWell(w) ==
    /\ w.pin.version \in Nat
    /\ w.pin.version <= cluster.version
    /\ w.pin.version = cluster.version => w.pin.members = cluster.members

\* The profile is the one that governs, and what was validated is coherent.
Prepared(w) ==
    /\ w.case # NoCase
    /\ w.profile = ProfileFor(View[w.case.other])
    /\ w.valid => Link!Coherent(WithMember(w.pin.members, w.case.other))

\* The evidence a question was asked with is not rendered again.
BlockStands(w) == w.block # Unrendered \/ Lookups = {} \/ w.case.cites = {}

\* The decision is the baseline, or the baseline with the advice folded in.
Judged(w) ==
    /\ w.baseline = Decide(w.case, w.profile, w.valid, w.stale)
    /\ Consulted(w) => /\ w.baseline.action = "LLM_ASSESS"
                       /\ w.decision = Fold(w.baseline, {Assess(w.case, w.answer)}, w.profile)
                       /\ BlockStands(w)
    /\ ~Consulted(w) => w.decision = w.baseline

Asked(w) ==
    /\ w.baseline = Decide(w.case, w.profile, w.valid, w.stale)
    /\ w.baseline.action = "LLM_ASSESS"
    /\ BlockStands(w)

SoundWork(w) ==
    /\ DOMAIN w = WorkFields
    /\ w.phase \in Phases
    /\ w.case # NoCase => w.case.other \in Entities
    /\ PinnedWell(w)
    /\ w.phase # "idle" => Prepared(w)
    /\ w.phase \in {"idle", "pinned", "asked"} => w.answer = Nobody
    /\ w.phase = "asked" => Asked(w)
    /\ w.phase \in {"decided", "done"} => Judged(w)

SoundCluster ==
    /\ cluster.version \in Nat
    /\ cluster.members \in SUBSET Entities
    /\ IsFiniteSet(cluster.members)
    /\ \A m \in cluster.members \ {Seed} : AutoLinkPermitted(ProfileFor(View[m]))

SoundAdjudication ==
    /\ work = [r \in Resolvers |-> work[r]]
    /\ SoundCluster
    /\ \A r \in Resolvers : SoundWork(work[r])

\* A resolver with a case it has not begun.
LEMMA IdleIsSound ==
    ASSUME SoundCluster, NEW case, case # NoCase => case.other \in Entities
    PROVE  SoundWork(Idle(case))
  <1> DEFINE w == Idle(case)
  <1>1. DOMAIN w = WorkFields /\ w.phase = "idle" /\ w.case = case /\ w.pin = cluster
        /\ w.answer = Nobody
    BY DEF Idle, WorkFields
  <1>2. PinnedWell(w)
    BY <1>1 DEF PinnedWell, SoundCluster
  <1> HIDE DEF w
  <1>3. SoundWork(w)
    BY <1>1, <1>2 DEF SoundWork, Phases
  <1> QED BY <1>3 DEF w

LEMMA SoundInit ==
    ASSUME AdjudicationInit
    PROVE  SoundAdjudication
  <1>1. cluster.version = 0 /\ cluster.members = {Seed}
    BY DEF AdjudicationInit
  <1>2. SoundCluster
    <2>1. Seed \in Entities
      BY AdjudicationConstants
    <2>2. cluster.members \in SUBSET Entities /\ cluster.members \ {Seed} = {}
      BY <1>1, <2>1
    <2>3. IsFiniteSet(cluster.members)
      BY <1>1, FS_Singleton
    <2> QED BY <1>1, <2>2, <2>3 DEF SoundCluster
  <1>3. PICK a \in Assignments : work = [r \in Resolvers |-> Idle(a[r])]
    BY DEF AdjudicationInit
  <1>4. \A r \in Resolvers : SoundWork(Idle(a[r]))
    BY <1>2, IdleIsSound, AdjudicationConstants
  <1> QED BY <1>2, <1>3, <1>4 DEF SoundAdjudication

\* A step of one resolver that leaves the cluster alone.
LEMMA NewWork ==
    ASSUME SoundAdjudication, cluster' = cluster, NEW r \in Resolvers, NEW v, SoundWork(v),
           work' = [work EXCEPT ![r] = v]
    PROVE  SoundAdjudication'
  <1>1. SoundCluster'
    BY DEF SoundAdjudication, SoundCluster
  <1>2. work' = [q \in Resolvers |-> work'[q]]
    BY DEF SoundAdjudication
  <1>3. ASSUME NEW q \in Resolvers PROVE SoundWork(work[q])'
    <2>1. SoundWork(work'[q])
      BY DEF SoundAdjudication
    <2> QED BY <2>1 DEF SoundWork, PinnedWell, Prepared, Judged, Asked, BlockStands, Consulted
  <1> QED BY <1>1, <1>2, <1>3 DEF SoundAdjudication

\* What is pinned is prepared.
LEMMA PinIsSound ==
    ASSUME SoundAdjudication, NEW r \in Resolvers, work[r].case # NoCase, Pin(r),
           cluster' = cluster
    PROVE  SoundAdjudication'
  <1> DEFINE case == work[r].case
             scope == [graph |-> View[Seed].graph, type |-> View[Seed].type]
             matched == {<<Seed, case.other>>, <<case.other, Seed>>}
             members == WithMember(cluster.members, case.other)
             ok == ValidateAddition(scope, cluster.members, case.other, matched)
             profile == ProfileFor(View[case.other])
             v == [Idle(case) EXCEPT !.phase = "pinned", !.profile = profile, !.valid = ok]
  <1>1. case.other \in Entities
    BY DEF SoundAdjudication, SoundWork
  <1>2. work' = [work EXCEPT ![r] = v]
    BY DEF Pin
  <1>3. ok => Link!Coherent(members)
    <2>1. members \in SUBSET Entities /\ IsFiniteSet(members)
      BY <1>1, FS_AddElement DEF WithMember, SoundAdjudication, SoundCluster
    <2>2. ok => Validate(scope, members, matched)
      BY DEF ValidateAddition
    <2> HIDE DEF ok, members, scope, matched
    <2> QED BY <2>1, <2>2, ValidIsCoherent
  <1> HIDE DEF ok, profile
  <1>4. DOMAIN v = WorkFields /\ v.phase = "pinned" /\ v.case = case /\ v.pin = cluster
        /\ v.answer = Nobody /\ v.profile = profile /\ v.valid = ok
    BY DEF Idle, WorkFields
  <1> HIDE DEF v
  <1>5. PinnedWell(v)
    BY <1>4 DEF PinnedWell, SoundAdjudication, SoundCluster
  <1>6. Prepared(v)
    BY <1>3, <1>4 DEF Prepared, profile
  <1>7. SoundWork(v)
    BY <1>1, <1>4, <1>5, <1>6 DEF SoundWork, Phases
  <1> QED BY <1>2, <1>7, NewWork

\* The baseline is decided on what was pinned, and a question keeps its block.
LEMMA ResolveIsSound ==
    ASSUME SoundAdjudication, NEW r \in Resolvers, Resolve(r)
    PROVE  SoundAdjudication'
  <1> DEFINE w == work[r]
             stale == IsStale(w.pin)
             baseline == Decide(w.case, w.profile, w.valid, stale)
             asks == baseline.action = "LLM_ASSESS" /\ Advised
             decision == IF asks THEN Miss ELSE baseline
             block == IF asks THEN Enrich(Unrendered, w.case.cites, registry, Lookups)
                      ELSE Unrendered
             phase == IF asks THEN "asked" ELSE "decided"
             v == [w EXCEPT !.stale = stale, !.baseline = baseline, !.decision = decision,
                            !.block = block, !.phase = phase]
  <1>1. w.phase = "pinned" /\ work' = [work EXCEPT ![r] = v] /\ cluster' = cluster
    BY DEF Resolve
  <1>2. SoundWork(w)
    BY DEF SoundAdjudication
  <1>3. DOMAIN w = WorkFields /\ (w.case # NoCase => w.case.other \in Entities)
        /\ PinnedWell(w) /\ Prepared(w) /\ w.answer = Nobody
    BY <1>1, <1>2 DEF SoundWork
  <1>4. asks => block # Unrendered \/ Lookups = {} \/ w.case.cites = {}
    <2> SUFFICES ASSUME asks, Lookups # {}, w.case.cites # {} PROVE block # Unrendered
      OBVIOUS
    <2>1. block = [e \in w.case.cites |-> Line(registry[e])]
      BY DEF Enrich, RenderEvidence
    <2>2. DOMAIN block = w.case.cites
      BY <2>1
    <2> QED BY <2>2 DEF Unrendered
  <1>5. asks => baseline.action = "LLM_ASSESS"
    OBVIOUS
  <1>6. /\ asks => phase = "asked"
        /\ ~asks => phase = "decided" /\ decision = baseline
    OBVIOUS
  <1>7. baseline = Decide(w.case, w.profile, w.valid, stale)
    OBVIOUS
  <1> HIDE DEF stale, baseline, decision, block, phase, asks
  <1>8. /\ DOMAIN v = WorkFields /\ v.phase = phase /\ v.stale = stale /\ v.baseline = baseline
        /\ v.decision = decision /\ v.block = block
    BY <1>3 DEF WorkFields
  <1>9. /\ v.case = w.case /\ v.pin = w.pin /\ v.profile = w.profile /\ v.valid = w.valid
        /\ v.answer = w.answer
    BY <1>3 DEF WorkFields
  <1> HIDE DEF v
  <1>10. PinnedWell(v) /\ Prepared(v)
    BY <1>3, <1>9 DEF PinnedWell, Prepared
  <1>11. v.baseline = Decide(v.case, v.profile, v.valid, v.stale)
    BY <1>7, <1>8, <1>9
  <1>12. CASE asks
    <2>1. v.phase = "asked" /\ Asked(v)
      BY <1>4, <1>5, <1>6, <1>8, <1>9, <1>11, <1>12 DEF Asked, BlockStands
    <2>2. SoundWork(v)
      BY <1>3, <1>8, <1>9, <1>10, <2>1 DEF SoundWork, Phases
    <2> QED BY <1>1, <2>2, NewWork
  <1>13. CASE ~asks
    <2>1. ~Consulted(v)
      BY <1>3, <1>9 DEF Consulted
    <2>2. v.phase = "decided" /\ Judged(v)
      BY <1>6, <1>8, <1>11, <1>13, <2>1 DEF Judged
    <2>3. SoundWork(v)
      BY <1>3, <1>8, <1>9, <1>10, <2>2 DEF SoundWork, Phases
    <2> QED BY <1>1, <2>3, NewWork
  <1> QED BY <1>12, <1>13

\* Whatever the port says, the decision is the fold of what became of it.
LEMMA AnswerIsSound ==
    ASSUME SoundAdjudication, NEW r \in Resolvers, NEW response \in Responses,
           Answer(r, response)
    PROVE  SoundAdjudication'
  <1> DEFINE w == work[r]
             decision == Fold(w.baseline, {Assess(w.case, response)}, w.profile)
             v == [w EXCEPT !.answer = response, !.decision = decision, !.phase = "decided"]
  <1>1. w.phase = "asked" /\ work' = [work EXCEPT ![r] = v] /\ cluster' = cluster
    BY DEF Answer, Folded
  <1>2. SoundWork(w)
    BY DEF SoundAdjudication
  <1>3. DOMAIN w = WorkFields /\ (w.case # NoCase => w.case.other \in Entities)
        /\ PinnedWell(w) /\ Prepared(w) /\ Asked(w)
    BY <1>1, <1>2 DEF SoundWork
  <1>4. decision = Fold(w.baseline, {Assess(w.case, response)}, w.profile)
    OBVIOUS
  <1> HIDE DEF decision
  <1>5. DOMAIN v = WorkFields /\ v.phase = "decided" /\ v.answer = response
        /\ v.decision = decision
    BY <1>3 DEF WorkFields
  <1>6. /\ v.case = w.case /\ v.pin = w.pin /\ v.profile = w.profile /\ v.valid = w.valid
        /\ v.stale = w.stale /\ v.baseline = w.baseline /\ v.block = w.block
    BY <1>3 DEF WorkFields
  <1> HIDE DEF v
  <1>7. Consulted(v)
    BY <1>5, AnAnswerIsSomebodys DEF Consulted
  <1>8. PinnedWell(v) /\ Prepared(v)
    BY <1>3, <1>6 DEF PinnedWell, Prepared
  <1>9. Judged(v)
    BY <1>3, <1>4, <1>5, <1>6, <1>7 DEF Asked, Judged, BlockStands
  <1>10. SoundWork(v)
    BY <1>3, <1>5, <1>6, <1>8, <1>9 DEF SoundWork, Phases
  <1> QED BY <1>1, <1>10, NewWork

\* A step that ends the work of a resolver.
LEMMA DoneIsSound ==
    ASSUME NEW w, SoundWork(w), w.phase = "decided"
    PROVE  SoundWork([w EXCEPT !.phase = "done"])
  <1> DEFINE v == [w EXCEPT !.phase = "done"]
  <1>1. DOMAIN w = WorkFields /\ (w.case # NoCase => w.case.other \in Entities)
        /\ PinnedWell(w) /\ Prepared(w) /\ Judged(w)
    BY DEF SoundWork
  <1>2. DOMAIN v = WorkFields /\ v.phase = "done"
    BY <1>1 DEF WorkFields
  <1>3. /\ v.case = w.case /\ v.pin = w.pin /\ v.profile = w.profile /\ v.valid = w.valid
        /\ v.stale = w.stale /\ v.baseline = w.baseline /\ v.block = w.block
        /\ v.answer = w.answer /\ v.decision = w.decision
    BY <1>1 DEF WorkFields
  <1> HIDE DEF v
  <1>4. PinnedWell(v) /\ Prepared(v)
    BY <1>1, <1>3 DEF PinnedWell, Prepared
  <1>5. Judged(v)
    BY <1>1, <1>3 DEF Judged, BlockStands, Consulted
  <1>6. SoundWork(v)
    BY <1>1, <1>2, <1>3, <1>4, <1>5 DEF SoundWork, Phases
  <1> QED BY <1>6 DEF v

\* What a decision needs to assert an identity, baseline or advised.
LEMMA JudgedWithinAuthority ==
    ASSUME NEW w, Judged(w), Prepared(w)
    PROVE  /\ w.decision.action = "AUTO_LINK" \/ w.decision.link = "SAME_AS" =>
                /\ AutoLinkPermitted(ProfileFor(View[w.case.other]))
                /\ ~TooLittleEvidence(w.case, ProfileFor(View[w.case.other]))
                /\ w.valid /\ ~w.stale /\ ~w.case.malformed
           /\ w.decision.cites \subseteq w.case.cites
  <1> DEFINE b == Decide(w.case, w.profile, w.valid, w.stale)
             a == Assess(w.case, w.answer)
             action == AdvisedAction(Aggregate({a}), w.profile)
  <1>1. w.baseline = b /\ w.profile = ProfileFor(View[w.case.other])
    BY DEF Judged, Prepared
  <1>2. b.cites = {} /\ (b.link = "SAME_AS" => b.action = "AUTO_LINK")
    BY OnlyAutoLinkAsserts DEF Decide
  <1>3. b.action \in {"AUTO_LINK", "LLM_ASSESS"} =>
            /\ ~w.case.malformed /\ ~w.stale /\ w.valid
            /\ ~TooLittleEvidence(w.case, w.profile)
            /\ b.action = "AUTO_LINK" => AutoLinkPermitted(w.profile)
    BY BaselineWithinAuthority
  <1>4. a.cites \subseteq w.case.cites
    BY DEF Assess, Abstain
  <1>5. \/ w.decision = b
        \/ /\ b.action = "LLM_ASSESS"
           /\ w.decision = [action |-> action, link |-> LinkKindFor(action), cites |-> a.cites]
    BY <1>1, FoldOfOne DEF Judged
  <1>6. action = "AUTO_LINK" => AutoLinkPermitted(w.profile)
    BY DEF AdvisedAction, LinkWithin
  <1>7. LinkKindFor(action) = "SAME_AS" => action = "AUTO_LINK"
    BY OnlyAutoLinkAsserts
  <1> HIDE DEF b, a, action
  <1>8. CASE w.decision = b
    BY <1>1, <1>2, <1>3, <1>8
  <1>9. CASE b.action = "LLM_ASSESS"
             /\ w.decision = [action |-> action, link |-> LinkKindFor(action), cites |-> a.cites]
    BY <1>1, <1>3, <1>4, <1>6, <1>7, <1>9
  <1> QED BY <1>5, <1>8, <1>9

\* A link is made on the cluster it was decided for, within the profile.
LEMMA CommitIsSound ==
    ASSUME SoundAdjudication, NEW r \in Resolvers, Commit(r)
    PROVE  /\ SoundAdjudication'
           /\ cluster.members' = WithMember(cluster.members, work[r].case.other)
           /\ work[r].case.other \in Entities
           /\ Link!Coherent(cluster.members')
  <1> DEFINE w == work[r]
             members == WithMember(cluster.members, w.case.other)
             v == [w EXCEPT !.phase = "done"]
  <1>1. /\ w.phase = "decided" /\ w.decision.action = "AUTO_LINK"
        /\ w.pin.version = cluster.version
        /\ cluster' = [version |-> cluster.version + 1, members |-> members,
                       survivor |-> SelectSurvivor(members)]
        /\ work' = [work EXCEPT ![r] = v]
    BY DEF Commit, IsStale
  <1>2. cluster'.version = cluster.version + 1 /\ cluster'.members = members
    BY <1>1
  <1>3. SoundWork(w) /\ SoundCluster
    BY DEF SoundAdjudication
  <1>4. Judged(w) /\ Prepared(w) /\ PinnedWell(w) /\ w.case.other \in Entities
    BY <1>1, <1>3 DEF SoundWork, Prepared
  <1>5. AutoLinkPermitted(ProfileFor(View[w.case.other])) /\ w.valid
    BY <1>1, <1>4, JudgedWithinAuthority
  <1>6. Link!Coherent(members)
    BY <1>1, <1>4, <1>5 DEF Prepared, PinnedWell
  <1>7. members \in SUBSET Entities /\ IsFiniteSet(members)
    BY <1>3, <1>4, FS_AddElement DEF WithMember, SoundCluster
  <1>8. \A m \in members \ {Seed} : AutoLinkPermitted(ProfileFor(View[m]))
    BY <1>3, <1>5 DEF WithMember, SoundCluster
  <1>9. cluster'.version \in Nat
    BY <1>2, <1>3 DEF SoundCluster
  <1> HIDE DEF members
  <1>10. SoundCluster'
    BY <1>2, <1>7, <1>8, <1>9 DEF SoundCluster
  <1>11. SoundWork(v)
    BY <1>1, <1>3, DoneIsSound
  <1> HIDE DEF v
  <1>12. ASSUME NEW q \in Resolvers PROVE SoundWork(work[q])'
    <2> DEFINE u == work'[q]
    <2>1. SoundWork(u)
      BY <1>1, <1>11 DEF SoundAdjudication
    <2>2. u.pin.version \in Nat /\ u.pin.version <= cluster.version
      BY <2>1 DEF SoundWork, PinnedWell
    <2>3. cluster.version \in Nat
      BY <1>3 DEF SoundCluster
    <2>4. u.pin.version <= cluster'.version /\ u.pin.version # cluster'.version
      BY <1>2, <2>2, <2>3
    <2>5. PinnedWell(work[q])'
      BY <2>2, <2>4 DEF PinnedWell
    <2> QED BY <2>1, <2>5 DEF SoundWork, Prepared, Judged, Asked, BlockStands, Consulted
  <1>13. work' = [q \in Resolvers |-> work'[q]]
    BY <1>1 DEF SoundAdjudication
  <1>14. SoundAdjudication'
    BY <1>10, <1>12, <1>13 DEF SoundAdjudication
  <1> QED BY <1>2, <1>4, <1>6, <1>14 DEF members

\* No step of anyone breaks the invariant.
LEMMA SoundNext ==
    ASSUME SoundAdjudication, [AdjudicationNext]_adjudicationVars
    PROVE  SoundAdjudication'
  <1>1. CASE UNCHANGED adjudicationVars
    BY <1>1 DEF adjudicationVars, SoundAdjudication, SoundCluster, SoundWork, PinnedWell,
                Prepared, Judged, Asked, BlockStands, Consulted
  <1>2. ASSUME NEW r \in Resolvers, Start(r) PROVE SoundAdjudication'
    BY <1>2, PinIsSound DEF Start
  <1>3. ASSUME NEW r \in Resolvers, Resolve(r) PROVE SoundAdjudication'
    BY <1>3, ResolveIsSound
  <1>4. ASSUME NEW r \in Resolvers, NEW response \in Responses, Answer(r, response)
        PROVE  SoundAdjudication'
    BY <1>4, AnswerIsSound
  <1>5. ASSUME NEW r \in Resolvers, Commit(r) PROVE SoundAdjudication'
    BY <1>5, CommitIsSound
  <1>6. ASSUME NEW r \in Resolvers, Recompute(r) PROVE SoundAdjudication'
    <2>1. work[r].phase = "decided" /\ Pin(r) /\ cluster' = cluster
      BY <1>6 DEF Recompute
    <2>2. work[r].case # NoCase
      BY <2>1 DEF SoundAdjudication, SoundWork, Prepared
    <2> QED BY <2>1, <2>2, PinIsSound
  <1>7. ASSUME NEW r \in Resolvers, Leave(r) PROVE SoundAdjudication'
    <2> DEFINE v == [work[r] EXCEPT !.phase = "done"]
    <2>1. SoundWork(v)
      BY <1>7, DoneIsSound DEF Leave, SoundAdjudication
    <2>2. work' = [work EXCEPT ![r] = v] /\ cluster' = cluster
      BY <1>7 DEF Leave
    <2> HIDE DEF v
    <2> QED BY <2>1, <2>2, NewWork
  <1>8. ASSUME NEW e \in EvidenceIds, NEW content \in Contents, EvidenceChanges(e, content)
        PROVE  SoundAdjudication'
    BY <1>8 DEF EvidenceChanges, SoundAdjudication, SoundCluster, SoundWork, PinnedWell,
                Prepared, Judged, Asked, BlockStands, Consulted
  <1> QED
    BY <1>1, <1>2, <1>3, <1>4, <1>5, <1>6, <1>7, <1>8 DEF AdjudicationNext, Proceed

LEMMA SpecSound == AdjudicationSpec => []SoundAdjudication
  <1>1. AdjudicationInit => SoundAdjudication
    BY SoundInit
  <1>2. SoundAdjudication /\ [AdjudicationNext]_adjudicationVars => SoundAdjudication'
    BY SoundNext
  <1> QED BY <1>1, <1>2, PTL DEF AdjudicationSpec

-----------------------------------------------------------------------------
(* What follows.                                                           *)

\* No adviser, no race and no evidence makes a link that the profile withholds.
THEOREM SpecAuthorityNeverCrossed == AdjudicationSpec => []AuthorityNeverCrossed
  <1>1. ASSUME SoundAdjudication PROVE AuthorityNeverCrossed
    <2>1. ASSUME NEW r \in Resolvers, Decided(work[r]) PROVE Judged(work[r]) /\ Prepared(work[r])
      BY <1>1, <2>1 DEF SoundAdjudication, SoundWork, Decided
    <2>2. \A m \in cluster.members \ {Seed} : AutoLinkPermitted(ProfileFor(View[m]))
      BY <1>1 DEF SoundAdjudication, SoundCluster
    <2> QED BY <2>1, <2>2, JudgedWithinAuthority DEF AuthorityNeverCrossed
  <1> QED BY <1>1, SpecSound, PTL

\* "The baseline stands on any LLM failure" (orchestrator.py).
THEOREM SpecBaselineStands == AdjudicationSpec => []BaselineStands
  <1>1. ASSUME SoundAdjudication, NEW r \in Resolvers, Decided(work[r])
        PROVE  \/ work[r].decision =
                    Decide(work[r].case, work[r].profile, work[r].valid, work[r].stale)
               \/ work[r].baseline.action = "LLM_ASSESS" /\ Usable(work[r])
    <2> DEFINE w == work[r]
               a == Assess(w.case, w.answer)
    <2>1. Judged(w)
      BY <1>1 DEF SoundAdjudication, SoundWork, Decided
    <2>2. CASE ~Consulted(w)
      BY <2>1, <2>2 DEF Judged
    <2>3. CASE Consulted(w) /\ a.abstained
      <3>1. w.decision = w.baseline
        BY <2>1, <2>3, AbstentionChangesNothing DEF Judged
      <3> QED BY <2>1, <3>1 DEF Judged
    <2>4. CASE Consulted(w) /\ ~a.abstained
      BY <2>1, <2>4 DEF Judged, Usable
    <2> QED BY <2>2, <2>3, <2>4
  <1>2. SoundAdjudication => BaselineStands
    BY <1>1 DEF BaselineStands
  <1> QED BY <1>2, SpecSound, PTL

\* A block that stands is not rendered again, whoever holds the lookup.
LEMMA BlockIsKept ==
    ASSUME NEW w, BlockStands(w), NEW contents, NEW holders \in SUBSET Lookups
    PROVE  Enrich(w.block, w.case.cites, contents, holders) = w.block
  BY DEF BlockStands, Enrich

\* Law 17: what was decided is decided again from its record.
THEOREM SpecReplayReproduces == AdjudicationSpec => []ReplayReproduces
  <1>1. ASSUME SoundAdjudication, NEW r \in Resolvers, Decided(work[r])
        PROVE  Reproduced(Record(work[r]), Fixtures(work[r]) # {}, Fixtures(work[r]))
    <2> DEFINE w == work[r]
               record == Record(w)
               a == Assess(w.case, w.answer)
               f == [request |-> Request(w.case, w.block), response |-> w.answer]
               kept == CaptureRenderedEvidence(w)
               in == [case |-> w.case, profile |-> w.profile, valid |-> w.valid,
                      stale |-> w.stale, block |-> kept]
    <2>1. Judged(w)
      BY <1>1 DEF SoundAdjudication, SoundWork, Decided
    <2>2. record.final = w.decision /\ record.inputs = in
      BY DEF Record
    <2>3. in.case = w.case /\ in.profile = w.profile /\ in.valid = w.valid
          /\ in.stale = w.stale /\ in.block = kept
      OBVIOUS
    <2>4. CASE Fixtures(w) = {}
      <3>1. w.decision = w.baseline
        <4>1. CASE ~Consulted(w)
          BY <2>1, <4>1 DEF Judged
        <4>2. CASE Consulted(w)
          <5>1. w.answer.kind = "error"
            BY <2>4, <4>2 DEF Fixtures
          <5>2. a.abstained
            BY <5>1 DEF Assess, Abstain
          <5>3. w.decision = Fold(w.baseline, {a}, w.profile)
            BY <2>1, <4>2 DEF Judged
          <5>4. Fold(w.baseline, {a}, w.profile) = w.baseline
            BY <5>2, AbstentionChangesNothing
          <5> QED BY <5>3, <5>4
        <4> QED BY <4>1, <4>2
      <3>2. Replay(record, FALSE, {}) = w.baseline
        BY <2>1, <2>2, <2>3 DEF Replay, Judged
      <3> QED BY <2>2, <2>4, <3>1, <3>2 DEF Reproduced
    <2>5. CASE Fixtures(w) # {}
      <3>1. Consulted(w) /\ Fixtures(w) = {f}
        BY <2>5 DEF Fixtures
      <3>2. kept = w.block
        BY <3>1 DEF CaptureRenderedEvidence
      <3>3. Enrich(w.block, w.case.cites, registry, Lookups \cap {"adviser"}) = w.block
        BY <2>1, <3>1, BlockIsKept DEF Judged
      <3>4. f.request = Request(w.case, w.block) /\ f.response = w.answer
        OBVIOUS
      <3> HIDE DEF f, in, record
      <3>5. {x \in {f} : x.request = Request(w.case, w.block)} = {f}
        BY <3>4
      <3>6. {Assess(w.case, x.response) : x \in {f}} = {a}
        BY <3>4
      <3>7. Decide(w.case, w.profile, w.valid, w.stale) = w.baseline
            /\ w.baseline.action = "LLM_ASSESS"
        BY <2>1, <3>1 DEF Judged
      <3>8. Replay(record, TRUE, {f}) = Fold(w.baseline, {a}, w.profile)
        BY <2>2, <2>3, <3>2, <3>3, <3>5, <3>6, <3>7 DEF Replay
      <3>9. w.decision = Fold(w.baseline, {a}, w.profile)
        BY <2>1, <3>1 DEF Judged
      <3> QED BY <2>2, <2>5, <3>1, <3>8, <3>9 DEF Reproduced, record
    <2> QED BY <2>4, <2>5
  <1>2. SoundAdjudication => ReplayReproduces
    BY <1>1 DEF ReplayReproduces
  <1> QED BY <1>2, SpecSound, PTL

-----------------------------------------------------------------------------
(* The survivor: the loop of select_survivor ends at the best member.        *)

\* The number of identifiers is one.
LEMMA CountIsNatural ==
    ASSUME NEW m \in Entities
    PROVE  IdentifierCount(m) \in Nat
  <1> DEFINE X(n) == {n} \X View[m].ids[n]
  <1>1. Namespaces = {"doi", "orcid", "issn"}
    BY DEF Namespaces, StrongNamespaces, ScopedNamespaces
  <1>2. \A n \in Namespaces : IsFiniteSet(X(n))
    BY ViewsAreRanked, FS_Singleton, FS_Product
  <1>3. {X(n) : n \in Namespaces} = {X("doi"), X("orcid"), X("issn")}
    BY <1>1
  <1>4. IsFiniteSet({X("doi"), X("orcid"), X("issn")})
    <2>1. IsFiniteSet({X("doi")})
      BY FS_Singleton
    <2>2. IsFiniteSet({X("doi")} \cup {X("orcid")})
      BY <2>1, FS_AddElement
    <2>3. IsFiniteSet(({X("doi")} \cup {X("orcid")}) \cup {X("issn")})
      BY <2>2, FS_AddElement
    <2>4. ({X("doi")} \cup {X("orcid")}) \cup {X("issn")} = {X("doi"), X("orcid"), X("issn")}
      OBVIOUS
    <2> QED BY <2>3, <2>4
  <1>5. \A T \in {X(n) : n \in Namespaces} : IsFiniteSet(T)
    BY <1>2
  <1>6. IsFiniteSet(UNION {X(n) : n \in Namespaces})
    <2> DEFINE all == {X(n) : n \in Namespaces}
    <2>1. IsFiniteSet(all) /\ \A T \in all : IsFiniteSet(T)
      BY <1>3, <1>4, <1>5
    <2> HIDE DEF all
    <2>2. IsFiniteSet(UNION all)
      BY <2>1, FS_UNION
    <2> QED BY <2>2 DEF all
  <1> QED BY <1>6, FS_CardinalityType DEF IdentifierCount

\* To rank above is a strict weak order.
LEMMA RanksAreOrdered ==
    ASSUME NEW a \in Entities, NEW b \in Entities, NEW c \in Entities
    PROVE  /\ ~(RanksAbove(a, b) /\ RanksAbove(b, a))
           /\ RanksAbove(a, b) => RanksAbove(a, c) \/ RanksAbove(c, b)
  <1>1. \A m \in {a, b, c} : View[m].reliability \in Int /\ IdentifierCount(m) \in Nat
    BY ViewsAreRanked, CountIsNatural
  <1> QED BY <1>1 DEF RanksAbove

\* The loop visits every key: what it has after key k + 1 is what it had after
\* key k, or that key.
LEMMA BestIsTheLoop ==
    ASSUME NEW members \in SUBSET Entities, members # {}
    PROVE  /\ Min(members) \in members /\ \A n \in members : Min(members) <= n
           /\ Best(members)[0] = Min(members)
           /\ \A k \in Nat :
                LET b == Best(members)[k]
                IN  Best(members)[k + 1] =
                        IF k + 1 \in members /\ RanksAbove(k + 1, b) THEN k + 1 ELSE b
  <1> DEFINE first == Min(members)
             Step(k, b) == IF k + 1 \in members /\ RanksAbove(k + 1, b) THEN k + 1 ELSE b
             step == [k \in Nat |-> [b \in members |-> Step(k, b)]]
  <1>1. first \in members /\ \A n \in members : first <= n
    BY LeastNatural, EntitiesAreOrdered DEF Min
  <1> HIDE DEF first
  <1>2. PICK f : IsIteration(f, members, first, step)
    <2>1. step \in [Nat -> [members -> members]]
      OBVIOUS
    <2> HIDE DEF step
    <2>2. first \in members
      BY <1>1
    <2> QED BY <2>1, <2>2, IteratesExist
  <1>3. f \in [Nat -> members] /\ f[0] = first /\ \A n \in Nat : f[n + 1] = Step(n, f[n])
    BY <1>2 DEF IsIteration
  <1> DEFINE Loop(best) == [k \in Nat |-> IF k = 0 THEN first
                                          ELSE IF k \in members /\ RanksAbove(k, best[k - 1])
                                               THEN k ELSE best[k - 1]]
  <1>4. f = Loop(f)
    <2>1. ASSUME NEW k \in Nat PROVE f[k] = Loop(f)[k]
      <3>1. CASE k = 0
        BY <1>3, <3>1
      <3>2. CASE k # 0
        <4>1. k - 1 \in Nat /\ (k - 1) + 1 = k
          BY <3>2
        <4>2. f[k] = IF k \in members /\ RanksAbove(k, f[k - 1]) THEN k ELSE f[k - 1]
          <5>1. f[(k - 1) + 1] = Step(k - 1, f[k - 1])
            BY <1>3, <4>1
          <5> QED BY <4>1, <5>1
        <4> HIDE DEF step
        <4> QED BY <3>2, <4>2
      <3> QED BY <3>1, <3>2
    <2>2. f = [k \in Nat |-> f[k]]
      BY <1>3
    <2>3. [k \in Nat |-> f[k]] = Loop(f)
      BY <2>1
    <2> QED BY <2>2, <2>3
  <1>5. Best(members) = Loop(Best(members))
    <2>1. Best(members) = CHOOSE best : best = Loop(best)
      BY DEF Best, first
    <2> HIDE DEF Loop
    <2> QED BY <1>4, <2>1
  <1>6. Best(members)[0] = first
    BY <1>5
  <1>7. ASSUME NEW k \in Nat PROVE Best(members)[k + 1] = Step(k, Best(members)[k])
    <2>1. k + 1 \in Nat /\ k + 1 # 0 /\ (k + 1) - 1 = k
      OBVIOUS
    <2> DEFINE g == Best(members)
    <2>2. g = Loop(g)
      BY <1>5
    <2> HIDE DEF g
    <2>3. g[k + 1] = Step(k, g[k])
      BY <2>1, <2>2
    <2> QED BY <2>3 DEF g
  <1> QED BY <1>1, <1>6, <1>7 DEF first

\* At every key the loop holds the survivor of the members up to it.
LEMMA BestSoFar ==
    ASSUME NEW members \in SUBSET Entities, members # {}
    PROVE  \A k \in Nat :
               LET b == Best(members)[k]
               IN  /\ b \in members
                   /\ b <= k \/ b = Min(members)
                   /\ \A n \in members \ {b} :
                          n <= k => RanksAbove(b, n) \/ (~RanksAbove(n, b) /\ b < n)
  <1> DEFINE f == Best(members)
             first == Min(members)
             Holds(k) == LET b == f[k]
                         IN  /\ b \in members
                             /\ b <= k \/ b = first
                             /\ \A n \in members \ {b} :
                                    n <= k => RanksAbove(b, n) \/ (~RanksAbove(n, b) /\ b < n)
             T == {k \in Nat : Holds(k)}
  <1>1. /\ first \in members /\ \A n \in members : first <= n
        /\ f[0] = first
        /\ \A k \in Nat :
             f[k + 1] = IF k + 1 \in members /\ RanksAbove(k + 1, f[k]) THEN k + 1 ELSE f[k]
    BY BestIsTheLoop
  <1>2. \A n \in members : n \in Entities /\ n \in Nat
    BY EntitiesAreOrdered
  <1> HIDE DEF f, first
  <1>3. 0 \in T
    <2>1. \A n \in members : n <= 0 => n = first
      BY <1>1, <1>2
    <2> QED BY <1>1, <2>1
  <1>4. ASSUME NEW k \in T PROVE k + 1 \in T
    <2> DEFINE b == f[k]
    <2>1. k \in Nat /\ Holds(k)
      OBVIOUS
    <2>2. b \in members /\ b \in Entities /\ b \in Nat /\ (b <= k \/ b = first)
          /\ \A n \in members \ {b} : n <= k => RanksAbove(b, n) \/ (~RanksAbove(n, b) /\ b < n)
      BY <1>2, <2>1
    <2>3. k + 1 \in Nat
      BY <2>1
    <2> HIDE DEF T, b
    <2>4. CASE k + 1 \in members /\ RanksAbove(k + 1, b)
      <3>1. f[k + 1] = k + 1
        BY <1>1, <2>1, <2>4 DEF b
      <3>2. ASSUME NEW n \in members \ {k + 1}, n <= k + 1 PROVE RanksAbove(k + 1, n)
        <4>1. n \in Entities /\ k + 1 \in Entities /\ n <= k
          BY <1>2, <2>1, <2>4, <3>2
        <4>2. CASE n = b
          BY <2>4, <4>2
        <4>3. CASE n # b
          <5>1. ~RanksAbove(n, b)
            BY <2>2, <3>2, <4>1, <4>3, RanksAreOrdered
          <5> QED BY <2>2, <2>4, <4>1, <5>1, RanksAreOrdered
        <4> QED BY <4>2, <4>3
      <3>3. Holds(k + 1)
        BY <2>3, <2>4, <3>1, <3>2
      <3> QED BY <2>3, <3>3 DEF T
    <2>5. CASE ~(k + 1 \in members /\ RanksAbove(k + 1, b))
      <3>1. f[k + 1] = b
        BY <1>1, <2>1, <2>5 DEF b
      <3>2. b <= k + 1 \/ b = first
        BY <2>1, <2>2
      <3>3. ASSUME NEW n \in members \ {b}, n <= k + 1
            PROVE  RanksAbove(b, n) \/ (~RanksAbove(n, b) /\ b < n)
        <4>1. n <= k \/ n = k + 1
          BY <1>2, <2>1, <3>3
        <4>2. CASE n = k + 1
          <5>1. ~RanksAbove(n, b)
            BY <2>5, <3>3, <4>2
          <5>2. b < n
            <6>1. first <= n /\ n \in Nat /\ n # b
              BY <1>1, <1>2, <3>3
            <6> QED BY <2>1, <2>2, <4>2, <6>1
          <5> QED BY <5>1, <5>2
        <4> QED BY <2>2, <3>3, <4>1, <4>2
      <3>4. Holds(k + 1)
        BY <2>2, <3>1, <3>2, <3>3
      <3> QED BY <2>3, <3>4 DEF T
    <2> QED BY <2>4, <2>5
  <1>5. T = Nat
    <2>1. T \in SUBSET Nat
      OBVIOUS
    <2> HIDE DEF T
    <2> QED BY <1>3, <1>4, <2>1, NaturalsByInduction
  <1>6. \A k \in Nat : Holds(k)
    BY <1>5
  <1> QED BY <1>6 DEF f, first

\* select_survivor picks a member that nobody outranks, and the smallest key of
\* those; of one member, that one.
LEMMA SurvivorIsBest ==
    ASSUME NEW members \in SUBSET Entities, members # {}, IsFiniteSet(members)
    PROVE  SelectSurvivor(members) \in {m \in members : Link!Survives(m, members)}
  <1> DEFINE last == Max(members)
             b == SelectSurvivor(members)
  <1>1. last \in members /\ \A n \in members : n <= last
    <2>1. PICK u \in members : \A n \in members : n <= u
      BY GreatestNatural, EntitiesAreOrdered
    <2>2. \A n \in members : n \in Nat
      BY EntitiesAreOrdered
    <2>3. u \in members /\ \A n \in members : u >= n
      BY <2>1, <2>2
    <2>4. last \in members /\ \A n \in members : last >= n
      BY <2>3 DEF Max
    <2> HIDE DEF last
    <2> QED BY <2>2, <2>4
  <1>2. last \in Nat /\ b = Best(members)[last]
    BY <1>1, EntitiesAreOrdered DEF SelectSurvivor
  <1> HIDE DEF last, b
  <1>3. /\ b \in members
        /\ \A n \in members \ {b} : RanksAbove(b, n) \/ (~RanksAbove(n, b) /\ b < n)
    BY <1>1, <1>2, BestSoFar
  <1>4. ASSUME NEW n \in members \ {b}
        PROVE  <<b, n>> \in BetterSurvivor \/ (<<n, b>> \notin BetterSurvivor /\ b < n)
    <2>1. <<b, n>> \in Entities \X Entities
      BY <1>3
    <2>2. RanksAbove(b, n) => <<b, n>> \in BetterSurvivor
      BY <2>1 DEF BetterSurvivor
    <2>3. <<n, b>> \in BetterSurvivor => RanksAbove(n, b)
      BY DEF BetterSurvivor
    <2> QED BY <1>3, <2>2, <2>3
  <1> QED BY <1>3, <1>4 DEF Link!Survives, b

-----------------------------------------------------------------------------
(* Refinement.                                                               *)

\* The survivor is always the one the rule names for the present membership.
SurvivorSelected ==
    /\ Seed \in cluster.members
    /\ cluster.survivor = SelectSurvivor(cluster.members)

LEMMA SurvivorSelectedInit ==
    ASSUME AdjudicationInit
    PROVE  SurvivorSelected
  <1>1. cluster.members = {Seed} /\ cluster.survivor = Seed /\ Seed \in Entities
    BY AdjudicationConstants DEF AdjudicationInit
  <1>2. SelectSurvivor({Seed}) \in {Seed}
    BY <1>1, FS_Singleton, SurvivorIsBest
  <1> QED BY <1>1, <1>2 DEF SurvivorSelected

LEMMA SurvivorSelectedNext ==
    ASSUME SurvivorSelected, [AdjudicationNext]_adjudicationVars
    PROVE  SurvivorSelected'
  <1>1. CASE cluster' = cluster
    BY <1>1 DEF SurvivorSelected
  <1>2. ASSUME NEW r \in Resolvers, Commit(r) PROVE SurvivorSelected'
    BY <1>2 DEF Commit, SurvivorSelected, WithMember
  <1> QED BY <1>1, <1>2
          DEF AdjudicationNext, adjudicationVars, Start, Proceed, Resolve, Answer,
              Recompute, Leave, EvidenceChanges

LEMMA SurvivorStaysSelected == AdjudicationSpec => []SurvivorSelected
  <1>1. AdjudicationInit => SurvivorSelected
    BY SurvivorSelectedInit
  <1>2. SurvivorSelected /\ [AdjudicationNext]_adjudicationVars => SurvivorSelected'
    BY SurvivorSelectedNext
  <1> QED BY <1>1, <1>2, PTL DEF AdjudicationSpec

\* Resolvers that race for one cluster implement LinkedCluster: every commit is
\* one entity joining a coherent membership under its survivor, and every other
\* step, a second commit of the same entity included, changes nothing of it.
THEOREM ResolversImplementLinkedCluster == AdjudicationSpec => ImplementsLinkedCluster
  <1>1. AdjudicationInit => Link!Init
    BY DEF AdjudicationInit, Link!Init
  <1>2. ASSUME SoundAdjudication, SurvivorSelected, SurvivorSelected',
               [AdjudicationNext]_adjudicationVars,
               ~UNCHANGED <<cluster.members, cluster.survivor>>
        PROVE  Link!Next
    <2>1. PICK r \in Resolvers : Commit(r)
      BY <1>2 DEF AdjudicationNext, adjudicationVars, Start, Proceed, Resolve, Answer,
                  Recompute, Leave, EvidenceChanges
    <2> DEFINE e == work[r].case.other
    <2>2. /\ cluster.members' = cluster.members \cup {e} /\ e \in Entities
          /\ Link!Coherent(cluster.members')
          /\ SoundCluster'
      BY <1>2, <2>1, CommitIsSound DEF WithMember, SoundAdjudication
    <2>3. e \notin cluster.members
      BY <1>2, <2>2 DEF SurvivorSelected
    <2>4. cluster.survivor' \in {m \in cluster.members' : Link!Survives(m, cluster.members')}
      <3>1. /\ cluster.members' \in SUBSET Entities /\ IsFiniteSet(cluster.members')
            /\ cluster.members' # {}
        BY <1>2, <2>2 DEF SoundCluster, SurvivorSelected
      <3> QED BY <1>2, <3>1, SurvivorIsBest DEF SurvivorSelected
    <2> HIDE DEF e
    <2>5. Link!Join(e)
      BY <2>2, <2>4 DEF Link!Join
    <2> QED BY <2>2, <2>3, <2>5 DEF Link!Next
  <1>3. SoundAdjudication /\ SurvivorSelected /\ SurvivorSelected'
            /\ [AdjudicationNext]_adjudicationVars
        => [Link!Next]_<<cluster.members, cluster.survivor>>
    BY <1>2
  <1> QED BY <1>1, <1>3, SpecSound, SurvivorStaysSelected, PTL
          DEF AdjudicationSpec, ImplementsLinkedCluster, Link!Spec

=============================================================================
