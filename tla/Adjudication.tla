---------------------------- MODULE Adjudication ----------------------------
(***************************************************************************)
(* Resolvers that work on one identity cluster at the same time.  Each     *)
(* pins the cluster (er/cluster.py), validates the membership it would     *)
(* have, asks the gate (er/resolution.py), asks an adviser if the gate     *)
(* defers to one (advisers/), folds the advice, keeps a semantic audit     *)
(* record (observability/semantic_audit.py) and commits the link unless    *)
(* the cluster has moved.  The cluster itself and the evidence registry    *)
(* belong to the caller.                                                   *)
(***************************************************************************)
EXTENDS IdentityGate, IdentityClusters

CONSTANTS
    Seed,         \* the entity the cluster starts from
    Resolvers,    \* the workers
    Assignments,  \* the cases they may be given: functions from Resolvers
    NoCase,       \* nothing to do
    EvidenceIds,  \* the evidence a case may cite
    Advised,      \* TRUE: an identity adviser is configured
    Lookups,      \* who holds an evidence lookup, of "orchestrator", "adviser"
    Contents,     \* the states a piece of evidence goes through
    Responses     \* what the completion port may answer

\* EvidenceAvailability, or a lookup that finds nothing or raises.
LookupStates == {"PRESENT", "ABSENT", "ERROR", "missing", "raises"}

ASSUME AdjudicationConstants ==
    /\ Seed \in Entities
    /\ Advised \in BOOLEAN
    /\ Lookups \subseteq {"orchestrator", "adviser"}
    /\ IsFiniteSet(Resolvers)
    /\ \A a \in Assignments, r \in Resolvers :
        a[r] # NoCase => a[r].other \in Entities /\ a[r].cites \subseteq EvidenceIds
    /\ \A content \in Contents : content.state \in LookupStates

VARIABLES
    cluster,   \* the live cluster: version, members, survivor
    registry,  \* the state of each piece of evidence
    work       \* what each resolver is doing

adjudicationVars == <<cluster, registry, work>>

(* A case is the entity to add, what the matcher and the caller say of it  *)
(* and the evidence it cites:                                              *)
(*   [other, risk, malformed, counted, count, cites]                       *)

-----------------------------------------------------------------------------
(* The adviser (advisers/base.py, evidence.py).                            *)

\* Faulty variant: what the lookup came back with, as it is.
LineAsFound(content) ==
    [marker |-> content.state, text |-> content.text]

\* One prompt line per cited id: what the registry has, an ERROR marker if the
\* lookup raised, UNKNOWN if it has nothing.
Line(content) ==
    [marker |-> IF content.state = "raises" THEN "ERROR"
                ELSE IF content.state = "missing" THEN "UNKNOWN"
                ELSE content.state,
     text |-> IF content.state = "PRESENT" THEN content.text ELSE "none"]

Unrendered == << >>

RenderEvidence(cites, contents) == [e \in cites |-> Line(contents[e])]

\* The block of a question: rendered once, by the first who can.
Enrich(block, cites, contents, holders) ==
    IF block # Unrendered \/ holders = {} \/ cites = {} THEN block
    ELSE RenderEvidence(cites, contents)

\* CompletionRequest.request_hash.
Request(case, block) == [other |-> case.other, cites |-> case.cites, block |-> block]

Recommendations == {"same", "different", "insufficient_evidence"}

Abstain(case) ==
    [says |-> "insufficient_evidence", cites |-> case.cites, abstained |-> TRUE]

\* StructuredAdviser.assess: a port error or an answer outside the vocabulary is
\* an abstention, and only evidence that was supplied can be cited.
Assess(case, response) ==
    IF response.kind = "error" \/ response.says \notin Recommendations THEN Abstain(case)
    ELSE [says |-> response.says, cites |-> response.cites \cap case.cites,
          abstained |-> FALSE]

-----------------------------------------------------------------------------
(* The semantic audit record and its replay (observability/).              *)

Nobody == [kind |-> "none"]

ASSUME AnAnswerIsSomebodys == Nobody \notin Responses

Consulted(w) == w.answer # Nobody

\* Faulty variant: the block the adviser saw is not kept.
CaptureNothing(w) == Unrendered

\* _capture_rendered_evidence.
CaptureRenderedEvidence(w) == IF Consulted(w) THEN w.block ELSE Unrendered

\* SemanticAuditBuilder.build.
Record(w) ==
    [final |-> w.decision, baseline |-> w.baseline,
     inputs |-> [case |-> w.case, profile |-> w.profile, valid |-> w.valid,
                 stale |-> w.stale, block |-> CaptureRenderedEvidence(w)]]

Miss == [action |-> "", link |-> "none", cites |-> {}]

\* _replay_er: no lookup but the supplied adviser's own; the adviser answers
\* from the fixtures recorded with the decision.
Replay(record, adviser, fixtures) ==
    LET in == record.inputs
        baseline == Decide(in.case, in.profile, in.valid, in.stale)
        block == Enrich(in.block, in.case.cites, registry, Lookups \cap {"adviser"})
        found == {f \in fixtures : f.request = Request(in.case, block)}
    IN  IF baseline.action # "LLM_ASSESS" \/ ~adviser THEN baseline
        ELSE IF found = {} THEN Miss
        ELSE Fold(baseline, {Assess(in.case, f.response) : f \in found}, in.profile)

Reproduced(record, adviser, fixtures) == Replay(record, adviser, fixtures) = record.final

\* What a recording client kept of a consultation: nothing if the port failed.
Fixtures(w) ==
    IF ~Consulted(w) \/ w.answer.kind = "error" THEN {}
    ELSE {[request |-> Request(w.case, w.block), response |-> w.answer]}

-----------------------------------------------------------------------------
Idle(case) ==
    [phase |-> "idle", case |-> case, profile |-> DefaultProfile, pin |-> cluster,
     valid |-> FALSE, stale |-> FALSE, baseline |-> Miss, block |-> Unrendered, answer |-> Nobody,
     decision |-> Miss]

AdjudicationInit ==
    /\ cluster = [version |-> 0, members |-> {Seed}, survivor |-> Seed]
    /\ registry \in [EvidenceIds -> Contents]
    /\ \E a \in Assignments : work = [r \in Resolvers |-> Idle(a[r])]

\* Faulty variant: a cluster is only stale if it is another one.
IsStaleById(pin) == FALSE

\* ClusterSnapshot.is_stale against the live cluster.
IsStale(pin) == pin.version # cluster.version

\* Cluster.snapshot, ProfileRegistry.resolve and ClusterValidator.validate_addition;
\* the caller has a match result for the seed and the new member.
Pin(r) ==
    LET case == work[r].case
        scope == [graph |-> View[Seed].graph, type |-> View[Seed].type]
        matched == {<<Seed, case.other>>, <<case.other, Seed>>}
    IN  work' = [work EXCEPT ![r] =
            [Idle(case) EXCEPT !.phase = "pinned", !.profile = ProfileFor(View[case.other]),
             !.valid = ValidateAddition(scope, cluster.members, case.other, matched)]]

Start(r) ==
    /\ work[r].phase = "idle"
    /\ work[r].case # NoCase
    /\ Pin(r)
    /\ UNCHANGED <<cluster, registry>>

\* CurationOrchestrator.resolve up to the call of the port: the baseline, and a
\* question with its evidence rendered if the gate defers to the adviser.
Resolve(r) ==
    LET w == work[r]
        stale == IsStale(w.pin)
        baseline == Decide(w.case, w.profile, w.valid, stale)
        asks == baseline.action = "LLM_ASSESS" /\ Advised
    IN  /\ w.phase = "pinned"
        /\ work' = [work EXCEPT ![r] =
              [w EXCEPT !.stale = stale,
                        !.baseline = baseline,
                        !.decision = IF asks THEN Miss ELSE baseline,
                        !.block = IF asks
                                  THEN Enrich(Unrendered, w.case.cites, registry, Lookups)
                                  ELSE Unrendered,
                        !.phase = IF asks THEN "asked" ELSE "decided"]]
        /\ UNCHANGED <<cluster, registry>>

Folded(r, response) ==
    LET w == work[r]
    IN  [w EXCEPT !.answer = response,
                  !.decision = Fold(w.baseline, {Assess(w.case, response)}, w.profile),
                  !.phase = "decided"]

\* Faulty variant: an error of the port escapes the adviser, and the caller is
\* left without a decision.
AnswerUncaught(r, response) ==
    /\ work[r].phase = "asked"
    /\ work' = [work EXCEPT ![r] =
          IF response.kind = "error" THEN [@ EXCEPT !.phase = "lost"]
          ELSE Folded(r, response)]
    /\ UNCHANGED <<cluster, registry>>

\* The port answers, in its own time, or raises; the advice is folded.
Answer(r, response) ==
    /\ work[r].phase = "asked"
    /\ work' = [work EXCEPT ![r] = Folded(r, response)]
    /\ UNCHANGED <<cluster, registry>>

\* The caller commits (spec 7.1): the link is made on the cluster it was decided
\* for, and decided again if that cluster has moved.
Commit(r) ==
    LET w == work[r]
        members == WithMember(cluster.members, w.case.other)
    IN  /\ w.phase = "decided"
        /\ w.decision.action = "AUTO_LINK"
        /\ ~IsStale(w.pin)
        /\ cluster' = [version |-> cluster.version + 1, members |-> members,
                       survivor |-> SelectSurvivor(members)]
        /\ work' = [work EXCEPT ![r].phase = "done"]
        /\ UNCHANGED registry

Recompute(r) ==
    /\ work[r].phase = "decided"
    /\ work[r].decision.action = "AUTO_LINK"
    /\ IsStale(work[r].pin)
    /\ Pin(r)
    /\ UNCHANGED <<cluster, registry>>

\* Any other decision leaves the cluster as it is.
Leave(r) ==
    /\ work[r].phase = "decided"
    /\ work[r].decision.action # "AUTO_LINK"
    /\ work' = [work EXCEPT ![r].phase = "done"]
    /\ UNCHANGED <<cluster, registry>>

\* The evidence registry is written by others.
EvidenceChanges(e, content) ==
    /\ content # registry[e]
    /\ registry' = [registry EXCEPT ![e] = content]
    /\ UNCHANGED <<cluster, work>>

Proceed(r) ==
    \/ Resolve(r)
    \/ \E response \in Responses : Answer(r, response)
    \/ Commit(r) \/ Recompute(r) \/ Leave(r)

AdjudicationNext ==
    \/ \E r \in Resolvers : Start(r) \/ Proceed(r)
    \/ \E e \in EvidenceIds, content \in Contents : EvidenceChanges(e, content)

\* A resolver that began goes on; every completion port answers or raises.
AdjudicationFairness == \A r \in Resolvers : WF_adjudicationVars(Proceed(r))

AdjudicationSpec ==
    AdjudicationInit /\ [][AdjudicationNext]_adjudicationVars /\ AdjudicationFairness

-----------------------------------------------------------------------------
(* Properties. *)

Decided(w) == w.phase \in {"decided", "done"}

Usable(w) == Consulted(w) /\ ~Assess(w.case, w.answer).abstained

\* A link is made only where the profile lets ER make it, whatever an adviser
\* says: for a well-formed reference, on enough evidence, to the membership that
\* was validated and had not moved; and no decision cites what was not supplied.
AuthorityNeverCrossed ==
    /\ \A r \in Resolvers :
        LET w == work[r]
        IN  Decided(w) =>
            /\ w.decision.link = "SAME_AS" =>
                /\ AutoLinkPermitted(ProfileFor(View[w.case.other]))
                /\ ~TooLittleEvidence(w.case, ProfileFor(View[w.case.other]))
                /\ w.valid /\ ~w.stale /\ ~w.case.malformed
            /\ w.decision.cites \subseteq w.case.cites
    /\ \A m \in cluster.members \ {Seed} : AutoLinkPermitted(ProfileFor(View[m]))

\* "The baseline stands on any LLM failure" (orchestrator.py): only advice that
\* was given, and was asked for, makes a decision of something else.
BaselineStands ==
    \A r \in Resolvers :
        LET w == work[r]
        IN  Decided(w) =>
            \/ w.decision = Decide(w.case, w.profile, w.valid, w.stale)
            \/ w.baseline.action = "LLM_ASSESS" /\ Usable(w)

\* Law 17: a record replays to the decision it tells of, whatever the evidence
\* registry says by now: with the completions recorded for it, or, where there
\* are none, without the adviser.
ReplayReproduces ==
    \A r \in Resolvers :
        LET w == work[r]
        IN  Decided(w) => Reproduced(Record(w), Fixtures(w) # {}, Fixtures(w))

TellsApart(m, n) ==
    LET x == View[m]
        y == View[n]
    IN  m # n /\
        \/ x.graph # y.graph \/ x.type # y.type
        \/ x.source = y.source /\ x.source \notin AllowMultiple
        \/ MutuallyExclusive(x, y)

KnownApart ==
    {{pair[1], pair[2]} : pair \in {p \in Entities \X Entities : TellsApart(p[1], p[2])}}

BetterSurvivor == {pair \in Entities \X Entities : RanksAbove(pair[1], pair[2])}

Link == INSTANCE LinkedCluster WITH
    members <- cluster.members, survivor <- cluster.survivor, Apart <- KnownApart,
    Above <- BetterSurvivor

\* Resolvers that race for one cluster still make it grow as LinkedCluster says.
ImplementsLinkedCluster == Link!Spec

\* Every pair somebody began to resolve gets a decision and is done with.
EveryPairDecided ==
    \A r \in Resolvers : work[r].phase # "idle" ~> work[r].phase = "done"

=============================================================================
