---------------------------- MODULE IdentityGate ----------------------------
(***************************************************************************)
(* Who may decide that two entities are one: the profile that governs a    *)
(* scope (profiles.py), the deterministic gate (er/resolution.py) and the  *)
(* fold of an adviser's advice back into its decision                      *)
(* (advisers/orchestrator.py).  Pure; Adjudication runs it.                *)
(*                                                                         *)
(* A false-merge risk (1 - probability) is a number per mille, taken off   *)
(* the budgets themselves: in floating point 1.0 - 0.98 is just above the  *)
(* 0.02 it is compared with, while 1.0 - 0.9 is just below 0.10.           *)
(***************************************************************************)
EXTENDS Integers, FiniteSets

CONSTANT Profiles   \* the registered profiles

AuthorityModes == {"OPEN", "ADVISORY", "CLIENT_AUTHORITATIVE"}

ErModes == {"INERT", "ADVISORY", "ACTIVE"}

CostClasses == {"LOW", "STANDARD", "HIGH"}

ErActions ==
    {"AUTO_LINK", "RETAIN_SEPARATE", "GATHER_MORE_EVIDENCE", "PROPOSE_LINK",
     "LLM_ASSESS", "HUMAN_REVIEW", "ABSTAIN", "REJECT"}

-----------------------------------------------------------------------------
(* Profiles.  `id` is the place of the profile's id in their string order; *)
(* "any" in a scope is the wildcard None.                                  *)

AnyScope == [graph |-> "any", type |-> "any", source |-> "any"]

DefaultProfile ==
    [id |-> 0, scope |-> AnyScope, authority |-> "OPEN", mode |-> "ACTIVE",
     cost |-> "STANDARD", required |-> 1, allowed |-> {"AUTO_LINK", "RETAIN_SEPARATE"}]

ProjectionConsumer(id) ==
    [id |-> id, scope |-> [AnyScope EXCEPT !.source = "projection"], authority |-> "OPEN",
     mode |-> "INERT", cost |-> "LOW", required |-> 1, allowed |-> {}]

ClientAuthoritative(id, scope) ==
    [id |-> id, scope |-> scope, authority |-> "CLIENT_AUTHORITATIVE", mode |-> "ADVISORY",
     cost |-> "HIGH", required |-> 1, allowed |-> {}]

Fits(pin, value) == pin \in {"any", value}

ScopeMatches(scope, e) ==
    Fits(scope.graph, e.graph) /\ Fits(scope.type, e.type) /\ Fits(scope.source, e.source)

Specificity(scope) == Cardinality({f \in DOMAIN scope : scope[f] # "any"})

\* Later in (specificity, id): the more specific, then the larger id.
Outranks(p, q) ==
    \/ Specificity(p.scope) > Specificity(q.scope)
    \/ Specificity(p.scope) = Specificity(q.scope) /\ p.id > q.id

\* ProfileRegistry.resolve.
ProfileFor(e) ==
    LET matching == {p \in Profiles : ScopeMatches(p.scope, e)}
    IN  IF matching = {} THEN DefaultProfile
        ELSE CHOOSE p \in matching : \A q \in matching \ {p} : Outranks(p, q)

-----------------------------------------------------------------------------
(* The gate.  A case is what `decide` is called with: the risk, whether    *)
(* the reference is malformed, how much evidence was counted (if it was).  *)

AutoBudget == [LOW |-> 100, STANDARD |-> 20, HIGH |-> 2]

AssessBudget == [LOW |-> 400, STANDARD |-> 250, HIGH |-> 100]

SeparateMinRisk == 900

RiskRoute(risk, cost) ==
    IF risk <= AutoBudget[cost] THEN "AUTO_LINK"
    ELSE IF risk <= AssessBudget[cost] THEN "LLM_ASSESS"
    ELSE IF risk >= SeparateMinRisk THEN "RETAIN_SEPARATE"
    ELSE "GATHER_MORE_EVIDENCE"

AutoLinkPermitted(profile) ==
    /\ profile.authority = "OPEN"
    /\ profile.mode = "ACTIVE"
    /\ "AUTO_LINK" \in profile.allowed

\* What is left of a link that the profile does not let ER make by itself.
LinkWithin(profile) ==
    IF AutoLinkPermitted(profile) THEN "AUTO_LINK"
    ELSE IF profile.mode \in {"ADVISORY", "ACTIVE"} THEN "PROPOSE_LINK"
    ELSE "RETAIN_SEPARATE"

TooLittleEvidence(case, profile) == case.counted /\ case.count < profile.required

\* Faulty variant: a sure enough pair is linked before the cluster is looked at.
ChooseByRiskFirst(case, profile, valid, stale) ==
    IF case.malformed THEN "REJECT"
    ELSE IF profile.mode = "INERT" THEN "RETAIN_SEPARATE"
    ELSE IF stale THEN "ABSTAIN"
    ELSE IF RiskRoute(case.risk, profile.cost) = "AUTO_LINK" THEN LinkWithin(profile)
    ELSE IF ~valid THEN
        IF profile.cost = "HIGH" THEN "HUMAN_REVIEW" ELSE "RETAIN_SEPARATE"
    ELSE RiskRoute(case.risk, profile.cost)

\* ErResolutionPolicy._choose: the order of the gates is the policy.
Choose(case, profile, valid, stale) ==
    IF case.malformed THEN "REJECT"
    ELSE IF profile.mode = "INERT" THEN "RETAIN_SEPARATE"
    ELSE IF stale THEN "ABSTAIN"
    ELSE IF ~valid THEN
        IF profile.cost = "HIGH" THEN "HUMAN_REVIEW" ELSE "RETAIN_SEPARATE"
    ELSE IF TooLittleEvidence(case, profile) THEN "GATHER_MORE_EVIDENCE"
    ELSE IF RiskRoute(case.risk, profile.cost) = "AUTO_LINK" THEN LinkWithin(profile)
    ELSE RiskRoute(case.risk, profile.cost)

LinkKindFor(action) ==
    IF action = "AUTO_LINK" THEN "SAME_AS"
    ELSE IF action = "PROPOSE_LINK" THEN "POSSIBLY_SAME_AS"
    ELSE "none"

\* The decision: its action, the link it asserts, the evidence it cites.
Decide(case, profile, valid, stale) ==
    LET action == Choose(case, profile, valid, stale)
    IN  [action |-> action, link |-> LinkKindFor(action), cites |-> {}]

ToRoute(decision) ==
    IF decision.action \in {"AUTO_LINK", "RETAIN_SEPARATE"} THEN "AUTO"
    ELSE IF decision.action \in {"LLM_ASSESS", "PROPOSE_LINK", "GATHER_MORE_EVIDENCE"}
         THEN "LLM_ASSESS"
    ELSE "HUMAN"

-----------------------------------------------------------------------------
(* The fold.  An assessment is an adviser's recommendation, the evidence   *)
(* it cites and whether it abstained.                                      *)

Aggregate(usable) ==
    LET said == {a.says : a \in usable}
    IN  IF "different" \in said THEN "different"
        ELSE IF said = {"same"} THEN "same"
        ELSE "insufficient_evidence"

AdvisedAction(recommendation, profile) ==
    IF recommendation = "different" THEN "RETAIN_SEPARATE"
    ELSE IF recommendation = "same" THEN LinkWithin(profile)
    ELSE "GATHER_MORE_EVIDENCE"

\* Faulty variant: an abstention counts as advice.
FoldAbstentions(baseline, assessments, profile) ==
    IF baseline.action # "LLM_ASSESS" \/ assessments = {} THEN baseline
    ELSE LET action == AdvisedAction(Aggregate(assessments), profile)
         IN  [action |-> action, link |-> LinkKindFor(action),
              cites |-> UNION {a.cites : a \in assessments}]

\* CurationOrchestrator._fold.
Fold(baseline, assessments, profile) ==
    LET usable == {a \in assessments : ~a.abstained}
        action == AdvisedAction(Aggregate(usable), profile)
    IN  IF baseline.action # "LLM_ASSESS" \/ usable = {} THEN baseline
        ELSE [action |-> action, link |-> LinkKindFor(action),
              cites |-> UNION {a.cites : a \in usable}]

=============================================================================
