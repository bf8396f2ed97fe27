-------------------------- MODULE CurationPipeline --------------------------
(***************************************************************************)
(* What CurationEngine.curate decides of a batch before it writes anything *)
(* (engine.py): validation.py, then policy.py, then planner.py, candidate  *)
(* by candidate in input order.  Pure; CurationAudit runs it.              *)
(*                                                                         *)
(* A candidate is the part of it these stages look at: its kind, its graph *)
(* ("home", "other" or "malformed"), whether it names a producer, its      *)
(* contract version, whether its endpoints are identities, aliases or not  *)
(* there, whether it has a value, and its scores: `other` is the route     *)
(* every score but identity_confidence allows, `identity` that one score.  *)
(***************************************************************************)
EXTENDS Integers, Sequences, SequencesExt, FiniteSets, FiniteSetsExt

CONSTANTS Home,   \* the graph the engine is bound to, or "any"
          Exact   \* TRUE: contract versions are compared literally

Kinds == {"entity", "relation", "attribute_assertion", "artifact", "event"}

ImplementedKinds == {"entity", "relation", "attribute_assertion", "artifact"}

Routes == {"AUTO", "LLM_ASSESS", "HUMAN"}

Endpoints == {"identity", "alias", "none"}

\* What the types of kg_contracts say of a candidate.
IsCandidate(c) ==
    /\ c.kind \in Kinds
    /\ c.producer \in BOOLEAN /\ c.value \in BOOLEAN
    /\ c.version.strict \in BOOLEAN /\ c.version.minor \in Int
    /\ c.subject \in Endpoints /\ c.object \in Endpoints
    /\ c.identity \in {"absent", "low", "high"}
    /\ c.other \in Routes

-----------------------------------------------------------------------------
(* Validation.  Every rule is run; each gives a failure kind or nothing.   *)

SupportedKindRule(c) ==
    IF c.kind \in ImplementedKinds THEN {} ELSE {"UNSUPPORTED_ONTOLOGY"}

GraphIdWellFormedRule(c) ==
    IF c.graph # "malformed" THEN {} ELSE {"BAD_DATA"}

ProducerPresentRule(c) == IF c.producer THEN {} ELSE {"BAD_DATA"}

GraphScopeRule(c) == IF Home \in {"any", c.graph} THEN {} ELSE {"BAD_DATA"}

\* Faulty variant: the installed minor has to be the candidate's.
SameMinor(v, installed) ==
    /\ v.strict
    /\ v.major = installed.major
    /\ v.minor = installed.minor

\* COMPATIBLE_MINOR: the patch is ignored, an older minor is accepted.
CompatibleMinor(v, installed) ==
    /\ v.strict
    /\ v.major = installed.major
    /\ v.minor <= installed.minor

ContractVersionRule(c, installed) ==
    IF IF Exact THEN c.version = installed ELSE CompatibleMinor(c.version, installed)
    THEN {} ELSE {"BAD_DATA"}

Severity == [BAD_DATA |-> 2, UNSUPPORTED_ONTOLOGY |-> 1, TRANSIENT_FAULT |-> 0]

Violations(c, installed) ==
    SupportedKindRule(c) \cup GraphIdWellFormedRule(c) \cup ProducerPresentRule(c)
        \cup GraphScopeRule(c) \cup ContractVersionRule(c, installed)

Valid(c, installed) == Violations(c, installed) = {}

FailureKind(c, installed) ==
    IF Valid(c, installed) THEN "none"
    ELSE CHOOSE k \in Violations(c, installed) :
            \A other \in Violations(c, installed) : Severity[k] >= Severity[other]

-----------------------------------------------------------------------------
(* Resolution policy.                                                      *)

RouteSeverity == [AUTO |-> 0, LLM_ASSESS |-> 1, HUMAN |-> 2]

\* Faulty variant: the floor wins over a stricter route.
EscalateToFloor(route, floor) == floor

Escalate(route, floor) ==
    IF RouteSeverity[route] >= RouteSeverity[floor] THEN route ELSE floor

SubjectRefs(c) ==
    CASE c.kind = "relation"            -> <<c.subject, c.object>>
      [] c.kind = "attribute_assertion" -> <<c.subject>>
      [] OTHER                          -> << >>

AllKnown(c) == \A n \in 1..Len(SubjectRefs(c)) : SubjectRefs(c)[n] = "identity"

\* Faulty variant: every candidate is routed as a link to an existing identity
\* (the defect of issue #43).
AlwaysResolvedExisting(c) == "RESOLVED_EXISTING"

IdentityDisposition(c) ==
    CASE c.kind = "entity"                           -> "NEW_IDENTITY"
      [] c.kind # "entity" /\ SubjectRefs(c) = << >> -> "RESOLVED_EXISTING"
      [] c.kind # "entity" /\ SubjectRefs(c) # << >> ->
            IF AllKnown(c) THEN "RESOLVED_EXISTING" ELSE "UNRESOLVED"

\* kg_contracts' ConfidencePolicy.route: an absent identity confidence is
\* excused for a new identity only, a low one never, and nothing unresolved is
\* applied by itself.
ConfidenceRoute(c, disposition) ==
    LET linkIsSure == \/ c.identity = "high"
                      \/ c.identity = "absent" /\ disposition = "NEW_IDENTITY"
    IN  IF c.other = "AUTO" /\ (disposition = "UNRESOLVED" \/ ~linkIsSure)
        THEN "LLM_ASSESS" ELSE c.other

\* The decision: the route, and whether it names an identity (which an entity
\* has minted for it when it may be applied, and not otherwise).
Resolve(c) ==
    LET route == ConfidenceRoute(c, IdentityDisposition(c))
        refs  == SubjectRefs(c)
    IN  CASE c.kind = "entity" ->
                [route |-> route, resolved |-> route = "AUTO", mints |-> route = "AUTO"]
          [] c.kind # "entity" /\ refs = << >> ->
                [route |-> route, resolved |-> FALSE, mints |-> FALSE]
          [] c.kind # "entity" /\ refs # << >> /\ ~AllKnown(c) ->
                [route |-> Escalate(route, "LLM_ASSESS"), resolved |-> FALSE, mints |-> FALSE]
          [] c.kind # "entity" /\ refs # << >> /\ AllKnown(c) ->
                [route |-> route, resolved |-> TRUE, mints |-> FALSE]

-----------------------------------------------------------------------------
(* The planner's choice of candidates, and the result.                     *)

CreatesIdentity(c, decision) ==
    c.kind = "entity" /\ decision.resolved /\ decision.mints

AttachesAttribute(c, decision) ==
    c.kind = "attribute_assertion" /\ decision.resolved /\ c.value

AttachesRelation(c, decision) ==
    c.kind = "relation" /\ decision.resolved /\ c.object = "identity"

BuildsOperation(c, decision) ==
    /\ decision.route = "AUTO"
    /\ \/ CreatesIdentity(c, decision)
       \/ AttachesAttribute(c, decision)
       \/ AttachesRelation(c, decision)

Outcome(c, installed) ==
    [candidate |-> c.id, failure |-> FailureKind(c, installed),
     route |-> IF Valid(c, installed) THEN Resolve(c).route ELSE "none"]

Outcomes(batch, installed) ==
    [n \in 1..Len(batch) |-> Outcome(batch[n], installed)]

\* plan: the candidates whose operation is in the plan, as the loop over the
\* batch appends them.
Planned(batch, installed) ==
    LET planned[n \in Nat] ==
            IF n = 0 THEN << >>
            ELSE IF Valid(batch[n], installed) /\ BuildsOperation(batch[n], Resolve(batch[n]))
                 THEN Append(planned[n - 1], batch[n])
                 ELSE planned[n - 1]
    IN  planned[Len(batch)]

=============================================================================
