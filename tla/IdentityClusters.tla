-------------------------- MODULE IdentityClusters --------------------------
(***************************************************************************)
(* Whether entities may be one cluster: the identity rule                  *)
(* (er/normalize.py), the features that exclude a pair (er/features.py),   *)
(* validation of a whole membership and the choice of its survivor         *)
(* (er/cluster.py).  Pure; Adjudication runs it.                           *)
(*                                                                         *)
(* An entity is its graph, type and source, the identifier values it has   *)
(* in each namespace, the bounds of its valid period and how reliable its  *)
(* source is (-1 if nobody said).  A bound is [known, aware, at]: there or *)
(* not, with or without a time zone.                                       *)
(***************************************************************************)
EXTENDS Integers, FiniteSets, FiniteSetsExt

CONSTANTS
    Entities,     \* the entities: the places of their source keys in string order
    View,         \* the normalized view of each
    Owned,        \* the entities whose identity belongs to a client
    AllowMultiple \* the sources that may name one entity twice

ASSUME EntitiesAreOrdered == Entities \subseteq Nat /\ Owned \subseteq Entities

-----------------------------------------------------------------------------
(* Identity signals.  A DOI (or VIN) is strong on whatever carries it; an  *)
(* ORCID or ISSN only on what it names, and an ISSN never contradicts.     *)

StrongNamespaces == {"doi"}

ScopedNamespaces ==
    [orcid |-> [subjects |-> {"person"}, contradicts |-> TRUE],
     issn |-> [subjects |-> {"journal"}, contradicts |-> FALSE]]

Namespaces == StrongNamespaces \cup DOMAIN ScopedNamespaces

ASSUME ViewsAreRanked ==
    \A e \in Entities :
        /\ View[e].reliability \in Int
        /\ \A namespace \in Namespaces : IsFiniteSet(View[e].ids[namespace])

Scoped(namespace) == namespace \notin StrongNamespaces

ScopeNames(scope, left, right) == left.type \in scope.subjects /\ right.type \in scope.subjects

\* What SharedStrongIdentifierRule signals of one namespace.
Signal(namespace, left, right) ==
    LET mine == left.ids[namespace]
        yours == right.ids[namespace]
        scope == ScopedNamespaces[namespace]
    IN  IF mine = {} \/ yours = {} THEN "silent"
        ELSE IF Scoped(namespace) /\ ~ScopeNames(scope, left, right) THEN "UNKNOWN"
        ELSE IF mine \cap yours # {} THEN "AGREE"
        ELSE IF Scoped(namespace) /\ ~scope.contradicts THEN "UNKNOWN"
        ELSE "CONTRADICT"

\* run_identity_rules.
Signals(left, right) ==
    {s \in [namespace : Namespaces, agreement : {"AGREE", "UNKNOWN", "CONTRADICT"}] :
        s.agreement = Signal(s.namespace, left, right)}

\* CONTRADICT dominates AGREE.
IdentifierAgreement(signals) ==
    LET seen == {s.agreement : s \in signals}
    IN  IF "CONTRADICT" \in seen THEN "CONTRADICT"
        ELSE IF "AGREE" \in seen THEN "AGREE" ELSE "UNKNOWN"

-----------------------------------------------------------------------------
(* Valid periods.                                                          *)

StrictlyBefore(x, y) == x.known /\ y.known /\ x.aware = y.aware /\ x.at < y.at

ProvablyDisjoint(a, b) == StrictlyBefore(a.to, b.from) \/ StrictlyBefore(b.to, a.from)

Dated(a) == a.from.known \/ a.to.known

TemporalCompatible(a, b) ==
    IF ~Dated(a) \/ ~Dated(b) THEN "unknown"
    ELSE IF ProvablyDisjoint(a, b) THEN "no" ELSE "yes"

\* The `mutually_exclusive` feature of a match result.
MutuallyExclusive(a, b) ==
    \/ IdentifierAgreement(Signals(a, b)) = "CONTRADICT"
    \/ TemporalCompatible(a, b) = "no"

-----------------------------------------------------------------------------
(* Validation of a membership.  `scope` is the cluster's graph and type;   *)
(* `matched` the pairs a match result was supplied for.                    *)

Pairs(members) == {pair \in members \X members : pair[1] < pair[2]}

TenantBoundary(scope, members) ==
    \A m \in members : View[m].graph = scope.graph /\ View[m].type = scope.type

TemporalConsistency(members) ==
    \A pair \in Pairs(members) : ~ProvablyDisjoint(View[pair[1]], View[pair[2]])

UniqueSource(members) ==
    \A pair \in Pairs(members) :
        View[pair[1]].source = View[pair[2]].source =>
            View[pair[1]].source \in AllowMultiple

MutuallyExclusiveAttribute(members) ==
    \A pair \in Pairs(members) :
        \A s \in Signals(View[pair[1]], View[pair[2]]) : s.agreement # "CONTRADICT"

IdentityAuthority(members) == Cardinality(members) <= 1 \/ members \cap Owned = {}

PairwiseMutualExclusion(members, matched) ==
    \A pair \in Pairs(members) \cap matched : ~MutuallyExclusive(View[pair[1]], View[pair[2]])

\* Faulty variant: only what the new member says against the seed counts, as if
\* pairwise matches made a cluster.
ValidateThePair(scope, members, matched) ==
    PairwiseMutualExclusion(members, matched)

\* ClusterValidator.validate with the five default constraints: `valid`.
Validate(scope, members, matched) ==
    /\ PairwiseMutualExclusion(members, matched)
    /\ TenantBoundary(scope, members)
    /\ TemporalConsistency(members)
    /\ UniqueSource(members)
    /\ MutuallyExclusiveAttribute(members)
    /\ IdentityAuthority(members)

WithMember(members, m) == members \cup {m}

ValidateAddition(scope, members, m, matched) ==
    Validate(scope, WithMember(members, m), matched)

PairwiseComplete(members, matched) == Pairs(members) \subseteq matched

-----------------------------------------------------------------------------
(* The survivor of an authorised merge.                                    *)

IdentifierCount(m) ==
    Cardinality(UNION {{namespace} \X View[m].ids[namespace] : namespace \in Namespaces})

\* Strictly greater in (reliability, number of identifiers).
RanksAbove(m, n) ==
    \/ View[m].reliability > View[n].reliability
    \/ /\ View[m].reliability = View[n].reliability
       /\ IdentifierCount(m) > IdentifierCount(n)

\* The loop of select_survivor over the keys in order: the best of those up to k.
Best(members) ==
    LET best[k \in Nat] ==
            IF k = 0 THEN Min(members)
            ELSE IF k \in members /\ RanksAbove(k, best[k - 1]) THEN k ELSE best[k - 1]
    IN  best

\* select_survivor, once the loop is through.
SelectSurvivor(members) == Best(members)[Max(members)]

=============================================================================
