---------------------------- MODULE MCGovernance ----------------------------
(***************************************************************************)
(* Instances of the three governed decisions for TLC: identity links       *)
(* (Adjudication), ontology terms (OntologyLifecycle) and the pressure of  *)
(* the review queue (ReviewBacklog).  They share no state, so what each    *)
(* does is independent of the others: a behaviour is one of the three,     *)
(* picked at the start, and the other two stand still.                     *)
(***************************************************************************)
EXTENDS Adjudication, OntologyLifecycle, ReviewBacklog, TLC

CONSTANTS r1, r2, t1, c1, c2, i1, i2, i3, i4, ev1

VARIABLE part

allVars == <<cluster, registry, work, stored, holding, plans,
             waiting, since, now, part>>

-----------------------------------------------------------------------------
(* Entities: 1 is the seed; 2 and 3 each go with it and not with each      *)
(* other; 4 is a client's; 5 a projection; 6 has another DOI than the seed *)
(* and shares its ORCID, which names no paper; 7 ended before the seed     *)
(* began; 8 is the seed's source again; 9 is a sensor of another graph.    *)

Ever == [known |-> FALSE, aware |-> TRUE, at |-> 0]
Day(n) == [known |-> TRUE, aware |-> TRUE, at |-> n]
NaiveDay(n) == [known |-> TRUE, aware |-> FALSE, at |-> n]

Paper(source, doi, reliability) ==
    [graph |-> "g", type |-> "paper", source |-> source, from |-> Ever, to |-> Ever,
     reliability |-> reliability,
     ids |-> [doi |-> doi, orcid |-> {}, issn |-> {"n1"}]]

Views ==
    <<[Paper("library", {}, 5) EXCEPT !.from = Day(10), !.ids.orcid = {"o1"}],
      Paper("press", {"d2"}, 5),
      [Paper("blog", {"d3"}, 5) EXCEPT !.to = NaiveDay(2), !.ids.issn = {"n2"}],
      Paper("client", {}, 7),
      Paper("projection", {}, -1),
      [Paper("index", {"d2", "d3"}, -1) EXCEPT !.ids.orcid = {"o1"}, !.ids.issn = {"n3"}],
      [Paper("archive", {}, 5) EXCEPT !.to = Day(9)],
      Paper("library", {}, 5),
      [Paper("sensor", {}, 5) EXCEPT !.graph = "h"]>>

AnyPaper == [AnyScope EXCEPT !.type = "paper"]

RegisteredProfiles ==
    {ProjectionConsumer(3),
     ClientAuthoritative(1, [AnyScope EXCEPT !.source = "client"]),
     [DefaultProfile EXCEPT !.id = 2, !.scope = AnyPaper, !.required = 2],
     [DefaultProfile EXCEPT !.id = 4, !.scope = [AnyPaper EXCEPT !.source = "press"]],
     [DefaultProfile EXCEPT !.id = 5, !.scope = [AnyPaper EXCEPT !.source = "index"],
                            !.cost = "LOW", !.authority = "ADVISORY"]}

Case(other, risk, count, cites) ==
    [other |-> other, risk |-> risk, malformed |-> FALSE, counted |-> TRUE,
     count |-> count, cites |-> cites]

Risks == {1, 10, 50, 200, 300, 500, 950}

Others == Entities \ {Seed}

\* One resolver, every case; two that race for the cluster; or none.
EveryCase ==
    {Case(e, risk, count, {ev1}) : e \in Others, risk \in Risks, count \in {1, 2}}
    \cup {Case(e, risk, 2, {}) : e \in Others, risk \in {1, 200}}
    \cup {[Case(e, risk, 0, {ev1}) EXCEPT !.counted = FALSE] : e \in Others, risk \in {1, 200}}
    \cup {[Case(e, 1, 2, {ev1}) EXCEPT !.malformed = TRUE] : e \in Others}

AllAssignments ==
    {(r1 :> case) @@ (r2 :> NoCase) : case \in EveryCase \cup {NoCase}}
    \cup
    {(r1 :> Case(2, risk, 2, {ev1})) @@ (r2 :> Case(other, 10, 2, {ev1})) :
        risk \in {10, 200}, other \in {2, 3, 4, 5}}

Present(text) == [state |-> "PRESENT", text |-> text]

EvidenceStates ==
    {Present("v1"), Present("v2")} \cup
    {[state |-> s, text |-> "none"] : s \in {"ABSENT", "ERROR", "missing", "raises"}}

PortResponses ==
    {[kind |-> "json", says |-> s, cites |-> c] :
        s \in Recommendations \cup {"merge now"}, c \in {{}, {ev1, "invented"}}}
    \cup {[kind |-> "error", says |-> "none", cites |-> {}]}

-----------------------------------------------------------------------------
FourItems ==
    (i1 :> [priority |-> "P1", source |-> 1]) @@ (i2 :> [priority |-> "P2", source |-> 2])
        @@ (i3 :> [priority |-> "P3", source |-> 2]) @@ (i4 :> [priority |-> "P3", source |-> 3])

SmallBudgets ==
    [maxExposure |-> 2, throttleDepth |-> 2, quarantineDepth |-> 3, breachQuarantine |-> 1]

Readings == {0, 24, 25, 168, 169, 720, 721}

-----------------------------------------------------------------------------
Init3 ==
    /\ part \in {"identity", "ontology", "backlog"}
    /\ AdjudicationInit
    /\ part # "identity" =>
        /\ \A r \in Resolvers : work[r].case = NoCase
        /\ registry = [e \in EvidenceIds |-> Present("v1")]
    /\ part = "identity" => \E r \in Resolvers : work[r].case # NoCase
    /\ OntologyInit
    /\ BacklogInit

IdentityStep ==
    /\ part = "identity"
    /\ AdjudicationNext
    /\ UNCHANGED <<ontologyVars, backlogVars, part>>

OntologyStep ==
    /\ part = "ontology"
    /\ OntologyNext
    /\ UNCHANGED <<adjudicationVars, backlogVars, part>>

BacklogStep ==
    /\ part = "backlog"
    /\ BacklogNext
    /\ UNCHANGED <<adjudicationVars, ontologyVars, part>>

Next3 == IdentityStep \/ OntologyStep \/ BacklogStep

GovernanceSpec == Init3 /\ [][Next3]_allVars /\ AdjudicationFairness

Lines ==
    [marker : {"PRESENT", "ABSENT", "ERROR", "UNKNOWN"},
     text : {content.text : content \in {k \in Contents : k.state = "PRESENT"}} \cup {"none"}]

TypeOfWork(w) ==
    /\ w.phase \in {"idle", "pinned", "asked", "decided", "done"}
    /\ w.baseline.action \in ErActions \cup {""}
    /\ w.decision.action \in ErActions \cup {""}
    /\ w.decision.link \in {"SAME_AS", "POSSIBLY_SAME_AS", "none"}
    /\ w.block \in UNION {[cites -> Lines] : cites \in SUBSET EvidenceIds}

TypeOfTerm(term) == term.state \in States /\ term.history \in Histories

\* Every variable stays within its type: among them, the cluster has no more
\* versions than resolvers are done, an evidence line in a prompt has one of the
\* four markers, and no term's history is longer than the ladder.
TypeOK ==
    /\ cluster.version \in 0..Cardinality({r \in Resolvers : work[r].phase = "done"})
    /\ cluster.members \subseteq Entities /\ cluster.survivor \in cluster.members
    /\ registry \in [EvidenceIds -> Contents]
    /\ \A r \in Resolvers : TypeOfWork(work[r])
    /\ \A t \in Terms : stored[t] # NoTerm => TypeOfTerm(stored[t])
    /\ \A c \in Curators : holding[c] # NoTerm => TypeOfTerm(holding[c])
    /\ \A copy \in plans : TypeOfTerm(copy)
    /\ waiting \subseteq ReviewItems /\ since \in [ReviewItems -> Hours] /\ now \in Hours

=============================================================================
