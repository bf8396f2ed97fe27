--------------------------- MODULE MCCurationAudit ---------------------------
(***************************************************************************)
(* Instances of CurationAudit for TLC: every single candidate up to two    *)
(* flaws of admission through the pipeline, and short batches of sure      *)
(* candidates, one of them repeated, over the SQLite store.                *)
(***************************************************************************)
EXTENDS CurationAudit

CONSTANTS e1, e2, x1, s0, s1, r1, r2

Version(major, minor, patch) ==
    [strict |-> TRUE, major |-> major, minor |-> minor, patch |-> patch]
Junk == [strict |-> FALSE, major |-> 0, minor |-> 0, patch |-> 0]

TwoReleases == {Version(2, 1, 0), Version(2, 2, 0)}

Sure(id) == [id |-> id, kind |-> "entity", graph |-> "home", producer |-> TRUE,
             version |-> Version(2, 1, 0), subject |-> "none", object |-> "none",
             value |-> FALSE, identity |-> "absent", other |-> "AUTO"]

\* What can be wrong with a candidate before anybody asks what it says.
Admissions ==
    {[graph |-> g, producer |-> p, version |-> v] :
        g \in {"home", "other", "malformed"}, p \in BOOLEAN,
        v \in {Version(1, 1, 0), Version(2, 1, 9), Version(2, 2, 0), Junk}}

\* What it says, and how sure its scores are.
Contents ==
    {[kind |-> k, subject |-> s, object |-> o, value |-> v, identity |-> i, other |-> r] :
        k \in {"entity", "artifact", "event"}, s \in {"none"}, o \in {"none"},
        v \in {FALSE}, i \in {"absent", "low", "high"}, r \in Routes}
    \cup
    {[kind |-> k, subject |-> s, object |-> o, value |-> v, identity |-> i, other |-> r] :
        k \in {"relation"}, s \in {"identity", "alias"}, o \in {"identity", "alias"},
        v \in {FALSE}, i \in {"absent", "low", "high"}, r \in Routes}
    \cup
    {[kind |-> k, subject |-> s, object |-> o, value |-> v, identity |-> i, other |-> r] :
        k \in {"attribute_assertion"}, s \in {"identity", "alias"}, o \in {"none"},
        v \in BOOLEAN, i \in {"absent", "low", "high"}, r \in Routes}

Shape(a, c) ==
    [id |-> e1, kind |-> c.kind, graph |-> a.graph, producer |-> a.producer,
     version |-> a.version, subject |-> c.subject, object |-> c.object,
     value |-> c.value, identity |-> c.identity, other |-> c.other]

EveryShape == {<<Shape(a, c)>> : a \in Admissions, c \in Contents}

SureBatches == {<<Sure(e1)>>, <<Sure(e2), Sure(e1)>>, <<Sure(e1), Sure(e1)>>}

OldRecord == [id |-> s0, assertions |-> <<r1>>, operations |-> << >>]

SemanticRecords ==
    {OldRecord,
     [id |-> s1, assertions |-> <<r1, r2>>, operations |-> <<r1>>],
     [id |-> s1, assertions |-> <<r2, r2>>, operations |-> << >>]}

=============================================================================
