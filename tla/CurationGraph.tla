--------------------------- MODULE CurationGraph ---------------------------
(***************************************************************************)
(* The canonical graph as the executor sees it: a GraphMutationStore and   *)
(* GraphReader.  The store is not part of this repository (kg_contracts);  *)
(* it is modelled from how executor.py calls it and from the adapter that  *)
(* tests/kgcs/e2e_harness.py derives from it.  A batch is a SET of         *)
(* operations: every producer in the repository emits at most one          *)
(* operation per record, so the order inside a batch changes nothing.      *)
(***************************************************************************)
EXTENDS Naturals, Sequences, FiniteSets

CONSTANTS
    Identities,   \* identity ids a CREATE_IDENTITY can mint
    Assertions,   \* assertion (record) ids an ATTACH_ASSERTION can mint
    Candidates,   \* candidates the producers submit
    Mints,        \* the content-derived id a candidate would mint (ids.py)
    SubjectOf,    \* the identity an assertion is attached to
    AttachMode    \* "upsert": attach replaces by assertion_id (e2e_harness);
                  \* "append": attach appends a row (the reference store)

ASSUME GraphConstants ==
    /\ IsFiniteSet(Candidates)
    /\ Identities \cap Assertions = {}
    /\ Mints \in [Candidates -> Identities \cup Assertions]
    /\ SubjectOf \in [Assertions -> Identities]
    /\ AttachMode \in {"append", "upsert"}

-----------------------------------------------------------------------------
(* Operations. *)

IdentityOps == {"CREATE_IDENTITY", "REVOKE_IDENTITY", "RESTORE_IDENTITY"}
AssertionOps == {"ATTACH_ASSERTION", "RETRACT_ASSERTION"}
OperationTypes == IdentityOps \cup AssertionOps

\* An operation names the candidate it came from (its operation_id is derived
\* from it) and, through Mints, the record it touches.  Two candidates with the
\* same content mint the same record (ADR-0021).
Operations ==
    {o \in [type : OperationTypes, candidate : Candidates] :
        o.type \in IdentityOps <=> Mints[o.candidate] \in Identities}

Target(o) == Mints[o.candidate]

Subject(o) == IF o.type \in IdentityOps THEN Target(o) ELSE SubjectOf[Target(o)]

OpsOn(ops, type, target) == {o \in ops : o.type = type /\ Target(o) = target}

-----------------------------------------------------------------------------
(* The graph. *)

RowStatus == {"ACTIVE", "SUPERSEDED"}
EntityStatus == {"NONE", "ACTIVE", "REVOKED"}

\* touched is the set of subjects whose entity_version is no longer 0; rows[a]
\* lists the rows stored under assertion id a, in insertion order.
Graphs ==
    [epoch : Nat,
     touched : SUBSET Identities,
     entity : [Identities -> EntityStatus],
     rows : [Assertions -> Seq(RowStatus)]]

EmptyGraph ==
    [epoch |-> 0,
     touched |-> {},
     entity |-> [i \in Identities |-> "NONE"],
     rows |-> [a \in Assertions |-> << >>]]

\* e2e_harness _upsert_assertion, or the unconditional append it documents.
AttachRows(rows, n) ==
    IF AttachMode = "upsert"
    THEN IF rows = << >> THEN <<"ACTIVE">> ELSE [rows EXCEPT ![1] = "ACTIVE"]
    ELSE rows \o [k \in 1..n |-> "ACTIVE"]

\* mark_superseded retires the first row it finds under the id.
RetireRows(rows) ==
    IF rows = << >> THEN rows ELSE [rows EXCEPT ![1] = "SUPERSEDED"]

EntityAfter(g, ops, i) ==
    IF \E type \in {"CREATE_IDENTITY", "RESTORE_IDENTITY"} : OpsOn(ops, type, i) # {}
    THEN "ACTIVE"
    ELSE IF OpsOn(ops, "REVOKE_IDENTITY", i) # {} THEN "REVOKED" ELSE g.entity[i]

RowsAfter(g, ops, a) ==
    LET attaches == OpsOn(ops, "ATTACH_ASSERTION", a)
    IN  IF attaches # {} THEN AttachRows(g.rows[a], Cardinality(attaches))
        ELSE IF OpsOn(ops, "RETRACT_ASSERTION", a) # {} THEN RetireRows(g.rows[a])
        ELSE g.rows[a]

\* One committed batch: all of its operations, under one new epoch.
ApplyBatch(g, ops) ==
    [epoch |-> g.epoch + 1,
     touched |-> g.touched \cup {Subject(o) : o \in ops},
     entity |-> [i \in Identities |-> EntityAfter(g, ops, i)],
     rows |-> [a \in Assertions |-> RowsAfter(g, ops, a)]]

\* What a default canonical read returns: no revoked entity, no superseded row.
Visible(g) ==
    {i \in Identities : g.entity[i] = "ACTIVE"}
        \cup {a \in Assertions : \E k \in 1..Len(g.rows[a]) : g.rows[a][k] = "ACTIVE"}

=============================================================================
