--------------------------- MODULE MCPlanExecutor ---------------------------
(***************************************************************************)
(* Instances of PlanExecutor for TLC: one entity candidate and two         *)
(* candidates whose content mints the same assertion, on that entity.      *)
(***************************************************************************)
EXTENDS PlanExecutor, TLC

CONSTANTS x1, x2, i1, a1, e1, c1, c2

TwinMints == (e1 :> i1) @@ (c1 :> a1) @@ (c2 :> a1)
OneSubject == a1 :> i1

ReferenceOps == {"CREATE_IDENTITY", "ATTACH_ASSERTION", "REVOKE_IDENTITY", "RESTORE_IDENTITY"}

\* A deployment that declares more than its adapter applies.
DeclaredOps == ReferenceOps \cup {"RETRACT_ASSERTION"}

\* An adapter that applies every type, replacing a row by its assertion id as
\* ADR-0018 requires of it.
AllOps == OperationTypes

Symmetry == Permutations(Callers)

=============================================================================
