--------------------------- MODULE CurationPlans ---------------------------
(***************************************************************************)
(* The immutable CurationPlan and its two deterministic producers: the     *)
(* planner (planner.py) and the compensator (executor/compensate.py), with *)
(* the guards each of them attaches and what the executor checks of them.  *)
(* A plan is its own plan_id: both are derived from the same content.      *)
(***************************************************************************)
EXTENDS CurationGraph

Plans ==
    [ops : SUBSET Operations,        \* the operations
     snapshot : Nat,                 \* the snapshot_version guard
     fresh : SUBSET Identities,      \* the entity_version = 0 guards
     absent : SUBSET Assertions,     \* the assertion_absent guards
     compensation : BOOLEAN]         \* executed with is_compensation

-----------------------------------------------------------------------------
(* The planner. *)

\* The one operation an AUTO-routed candidate applies.
BuildOperation(c) ==
    [type |-> IF Mints[c] \in Identities THEN "CREATE_IDENTITY" ELSE "ATTACH_ASSERTION",
     candidate |-> c]

\* Faulty variant: a create that carries no entity_version guard.
PlanWithoutFreshGuard(cs, snapshot) ==
    [ops |-> {BuildOperation(c) : c \in cs},
     snapshot |-> snapshot,
     fresh |-> {},
     absent |-> {Mints[c] : c \in cs} \cap Assertions,
     compensation |-> FALSE]

\* One snapshot guard, then one guard per operation naming the record it mints.
PlanFor(cs, snapshot) ==
    LET ops == {BuildOperation(c) : c \in cs}
    IN  [ops |-> ops,
         snapshot |-> snapshot,
         fresh |-> {Mints[c] : c \in cs} \cap Identities,
         absent |-> {Mints[c] : c \in cs} \cap Assertions,
         compensation |-> FALSE]

\* A caller plans against the epoch it read, or leaves the default snapshot "0".
PlannerPlans(epoch) ==
    {PlanFor(cs, s) : cs \in SUBSET Candidates \ {{}}, s \in {0, epoch}}

-----------------------------------------------------------------------------
(* The compensator. *)

\* Faulty variant: a hand-kept table that undoes a create by retracting a record.
InverseAcrossKinds ==
    [type \in OperationTypes |->
        IF type = "CREATE_IDENTITY" THEN "RETRACT_ASSERTION" ELSE "REVOKE_IDENTITY"]

InverseOperation ==
    [type \in OperationTypes |->
        CASE type = "CREATE_IDENTITY" -> "REVOKE_IDENTITY"
          [] type = "REVOKE_IDENTITY" -> "RESTORE_IDENTITY"
          [] type = "RESTORE_IDENTITY" -> "REVOKE_IDENTITY"
          [] type = "ATTACH_ASSERTION" -> "RETRACT_ASSERTION"
          [] type = "RETRACT_ASSERTION" -> "ATTACH_ASSERTION"]

Invert(o) == [type |-> InverseOperation[o.type], candidate |-> o.candidate]

\* Faulty variant: CREATE_IDENTITY still listed as having no inverse (before
\* KGIS ADR-0025), and the partial rollback executed as if it were complete.
CompensateAssertionsOnly(plan, againstSnapshot) ==
    [ops |-> {Invert(o) : o \in {o \in plan.ops : o.type # "CREATE_IDENTITY"}},
     snapshot |-> againstSnapshot,
     fresh |-> {},
     absent |-> {},
     compensation |-> TRUE]

\* Every operation inverted; exactly one guard, the snapshot; the guards of the
\* source plan's records are dropped.
Compensate(plan, againstSnapshot) ==
    [ops |-> {Invert(o) : o \in plan.ops},
     snapshot |-> againstSnapshot,
     fresh |-> {},
     absent |-> {},
     compensation |-> TRUE]

-----------------------------------------------------------------------------
(* What the executor and the store check of a plan. *)

SelfConflicting(plan) ==
    \E o1, o2 \in plan.ops :
        /\ o1.type = "ATTACH_ASSERTION"
        /\ o2.type = "ATTACH_ASSERTION"
        /\ o1 # o2
        /\ Target(o1) = Target(o2)

\* Faulty variant: the snapshot guard is left to a store that ignores it.
OnlyAbsenceHolds(g, plan) == \A a \in plan.absent : g.rows[a] = << >>

\* The guards only the executor enforces, through its reader.
ReaderGuardsHold(g, plan) ==
    /\ plan.snapshot = g.epoch
    /\ \A a \in plan.absent : g.rows[a] = << >>

\* The guard the store enforces, atomically with the batch.
StoreGuardsHold(g, plan) == plan.fresh \cap g.touched = {}

\* The identities a plan creates.
Created(plan) == {Target(o) : o \in {o \in plan.ops : o.type = "CREATE_IDENTITY"}}

OpTypes(plan) == {o.type : o \in plan.ops}

=============================================================================
