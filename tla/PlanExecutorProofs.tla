------------------------- MODULE PlanExecutorProofs -------------------------
(***************************************************************************)
(* What PlanExecutor guarantees for every number of callers, every set of  *)
(* candidates and every epoch: first facts about the graph and the plans   *)
(* themselves (what a batch preserves, what each producer guarantees of    *)
(* its plans, what a compensation restores), then what survives any        *)
(* interleaving of execute calls and any fault, then what needs the calls  *)
(* to be serialised and a GraphReader to be present.                       *)
(***************************************************************************)
EXTENDS PlanExecutor, FiniteSetTheorems, TLAPS

-----------------------------------------------------------------------------
(* Types. *)

\* The kind of an operation and the record it touches agree.
LEMMA OperationTyped ==
    ASSUME NEW o \in Operations
    PROVE  /\ o.type \in OperationTypes
           /\ o.candidate \in Candidates
           /\ Target(o) \in Identities \cup Assertions
           /\ o.type \in IdentityOps => Target(o) \in Identities
           /\ o.type \notin IdentityOps => Target(o) \in Assertions
           /\ Subject(o) \in Identities
  BY GraphConstants DEF Operations, Target, Subject

\* A set of operations that touches one record has a cardinality.
LEMMA OpsOnFinite ==
    ASSUME NEW ops \in SUBSET Operations, NEW type, NEW target
    PROVE  /\ IsFiniteSet(OpsOn(ops, type, target))
           /\ Cardinality(OpsOn(ops, type, target)) \in Nat
  <1> DEFINE S == OpsOn(ops, type, target)
             tagged == [c \in Candidates |-> [type |-> type, candidate |-> c]]
             all == {tagged[c] : c \in Candidates}
  <1>1. tagged \in Surjection(Candidates, all)
    BY DEF Surjection
  <1>2. IsFiniteSet(all)
    BY <1>1, GraphConstants, FS_Surjection
  <1>3. S \subseteq all
    <2> SUFFICES ASSUME NEW o \in S PROVE o = tagged[o.candidate] /\ o.candidate \in Candidates
      OBVIOUS
    <2> QED BY DEF OpsOn, Operations
  <1> QED BY <1>2, <1>3, FS_Subset, FS_CardinalityType

\* Attaching and retiring rows yields rows.
LEMMA RowsTyped ==
    ASSUME NEW rows \in Seq(RowStatus), NEW n \in Nat
    PROVE  /\ AttachRows(rows, n) \in Seq(RowStatus)
           /\ RetireRows(rows) \in Seq(RowStatus)
           /\ Len(RetireRows(rows)) = Len(rows)
           /\ AttachMode = "upsert" => Len(AttachRows(rows, n)) = IF rows = << >> THEN 1 ELSE Len(rows)
           /\ AttachMode = "append" => Len(AttachRows(rows, n)) = Len(rows) + n
  <1>1. [k \in 1..n |-> "ACTIVE"] \in Seq(RowStatus) /\ Len([k \in 1..n |-> "ACTIVE"]) = n
    BY DEF RowStatus
  <1>2. ASSUME rows # << >>, NEW s \in RowStatus
        PROVE  [rows EXCEPT ![1] = s] \in Seq(RowStatus)
               /\ Len([rows EXCEPT ![1] = s]) = Len(rows)
    BY <1>2
  <1>3. RetireRows(rows) \in Seq(RowStatus) /\ Len(RetireRows(rows)) = Len(rows)
    BY <1>2 DEF RetireRows, RowStatus
  <1>4. CASE AttachMode = "upsert"
    <2>1. <<"ACTIVE">> \in Seq(RowStatus) /\ Len(<<"ACTIVE">>) = 1
      BY DEF RowStatus
    <2> QED BY <1>2, <1>3, <1>4, <2>1 DEF AttachRows, RowStatus
  <1>5. CASE AttachMode = "append"
    <2>1. AttachRows(rows, n) = rows \o [k \in 1..n |-> "ACTIVE"]
      BY <1>5 DEF AttachRows
    <2> QED BY <1>1, <1>3, <1>5, <2>1
  <1> QED BY <1>4, <1>5, GraphConstants

\* One row stays one row when attach replaces it, or finds none to append to.
LEMMA AttachKeepsOneRow ==
    ASSUME NEW rows \in Seq(RowStatus), Len(rows) <= 1, NEW n \in Nat,
           AttachMode = "upsert" \/ (rows = << >> /\ n = 1)
    PROVE  Len(AttachRows(rows, n)) <= 1
  <1>1. CASE AttachMode = "upsert"
    <2>1. Len(AttachRows(rows, n)) = IF rows = << >> THEN 1 ELSE Len(rows)
      BY ONLY <1>1, RowsTyped, rows \in Seq(RowStatus), n \in Nat
    <2> QED BY <2>1
  <1>2. CASE AttachMode = "append" /\ rows = << >> /\ n = 1
    <2>1. Len(AttachRows(rows, n)) = Len(rows) + n
      BY <1>2, RowsTyped
    <2>2. Len(rows) = 0
      BY <1>2
    <2>3. n = 1
      BY <1>2
    <2> QED BY <2>1, <2>2, <2>3
  <1> QED BY <1>1, <1>2, GraphConstants

\* A batch maps a graph to a graph, one epoch further.
LEMMA ApplyBatchTyped ==
    ASSUME NEW g \in Graphs, NEW ops \in SUBSET Operations
    PROVE  ApplyBatch(g, ops) \in Graphs /\ ApplyBatch(g, ops).epoch = g.epoch + 1
  <1>1. ASSUME NEW i \in Identities PROVE EntityAfter(g, ops, i) \in EntityStatus
    BY DEF EntityAfter, EntityStatus, Graphs
  <1>2. ASSUME NEW a \in Assertions PROVE RowsAfter(g, ops, a) \in Seq(RowStatus)
    BY OpsOnFinite, RowsTyped, RowsTyped DEF RowsAfter, Graphs
  <1>3. {Subject(o) : o \in ops} \subseteq Identities
    BY OperationTyped
  <1> QED BY <1>1, <1>2, <1>3 DEF ApplyBatch, Graphs

\* What the planner and the compensator build is a plan.
LEMMA PlanForTyped ==
    ASSUME NEW cs \in SUBSET Candidates, NEW s \in Nat
    PROVE  /\ PlanFor(cs, s) \in Plans
           /\ PlanFor(cs, s).snapshot = s
           /\ ~PlanFor(cs, s).compensation
  <1>1. ASSUME NEW c \in Candidates PROVE BuildOperation(c) \in Operations
    BY GraphConstants DEF BuildOperation, Operations, OperationTypes, IdentityOps, AssertionOps
  <1> QED BY <1>1, GraphConstants DEF PlanFor, Plans

\* A compensation is a plan with the one guard it was asked for.
LEMMA CompensateTyped ==
    ASSUME NEW p \in Plans, NEW s \in Nat
    PROVE  /\ Compensate(p, s) \in Plans
           /\ Compensate(p, s).snapshot = s
           /\ Compensate(p, s).fresh = {}
           /\ Compensate(p, s).absent = {}
  <1>1. ASSUME NEW o \in Operations PROVE Invert(o) \in Operations
    <2>1. InverseOperation[o.type] \in OperationTypes
          /\ (InverseOperation[o.type] \in IdentityOps <=> o.type \in IdentityOps)
      BY OperationTyped
         DEF InverseOperation, OperationTypes, IdentityOps, AssertionOps
    <2> QED BY <2>1 DEF Invert, Operations
  <1> QED BY <1>1 DEF Compensate, Plans

\* A planner's plan names the epoch it was computed at, or the default one.
LEMMA PlannerPlansTyped ==
    ASSUME NEW epoch \in Nat, NEW p \in PlannerPlans(epoch)
    PROVE  p \in Plans /\ p.snapshot \in {0, epoch}
  BY PlanForTyped DEF PlannerPlans

-----------------------------------------------------------------------------
(* What the guards are worth. *)

\* The planner guards every record it would mint: what it creates it declares
\* fresh, what it attaches it declares absent.
LEMMA PlannerGuardsComplete ==
    ASSUME NEW epoch \in Nat, NEW p \in PlannerPlans(epoch)
    PROVE  /\ Created(p) \subseteq p.fresh
           /\ \A o \in p.ops : o.type = "ATTACH_ASSERTION" => Target(o) \in p.absent
           /\ OpTypes(p) \subseteq {"CREATE_IDENTITY", "ATTACH_ASSERTION"}
  <1> PICK cs \in SUBSET Candidates, s \in {0, epoch} : p = PlanFor(cs, s)
    BY DEF PlannerPlans
  <1>1. ASSUME NEW o \in p.ops, o.type = "CREATE_IDENTITY"
        PROVE  Target(o) \in p.fresh
    <2> PICK c \in cs : o = BuildOperation(c)
      BY DEF PlanFor
    <2>1. Mints[c] \in Identities
      BY <1>1 DEF BuildOperation
    <2> QED BY <2>1 DEF BuildOperation, Target, PlanFor
  <1>2. ASSUME NEW o \in p.ops
        PROVE  /\ o.type = "ATTACH_ASSERTION" => Target(o) \in p.absent
               /\ o.type \in {"CREATE_IDENTITY", "ATTACH_ASSERTION"}
    <2> PICK c \in cs : o = BuildOperation(c)
      BY DEF PlanFor
    <2> QED BY GraphConstants DEF BuildOperation, Target, PlanFor
  <1> QED BY <1>1, <1>2 DEF OpTypes, Created

\* A compensation never creates an identity: what it undoes was there before.
LEMMA CompensationCreatesNothing ==
    ASSUME NEW p \in Plans, NEW s \in Nat
    PROVE  Created(Compensate(p, s)) = {}
  <1> SUFFICES ASSUME NEW o \in p.ops PROVE Invert(o).type # "CREATE_IDENTITY"
    BY DEF Created, Compensate
  <1>1. o.type \in OperationTypes
    BY DEF Plans, Operations
  <1> QED BY <1>1 DEF Invert, InverseOperation, OperationTypes, IdentityOps, AssertionOps

\* A compensation attaches an assertion only to undo a retraction.
LEMMA CompensationAttaches ==
    ASSUME NEW p \in Plans, NEW s \in Nat, "RETRACT_ASSERTION" \notin OpTypes(p)
    PROVE  \A o \in Compensate(p, s).ops : o.type # "ATTACH_ASSERTION"
  <1> SUFFICES ASSUME NEW o \in p.ops PROVE Invert(o).type # "ATTACH_ASSERTION"
    BY DEF Compensate
  <1>1. o.type \in OperationTypes /\ o.type # "RETRACT_ASSERTION"
    BY DEF Plans, Operations, OpTypes
  <1> QED BY <1>1 DEF Invert, InverseOperation, OperationTypes, IdentityOps, AssertionOps

\* A committed batch touches every identity it creates.
LEMMA CreatedIsTouched ==
    ASSUME NEW g \in Graphs, NEW p \in Plans
    PROVE  /\ Created(p) \subseteq ApplyBatch(g, p.ops).touched
           /\ g.touched \subseteq ApplyBatch(g, p.ops).touched
  <1>1. ASSUME NEW o \in p.ops, o.type = "CREATE_IDENTITY" PROVE Subject(o) = Target(o)
    BY <1>1 DEF Subject, IdentityOps
  <1> QED BY <1>1 DEF Created, ApplyBatch

\* A plan that does not contradict itself attaches at most one row per id.
LEMMA AttachesOnce ==
    ASSUME NEW p \in Plans, ~SelfConflicting(p), NEW a \in Assertions,
           OpsOn(p.ops, "ATTACH_ASSERTION", a) # {}
    PROVE  Cardinality(OpsOn(p.ops, "ATTACH_ASSERTION", a)) = 1
  <1> DEFINE S == OpsOn(p.ops, "ATTACH_ASSERTION", a)
  <1> PICK o \in S : TRUE
    OBVIOUS
  <1>1. S = {o}
    BY DEF OpsOn, SelfConflicting
  <1> QED BY <1>1, FS_Singleton

\* ADR-0019: from a graph with one row per id, a plan whose guards hold and
\* whose attaches are all guarded (or land on an adapter that replaces by id)
\* yields a graph with one row per id.
THEOREM GuardedBatchKeepsOneRow ==
    ASSUME NEW g \in Graphs, NEW p \in Plans,
           \A a \in Assertions : Len(g.rows[a]) <= 1,
           ReaderGuardsHold(g, p),
           ~SelfConflicting(p),
           AttachMode = "upsert" \/ \A o \in p.ops : o.type = "ATTACH_ASSERTION" => Target(o) \in p.absent
    PROVE  \A a \in Assertions : Len(ApplyBatch(g, p.ops).rows[a]) <= 1
  <1> SUFFICES ASSUME NEW a \in Assertions PROVE Len(RowsAfter(g, p.ops, a)) <= 1
    BY DEF ApplyBatch
  <1> DEFINE S == OpsOn(p.ops, "ATTACH_ASSERTION", a)
  <1>0. g.rows[a] \in Seq(RowStatus) /\ Len(g.rows[a]) <= 1
    BY DEF Graphs
  <1>1. CASE S = {}
    BY <1>0, <1>1, RowsTyped DEF RowsAfter
  <1>4. CASE S # {} /\ AttachMode = "upsert"
    <2>1. RowsAfter(g, p.ops, a) = AttachRows(g.rows[a], Cardinality(S)) /\ Cardinality(S) \in Nat
      BY <1>4, OpsOnFinite DEF RowsAfter, Plans
    <2> QED BY <1>0, <1>4, <2>1, AttachKeepsOneRow
  <1>5. CASE S # {} /\ AttachMode = "append"
    <2>1. RowsAfter(g, p.ops, a) = AttachRows(g.rows[a], 1)
      BY <1>5, AttachesOnce DEF RowsAfter
    <2>2. a \in p.absent
      BY <1>5 DEF OpsOn
    <2>3. g.rows[a] = << >>
      BY <2>2 DEF ReaderGuardsHold
    <2> QED BY <1>0, <1>5, <2>1, <2>3, AttachKeepsOneRow
  <1> QED BY <1>1, <1>4, <1>5, GraphConstants

-----------------------------------------------------------------------------
(* What a batch shows, and what its compensation shows again.              *)

AddingTypes == {"CREATE_IDENTITY", "RESTORE_IDENTITY", "ATTACH_ASSERTION"}

\* The records a batch makes visible, and those it takes out of sight.
Adds(ops) == {Target(o) : o \in {o \in ops : o.type \in AddingTypes}}
Removes(ops) == {Target(o) : o \in {o \in ops : o.type \notin AddingTypes}}

\* No record is both added and removed by the batch, or in two ways.
OneTypePerTarget(ops) ==
    \A o1, o2 \in ops : Target(o1) = Target(o2) => o1.type = o2.type

\* Which operations of a batch concern an identity, and what becomes of it.
LEMMA BatchShowsIdentity ==
    ASSUME NEW g \in Graphs, NEW ops \in SUBSET Operations, OneTypePerTarget(ops),
           NEW i \in Identities
    PROVE  EntityAfter(g, ops, i) = "ACTIVE"
               <=> i \in Adds(ops) \/ (g.entity[i] = "ACTIVE" /\ i \notin Removes(ops))
  <1>1. ASSUME NEW o \in ops, Target(o) = i PROVE o.type \in IdentityOps
    BY <1>1, GraphConstants, OperationTyped
  <1>2. CASE i \in Adds(ops)
    <2> PICK o \in ops : o.type \in AddingTypes /\ Target(o) = i
      BY <1>2 DEF Adds
    <2>1. o.type \in {"CREATE_IDENTITY", "RESTORE_IDENTITY"} /\ o \in OpsOn(ops, o.type, i)
      BY <1>1 DEF AddingTypes, IdentityOps, OpsOn
    <2> QED BY <1>2, <2>1 DEF EntityAfter
  <1>3. CASE i \notin Adds(ops)
    <2>1. \A type \in {"CREATE_IDENTITY", "RESTORE_IDENTITY"} : OpsOn(ops, type, i) = {}
      BY <1>3 DEF Adds, OpsOn, AddingTypes
    <2>2. OpsOn(ops, "REVOKE_IDENTITY", i) # {} <=> i \in Removes(ops)
      BY <1>1 DEF Removes, OpsOn, AddingTypes, IdentityOps
    <2> QED BY <1>3, <2>1, <2>2 DEF EntityAfter
  <1> QED BY <1>2, <1>3

\* Some row of the id is ACTIVE.
Shown(rows) == \E k \in 1..Len(rows) : rows[k] = "ACTIVE"

\* A record attached to one row or none is shown; a single row retired is not.
LEMMA RowsShown ==
    ASSUME NEW rows \in Seq(RowStatus), Len(rows) <= 1, NEW n \in Nat, n > 0,
           AttachMode = "upsert" \/ rows = << >>
    PROVE  Shown(AttachRows(rows, n)) /\ ~Shown(RetireRows(rows))
  <1>1. ~Shown(RetireRows(rows))
    BY DEF Shown, RetireRows
  <1>2. CASE AttachMode = "upsert" /\ rows = << >>
    BY <1>1, <1>2 DEF Shown, AttachRows
  <1>3. CASE AttachMode = "upsert" /\ rows # << >>
    <2>1. Len(rows) = 1 /\ AttachRows(rows, n) = [rows EXCEPT ![1] = "ACTIVE"]
      BY <1>3 DEF AttachRows
    <2> QED BY <1>1, <2>1 DEF Shown
  <1>4. CASE AttachMode = "append" /\ rows = << >>
    <2> DEFINE added == [k \in 1..n |-> "ACTIVE"]
    <2>1. AttachRows(rows, n) = rows \o added /\ added \in Seq(RowStatus) /\ Len(added) = n
      BY <1>4 DEF AttachRows, RowStatus
    <2>2. (rows \o added)[1] = added[1] /\ Len(rows \o added) = n /\ added[1] = "ACTIVE"
      BY <1>4, <2>1
    <2> QED BY <1>1, <2>1, <2>2 DEF Shown
  <1> QED BY <1>1, <1>2, <1>3, <1>4, GraphConstants

LEMMA BatchShowsAssertion ==
    ASSUME NEW g \in Graphs, NEW ops \in SUBSET Operations, OneTypePerTarget(ops),
           NEW a \in Assertions, Len(g.rows[a]) <= 1,
           AttachMode = "upsert" \/ (a \in Adds(ops) => g.rows[a] = << >>)
    PROVE  Shown(RowsAfter(g, ops, a))
               <=> a \in Adds(ops) \/ (Shown(g.rows[a]) /\ a \notin Removes(ops))
  <1> DEFINE attaches == OpsOn(ops, "ATTACH_ASSERTION", a)
  <1>0. g.rows[a] \in Seq(RowStatus)
    BY DEF Graphs
  <1>1. ASSUME NEW o \in ops, Target(o) = a PROVE o.type \in AssertionOps
    BY <1>1, GraphConstants, OperationTyped DEF OperationTypes
  <1>2. CASE a \in Adds(ops)
    <2> PICK o \in ops : o.type \in AddingTypes /\ Target(o) = a
      BY <1>2 DEF Adds
    <2>1. o \in attaches
      BY <1>1 DEF AddingTypes, AssertionOps, OpsOn
    <2>2. Cardinality(attaches) \in Nat /\ Cardinality(attaches) # 0
      BY <2>1, OpsOnFinite, FS_EmptySet
    <2>3. RowsAfter(g, ops, a) = AttachRows(g.rows[a], Cardinality(attaches))
      BY <2>1 DEF RowsAfter
    <2>4. Shown(AttachRows(g.rows[a], Cardinality(attaches)))
      BY <1>0, <1>2, <2>2, RowsShown
    <2> QED BY <1>2, <2>3, <2>4
  <1>3. CASE a \notin Adds(ops)
    <2>1. attaches = {}
      BY <1>3 DEF Adds, OpsOn, AddingTypes
    <2>2. OpsOn(ops, "RETRACT_ASSERTION", a) # {} <=> a \in Removes(ops)
      BY <1>1 DEF Removes, OpsOn, AddingTypes, AssertionOps
    <2>3. CASE a \in Removes(ops)
      <3>1. RowsAfter(g, ops, a) = RetireRows(g.rows[a])
        BY <2>1, <2>2, <2>3 DEF RowsAfter
      <3>2. ~Shown(RetireRows(g.rows[a]))
        BY <1>0 DEF Shown, RetireRows
      <3> QED BY <1>3, <2>3, <3>1, <3>2
    <2>4. CASE a \notin Removes(ops)
      <3>1. RowsAfter(g, ops, a) = g.rows[a]
        BY <2>1, <2>2, <2>4 DEF RowsAfter
      <3> QED BY <1>3, <2>4, <3>1
    <2> QED BY <2>3, <2>4
  <1> QED BY <1>2, <1>3

\* A batch whose operations do not contradict each other shows what was shown,
\* less what it removes, and what it adds.
LEMMA BatchShows ==
    ASSUME NEW g \in Graphs, NEW ops \in SUBSET Operations, OneTypePerTarget(ops),
           \A a \in Assertions : Len(g.rows[a]) <= 1,
           AttachMode = "upsert" \/ \A a \in Assertions : a \in Adds(ops) => g.rows[a] = << >>
    PROVE  Visible(ApplyBatch(g, ops)) = (Visible(g) \ Removes(ops)) \cup Adds(ops)
  <1>1. Adds(ops) \subseteq Identities \cup Assertions
    BY OperationTyped DEF Adds
  <1>2. ASSUME NEW i \in Identities
        PROVE  /\ i \in Visible(g) <=> g.entity[i] = "ACTIVE"
               /\ i \in Visible(ApplyBatch(g, ops)) <=> EntityAfter(g, ops, i) = "ACTIVE"
    BY GraphConstants DEF Visible, ApplyBatch
  <1>3. ASSUME NEW a \in Assertions
        PROVE  /\ a \in Visible(g) <=> Shown(g.rows[a])
               /\ a \in Visible(ApplyBatch(g, ops)) <=> Shown(RowsAfter(g, ops, a))
    BY GraphConstants DEF Visible, ApplyBatch, Shown
  <1>4. Visible(g) \subseteq Identities \cup Assertions
        /\ Visible(ApplyBatch(g, ops)) \subseteq Identities \cup Assertions
    BY DEF Visible
  <1>5. \A i \in Identities : i \in Visible(ApplyBatch(g, ops))
            <=> i \in (Visible(g) \ Removes(ops)) \cup Adds(ops)
    BY <1>2, BatchShowsIdentity
  <1>6. \A a \in Assertions : a \in Visible(ApplyBatch(g, ops))
            <=> a \in (Visible(g) \ Removes(ops)) \cup Adds(ops)
    BY <1>3, BatchShowsAssertion
  <1> QED BY <1>1, <1>4, <1>5, <1>6

\* Where attach replaces by id, no batch makes a second row.
LEMMA UpsertKeepsOneRow ==
    ASSUME NEW g \in Graphs, NEW ops \in SUBSET Operations, AttachMode = "upsert",
           NEW a \in Assertions, Len(g.rows[a]) <= 1
    PROVE  Len(ApplyBatch(g, ops).rows[a]) <= 1
  <1> DEFINE n == Cardinality(OpsOn(ops, "ATTACH_ASSERTION", a))
             rows == g.rows[a]
  <1>1. n \in Nat /\ rows \in Seq(RowStatus)
    BY OpsOnFinite DEF Graphs
  <1>2. RowsAfter(g, ops, a) \in {AttachRows(rows, n), RetireRows(rows), rows}
    BY DEF RowsAfter
  <1>3. ApplyBatch(g, ops).rows[a] = RowsAfter(g, ops, a)
    BY DEF ApplyBatch
  <1> HIDE DEF n
  <1>4. Len(AttachRows(rows, n)) <= 1 /\ Len(RetireRows(rows)) <= 1
    BY <1>1, AttachKeepsOneRow, RowsTyped
  <1> QED BY <1>2, <1>3, <1>4

\* The compensation adds what the plan removed and removes what it added.
LEMMA CompensationSwaps ==
    ASSUME NEW p \in Plans, NEW s, OneTypePerTarget(p.ops)
    PROVE  LET inverse == Compensate(p, s).ops
           IN  /\ Adds(inverse) = Removes(p.ops)
               /\ Removes(inverse) = Adds(p.ops)
               /\ OneTypePerTarget(inverse)
  <1> DEFINE inverse == Compensate(p, s).ops
  <1>1. inverse = {Invert(o) : o \in p.ops}
    BY DEF Compensate
  <1>2. ASSUME NEW o \in p.ops
        PROVE  /\ Target(Invert(o)) = Target(o)
               /\ Invert(o).type = InverseOperation[o.type]
               /\ Invert(o).type \in AddingTypes <=> o.type \notin AddingTypes
    <2>1. o.type \in OperationTypes
      BY DEF Plans, Operations
    <2> QED BY <2>1 DEF Invert, Target, InverseOperation, AddingTypes, OperationTypes,
                        IdentityOps, AssertionOps
  <1>3. Adds(inverse) = Removes(p.ops) /\ Removes(inverse) = Adds(p.ops)
    BY <1>1, <1>2 DEF Adds, Removes
  <1>4. OneTypePerTarget(inverse)
    BY <1>1, <1>2 DEF OneTypePerTarget
  <1> QED BY <1>3, <1>4

\* The planner mints one kind of record per operation, and removes nothing.
LEMMA PlannerAdds ==
    ASSUME NEW n \in Nat, NEW p \in PlannerPlans(n)
    PROVE  /\ OneTypePerTarget(p.ops)
           /\ Adds(p.ops) \subseteq p.fresh \cup p.absent
           /\ Removes(p.ops) = {}
           /\ ~p.compensation
  <1> PICK cs \in SUBSET Candidates, s \in {0, n} : p = PlanFor(cs, s)
    BY DEF PlannerPlans
  <1>1. ASSUME NEW o \in p.ops
        PROVE  /\ o.type = IF Target(o) \in Identities THEN "CREATE_IDENTITY" ELSE "ATTACH_ASSERTION"
               /\ Target(o) \in p.fresh \cup p.absent
    <2> PICK c \in cs : o = BuildOperation(c)
      BY DEF PlanFor
    <2> QED BY GraphConstants DEF BuildOperation, Target, PlanFor
  <1>2. ~p.compensation
    BY DEF PlanFor
  <1>3. \A o \in p.ops : o.type \in AddingTypes
    BY <1>1 DEF AddingTypes
  <1> QED BY <1>1, <1>2, <1>3 DEF OneTypePerTarget, Adds, Removes

\* Rolling back (KGIS ADR-0025): a batch that adds only what was not shown and
\* removes only what was, followed by its compensation, shows what was shown
\* before it.
THEOREM CompensationRestores ==
    ASSUME NEW g \in Graphs, NEW p \in Plans, NEW s, OneTypePerTarget(p.ops),
           AttachMode = "upsert",
           \A a \in Assertions : Len(g.rows[a]) <= 1,
           Adds(p.ops) \cap Visible(g) = {}, Removes(p.ops) \subseteq Visible(g)
    PROVE  Visible(ApplyBatch(ApplyBatch(g, p.ops), Compensate(p, s).ops)) = Visible(g)
  <1> DEFINE after == ApplyBatch(g, p.ops)
             inverse == Compensate(p, s).ops
  <1>1. p.ops \in SUBSET Operations /\ inverse \in SUBSET Operations
    <2>1. Compensate(p, 0).ops = inverse /\ Compensate(p, 0) \in Plans
      BY CompensateTyped DEF Compensate
    <2> QED BY <2>1 DEF Plans
  <1>2. after \in Graphs
    BY <1>1, ApplyBatchTyped
  <1>3. Visible(after) = (Visible(g) \ Removes(p.ops)) \cup Adds(p.ops)
    BY <1>1, BatchShows
  <1>6. \A a \in Assertions : Len(after.rows[a]) <= 1
    BY <1>1, UpsertKeepsOneRow
  <1>4. /\ Adds(inverse) = Removes(p.ops) /\ Removes(inverse) = Adds(p.ops)
        /\ OneTypePerTarget(inverse)
    BY CompensationSwaps
  <1> HIDE DEF after, inverse
  <1>5. Visible(ApplyBatch(after, inverse)) = (Visible(after) \ Adds(p.ops)) \cup Removes(p.ops)
    BY <1>1, <1>2, <1>4, <1>6, BatchShows DEF after
  <1> QED BY <1>3, <1>5 DEF after, inverse

-----------------------------------------------------------------------------
(* Type correctness. *)

CommitEntry == [plan : Plans, shows : SUBSET (Identities \cup Assertions)]

\* The graph before the first batch is a graph.
LEMMA EmptyGraphTyped == EmptyGraph \in Graphs
  BY DEF EmptyGraph, Graphs, EntityStatus, RowStatus

\* The empty plan a caller starts with is a plan.
LEMMA NoPlanTyped == NoPlan \in Plans /\ NoResult \in ExecutionRecord
  BY DEF NoPlan, Plans, NoResult, Record, ExecutionRecord, Outcomes

\* What a reader sees is a set of record ids.
LEMMA VisibleTyped ==
    ASSUME NEW g \in Graphs
    PROVE  Visible(g) \in SUBSET (Identities \cup Assertions)
  BY DEF Visible

\* Taking a plan in hand only needs the plan to be one.
LEMMA HoldTyped ==
    ASSUME TypeOK, NEW x \in Callers, NEW p \in Plans, Hold(x, p)
    PROVE  TypeOK'
  BY DEF TypeOK, Hold, Phases

\* The store's new state, its history and the record of a commit have their types.
LEMMA ApplyTyped ==
    ASSUME TypeOK, NEW x \in Callers, Apply(x)
    PROVE  /\ TypeOK'
           /\ graph'.epoch = graph.epoch + 1
           /\ commits' = Append(commits, [plan |-> plan[x], shows |-> Visible(graph')])
  <1>1. plan[x] \in Plans /\ plan[x].ops \in SUBSET Operations /\ graph \in Graphs
    BY DEF TypeOK, Plans
  <1>2. graph' \in Graphs /\ graph'.epoch = graph.epoch + 1 /\ graph'.epoch \in Nat
    BY <1>1, ApplyBatchTyped DEF Apply, Graphs
  <1>3. [plan |-> plan[x], shows |-> Visible(graph')] \in CommitEntry
    BY <1>1, <1>2, VisibleTyped DEF CommitEntry
  <1>4. commits' \in Seq(CommitEntry)
    BY <1>3 DEF Apply, TypeOK, CommitEntry
  <1>5. result'[x] \in ExecutionRecord /\ result' \in [Callers -> ExecutionRecord]
    BY <1>1, <1>2 DEF Apply, TypeOK, Record, ExecutionRecord, Outcomes
  <1>6. phase' \in [Callers -> Phases]
    BY DEF Apply, TypeOK, Phases, Executing
  <1>7. UNCHANGED <<published, log, plan>>
    BY DEF Apply
  <1>8. commits' = Append(commits, [plan |-> plan[x], shows |-> Visible(graph')])
    BY DEF Apply
  <1> QED BY <1>2, <1>4, <1>5, <1>6, <1>7, <1>8 DEF TypeOK, CommitEntry

\* The two halves of publish: the comparison only moves the caller, and only the
\* assignment moves the watermark.
LEMMA PublishSteps ==
    ASSUME NEW x \in Callers, Publish(x)
    PROVE  /\ UNCHANGED <<graph, log, plan, result, commits>>
           /\ phase[x] \in {"applied", "publishing"}
           /\ \/ /\ published' = published
                 /\ phase' = [phase EXCEPT ![x] = "publishing"]
                 /\ phase[x] = "applied" /\ result[x].epoch > published
                 /\ PublishAlone => PublisherFree(x)
              \/ /\ published' = published
                 /\ phase' = [phase EXCEPT ![x] = "finishing"]
                 /\ phase[x] = "applied"
              \/ /\ published' = result[x].epoch
                 /\ phase' = [phase EXCEPT ![x] = "finishing"]
                 /\ phase[x] = "publishing"
  <1>1. CASE CompareEpoch(x)
    <2>1. CASE result[x].epoch > published
      BY <1>1, <2>1 DEF CompareEpoch
    <2>2. CASE ~(result[x].epoch > published)
      BY <1>1, <2>2 DEF CompareEpoch
    <2> QED BY <2>1, <2>2
  <1>2. CASE StoreEpoch(x)
    BY <1>2 DEF StoreEpoch
  <1> QED BY <1>1, <1>2 DEF Publish

\* Every other step keeps the types, and keeps the store and its history.
LEMMA OtherStepsTyped ==
    ASSUME TypeOK, NEW x \in Callers,
           \/ PlanCandidates(x) \/ PlanCompensation(x) \/ Retry(x)
           \/ Check(x) \/ ApplyRefused(x) \/ Publish(x) \/ Finish(x) \/ Raise(x)
    PROVE  TypeOK' /\ UNCHANGED <<graph, commits>>
  <1>1. CASE PlanCandidates(x)
    <2> PICK p \in PlannerPlans(graph.epoch) : Hold(x, p)
      BY <1>1 DEF PlanCandidates
    <2>1. graph.epoch \in Nat
      BY DEF TypeOK, Graphs
    <2> QED BY <2>1, PlannerPlansTyped, HoldTyped DEF Hold
  <1>2. CASE PlanCompensation(x)
    <2> PICK r \in log : Hold(x, Compensate(r.plan, r.epoch))
      BY <1>2 DEF PlanCompensation
    <2>1. r.plan \in Plans /\ r.epoch \in Nat
      BY DEF TypeOK, ExecutionRecord
    <2> QED BY <2>1, CompensateTyped, HoldTyped DEF Hold
  <1>3. CASE Retry(x)
    <2>1. plan[x] \in Plans
      BY DEF TypeOK
    <2> QED BY <1>3, <2>1, HoldTyped DEF Retry, Hold
  <1>4. CASE Check(x)
    <2>1. CASE Refusal(plan[x]) = {} /\ UNCHANGED result /\ phase' = [phase EXCEPT ![x] = "checked"]
      BY <1>4, <2>1 DEF Check, TypeOK, Phases, Executing
    <2>2. CASE \E outcome \in Refusal(plan[x]) :
                  /\ result' = [result EXCEPT ![x] = Record(plan[x], outcome, 0)]
                  /\ phase' = [phase EXCEPT ![x] = "finishing"]
      <3>1. Refusal(plan[x]) \subseteq Outcomes
        BY DEF Refusal, Outcomes
      <3> QED BY <1>4, <2>2, <3>1 DEF Check, TypeOK, Record, ExecutionRecord, Phases, Executing
    <2> QED BY <1>4, <2>1, <2>2 DEF Check
  <1>5. CASE ApplyRefused(x)
    BY <1>5 DEF ApplyRefused, TypeOK, Record, ExecutionRecord, Outcomes, Phases, Executing
  <1>6. CASE Publish(x)
    <2>1. UNCHANGED <<graph, log, plan, result, commits>>
      BY <1>6, PublishSteps
    <2>2. result[x].epoch \in Nat /\ published \in Nat
      BY DEF TypeOK, ExecutionRecord
    <2>3. published' \in Nat
      BY <1>6, <2>2, PublishSteps
    <2>4. phase' \in [Callers -> Phases]
      BY <1>6, PublishSteps DEF TypeOK, Phases, Executing
    <2> QED BY <2>1, <2>3, <2>4 DEF TypeOK
  <1>7. CASE Finish(x)
    BY <1>7, NoPlanTyped DEF Finish, TypeOK, Phases, Resting
  <1>8. CASE Raise(x)
    BY <1>8, NoPlanTyped DEF Raise, TypeOK, Phases, Resting
  <1> QED BY <1>1, <1>2, <1>3, <1>4, <1>5, <1>6, <1>7, <1>8

\* The initial state has its type.
LEMMA InitTyped == Init => TypeOK
  <1> SUFFICES ASSUME Init PROVE TypeOK
    OBVIOUS
  <1>1. commits \in Seq(CommitEntry)
    BY DEF Init
  <1> QED BY <1>1, EmptyGraphTyped, NoPlanTyped
          DEF Init, TypeOK, CommitEntry, Phases, Resting

\* The types hold in every reachable state, whatever callers and ports do.
THEOREM TypeCorrect == Spec => []TypeOK
  <1>1. TypeOK /\ [Next]_vars => TypeOK'
    <2> SUFFICES ASSUME TypeOK, [Next]_vars PROVE TypeOK'
      OBVIOUS
    <2>1. CASE UNCHANGED vars
      BY <2>1 DEF vars, TypeOK
    <2>2. CASE Next
      BY <2>2, ApplyTyped, OtherStepsTyped DEF Next, Execute
    <2> QED BY <2>1, <2>2
  <1> QED BY <1>1, InitTyped, PTL DEF Spec

-----------------------------------------------------------------------------
(* Bookkeeping: the epoch is the number of commits, and every COMMITTED      *)
(* record, in the sink or still in a caller's hands, tells the truth.        *)

\* r names the epoch at which its plan was committed.
Truthful(r) ==
    /\ r.epoch \in 1..Len(commits)
    /\ commits[r.epoch].plan = r.plan

\* RecordsAreTrue and PublishedIsCommitted made inductive: also of the records
\* not yet in the sink.
Bookkeeping ==
    /\ TypeOK
    /\ graph.epoch = Len(commits)
    /\ \A x \in Callers :
        phase[x] \in {"applied", "publishing"} => result[x].outcome = "COMMITTED"
    /\ \A x \in Callers : result[x].outcome = "COMMITTED" => Truthful(result[x])
    /\ \A r \in log : Truthful(r)
    /\ published <= graph.epoch

\* Appending to the history leaves what it held and adds one entry.
LEMMA CommitAppends ==
    ASSUME TypeOK, NEW x \in Callers, Apply(x)
    PROVE  /\ Len(commits) \in Nat
           /\ Len(commits') = Len(commits) + 1
           /\ \A e \in 1..Len(commits) : commits'[e] = commits[e]
           /\ commits'[Len(commits) + 1].plan = plan[x]
           /\ commits'[Len(commits) + 1].shows = Visible(graph')
  <1> DEFINE entry == [plan |-> plan[x], shows |-> Visible(graph')]
  <1>1. commits' = Append(commits, entry)
    BY ApplyTyped
  <1>2. commits \in Seq(CommitEntry)
    BY DEF TypeOK, CommitEntry
  <1>3. entry.plan = plan[x] /\ entry.shows = Visible(graph')
    OBVIOUS
  <1> HIDE DEF entry
  <1> QED BY <1>1, <1>2, <1>3

\* A record that was true stays true: the history only grows.
LEMMA TruthfulStable ==
    ASSUME TypeOK, NEW x \in Callers, Apply(x), NEW r, Truthful(r)
    PROVE  Truthful(r)'
  BY CommitAppends DEF Truthful

\* Every step keeps the books.
LEMMA BookkeepingStep ==
    ASSUME Bookkeeping, [Next]_vars
    PROVE  Bookkeeping'
  <1> USE DEF Bookkeeping
  <1>0. CASE UNCHANGED vars
    BY <1>0 DEF vars, TypeOK, Truthful
  <1>1. ASSUME NEW x \in Callers, Apply(x) PROVE Bookkeeping'
    <2>1. result' = [result EXCEPT ![x] = Record(plan[x], "COMMITTED", graph'.epoch)]
          /\ phase' = [phase EXCEPT ![x] = "applied"] /\ log' = log /\ published' = published
      BY <1>1 DEF Apply
    <2>2. TypeOK' /\ graph'.epoch = graph.epoch + 1
      BY <1>1, ApplyTyped
    <2>3. graph'.epoch = Len(commits') /\ Len(commits) \in Nat
      BY <1>1, <2>2, CommitAppends
    <2>4. Truthful(result[x])'
      <3>1. commits'[graph'.epoch].plan = plan[x] /\ graph'.epoch \in 1..Len(commits')
        BY <1>1, <2>2, <2>3, CommitAppends
      <3>2. result'[x].plan = plan[x] /\ result'[x].epoch = graph'.epoch
        BY <2>1 DEF TypeOK, Record
      <3> QED BY <3>1, <3>2 DEF Truthful
    <2>5. ASSUME NEW y \in Callers, result'[y].outcome = "COMMITTED"
          PROVE  Truthful(result[y])'
      <3>1. CASE y = x
        BY <2>4, <3>1
      <3>2. CASE y # x
        <4>1. result'[y] = result[y]
          BY <2>1, <3>2 DEF TypeOK
        <4>2. result[y].epoch \in 1..Len(commits) /\ commits[result[y].epoch].plan = result[y].plan
          BY <2>5, <4>1 DEF Truthful
        <4> QED BY <1>1, <4>1, <4>2, CommitAppends DEF Truthful
      <3> QED BY <3>1, <3>2
    <2>6. \A y \in Callers :
            phase'[y] \in {"applied", "publishing"} => result'[y].outcome = "COMMITTED"
      BY <2>1 DEF TypeOK, Record
    <2>7. \A r \in log' : Truthful(r)'
      BY <1>1, <2>1, TruthfulStable
    <2>8. published' <= graph'.epoch
      BY <2>1, <2>2 DEF TypeOK, Graphs
    <2> QED BY <2>2, <2>3, <2>5, <2>6, <2>7, <2>8
  <1>2. ASSUME NEW x \in Callers,
               PlanCandidates(x) \/ PlanCompensation(x) \/ Retry(x) \/ Check(x)
               \/ ApplyRefused(x) \/ Publish(x) \/ Finish(x) \/ Raise(x)
        PROVE  Bookkeeping'
    <2>1. TypeOK' /\ graph' = graph /\ commits' = commits
      BY <1>2, OtherStepsTyped
    <2>2. \A r : Truthful(r) => Truthful(r)'
      BY <2>1 DEF Truthful
    <2>3. CASE PlanCandidates(x) \/ PlanCompensation(x) \/ Retry(x)
      <3>1. published' = published /\ log' = log /\ result' = result
            /\ phase' = [phase EXCEPT ![x] = "planned"]
        BY <2>3 DEF PlanCandidates, PlanCompensation, Retry, Hold
      <3> QED BY <2>1, <2>2, <3>1 DEF TypeOK, Truthful
    <2>4. CASE Check(x) \/ ApplyRefused(x)
      <3>1. published' = published /\ log' = log
        BY <2>4 DEF Check, ApplyRefused
      <3>2. phase' \in {[phase EXCEPT ![x] = "checked"], [phase EXCEPT ![x] = "finishing"]}
        BY <2>4 DEF Check, ApplyRefused
      <3>3. \/ result' = result
            \/ \E outcome \in Outcomes \ {"COMMITTED"} :
                  result' = [result EXCEPT ![x] = Record(plan[x], outcome, 0)]
        <4>1. Refusal(plan[x]) \subseteq Outcomes \ {"COMMITTED"}
          BY DEF Refusal, Outcomes
        <4> QED BY <2>4, <4>1 DEF Check, ApplyRefused, Outcomes
      <3>4. \A y \in Callers : result'[y] = result[y] \/ result'[y].outcome # "COMMITTED"
        BY <3>3 DEF TypeOK, Record
      <3>5. \A y \in Callers : phase'[y] \in {"applied", "publishing"} =>
                                  phase[y] \in {"applied", "publishing"} /\ y # x
        BY <3>2 DEF TypeOK
      <3>6. \A y \in Callers : y # x => result'[y] = result[y]
        BY <3>3 DEF TypeOK
      <3>7. \A y \in Callers : result'[y].outcome = "COMMITTED" => Truthful(result[y])'
        BY <2>1, <3>4 DEF Truthful
      <3> QED BY <2>1, <2>2, <3>1, <3>5, <3>6, <3>7
    <2>5. CASE Publish(x)
      <3>1. log' = log /\ result' = result /\ published' \in {published, result[x].epoch}
            /\ phase[x] \in {"applied", "publishing"}
        BY <2>5, PublishSteps
      <3>2. result[x].epoch <= graph.epoch
        BY <3>1 DEF Truthful, TypeOK
      <3>3. \A y \in Callers : phase'[y] \in {"applied", "publishing"} =>
                                  phase[y] \in {"applied", "publishing"}
        BY <2>5, <3>1, PublishSteps DEF TypeOK
      <3> QED BY <2>1, <2>2, <3>1, <3>2, <3>3 DEF TypeOK, Truthful
    <2>6. CASE Finish(x) \/ Raise(x)
      <3>1. published' = published /\ result' = [result EXCEPT ![x] = NoResult]
            /\ phase' \in {[phase EXCEPT ![x] = "returned"], [phase EXCEPT ![x] = "raised"]}
        BY <2>6 DEF Finish, Raise
      <3>2. \A r \in log' : Truthful(r)
        BY <2>6 DEF Finish, Raise
      <3>3. NoResult.outcome = "EMPTY"
        BY DEF NoResult, Record
      <3>4. \A y \in Callers : y # x => result'[y] = result[y]
        BY <3>1 DEF TypeOK
      <3>5. result'[x].outcome # "COMMITTED"
        BY <3>1, <3>3 DEF TypeOK
      <3>6. \A y \in Callers : phase'[y] \in {"applied", "publishing"} =>
                                  phase[y] \in {"applied", "publishing"} /\ y # x
        BY <3>1 DEF TypeOK
      <3>7. \A y \in Callers : result'[y].outcome = "COMMITTED" => Truthful(result[y])'
        BY <2>1, <3>4, <3>5 DEF Truthful
      <3> QED BY <2>1, <2>2, <3>1, <3>2, <3>4, <3>6, <3>7
    <2> QED BY <1>2, <2>3, <2>4, <2>5, <2>6
  <1> QED BY <1>0, <1>1, <1>2 DEF Next, Execute

\* The empty graph has nothing to account for.
LEMMA BookkeepingInit == Init => Bookkeeping
  <1> SUFFICES ASSUME Init PROVE Bookkeeping
    OBVIOUS
  <1>1. commits = << >> /\ Len(commits) = 0 /\ graph.epoch = 0 /\ published = 0
    BY DEF Init, EmptyGraph
  <1>2. \A x \in Callers : result[x].outcome = "EMPTY" /\ phase[x] = "idle"
    BY DEF Init, NoResult, Record
  <1>3. log = {}
    BY DEF Init
  <1> QED BY <1>1, <1>2, <1>3, InitTyped DEF Bookkeeping

\* The books are in order in every reachable state.
LEMMA BookkeepingInvariant == Spec => []Bookkeeping
  BY BookkeepingInit, BookkeepingStep, PTL DEF Spec

\* Whatever callers interleave and ports raise, a COMMITTED record of the audit
\* stream names the epoch at which exactly its plan was committed.
THEOREM AuditStreamIsTrue == Spec => []RecordsAreTrue
  <1>1. Bookkeeping => RecordsAreTrue
    BY DEF Bookkeeping, RecordsAreTrue, Truthful
  <1> QED BY <1>1, BookkeepingInvariant, PTL

\* The watermark never runs ahead of the store.
THEOREM WatermarkIsCommitted == Spec => []PublishedIsCommitted
  <1>1. Bookkeeping => PublishedIsCommitted
    BY DEF Bookkeeping, PublishedIsCommitted
  <1> QED BY <1>1, BookkeepingInvariant, PTL

-----------------------------------------------------------------------------
(* Identities: entity_version = 0 is checked by the store, inside its own     *)
(* transaction, and that is enough under any interleaving.                    *)

\* Every plan in hand declares fresh what it creates, and every identity a
\* committed plan created is one the store has touched.
IdentitiesGuarded ==
    /\ Bookkeeping
    /\ \A x \in Callers : Created(plan[x]) \subseteq plan[x].fresh
    /\ \A e \in 1..Len(commits) : Created(commits[e].plan) \subseteq graph.touched
    /\ IdentityCreatedOnce

\* Every step but a commit leaves the store, and hands out guarded plans only.
LEMMA PlansStayGuarded ==
    ASSUME IdentitiesGuarded, NEW x \in Callers,
           \/ PlanCandidates(x) \/ PlanCompensation(x) \/ Retry(x)
           \/ Check(x) \/ Apply(x) \/ ApplyRefused(x) \/ Publish(x) \/ Finish(x) \/ Raise(x)
    PROVE  \A y \in Callers : Created(plan'[y]) \subseteq plan'[y].fresh
  <1> USE DEF IdentitiesGuarded
  <1>0. ASSUME NEW p, Hold(x, p), Created(p) \subseteq p.fresh
        PROVE  \A y \in Callers : Created(plan'[y]) \subseteq plan'[y].fresh
    <2>1. plan' = [plan EXCEPT ![x] = p] /\ plan \in [Callers -> Plans]
      BY <1>0 DEF Hold, Bookkeeping, TypeOK
    <2>2. \A y \in Callers : plan'[y] = IF y = x THEN p ELSE plan[y]
      BY <2>1
    <2> QED BY <1>0, <2>2
  <1>1. CASE PlanCandidates(x)
    <2> PICK p \in PlannerPlans(graph.epoch) : Hold(x, p)
      BY <1>1 DEF PlanCandidates
    <2>1. graph.epoch \in Nat
      BY DEF Bookkeeping, TypeOK, Graphs
    <2>2. Created(p) \subseteq p.fresh
      BY <2>1, PlannerGuardsComplete
    <2> QED BY <1>0, <2>2
  <1>2. CASE PlanCompensation(x)
    <2> PICK r \in log : Hold(x, Compensate(r.plan, r.epoch))
      BY <1>2 DEF PlanCompensation
    <2>1. r.plan \in Plans /\ r.epoch \in Nat
      BY DEF Bookkeeping, TypeOK, ExecutionRecord
    <2>2. Created(Compensate(r.plan, r.epoch)) = {}
      BY <2>1, CompensationCreatesNothing
    <2> QED BY <1>0, <2>2
  <1>3. CASE Retry(x)
    BY <1>0, <1>3 DEF Retry
  <1>4. CASE plan' = plan
    BY <1>4
  <1> QED BY <1>1, <1>2, <1>3, <1>4, PublishSteps DEF Check, Apply, ApplyRefused, Finish, Raise

\* A commit creates no identity that an earlier commit created.
LEMMA CommitCreatesNewIdentities ==
    ASSUME IdentitiesGuarded, NEW x \in Callers, Apply(x)
    PROVE  /\ \A e \in 1..Len(commits') : Created(commits'[e].plan) \subseteq graph'.touched
           /\ IdentityCreatedOnce'
  <1> USE DEF IdentitiesGuarded
  <1> DEFINE n == Len(commits)
  <1>1. TypeOK /\ n \in Nat /\ Len(commits') = n + 1 /\ commits'[n + 1].plan = plan[x]
        /\ \A e \in 1..n : commits'[e] = commits[e]
    BY CommitAppends DEF Bookkeeping
  <1>2. Created(plan[x]) \subseteq graph'.touched /\ graph.touched \subseteq graph'.touched
    <2>1. plan[x] \in Plans /\ graph \in Graphs
      BY <1>1 DEF TypeOK
    <2> QED BY <2>1, CreatedIsTouched DEF Apply
  <1>3. Created(plan[x]) \cap graph.touched = {}
    BY DEF Apply, StoreGuardsHold
  <1> HIDE DEF n
  <1>4. ASSUME NEW e \in 1..(n + 1)
        PROVE  /\ e \in 1..n => commits'[e] = commits[e] /\ Created(commits[e].plan) \subseteq graph.touched
               /\ e \notin 1..n => e = n + 1 /\ commits'[e].plan = plan[x]
    <2>1. e \in 1..n => commits'[e] = commits[e] /\ Created(commits[e].plan) \subseteq graph.touched
      BY <1>1 DEF n
    <2>2. e \notin 1..n => e = n + 1
      BY <1>1
    <2> QED BY <1>1, <2>1, <2>2
  <1>5. \A e \in 1..Len(commits') : Created(commits'[e].plan) \subseteq graph'.touched
    BY <1>1, <1>2, <1>4
  <1>6. ASSUME NEW e1 \in 1..(n + 1), NEW e2 \in 1..(n + 1), e1 # e2
        PROVE  Created(commits'[e1].plan) \cap Created(commits'[e2].plan) = {}
    <2>1. CASE e1 \in 1..n /\ e2 \in 1..n
      BY <1>4, <1>6, <2>1 DEF IdentityCreatedOnce, n
    <2>2. CASE e1 \in 1..n /\ e2 \notin 1..n
      BY <1>3, <1>4, <2>2
    <2>3. CASE e1 \notin 1..n /\ e2 \in 1..n
      BY <1>3, <1>4, <2>3
    <2>4. CASE e1 \notin 1..n /\ e2 \notin 1..n
      BY <1>4, <1>6, <2>4
    <2> QED BY <2>1, <2>2, <2>3, <2>4
  <1> QED BY <1>1, <1>5, <1>6 DEF IdentityCreatedOnce

\* No two commits ever create the same identity, whatever callers interleave.
THEOREM IdentitiesCreatedOnce == Spec => []IdentityCreatedOnce
  <1>1. Init => IdentitiesGuarded
    <2> SUFFICES ASSUME Init, Bookkeeping PROVE IdentitiesGuarded
      BY BookkeepingInit
    <2>1. Len(commits) = 0
      BY DEF Init
    <2>2. \A x \in Callers : Created(plan[x]) = {}
      BY DEF Init, NoPlan, Created
    <2> QED BY <2>1, <2>2 DEF IdentitiesGuarded, IdentityCreatedOnce
  <1>2. IdentitiesGuarded /\ [Next]_vars => IdentitiesGuarded'
    <2> SUFFICES ASSUME IdentitiesGuarded, [Next]_vars PROVE IdentitiesGuarded'
      OBVIOUS
    <2>1. Bookkeeping'
      BY BookkeepingStep DEF IdentitiesGuarded
    <2>2. CASE UNCHANGED vars
      BY <2>1, <2>2 DEF vars, IdentitiesGuarded, IdentityCreatedOnce
    <2>3. ASSUME NEW x \in Callers, Apply(x) PROVE IdentitiesGuarded'
      BY <2>1, <2>3, PlansStayGuarded, CommitCreatesNewIdentities DEF IdentitiesGuarded
    <2>4. ASSUME NEW x \in Callers,
                 \/ PlanCandidates(x) \/ PlanCompensation(x) \/ Retry(x)
                 \/ Check(x) \/ ApplyRefused(x) \/ Publish(x) \/ Finish(x) \/ Raise(x)
          PROVE  IdentitiesGuarded'
      <3>1. graph' = graph /\ commits' = commits
        BY <2>4, OtherStepsTyped DEF IdentitiesGuarded, Bookkeeping
      <3>2. \A y \in Callers : Created(plan'[y]) \subseteq plan'[y].fresh
        BY <2>4, PlansStayGuarded
      <3> QED BY <2>1, <3>1, <3>2 DEF IdentitiesGuarded, IdentityCreatedOnce
    <2> QED BY <2>2, <2>3, <2>4 DEF Next, Execute
  <1>3. IdentitiesGuarded => IdentityCreatedOnce
    BY DEF IdentitiesGuarded
  <1> QED BY <1>1, <1>2, <1>3, PTL DEF Spec

-----------------------------------------------------------------------------
(* Serialised calls.  The executor reads the graph, then applies: with one    *)
(* call at a time and a reader, what it read is still so when it applies.     *)

\* Where a plan comes from: the planner, or the undoing of a commit.
Made(p) ==
    \/ \E n \in Nat : p \in PlannerPlans(n)
    \/ \E e \in 1..Len(commits) : p = Compensate(commits[e].plan, e)

OneCallAtATime ==
    \A x, y \in Callers : phase[x] \in Executing /\ phase[y] \in Executing => x = y

CheckedStillHolds ==
    \A x \in Callers :
        phase[x] = "checked" => ReaderGuardsHold(graph, plan[x]) /\ ~SelfConflicting(plan[x])

PlansAreMade == \A x \in Callers : phase[x] # "idle" => Made(plan[x])

\* The strengthening of CommittedAgainstItsSnapshot that steps preserve.
Serialised ==
    /\ Bookkeeping
    /\ OneCallAtATime
    /\ CheckedStillHolds
    /\ PlansAreMade
    /\ CommittedAgainstItsSnapshot

\* Where a step other than Check and Apply may take the callers.
LEMMA OtherPhases ==
    ASSUME TypeOK, NEW x \in Callers,
           \/ PlanCandidates(x) \/ PlanCompensation(x) \/ Retry(x)
           \/ ApplyRefused(x) \/ Publish(x) \/ Finish(x) \/ Raise(x)
    PROVE  /\ \A y \in Callers : phase'[y] \in Executing => phase[y] \in Executing
           /\ \A y \in Callers : phase'[y] = "checked" => phase[y] = "checked" /\ plan'[y] = plan[y]
  <1>1. CASE PlanCandidates(x) \/ PlanCompensation(x) \/ Retry(x)
    <2>1. phase' = [phase EXCEPT ![x] = "planned"]
          /\ \E p : plan' = [plan EXCEPT ![x] = p]
      BY <1>1 DEF PlanCandidates, PlanCompensation, Retry, Hold
    <2> QED BY <2>1 DEF TypeOK, Executing
  <1>2. CASE ApplyRefused(x) \/ Publish(x)
    <2>1. /\ phase' \in {[phase EXCEPT ![x] = "publishing"], [phase EXCEPT ![x] = "finishing"]}
          /\ plan' = plan /\ phase[x] \in Executing
      BY <1>2, PublishSteps DEF ApplyRefused, Executing
    <2> QED BY <2>1 DEF TypeOK, Executing
  <1>3. CASE Finish(x) \/ Raise(x)
    <2>1. phase' \in {[phase EXCEPT ![x] = "returned"], [phase EXCEPT ![x] = "raised"]}
          /\ plan' = plan
      BY <1>3 DEF Finish, Raise
    <2> QED BY <2>1 DEF TypeOK, Executing
  <1> QED BY <1>1, <1>2, <1>3

\* A call that passes its checks starts alone, on a plan whose guards hold.
LEMMA CheckStartsAlone ==
    ASSUME SingleThreaded, HasReader, TypeOK, NEW x \in Callers, Check(x)
    PROVE  /\ \A y \in Callers : phase[y] \notin Executing
           /\ \A y \in Callers : y # x => phase'[y] = phase[y]
           /\ phase'[x] = "checked" =>
                ReaderGuardsHold(graph, plan[x]) /\ ~SelfConflicting(plan[x])
           /\ phase[x] = "planned" /\ graph' = graph /\ plan' = plan
  <1>1. \A y \in Callers : phase[y] \notin Executing
    BY DEF Check, MayStart
  <1>2. graph' = graph /\ plan' = plan /\ phase[x] = "planned"
    BY DEF Check
  <1>3. CASE Refusal(plan[x]) = {} /\ phase' = [phase EXCEPT ![x] = "checked"]
    <2>1. ReaderGuardsHold(graph, plan[x]) /\ ~SelfConflicting(plan[x])
      BY <1>3, Zenon DEF Refusal
    <2> QED BY <1>1, <1>2, <1>3, <2>1 DEF TypeOK
  <1>4. CASE phase' = [phase EXCEPT ![x] = "finishing"]
    BY <1>1, <1>2, <1>4 DEF TypeOK
  <1> QED BY <1>3, <1>4 DEF Check

\* Serialised calls stay serialised, and what a call checked stays so.
LEMMA SerialStep ==
    ASSUME SingleThreaded, HasReader, TypeOK, OneCallAtATime, CheckedStillHolds,
           NEW x \in Callers,
           \/ PlanCandidates(x) \/ PlanCompensation(x) \/ Retry(x)
           \/ Check(x) \/ Apply(x) \/ ApplyRefused(x) \/ Publish(x) \/ Finish(x) \/ Raise(x)
    PROVE  OneCallAtATime' /\ CheckedStillHolds'
  <1>1. CASE Check(x)
    BY <1>1, CheckStartsAlone DEF OneCallAtATime, CheckedStillHolds, Executing
  <1>2. CASE Apply(x)
    <2>1. phase[x] \in Executing /\ phase' = [phase EXCEPT ![x] = "applied"]
      BY <1>2 DEF Apply, Executing
    <2>2. \A y \in Callers : phase'[y] \in Executing => phase[y] \in Executing
      BY <2>1 DEF TypeOK
    <2>3. \A y \in Callers : phase'[y] # "checked"
      BY <2>1 DEF TypeOK, OneCallAtATime, Executing
    <2> QED BY <2>2, <2>3 DEF OneCallAtATime, CheckedStillHolds
  <1>3. CASE \/ PlanCandidates(x) \/ PlanCompensation(x) \/ Retry(x)
             \/ ApplyRefused(x) \/ Publish(x) \/ Finish(x) \/ Raise(x)
    <2>1. graph' = graph
      BY <1>3, OtherStepsTyped
    <2>2. OneCallAtATime'
      BY <1>3, OtherPhases DEF OneCallAtATime
    <2>3. CheckedStillHolds'
      BY <1>3, <2>1, OtherPhases DEF CheckedStillHolds
    <2> QED BY <2>2, <2>3
  <1> QED BY <1>1, <1>2, <1>3

\* Plans keep their origin: the history they may name only grows.
LEMMA PlansStayMade ==
    ASSUME Bookkeeping, PlansAreMade, NEW x \in Callers,
           \/ PlanCandidates(x) \/ PlanCompensation(x) \/ Retry(x)
           \/ Check(x) \/ Apply(x) \/ ApplyRefused(x) \/ Publish(x) \/ Finish(x) \/ Raise(x)
    PROVE  PlansAreMade'
  <1> USE DEF Bookkeeping
  <1>1. ASSUME NEW p, Made(p) PROVE Made(p)'
    <2>1. CASE Apply(x)
      BY <1>1, <2>1, CommitAppends DEF Made
    <2>2. CASE ~Apply(x)
      <3>1. commits' = commits
        BY <2>2, OtherStepsTyped
      <3> QED BY <1>1, <3>1 DEF Made
    <2> QED BY <2>1, <2>2
  <1>2. ASSUME NEW p, Hold(x, p), Made(p) PROVE PlansAreMade'
    <2>1. /\ plan' = [plan EXCEPT ![x] = p] /\ plan \in [Callers -> Plans]
          /\ phase' = [phase EXCEPT ![x] = "planned"] /\ phase \in [Callers -> Phases]
          /\ commits' = commits
      BY <1>2 DEF Hold, TypeOK
    <2>2. \A y \in Callers : y # x => phase'[y] = phase[y] /\ plan'[y] = plan[y]
      BY <2>1
    <2>3. plan'[x] = p
      BY <2>1
    <2> QED BY <1>2, <2>1, <2>2, <2>3 DEF PlansAreMade, Made
  <1>3. CASE PlanCandidates(x)
    <2> PICK p \in PlannerPlans(graph.epoch) : Hold(x, p)
      BY <1>3 DEF PlanCandidates
    <2>1. graph.epoch \in Nat
      BY DEF TypeOK, Graphs
    <2> QED BY <1>2, <2>1 DEF Made
  <1>4. CASE PlanCompensation(x)
    <2> PICK r \in log : Hold(x, Compensate(r.plan, r.epoch))
      BY <1>4 DEF PlanCompensation
    <2>1. r.epoch \in 1..Len(commits) /\ r.plan = commits[r.epoch].plan
      BY DEF Truthful
    <2>2. Made(Compensate(r.plan, r.epoch))
      BY <2>1 DEF Made
    <2> QED BY <1>2, <2>2
  <1>5. CASE Retry(x)
    BY <1>2, <1>5 DEF Retry, PlansAreMade
  <1>6. CASE Check(x) \/ Apply(x) \/ ApplyRefused(x) \/ Publish(x) \/ Finish(x) \/ Raise(x)
    <2>1. plan' = plan /\ phase[x] # "idle" /\ \E s : phase' = [phase EXCEPT ![x] = s]
      BY <1>6, PublishSteps DEF Check, Apply, ApplyRefused, Finish, Raise, Executing
    <2>2. \A y \in Callers : phase'[y] # "idle" => phase[y] # "idle"
      BY <2>1 DEF TypeOK
    <2>3. ASSUME NEW y \in Callers, phase'[y] # "idle" PROVE Made(plan[y])'
      <3>1. Made(plan[y])
        BY <2>2, <2>3 DEF PlansAreMade
      <3>2. CASE Apply(x)
        BY <2>1, <3>1, <3>2, CommitAppends DEF Made
      <3>3. CASE ~Apply(x)
        <4>1. commits' = commits
          BY <3>3, OtherStepsTyped
        <4> QED BY <2>1, <3>1, <4>1 DEF Made
      <3> QED BY <3>2, <3>3
    <2> QED BY <2>3 DEF PlansAreMade
  <1> QED BY <1>3, <1>4, <1>5, <1>6

\* A commit happens at the snapshot its plan was computed on.
LEMMA SerialCommit ==
    ASSUME Serialised, NEW x \in Callers, Apply(x)
    PROVE  /\ ReaderGuardsHold(graph, plan[x])
           /\ ~SelfConflicting(plan[x])
           /\ Made(plan[x])
           /\ CommittedAgainstItsSnapshot'
  <1>1. ReaderGuardsHold(graph, plan[x]) /\ ~SelfConflicting(plan[x]) /\ Made(plan[x])
    BY DEF Serialised, CheckedStillHolds, PlansAreMade, Apply
  <1>2. plan[x].snapshot = Len(commits)
    BY <1>1 DEF ReaderGuardsHold, Serialised, Bookkeeping
  <1>3. CommittedAgainstItsSnapshot'
    BY <1>2, CommitAppends DEF Serialised, Bookkeeping, CommittedAgainstItsSnapshot
  <1> QED BY <1>1, <1>3

\* The serialised invariant is inductive.
LEMMA SerialInvariant ==
    ASSUME SingleThreaded, HasReader
    PROVE  Spec => []Serialised
  <1>1. Init => Serialised
    <2> SUFFICES ASSUME Init, Bookkeeping PROVE Serialised
      BY BookkeepingInit
    <2>1. \A x \in Callers : phase[x] = "idle"
      BY DEF Init
    <2>2. Len(commits) = 0
      BY DEF Init
    <2> QED BY <2>1, <2>2 DEF Serialised, OneCallAtATime, CheckedStillHolds, PlansAreMade,
                              CommittedAgainstItsSnapshot, Executing
  <1>2. Serialised /\ [Next]_vars => Serialised'
    <2> SUFFICES ASSUME Serialised, [Next]_vars PROVE Serialised'
      OBVIOUS
    <2>1. Bookkeeping'
      BY BookkeepingStep DEF Serialised
    <2>2. CASE UNCHANGED vars
      BY <2>1, <2>2 DEF vars, Serialised, OneCallAtATime, CheckedStillHolds, PlansAreMade,
                        Made, CommittedAgainstItsSnapshot
    <2>3. CASE Next
      <3> PICK x \in Callers :
            \/ PlanCandidates(x) \/ PlanCompensation(x) \/ Retry(x)
            \/ Check(x) \/ Apply(x) \/ ApplyRefused(x) \/ Publish(x) \/ Finish(x) \/ Raise(x)
        BY <2>3 DEF Next, Execute
      <3>1. OneCallAtATime' /\ CheckedStillHolds'
        BY SerialStep DEF Serialised, Bookkeeping
      <3>2. PlansAreMade'
        BY PlansStayMade DEF Serialised
      <3>3. CommittedAgainstItsSnapshot'
        <4>1. CASE Apply(x)
          BY <4>1, SerialCommit
        <4>2. CASE ~Apply(x)
          <5>1. commits' = commits
            BY <4>2, OtherStepsTyped DEF Serialised, Bookkeeping
          <5> QED BY <5>1 DEF Serialised, CommittedAgainstItsSnapshot
        <4> QED BY <4>1, <4>2
      <3> QED BY <2>1, <3>1, <3>2, <3>3 DEF Serialised
    <2> QED BY <2>2, <2>3
  <1> QED BY <1>1, <1>2, PTL DEF Spec

\* "A plan computed against epoch N only applies while the graph is still at N":
\* true when calls of execute are serialised and the executor has a reader.
THEOREM SnapshotIsolation ==
    ASSUME SingleThreaded, HasReader
    PROVE  Spec => []CommittedAgainstItsSnapshot
  <1>1. Serialised => CommittedAgainstItsSnapshot
    BY DEF Serialised
  <1> QED BY <1>1, SerialInvariant, PTL

-----------------------------------------------------------------------------
(* One row per assertion id (ADR-0019).                                       *)

\* OneRowPerAssertion made inductive: what was committed, the adapter applies.
OneRowEach ==
    /\ Serialised
    /\ \A e \in 1..Len(commits) : OpTypes(commits[e].plan) \subseteq Implemented
    /\ OneRowPerAssertion

\* A plan about to be committed attaches only what it guards, unless the
\* adapter replaces rows by id (ADR-0018 requires that of one that retracts).
LEMMA AttachesAreGuarded ==
    ASSUME OneRowEach, AttachMode = "upsert" \/ "RETRACT_ASSERTION" \notin Implemented,
           NEW p, Made(p)
    PROVE  AttachMode = "upsert" \/ \A o \in p.ops : o.type = "ATTACH_ASSERTION" => Target(o) \in p.absent
  <1>1. CASE AttachMode = "upsert"
    BY <1>1
  <1>2. CASE "RETRACT_ASSERTION" \notin Implemented /\ \E n \in Nat : p \in PlannerPlans(n)
    BY <1>2, PlannerGuardsComplete
  <1>3. CASE /\ "RETRACT_ASSERTION" \notin Implemented
             /\ \E e \in 1..Len(commits) : p = Compensate(commits[e].plan, e)
    <2> PICK e \in 1..Len(commits) : p = Compensate(commits[e].plan, e)
      BY <1>3
    <2>1. TypeOK /\ OpTypes(commits[e].plan) \subseteq Implemented
      BY DEF OneRowEach, Serialised, Bookkeeping
    <2>2. commits[e].plan \in Plans /\ e \in Nat
      <3>1. commits \in Seq(CommitEntry)
        BY <2>1 DEF TypeOK, CommitEntry
      <3>2. commits[e] \in CommitEntry /\ e \in Nat
        BY <3>1
      <3> QED BY <3>2 DEF CommitEntry
    <2>3. "RETRACT_ASSERTION" \notin OpTypes(commits[e].plan)
      BY <1>3, <2>1
    <2> QED BY <2>2, <2>3, CompensationAttaches
  <1> QED BY <1>1, <1>2, <1>3 DEF Made

\* A commit keeps one row per id.
LEMMA CommitKeepsOneRow ==
    ASSUME OneRowEach, AttachMode = "upsert" \/ "RETRACT_ASSERTION" \notin Implemented,
           NEW x \in Callers, Apply(x)
    PROVE  /\ OneRowPerAssertion'
           /\ \A e \in 1..Len(commits') : OpTypes(commits'[e].plan) \subseteq Implemented
  <1>1. Serialised /\ TypeOK /\ OneRowPerAssertion
    BY DEF OneRowEach, Serialised, Bookkeeping
  <1>2. ReaderGuardsHold(graph, plan[x]) /\ ~SelfConflicting(plan[x]) /\ Made(plan[x])
    BY <1>1, SerialCommit
  <1>3. graph \in Graphs /\ plan[x] \in Plans /\ graph' = ApplyBatch(graph, plan[x].ops)
    BY <1>1 DEF TypeOK, Apply
  <1>4. \A a \in Assertions : Len(graph.rows[a]) <= 1
    BY <1>1 DEF OneRowPerAssertion
  <1>5. AttachMode = "upsert"
        \/ \A o \in plan[x].ops : o.type = "ATTACH_ASSERTION" => Target(o) \in plan[x].absent
    BY <1>2, AttachesAreGuarded
  <1>6. \A a \in Assertions : Len(ApplyBatch(graph, plan[x].ops).rows[a]) <= 1
    BY <1>2, <1>3, <1>4, <1>5, GuardedBatchKeepsOneRow
  <1>7. OneRowPerAssertion'
    BY <1>3, <1>6 DEF OneRowPerAssertion
  <1>8. OpTypes(plan[x]) \subseteq Implemented
    BY DEF Apply
  <1>9. \A e \in 1..Len(commits') : OpTypes(commits'[e].plan) \subseteq Implemented
    BY <1>1, <1>8, CommitAppends DEF OneRowEach
  <1> QED BY <1>7, <1>9

\* One row per id is kept by every step.
LEMMA OneRowInvariant ==
    ASSUME SingleThreaded, HasReader,
           AttachMode = "upsert" \/ "RETRACT_ASSERTION" \notin Implemented
    PROVE  Spec => []OneRowEach
  <1>1. Init /\ Serialised => OneRowEach
    <2> SUFFICES ASSUME Init, Serialised PROVE OneRowEach
      OBVIOUS
    <2>1. \A a \in Assertions : graph.rows[a] = << >> /\ Len(graph.rows[a]) = 0
      BY DEF Init, EmptyGraph
    <2>2. Len(commits) = 0
      BY DEF Init
    <2> QED BY <2>1, <2>2 DEF OneRowEach, OneRowPerAssertion
  <1>2. OneRowEach /\ [Next]_vars /\ Serialised' => OneRowEach'
    <2> SUFFICES ASSUME OneRowEach, [Next]_vars, Serialised' PROVE OneRowEach'
      OBVIOUS
    <2>1. ASSUME NEW x \in Callers, Apply(x) PROVE OneRowEach'
      BY <2>1, CommitKeepsOneRow DEF OneRowEach
    <2>2. CASE graph' = graph /\ commits' = commits
      BY <2>2 DEF OneRowEach, OneRowPerAssertion
    <2> QED BY <2>1, <2>2, OtherStepsTyped
            DEF Next, Execute, vars, OneRowEach, Serialised, Bookkeeping
  <1> QED BY <1>1, <1>2, SerialInvariant, PTL DEF Spec

\* ADR-0019's corruption never happens: through replays, re-planned replays and
\* self-conflicting plans an assertion id keeps at most one row.
THEOREM NoDuplicateRows ==
    ASSUME SingleThreaded, HasReader,
           AttachMode = "upsert" \/ "RETRACT_ASSERTION" \notin Implemented
    PROVE  Spec => []OneRowPerAssertion
  <1>1. OneRowEach => OneRowPerAssertion
    BY DEF OneRowEach
  <1> QED BY <1>1, OneRowInvariant, PTL

-----------------------------------------------------------------------------
(* Rollback (RollbackRestores).  Every committed batch adds only what was     *)
(* not shown and removes only what was, so undoing it right away, which is    *)
(* the only moment its snapshot guard allows, shows what was shown before.    *)

\* ShownBefore, of any history.
Before(history, e) == IF e = 1 THEN {} ELSE history[e - 1].shows

\* Commit e took the graph from what it showed before to what it shows after.
Reversible(history, e) ==
    LET ops == history[e].plan.ops
    IN  /\ OneTypePerTarget(ops)
        /\ Adds(ops) \cap Before(history, e) = {}
        /\ Removes(ops) \subseteq Before(history, e)
        /\ history[e].shows = (Before(history, e) \ Removes(ops)) \cup Adds(ops)

\* RollbackRestores made inductive: what the graph shows now, what the store
\* has never touched, and how each commit changed what is shown.
RollbackInvariant ==
    /\ OneRowEach
    /\ Visible(graph) = Before(commits, Len(commits) + 1)
    /\ \A i \in Identities \ graph.touched : graph.entity[i] = "NONE"
    /\ \A e \in 1..Len(commits) : Reversible(commits, e)
    /\ RollbackRestores

\* What a commit leaves of the history it appends to.
LEMMA CommitKeepsShown ==
    ASSUME TypeOK, NEW x \in Callers, Apply(x)
    PROVE  /\ \A e \in 1..(Len(commits) + 1) : Before(commits', e) = Before(commits, e)
           /\ Before(commits', Len(commits) + 2) = Visible(graph')
           /\ \A e \in 1..Len(commits) : Reversible(commits, e) => Reversible(commits', e)
  <1> DEFINE n == Len(commits)
  <1>1. /\ n \in Nat /\ \A e \in 1..n : commits'[e] = commits[e]
        /\ commits'[n + 1].shows = Visible(graph')
    BY CommitAppends
  <1> HIDE DEF n
  <1>2. ASSUME NEW e \in 1..(n + 1) PROVE Before(commits', e) = Before(commits, e)
    <2>1. CASE e = 1
      BY <2>1 DEF Before
    <2>2. CASE e # 1
      <3>1. e - 1 \in 1..n
        BY <1>1, <2>2
      <3> QED BY <1>1, <2>2, <3>1 DEF Before
    <2> QED BY <2>1, <2>2
  <1>3. Before(commits', n + 2) = Visible(graph')
    BY <1>1 DEF Before
  <1>4. ASSUME NEW e \in 1..n, Reversible(commits, e) PROVE Reversible(commits', e)
    <2>1. e \in 1..(n + 1)
      BY <1>1
    <2> QED BY <1>1, <1>2, <1>4, <2>1 DEF Reversible
  <1> QED BY <1>2, <1>3, <1>4 DEF n

\* A plan that commits adds only what is not shown and removes only what is: the
\* planner's guards say so, and a compensation comes right after its commit.
LEMMA CommitIsReversible ==
    ASSUME RollbackInvariant, NEW x \in Callers, Apply(x)
    PROVE  LET p == plan[x]
               last == Len(commits)
           IN  /\ OneTypePerTarget(p.ops)
               /\ Adds(p.ops) \cap Visible(graph) = {}
               /\ Removes(p.ops) \subseteq Visible(graph)
               /\ p.compensation =>
                    /\ last >= 1
                    /\ (Visible(graph) \ Removes(p.ops)) \cup Adds(p.ops) = Before(commits, last)
  <1> DEFINE p == plan[x]
             last == Len(commits)
  <1>1. Serialised /\ Bookkeeping /\ TypeOK
    BY DEF RollbackInvariant, OneRowEach, Serialised, Bookkeeping
  <1>2. ReaderGuardsHold(graph, p) /\ Made(p)
    BY <1>1, SerialCommit
  <1>3. p.snapshot = last /\ last \in Nat
    BY <1>1, <1>2, CommitAppends DEF ReaderGuardsHold, Bookkeeping
  <1>4. CASE \E n \in Nat : p \in PlannerPlans(n)
    <2> PICK n \in Nat : p \in PlannerPlans(n)
      BY <1>4
    <2>1. /\ OneTypePerTarget(p.ops) /\ Adds(p.ops) \subseteq p.fresh \cup p.absent
          /\ Removes(p.ops) = {} /\ ~p.compensation
      BY PlannerAdds
    <2>2. p.fresh \in SUBSET Identities /\ p.absent \in SUBSET Assertions
      BY <1>1 DEF TypeOK, Plans
    <2>3. ASSUME NEW i \in p.fresh PROVE i \notin Visible(graph)
      <3>1. i \in Identities \ graph.touched
        BY <2>2 DEF Apply, StoreGuardsHold
      <3>2. graph.entity[i] = "NONE"
        BY <3>1 DEF RollbackInvariant
      <3> QED BY <2>2, <3>2, GraphConstants DEF Visible
    <2>4. ASSUME NEW a \in p.absent PROVE a \notin Visible(graph)
      <3>1. Len(graph.rows[a]) = 0
        BY <1>2 DEF ReaderGuardsHold
      <3> QED BY <2>2, <3>1, GraphConstants DEF Visible
    <2> QED BY <2>1, <2>3, <2>4
  <1>5. CASE \E e \in 1..last : p = Compensate(commits[e].plan, e)
    <2> PICK e \in 1..last : p = Compensate(commits[e].plan, e)
      BY <1>5
    <2>1. commits[e].plan \in Plans /\ e \in Nat
      <3>1. commits \in Seq(CommitEntry)
        BY <1>1 DEF TypeOK, CommitEntry
      <3>2. commits[e] \in CommitEntry /\ e \in Nat
        BY <3>1
      <3> QED BY <3>2 DEF CommitEntry
    <2>2. e = last
      BY <1>3, <2>1, CompensateTyped
    <2> DEFINE q == commits[last].plan
               before == Before(commits, last)
    <2>3. q \in Plans /\ p = Compensate(q, last)
      BY <2>1, <2>2
    <2>4. /\ OneTypePerTarget(q.ops) /\ Adds(q.ops) \cap before = {}
          /\ Removes(q.ops) \subseteq before
          /\ commits[last].shows = (before \ Removes(q.ops)) \cup Adds(q.ops)
      BY <2>2 DEF RollbackInvariant, Reversible
    <2>5. Visible(graph) = commits[last].shows
      <3>1. last + 1 # 1 /\ (last + 1) - 1 = last
        BY <1>3, <2>2
      <3> QED BY <3>1 DEF RollbackInvariant, Before
    <2>6. /\ Adds(p.ops) = Removes(q.ops) /\ Removes(p.ops) = Adds(q.ops)
          /\ OneTypePerTarget(p.ops)
      BY <2>3, <2>4, CompensationSwaps
    <2> HIDE DEF q, before
    <2> QED BY <1>3, <2>2, <2>4, <2>5, <2>6 DEF before
  <1> QED BY <1>2, <1>4, <1>5 DEF Made

\* A commit keeps the invariant.
LEMMA CommitKeepsRollback ==
    ASSUME RollbackInvariant, OneRowEach', NEW x \in Callers, Apply(x),
           AttachMode = "upsert" \/ "RETRACT_ASSERTION" \notin Implemented
    PROVE  RollbackInvariant'
  <1> DEFINE p == plan[x]
             n == Len(commits)
  <1>1. TypeOK /\ Serialised
    BY DEF RollbackInvariant, OneRowEach, Serialised, Bookkeeping
  <1>2. /\ n \in Nat /\ Len(commits') = n + 1 /\ commits'[n + 1].plan = p
        /\ commits'[n + 1].shows = Visible(graph')
        /\ \A e \in 1..n : commits'[e] = commits[e]
    BY <1>1, CommitAppends
  <1>3. graph \in Graphs /\ p \in Plans /\ p.ops \in SUBSET Operations
        /\ graph' = ApplyBatch(graph, p.ops)
    BY <1>1 DEF TypeOK, Apply, Plans
  <1>4. /\ OneTypePerTarget(p.ops) /\ Adds(p.ops) \cap Visible(graph) = {}
        /\ Removes(p.ops) \subseteq Visible(graph)
        /\ p.compensation => n >= 1 /\ (Visible(graph) \ Removes(p.ops)) \cup Adds(p.ops) = Before(commits, n)
    BY CommitIsReversible
  <1>5. Visible(graph') = (Visible(graph) \ Removes(p.ops)) \cup Adds(p.ops)
    <2>1. \A a \in Assertions : Len(graph.rows[a]) <= 1
      BY DEF RollbackInvariant, OneRowEach, OneRowPerAssertion
    <2>2. ReaderGuardsHold(graph, p) /\ Made(p)
      BY <1>1, SerialCommit
    <2>3. AttachMode = "upsert"
          \/ \A o \in p.ops : o.type = "ATTACH_ASSERTION" => Target(o) \in p.absent
      BY <2>2, AttachesAreGuarded DEF RollbackInvariant
    <2>4. ASSUME NEW a \in Assertions, a \in Adds(p.ops), AttachMode # "upsert"
          PROVE  graph.rows[a] = << >>
      <3> PICK o \in p.ops : o.type \in AddingTypes /\ Target(o) = a
        BY <2>4 DEF Adds
      <3>1. o.type = "ATTACH_ASSERTION"
        BY <1>3, GraphConstants, OperationTyped DEF AddingTypes, IdentityOps
      <3> QED BY <2>2, <2>3, <2>4, <3>1 DEF ReaderGuardsHold
    <2> QED BY <1>3, <1>4, <2>1, <2>4, BatchShows
  <1>6. /\ \A e \in 1..(n + 1) : Before(commits', e) = Before(commits, e)
        /\ Before(commits', n + 2) = Visible(graph')
        /\ \A e \in 1..n : Reversible(commits, e) => Reversible(commits', e)
    BY <1>1, CommitKeepsShown
  <1>7. Before(commits, n + 1) = Visible(graph)
    BY DEF RollbackInvariant
  <1> HIDE DEF n, p
  <1>8. Visible(graph') = Before(commits', Len(commits') + 1)
    <2>1. Len(commits') + 1 = n + 2
      BY <1>2
    <2> QED BY <1>6, <2>1
  <1>9. ASSUME NEW i \in Identities \ graph'.touched PROVE graph'.entity[i] = "NONE"
    <2>1. i \notin graph.touched /\ \A o \in p.ops : Subject(o) # i
      BY <1>3, <1>9 DEF ApplyBatch
    <2>2. \A o \in p.ops : Target(o) # i
      BY <1>3, <2>1, OperationTyped, GraphConstants DEF Subject
    <2>3. EntityAfter(graph, p.ops, i) = graph.entity[i]
      BY <2>2 DEF EntityAfter, OpsOn
    <2> QED BY <1>3, <2>1, <2>3 DEF ApplyBatch, RollbackInvariant
  <1>10. ASSUME NEW e \in 1..(n + 1) PROVE Reversible(commits', e)
    <2>1. CASE e \in 1..n
      BY <1>6, <2>1 DEF RollbackInvariant, n
    <2>2. CASE e = n + 1
      <3>1. n + 1 \in 1..(n + 1)
        BY <1>2
      <3>2. Before(commits', n + 1) = Visible(graph)
        BY <1>6, <1>7, <3>1
      <3> QED BY <1>2, <1>4, <1>5, <2>2, <3>2 DEF Reversible
    <2> QED BY <1>2, <2>1, <2>2
  <1>11. RollbackRestores'
    <2> SUFFICES ASSUME NEW e \in 2..(n + 1), commits'[e].plan.compensation
                 PROVE  commits'[e].shows = Before(commits', e - 1)
      BY <1>2 DEF RollbackRestores, ShownBefore, Before
    <2>1. CASE e \in 2..n
      <3>1. e \in 1..n /\ e - 1 \in 1..(n + 1)
        BY <1>2, <2>1
      <3>2. commits[e].shows = Before(commits, e - 1)
        BY <1>2, <2>1, <3>1 DEF RollbackInvariant, RollbackRestores, ShownBefore, Before, n
      <3> QED BY <1>2, <1>6, <3>1, <3>2
    <2>2. CASE e = n + 1
      <3>1. e - 1 = n /\ n \in 1..(n + 1)
        BY <1>2, <2>2
      <3>2. p.compensation
        BY <1>2, <2>2
      <3>3. commits'[e].shows = Before(commits, n)
        BY <1>2, <1>4, <1>5, <2>2, <3>2
      <3>4. Before(commits', e - 1) = Before(commits, n)
        BY <1>6, <3>1
      <3> QED BY <3>3, <3>4
    <2> QED BY <1>2, <2>1, <2>2
  <1> QED BY <1>2, <1>8, <1>9, <1>10, <1>11 DEF RollbackInvariant

\* "Undo" undoes: after a committed compensation a default read shows what it
\* showed before the commit that was compensated, through compensations of
\* compensations, for every plan the planner can make.
THEOREM CommittedRollbackRestores ==
    ASSUME SingleThreaded, HasReader,
           AttachMode = "upsert" \/ "RETRACT_ASSERTION" \notin Implemented
    PROVE  Spec => []RollbackRestores
  <1>1. Init /\ OneRowEach => RollbackInvariant
    <2> SUFFICES ASSUME Init, OneRowEach PROVE RollbackInvariant
      OBVIOUS
    <2>1. Len(commits) = 0 /\ graph = EmptyGraph
      BY DEF Init
    <2>2. Visible(graph) = {} /\ \A i \in Identities : graph.entity[i] = "NONE"
      BY <2>1 DEF Visible, EmptyGraph
    <2>3. Before(commits, Len(commits) + 1) = {}
      BY <2>1 DEF Before
    <2>4. 1..Len(commits) = {} /\ 2..Len(commits) = {}
      BY <2>1
    <2>5. RollbackRestores
      BY <2>4 DEF RollbackRestores
    <2> QED BY <2>2, <2>3, <2>4, <2>5 DEF RollbackInvariant
  <1>2. RollbackInvariant /\ [Next]_vars /\ OneRowEach' => RollbackInvariant'
    <2> SUFFICES ASSUME RollbackInvariant, [Next]_vars, OneRowEach' PROVE RollbackInvariant'
      OBVIOUS
    <2>1. ASSUME NEW x \in Callers, Apply(x) PROVE RollbackInvariant'
      BY <2>1, CommitKeepsRollback
    <2>2. CASE graph' = graph /\ commits' = commits
      BY <2>2 DEF RollbackInvariant, Reversible, Before, RollbackRestores, ShownBefore
    <2> QED BY <2>1, <2>2, OtherStepsTyped
            DEF Next, Execute, vars, RollbackInvariant, OneRowEach, Serialised, Bookkeeping
  <1>3. RollbackInvariant => RollbackRestores
    BY DEF RollbackInvariant
  <1> QED BY <1>1, <1>2, <1>3, OneRowInvariant, PTL DEF Spec

-----------------------------------------------------------------------------
(* The watermark: publish compares and then assigns, without a lock, so what  *)
(* it promises takes publish calls that do not overlap.                       *)

\* In a single thread a call starts only when no other is under way.
LEMMA CallsStaySerial ==
    ASSUME SingleThreaded, TypeOK, OneCallAtATime, NEW x \in Callers,
           \/ PlanCandidates(x) \/ PlanCompensation(x) \/ Retry(x)
           \/ Check(x) \/ Apply(x) \/ ApplyRefused(x) \/ Publish(x) \/ Finish(x) \/ Raise(x)
    PROVE  OneCallAtATime'
  <1>1. CASE Check(x)
    <2>1. \A y \in Callers : phase[y] \notin Executing
      BY <1>1 DEF Check, MayStart
    <2>2. \E s : phase' = [phase EXCEPT ![x] = s]
      BY <1>1 DEF Check
    <2> QED BY <2>1, <2>2 DEF OneCallAtATime, TypeOK
  <1>2. CASE Apply(x)
    <2>1. phase[x] \in Executing /\ phase' = [phase EXCEPT ![x] = "applied"]
      BY <1>2 DEF Apply, Executing
    <2> QED BY <2>1 DEF TypeOK, OneCallAtATime
  <1>3. CASE \/ PlanCandidates(x) \/ PlanCompensation(x) \/ Retry(x)
             \/ ApplyRefused(x) \/ Publish(x) \/ Finish(x) \/ Raise(x)
    BY <1>3, OtherPhases DEF OneCallAtATime
  <1> QED BY <1>1, <1>2, <1>3

\* At most one call is between its comparison and its assignment, and what it is
\* about to assign is still above the watermark.
OnePublisher ==
    \A x, y \in Callers : phase[x] = "publishing" /\ phase[y] = "publishing" => x = y

StillAhead ==
    \A x \in Callers : phase[x] = "publishing" => result[x].epoch > published

PublishedInOrder ==
    /\ Bookkeeping
    /\ SingleThreaded => OneCallAtATime
    /\ OnePublisher
    /\ StillAhead

\* A call that passes its comparison is then the only one past it.
LEMMA PublishStaysInOrder ==
    ASSUME PublishAlone \/ SingleThreaded, PublishedInOrder, NEW x \in Callers, Publish(x)
    PROVE  OnePublisher' /\ StillAhead' /\ published' >= published
  <1> USE DEF PublishedInOrder, Bookkeeping
  <1>1. result' = result /\ published \in Nat /\ result[x].epoch \in Nat
    BY PublishSteps DEF TypeOK, ExecutionRecord
  <1>2. CASE /\ published' = published /\ phase' = [phase EXCEPT ![x] = "publishing"]
             /\ phase[x] = "applied" /\ result[x].epoch > published
             /\ PublishAlone => PublisherFree(x)
    <2>1. \A y \in Callers : y # x => phase[y] # "publishing" /\ phase'[y] = phase[y]
      <3>1. CASE PublishAlone
        BY <1>2, <3>1 DEF PublisherFree, TypeOK
      <3>2. CASE SingleThreaded
        BY <1>2, <3>2 DEF OneCallAtATime, Executing, TypeOK
      <3> QED BY <3>1, <3>2
    <2> QED BY <1>1, <1>2, <2>1 DEF OnePublisher, StillAhead
  <1>3. CASE /\ published' \in {published, result[x].epoch}
             /\ phase' = [phase EXCEPT ![x] = "finishing"]
             /\ published' = published \/ phase[x] = "publishing"
    <2>1. \A y \in Callers : phase'[y] = "publishing" => phase[y] = "publishing" /\ y # x
      BY <1>3 DEF TypeOK
    <2>2. published' >= published
      BY <1>1, <1>3 DEF StillAhead
    <2>3. OnePublisher'
      BY <2>1 DEF OnePublisher
    <2>4. StillAhead'
      BY <1>1, <1>3, <2>1 DEF StillAhead, OnePublisher
    <2> QED BY <2>2, <2>3, <2>4
  <1> QED BY <1>2, <1>3, PublishSteps

\* Every other step leaves the watermark, and brings nobody past a comparison.
LEMMA OthersStayInOrder ==
    ASSUME PublishedInOrder, NEW x \in Callers,
           \/ PlanCandidates(x) \/ PlanCompensation(x) \/ Retry(x)
           \/ Check(x) \/ Apply(x) \/ ApplyRefused(x) \/ Finish(x) \/ Raise(x)
    PROVE  OnePublisher' /\ StillAhead' /\ published' = published
  <1> USE DEF PublishedInOrder, Bookkeeping
  <1>1. published' = published
    BY DEF PlanCandidates, PlanCompensation, Retry, Hold, Check, Apply, ApplyRefused,
           Finish, Raise
  <1>2. \A y \in Callers : y # x => phase'[y] = phase[y] /\ result'[y] = result[y]
    <2>1. \E s : phase' = [phase EXCEPT ![x] = s]
      BY DEF PlanCandidates, PlanCompensation, Retry, Hold, Check, Apply, ApplyRefused,
             Finish, Raise
    <2>2. result' = result \/ \E r : result' = [result EXCEPT ![x] = r]
      BY DEF PlanCandidates, PlanCompensation, Retry, Hold, Check, Apply, ApplyRefused,
             Finish, Raise
    <2> QED BY <2>1, <2>2 DEF TypeOK
  <1>3. phase'[x] # "publishing"
    <2>1. phase' \in {[phase EXCEPT ![x] = s] :
                        s \in {"planned", "checked", "applied", "finishing", "returned", "raised"}}
      BY DEF PlanCandidates, PlanCompensation, Retry, Hold, Check, Apply, ApplyRefused,
             Finish, Raise
    <2> QED BY <2>1 DEF TypeOK
  <1> QED BY <1>1, <1>2, <1>3 DEF OnePublisher, StillAhead

\* "A stale (lower) epoch never regresses the watermark", in whatever order
\* commits are published, provided publish calls do not overlap: the injected
\* publisher serialises them, or one thread makes every call.
THEOREM WatermarkAdvances ==
    ASSUME PublishAlone \/ SingleThreaded
    PROVE  Spec => WatermarkNeverRegresses
  <1>1. Init => PublishedInOrder
    <2> SUFFICES ASSUME Init, Bookkeeping PROVE PublishedInOrder
      BY BookkeepingInit
    <2>1. \A x \in Callers : phase[x] = "idle"
      BY DEF Init
    <2> QED BY <2>1 DEF PublishedInOrder, OneCallAtATime, OnePublisher, StillAhead, Executing
  <1>2. PublishedInOrder /\ [Next]_vars => PublishedInOrder' /\ [published' >= published]_published
    <2> SUFFICES ASSUME PublishedInOrder, [Next]_vars
                 PROVE  PublishedInOrder' /\ [published' >= published]_published
      OBVIOUS
    <2>1. Bookkeeping'
      BY BookkeepingStep DEF PublishedInOrder
    <2>2. CASE UNCHANGED vars
      BY <2>1, <2>2 DEF vars, PublishedInOrder, OneCallAtATime, OnePublisher, StillAhead
    <2>3. CASE Next
      <3> PICK x \in Callers :
            \/ PlanCandidates(x) \/ PlanCompensation(x) \/ Retry(x)
            \/ Check(x) \/ Apply(x) \/ ApplyRefused(x) \/ Publish(x) \/ Finish(x) \/ Raise(x)
        BY <2>3 DEF Next, Execute
      <3>1. SingleThreaded => OneCallAtATime'
        BY CallsStaySerial DEF PublishedInOrder, Bookkeeping
      <3>2. OnePublisher' /\ StillAhead' /\ [published' >= published]_published
        BY PublishStaysInOrder, OthersStayInOrder
      <3> QED BY <2>1, <3>1, <3>2 DEF PublishedInOrder
    <2> QED BY <2>2, <2>3
  <1> QED BY <1>1, <1>2, PTL DEF Spec, WatermarkNeverRegresses

-----------------------------------------------------------------------------
(* Every commit is recorded, when nothing raises (CommitsRecorded).           *)

\* A call under way holds the record of commit e.
HoldsRecord(x, e) ==
    /\ phase[x] \in {"applied", "publishing", "finishing"}
    /\ result[x].outcome = "COMMITTED"
    /\ result[x].epoch = e

\* CommitsRecorded made inductive: the record of a commit is in the sink, or a
\* call that has not returned still holds it.
CommitsAccountedFor ==
    \A e \in 1..Len(commits) :
        (\E r \in log : r.epoch = e) \/ (\E x \in Callers : HoldsRecord(x, e))

\* The call that commits holds the record of its commit, and disturbs no other.
LEMMA CommitIsAccountedFor ==
    ASSUME Bookkeeping, CommitsAccountedFor, NEW x \in Callers, Apply(x)
    PROVE  CommitsAccountedFor'
  <1>1. TypeOK /\ graph.epoch = Len(commits)
    BY DEF Bookkeeping
  <1>2. Len(commits) \in Nat /\ Len(commits') = Len(commits) + 1
    BY <1>1, CommitAppends
  <1>3. graph'.epoch = Len(commits) + 1
    BY <1>1, ApplyTyped
  <1>4. ASSUME NEW e, e = Len(commits) + 1 PROVE HoldsRecord(x, e)'
    BY <1>1, <1>3, <1>4 DEF HoldsRecord, Apply, TypeOK, Record
  <1>5. ASSUME NEW e \in 1..Len(commits)
        PROVE  (\E r \in log' : r.epoch = e) \/ (\E y \in Callers : HoldsRecord(y, e)')
    <2>1. CASE \E r \in log : r.epoch = e
      BY <2>1 DEF Apply
    <2>2. ASSUME NEW y \in Callers, HoldsRecord(y, e) PROVE HoldsRecord(y, e)'
      BY <1>1, <2>2 DEF HoldsRecord, Apply, TypeOK
    <2> QED BY <2>1, <2>2 DEF CommitsAccountedFor
  <1>6. \A e \in 1..Len(commits') : e \in 1..Len(commits) \/ e = Len(commits) + 1
    BY <1>2
  <1> QED BY <1>4, <1>5, <1>6 DEF CommitsAccountedFor

\* Any other step of a run without faults leaves a record where it is, or
\* moves it from its call to the sink.
LEMMA RecordsAreNotLost ==
    ASSUME TypeOK, ~Faults, CommitsAccountedFor, NEW x \in Callers,
           \/ PlanCandidates(x) \/ PlanCompensation(x) \/ Retry(x)
           \/ Check(x) \/ ApplyRefused(x) \/ Publish(x) \/ Finish(x) \/ Raise(x)
    PROVE  CommitsAccountedFor'
  <1>1. commits' = commits
    BY OtherStepsTyped
  <1>2. ASSUME NEW y \in Callers, NEW e, HoldsRecord(y, e)
        PROVE  HoldsRecord(y, e)' \/ \E r \in log' : r.epoch = e
    <2> USE DEF HoldsRecord
    <2>1. CASE PlanCandidates(x) \/ PlanCompensation(x) \/ Retry(x)
      <3> PICK p : Hold(x, p)
        BY <2>1 DEF PlanCandidates, PlanCompensation, Retry
      <3> QED BY <1>2 DEF Hold, TypeOK, Resting
    <2>2. CASE Check(x)
      BY <1>2, <2>2 DEF Check, TypeOK
    <2>3. CASE ApplyRefused(x)
      BY <1>2, <2>3 DEF ApplyRefused, TypeOK
    <2>4. CASE Publish(x)
      BY <1>2, <2>4, PublishSteps DEF TypeOK
    <2>5. CASE Finish(x)
      BY <1>2, <2>5 DEF Finish, TypeOK
    <2>6. CASE Raise(x)
      BY <2>6 DEF Raise
    <2> QED BY <2>1, <2>2, <2>3, <2>4, <2>5, <2>6
  <1>3. log \subseteq log'
    BY PublishSteps DEF PlanCandidates, PlanCompensation, Retry, Hold, Check,
           ApplyRefused, Finish, Raise
  <1> QED BY <1>1, <1>2, <1>3 DEF CommitsAccountedFor

\* "Every attempt is recorded", for commits: when no port raises and no caller
\* dies, between calls the sink has a record of every epoch of the store, under
\* any interleaving and with or without a reader.  (With faults it is false: the
\* run executor_unrecorded shows a commit without its record.)
THEOREM EveryCommitRecorded ==
    ASSUME ~Faults
    PROVE  Spec => []CommitsRecorded
  <1>1. Init => CommitsAccountedFor
    <2> SUFFICES ASSUME Init PROVE CommitsAccountedFor
      OBVIOUS
    <2>1. Len(commits) = 0
      BY DEF Init
    <2> QED BY <2>1 DEF CommitsAccountedFor
  <1>2. Bookkeeping /\ CommitsAccountedFor /\ [Next]_vars => CommitsAccountedFor'
    <2> SUFFICES ASSUME Bookkeeping, CommitsAccountedFor, [Next]_vars PROVE CommitsAccountedFor'
      OBVIOUS
    <2>1. CASE UNCHANGED vars
      BY <2>1 DEF vars, CommitsAccountedFor, HoldsRecord
    <2>2. ASSUME NEW x \in Callers, Apply(x) PROVE CommitsAccountedFor'
      BY <2>2, CommitIsAccountedFor
    <2>3. TypeOK
      BY DEF Bookkeeping
    <2> QED BY <2>1, <2>2, <2>3, RecordsAreNotLost DEF Next, Execute
  <1>3. CommitsAccountedFor => CommitsRecorded
    BY DEF CommitsAccountedFor, CommitsRecorded, HoldsRecord, Executing
  <1> QED BY <1>1, <1>2, <1>3, BookkeepingInvariant, PTL DEF Spec

-----------------------------------------------------------------------------
(* Refinement: a call of execute is one atomic guarded commit, or nothing.    *)

\* The abstract module speaks of the same graph and the same plans.
LEMMA SameGraph ==
    ASSUME NEW g, NEW ops
    PROVE  Abstract!ApplyBatch(g, ops) = ApplyBatch(g, ops)
  <1>1. \A type, target : Abstract!OpsOn(ops, type, target) = OpsOn(ops, type, target)
    BY DEF Abstract!OpsOn, OpsOn, Abstract!Target, Target
  <1>2. \A i : Abstract!EntityAfter(g, ops, i) = EntityAfter(g, ops, i)
    BY <1>1 DEF Abstract!EntityAfter, EntityAfter
  <1>0. \A S : Abstract!Cardinality(S) = Cardinality(S)
    BY Zenon DEF Abstract!Cardinality, Cardinality
  <1>3. \A a : Abstract!RowsAfter(g, ops, a) = RowsAfter(g, ops, a)
    BY <1>0, <1>1 DEF Abstract!RowsAfter, RowsAfter, Abstract!AttachRows, AttachRows,
                Abstract!RetireRows, RetireRows
  <1>4. \A o : Abstract!Subject(o) = Subject(o)
    BY DEF Abstract!Subject, Subject, Abstract!Target, Target, Abstract!IdentityOps, IdentityOps
  <1> QED BY <1>2, <1>3, <1>4 DEF Abstract!ApplyBatch, ApplyBatch

\* The abstract module's guards and producers are these.
LEMMA SamePlans ==
    ASSUME NEW g, NEW p, NEW n
    PROVE  /\ Abstract!ReaderGuardsHold(g, p) <=> ReaderGuardsHold(g, p)
           /\ Abstract!StoreGuardsHold(g, p) <=> StoreGuardsHold(g, p)
           /\ Abstract!SelfConflicting(p) <=> SelfConflicting(p)
           /\ Abstract!Visible(g) = Visible(g)
           /\ Abstract!PlannerPlans(n) = PlannerPlans(n)
           /\ Abstract!Compensate(p, n) = Compensate(p, n)
  <1>1. Abstract!ReaderGuardsHold(g, p) <=> ReaderGuardsHold(g, p)
    BY DEF Abstract!ReaderGuardsHold, ReaderGuardsHold
  <1>2. Abstract!StoreGuardsHold(g, p) <=> StoreGuardsHold(g, p)
    BY DEF Abstract!StoreGuardsHold, StoreGuardsHold
  <1>3. Abstract!SelfConflicting(p) <=> SelfConflicting(p)
    BY DEF Abstract!SelfConflicting, SelfConflicting, Abstract!Target, Target
  <1>4. Abstract!Visible(g) = Visible(g)
    BY DEF Abstract!Visible, Visible
  <1>5. Abstract!PlannerPlans(n) = PlannerPlans(n)
    BY DEF Abstract!PlannerPlans, PlannerPlans, Abstract!PlanFor, PlanFor,
           Abstract!BuildOperation, BuildOperation
  <1>6. Abstract!InverseOperation = InverseOperation
    BY DEF Abstract!InverseOperation, InverseOperation, Abstract!OperationTypes, OperationTypes,
           Abstract!IdentityOps, IdentityOps, Abstract!AssertionOps, AssertionOps
  <1>7. Abstract!Compensate(p, n) = Compensate(p, n)
    BY <1>6 DEF Abstract!Compensate, Compensate, Abstract!Invert, Invert
  <1> QED BY <1>1, <1>2, <1>3, <1>4, <1>5, <1>7

\* A plan whose snapshot is the current epoch is one the producers would build
\* right now.
LEMMA MadeIsProducible ==
    ASSUME Bookkeeping, NEW p, Made(p), p.snapshot = graph.epoch
    PROVE  p \in Abstract!Producible
  <1>1. CASE \E n \in Nat : p \in PlannerPlans(n)
    <2> PICK n \in Nat : p \in PlannerPlans(n)
      BY <1>1
    <2> PICK cs \in SUBSET Candidates \ {{}}, s \in {0, n} : p = PlanFor(cs, s)
      BY DEF PlannerPlans
    <2>1. s = graph.epoch
      BY PlanForTyped
    <2>2. p \in PlannerPlans(graph.epoch)
      BY <2>1 DEF PlannerPlans
    <2> QED BY <2>2, SamePlans DEF Abstract!Producible
  <1>2. CASE \E e \in 1..Len(commits) : p = Compensate(commits[e].plan, e)
    <2> PICK e \in 1..Len(commits) : p = Compensate(commits[e].plan, e)
      BY <1>2
    <2>1. p = Abstract!Compensate(commits[e].plan, e)
      BY SamePlans
    <2> QED BY <2>1 DEF Abstract!Producible
  <1> QED BY <1>1, <1>2 DEF Made

\* Serialised, the write path implements the guarded atomic commit: every step of
\* a call changes nothing of the graph, or is one Commit of its whole plan.
THEOREM ExecutorRefinesGuardedCommit ==
    ASSUME SingleThreaded, HasReader
    PROVE  Spec => ImplementsGuardedCommit
  <1>1. Init => Abstract!Init
    BY DEF Init, Abstract!Init, EmptyGraph, Abstract!EmptyGraph
  <1>2. Serialised /\ [Next]_vars => [Abstract!Next]_(Abstract!vars)
    <2> SUFFICES ASSUME Serialised, [Next]_vars PROVE [Abstract!Next]_(Abstract!vars)
      OBVIOUS
    <2>1. ASSUME NEW x \in Callers, Apply(x) PROVE Abstract!Next
      <3>1. /\ ReaderGuardsHold(graph, plan[x])
            /\ ~SelfConflicting(plan[x])
            /\ Made(plan[x])
        BY <2>1, SerialCommit
      <3>2. plan[x] \in Abstract!Producible
        BY <3>1, MadeIsProducible DEF ReaderGuardsHold, Serialised
      <3>3. Abstract!GuardsHold(plan[x])
        BY <2>1, <3>1, SamePlans DEF Abstract!GuardsHold, Apply
      <3>4. graph' = Abstract!ApplyBatch(graph, plan[x].ops)
        BY <2>1, SameGraph DEF Apply
      <3>5. commits' = Append(commits, [plan |-> plan[x], shows |-> Abstract!Visible(graph')])
        BY <2>1, SamePlans DEF Apply
      <3> QED BY <3>2, <3>3, <3>4, <3>5 DEF Abstract!Next, Abstract!Commit
    <2>2. CASE graph' = graph /\ commits' = commits
      BY <2>2 DEF Abstract!vars
    <2> QED BY <2>1, <2>2, OtherStepsTyped DEF Next, Execute, vars, Serialised, Bookkeeping
  <1> QED BY <1>1, <1>2, SerialInvariant, PTL DEF Spec, ImplementsGuardedCommit, Abstract!Spec

=============================================================================
