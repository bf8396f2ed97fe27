---------------------- MODULE ConceptEvolutionProofs ----------------------
(***************************************************************************)
(* Proofs about ConceptEvolution, for every set of records, triggers and   *)
(* workers: type correctness, and that re-curation with fresh evidence     *)
(* rewrites no history, loses no fact and leaves no lineage that does not  *)
(* end in a live record.                                                   *)
(***************************************************************************)
EXTENDS ConceptEvolution, NaturalRecursion

-----------------------------------------------------------------------------
(* Type correctness. *)

\* superseded_by requires SUPERSEDED.
Straight(row) == row.by # None => row.status = "SUPERSEDED"

\* TypeOK made inductive: every copy of a row that may come back is straight.
Typed ==
    /\ TypeOK
    /\ \A w \in Workers : phase[w] # "idle" => holds[w] \in Triggers \cap queued
    /\ \A w \in Workers : Straight(seen[w].row)
    /\ \A w \in Workers : Straight(plan[w].payload) /\ Straight(plan[w].restores)
    /\ \A x \in applied : Straight(x.plan.payload) /\ Straight(x.plan.restores)

LEMMA ConstantRows ==
    /\ NoRow \in Rows /\ Straight(NoRow)
    /\ LiveRow \in Rows /\ Straight(LiveRow)
    /\ NoPlan \in Plans
  BY EvolutionConstants DEF NoRow, LiveRow, Rows, Straight, NoPlan, Plans

\* A plan the router makes is well typed and carries straight rows.
LEMMA RoutedTyped ==
    ASSUME NEW recommendation, NEW allowed, NEW old \in Records, NEW copy \in Rows,
           NEW new \in Records, NEW snapshot \in Nat, Straight(copy),
           NEW p \in Routed(recommendation, allowed, old, copy, new, snapshot)
    PROVE  p \in Plans /\ Straight(p.payload) /\ Straight(p.restores)
  <1>1. CASE p = SupersessionPlan(old, copy, new, snapshot)
    BY <1>1, ConstantRows DEF SupersessionPlan, Plans
  <1>2. CASE p = AttachPlan(new, snapshot)
    BY <1>2, ConstantRows DEF AttachPlan, NoPlan, Plans
  <1> QED BY <1>1, <1>2 DEF Routed

LEMMA CompensationTyped ==
    ASSUME NEW p \in Plans, Straight(p.payload), Straight(p.restores)
    PROVE  Compensation(p) \in Plans /\ Straight(Compensation(p).payload)
  BY ConstantRows DEF Compensation, NoPlan, Plans

\* A batch leaves every row typed and straight.
LEMMA CommitTyped ==
    ASSUME Typed, NEW p \in Plans, Straight(p.payload), Commit(p)
    PROVE  /\ rows' \in [Records -> Rows]
           /\ \A r \in Records : Straight(rows'[r])
           /\ epoch' \in 1..MaxEpoch
  <1>1. \A r \in Records : RowsAfter(p)[r] \in Rows /\ Straight(RowsAfter(p)[r])
    <2> SUFFICES ASSUME NEW r \in Records PROVE RowsAfter(p)[r] \in Rows /\ Straight(RowsAfter(p)[r])
      OBVIOUS
    <2>1. rows[r] \in Rows /\ Straight(rows[r])
      BY DEF Typed, TypeOK, Straight
    <2>2. Retired(rows[r], p.by, p.at) \in Rows /\ Straight(Retired(rows[r], p.by, p.at))
      BY <2>1 DEF Retired, Rows, Plans, Straight
    <2> QED BY <2>1, <2>2 DEF RowsAfter, Plans
  <1>2. RowsAfter(p) = [r \in Records |-> RowsAfter(p)[r]]
    BY DEF RowsAfter
  <1>3. epoch' \in 1..MaxEpoch
    BY EvolutionConstants DEF Typed, TypeOK, Commit
  <1> QED BY <1>1, <1>2, <1>3 DEF Commit

LEMMA TypedInit == Init => Typed
  <1> SUFFICES ASSUME Init PROVE Typed
    OBVIOUS
  <1>1. \A w \in Workers : plan[w] = NoPlan /\ seen[w] = [epoch |-> 0, row |-> NoRow]
    BY DEF Init
  <1>2. Straight(NoPlan.payload) /\ Straight(NoPlan.restores)
    BY ConstantRows DEF NoPlan
  <1>3. TypeOK
    <2>1. rows \in [Records -> Rows] /\ \A r \in Records : rows[r].by = None
      BY ConstantRows DEF Init, NoRow
    <2>2. epoch \in 0..MaxEpoch
      BY EvolutionConstants DEF Init
    <2>3. seen \in [Workers -> [epoch : Nat, row : Rows]] /\ plan \in [Workers -> Plans]
      BY ConstantRows DEF Init
    <2> QED BY <2>1, <2>2, <2>3 DEF Init, TypeOK
  <1> QED BY <1>1, <1>2, <1>3, ConstantRows DEF Init, Typed

\* A worker that lets go holds a plan and a row that say nothing.
LEMMA ReleaseTyped ==
    ASSUME Typed, NEW w \in Workers, Release(w), UNCHANGED <<rows, epoch, applied, queued>>,
           handled' \subseteq queued
    PROVE  Typed'
  <1>1. Straight(NoPlan.payload) /\ Straight(NoPlan.restores) /\ NoPlan \in Plans
    BY ConstantRows DEF NoPlan
  <1>2. /\ seen' \in [Workers -> [epoch : Nat, row : Rows]]
        /\ \A v \in Workers : Straight(seen'[v].row)
    BY ConstantRows DEF Release, Typed, TypeOK
  <1>3. /\ plan' \in [Workers -> Plans]
        /\ \A v \in Workers : Straight(plan'[v].payload) /\ Straight(plan'[v].restores)
    BY <1>1 DEF Release, Typed, TypeOK
  <1>4. /\ phase' \in [Workers -> {"idle", "taken", "planned", "executed"}]
        /\ holds' \in [Workers -> Triggers \cup {None}]
        /\ \A v \in Workers : phase'[v] # "idle" => holds'[v] \in Triggers \cap queued'
    BY DEF Release, Typed, TypeOK
  <1> QED BY <1>2, <1>3, <1>4 DEF Typed, TypeOK

\* A trigger names two records.
LEMMA TriggerRecords == \A t \in Triggers : t.old \in Records /\ t.new \in Records
  BY EvolutionConstants

LEMMA AdmitTyped ==
    ASSUME Typed, NEW r \in Admissible, Admit(r)
    PROVE  Typed'
  <1>1. r \in Records /\ epoch \in Nat
    BY EvolutionConstants DEF Typed, TypeOK
  <1>2. AttachPlan(r, epoch) \in Plans /\ AttachPlan(r, epoch).payload = LiveRow
    BY <1>1, ConstantRows DEF AttachPlan, NoPlan, Plans
  <1>3. /\ rows' \in [Records -> Rows]
        /\ \A q \in Records : Straight(rows'[q])
        /\ epoch' \in 1..MaxEpoch
    BY <1>2, CommitTyped, ConstantRows DEF Admit
  <1>4. epoch' \in 0..MaxEpoch
    BY <1>3, EvolutionConstants
  <1> QED BY <1>3, <1>4 DEF Admit, Typed, TypeOK, Straight

LEMMA TakeTyped ==
    ASSUME Typed, NEW w \in Workers, NEW t \in Triggers, Take(w, t)
    PROVE  Typed'
  <1>1. rows[t.old] \in Rows /\ Straight(rows[t.old]) /\ epoch \in Nat
    BY TriggerRecords, EvolutionConstants DEF Typed, TypeOK, Straight
  <1>2. /\ seen' \in [Workers -> [epoch : Nat, row : Rows]]
        /\ \A v \in Workers : Straight(seen'[v].row)
    BY <1>1 DEF Take, Typed, TypeOK
  <1>3. /\ phase' \in [Workers -> {"idle", "taken", "planned", "executed"}]
        /\ holds' \in [Workers -> Triggers \cup {None}]
        /\ \A v \in Workers : phase'[v] # "idle" => holds'[v] \in Triggers \cap queued'
    BY DEF Take, Typed, TypeOK
  <1> QED BY <1>2, <1>3 DEF Take, Typed, TypeOK

LEMMA DecideTyped ==
    ASSUME Typed, NEW w \in Workers, Decide(w)
    PROVE  Typed'
  <1>1. PICK recommendation \in Recommendations, allowed \in BOOLEAN :
          \E p \in Routed(recommendation, allowed, holds[w].old, seen[w].row,
                          holds[w].new, seen[w].epoch) :
             plan' = [plan EXCEPT ![w] = p]
    BY DEF Decide
  <1>2. PICK p \in Routed(recommendation, allowed, holds[w].old, seen[w].row,
                          holds[w].new, seen[w].epoch) :
             plan' = [plan EXCEPT ![w] = p]
    BY <1>1
  <1>3. holds[w].old \in Records /\ holds[w].new \in Records
    BY TriggerRecords DEF Decide, Typed
  <1>4. seen[w].row \in Rows /\ Straight(seen[w].row) /\ seen[w].epoch \in Nat
    BY DEF Typed, TypeOK
  <1>5. p \in Plans /\ Straight(p.payload) /\ Straight(p.restores)
    BY <1>2, <1>3, <1>4, RoutedTyped
  <1>6. /\ plan' \in [Workers -> Plans]
        /\ \A v \in Workers : Straight(plan'[v].payload) /\ Straight(plan'[v].restores)
    BY <1>2, <1>5 DEF Typed, TypeOK
  <1>7. /\ phase' \in [Workers -> {"idle", "taken", "planned", "executed"}]
        /\ \A v \in Workers : phase'[v] # "idle" => holds'[v] \in Triggers \cap queued'
    BY DEF Decide, Typed, TypeOK
  <1> QED BY <1>6, <1>7 DEF Decide, Typed, TypeOK

LEMMA ExecuteTyped ==
    ASSUME Typed, NEW w \in Workers, Execute(w)
    PROVE  Typed'
  <1>1. plan[w] \in Plans /\ Straight(plan[w].payload) /\ Straight(plan[w].restores)
    BY DEF Typed, TypeOK
  <1>2. /\ rows' \in [Records -> Rows]
        /\ \A r \in Records : Straight(rows'[r])
        /\ epoch' \in 1..MaxEpoch
    BY <1>1, CommitTyped DEF Execute
  <1>3. epoch' \in 0..MaxEpoch
    BY <1>2, EvolutionConstants
  <1>4. /\ applied' \subseteq [plan : Plans, epoch : 1..MaxEpoch]
        /\ \A x \in applied' : Straight(x.plan.payload) /\ Straight(x.plan.restores)
    BY <1>1, <1>2 DEF Execute, Typed, TypeOK
  <1>5. /\ phase' \in [Workers -> {"idle", "taken", "planned", "executed"}]
        /\ \A v \in Workers : phase'[v] # "idle" => holds'[v] \in Triggers \cap queued'
    BY DEF Execute, Typed, TypeOK
  <1> QED BY <1>2, <1>3, <1>4, <1>5 DEF Execute, Typed, TypeOK, Straight

LEMMA RollbackTyped ==
    ASSUME Typed, NEW x \in applied, Rollback(x)
    PROVE  Typed'
  <1>1. x.plan \in Plans /\ Straight(x.plan.payload) /\ Straight(x.plan.restores)
    BY DEF Typed, TypeOK
  <1>2. Compensation(x.plan) \in Plans /\ Straight(Compensation(x.plan).payload)
    BY <1>1, CompensationTyped
  <1>3. /\ rows' \in [Records -> Rows]
        /\ \A r \in Records : Straight(rows'[r])
        /\ epoch' \in 1..MaxEpoch
    BY <1>2, CommitTyped DEF Rollback
  <1>4. epoch' \in 0..MaxEpoch
    BY <1>3, EvolutionConstants
  <1> QED BY <1>3, <1>4 DEF Rollback, Typed, TypeOK, Straight

LEMMA TypedStep == Typed /\ [Next]_vars => Typed'
  <1> SUFFICES ASSUME Typed, [Next]_vars PROVE Typed'
    OBVIOUS
  <1>1. CASE UNCHANGED vars
    BY <1>1 DEF vars, Typed, TypeOK
  <1>2. ASSUME NEW t \in Triggers, Enqueue(t) PROVE Typed'
    BY <1>2 DEF Enqueue, Typed, TypeOK
  <1>3. ASSUME NEW w \in Workers, Refuse(w) \/ Stale(w) \/ Die(w) PROVE Typed'
    BY <1>3, ReleaseTyped DEF Refuse, Stale, Die, Typed, TypeOK
  <1>4. ASSUME NEW w \in Workers, MarkHandled(w) PROVE Typed'
    <2>1. holds[w] \in queued
      BY <1>4 DEF MarkHandled, Typed, TypeOK
    <2> QED BY <1>4, <2>1, ReleaseTyped DEF MarkHandled, Typed, TypeOK
  <1> QED BY <1>1, <1>2, <1>3, <1>4, AdmitTyped, TakeTyped, DecideTyped, ExecuteTyped,
             RollbackTyped DEF Next

\* Every reachable state is well typed, and only a SUPERSEDED record names a
\* successor.
THEOREM TypeCorrect == Spec => []TypeOK
  <1>1. Typed => TypeOK
    BY DEF Typed
  <1> QED BY <1>1, TypedInit, TypedStep, PTL DEF Spec

-----------------------------------------------------------------------------
(* Fresh evidence never rewrites history.                                    *)

\* Each trigger brings content no other trigger and no admitted record has; a
\* trigger is worked on by one worker, which does not die between executing and
\* retiring it.  (Without it: run evolution_return.)
FreshEvidence ==
    /\ Leased
    /\ "executed" \notin DiesIn
    /\ \A t \in Triggers : Distinguished(t) => t.new \notin Admissible
    /\ \A t, u \in Triggers : Distinguished(t) /\ Distinguished(u) /\ t.new = u.new => t = u

Working(w) == phase[w] # "idle"

\* Nobody else works on a worker's trigger, and it is not retired.
OneWorkerEach ==
    \A w \in Workers : Working(w) =>
        /\ holds[w] \notin handled
        /\ \A v \in Workers : Working(v) /\ holds[v] = holds[w] => v = w

\* What a worker read is the graph's, as long as the epoch is the one it read.
ReadsAreCoherent ==
    \A w \in Workers : phase[w] \in {"taken", "planned"} =>
        /\ seen[w].epoch <= epoch
        /\ seen[w].epoch = epoch => seen[w].row = rows[holds[w].old]

\* A plan attaches its trigger's new record, live, and may retire its old one,
\* which was read ACTIVE.
FitsTrigger(p, t, read) ==
    /\ Distinguished(t)
    /\ p.snapshot = read.epoch
    /\ p.attach = t.new
    /\ p.payload = LiveRow
    /\ p.retire # None => /\ p.retire = t.old
                          /\ p.by = t.new
                          /\ p.restores = read.row
                          /\ read.row.status = "ACTIVE"
                          /\ FactOf[p.retire] = FactOf[p.attach]

PlansFit ==
    \A w \in Workers : phase[w] = "planned" => FitsTrigger(plan[w], holds[w], seen[w])

\* The new record of a trigger that was not executed yet is not in the graph.
Unspent(t) ==
    /\ Distinguished(t)
    /\ t \notin handled
    /\ \A w \in Workers : phase[w] = "executed" => holds[w] # t

NewRecordsAbsent == \A t \in Triggers : Unspent(t) => rows[t.new] = NoRow

\* What a rollback relies on: the record the last commit attached is live, the
\* one it retired is stored and was live before.
CommitsStand ==
    \A x \in applied :
        /\ x.plan.attach \in Records
        /\ x.plan.retire # x.plan.attach
        /\ x.epoch <= epoch
        /\ x.epoch = epoch => rows[x.plan.attach].status = "ACTIVE"
        /\ x.plan.retire # None => /\ rows[x.plan.retire] # NoRow
                                   /\ x.plan.restores.status = "ACTIVE"
                                   /\ FactOf[x.plan.retire] = FactOf[x.plan.attach]

\* HistoryNeverRewritten made inductive.
Fresh ==
    /\ Typed
    /\ OneWorkerEach
    /\ ReadsAreCoherent
    /\ PlansFit
    /\ NewRecordsAbsent
    /\ CommitsStand

\* What one batch does to a record.
LEMMA RowAfter ==
    ASSUME NEW p, Commit(p), NEW r \in Records
    PROVE  /\ r = p.attach => rows'[r] = p.payload
           /\ r # p.attach /\ rows'[r] # rows[r] => r = p.retire /\ rows[r] # NoRow
           /\ r # p.attach /\ rows[r] = NoRow => rows'[r] = NoRow
           /\ r # p.attach /\ rows[r] # NoRow => rows'[r] # NoRow
  <1>1. rows'[r] = RowsAfter(p)[r]
    BY DEF Commit
  <1>2. r = p.attach => rows'[r] = p.payload
    BY <1>1 DEF RowsAfter
  <1>3. r # p.attach /\ r = p.retire /\ rows[r] # NoRow => rows'[r] = Retired(rows[r], p.by, p.at)
    BY <1>1 DEF RowsAfter
  <1>4. r # p.attach /\ ~(r = p.retire /\ rows[r] # NoRow) => rows'[r] = rows[r]
    BY <1>1 DEF RowsAfter
  <1>5. Retired(rows[r], p.by, p.at) # NoRow
    BY DEF Retired, NoRow
  <1> QED BY <1>2, <1>3, <1>4, <1>5

LEMMA FreshInit == Init => Fresh
  <1> SUFFICES ASSUME Init PROVE Fresh
    OBVIOUS
  <1>1. \A t \in Triggers : rows[t.new] = NoRow
    BY TriggerRecords DEF Init
  <1>2. \A w \in Workers : phase[w] = "idle"
    BY DEF Init
  <1> QED BY <1>1, <1>2, TypedInit
          DEF Fresh, Init, OneWorkerEach, Working, ReadsAreCoherent, PlansFit,
              NewRecordsAbsent, CommitsStand

\* Before a worker executes: its trigger is unspent, so its new record is not in
\* the graph, and a record it retires stands ACTIVE.
LEMMA BeforeExecute ==
    ASSUME Fresh, NEW w \in Workers, Execute(w)
    PROVE  /\ holds[w] \in Triggers
           /\ plan[w].attach = holds[w].new
           /\ plan[w].payload = LiveRow
           /\ rows[holds[w].new] = NoRow
           /\ Unspent(holds[w])
           /\ plan[w].retire # None => /\ plan[w].retire \in Records
                                       /\ plan[w].retire # plan[w].attach
                                       /\ plan[w].by = plan[w].attach
                                       /\ rows[plan[w].retire].status = "ACTIVE"
                                       /\ plan[w].restores.status = "ACTIVE"
                                       /\ FactOf[plan[w].retire] = FactOf[plan[w].attach]
  <1>1. phase[w] = "planned" /\ holds[w] \in Triggers /\ FitsTrigger(plan[w], holds[w], seen[w])
    BY DEF Execute, Fresh, PlansFit, Typed
  <1>2. Unspent(holds[w])
    BY <1>1 DEF Fresh, OneWorkerEach, Working, Unspent, FitsTrigger
  <1>3. seen[w].row = rows[holds[w].old]
    BY <1>1 DEF Execute, Fresh, ReadsAreCoherent, FitsTrigger
  <1> QED BY <1>1, <1>2, <1>3, TriggerRecords
          DEF FitsTrigger, Fresh, NewRecordsAbsent, Distinguished

\* A rollback attaches and retires records that stand as it expects.
LEMMA BeforeRollback ==
    ASSUME Fresh, NEW x \in applied, Rollback(x)
    PROVE  /\ Compensation(x.plan).attach = x.plan.retire
           /\ Compensation(x.plan).payload = x.plan.restores
           /\ Compensation(x.plan).retire = x.plan.attach
           /\ x.plan.retire # x.plan.attach
           /\ rows[x.plan.attach].status = "ACTIVE"
           /\ x.plan.retire # None => /\ rows[x.plan.retire] # NoRow
                                      /\ x.plan.restores.status = "ACTIVE"
                                      /\ FactOf[x.plan.retire] = FactOf[x.plan.attach]
  BY DEF Fresh, CommitsStand, Rollback, Compensation, NoPlan

LEMMA CoherenceSurvivesCommit ==
    ASSUME Fresh, NEW p, Commit(p), holds' = holds, seen' = seen,
           \A w \in Workers : phase'[w] \in {"taken", "planned"} => phase[w] = phase'[w]
    PROVE  ReadsAreCoherent'
  <1>1. epoch \in Nat /\ epoch' = epoch + 1
    BY EvolutionConstants DEF Commit, Fresh, Typed, TypeOK
  <1>2. \A w \in Workers : seen[w].epoch \in Nat
    BY DEF Fresh, Typed, TypeOK
  <1> QED BY <1>1, <1>2 DEF ReadsAreCoherent, Fresh

\* Older commits stand through a new one.
LEMMA OlderCommitsStand ==
    ASSUME Fresh, NEW p, Commit(p), p.attach # None => p.payload # NoRow, NEW x \in applied
    PROVE  /\ x.plan.attach \in Records
           /\ x.plan.retire # x.plan.attach
           /\ x.epoch <= epoch'
           /\ x.epoch # epoch'
           /\ x.plan.retire # None => /\ rows'[x.plan.retire] # NoRow
                                      /\ x.plan.restores.status = "ACTIVE"
                                      /\ FactOf[x.plan.retire] = FactOf[x.plan.attach]
  <1>1. epoch \in Nat /\ epoch' = epoch + 1 /\ x.epoch \in Nat /\ x.epoch <= epoch
    BY EvolutionConstants DEF Commit, Fresh, Typed, TypeOK, CommitsStand
  <1>2. x.plan.retire \in Records \cup {None}
    BY DEF Fresh, Typed, TypeOK, Plans
  <1> QED BY <1>1, <1>2, RowAfter, EvolutionConstants DEF Fresh, CommitsStand

LEMMA AdmitFresh ==
    ASSUME FreshEvidence, Fresh, NEW r \in Admissible, Admit(r)
    PROVE  Fresh'
  <1>1. Commit(AttachPlan(r, epoch)) /\ AttachPlan(r, epoch).attach = r
        /\ AttachPlan(r, epoch).payload = LiveRow /\ LiveRow # NoRow
    BY DEF Admit, AttachPlan, NoPlan, LiveRow, NoRow
  <1>2. Typed'
    BY TypedStep DEF Fresh, Next
  <1>3. ReadsAreCoherent'
    BY <1>1, CoherenceSurvivesCommit DEF Admit
  <1>4. NewRecordsAbsent'
    BY <1>1, RowAfter, TriggerRecords
       DEF FreshEvidence, Fresh, NewRecordsAbsent, Unspent, Admit
  <1>5. CommitsStand'
    BY <1>1, OlderCommitsStand DEF CommitsStand, Admit
  <1> QED BY <1>2, <1>3, <1>4, <1>5
          DEF Fresh, Admit, OneWorkerEach, Working, PlansFit

LEMMA ExecuteFresh ==
    ASSUME FreshEvidence, Fresh, NEW w \in Workers, Execute(w)
    PROVE  Fresh'
  <1>1. Commit(plan[w]) /\ LiveRow # NoRow /\ LiveRow.status = "ACTIVE"
    BY DEF Execute, LiveRow, NoRow
  <1>2. Typed'
    BY TypedStep DEF Fresh, Next
  <1>3. phase' = [phase EXCEPT ![w] = "executed"] /\ phase[w] = "planned"
        /\ phase \in [Workers -> {"idle", "taken", "planned", "executed"}]
    BY DEF Execute, Fresh, Typed, TypeOK
  <1>4. ReadsAreCoherent'
    BY <1>1, <1>3, CoherenceSurvivesCommit DEF Execute
  <1>5. OneWorkerEach' /\ PlansFit'
    BY <1>3 DEF Execute, Fresh, OneWorkerEach, Working, PlansFit
  <1>6. NewRecordsAbsent'
    <2> SUFFICES ASSUME NEW t \in Triggers, Unspent(t)' PROVE rows'[t.new] = NoRow
      BY DEF NewRecordsAbsent
    <2>1. t # holds[w]
      BY <1>3 DEF Unspent, Execute
    <2>2. Unspent(t)
      BY <1>3 DEF Unspent, Execute
    <2>3. t.new # plan[w].attach
      BY <2>1, <2>2, BeforeExecute DEF FreshEvidence, Unspent
    <2> QED BY <1>1, <2>2, <2>3, RowAfter, TriggerRecords DEF Fresh, NewRecordsAbsent
  <1>7. CommitsStand'
    <2> SUFFICES ASSUME NEW x \in applied'
                 PROVE  /\ x.plan.attach \in Records
                        /\ x.plan.retire # x.plan.attach
                        /\ x.epoch <= epoch'
                        /\ x.epoch = epoch' => rows'[x.plan.attach].status = "ACTIVE"
                        /\ x.plan.retire # None => /\ rows'[x.plan.retire] # NoRow
                                                   /\ x.plan.restores.status = "ACTIVE"
                                                   /\ FactOf[x.plan.retire] = FactOf[x.plan.attach]
      BY DEF CommitsStand
    <2>1. CASE x \in applied
      BY <1>1, <2>1, BeforeExecute, OlderCommitsStand
    <2>2. CASE x = [plan |-> plan[w], epoch |-> epoch']
      <3>1. epoch' \in Nat
        BY <1>2, EvolutionConstants DEF Typed, TypeOK
      <3>2. plan[w].attach \in Records /\ rows'[plan[w].attach] = LiveRow
        BY <1>1, BeforeExecute, RowAfter, TriggerRecords
      <3>3. plan[w].retire # None => rows[plan[w].retire] # NoRow
        BY BeforeExecute DEF NoRow
      <3>4. plan[w].retire # None => rows'[plan[w].retire] # NoRow
        BY <1>1, <3>3, BeforeExecute, RowAfter
      <3>5. plan[w].retire # plan[w].attach
        BY <3>2, BeforeExecute, EvolutionConstants
      <3> QED BY <1>1, <2>2, <3>1, <3>2, <3>4, <3>5, BeforeExecute
    <2> QED BY <2>1, <2>2 DEF Execute
  <1> QED BY <1>2, <1>4, <1>5, <1>6, <1>7 DEF Fresh

LEMMA RollbackFresh ==
    ASSUME FreshEvidence, Fresh, NEW x \in applied, Rollback(x)
    PROVE  Fresh'
  <1> DEFINE p == Compensation(x.plan)
  <1>1. Commit(p) /\ (p.attach # None => p.payload # NoRow)
    BY BeforeRollback DEF Rollback, NoRow
  <1>2. Typed'
    BY TypedStep DEF Fresh, Next
  <1>3. ReadsAreCoherent'
    BY <1>1, CoherenceSurvivesCommit DEF Rollback
  <1>4. NewRecordsAbsent'
    <2> SUFFICES ASSUME NEW t \in Triggers, Unspent(t) PROVE rows'[t.new] = NoRow
      BY DEF NewRecordsAbsent, Rollback, Unspent
    <2>1. rows[t.new] = NoRow
      BY DEF Fresh, NewRecordsAbsent
    <2>2. t.new # p.attach
      BY <2>1, BeforeRollback, TriggerRecords, EvolutionConstants
    <2> QED BY <1>1, <2>1, <2>2, RowAfter, TriggerRecords
  <1>5. CommitsStand'
    BY <1>1, OlderCommitsStand DEF CommitsStand, Rollback
  <1> QED BY <1>2, <1>3, <1>4, <1>5
          DEF Fresh, Rollback, OneWorkerEach, Working, PlansFit

LEMMA TakeFresh ==
    ASSUME FreshEvidence, Fresh, NEW w \in Workers, NEW t \in Triggers, Take(w, t)
    PROVE  Fresh'
  <1>1. Typed'
    BY TypedStep DEF Fresh, Next
  <1>2. /\ phase' = [phase EXCEPT ![w] = "taken"] /\ phase[w] = "idle"
        /\ holds' = [holds EXCEPT ![w] = t]
        /\ seen' = [seen EXCEPT ![w] = [epoch |-> epoch, row |-> rows[t.old]]]
        /\ UNCHANGED <<rows, epoch, handled, applied, plan>>
        /\ t \notin handled /\ \A v \in Workers : holds[v] # t
        /\ phase \in [Workers -> {"idle", "taken", "planned", "executed"}]
        /\ DOMAIN holds = Workers /\ DOMAIN seen = Workers /\ epoch \in Nat
    BY EvolutionConstants DEF Take, FreshEvidence, Fresh, Typed, TypeOK
  <1>3. OneWorkerEach'
    BY <1>2 DEF Fresh, OneWorkerEach, Working
  <1>4. ReadsAreCoherent'
    BY <1>2 DEF Fresh, ReadsAreCoherent
  <1>5. PlansFit'
    BY <1>2 DEF Fresh, PlansFit
  <1>6. NewRecordsAbsent' /\ CommitsStand'
    BY <1>2 DEF Fresh, NewRecordsAbsent, Unspent, CommitsStand
  <1> QED BY <1>1, <1>3, <1>4, <1>5, <1>6 DEF Fresh

LEMMA DecideFresh ==
    ASSUME Fresh, NEW w \in Workers, Decide(w)
    PROVE  Fresh'
  <1>1. Typed'
    BY TypedStep DEF Fresh, Next
  <1>2. /\ phase' = [phase EXCEPT ![w] = "planned"] /\ phase[w] = "taken"
        /\ Distinguished(holds[w])
        /\ UNCHANGED <<rows, epoch, handled, applied, holds, seen>>
        /\ phase \in [Workers -> {"idle", "taken", "planned", "executed"}]
        /\ DOMAIN plan = Workers
    BY DEF Decide, Fresh, Typed, TypeOK
  <1>3. PICK recommendation \in Recommendations, allowed \in BOOLEAN :
          \E p \in Routed(recommendation, allowed, holds[w].old, seen[w].row,
                          holds[w].new, seen[w].epoch) :
             plan' = [plan EXCEPT ![w] = p]
    BY DEF Decide
  <1>4. PICK p \in Routed(recommendation, allowed, holds[w].old, seen[w].row,
                          holds[w].new, seen[w].epoch) :
             plan' = [plan EXCEPT ![w] = p]
    BY <1>3
  <1>5. FitsTrigger(p, holds[w], seen[w])
    <2>1. CASE p = AttachPlan(holds[w].new, seen[w].epoch)
      BY <1>2, <2>1 DEF AttachPlan, NoPlan, FitsTrigger
    <2>2. CASE /\ p = SupersessionPlan(holds[w].old, seen[w].row, holds[w].new, seen[w].epoch)
               /\ seen[w].row.status = "ACTIVE"
               /\ FactOf[holds[w].old] = FactOf[holds[w].new]
      BY <1>2, <2>2 DEF SupersessionPlan, FitsTrigger
    <2> QED BY <1>4, <2>1, <2>2 DEF Routed, CheckSupersedes
  <1>6. PlansFit'
    BY <1>2, <1>4, <1>5 DEF Fresh, PlansFit
  <1>7. OneWorkerEach' /\ ReadsAreCoherent'
    BY <1>2 DEF Fresh, OneWorkerEach, Working, ReadsAreCoherent
  <1>8. NewRecordsAbsent' /\ CommitsStand'
    BY <1>2 DEF Fresh, NewRecordsAbsent, Unspent, CommitsStand
  <1> QED BY <1>1, <1>6, <1>7, <1>8 DEF Fresh

\* A worker that lets go of a trigger it did not execute, or retires the one it
\* did.
LEMMA ReleaseFresh ==
    ASSUME Fresh, Typed', NEW w \in Workers, Working(w), Release(w),
           UNCHANGED <<rows, epoch, applied>>,
           \/ phase[w] # "executed" /\ handled' = handled
           \/ handled' = handled \cup {holds[w]}
    PROVE  Fresh'
  <1>1. /\ phase' = [phase EXCEPT ![w] = "idle"]
        /\ phase'[w] = "idle"
        /\ \A v \in Workers \ {w} : /\ phase'[v] = phase[v] /\ holds'[v] = holds[v]
                                     /\ seen'[v] = seen[v] /\ plan'[v] = plan[v]
    BY DEF Release, Fresh, Typed, TypeOK
  <1>2. OneWorkerEach'
    BY <1>1 DEF Fresh, OneWorkerEach, Working
  <1>3. ReadsAreCoherent' /\ PlansFit'
    BY <1>1 DEF Fresh, ReadsAreCoherent, PlansFit
  <1>4. NewRecordsAbsent'
    <2> SUFFICES ASSUME NEW t \in Triggers, Unspent(t)' PROVE Unspent(t)
      BY DEF Fresh, NewRecordsAbsent
    <2> QED BY <1>1 DEF Unspent
  <1>5. CommitsStand'
    BY DEF Fresh, CommitsStand
  <1> QED BY <1>2, <1>3, <1>4, <1>5 DEF Fresh

LEMMA FreshStep ==
    ASSUME FreshEvidence, Fresh, [Next]_vars
    PROVE  Fresh'
  <1>1. Typed'
    BY TypedStep DEF Fresh
  <1>2. CASE UNCHANGED vars
    BY <1>1, <1>2 DEF vars, Fresh, OneWorkerEach, Working, ReadsAreCoherent, PlansFit,
       NewRecordsAbsent, Unspent, CommitsStand
  <1>3. ASSUME NEW t \in Triggers, Enqueue(t) PROVE Fresh'
    BY <1>1, <1>3 DEF Enqueue, Fresh, OneWorkerEach, Working, ReadsAreCoherent, PlansFit,
       NewRecordsAbsent, Unspent, CommitsStand
  <1>4. ASSUME NEW w \in Workers, Refuse(w) \/ Stale(w) \/ MarkHandled(w) PROVE Fresh'
    BY <1>1, <1>4, ReleaseFresh DEF Refuse, Stale, MarkHandled, Working
  <1>5. ASSUME NEW w \in Workers, Die(w) PROVE Fresh'
    <2>1. phase[w] # "executed" /\ phase[w] # "idle"
      BY <1>5, EvolutionConstants DEF Die, FreshEvidence
    <2> QED BY <1>1, <1>5, <2>1, ReleaseFresh DEF Die, Working
  <1> QED BY <1>2, <1>3, <1>4, <1>5, AdmitFresh, TakeFresh, DecideFresh, ExecuteFresh, RollbackFresh
          DEF Next

LEMMA FreshInvariant ==
    ASSUME FreshEvidence
    PROVE  Spec => []Fresh
  <1>1. Fresh /\ [Next]_vars => Fresh'
    BY FreshStep
  <1> QED BY <1>1, FreshInit, PTL DEF Spec

\* With fresh evidence, what a retired record says of its retirement changes only
\* when that retirement is rolled back: however many workers route whatever they
\* are recommended over stale reads, and whoever dies.
THEOREM HistoryStands ==
    ASSUME FreshEvidence
    PROVE  Spec => HistoryNeverRewritten
  <1>1. Fresh /\ [Next]_vars =>
          [\A r \in Records :
              rows[r].status = "SUPERSEDED" /\ rows'[r] # rows[r] =>
                  \E c \in applied \ applied' : c.plan.retire = r]_rows
    <2> SUFFICES ASSUME Fresh, [Next]_vars, NEW r \in Records,
                        rows[r].status = "SUPERSEDED", rows'[r] # rows[r]
                 PROVE  \E x \in applied \ applied' : x.plan.retire = r
      OBVIOUS
    <2>1. ASSUME NEW q \in Admissible, Admit(q) PROVE FALSE
      <3>1. Commit(AttachPlan(q, epoch)) /\ AttachPlan(q, epoch).attach = q
            /\ AttachPlan(q, epoch).retire = None /\ rows[q] = NoRow
        BY <2>1 DEF Admit, AttachPlan, NoPlan
      <3>2. r = q
        BY <3>1, RowAfter, EvolutionConstants
      <3> QED BY <3>1, <3>2 DEF NoRow
    <2>2. ASSUME NEW w \in Workers, Execute(w) PROVE FALSE
      <3>1. r = plan[w].attach \/ r = plan[w].retire
        BY <2>2, RowAfter DEF Execute
      <3>2. r # plan[w].attach
        BY <2>2, BeforeExecute DEF NoRow
      <3>3. r # plan[w].retire
        BY <2>2, BeforeExecute, EvolutionConstants
      <3> QED BY <3>1, <3>2, <3>3
    <2>3. ASSUME NEW x \in applied, Rollback(x)
          PROVE  \E y \in applied \ applied' : y.plan.retire = r
      <3>1. r = x.plan.retire \/ r = x.plan.attach
        BY <2>3, RowAfter, BeforeRollback DEF Rollback
      <3>2. r # x.plan.attach
        BY <2>3, BeforeRollback
      <3>3. x \in applied \ applied'
        BY <2>3 DEF Rollback
      <3> QED BY <3>1, <3>2, <3>3
    <2> QED BY <2>1, <2>2, <2>3
            DEF Next, vars, Enqueue, Take, Decide, Refuse, Stale, MarkHandled, Die
  <1> QED BY <1>1, FreshInvariant, PTL DEF Spec, HistoryNeverRewritten

-----------------------------------------------------------------------------
(* Fresh evidence never loses a fact.                                        *)

Stored(r) == r \in Admissible /\ rows[r] # NoRow

\* FactNeverVanishes made inductive: undoing the last commit, if it only
\* attached, leaves each fact another live record.
Standing ==
    /\ Fresh
    /\ FactNeverVanishes
    /\ \A x \in applied : x.epoch = epoch /\ x.plan.retire = None =>
          \A r \in Records : Stored(r) => Live(FactOf[r]) \ {x.plan.attach} # {}

\* A plan stores no admissible record and puts a live successor of the same fact
\* where it retires one.
LEMMA StandingExecute ==
    ASSUME FreshEvidence, Standing, NEW w \in Workers, Execute(w)
    PROVE  Standing'
  <1>1. Fresh /\ Fresh' /\ Commit(plan[w])
    BY FreshStep DEF Standing, Next, Execute
  <1>2. plan[w].attach \in Records \ Admissible /\ rows[plan[w].attach] = NoRow
    BY <1>1, BeforeExecute, TriggerRecords DEF FreshEvidence, Unspent
  <1>3. rows'[plan[w].attach].status = "ACTIVE"
    BY <1>1, <1>2, BeforeExecute, RowAfter DEF LiveRow
  <1>4. ASSUME NEW r \in Records, Stored(r)' PROVE Stored(r)
    BY <1>1, <1>2, <1>4, RowAfter DEF Stored
  <1>5. ASSUME NEW r \in Records, Stored(r), plan[w].retire = None
        PROVE  Live(FactOf[r])' \ {plan[w].attach} # {}
    <2>1. PICK q \in Records : FactOf[q] = FactOf[r] /\ rows[q].status = "ACTIVE"
      BY <1>5 DEF Standing, FactNeverVanishes, Stored, Live
    <2>2. q # plan[w].attach
      BY <1>2, <2>1 DEF NoRow
    <2>3. rows'[q] = rows[q]
      BY <1>1, <1>5, <2>2, RowAfter, EvolutionConstants
    <2> QED BY <2>1, <2>2, <2>3 DEF Live
  <1>6. ASSUME NEW r \in Records, Stored(r) PROVE Live(FactOf[r])' # {}
    <2>1. CASE plan[w].retire = None
      BY <1>5, <1>6, <2>1
    <2>2. CASE FactOf[r] = FactOf[plan[w].attach]
      BY <1>2, <1>3, <2>2 DEF Live
    <2>3. CASE plan[w].retire # None /\ FactOf[r] # FactOf[plan[w].attach]
      <3>1. PICK q \in Records : FactOf[q] = FactOf[r] /\ rows[q].status = "ACTIVE"
        BY <1>6 DEF Standing, FactNeverVanishes, Stored, Live
      <3>2. q # plan[w].attach /\ q # plan[w].retire
        BY <1>1, <2>3, <3>1, BeforeExecute
      <3>3. rows'[q] = rows[q]
        BY <1>1, <3>2, RowAfter
      <3> QED BY <3>1, <3>3 DEF Live
    <2> QED BY <2>1, <2>2, <2>3
  <1>7. FactNeverVanishes'
    BY <1>4, <1>6, EvolutionConstants DEF FactNeverVanishes, Stored
  <1>8. \A x \in applied : x.epoch # epoch'
    BY <1>1, <1>2, OlderCommitsStand, BeforeExecute DEF LiveRow, NoRow
  <1>9. \A x \in applied' : x.epoch = epoch' => x.plan = plan[w]
    BY <1>8 DEF Execute
  <1> QED BY <1>1, <1>4, <1>5, <1>7, <1>9 DEF Standing

\* A rollback puts back the live record its plan had retired; if it had retired
\* none, another one is still live.
LEMMA StandingRollback ==
    ASSUME FreshEvidence, Standing, NEW x \in applied, Rollback(x)
    PROVE  Standing'
  <1> DEFINE p == Compensation(x.plan)
  <1>1. Fresh /\ Fresh' /\ Commit(p)
    BY FreshStep DEF Standing, Next, Rollback
  <1>2. x.plan.attach \in Records /\ x.plan.retire \in Records \cup {None} /\ x.epoch = epoch
    BY <1>1 DEF Fresh, CommitsStand, Rollback, Typed, TypeOK, Plans
  <1>3. x.plan.retire # None => /\ rows[x.plan.retire] # NoRow
                               /\ rows'[x.plan.retire].status = "ACTIVE"
                               /\ FactOf[x.plan.retire] = FactOf[x.plan.attach]
    BY <1>1, <1>2, BeforeRollback, RowAfter
  <1>4. ASSUME NEW r \in Records, Stored(r)' PROVE Stored(r)
    <2>1. CASE r = x.plan.retire
      BY <1>3, <1>4, <2>1, EvolutionConstants DEF Stored
    <2>2. CASE r # x.plan.retire
      BY <1>1, <1>4, <2>2, BeforeRollback, RowAfter DEF Stored
    <2> QED BY <2>1, <2>2
  <1>5. ASSUME NEW q \in Records, rows[q].status = "ACTIVE", q # x.plan.attach
        PROVE  rows'[q].status = "ACTIVE"
    <2>1. CASE q = x.plan.retire
      BY <1>3, <2>1, EvolutionConstants
    <2>2. CASE q # x.plan.retire
      BY <1>1, <1>5, <2>2, BeforeRollback, RowAfter
    <2> QED BY <2>1, <2>2
  <1>6. ASSUME NEW r \in Records, Stored(r) PROVE Live(FactOf[r])' # {}
    <2>1. CASE x.plan.retire = None
      <3>1. Live(FactOf[r]) \ {x.plan.attach} # {}
        BY <1>2, <1>6, <2>1 DEF Standing
      <3>2. PICK q \in Records : FactOf[q] = FactOf[r] /\ rows[q].status = "ACTIVE" /\ q # x.plan.attach
        BY <3>1 DEF Live
      <3> QED BY <1>5, <3>2 DEF Live
    <2>2. CASE x.plan.retire # None /\ FactOf[r] = FactOf[x.plan.attach]
      BY <1>2, <1>3, <2>2 DEF Live
    <2>3. CASE x.plan.retire # None /\ FactOf[r] # FactOf[x.plan.attach]
      <3>1. PICK q \in Records : FactOf[q] = FactOf[r] /\ rows[q].status = "ACTIVE"
        BY <1>6 DEF Standing, FactNeverVanishes, Stored, Live
      <3> QED BY <1>5, <2>3, <3>1 DEF Live
    <2> QED BY <2>1, <2>2, <2>3
  <1>7. FactNeverVanishes'
    BY <1>4, <1>6, EvolutionConstants DEF FactNeverVanishes, Stored
  <1>8. \A y \in applied' : y.epoch # epoch'
    BY <1>1, OlderCommitsStand, BeforeRollback DEF Rollback, NoRow
  <1> QED BY <1>1, <1>7, <1>8 DEF Standing

LEMMA StandingAdmit ==
    ASSUME FreshEvidence, Standing, NEW r \in Admissible, Admit(r)
    PROVE  Standing'
  <1>1. /\ Fresh /\ Fresh'
        /\ Commit(AttachPlan(r, epoch)) /\ AttachPlan(r, epoch).attach = r
        /\ AttachPlan(r, epoch).retire = None
        /\ AttachPlan(r, epoch).payload = LiveRow
        /\ r \in Records
    BY FreshStep, EvolutionConstants DEF Standing, Next, Admit, AttachPlan, NoPlan
  <1>2. rows'[r].status = "ACTIVE"
    BY <1>1, RowAfter DEF LiveRow
  <1>3. \A q \in Records : q # r => rows'[q] = rows[q]
    BY <1>1, RowAfter, EvolutionConstants
  <1>4. FactNeverVanishes'
    BY <1>2, <1>3, EvolutionConstants DEF Standing, FactNeverVanishes, Live
  <1>5. \A x \in applied' : x.epoch # epoch'
    BY <1>1, OlderCommitsStand DEF Admit, LiveRow, NoRow
  <1> QED BY <1>1, <1>4, <1>5 DEF Standing

\* Once admitted, a fact keeps a live record through every supersession, stale
\* plan, confused caller and rollback, as long as evidence is fresh.
THEOREM FactsStand ==
    ASSUME FreshEvidence
    PROVE  Spec => []FactNeverVanishes
  <1>1. Init => Standing
    BY FreshInit, EvolutionConstants DEF Init, Standing, FactNeverVanishes
  <1>2. Standing /\ [Next]_vars => Standing'
    <2> SUFFICES ASSUME Standing, [Next]_vars PROVE Standing'
      OBVIOUS
    <2>1. Fresh'
      BY FreshStep DEF Standing
    <2>2. CASE UNCHANGED <<rows, epoch, applied>>
      BY <2>1, <2>2 DEF Standing, FactNeverVanishes, Live, Stored
    <2> QED BY <2>2, StandingExecute, StandingRollback, StandingAdmit
            DEF Next, vars, Enqueue, Take, Decide, Refuse, Stale, MarkHandled, Die
  <1>3. Standing => FactNeverVanishes
    BY DEF Standing
  <1> QED BY <1>1, <1>2, <1>3, PTL DEF Spec

-----------------------------------------------------------------------------
(* Fresh evidence leaves every lineage with a live end.                      *)

Replaced(r) == rows[r].by # None

\* Along the pointers the records come later and later.
Forward(rank) == \A r \in Records : Replaced(r) => rank[r] < rank[rows[r].by]

\* LineageEndsLive made inductive: every pointer leads to a record of the same
\* fact that is live or was itself replaced, all pointers go one way, and only
\* the record the last commit retired points to the record it attached, so that
\* undoing that commit leaves no pointer to a record without a successor.
Linked ==
    /\ Fresh
    /\ \A r \in Records : Replaced(r) =>
          /\ rows[rows[r].by].status = "ACTIVE" \/ Replaced(rows[r].by)
          /\ FactOf[rows[r].by] = FactOf[r]
    /\ \E rank \in [Records -> Nat] : Forward(rank)
    /\ \A x \in applied : x.epoch = epoch =>
          \A r \in Records : rows[r].by = x.plan.attach => r = x.plan.retire

\* What one batch does to a record it retires.
LEMMA RowRetired ==
    ASSUME NEW p, Commit(p), NEW r \in Records, r # p.attach, r = p.retire, rows[r] # NoRow
    PROVE  rows'[r] = Retired(rows[r], p.by, p.at)
  BY DEF Commit, RowsAfter

\* Where a record points is a record.
LEMMA PointersAreRecords ==
    ASSUME Typed, NEW r \in Records, Replaced(r)
    PROVE  rows[r].by \in Records /\ rows[r].status = "SUPERSEDED"
  BY DEF Typed, TypeOK, Rows, Replaced

\* A supersession puts a record nobody points to at the end of the lineage of
\* the live record it retires.
LEMMA LinkedExecute ==
    ASSUME FreshEvidence, Linked, NEW w \in Workers, Execute(w)
    PROVE  Linked'
  <1> DEFINE new == plan[w].attach
             old == plan[w].retire
  <1>1. Fresh /\ Fresh' /\ Commit(plan[w])
    BY FreshStep DEF Linked, Next, Execute
  <1>2. new \in Records /\ rows[new] = NoRow /\ rows'[new] = LiveRow
    BY <1>1, BeforeExecute, TriggerRecords, RowAfter
  <1>3. old # None => /\ old \in Records /\ old # new
                      /\ rows[old].status = "ACTIVE" /\ FactOf[old] = FactOf[new]
                      /\ rows'[old].by = new
    <2> SUFFICES ASSUME old # None
                 PROVE  /\ old \in Records /\ old # new
                        /\ rows[old].status = "ACTIVE" /\ FactOf[old] = FactOf[new]
                        /\ rows'[old].by = new
      OBVIOUS
    <2>1. /\ old \in Records /\ old # new /\ plan[w].by = new
          /\ rows[old].status = "ACTIVE" /\ FactOf[old] = FactOf[new]
      BY <1>1, BeforeExecute
    <2>2. rows'[old] = Retired(rows[old], plan[w].by, plan[w].at)
      BY <1>1, <2>1, RowRetired DEF NoRow
    <2> QED BY <1>2, <2>1, <2>2, EvolutionConstants DEF Retired
  <1>4. \A r \in Records : r # new /\ r # old => rows'[r] = rows[r]
    BY <1>1, RowAfter
  <1>5. \A r \in Records : rows[r].by # new
    <2> SUFFICES ASSUME NEW r \in Records, rows[r].by = new PROVE FALSE
      OBVIOUS
    <2>1. Replaced(r)
      BY <1>2, EvolutionConstants DEF Replaced
    <2> QED BY <1>2, <2>1 DEF Linked, Replaced, NoRow
  <1>6. ASSUME NEW r \in Records, Replaced(r)'
        PROVE  r # old => r # new /\ Replaced(r) /\ rows'[r].by = rows[r].by
    <2>1. rows'[r].by # None
      BY <1>6 DEF Replaced
    <2>2. r # new
      BY <1>2, <2>1 DEF LiveRow
    <2> QED BY <1>4, <2>1, <2>2 DEF Replaced
  <1> HIDE DEF new, old
  <1>7. ASSUME NEW r \in Records, Replaced(r)'
        PROVE  /\ rows'[rows'[r].by].status = "ACTIVE" \/ Replaced(rows[r].by)'
               /\ FactOf[rows'[r].by] = FactOf[r]
    <2>1. CASE r = old
      <3>1. rows'[r].by = new /\ FactOf[new] = FactOf[r]
        BY <1>3, <2>1, EvolutionConstants
      <3> QED BY <1>2, <3>1 DEF LiveRow
    <2>2. CASE r # old
      <3> DEFINE s == rows[r].by
      <3>1. Replaced(r) /\ rows'[r].by = s /\ s \in Records /\ s # new
        BY <1>1, <1>5, <1>6, <1>7, <2>2, PointersAreRecords DEF Fresh
      <3>2. FactOf[s] = FactOf[r] /\ (rows[s].status = "ACTIVE" \/ Replaced(s))
        BY <3>1 DEF Linked
      <3>3. CASE s = old
        <4>1. rows'[s].by = new /\ new # None
          BY <1>2, <1>3, <3>1, <3>3, EvolutionConstants
        <4> QED BY <3>1, <3>2, <4>1 DEF Replaced
      <3>4. CASE s # old
        BY <1>4, <3>1, <3>2, <3>4 DEF Replaced
      <3> QED BY <3>3, <3>4
    <2> QED BY <2>1, <2>2
  <1>8. \E rank \in [Records -> Nat] : Forward(rank)'
    <2>1. PICK rank \in [Records -> Nat] : Forward(rank)
      BY DEF Linked
    <2>2. old # None => rank[old] \in Nat /\ rank[old] + 1 \in Nat
      BY <1>3
    <2>3. PICK later \in [Records -> Nat] :
            /\ \A r \in Records : r # new => later[r] = rank[r]
            /\ old # None => later[new] = rank[old] + 1
      <3> DEFINE f == [rank EXCEPT ![new] = IF old = None THEN 0 ELSE rank[old] + 1]
      <3>1. /\ f \in [Records -> Nat]
            /\ \A r \in Records : r # new => f[r] = rank[r]
            /\ old # None => f[new] = rank[old] + 1
        BY <1>2, <2>2
      <3> QED BY <3>1
    <2>4. ASSUME NEW r \in Records, Replaced(r)' PROVE later[r] < later[rows'[r].by]
      <3>1. CASE r = old
        <4>1. old # None /\ r # new
          BY <1>3, <3>1, EvolutionConstants
        <4> QED BY <1>3, <2>2, <2>3, <3>1, <4>1
      <3>2. CASE r # old
        <4>1. r # new /\ Replaced(r) /\ rows'[r].by = rows[r].by
          BY <1>6, <2>4, <3>2
        <4>2. rows[r].by \in Records /\ rows[r].by # new
          BY <1>1, <1>5, <4>1, PointersAreRecords DEF Fresh
        <4>3. rank[r] < rank[rows[r].by]
          BY <2>1, <4>1 DEF Forward
        <4> QED BY <2>3, <4>1, <4>2, <4>3
      <3> QED BY <3>1, <3>2
    <2>5. Forward(later)'
      BY <2>4 DEF Forward
    <2> QED BY <2>5
  <1>9. \A x \in applied : x.epoch # epoch'
    BY <1>1, <1>2, OlderCommitsStand, BeforeExecute DEF LiveRow, NoRow
  <1>10. \A x \in applied' : x.epoch = epoch' => x.plan.attach = new /\ x.plan.retire = old
    BY <1>9 DEF Execute, new, old
  <1>11. \A r \in Records : rows'[r].by = new => r = old
    <2> SUFFICES ASSUME NEW r \in Records, rows'[r].by = new PROVE r = old
      OBVIOUS
    <2>1. Replaced(r)'
      BY <1>2, EvolutionConstants DEF Replaced
    <2> QED BY <1>5, <1>6, <2>1
  <1> QED BY <1>1, <1>7, <1>8, <1>10, <1>11 DEF Linked

\* A rollback takes the last record of a lineage away, and clears the one pointer
\* to it.
LEMMA LinkedRollback ==
    ASSUME FreshEvidence, Linked, NEW x \in applied, Rollback(x)
    PROVE  Linked'
  <1> DEFINE p == Compensation(x.plan)
             new == x.plan.attach
             old == x.plan.retire
  <1>1. Fresh /\ Fresh' /\ Commit(p)
    BY FreshStep DEF Linked, Next, Rollback
  <1>2. /\ p.attach = old /\ p.retire = new /\ p.payload = x.plan.restores
        /\ p.by = None
        /\ new \in Records /\ old \in Records \cup {None} /\ old # new
    BY <1>1, BeforeRollback DEF Fresh, CommitsStand, Typed, TypeOK, Plans, Compensation, NoPlan
  <1>3. rows[new].status = "ACTIVE" /\ rows[new].by = None
    BY <1>2, BeforeRollback, <1>1 DEF Fresh, Typed, TypeOK
  <1>4. rows'[new].by = None
    <2>1. rows'[new] = Retired(rows[new], p.by, p.at)
      BY <1>1, <1>2, <1>3, RowRetired DEF NoRow
    <2> QED BY <1>2, <1>3, <2>1 DEF Retired
  <1>5. old # None => rows'[old].status = "ACTIVE" /\ rows'[old].by = None
    <2> SUFFICES ASSUME old # None PROVE rows'[old].status = "ACTIVE" /\ rows'[old].by = None
      OBVIOUS
    <2>1. rows'[old] = x.plan.restores /\ x.plan.restores.status = "ACTIVE"
      BY <1>1, <1>2, RowAfter, BeforeRollback
    <2> QED BY <1>1, <2>1 DEF Fresh, Typed, Straight
  <1>6. \A r \in Records : r # new /\ r # old => rows'[r] = rows[r]
    BY <1>1, <1>2, RowAfter
  <1>7. \A r \in Records : rows[r].by = new => r = old
    BY DEF Linked, Rollback
  <1> HIDE DEF new, old, p
  <1>8. ASSUME NEW r \in Records, Replaced(r)'
        PROVE  /\ Replaced(r) /\ rows'[r].by = rows[r].by /\ rows[r].by \in Records
               /\ rows[r].by # new
    <2>1. r # new /\ r # old
      BY <1>4, <1>5, <1>8, EvolutionConstants DEF Replaced
    <2>2. rows'[r] = rows[r] /\ Replaced(r) /\ rows[r].by # new
      BY <1>6, <1>7, <1>8, <2>1 DEF Replaced
    <2> QED BY <1>1, <2>2, PointersAreRecords DEF Fresh
  <1>9. ASSUME NEW r \in Records, Replaced(r)'
        PROVE  /\ rows'[rows'[r].by].status = "ACTIVE" \/ Replaced(rows[r].by)'
               /\ FactOf[rows'[r].by] = FactOf[r]
    <2> DEFINE s == rows[r].by
    <2>1. Replaced(r) /\ rows'[r].by = s /\ s \in Records /\ s # new
      BY <1>8, <1>9
    <2>2. FactOf[s] = FactOf[r] /\ (rows[s].status = "ACTIVE" \/ Replaced(s))
      BY <2>1 DEF Linked
    <2>3. CASE s = old
      BY <1>5, <2>1, <2>2, <2>3, EvolutionConstants
    <2>4. CASE s # old
      BY <1>6, <2>1, <2>2, <2>4 DEF Replaced
    <2> QED BY <2>3, <2>4
  <1>10. \E rank \in [Records -> Nat] : Forward(rank)'
    <2>1. PICK rank \in [Records -> Nat] : Forward(rank)
      BY DEF Linked
    <2>2. Forward(rank)'
      BY <1>8, <2>1 DEF Forward
    <2> QED BY <2>2
  <1>11. \A y \in applied' : y.epoch # epoch'
    BY <1>1, OlderCommitsStand, BeforeRollback DEF Rollback, NoRow, p
  <1> QED BY <1>1, <1>9, <1>10, <1>11 DEF Linked

LEMMA LinkedAdmit ==
    ASSUME FreshEvidence, Linked, NEW a \in Admissible, Admit(a)
    PROVE  Linked'
  <1>1. /\ Fresh /\ Fresh'
        /\ Commit(AttachPlan(a, epoch)) /\ AttachPlan(a, epoch).attach = a
        /\ AttachPlan(a, epoch).retire = None
        /\ AttachPlan(a, epoch).payload = LiveRow
        /\ a \in Records /\ rows[a] = NoRow
    BY FreshStep, EvolutionConstants DEF Linked, Next, Admit, AttachPlan, NoPlan
  <1>2. rows'[a] = LiveRow /\ \A r \in Records : r # a => rows'[r] = rows[r]
    BY <1>1, RowAfter, EvolutionConstants
  <1>3. \A r \in Records : rows'[r].by = rows[r].by
    BY <1>1, <1>2 DEF LiveRow, NoRow
  <1>4. \A r \in Records : rows[r].status = "ACTIVE" => rows'[r].status = "ACTIVE"
    BY <1>2 DEF LiveRow
  <1>5. ASSUME NEW r \in Records, Replaced(r)'
        PROVE  /\ rows'[rows'[r].by].status = "ACTIVE" \/ Replaced(rows[r].by)'
               /\ FactOf[rows'[r].by] = FactOf[r]
    <2>1. Replaced(r) /\ rows[r].by \in Records /\ rows'[r].by = rows[r].by
      BY <1>1, <1>3, <1>5, PointersAreRecords DEF Replaced, Fresh
    <2> QED BY <1>3, <1>4, <2>1 DEF Linked, Replaced
  <1>6. \E rank \in [Records -> Nat] : Forward(rank)'
    <2>1. PICK rank \in [Records -> Nat] : Forward(rank)
      BY DEF Linked
    <2>2. Forward(rank)'
      BY <1>3, <2>1 DEF Forward, Replaced
    <2> QED BY <2>2
  <1>7. \A x \in applied' : x.epoch # epoch'
    BY <1>1, OlderCommitsStand DEF Admit, LiveRow, NoRow
  <1> QED BY <1>1, <1>5, <1>6, <1>7 DEF Linked

LEMMA LinkedInvariant ==
    ASSUME FreshEvidence
    PROVE  Spec => []Linked
  <1>1. Init => Linked
    <2> SUFFICES ASSUME Init PROVE Linked
      OBVIOUS
    <2>1. \A r \in Records : ~Replaced(r)
      BY DEF Init, NoRow, Replaced
    <2>2. [r \in Records |-> 0] \in [Records -> Nat] /\ Forward([r \in Records |-> 0])
      BY <2>1 DEF Forward
    <2> QED BY <2>1, <2>2, FreshInit DEF Linked, Init
  <1>2. Linked /\ [Next]_vars => Linked'
    <2> SUFFICES ASSUME Linked, [Next]_vars PROVE Linked'
      OBVIOUS
    <2>1. Fresh'
      BY FreshStep DEF Linked
    <2>2. CASE UNCHANGED <<rows, epoch, applied>>
      BY <2>1, <2>2 DEF Linked, Replaced, Forward
    <2> QED BY <2>2, LinkedExecute, LinkedRollback, LinkedAdmit
            DEF Next, vars, Enqueue, Take, Decide, Refuse, Stale, MarkHandled, Die
  <1> QED BY <1>1, <1>2, PTL DEF Spec

\* A lineage starts at its record and goes on to the successor of each.
LEMMA LineageIsTheWalk ==
    ASSUME Typed, NEW r \in Records
    PROVE  /\ Lineage(r) \in [Nat -> Records]
           /\ Lineage(r)[0] = r
           /\ \A n \in Nat : Lineage(r)[n + 1] = Successor(Lineage(r)[n])
  <1> DEFINE step == [n \in Nat |-> [q \in Records |-> Successor(q)]]
  <1>1. PICK f : IsIteration(f, Records, r, step)
    <2>1. \A q \in Records : Successor(q) \in Records
      BY PointersAreRecords DEF Successor, Replaced
    <2>2. step \in [Nat -> [Records -> Records]]
      BY <2>1
    <2> HIDE DEF step
    <2> QED BY <2>2, IteratesExist
  <1>2. f \in [Nat -> Records] /\ f[0] = r /\ \A n \in Nat : f[n + 1] = Successor(f[n])
    BY <1>1 DEF IsIteration
  <1> DEFINE Walk(after) == [n \in Nat |-> IF n = 0 THEN r ELSE Successor(after[n - 1])]
  <1>3. f = Walk(f)
    <2>1. ASSUME NEW n \in Nat PROVE f[n] = Walk(f)[n]
      <3>1. CASE n = 0
        BY <1>2, <3>1
      <3>2. CASE n # 0
        <4>1. n - 1 \in Nat /\ (n - 1) + 1 = n
          BY <3>2
        <4>2. f[(n - 1) + 1] = Successor(f[n - 1])
          BY <1>2, <4>1
        <4> QED BY <3>2, <4>1, <4>2
      <3> QED BY <3>1, <3>2
    <2>2. f = [n \in Nat |-> f[n]]
      BY <1>2
    <2>3. [n \in Nat |-> f[n]] = Walk(f)
      BY <2>1
    <2> QED BY <2>2, <2>3
  <1>4. Lineage(r) = Walk(Lineage(r))
    <2>1. Lineage(r) = CHOOSE after : after = Walk(after)
      BY DEF Lineage
    <2> HIDE DEF Walk
    <2> QED BY <1>3, <2>1
  <1> DEFINE g == Lineage(r)
  <1>5. g = Walk(g)
    BY <1>4
  <1> HIDE DEF g
  <1>6. g[0] = r
    BY <1>5
  <1>7. ASSUME NEW n \in Nat PROVE g[n + 1] = Successor(g[n])
    <2>1. n + 1 \in Nat /\ n + 1 # 0 /\ (n + 1) - 1 = n
      OBVIOUS
    <2> QED BY <1>5, <2>1
  <1>8. g \in [Nat -> Records]
    <2>1. g = [n \in Nat |-> g[n]]
      BY <1>5
    <2> DEFINE T == {n \in Nat : g[n] \in Records}
    <2>2. 0 \in T
      BY <1>6
    <2>3. ASSUME NEW n \in T PROVE n + 1 \in T
      <3>1. Successor(g[n]) \in Records
        BY <2>3, PointersAreRecords DEF Successor, Replaced
      <3> QED BY <1>7, <2>3, <3>1
    <2>4. T \in SUBSET Nat
      OBVIOUS
    <2> HIDE DEF T
    <2>5. T = Nat
      BY <2>2, <2>3, <2>4, NaturalsByInduction
    <2>6. \A n \in Nat : g[n] \in Records
      BY <2>5 DEF T
    <2> QED BY <2>1, <2>6
  <1> QED BY <1>6, <1>7, <1>8 DEF g

\* As long as a lineage meets only replaced records, it climbs.
LEMMA LineageClimbs ==
    ASSUME Typed, NEW rank \in [Records -> Nat], Forward(rank), NEW r \in Records,
           NEW n \in Nat, \A i \in 0..n : Replaced(Lineage(r)[i])
    PROVE  \A i, j \in 0..n : i < j => rank[Lineage(r)[i]] < rank[Lineage(r)[j]]
  <1> DEFINE g == Lineage(r)
             T == {j \in Nat : j <= n => \A i \in 0..n : i < j => rank[g[i]] < rank[g[j]]}
  <1>1. g \in [Nat -> Records] /\ \A k \in Nat : g[k + 1] = Successor(g[k])
    BY LineageIsTheWalk
  <1>2. \A i \in 0..n : Replaced(g[i])
    OBVIOUS
  <1> HIDE DEF g
  <1>3. 0 \in T
    OBVIOUS
  <1>4. ASSUME NEW j \in T PROVE j + 1 \in T
    <2> SUFFICES ASSUME j + 1 <= n, NEW i \in 0..n, i < j + 1
                 PROVE  rank[g[i]] < rank[g[j + 1]]
      BY <1>4
    <2>1. j \in 0..n /\ j <= n /\ (i < j \/ i = j)
      BY <1>4
    <2>2. g[j + 1] = rows[g[j]].by /\ rank[g[j]] < rank[g[j + 1]]
      BY <1>1, <1>2, <2>1 DEF Successor, Replaced, Forward
    <2>3. rank[g[i]] \in Nat /\ rank[g[j]] \in Nat /\ rank[g[j + 1]] \in Nat
      BY <1>1
    <2>4. i < j => rank[g[i]] < rank[g[j]]
      BY <1>4, <2>1
    <2> QED BY <2>1, <2>2, <2>3, <2>4
  <1>5. T \in SUBSET Nat
    OBVIOUS
  <1> HIDE DEF T
  <1>6. T = Nat
    BY <1>3, <1>4, <1>5, NaturalsByInduction
  <1>7. ASSUME NEW i \in 0..n, NEW j \in 0..n, i < j PROVE rank[g[i]] < rank[g[j]]
    <2>1. j \in T /\ j <= n
      BY <1>6
    <2> QED BY <1>7, <2>1 DEF T
  <1> QED BY <1>7 DEF g

\* There are not enough records for a lineage that goes on: it has come to its
\* end before it has visited every record.
LEMMA LineageEnds ==
    ASSUME Linked, NEW r \in Records
    PROVE  ~Replaced(Lineage(r)[Cardinality(Records)])
  <1> DEFINE N == Cardinality(Records)
             g == Lineage(r)
  <1>1. /\ Typed /\ N \in Nat
        /\ g \in [Nat -> Records] /\ \A k \in Nat : g[k + 1] = Successor(g[k])
    BY LineageIsTheWalk, EvolutionConstants, FS_CardinalityType DEF Linked, Fresh
  <1>2. PICK rank \in [Records -> Nat] : Forward(rank)
    BY DEF Linked
  <1> SUFFICES ASSUME Replaced(g[N]) PROVE FALSE
    OBVIOUS
  <1> HIDE DEF g, N
  \* A record that was not replaced is its own successor: it stays the last.
  <1>3. \A i \in 0..N : Replaced(g[i])
    <2> SUFFICES ASSUME NEW i \in 0..N, ~Replaced(g[i]) PROVE FALSE
      OBVIOUS
    <2> DEFINE T == {k \in Nat : g[i + k] = g[i]}
    <2>1. 0 \in T
      BY <1>1
    <2>2. ASSUME NEW k \in T PROVE k + 1 \in T
      <3>1. i + k \in Nat /\ (i + k) + 1 = i + (k + 1) /\ g[i + k] = g[i]
        BY <1>1
      <3>2. g[(i + k) + 1] = Successor(g[i])
        BY <1>1, <3>1
      <3>3. Successor(g[i]) = g[i]
        BY DEF Successor, Replaced
      <3> QED BY <3>1, <3>2, <3>3
    <2>3. T \in SUBSET Nat
      OBVIOUS
    <2> HIDE DEF T
    <2>4. T = Nat
      BY <2>1, <2>2, <2>3, NaturalsByInduction
    <2>5. N - i \in T /\ i + (N - i) = N
      BY <1>1, <2>4
    <2> QED BY <2>5 DEF T
  <1>4. \A i, j \in 0..N : i < j => rank[g[i]] < rank[g[j]]
    BY <1>1, <1>2, <1>3, LineageClimbs DEF g
  <1> DEFINE visit == [i \in 0..N |-> g[i]]
  <1>5. visit \in [0..N -> Records]
    BY <1>1
  <1>6. IsFiniteSet(0..N) /\ Cardinality(0..N) = N + 1
    BY <1>1, FS_Interval
  <1>7. \E i, j \in 0..N : i # j /\ visit[i] = visit[j]
    <2>1. Cardinality(Records) < Cardinality(0..N) /\ IsFiniteSet(Records)
      BY <1>1, <1>6, EvolutionConstants DEF N
    <2> HIDE DEF visit
    <2> QED BY <1>5, <1>6, <2>1, FS_PigeonHole
  <1>8. PICK i, j \in 0..N : i # j /\ g[i] = g[j]
    BY <1>7
  <1>9. rank[g[i]] \in Nat /\ (i < j \/ j < i)
    BY <1>1, <1>8
  <1> QED BY <1>4, <1>8, <1>9

\* With fresh evidence "what replaced this record?" always has an answer: through
\* supersessions, confused callers, stale reads and rollbacks, the pointers of a
\* superseded record never form a cycle and end in a live record of its fact.
THEOREM LineagesStand ==
    ASSUME FreshEvidence
    PROVE  Spec => []LineageEndsLive
  <1>1. Linked => LineageEndsLive
    <2> SUFFICES ASSUME Linked, NEW r \in Records, Replaced(r)
                 PROVE  /\ rows[Lineage(r)[Cardinality(Records)]].status = "ACTIVE"
                        /\ FactOf[Lineage(r)[Cardinality(Records)]] = FactOf[r]
      BY DEF LineageEndsLive, Replaced
    <2> DEFINE g == Lineage(r)
               T == {n \in Nat : /\ FactOf[g[n]] = FactOf[r]
                                 /\ rows[g[n]].status = "ACTIVE" \/ Replaced(g[n])}
    <2>1. /\ g \in [Nat -> Records] /\ g[0] = r /\ \A k \in Nat : g[k + 1] = Successor(g[k])
      BY LineageIsTheWalk DEF Linked, Fresh
    <2> HIDE DEF g
    <2>2. 0 \in T
      BY <2>1
    <2>3. ASSUME NEW n \in T PROVE n + 1 \in T
      BY <2>1, <2>3 DEF Linked, Successor, Replaced
    <2>4. T \in SUBSET Nat
      OBVIOUS
    <2> HIDE DEF T
    <2>5. T = Nat
      BY <2>2, <2>3, <2>4, NaturalsByInduction
    <2>6. Cardinality(Records) \in T
      BY <2>5, EvolutionConstants, FS_CardinalityType
    <2> QED BY <2>6, LineageEnds DEF T, g
  <1> QED BY <1>1, LinkedInvariant, PTL

=============================================================================
