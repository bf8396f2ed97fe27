-------------------------- MODULE ConceptEvolution --------------------------
(***************************************************************************)
(* Re-curation: workers take triggers (recuration/triggers.py), mint the   *)
(* next record of a fact, route a recommendation (recuration/router.py) to *)
(* a corroboration, supersession or conflict plan (recuration/evolution.py)*)
(* and execute it.  Execution is one step: with calls that do not overlap  *)
(* the executor implements a guarded commit (PlanExecutorProofs).  An      *)
(* evolution plan carries the snapshot guard and no other.  The store      *)
(* upserts by assertion_id.  The semantic audit a router may be given is   *)
(* written when it plans, reads none of this state and is left out.        *)
(***************************************************************************)
EXTENDS Naturals, FiniteSets

CONSTANTS
    Records,     \* assertion records, each named by its content (records.py)
    FactOf,      \* the fact (subject, predicate) a record is about
    Admissible,  \* the records the planner's admission path submits
    Triggers,    \* what re-curation is asked: new evidence `new` about `old`
    Workers,     \* who takes triggers
    Leased,      \* TRUE: workers do not hold the same trigger at once
    DiesIn,      \* the phases in which a worker may die, its trigger unretired
    MaxEpoch,    \* bound: nothing commits at this epoch
    None         \* no record

ASSUME EvolutionConstants ==
    /\ IsFiniteSet(Records)
    /\ DOMAIN FactOf = Records
    /\ Admissible \subseteq Records
    /\ Triggers \subseteq [old : Records, new : Records]
    /\ Leased \in BOOLEAN
    /\ DiesIn \subseteq {"taken", "planned", "executed"}
    /\ MaxEpoch \in Nat
    /\ None \notin Records

VARIABLES
    rows,      \* the store: the row of each record
    epoch,     \* the store's epoch
    applied,   \* the evolution plans that stand committed, with their epochs
    queued,    \* the triggers the queue knows
    handled,   \* the triggers it has retired
    phase,     \* where each worker is
    holds,     \* the trigger each worker works on
    seen,      \* what it read of the graph when it took it
    plan       \* the plan it made

vars == <<rows, epoch, applied, queued, handled, phase, holds, seen, plan>>

-----------------------------------------------------------------------------
(* Records in the graph. *)

\* by is superseded_by; at is superseded_at, the transaction time of a record.
Rows ==
    [status : {"NONE", "ACTIVE", "SUPERSEDED"},
     by : Records \cup {None}, at : Records \cup {None}]

NoRow == [status |-> "NONE", by |-> None, at |-> None]
LiveRow == [status |-> "ACTIVE", by |-> None, at |-> None]

\* mark_superseded: the new instant; the pointer only if one is given.
Retired(row, by, at) ==
    [status |-> "SUPERSEDED", by |-> IF by = None THEN row.by ELSE by, at |-> at]

\* A plan attaches one record or none with the row its payload holds, and
\* retires one record or none; restores is the reversal data of the retirement.
Plans ==
    [attach : Records \cup {None}, payload : Rows,
     retire : Records \cup {None}, by : Records \cup {None}, at : Records \cup {None},
     restores : Rows, snapshot : Nat]

NoPlan ==
    [attach |-> None, payload |-> NoRow, retire |-> None, by |-> None, at |-> None,
     restores |-> NoRow, snapshot |-> 0]

\* One committed batch (no record is both attached and retired by one plan).
RowsAfter(p) ==
    [r \in Records |->
        IF r = p.attach THEN p.payload
        ELSE IF r = p.retire /\ rows[r] # NoRow THEN Retired(rows[r], p.by, p.at)
        ELSE rows[r]]

-----------------------------------------------------------------------------
(* The concept evolution planner. *)

\* _attach: relabel, corroboration and conflict attach the new record and leave
\* every other row alone.
AttachPlan(new, snapshot) ==
    [NoPlan EXCEPT !.attach = new, !.payload = LiveRow, !.snapshot = snapshot]

\* plan_supersession: attach the new record, then mark the old one SUPERSEDED;
\* the reversal data keeps the old record as the caller's copy has it.
SupersessionPlan(old, copy, new, snapshot) ==
    [attach |-> new, payload |-> LiveRow,
     retire |-> old, by |-> new, at |-> new,
     restores |-> copy, snapshot |-> snapshot]

\* Faulty variants: the obligations a caller could miss before ADR-0021.
SupersedesAcrossFacts(old, copy, new) == old # new /\ copy.status = "ACTIVE"
SupersedesRetired(old, copy, new) == old # new /\ FactOf[old] = FactOf[new]

\* _check_supersedes, on the caller's copy of the old record.
CheckSupersedes(old, copy, new) ==
    /\ old # new
    /\ FactOf[old] = FactOf[new]
    /\ copy.status = "ACTIVE"

Recommendations == {"SUPPORTS", "SUPERSEDES", "CONTRADICTS", "INSUFFICIENT"}

\* route_assertion: the plans a recommendation leads to; none if the planner raises.
Routed(recommendation, allowed, old, copy, new, snapshot) ==
    IF recommendation = "SUPERSEDES" /\ allowed
    THEN IF CheckSupersedes(old, copy, new)
         THEN {SupersessionPlan(old, copy, new, snapshot)} ELSE {}
    ELSE {AttachPlan(new, snapshot)}

\* Faulty variants: the rollback forgets the record that was replaced; it puts
\* back the marked copy instead of the record as it stood.
CompensateRetractOnly(p) ==
    [NoPlan EXCEPT !.retire = p.attach, !.at = p.attach]

CompensateWithPointer(p) ==
    [NoPlan EXCEPT !.attach = p.retire,
                   !.payload = [p.restores EXCEPT !.by = p.by],
                   !.retire = p.attach, !.at = p.attach]

\* The compensator's inverse: put back what was retired, retire what was
\* attached with no successor and its own transaction time.
Compensation(p) ==
    [NoPlan EXCEPT !.attach = p.retire, !.payload = p.restores,
                   !.retire = p.attach, !.at = p.attach]

-----------------------------------------------------------------------------
Init ==
    /\ rows = [r \in Records |-> NoRow]
    /\ epoch = 0
    /\ applied = {}
    /\ queued = {}
    /\ handled = {}
    /\ phase = [w \in Workers |-> "idle"]
    /\ holds = [w \in Workers |-> None]
    /\ seen = [w \in Workers |-> [epoch |-> 0, row |-> NoRow]]
    /\ plan = [w \in Workers |-> NoPlan]

Commit(p) ==
    /\ epoch < MaxEpoch
    /\ rows' = RowsAfter(p)
    /\ epoch' = epoch + 1

\* The admission path: assertion_absent counts a superseded record as present.
Admit(r) ==
    /\ rows[r] = NoRow
    /\ Commit(AttachPlan(r, epoch))
    /\ UNCHANGED <<applied, queued, handled, phase, holds, seen, plan>>

\* enqueue is idempotent and never resurrects a retired trigger.
Enqueue(t) ==
    /\ rows[t.old] # NoRow
    /\ queued' = queued \cup {t}
    /\ UNCHANGED <<rows, epoch, applied, handled, phase, holds, seen, plan>>

Release(w) ==
    /\ phase' = [phase EXCEPT ![w] = "idle"]
    /\ holds' = [holds EXCEPT ![w] = None]
    /\ seen' = [seen EXCEPT ![w] = [epoch |-> 0, row |-> NoRow]]
    /\ plan' = [plan EXCEPT ![w] = NoPlan]

\* A worker picks a pending trigger and reads the epoch and the old record.
Take(w, t) ==
    /\ phase[w] = "idle"
    /\ t \in queued \ handled
    /\ Leased => \A v \in Workers : holds[v] # t
    /\ holds' = [holds EXCEPT ![w] = t]
    /\ seen' = [seen EXCEPT ![w] = [epoch |-> epoch, row |-> rows[t.old]]]
    /\ phase' = [phase EXCEPT ![w] = "taken"]
    /\ UNCHANGED <<rows, epoch, applied, queued, handled, plan>>

\* next_record refuses to mint what the old record already says.
Distinguished(t) == t.new # t.old

\* Route a recommendation (an adviser's or a reviewer's: any) to a plan.
Decide(w) ==
    /\ phase[w] = "taken"
    /\ Distinguished(holds[w])
    /\ \E recommendation \in Recommendations, allowed \in BOOLEAN :
       \E p \in Routed(recommendation, allowed, holds[w].old, seen[w].row,
                       holds[w].new, seen[w].epoch) :
          plan' = [plan EXCEPT ![w] = p]
    /\ phase' = [phase EXCEPT ![w] = "planned"]
    /\ UNCHANGED <<rows, epoch, applied, queued, handled, holds, seen>>

\* next_record or plan_supersession raises ValueError: nothing was planned.
Refuse(w) ==
    /\ phase[w] = "taken"
    /\ \/ ~Distinguished(holds[w])
       \/ Routed("SUPERSEDES", TRUE, holds[w].old, seen[w].row, holds[w].new, seen[w].epoch) = {}
    /\ Release(w)
    /\ UNCHANGED <<rows, epoch, applied, queued, handled>>

\* The plan commits while the graph is still at its snapshot.
Execute(w) ==
    /\ phase[w] = "planned"
    /\ plan[w].snapshot = epoch
    /\ Commit(plan[w])
    /\ applied' = applied \cup {[plan |-> plan[w], epoch |-> epoch']}
    /\ phase' = [phase EXCEPT ![w] = "executed"]
    /\ UNCHANGED <<queued, handled, holds, seen, plan>>

\* STALE: the trigger stays pending and is taken afresh.
Stale(w) ==
    /\ phase[w] = "planned"
    /\ plan[w].snapshot # epoch
    /\ Release(w)
    /\ UNCHANGED <<rows, epoch, applied, queued, handled>>

MarkHandled(w) ==
    /\ phase[w] = "executed"
    /\ handled' = handled \cup {holds[w]}
    /\ Release(w)
    /\ UNCHANGED <<rows, epoch, applied, queued>>

\* The worker dies: whatever it had executed stays, its trigger stays pending.
Die(w) ==
    /\ phase[w] \in DiesIn
    /\ Release(w)
    /\ UNCHANGED <<rows, epoch, applied, queued, handled>>

\* Roll back an evolution commit, guarded against the epoch it committed at.
Rollback(c) ==
    /\ c.epoch = epoch
    /\ Commit(Compensation(c.plan))
    /\ applied' = applied \ {c}
    /\ UNCHANGED <<queued, handled, phase, holds, seen, plan>>

Next ==
    \/ \E r \in Admissible : Admit(r)
    \/ \E t \in Triggers : Enqueue(t)
    \/ \E w \in Workers :
        \/ \E t \in Triggers : Take(w, t)
        \/ Decide(w) \/ Refuse(w) \/ Execute(w) \/ Stale(w)
        \/ MarkHandled(w) \/ Die(w)
    \/ \E c \in applied : Rollback(c)

Spec == Init /\ [][Next]_vars

-----------------------------------------------------------------------------
(* Properties. *)

\* Every variable stays within its type; only a SUPERSEDED record names a
\* successor ("superseded_by requires status is SUPERSEDED", next_record).
TypeOK ==
    /\ rows \in [Records -> Rows]
    /\ \A r \in Records : rows[r].by # None => rows[r].status = "SUPERSEDED"
    /\ epoch \in 0..MaxEpoch
    /\ applied \subseteq [plan : Plans, epoch : 1..MaxEpoch]
    /\ handled \subseteq queued
    /\ queued \subseteq Triggers
    /\ phase \in [Workers -> {"idle", "taken", "planned", "executed"}]
    /\ holds \in [Workers -> Triggers \cup {None}]
    /\ seen \in [Workers -> [epoch : Nat, row : Rows]]
    /\ plan \in [Workers -> Plans]

\* "Supersession never rewrites history" (plan_supersession): what a retired
\* record says of its retirement changes only when that retirement is rolled back.
HistoryNeverRewritten ==
    [][\A r \in Records :
        rows[r].status = "SUPERSEDED" /\ rows'[r] # rows[r] =>
            \E c \in applied \ applied' : c.plan.retire = r]_rows

Live(fact) == {r \in Records : FactOf[r] = fact /\ rows[r].status = "ACTIVE"}

\* No silent data loss (ADR-0021): once the admission path has put a fact into
\* the graph it keeps a live record, through concurrent supersessions, stale
\* plans, callers that confuse facts, and rollbacks.
FactNeverVanishes ==
    \A r \in Admissible : rows[r] # NoRow => Live(FactOf[r]) # {}

\* What replaced r, or r itself where nothing did.
Successor(r) == IF rows[r].by = None THEN r ELSE rows[r].by

\* The records that following the pointers of r, again and again, leads through.
Lineage(r) ==
    LET after[n \in Nat] == IF n = 0 THEN r ELSE Successor(after[n - 1])
    IN  after

\* "What replaced this record?" (ADR-0028) has an answer: the pointers of a
\* superseded record lead, without a cycle, to a live record of the same fact.
LineageEndsLive ==
    \A r \in Records :
        rows[r].by # None =>
            LET last == Lineage(r)[Cardinality(Records)]
            IN  rows[last].status = "ACTIVE" /\ FactOf[last] = FactOf[r]

=============================================================================
