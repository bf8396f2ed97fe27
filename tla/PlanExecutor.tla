---------------------------- MODULE PlanExecutor ----------------------------
(***************************************************************************)
(* PlanExecutor.execute (executor/executor.py) run by several callers over *)
(* one store, one epoch publisher and one execution audit sink.  Each      *)
(* caller plans (or compensates, or retries), then calls execute.  One     *)
(* call is the sequence Check, Apply, Publish, Finish: the reader checks,  *)
(* store.apply, epochs.publish and sink.record are separate calls, and     *)
(* nothing in the code holds a lock across them.  Publishing is itself two *)
(* steps, a comparison and an assignment (memory/execution.py).            *)
(***************************************************************************)
EXTENDS CurationPlans

CONSTANTS
    Callers,        \* the actors that hold an executor
    Supported,      \* the executor's supported_operations
    Implemented,    \* what the adapter really applies
    HasReader,      \* whether the executor has a GraphReader
    SingleThreaded, \* TRUE: one thread, so a call runs to its end before another
    PublishAlone,   \* TRUE: the injected EpochPublisher lets one publish call in
                    \* at a time; FALSE: InMemoryEpochPublisher, which has no lock
    Faults,         \* TRUE: a port may raise, a caller may die
    MaxEpoch        \* bound: no execute call starts at this epoch

ASSUME ExecutorConstants ==
    /\ Supported \subseteq OperationTypes
    /\ Implemented \subseteq OperationTypes
    /\ HasReader \in BOOLEAN
    /\ SingleThreaded \in BOOLEAN
    /\ PublishAlone \in BOOLEAN
    /\ Faults \in BOOLEAN
    /\ MaxEpoch \in Nat \ {0}

VARIABLES
    graph,      \* the store
    published,  \* the epoch watermark (0: nothing published yet)
    log,        \* the execution audit sink's COMMITTED records (a refusal's
                \* record is only returned to its caller and is not kept apart)
    phase,      \* where each caller is
    plan,       \* the plan each caller holds
    result,     \* the record its current call has built
    commits     \* history: what the store committed, in order

vars == <<graph, published, log, phase, plan, result, commits>>

-----------------------------------------------------------------------------
Resting == {"idle", "returned", "raised"}
Executing == {"checked", "applied", "publishing", "finishing"}
Phases == Resting \cup {"planned"} \cup Executing

Outcomes == {"COMMITTED", "STALE", "UNSUPPORTED_OPERATION", "EMPTY", "ERROR"}

ExecutionRecord == [plan : Plans, outcome : Outcomes, epoch : Nat]

\* new_epoch is None (0 here) unless the plan committed.
Record(p, outcome, epoch) == [plan |-> p, outcome |-> outcome, epoch |-> epoch]

NoPlan == [ops |-> {}, snapshot |-> 0, fresh |-> {}, absent |-> {}, compensation |-> FALSE]
NoResult == Record(NoPlan, "EMPTY", 0)

Init ==
    /\ graph = EmptyGraph
    /\ published = 0
    /\ log = {}
    /\ phase = [x \in Callers |-> "idle"]
    /\ plan = [x \in Callers |-> NoPlan]
    /\ result = [x \in Callers |-> NoResult]
    /\ commits = << >>

-----------------------------------------------------------------------------
(* What a caller does between two calls of execute. *)

Hold(x, p) ==
    /\ phase[x] \in Resting
    /\ phase' = [phase EXCEPT ![x] = "planned"]
    /\ plan' = [plan EXCEPT ![x] = p]
    /\ UNCHANGED <<graph, published, log, result, commits>>

\* Plan a set of candidates against the current epoch (or the default snapshot).
PlanCandidates(x) == \E p \in PlannerPlans(graph.epoch) : Hold(x, p)

\* Undo a recorded commit, against the epoch its record names.
PlanCompensation(x) ==
    \E r \in log : Hold(x, Compensate(r.plan, r.epoch))

\* Execute the plan of the last call once more: a retry or a replay.
Retry(x) == phase[x] # "idle" /\ Hold(x, plan[x])

-----------------------------------------------------------------------------
(* One call of execute. *)

\* Faulty variants: no reader checks; no check of the plan against itself.
RefusalWithoutReader(p) ==
    IF p.ops = {} THEN {"EMPTY"}
    ELSE IF ~(OpTypes(p) \subseteq Supported) THEN {"UNSUPPORTED_OPERATION"}
    ELSE IF SelfConflicting(p) THEN {"ERROR"}
    ELSE {}

RefusalByGraphOnly(p) ==
    IF p.ops = {} THEN {"EMPTY"}
    ELSE IF ~(OpTypes(p) \subseteq Supported) THEN {"UNSUPPORTED_OPERATION"}
    ELSE IF HasReader /\ ~ReaderGuardsHold(graph, p) THEN {"STALE"}
    ELSE {}

\* The refusals that precede store.apply, in the order of the code.
Refusal(p) ==
    IF p.ops = {} THEN {"EMPTY"}
    ELSE IF ~(OpTypes(p) \subseteq Supported) THEN {"UNSUPPORTED_OPERATION"}
    ELSE IF SelfConflicting(p) THEN {"ERROR"}
    ELSE IF HasReader /\ ~ReaderGuardsHold(graph, p) THEN {"STALE"}
    ELSE {}

MayStart(x) ==
    /\ graph.epoch < MaxEpoch
    /\ SingleThreaded => \A y \in Callers : phase[y] \notin Executing

\* Faulty variant: the next epoch is published before the batch is applied.
CheckAndAnnounce(x) ==
    /\ phase[x] = "planned"
    /\ MayStart(x)
    /\ Refusal(plan[x]) = {}
    /\ phase' = [phase EXCEPT ![x] = "checked"]
    /\ published' = graph.epoch + 1
    /\ UNCHANGED <<graph, log, plan, result, commits>>

\* Entry up to _unmet_preconditions.  The row reads follow the epoch read, but
\* a row once stored stays, so a pass of all of them is a pass at the first.
Check(x) ==
    /\ phase[x] = "planned"
    /\ MayStart(x)
    /\ \/ /\ Refusal(plan[x]) = {}
          /\ phase' = [phase EXCEPT ![x] = "checked"]
          /\ UNCHANGED result
       \/ \E outcome \in Refusal(plan[x]) :
          /\ result' = [result EXCEPT ![x] = Record(plan[x], outcome, 0)]
          /\ phase' = [phase EXCEPT ![x] = "finishing"]
    /\ UNCHANGED <<graph, published, log, plan, commits>>

\* store.apply commits: the store's own guards hold and it knows every type.
Apply(x) ==
    /\ phase[x] = "checked"
    /\ StoreGuardsHold(graph, plan[x])
    /\ OpTypes(plan[x]) \subseteq Implemented
    /\ graph' = ApplyBatch(graph, plan[x].ops)
    /\ commits' = Append(commits, [plan |-> plan[x], shows |-> Visible(graph')])
    /\ result' = [result EXCEPT ![x] = Record(plan[x], "COMMITTED", graph'.epoch)]
    /\ phase' = [phase EXCEPT ![x] = "applied"]
    /\ UNCHANGED <<published, log, plan>>

\* store.apply refuses: a guard first, then the NotImplementedError backstop;
\* an adapter that reports a failure without a failed guard is an ERROR.
ApplyRefused(x) ==
    /\ phase[x] = "checked"
    /\ \E outcome \in {"STALE", "UNSUPPORTED_OPERATION", "ERROR"} :
        /\ outcome = "STALE" => ~StoreGuardsHold(graph, plan[x])
        /\ outcome # "STALE" => StoreGuardsHold(graph, plan[x])
        /\ outcome = "UNSUPPORTED_OPERATION" => ~(OpTypes(plan[x]) \subseteq Implemented)
        /\ outcome = "ERROR" => Faults
        /\ result' = [result EXCEPT ![x] = Record(plan[x], outcome, 0)]
    /\ phase' = [phase EXCEPT ![x] = "finishing"]
    /\ UNCHANGED <<graph, published, log, plan, commits>>

\* Nobody else is between the comparison and the assignment of publish.
PublisherFree(x) == \A y \in Callers \ {x} : phase[y] # "publishing"

\* Faulty variants: publish calls overlap; the record takes the epoch the store
\* is at by now.
CompareUnlocked(x) ==
    /\ phase[x] = "applied"
    /\ phase' = [phase EXCEPT ![x] =
                   IF result[x].epoch > published THEN "publishing" ELSE "finishing"]
    /\ UNCHANGED <<graph, published, log, plan, result, commits>>

CompareRereading(x) ==
    /\ phase[x] = "applied"
    /\ PublishAlone => PublisherFree(x)
    /\ result' = [result EXCEPT ![x].epoch = graph.epoch]
    /\ phase' = [phase EXCEPT ![x] =
                   IF graph.epoch > published THEN "publishing" ELSE "finishing"]
    /\ UNCHANGED <<graph, published, log, plan, commits>>

\* InMemoryEpochPublisher.publish compares first: a lower epoch is dropped.
CompareEpoch(x) ==
    /\ phase[x] = "applied"
    /\ PublishAlone => PublisherFree(x)
    /\ phase' = [phase EXCEPT ![x] =
                   IF result[x].epoch > published THEN "publishing" ELSE "finishing"]
    /\ UNCHANGED <<graph, published, log, plan, result, commits>>

\* Faulty variant: a compensation publishes nothing.
StoreForwardOnly(x) ==
    /\ phase[x] = "publishing"
    /\ published' = IF plan[x].compensation THEN published ELSE result[x].epoch
    /\ phase' = [phase EXCEPT ![x] = "finishing"]
    /\ UNCHANGED <<graph, log, plan, result, commits>>

\* ... and then assigns, whatever the watermark has become since.
StoreEpoch(x) ==
    /\ phase[x] = "publishing"
    /\ published' = result[x].epoch
    /\ phase' = [phase EXCEPT ![x] = "finishing"]
    /\ UNCHANGED <<graph, log, plan, result, commits>>

Publish(x) == CompareEpoch(x) \/ StoreEpoch(x)

\* Faulty variant: only forward executions reach the sink.
FinishForwardOnly(x) ==
    /\ phase[x] = "finishing"
    /\ log' = IF result[x].outcome = "COMMITTED" /\ ~plan[x].compensation
              THEN log \cup {result[x]} ELSE log
    /\ phase' = [phase EXCEPT ![x] = "returned"]
    /\ result' = [result EXCEPT ![x] = NoResult]
    /\ UNCHANGED <<graph, published, plan, commits>>

\* _finish: the record is appended to the sink and returned.
Finish(x) ==
    /\ phase[x] = "finishing"
    /\ log' = IF result[x].outcome = "COMMITTED" THEN log \cup {result[x]} ELSE log
    /\ phase' = [phase EXCEPT ![x] = "returned"]
    /\ result' = [result EXCEPT ![x] = NoResult]
    /\ UNCHANGED <<graph, published, plan, commits>>

\* A port raises anything but NotImplementedError, or the caller dies: the call
\* ends where it stands.  store.apply itself rolls back (e2e_harness).
Raise(x) ==
    /\ Faults
    /\ phase[x] \in Executing
    /\ phase' = [phase EXCEPT ![x] = "raised"]
    /\ result' = [result EXCEPT ![x] = NoResult]
    /\ UNCHANGED <<graph, published, log, plan, commits>>

-----------------------------------------------------------------------------
Execute(x) == Check(x) \/ Apply(x) \/ ApplyRefused(x) \/ Publish(x) \/ Finish(x)

Next ==
    \E x \in Callers :
        \/ PlanCandidates(x) \/ PlanCompensation(x) \/ Retry(x)
        \/ Execute(x) \/ Raise(x)

Spec == Init /\ [][Next]_vars

\* A call is synchronous code: once past its checks it runs to its end.
Fairness == \A x \in Callers : WF_vars(Apply(x) \/ ApplyRefused(x) \/ Publish(x) \/ Finish(x))

FairSpec == Spec /\ Fairness

-----------------------------------------------------------------------------
(* Properties. *)

\* Every variable stays within its type (the shapes of executor.py's records).
TypeOK ==
    /\ graph \in Graphs
    /\ published \in Nat
    /\ log \subseteq ExecutionRecord
    /\ phase \in [Callers -> Phases]
    /\ plan \in [Callers -> Plans]
    /\ result \in [Callers -> ExecutionRecord]
    /\ commits \in Seq([plan : Plans, shows : SUBSET (Identities \cup Assertions)])

\* The audit stream never claims a commit the store did not make: a COMMITTED
\* record names the epoch at which exactly its plan was committed.
RecordsAreTrue ==
    \A r \in log :
        /\ r.epoch \in 1..Len(commits)
        /\ commits[r.epoch].plan = r.plan

\* Projections read only published epochs: the watermark never names an epoch
\* the store has not committed.
PublishedIsCommitted == published <= graph.epoch

\* "A stale (lower) epoch never regresses the watermark" (memory/execution.py),
\* although callers publish out of the order of their commits.  The comparison
\* alone does not give this: it takes PublishAlone, or a single thread.
WatermarkNeverRegresses == [][published' >= published]_published

\* entity_version = 0 is enforced inside the store's transaction: whatever the
\* callers interleave, two committed plans never create the same identity.
IdentityCreatedOnce ==
    \A e1, e2 \in 1..Len(commits) :
        e1 # e2 => Created(commits[e1].plan) \cap Created(commits[e2].plan) = {}

\* ADR-0019's corruption is absent: an assertion id never has two rows, through
\* replays, retries, re-planning and self-conflicting plans.
OneRowPerAssertion == \A a \in Assertions : Len(graph.rows[a]) <= 1

\* A plan computed against epoch N commits only while the graph is still at N
\* (executor.py, "Idempotent replay").
CommittedAgainstItsSnapshot ==
    \A e \in 1..Len(commits) : commits[e].plan.snapshot = e - 1

\* What the graph showed just before epoch e was committed.
ShownBefore(e) == IF e = 1 THEN {} ELSE commits[e - 1].shows

\* A committed compensation undoes the commit it follows, no more and no less,
\* including a compensation of a compensation.
RollbackRestores ==
    \A e \in 2..Len(commits) :
        commits[e].plan.compensation => commits[e].shows = ShownBefore(e - 1)

\* "Every attempt ... is recorded" (executor.py module docstring): between
\* calls, no commit of the store is without its ExecutionRecord.
CommitsRecorded ==
    (\A x \in Callers : phase[x] \notin Executing) =>
        \A e \in 1..Len(commits) : \E r \in log : r.epoch = e

\* With no faults, every commit ends up published and recorded.  Published needs
\* PublishAlone too: the lower of two overlapping stores could be the last.
CommitIsPublishedAndRecorded ==
    \A e \in 1..MaxEpoch :
        graph.epoch >= e ~> /\ published >= e
                            /\ \E r \in log : r.epoch = e

\* The write path implements the guarded atomic commit.
Abstract == INSTANCE GuardedCommit
ImplementsGuardedCommit == Abstract!Spec

=============================================================================
