# A TLA+ model of agentic-kgcs

`kgcs` decides what enters a canonical knowledge graph. Producers submit
candidates; a deterministic core validates them, decides which identity they are
about, and writes the survivors into an immutable `CurationPlan`; an executor
applies plans to a graph store that belongs to another repository
(`kg_contracts`); reviewers decide what the machine may not; re-curation revises
what the graph already says. Nothing in the repository holds a lock and every
part may be used by several threads or processes, so most of what can go wrong
is an order of steps. These modules say what those orders can and cannot do.

Paths below are relative to `src/src/kgcs/`.

## The system

| component (source) | state it keeps | operations | what makes it correct |
|---|---|---|---|
| engine (`engine.py`), policy (`policy.py`), validation (`validation.py`) | none; appends to an audit sink | `curate`: validate, resolve, plan, audit | only validated candidates reach policy; only AUTO mints an identity; escalation never lowers a route; an audit record per planned operation |
| planner (`planner.py`) | none | `plan` | every operation carries a guard for the record it would mint; equal content mints equal ids |
| plan executor (`executor/executor.py`), epoch publisher and sink (`memory/execution.py`) | none of its own: the store, the watermark, the execution records | `execute` | a plan commits only on its own snapshot; no duplicate rows; watermark and records tell the truth |
| compensator (`executor/compensate.py`) | none | `compensate` | undoes exactly one commit, also a compensation |
| review queue (`review/queue.py`) with its CLI (`review/cli.py`) | a JSON file and its temp file | `enqueue`, `pending`, `resolve`, `history` | no acknowledged decision or item is lost; the file is never half written |
| re-curation triggers (`recuration/triggers.py`) | known and retired triggers | `enqueue`, `pending`, `mark_handled` | a trigger is not lost and not resurrected |
| concept evolution (`recuration/evolution.py`, `router.py`, `targeting.py`) | none | `next_record`, `plan_*`, `route_assertion` | supersession rewrites no history and loses no fact |
| ontology lifecycle (`recuration/ontology.py`) | none: frozen terms are held by callers, who store them | `propose`, `transition`, `plan_promotion` | approval is never skipped |
| review routing (`review/operations.py`, `model.py`) | none | `route` | a decision leads to the plan it says, computed on the present snapshot |
| backlog (`review/backlog.py`) | none | `metrics`, `backpressure`, clusters | signals at the budget boundaries |
| ER gate (`er/resolution.py`), clusters (`er/cluster.py`), adviser orchestrator and identity adviser (`advisers/`) | none: the caller keeps cluster and evidence | `decide`, `validate`, `select_survivor`, `resolve`, `assess` | no gate is bypassed; advice cannot pass the authority gate; a failing adviser changes nothing; a link is never raced onto a changed cluster |
| semantic audit and replay (`observability/semantic_audit.py`, `replay.py`) | none | `build`, `replay` | a record replays to its decision, whatever became of the evidence |
| audit recorder and sinks (`audit.py`, `memory/audit.py`, `persistence/sqlite.py`) | append-only tables, on a connection shared with the caller | open, `record`, reads | nothing is replaced; a record is whole or absent; opening disturbs nobody; a batch may be cut short |
| ER scoring, prompts, metrics, records and ids | none | pure functions | data, mostly outside the reach of a model checker |

**How they interact.** The planner, the compensator and concept evolution only
build plans; the executor is the one writer. One `execute` call makes separate
calls to the `GraphReader` (guards), the store (`apply`, atomic), the epoch
publisher and the execution sink: other callers may run between any two of them,
and each of them may raise. A plan carries the epoch it was computed on as a
guard. The queue file is shared by the service and by every CLI command, each of
which loads the file, changes its copy and renames a temp file over it.
Re-curation reads the graph, waits for a recommendation, and executes against
what it read. `curate` writes an audit record per planned operation before it
returns the plan, each in a transaction of its own, on a connection the caller
may have a transaction open on. A resolver pins the cluster, validates the
membership it would make, may wait for a language model, and hands its decision
to a caller who commits it to a cluster others are changing too.

**What is hard.** Interleaved executors (check, then act); a port that raises
after the commit; publishing out of order; executing, retrying and re-planning
the same content; compensations of compensations; several processes on one file
with one temp name, and a crash between any two of its steps; supersession over a
stale copy; a worker that dies before it retires its trigger; content-derived ids
that return; a batch cut short between two audit records, and submitted again;
a sink at work inside somebody else's transaction, or beside somebody else's
writes; a cluster that moves, evidence that changes and a port that raises while
an adviser is asked. `PROJECT.json` lists each hazard at its line, also those no
property covers, with the reason.

## The modules

```
CurationGraph        the store: identities, assertion rows, atomic batches   (external, with the e2e adapter)
CurationPlans        plans: planner, compensator, guards                     extends CurationGraph
  GuardedCommit      abstract: check the guards and commit, one step         extends CurationPlans
  PlanExecutor       several callers of execute                              implements GuardedCommit
ReviewLedger         abstract: an atomic queue with append-only history
  ReviewQueue        processes on one JSON file                              implements ReviewLedger
ConceptEvolution     triggers, router, evolution planner, over commits
CurationPipeline     validation, policy, the planner's choice                pure
AuditStore           the SQLite sinks on one connection, other writers
  CurationAudit      curate: pipeline and sink, interrupted, repeated        composes both
IdentityGate         profiles, the gate, the fold of advice                  pure
IdentityClusters     identifier rule, exclusion, constraints, survivor       pure
  LinkedCluster      abstract: a cluster that grows coherently
  Adjudication       resolvers, adviser, audit record and replay             implements LinkedCluster
OntologyLifecycle    frozen terms, storage, promotion plans
ReviewBacklog        the backlog analyzer over a queue in time
MC<module>           instances for TLC
<module>Proofs       theorems about a module and those it extends
GovernanceProofs     theorems about ReviewBacklog and MCGovernance
NaturalRecursion     least elements, induction and iteration over Nat, as facts about sets
```

**CurationGraph, CurationPlans.** An operation is a type and the candidate it came
from; `Mints` gives the content-derived id, so two candidates with the same
content name the same record. A batch is a set: no producer in the repository
emits two operations on one record whose order would matter. `rows[a]` is the
sequence of rows stored under assertion id `a`, because the two adapters differ
there: the reference store appends, the end-to-end adapter replaces by id
(`AttachMode`). `touched` is the set of subjects whose `entity_version` is not 0.
Of the plan only guards and operations are kept; texts, evidence, timestamps and
reversal payloads are abstracted to the record they are about. The identity and
assertion operations are modelled; merge, split, alias and ontology operations
are not.

**PlanExecutor.** Per caller, a call is `Check` (everything up to and including
the reader's guards), `Apply` or `ApplyRefused` (the store), `Publish`, `Finish`
(the sink), with `Raise` anywhere in between; between calls the caller plans,
compensates a recorded commit or retries. `Publish` is two steps, `CompareEpoch`
and `StoreEpoch`, because `InMemoryEpochPublisher` compares and assigns without a
lock (`memory/execution.py:37-39`) and other callers may run in between. `commits` is a history variable: the
plans the store committed and what a default read showed after each.
`SingleThreaded` makes calls run to their end, `HasReader` says whether the
executor has a `GraphReader`, `PublishAlone` whether the injected publisher lets
one `publish` in at a time, `Supported` and `Implemented` are the declared and
the true operation types.

**ReviewQueue.** An operation is `Load` (read the file, change the copy), `Open`
(create or truncate `<path>.tmp`), `Write`, `Replace` (rename), with `Fail` and
`Crash`. `handle` follows an open file through renames made by other processes; a
file written by two of them may be left `Torn`. `acked` and `doubtful` are
history: the operations that returned, and those a crash left unanswered.

**ConceptEvolution.** A record's row has its status, `superseded_by` and
`superseded_at` (named by the record whose transaction time it is). A worker
takes a pending trigger, reads the epoch and the old record (`Take`), has any
recommendation routed to a plan over that copy (`Decide`) or refused (`Refuse`),
executes it (`Execute`, `Stale`), and retires the trigger (`MarkHandled`); it may
die in the phases `DiesIn`. `Rollback` executes the compensation of the last
commit. Execution is one atomic guarded step: that is what
`ExecutorRefinesGuardedCommit` proves for calls that do not overlap. The store
replaces rows by id.

**CurationPipeline, AuditStore, CurationAudit.** The pipeline is a function of a
batch and the installed contract version: the rules, the failure that is
reported, the disposition, the route, escalation, and which candidates get an
operation. A candidate is the part of it these stages look at; its numeric
scores are the route they allow, because the thresholds belong to `kg_contracts`.
`AuditStore` is a database as committed (`disk`) and as the connection sees it
(`work`): per table the triggers and the rows, and the rows of the caller's own.
`Open`, `RefuseVersion`, the three `Record...`, the caller's writes, another
writer of the file (`OtherWriter`, where no trigger stops it) and `Crash` are its
actions; it starts empty, from before #55, or from a later schema version.
`CurationAudit` runs `curate` over it: `Curate` decides a batch, `AppendInMemory`
or `AppendDurably` writes one record, `Return` hands the plan out, `Restart` ends
the process anywhere. Two consequences of the code, visible there: when a
sink refuses a record, the `with conn:` rolls back what the caller had pending on
the connection too, a schema created inside that transaction included; and a batch that was
interrupted after its first record can never be returned again by an engine with
the durable sink, because its audit ids are derived from its content and unique.

**IdentityGate, IdentityClusters, Adjudication.** A resolver pins the cluster and
validates the membership with the new entity (`Pin`), asks the gate (`Resolve`), is
answered by the port (`Answer`: anything, or an error) and commits the link or,
if the cluster moved, decides again (`Commit`, `Recompute`): the caller's
part of the protocol, as `er/cluster.py` prescribes it. The code itself re-checks
staleness only before the adviser is asked: without the caller's check a link
decided during a slow call would be raced onto the changed cluster. The gate reads
`valid` and not `pairwise_complete`, so the match results a caller supplies bound
what `PairwiseMutualExclusion` can see; the other constraints look at every pair. The evidence
registry changes at any time. `Record` and `Replay` are functions of a finished
decision, evaluated in every state. A decision whose adviser failed leaves no
fixture and replays without the adviser.

**OntologyLifecycle.** `holding` are the frozen copies, `stored` the caller's
storage, which is blind: the last to store wins. A transition is a `model_copy`,
which runs no validator; only `Construct` validates. A promotion plan is kept as
the copy it was made from. The versions a service is built with and stamps on its
plans are left out: the constructor takes any strings, and no code relates them to
a term. Nor is a promotion executed: the default executor refuses
`PROMOTE_ONTOLOGY_TERM` (`executor/executor.py:114-121`). So a promotion planned
from a copy of a term that somebody has deprecated since is a behaviour of this
model as it is of the code; nothing prevents it, and no property says otherwise.

**ReviewBacklog.** The analyzer is a function of the waiting items and the clock;
items arrive, wait and are resolved.

Faulty variants (the operators commented as such) are the plausible bugs every
checked property is tried against; no specification uses them.

## Properties and runs

| run | instance | states | shows |
|---|---|---|---|
| `executor_serial` | 2 callers, calls do not overlap, ports fail, adapter supports less than declared, appending store, 3 epochs | 109,493 | `TypeOK`, `OneRowPerAssertion`, `CommittedAgainstItsSnapshot`, `ImplementsGuardedCommit` |
| `executor_rollback` | 2 callers, all operation types, upserting adapter, 4 epochs | 64,231 | `RollbackRestores` |
| `executor_concurrent` | 2 interleaved callers, no faults, a publisher that lets one call in at a time, 2 epochs, fairness | 59,340 | `RecordsAreTrue`, `PublishedIsCommitted`, `IdentityCreatedOnce`, `CommitsRecorded`, `WatermarkNeverRegresses`, `CommitIsPublishedAndRecorded` |
| `executor_race` | 2 interleaved callers, no faults, the repository's publisher | violation | `CommittedAgainstItsSnapshot` fails |
| `executor_unrecorded` | calls do not overlap, ports fail | violation | `CommitsRecorded` fails |
| `queue_turns` | 2 processes in turns, I/O errors and crashes | 1,049,332 | `TypeOK`, `DecisionNeverLost`, `ItemNeverDropped`, `NeverHalfWritten`, `RecordedOnce`, `ImplementsLedger` |
| `queue_race` | 2 processes at once | violation | `DecisionNeverLost` fails |
| `queue_torn` | 2 processes at once, one dies | violation | `NeverHalfWritten` fails |
| `evolution_fresh` | 2 workers, 5 triggers, 5 epochs, new evidence each time | 41,419 | `TypeOK`, `LineageEndsLive`, `FactNeverVanishes`, `HistoryNeverRewritten` |
| `evolution_return` | 1 worker, a fact that returns to its first record | violation | `HistoryNeverRewritten` fails |
| `curation_audit` | every shape of candidate by itself with no sink and the in-memory one, under two releases; batches of two, one repeating its candidate, over the SQLite store with its caller, another writer and crashes | 343,654 | `TypeOK`, `RefsWhole`, `RefusedOnlyDuplicates`, `PlannedIsDeserving`, `RouteNeverLowered`, `HandedOutOnce`, `GuardedRowsStand`, `OpeningKeepsTheCaller`, `ReturnedIsAudited`, `UpgradeKeepsCandidates` |
| `governance` | identity: 9 entities, one resolver over every case or two that race, an adviser, evidence that changes; ontology: 2 curators, 1 term; backlog: 4 items, 3 sources | 32,214 | `TypeOK`, `AuthorityNeverCrossed`, `BaselineStands`, `ReplayReproduces`, `ImplementsLinkedCluster`, `EveryPairDecided`, `ApprovalNeverSkipped`, `PressureIsHeard` |

`MCGovernance` holds three models that share no state. A behaviour picks one at
its start (`part`) and lets the other two stand still: since their steps are
independent, interleaving them would only multiply states.

**Bounds.** Epochs: `MaxEpoch` is the epoch at which no further commit starts. Two
concurrent commits need 2; a replay of a committed plan, a re-plan of equal
content and a compensation need 3; a compensation of a compensation of a mixed
plan needs 4; two supersessions, their rollback and one more need 5. Data: one
identity, one assertion on it and two candidates of the same content are what
duplicate rows, self-conflicting plans and mixed rollbacks need; two callers are
what every race here needs. Queue: two items and three decisions, two of them on
one item, so that order, replacement and re-enqueueing can be told apart;
`MaxHistory` bounds the decisions of an item. Evolution: four records of one fact
(two rivals and a successor of one of them) and one of another fact; five
triggers, among them evidence already cited and a caller that confuses two facts.
Audit: two rows per table, two ids and two calls let a batch be cut after its
first record and be submitted again, and a candidate repeat inside a batch; one
row of the caller's own tells a kept transaction from a lost one; nothing about
the SQLite sink depends on the release, so it runs with one. Identity: the nine
entities differ from the seed in one way each that a constraint or a profile
looks at, and two of them exclude each other, which is what makes a race matter;
risks lie on both sides of every budget and on it, per mille, except where
floating point decides (1.0 - 0.98 > 0.02). Ontology: a history of four states is
the longest legal one, and two curators pass copies of one term to each other through
storage, old ones included. Backlog: depths and breaches reach every budget and pass it, the clock
stands at each SLA and an hour past it.
Callers, processes and workers are symmetric; symmetry is left out of the runs
with a liveness property. Deadlock is checked in
`queue_turns`, where items may always be enqueued again; elsewhere the bounds stop
the callers in the end, and a state without a successor is no error.

**Fairness.** Two runs assume any. `executor_concurrent`: once a call has passed its
checks, its next step (`Apply`, `ApplyRefused`, `CompareEpoch`, `StoreEpoch`,
`Finish`) is weakly fair, because `execute` is synchronous code that waits for
nothing but, with `PublishAlone`, the publisher: a caller waits there for another's
assignment, and there are no more of these than commits, whose number is bounded.
Nothing makes a caller start a call, so `Check`, planning and retries have no
fairness; with faults there is none at all. `governance`: a resolver that began
goes on (`AdjudicationFairness`), for the same reason, and because every
completion port answers or raises: `EveryPairDecided` says that then no error,
odd answer or moving cluster leaves a pair undecided. Another resolver can move
the cluster only once per entity, so deciding again ends.

## What the code does not do

Five runs end in a counterexample to a sentence of the repository
(`PROJECT.json`, findings, with the lines):

* `executor_race`: "Stale plans fail preconditions, they do not race"
  (`executor.py:15`). Two callers pass the reader's guards, then both commit:
  the second plan was computed on a snapshot the graph has left. The guard is
  checked through the reader and not inside the store's transaction. ADR-0019
  names this window for `assertion_absent`.
* `executor_unrecorded`: "Every attempt ... is recorded" (`executor.py:68`). A
  publisher or sink that raises after the commit leaves no record of it.
* `queue_race`: a decision is "never lost once recorded" (`queue.py`). Two
  processes load, both save: the second overwrites what the first acknowledged.
* `queue_torn`: "a crash mid-write cannot leave a half-written queue"
  (`queue.py:126`). The temp file has one name for everybody.
* `evolution_return`: "Supersession never rewrites history" (`evolution.py:498`).
  A record's id is its content, and an evolution plan has no `assertion_absent`
  guard: when a fact returns to the content of a retired record, attaching it
  overwrites that record's `superseded_at` and `superseded_by`. One worker
  suffices.

So the positive results hold under the discipline each run and theorem names:
calls of `execute` that do not overlap and an executor with a reader
(`SingleThreaded`, `HasReader`), a queue used in turns (`Exclusive`), fresh
evidence that is executed once (`FreshEvidence`), a publisher that serialises its
calls (`PublishAlone`). What needs no discipline, and holds for freely interleaved
callers and the repository's publisher: true records, a watermark that only names
commits, identities created once and, without faults, every commit recorded.

Some behaviours are not forbidden by any sentence of the repository, or only by
one about a double, and are no findings; a deployment should know of them:

* **The watermark.** "A stale (lower) epoch never regresses the watermark"
  (`memory/execution.py:29-31`) is true of `InMemoryEpochPublisher` for one thread,
  and the repository calls it a double for tests and local runs. Between threads it
  is not: two callers at epochs 1 and 2 both compare while the watermark is 0, the
  second stores 2 and then the first stores 1. With `PublishAlone = FALSE` TLC
  finds this in 11 states, and `CommitIsPublishedAndRecorded` fails with it: the
  watermark stays below the second commit for good. The operator `CompareUnlocked` is that double,
  and it is the mutant `WatermarkNeverRegresses` is tried against. A shared
  publisher has to compare and assign in one step.
* **A worker that dies between executing and retiring its trigger.** The trigger
  is pending again and handled a second time; its record is attached again under
  the same id and guarded by nothing but the new snapshot. With `"executed"` in `DiesIn`,
  `HistoryNeverRewritten`, `FactNeverVanishes` and `LineageEndsLive` all fail
  (the first when the first attachment was rolled back in between, the other two
  when the second one is rolled back). It is the
  overwrite of `evolution_return` by another way, so `evolution_fresh` and the
  theorems about `FreshEvidence` leave this death out.
* **A sink that writes inside the caller's transaction.** Opening one leaves the
  transaction alone (`OpeningKeepsTheCaller`); `record` does not. `with conn:`
  commits what the caller has pending, or rolls it back when the record is refused
  (`persistence/sqlite.py:205`). `AuditStore` models both, and nothing is promised.

## What is proved

For every value of the constants allowed by the modules' `ASSUME`s:

* **PlanExecutorProofs.** `TypeCorrect`. `AuditStreamIsTrue` and
  `WatermarkIsCommitted` from the invariant `Bookkeeping`: the epoch is the
  length of the commit history, and every COMMITTED record, also one still being
  built, names its own entry; without the records in flight the invariant is not
  inductive. `IdentitiesCreatedOnce` from
  `IdentitiesGuarded`: whatever a held plan creates it guards, and whatever was
  created is touched. These hold for any interleaving and any faults. Without
  faults, for any interleaving, `EveryCommitRecorded` from `CommitsAccountedFor`:
  the record of a commit is in the sink, or a call that has not returned still
  holds it.
* With `PublishAlone` or `SingleThreaded`, and any faults: `WatermarkAdvances` from
  `PublishedInOrder`: at most one caller is past the comparison, and what it is
  about to store is above the watermark.
* With `SingleThreaded` and `HasReader`: `SnapshotIsolation` and
  `ExecutorRefinesGuardedCommit` from `Serialised` (one call at a time; what a
  caller in phase "checked" saw still holds; every held plan is the planner's or a
  compensation of a recorded commit). `NoDuplicateRows` from `OneRowEach`, and
  with either an upserting adapter or one that cannot retract: an appending
  adapter that retracts may duplicate a row when a retraction is compensated,
  which is what ADR-0018 asks of adapters. Its step is `GuardedBatchKeepsOneRow`.
  `CommittedRollbackRestores`, under the same hypotheses, from
  `RollbackInvariant`: what a default read shows now is what the last commit left,
  and every commit in the history added only what was not shown and removed only
  what was, so that `CompensationRestores` applies to whichever of them, a
  compensation included, is compensated next.
* **ReviewQueueProofs.** `QueueTypeCorrect` for any interleaving. With `Exclusive`:
  `QueueImplementsLedger` from `InTurns` (at most one process inside an operation,
  its copy is the file with its call applied); `DecisionsAreKept`, `ItemsAreKept`,
  `QueueIsReadable` and `DecisionsRecordedOnce` from `Kept`, which adds the converse
  of what they say: what the file holds was acknowledged or is in doubt, and no
  operation under way repeats an acknowledged decision.
* **ConceptEvolutionProofs.** `TypeCorrect` from `Typed` (every copy of a row a
  plan may put back is itself well formed). With `FreshEvidence` (each trigger
  brings content no other trigger and no admitted record has, has one worker at a
  time, and that worker does not die between executing and retiring it):
  `HistoryStands` from `Fresh`, whose heart is that the new record of a trigger
  not yet executed is absent, and that a read made at the present epoch is the
  graph's; `FactsStand` from `Standing`, which adds that undoing a commit that
  only attached leaves another live record; `LineagesStand` from `Linked`: all
  pointers go one way (some ranking of the records climbs along each of them),
  each leads to a live or itself replaced record of the same fact, and only the
  record the last commit retired points to the record it attached, so that its
  rollback breaks no chain. `evolution_return` shows the assumption cannot be
  dropped.
* **CurationAuditProofs** proves every property of the run `curation_audit`.
  From `DecidedHere` (a call holds a batch that was given, decided under the
  release that runs): `OversightOnlyGrows`, and, where versions are not compared
  literally, `UpgradesKeepCandidates` and `PlansAreDeserved`, for which the
  planner's loop is a recursive function over the places of the batch. From
  `Store` (both views of the database are well formed and have the same rows:
  what is pending in a transaction is the caller's own rows and the schema):
  `AuditTypeCorrect`, `TransactionsAreTheCallers`, `GuardsKeepRows`,
  `RefusalsAreDuplicates`. `SemanticRecordsAreWhole` from `Whole`: there is a set of
  decisions, none of one id twice, whose ids and references are exactly the rows
  of the three tables, a forged row of somebody else's aside. `HandedOutAtMostOnce`
  and `PlansAreAudited` from `Audited`: of the records due for the call under way
  the first k are in the sink and the rest is what is left to write, and with the
  durable sink none of those k was handed out before; since a durable record is
  refused a second time, whatever was handed out once blocks its own return.
* **AdjudicationProofs.** `SpecAuthorityNeverCrossed`, `SpecBaselineStands` and
  `SpecReplayReproduces` from `SoundAdjudication`: a pin is
  an older version or the cluster itself, what was validated is coherent, a
  decision is the baseline or the baseline with the advice folded in, and the
  block a question was asked with is never rendered again. `ValidIsCoherent` shows
  that the five constraints, each looking at a pair in one order, leave no pair of
  a valid membership that is known apart. `ResolversImplementLinkedCluster` is the
  refinement: every commit adds one entity to a coherent membership under the
  survivor the abstract specification names, every other step stutters. That
  the loop of `select_survivor` finds this member is `SurvivorIsBest`, by induction
  over the entities in their order, for which `RanksAreOrdered` shows that the
  comparison of reliability and identifier count is a strict weak order.
* **OntologyLifecycleProofs.** `SpecApprovalNeverSkipped` from `LawfulCopies`
  (every history is a walk along legal transitions, though only construction
  checks one).
* **GovernanceProofs.** `PressureIsAlwaysHeard`: inverted items are exactly the
  starved ones, whoever reaches a budget has a signal, beyond the global budget a
  deepest source has one, and a quarantine outlasts everything but work on its
  source. A deepest source exists because the depths of finitely many sources have
  a greatest element. `GovernanceTypeCorrect`: every action of the gate and the fold
  is one of the eight, a walk along the ladder has at most four states, and a
  cluster has no more versions than resolvers are done. Not than there are
  entities: two resolvers may bring the same one, `with_member` is idempotent, and
  the caller who commits moves the version each time.

The assumptions are the named `ASSUME`s of the modules, which say what the types
of the code say: ids are naturals in their order, reliabilities are integers and
identifier sets finite (`ViewsAreRanked`), a candidate has the fields the stages
read (`CurationConstants`), a record's references are a finite list of ids that
are nobody else's forgery (`StoreConstants`), a lookup finds one of the states of
`EvidenceAvailability`, nothing, or raises (`AdjudicationConstants`), budgets are
naturals and the clock starts at 0 (`BacklogConstants`). TLC evaluates each of
them in a run.

**Induction.** The provers cannot instantiate an induction rule over a predicate.
`NaturalRecursion` states what is needed of it about sets and functions: a set of
naturals that is not empty has a least element, a set that holds 0 and each
successor is `Nat`, a finite one has a greatest, and an iterated function exists
and is its own unfolding. The loops that theorems speak about (the survivor, the
planner's selection, the filters of a sink, the chain of successors) are therefore
recursive functions over naturals and not folds or `SelectSeq`.

**Only model-checked.** The two liveness properties, `CommitIsPublishedAndRecorded`
and `EveryPairDecided`: fairness and `ENABLED` are outside the prover. Every
invariant and action property of the passing runs is proved.

## What is not modelled, and the plan

Not modelled, with the reason:

* Numeric matching, blocking keys and text normalisation (`er/matcher.py`,
  `blocking.py`, most of `normalize.py`): floating point and strings. A match is
  its risk and whether it excludes the pair.
* Prompts, the parsing of answers and the specialists other than the identity
  adviser: the answer is a nondeterministic recommendation where it enters, and
  nothing in the repository folds the others' into a decision.
* Records and replay of evolution decisions, metrics and evaluation arms
  (`observability/`): reports over recorded data that change nothing. The ids the
  semantic audit builder derives: a pair decided again in one trace with the same
  action gets the same id, which the durable sink refuses.
* The report of the backlog analyzer (ages, counts by type, cluster summaries), on
  which no signal depends.
* The table from a review decision to a planner call (`review/operations.py`):
  pure, and its merge and split plans are refused by the executor as unsupported.
* Promotion, merge, split and the choice of targets in `recuration/`; test doubles
  (`testing/`).

Left: ConceptEvolution as a refinement of the guarded commit, whose atomic
execution `ExecutorRefinesGuardedCommit` justifies in prose only; the ids the
semantic audit builder derives.
