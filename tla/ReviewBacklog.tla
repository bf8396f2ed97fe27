---------------------------- MODULE ReviewBacklog ----------------------------
(***************************************************************************)
(* BacklogAnalyzer (review/backlog.py) watching the review queue while     *)
(* items arrive, wait and are resolved.  The analyzer is a function of the *)
(* waiting items and one reading of the clock, in hours.                   *)
(***************************************************************************)
EXTENDS Integers, FiniteSets, FiniteSetsExt

CONSTANTS
    ReviewItems,  \* the items
    CaseOf,       \* priority and source of each; sources in string order, as numbers
    Budgets,      \* BacklogConfig
    Hours         \* bound: the readings of the clock

ASSUME BacklogConstants ==
    /\ Hours \subseteq Nat /\ 0 \in Hours
    /\ CaseOf \in [ReviewItems -> [priority : {"P1", "P2", "P3"}, source : Nat]]
    /\ Budgets \in [maxExposure : Nat, throttleDepth : Nat, quarantineDepth : Nat,
                    breachQuarantine : Nat]

VARIABLES
    waiting,  \* the items in the queue
    since,    \* when each was enqueued
    now       \* the clock

backlogVars == <<waiting, since, now>>

SlaHours == [P1 |-> 24, P2 |-> 168, P3 |-> 720]

PriorityRank == [P1 |-> 3, P2 |-> 2, P3 |-> 1]

Rank(i) == PriorityRank[CaseOf[i].priority]

\* Past sla_deadline, not at it.
Breaching(i) == now > since[i] + SlaHours[CaseOf[i].priority]

From(s) == {i \in waiting : CaseOf[i].source = s}

Depth(s) == Cardinality(From(s))

Breaches(s) == Cardinality({i \in From(s) : Breaching(i)})

DepthBySource == {CaseOf[i].source : i \in waiting}

\* _priority_inversion: the breaching items above the lowest healthy priority.
PriorityInversion ==
    LET healthy == {Rank(i) : i \in {j \in waiting : ~Breaching(j)}}
    IN  IF healthy = {} THEN {}
        ELSE {i \in waiting : Breaching(i) /\ Rank(i) > Min(healthy)}

\* Faulty variant: depth is looked at before breaches.
ThrottledFirst(s) ==
    IF Depth(s) >= Budgets.quarantineDepth THEN "QUARANTINE"
    ELSE IF Depth(s) >= Budgets.throttleDepth THEN "THROTTLE"
    ELSE IF Breaches(s) >= Budgets.breachQuarantine THEN "QUARANTINE" ELSE "none"

\* _signal_for: the action a source's own pressure calls for.
SignalFor(s) ==
    IF Depth(s) >= Budgets.quarantineDepth \/ Breaches(s) >= Budgets.breachQuarantine
    THEN "QUARANTINE"
    ELSE IF Depth(s) >= Budgets.throttleDepth THEN "THROTTLE" ELSE "none"

\* The first, in order, of the deepest sources.
Top ==
    Min({s \in DepthBySource : \A other \in DepthBySource : Depth(s) >= Depth(other)})

OwnSignals ==
    {signal \in [source : DepthBySource, action : {"THROTTLE", "QUARANTINE"}] :
        signal.action = SignalFor(signal.source)}

Signalled(signals) == {signal.source : signal \in signals}

\* Faulty variant: the global budget counts only while no source has a signal.
GlobalIfQuiet ==
    IF Cardinality(waiting) > Budgets.maxExposure /\ OwnSignals = {}
    THEN {[source |-> Top, action |-> "THROTTLE"]}
    ELSE OwnSignals

\* backpressure: every source's own signal, and the deepest throttled when all
\* of them together are too much, if it has none.
Backpressure ==
    IF /\ Cardinality(waiting) > Budgets.maxExposure
       /\ Top \notin Signalled(OwnSignals)
    THEN OwnSignals \cup {[source |-> Top, action |-> "THROTTLE"]}
    ELSE OwnSignals

-----------------------------------------------------------------------------
BacklogInit ==
    /\ waiting = {}
    /\ since = [i \in ReviewItems |-> 0]
    /\ now = 0

Enqueue(i) ==
    /\ i \notin waiting
    /\ waiting' = waiting \cup {i}
    /\ since' = [since EXCEPT ![i] = now]
    /\ UNCHANGED now

\* A resolved item leaves the queue, and may come back another day.
ResolveItem(i) ==
    /\ waiting' = waiting \ {i}
    /\ since' = [since EXCEPT ![i] = 0]
    /\ UNCHANGED now

Wait(hour) ==
    /\ hour > now
    /\ now' = hour
    /\ UNCHANGED <<waiting, since>>

BacklogNext ==
    \/ \E i \in ReviewItems \ waiting : Enqueue(i)
    \/ \E i \in waiting : ResolveItem(i)
    \/ \E hour \in Hours : Wait(hour)

-----------------------------------------------------------------------------
(* Properties. *)

\* The inverted items are the starved ones: past their SLA while something less
\* urgent is within its own.
StarvedAreNamed ==
    PriorityInversion =
        {i \in waiting : Breaching(i) /\
            \E j \in waiting : ~Breaching(j) /\ Rank(j) < Rank(i)}

\* Whoever reaches a budget hears of it, and beyond the global one so does a
\* source that nobody exceeds.
BudgetsAreHeard ==
    /\ \A s \in DepthBySource :
        (Depth(s) >= Budgets.throttleDepth \/ Breaches(s) >= Budgets.breachQuarantine)
            => s \in Signalled(Backpressure)
    /\ Cardinality(waiting) > Budgets.maxExposure =>
        \E s \in Signalled(Backpressure) :
            \A other \in DepthBySource : Depth(other) <= Depth(s)

Quarantined(s) == [source |-> s, action |-> "QUARANTINE"] \in Backpressure

\* Only work on a source's items lifts its quarantine: not the clock, nor what
\* else arrives.
QuarantineNeedsWork ==
    \A s \in DepthBySource :
        Quarantined(s) /\ ~Quarantined(s)' => \E i \in From(s) : i \notin waiting'

\* The pressure of the queue is heard (law 15): budgets, starved items, and
\* quarantines that last as long as their cause.
PressureIsHeard ==
    [](StarvedAreNamed /\ BudgetsAreHeard) /\ [][QuarantineNeedsWork]_backlogVars

=============================================================================
