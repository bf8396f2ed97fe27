--------------------------- MODULE GuardedCommit ---------------------------
(***************************************************************************)
(* What the write path promises (executor.py module docstring): the graph  *)
(* changes only by committing a plan, and a plan commits only against the  *)
(* very snapshot it was computed on, with everything it would mint absent. *)
(* Checking the guards and committing is one atomic step here.             *)
(***************************************************************************)
EXTENDS CurationPlans

VARIABLES
    graph,    \* the canonical graph
    commits   \* the committed plans with what the graph showed after each

vars == <<graph, commits>>

Commits == Seq([plan : Plans, shows : SUBSET (Identities \cup Assertions)])

GuardsHold(p) ==
    /\ ReaderGuardsHold(graph, p)
    /\ StoreGuardsHold(graph, p)
    /\ ~SelfConflicting(p)

\* A plan is the planner's, or undoes the commit it is guarded against.
Producible ==
    PlannerPlans(graph.epoch)
        \cup {Compensate(commits[e].plan, e) : e \in 1..Len(commits)}

Commit(p) ==
    /\ GuardsHold(p)
    /\ graph' = ApplyBatch(graph, p.ops)
    /\ commits' = Append(commits, [plan |-> p, shows |-> Visible(graph')])

Init == graph = EmptyGraph /\ commits = << >>

Next == \E p \in Producible : Commit(p)

Spec == Init /\ [][Next]_vars

=============================================================================
