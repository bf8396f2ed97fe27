---------------------------- MODULE ReviewLedger ----------------------------
(***************************************************************************)
(* What a review queue promises (review/queue.py): items wait in enqueue   *)
(* order, a decision takes its item off the queue, and "history is         *)
(* append-only: a decision is added, never replaced".  Each operation is   *)
(* one atomic step here.                                                   *)
(***************************************************************************)
EXTENDS Naturals, Sequences

CONSTANTS
    Items,      \* review items
    Decisions,  \* decisions reviewers may take (each with its own actor and time)
    ItemOf      \* the item a decision is about

ASSUME LedgerConstants == ItemOf \in [Decisions -> Items]

VARIABLE ledger   \* what is persisted

Ledgers == [pending : Seq(Items), history : [Items -> Seq(Decisions)]]

EmptyLedger == [pending |-> << >>, history |-> [i \in Items |-> << >>]]

Waits(s, i) == \E k \in 1..Len(s.pending) : s.pending[k] = i

Holds(s, d) == \E k \in 1..Len(s.history[ItemOf[d]]) : s.history[ItemOf[d]][k] = d

\* state.pending[item_id] = item: a waiting item keeps its place.
Enqueued(s, i) ==
    IF Waits(s, i) THEN s ELSE [s EXCEPT !.pending = Append(@, i)]

\* state.pending.pop(item_id, None): the others keep their order.
Popped(pending, i) ==
    IF \A k \in 1..Len(pending) : pending[k] # i THEN pending
    ELSE LET at == CHOOSE k \in 1..Len(pending) : pending[k] = i
         IN  [k \in 1..(Len(pending) - 1) |-> IF k < at THEN pending[k] ELSE pending[k + 1]]

\* Faulty variants: the second decision of an item replaces the first; the
\* decision is kept bare, not as a list.
ReplacingResolved(s, d) ==
    [pending |-> Popped(s.pending, ItemOf[d]),
     history |-> [s.history EXCEPT ![ItemOf[d]] = <<d>>]]

BareResolved(s, d) ==
    [pending |-> Popped(s.pending, ItemOf[d]),
     history |-> [s.history EXCEPT ![ItemOf[d]] = d]]

\* Pop the item if it waits; append the decision whether it waits or not.
Resolved(s, d) ==
    [pending |-> Popped(s.pending, ItemOf[d]),
     history |-> [s.history EXCEPT ![ItemOf[d]] = Append(@, d)]]

Init == ledger = EmptyLedger

Next ==
    \/ \E i \in Items : ledger' = Enqueued(ledger, i)
    \/ \E d \in Decisions : ledger' = Resolved(ledger, d)

Spec == Init /\ [][Next]_ledger

=============================================================================
