----------------------------- MODULE ReviewQueue -----------------------------
(***************************************************************************)
(* PersistentReviewQueue over JsonFileReviewStore (review/queue.py), used  *)
(* by several processes on one path: the service that enqueues and the     *)
(* CLI, which opens the file anew for each command.  An operation loads    *)
(* the whole file, changes its copy, writes the copy to `<path>.tmp` (one  *)
(* name for everybody) and renames it over the path.  No lock is held.     *)
(***************************************************************************)
EXTENDS ReviewLedger

CONSTANTS
    Processes,   \* the processes that use the file
    Exclusive,   \* TRUE: they take turns, one operation at a time
    IOFaults,    \* TRUE: a write or rename may raise OSError
    Crashes,     \* TRUE: a process may die inside an operation
    MaxHistory,  \* bound: no decision starts on an item with this many decisions
    Torn,        \* a file that is not JSON: truncated, or two writes overlaid
    Absent,      \* no file
    NoCall       \* no operation

ASSUME QueueConstants ==
    /\ {Exclusive, IOFaults, Crashes} \subseteq BOOLEAN
    /\ MaxHistory \in Nat \ {0}
    /\ {Torn, Absent} \cap Ledgers = {}
    /\ Torn # Absent

VARIABLES
    temp,      \* the file at `<path>.tmp`
    phase,     \* where each process is in its operation
    call,      \* the operation it runs
    working,   \* the snapshot it loaded and changed
    handle,    \* where the file it opened for writing is now
    acked,     \* the operations that returned without an error
    doubtful   \* the operations a crash interrupted

vars == <<ledger, temp, phase, call, working, handle, acked, doubtful>>

(* `ledger` is the content of the file at the path. *)

-----------------------------------------------------------------------------
Calls == [kind : {"enqueue"}, on : Items] \cup [kind : {"resolve"}, on : Decisions]

\* Faulty variant: enqueueing a waiting item again sends it to the back.
AppliedAtTheBack(c, s) ==
    IF c.kind = "enqueue"
    THEN [s EXCEPT !.pending = Append(Popped(@, c.on), c.on)]
    ELSE Resolved(s, c.on)

\* What a call makes of a snapshot.
Applied(c, s) == IF c.kind = "enqueue" THEN Enqueued(s, c.on) ELSE Resolved(s, c.on)

QueueInit ==
    /\ Init
    /\ temp = Absent
    /\ phase = [p \in Processes |-> "idle"]
    /\ call = [p \in Processes |-> NoCall]
    /\ working = [p \in Processes |-> EmptyLedger]
    /\ handle = [p \in Processes |-> "closed"]
    /\ acked = {}
    /\ doubtful = {}

\* An item is enqueued as often as producers like; a decision until it is acknowledged.
MayCall(c) ==
    c.kind = "resolve" =>
        c \notin acked /\ Len(ledger.history[ItemOf[c.on]]) < MaxHistory

\* _load, then the change to the loaded copy.  A corrupt file raises
\* PermanentQueueError, which changes nothing.
Load(p, c) ==
    /\ phase[p] = "idle"
    /\ Exclusive => \A q \in Processes : phase[q] = "idle"
    /\ ledger # Torn
    /\ MayCall(c)
    /\ working' = [working EXCEPT ![p] = Applied(c, ledger)]
    /\ call' = [call EXCEPT ![p] = c]
    /\ phase' = [phase EXCEPT ![p] = "loaded"]
    /\ UNCHANGED <<ledger, temp, handle, acked, doubtful>>

\* Faulty variant: the queue file itself is opened for writing.
OpenInPlace(p) ==
    /\ phase[p] = "loaded"
    /\ ledger' = Torn
    /\ handle' = [handle EXCEPT ![p] = "path"]
    /\ phase' = [phase EXCEPT ![p] = "opened"]
    /\ UNCHANGED <<temp, call, working, acked, doubtful>>

\* tmp.write_text: open creates or truncates the one temp file ...
Open(p) ==
    /\ phase[p] = "loaded"
    /\ temp' = Torn
    /\ handle' = [handle EXCEPT ![p] = "temp"]
    /\ phase' = [phase EXCEPT ![p] = "opened"]
    /\ UNCHANGED <<ledger, call, working, acked, doubtful>>

\* What a file holds after the whole snapshot s is written from its start: s
\* alone, unless another writer's longer text was there and its tail remains.
Overlaid(content, s) == IF content \in {Torn, Absent} THEN {s} ELSE {s, Torn}

\* ... and write goes to the file that was opened, wherever a rename moved it.
Write(p) ==
    /\ phase[p] = "opened"
    /\ ledger' \in IF handle[p] = "path" THEN Overlaid(ledger, working[p]) ELSE {ledger}
    /\ temp' \in IF handle[p] = "temp" THEN Overlaid(temp, working[p]) ELSE {temp}
    /\ handle' = [handle EXCEPT ![p] = "closed"]
    /\ phase' = [phase EXCEPT ![p] = "written"]
    /\ UNCHANGED <<call, working, acked, doubtful>>

Idle(p) ==
    /\ phase' = [phase EXCEPT ![p] = "idle"]
    /\ call' = [call EXCEPT ![p] = NoCall]
    /\ working' = [working EXCEPT ![p] = EmptyLedger]

\* tmp.replace(path): whatever the temp name holds becomes the queue, and the
\* files other processes hold open move with their names.
Rename(p) ==
    /\ phase[p] = "written"
    /\ temp # Absent
    /\ ledger' = temp
    /\ temp' = Absent
    /\ handle' = [q \in Processes |->
                    CASE handle[q] = "temp" -> "path"
                      [] handle[q] = "path" -> "unlinked"
                      [] OTHER -> handle[q]]

\* The operation renames and returns.
Replace(p) ==
    /\ Rename(p)
    /\ acked' = acked \cup {call[p]}
    /\ Idle(p)
    /\ UNCHANGED doubtful

\* Faulty variants: a failed save is swallowed and the operation returns
\* normally; the save fails after the rename (a late fsync, say).
FailSilently(p) ==
    /\ phase[p] \in {"loaded", "opened", "written"}
    /\ IOFaults
    /\ handle' = [handle EXCEPT ![p] = "closed"]
    /\ acked' = acked \cup {call[p]}
    /\ Idle(p)
    /\ UNCHANGED <<ledger, temp, doubtful>>

FailLate(p) ==
    /\ IOFaults
    /\ Rename(p)
    /\ Idle(p)
    /\ UNCHANGED <<acked, doubtful>>

\* save raises: an OSError of the write or the rename, or the temp file is gone.
\* _save classifies it (RetryableQueueError) and the caller sees it.
Fail(p) ==
    /\ phase[p] \in {"loaded", "opened", "written"}
    /\ IOFaults \/ (phase[p] = "written" /\ temp = Absent)
    /\ handle' = [handle EXCEPT ![p] = "closed"]
    /\ Idle(p)
    /\ UNCHANGED <<ledger, temp, acked, doubtful>>

\* The process dies: before the rename, or after it but before it could answer.
Crash(p) ==
    /\ Crashes
    /\ phase[p] # "idle"
    /\ \/ /\ handle' = [handle EXCEPT ![p] = "closed"]
          /\ UNCHANGED <<ledger, temp>>
       \/ Rename(p)
    /\ doubtful' = doubtful \cup {call[p]}
    /\ Idle(p)
    /\ UNCHANGED acked

QueueNext ==
    \E p \in Processes :
        \/ \E c \in Calls : Load(p, c)
        \/ Open(p) \/ Write(p) \/ Replace(p) \/ Fail(p) \/ Crash(p)

QueueSpec == QueueInit /\ [][QueueNext]_vars

-----------------------------------------------------------------------------
(* Properties. *)

\* Every variable stays within its type; the queue file may be corrupt.
TypeOK ==
    /\ ledger \in Ledgers \cup {Torn}
    /\ temp \in Ledgers \cup {Torn, Absent}
    /\ phase \in [Processes -> {"idle", "loaded", "opened", "written"}]
    /\ call \in [Processes -> Calls \cup {NoCall}]
    /\ working \in [Processes -> Ledgers]
    /\ handle \in [Processes -> {"closed", "temp", "path", "unlinked"}]
    /\ acked \subseteq Calls
    /\ doubtful \subseteq Calls

\* "A decision is never lost once recorded" (queue.py module docstring): once
\* resolve has returned, the file (unless corrupt) holds the decision.
DecisionNeverLost ==
    \A d \in Decisions :
        [kind |-> "resolve", on |-> d] \in acked => ledger = Torn \/ Holds(ledger, d)

\* No silent drop (law 15): once enqueue has returned, the item waits until some
\* decision about it is recorded.
ItemNeverDropped ==
    \A i \in Items :
        [kind |-> "enqueue", on |-> i] \in acked =>
            ledger = Torn \/ Waits(ledger, i) \/ ledger.history[i] # << >>

\* "A crash mid-write cannot leave a half-written queue" (JsonFileReviewStore).
NeverHalfWritten == (\A p \in Processes : phase[p] = "idle") => ledger # Torn

\* "A failed save leaves the prior persisted state intact": a decision is in the
\* history twice only if its reviewer retried what a crash had left in doubt.
RecordedOnce ==
    \A d \in Decisions :
        ledger # Torn /\ [kind |-> "resolve", on |-> d] \notin doubtful =>
            \A j, k \in 1..Len(ledger.history[ItemOf[d]]) :
                ledger.history[ItemOf[d]][j] = d /\ ledger.history[ItemOf[d]][k] = d => j = k

\* Used in turns, the file behaves as the atomic ledger: order of waiting items,
\* append-only history, no change by an operation that fails.
ImplementsLedger == Spec

=============================================================================
