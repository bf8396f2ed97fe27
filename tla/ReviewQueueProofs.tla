-------------------------- MODULE ReviewQueueProofs --------------------------
(***************************************************************************)
(* What the review queue guarantees while its processes take turns, for    *)
(* any number of them, with I/O faults and crashes anywhere: the file      *)
(* behaves as the atomic ledger, and an acknowledged decision stays in it. *)
(* Two processes at once break both (run queue_race).                      *)
(***************************************************************************)
EXTENDS ReviewQueue, TLAPS

-----------------------------------------------------------------------------
Phases == {"idle", "loaded", "opened", "written"}

(* Type correctness: of what an operation makes of a snapshot, then of the   *)
(* files, under any interleaving, fault and crash.                           *)

Occurs(seq, x) == \E k \in 1..Len(seq) : seq[k] = x

\* Popping an item leaves the others waiting, and nothing but items.
LEMMA PoppedKeepsOthers ==
    ASSUME NEW S, NEW pending \in Seq(S), NEW i
    PROVE  /\ Popped(pending, i) \in Seq(S)
           /\ \A j : j # i /\ Occurs(pending, j) => Occurs(Popped(pending, i), j)
  <1>1. CASE \A k \in 1..Len(pending) : pending[k] # i
    BY <1>1 DEF Popped
  <1>2. CASE ~\A k \in 1..Len(pending) : pending[k] # i
    <2> DEFINE n == Len(pending)
               at == CHOOSE k \in 1..Len(pending) : pending[k] = i
               rest == [k \in 1..(n - 1) |-> IF k < at THEN pending[k] ELSE pending[k + 1]]
    <2>1. Popped(pending, i) = rest
      BY <1>2 DEF Popped
    <2>2. at \in 1..n /\ pending[at] = i
      BY <1>2
    <2>3. n \in Nat /\ n - 1 \in Nat /\ \A k \in 1..n : pending[k] \in S
      BY <2>2
    <2> HIDE DEF n, at
    <2>4. \A k \in 1..(n - 1) : k \in 1..n /\ k + 1 \in 1..n
      BY <2>3
    <2>5. rest \in Seq(S) /\ Len(rest) = n - 1
      BY <2>3, <2>4
    <2>6. ASSUME NEW j, j # i, NEW k \in 1..n, pending[k] = j PROVE Occurs(rest, j)
      <3>1. CASE k < at
        <4>1. k \in 1..(n - 1) /\ rest[k] = j
          BY <2>2, <2>3, <2>6, <3>1
        <4> QED BY <2>5, <4>1 DEF Occurs
      <3>2. CASE k > at
        <4>1. k - 1 \in 1..(n - 1) /\ ~(k - 1 < at) /\ (k - 1) + 1 = k
          BY <2>2, <2>3, <3>2
        <4>2. rest[k - 1] = j
          BY <2>6, <4>1
        <4> HIDE DEF rest
        <4> QED BY <2>5, <4>1, <4>2 DEF Occurs
      <3>3. k # at
        BY <2>2, <2>6
      <3> QED BY <2>2, <2>3, <3>1, <3>2, <3>3
    <2> HIDE DEF rest
    <2> QED BY <2>1, <2>5, <2>6 DEF Occurs, n
  <1> QED BY <1>1, <1>2

\* An operation makes a snapshot of a snapshot.
LEMMA AppliedTyped ==
    ASSUME NEW c \in Calls, NEW s \in Ledgers
    PROVE  Applied(c, s) \in Ledgers
  <1>1. CASE c.kind = "enqueue"
    <2>1. c.on \in Items
      BY <1>1 DEF Calls
    <2>2. s.pending \in Seq(Items) /\ Append(s.pending, c.on) \in Seq(Items)
      BY <2>1 DEF Ledgers
    <2>3. [s EXCEPT !.pending = Append(s.pending, c.on)] \in Ledgers
      BY <2>2 DEF Ledgers
    <2> QED BY <1>1, <2>3 DEF Applied, Enqueued
  <1>2. CASE c.kind = "resolve"
    <2>1. c.on \in Decisions /\ ItemOf[c.on] \in Items
      BY <1>2, LedgerConstants DEF Calls
    <2>2. Popped(s.pending, ItemOf[c.on]) \in Seq(Items)
      BY PoppedKeepsOthers DEF Ledgers
    <2>3. Append(s.history[ItemOf[c.on]], c.on) \in Seq(Decisions)
      BY <2>1 DEF Ledgers
    <2> QED BY <1>2, <2>1, <2>2, <2>3 DEF Applied, Resolved, Ledgers
  <1> QED BY <1>1, <1>2 DEF Calls

\* TypeOK made inductive: a process in an operation has its call at hand.
Typed == TypeOK /\ \A p \in Processes : phase[p] # "idle" => call[p] \in Calls

\* Every step keeps the types.
LEMMA TypedStep ==
    ASSUME Typed, [QueueNext]_vars
    PROVE  Typed'
  <1> USE DEF Typed
  <1>1. ASSUME NEW p \in Processes, NEW c \in Calls, Load(p, c) PROVE Typed'
    <2>1. ledger \in Ledgers
      BY <1>1 DEF Load, TypeOK
    <2>2. Applied(c, ledger) \in Ledgers
      BY <2>1, AppliedTyped
    <2> QED BY <1>1, <2>2 DEF Load, TypeOK
  <1>2. ASSUME NEW p \in Processes, Open(p) PROVE Typed'
    BY <1>2 DEF Open, TypeOK
  <1>3. ASSUME NEW p \in Processes, Write(p) PROVE Typed'
    <2>1. \A content : Overlaid(content, working[p]) \subseteq Ledgers \cup {Torn}
      BY DEF Overlaid, TypeOK
    <2>2. ledger' \in Ledgers \cup {Torn} /\ temp' \in Ledgers \cup {Torn, Absent}
      BY <1>3, <2>1 DEF Write, TypeOK
    <2> QED BY <1>3, <2>2 DEF Write, TypeOK
  <1>4. EmptyLedger \in Ledgers
    BY DEF EmptyLedger, Ledgers
  <1>5. ASSUME NEW p \in Processes, Rename(p)
        PROVE  /\ ledger' \in Ledgers \cup {Torn} /\ temp' \in Ledgers \cup {Torn, Absent}
               /\ handle' \in [Processes -> {"closed", "temp", "path", "unlinked"}]
    BY <1>5 DEF Rename, TypeOK
  <1>6. ASSUME NEW p \in Processes, Replace(p) \/ Fail(p) \/ Crash(p) PROVE Typed'
    <2>1. phase[p] # "idle" /\ Idle(p)
      BY <1>6 DEF Replace, Rename, Fail, Crash
    <2>2. call[p] \in Calls
      BY <2>1
    <2>3. /\ phase' \in [Processes -> Phases] /\ working' \in [Processes -> Ledgers]
          /\ call' \in [Processes -> Calls \cup {NoCall}]
          /\ \A q \in Processes : phase'[q] # "idle" => call'[q] \in Calls
      BY <1>4, <2>1 DEF Idle, TypeOK, Phases
    <2>4. /\ ledger' \in Ledgers \cup {Torn} /\ temp' \in Ledgers \cup {Torn, Absent}
          /\ handle' \in [Processes -> {"closed", "temp", "path", "unlinked"}]
      BY <1>5, <1>6 DEF Replace, Fail, Crash, TypeOK
    <2>5. acked' \subseteq Calls /\ doubtful' \subseteq Calls
      BY <1>6, <2>2 DEF Replace, Fail, Crash, TypeOK
    <2> QED BY <2>3, <2>4, <2>5 DEF TypeOK, Phases
  <1>7. CASE UNCHANGED vars
    BY <1>7 DEF vars, TypeOK
  <1> QED BY <1>1, <1>2, <1>3, <1>6, <1>7 DEF QueueNext

\* The strengthened types hold throughout.
LEMMA TypedInvariant == QueueSpec => []Typed
  <1>1. QueueInit => Typed
    <2> SUFFICES ASSUME QueueInit PROVE Typed
      OBVIOUS
    <2>1. EmptyLedger \in Ledgers
      BY DEF EmptyLedger, Ledgers
    <2> QED BY <2>1 DEF QueueInit, Init, Typed, TypeOK
  <1> QED BY <1>1, TypedStep, PTL DEF QueueSpec

\* Whatever the processes do at once, and wherever they fail or die, the file
\* at the path is a well-formed queue or is not JSON at all: never a queue with
\* foreign content.
THEOREM QueueTypeCorrect == QueueSpec => []TypeOK
  <1>1. Typed => TypeOK
    BY DEF Typed
  <1> QED BY <1>1, TypedInvariant, PTL

-----------------------------------------------------------------------------

(* The strengthening of "one operation at a time": what the one operation    *)
(* in progress would write is its call applied to what is still in the file. *)

Shapes ==
    /\ phase \in [Processes -> Phases]
    /\ call \in [Processes -> Calls \cup {NoCall}]
    /\ handle \in [Processes -> {"closed", "temp"}]
    /\ working = [p \in Processes |-> working[p]]

Turns == \A p, q \in Processes : phase[p] # "idle" /\ phase[q] # "idle" => p = q

Faithful ==
    \A p \in Processes :
        /\ phase[p] # "idle" => call[p] \in Calls /\ working[p] = Applied(call[p], ledger)
        /\ handle[p] = "temp" <=> phase[p] = "opened"
        /\ phase[p] = "opened" => temp = Torn
        /\ phase[p] = "written" => temp = working[p]

InTurns == Shapes /\ Turns /\ Faithful

\* Nothing runs at the start.
LEMMA InTurnsInit == QueueInit => InTurns
  BY DEF QueueInit, InTurns, Shapes, Turns, Faithful, Phases

\* A rename installs exactly one operation applied to the file.
LEMMA RenameIsOneOperation ==
    ASSUME InTurns, NEW p \in Processes, Rename(p)
    PROVE  call[p] \in Calls /\ ledger' = Applied(call[p], ledger)
  BY DEF InTurns, Shapes, Faithful, Rename

\* An operation that ends leaves every process idle.
LEMMA EndingKeepsTurns ==
    ASSUME InTurns, NEW p \in Processes, phase[p] # "idle", Idle(p),
           \A q \in Processes : handle'[q] \in {"closed"},
           handle' \in [Processes -> {"closed", "temp"}]
    PROVE  InTurns'
  <1>1. \A q \in Processes : q # p => phase[q] = "idle"
    BY DEF InTurns, Turns
  <1>2. Shapes'
    BY DEF InTurns, Shapes, Idle, Phases
  <1>3. \A q \in Processes : phase'[q] = "idle"
    BY <1>1 DEF InTurns, Shapes, Idle
  <1> QED BY <1>2, <1>3 DEF InTurns, Turns, Faithful

\* Every handle but that of the process that runs is closed.
LEMMA OneHandle ==
    ASSUME InTurns, NEW p \in Processes, phase[p] # "idle"
    PROVE  \A q \in Processes : q # p => handle[q] = "closed" /\ phase[q] = "idle"
  BY DEF InTurns, Shapes, Turns, Faithful

\* Every step of processes that take turns keeps the invariant.
LEMMA InTurnsStep ==
    ASSUME Exclusive, InTurns, [QueueNext]_vars
    PROVE  InTurns'
  <1> USE DEF InTurns
  <1>1. ASSUME NEW p \in Processes, NEW c \in Calls, Load(p, c) PROVE InTurns'
    <2>1. \A q \in Processes : phase[q] = "idle" /\ handle[q] = "closed"
      BY <1>1 DEF Load, Faithful, Shapes
    <2>2. /\ phase' = [phase EXCEPT ![p] = "loaded"] /\ call' = [call EXCEPT ![p] = c]
          /\ working' = [working EXCEPT ![p] = Applied(c, ledger)]
          /\ UNCHANGED <<ledger, temp, handle>>
      BY <1>1 DEF Load
    <2>3. Shapes'
      BY <2>2 DEF Shapes, Phases
    <2>4. Turns'
      BY <2>1, <2>2 DEF Shapes, Turns
    <2>5. call'[p] = c /\ working'[p] = Applied(c, ledger) /\ phase'[p] = "loaded"
          /\ \A q \in Processes : q # p => phase'[q] = "idle"
      BY <2>1, <2>2 DEF Shapes
    <2> QED BY <2>1, <2>2, <2>3, <2>4, <2>5 DEF Faithful
  <1>2. ASSUME NEW p \in Processes, Open(p) PROVE InTurns'
    <2>1. \A q \in Processes : q # p => handle[q] = "closed" /\ phase[q] = "idle"
      BY <1>2, OneHandle DEF Open
    <2>2. /\ phase' = [phase EXCEPT ![p] = "opened"] /\ handle' = [handle EXCEPT ![p] = "temp"]
          /\ temp' = Torn /\ UNCHANGED <<ledger, call, working>>
      BY <1>2 DEF Open
    <2>3. Shapes' /\ Turns'
      BY <2>1, <2>2 DEF Shapes, Turns, Phases
    <2>4. phase'[p] = "opened" /\ handle'[p] = "temp" /\ phase[p] # "idle"
          /\ \A q \in Processes : q # p => phase'[q] = "idle" /\ handle'[q] = "closed"
      BY <1>2, <2>1, <2>2 DEF Shapes, Open
    <2>5. call[p] \in Calls /\ working[p] = Applied(call[p], ledger)
      BY <2>4 DEF Faithful
    <2>6. Faithful'
      BY <2>2, <2>4, <2>5 DEF Faithful
    <2> QED BY <2>3, <2>6
  <1>3. ASSUME NEW p \in Processes, Write(p) PROVE InTurns'
    <2>1. \A q \in Processes : q # p => handle[q] = "closed" /\ phase[q] = "idle"
      BY <1>3, OneHandle DEF Write
    <2>2. handle[p] = "temp" /\ temp = Torn /\ phase[p] = "opened"
      BY <1>3 DEF Write, Faithful
    <2>3. /\ phase' = [phase EXCEPT ![p] = "written"] /\ handle' = [handle EXCEPT ![p] = "closed"]
          /\ temp' = working[p] /\ UNCHANGED <<ledger, call, working>>
      BY <1>3, <2>2 DEF Write, Overlaid
    <2>4. Shapes' /\ Turns'
      BY <2>1, <2>3 DEF Shapes, Turns, Phases
    <2>5. phase'[p] = "written" /\ handle'[p] = "closed"
          /\ \A q \in Processes : q # p => phase'[q] = "idle" /\ handle'[q] = "closed"
      BY <2>1, <2>3 DEF Shapes
    <2>6. call[p] \in Calls /\ working[p] = Applied(call[p], ledger)
      BY <2>2 DEF Faithful
    <2>7. Faithful'
      BY <2>3, <2>5, <2>6 DEF Faithful
    <2> QED BY <2>4, <2>7
  <1>4. ASSUME NEW p \in Processes, Replace(p) \/ Fail(p) \/ Crash(p) PROVE InTurns'
    <2>1. phase[p] # "idle" /\ Idle(p)
      BY <1>4 DEF Replace, Rename, Fail, Crash
    <2>2. \A q \in Processes : q # p => handle[q] = "closed"
      BY <2>1, OneHandle
    <2>3. CASE handle' = [handle EXCEPT ![p] = "closed"]
      <3>1. handle' \in [Processes -> {"closed", "temp"}] /\ \A q \in Processes : handle'[q] = "closed"
        BY <2>2, <2>3 DEF Shapes
      <3> QED BY <2>1, <3>1, EndingKeepsTurns
    <2>4. CASE Rename(p)
      <3>1. handle[p] = "closed"
        BY <2>4 DEF Rename, Faithful, Shapes
      <3>2. \A q \in Processes : handle[q] = "closed"
        BY <2>2, <3>1
      <3>3. handle' \in [Processes -> {"closed", "temp"}] /\ \A q \in Processes : handle'[q] = "closed"
        BY <2>4, <3>2 DEF Rename
      <3> QED BY <2>1, <3>3, EndingKeepsTurns
    <2> QED BY <1>4, <2>3, <2>4 DEF Replace, Fail, Crash
  <1>5. CASE UNCHANGED vars
    BY <1>5 DEF vars, Shapes, Turns, Faithful
  <1> QED BY <1>1, <1>2, <1>3, <1>4, <1>5 DEF QueueNext

\* What a step may do to the file: nothing, or one operation.
LEMMA StepOfTheFile ==
    ASSUME InTurns, [QueueNext]_vars
    PROVE  \/ ledger' = ledger
           \/ \E c \in Calls : ledger' = Applied(c, ledger)
  <1>1. ASSUME NEW p \in Processes, Write(p) PROVE ledger' = ledger
    BY <1>1 DEF Write, InTurns, Shapes
  <1>2. ASSUME NEW p \in Processes, Rename(p) PROVE \E c \in Calls : ledger' = Applied(c, ledger)
    BY <1>2, RenameIsOneOperation
  <1> QED BY <1>1, <1>2 DEF QueueNext, vars, Load, Open, Replace, Fail, Crash

\* Used in turns, the queue file implements the atomic ledger, through I/O
\* faults and crashes at any point of an operation.
THEOREM QueueImplementsLedger ==
    ASSUME Exclusive
    PROVE  QueueSpec => ImplementsLedger
  <1>1. QueueInit => Init
    BY DEF QueueInit
  <1>2. InTurns /\ [QueueNext]_vars => [Next]_ledger
    <2> SUFFICES ASSUME InTurns, [QueueNext]_vars, ledger' # ledger PROVE Next
      OBVIOUS
    <2> PICK c \in Calls : ledger' = Applied(c, ledger)
      BY StepOfTheFile
    <2> QED BY DEF Calls, Applied, Next
  <1> QED BY <1>1, <1>2, InTurnsInit, InTurnsStep, PTL DEF QueueSpec, ImplementsLedger, Spec

-----------------------------------------------------------------------------
(* What an operation keeps of the snapshot it loaded.                        *)

AtMostOnce(seq, x) == \A j, k \in 1..Len(seq) : seq[j] = x /\ seq[k] = x => j = k

\* A call to resolve with this decision.
Resolution(d) == [kind |-> "resolve", on |-> d]

\* Appending adds one occurrence of what is appended, and moves nothing.
LEMMA AppendOccurs ==
    ASSUME NEW S, NEW seq \in Seq(S), NEW y \in S
    PROVE  /\ Append(seq, y) # << >>
           /\ \A x : Occurs(Append(seq, y), x) <=> Occurs(seq, x) \/ x = y
           /\ \A x : AtMostOnce(seq, x) /\ (x = y => ~Occurs(seq, x)) => AtMostOnce(Append(seq, y), x)
  <1> DEFINE g == Append(seq, y)
             n == Len(seq)
  <1>1. /\ n \in Nat /\ Len(g) = n + 1 /\ g[n + 1] = y
        /\ \A k \in 1..n : g[k] = seq[k]
    OBVIOUS
  <1> HIDE DEF g, n
  <1>2. \A k \in 1..(n + 1) : k \in 1..n \/ k = n + 1
    BY <1>1
  <1>3. \A k \in 1..n : k \in 1..(n + 1)
    BY <1>1
  <1>4. n + 1 \in 1..(n + 1)
    BY <1>1
  <1>5. ASSUME NEW x PROVE Occurs(g, x) <=> Occurs(seq, x) \/ x = y
    BY <1>1, <1>2, <1>3, <1>4 DEF Occurs, n
  <1>6. ASSUME NEW x, AtMostOnce(seq, x), x = y => ~Occurs(seq, x) PROVE AtMostOnce(g, x)
    BY <1>1, <1>2, <1>6 DEF Occurs, AtMostOnce, n
  <1>7. g # << >>
    <2>1. Len(<< >>) = 0
      OBVIOUS
    <2> QED BY <1>1, <2>1
  <1> QED BY <1>5, <1>6, <1>7 DEF g

\* What an operation does to the histories: nothing, or one decision appended.
LEMMA AppliedHistory ==
    ASSUME NEW c \in Calls, NEW s \in Ledgers
    PROVE  /\ c.kind = "enqueue" => Applied(c, s).history = s.history
           /\ c.kind = "resolve" =>
                /\ c = Resolution(c.on) /\ c.on \in Decisions
                /\ \A i \in Items :
                      Applied(c, s).history[i] = IF i = ItemOf[c.on]
                                                 THEN Append(s.history[i], c.on)
                                                 ELSE s.history[i]
  <1>1. CASE c.kind = "enqueue"
    <2>1. [s EXCEPT !.pending = Append(s.pending, c.on)].history = s.history
      BY DEF Ledgers
    <2> QED BY <1>1, <2>1 DEF Applied, Enqueued
  <1>2. CASE c.kind = "resolve"
    BY <1>2 DEF Applied, Resolved, Calls, Ledgers, Resolution
  <1> QED BY <1>1, <1>2 DEF Calls

\* An operation keeps every decision the history holds, and adds its own.
LEMMA AppliedDecisions ==
    ASSUME NEW c \in Calls, NEW s \in Ledgers, NEW d \in Decisions
    PROVE  /\ Holds(Applied(c, s), d) <=> Holds(s, d) \/ c = Resolution(d)
           /\ AtMostOnce(s.history[ItemOf[d]], d) /\ (c = Resolution(d) => ~Holds(s, d)) =>
                AtMostOnce(Applied(c, s).history[ItemOf[d]], d)
  <1>1. ItemOf[d] \in Items /\ \A x, r : Holds(r, x) <=> Occurs(r.history[ItemOf[x]], x)
    BY LedgerConstants DEF Holds, Occurs
  <1>2. CASE c.kind = "enqueue"
    <2>1. c # Resolution(d)
      BY <1>2 DEF Resolution
    <2> QED BY <1>1, <1>2, <2>1, AppliedHistory
  <1>3. CASE c.kind = "resolve"
    <2>1. c = Resolution(d) <=> c.on = d
      BY <1>3, AppliedHistory DEF Resolution
    <2> DEFINE h == s.history[ItemOf[d]]
               g == Applied(c, s).history[ItemOf[d]]
    <2>2. h \in Seq(Decisions) /\ c.on \in Decisions
      BY <1>1, <1>3, AppliedHistory DEF Ledgers
    <2>3. g = IF ItemOf[d] = ItemOf[c.on] THEN Append(h, c.on) ELSE h
      BY <1>1, <1>3, AppliedHistory
    <2> HIDE DEF h, g
    <2>4. Occurs(g, d) <=> Occurs(h, d) \/ c.on = d
      BY <2>2, <2>3, AppendOccurs
    <2>5. AtMostOnce(h, d) /\ (c.on = d => ~Occurs(h, d)) => AtMostOnce(g, d)
      BY <2>2, <2>3, AppendOccurs
    <2> QED BY <1>1, <2>1, <2>4, <2>5 DEF h, g
  <1> QED BY <1>2, <1>3 DEF Calls

\* The queue has not lost track of an item: it waits, or it was decided.
Tracked(s, i) == Waits(s, i) \/ s.history[i] # << >>

\* An operation loses track of no item, and an enqueue takes its item on.
LEMMA AppliedItems ==
    ASSUME NEW c \in Calls, NEW s \in Ledgers, NEW i \in Items
    PROVE  /\ Tracked(s, i) => Tracked(Applied(c, s), i)
           /\ c.kind = "enqueue" /\ c.on = i => Tracked(Applied(c, s), i)
  <1>1. \A r : Waits(r, i) <=> Occurs(r.pending, i)
    BY DEF Waits, Occurs
  <1>2. CASE c.kind = "enqueue"
    <2>1. c.on \in Items /\ s.pending \in Seq(Items) /\ Applied(c, s) = Enqueued(s, c.on)
      BY <1>2 DEF Calls, Ledgers, Applied
    <2>2. CASE Waits(s, c.on)
      BY <1>2, <2>1, <2>2 DEF Tracked, Enqueued
    <2>3. CASE ~Waits(s, c.on)
      <3>1. Applied(c, s).pending = Append(s.pending, c.on)
        BY <2>1, <2>3 DEF Enqueued, Ledgers
      <3>2. Occurs(Applied(c, s).pending, i) <=> Occurs(s.pending, i) \/ i = c.on
        BY <2>1, <3>1, AppendOccurs
      <3> QED BY <1>1, <1>2, <3>2, AppliedHistory DEF Tracked
    <2> QED BY <2>2, <2>3
  <1>3. CASE c.kind = "resolve"
    <2>1. s.history[i] \in Seq(Decisions) /\ s.pending \in Seq(Items) /\ c.on \in Decisions
      BY <1>3 DEF Ledgers, Calls
    <2>2. Applied(c, s).pending = Popped(s.pending, ItemOf[c.on])
      BY <1>3 DEF Applied, Resolved
    <2>3. CASE i = ItemOf[c.on]
      <3>1. Applied(c, s).history[i] = Append(s.history[i], c.on)
        BY <1>3, <2>3, AppliedHistory
      <3> QED BY <1>3, <2>1, <3>1, AppendOccurs DEF Tracked
    <2>4. CASE i # ItemOf[c.on]
      <3>1. Applied(c, s).history[i] = s.history[i]
        BY <1>3, <2>4, AppliedHistory
      <3>2. Occurs(s.pending, i) => Occurs(Popped(s.pending, ItemOf[c.on]), i)
        BY <2>1, <2>4, PoppedKeepsOthers
      <3> QED BY <1>1, <1>3, <2>2, <3>1, <3>2 DEF Tracked
    <2> QED BY <2>3, <2>4
  <1> QED BY <1>2, <1>3 DEF Calls

-----------------------------------------------------------------------------
(* While processes take turns, nothing acknowledged is lost, and nothing not *)
(* acknowledged was done unless a crash left it in doubt.                    *)

\* The file is a queue; it holds what was acknowledged; what it holds was
\* acknowledged or is in doubt; no operation repeats an acknowledged decision.
Kept ==
    /\ InTurns
    /\ ledger \in Ledgers
    /\ acked \subseteq Calls
    /\ \A i \in Items : [kind |-> "enqueue", on |-> i] \in acked => Tracked(ledger, i)
    /\ \A d \in Decisions : Resolution(d) \in acked => Holds(ledger, d)
    /\ \A d \in Decisions : Holds(ledger, d) => Resolution(d) \in acked \cup doubtful
    /\ \A d \in Decisions :
          Resolution(d) \notin doubtful => AtMostOnce(ledger.history[ItemOf[d]], d)
    /\ \A d \in Decisions, p \in Processes :
          phase[p] # "idle" /\ call[p] = Resolution(d) => Resolution(d) \notin acked

\* A rename installs one operation on what was there; whoever made it is told
\* so, or has died.
LEMMA RenameKeeps ==
    ASSUME Kept, InTurns', NEW p \in Processes, Rename(p), Idle(p),
           \/ acked' = acked \cup {call[p]} /\ doubtful' = doubtful
           \/ acked' = acked /\ doubtful' = doubtful \cup {call[p]}
    PROVE  Kept'
  <1> DEFINE c == call[p]
  <1>1. c \in Calls /\ ledger' = Applied(c, ledger) /\ ledger \in Ledgers
    BY RenameIsOneOperation DEF Kept
  <1>2. ledger' \in Ledgers /\ acked' \subseteq Calls
    BY <1>1, AppliedTyped DEF Kept
  <1>3. ASSUME NEW q \in Processes PROVE phase'[q] = "idle"
    BY DEF Kept, InTurns, Shapes, Turns, Idle, Rename
  <1>4. ASSUME NEW i \in Items, [kind |-> "enqueue", on |-> i] \in acked'
        PROVE  Tracked(ledger', i)
    <2>1. [kind |-> "enqueue", on |-> i] \in acked \/ [kind |-> "enqueue", on |-> i] = c
      BY <1>4
    <2>2. CASE [kind |-> "enqueue", on |-> i] \in acked
      BY <1>1, <2>2, AppliedItems DEF Kept
    <2>3. CASE [kind |-> "enqueue", on |-> i] = c
      BY <1>1, <2>3, AppliedItems
    <2> QED BY <2>1, <2>2, <2>3
  <1>5. ASSUME NEW d \in Decisions, Resolution(d) \in acked' PROVE Holds(ledger', d)
    <2>1. Resolution(d) \in acked \/ Resolution(d) = c
      BY <1>5
    <2> QED BY <1>1, <2>1, AppliedDecisions DEF Kept
  <1>6. ASSUME NEW d \in Decisions, Holds(ledger', d)
        PROVE  Resolution(d) \in acked' \cup doubtful'
    <2>1. Holds(ledger, d) \/ c = Resolution(d)
      BY <1>1, <1>6, AppliedDecisions
    <2> QED BY <2>1 DEF Kept
  <1>7. ASSUME NEW d \in Decisions, Resolution(d) \notin doubtful'
        PROVE  AtMostOnce(ledger'.history[ItemOf[d]], d)
    <2>1. Resolution(d) \notin doubtful
      BY <1>7
    <2>2. AtMostOnce(ledger.history[ItemOf[d]], d)
      BY <2>1 DEF Kept
    <2>3. ASSUME c = Resolution(d) PROVE ~Holds(ledger, d)
      <3>1. Resolution(d) \notin acked
        BY <2>3 DEF Kept, Rename
      <3> QED BY <2>1, <3>1 DEF Kept
    <2> QED BY <1>1, <2>2, <2>3, AppliedDecisions
  <1> QED BY <1>2, <1>3, <1>4, <1>5, <1>6, <1>7 DEF Kept

\* Every step keeps that.
LEMMA KeptStep ==
    ASSUME Exclusive, Kept, [QueueNext]_vars
    PROVE  Kept'
  <1>1. InTurns'
    BY InTurnsStep DEF Kept
  <1>2. ASSUME NEW p \in Processes, Rename(p), Replace(p) \/ Fail(p) \/ Crash(p) PROVE Kept'
    <2>1. CASE UNCHANGED <<ledger, acked>> /\ doubtful \subseteq doubtful'
      BY <1>1, <1>2, <2>1 DEF Kept, Replace, Fail, Crash, Idle, InTurns, Shapes
    <2>2. CASE ~(UNCHANGED <<ledger, acked>> /\ doubtful \subseteq doubtful')
      BY <1>1, <1>2, <2>2, RenameKeeps DEF Replace, Fail, Crash
    <2> QED BY <2>1, <2>2
  <1>3. ASSUME NEW p \in Processes, UNCHANGED <<ledger, acked>>,
               Fail(p) \/ Crash(p)
        PROVE  Kept'
    <2>1. doubtful \subseteq doubtful'
      BY <1>3 DEF Fail, Crash
    <2>2. ASSUME NEW q \in Processes, phase'[q] # "idle"
          PROVE  phase[q] # "idle" /\ call'[q] = call[q]
      BY <1>3, <2>2 DEF Fail, Crash, Idle, Kept, InTurns, Shapes
    <2> QED BY <1>1, <1>3, <2>1, <2>2 DEF Kept
  <1>4. ASSUME NEW p \in Processes, NEW c \in Calls, Load(p, c) PROVE Kept'
    <2>1. UNCHANGED <<ledger, acked, doubtful>>
      BY <1>4 DEF Load
    <2>2. ASSUME NEW q \in Processes, NEW d \in Decisions,
                 phase'[q] # "idle", call'[q] = Resolution(d)
          PROVE  Resolution(d) \notin acked
      <3>1. CASE q = p
        BY <1>4, <2>2, <3>1 DEF Load, MayCall, Resolution, Kept, InTurns, Shapes
      <3>2. CASE q # p
        BY <1>4, <2>2, <3>2 DEF Load, Kept, InTurns, Shapes
      <3> QED BY <3>1, <3>2
    <2> QED BY <1>1, <2>1, <2>2 DEF Kept
  <1>5. ASSUME NEW p \in Processes, Open(p) \/ Write(p) PROVE Kept'
    <2>1. UNCHANGED <<ledger, call, acked, doubtful>>
      BY <1>5 DEF Open, Write, Kept, InTurns, Shapes
    <2>2. \A q \in Processes : phase'[q] # "idle" => phase[q] # "idle"
      BY <1>5 DEF Open, Write, Kept, InTurns, Shapes
    <2> QED BY <1>1, <2>1, <2>2 DEF Kept
  <1>6. CASE UNCHANGED vars
    BY <1>1, <1>6 DEF vars, Kept
  <1> QED BY <1>2, <1>3, <1>4, <1>5, <1>6 DEF QueueNext, Replace, Fail, Crash

\* It holds throughout.
LEMMA KeptInvariant == Exclusive => (QueueSpec => []Kept)
  <1> SUFFICES ASSUME Exclusive PROVE QueueSpec => []Kept
    OBVIOUS
  <1>1. QueueInit => Kept
    <2> SUFFICES ASSUME QueueInit PROVE Kept
      OBVIOUS
    <2>1. ledger \in Ledgers /\ \A i \in Items : Len(ledger.history[i]) = 0
      BY DEF QueueInit, Init, EmptyLedger, Ledgers
    <2>2. \A d \in Decisions : ~Holds(ledger, d) /\ AtMostOnce(ledger.history[ItemOf[d]], d)
      BY <2>1, LedgerConstants DEF Holds, AtMostOnce
    <2>3. acked = {} /\ \A p \in Processes : phase[p] = "idle"
      BY DEF QueueInit
    <2> QED BY <2>1, <2>2, <2>3, InTurnsInit DEF Kept
  <1> QED BY <1>1, KeptStep, PTL DEF QueueSpec

\* "A decision is never lost once recorded", as long as processes take turns.
THEOREM DecisionsAreKept ==
    ASSUME Exclusive
    PROVE  QueueSpec => []DecisionNeverLost
  <1>1. Kept => DecisionNeverLost
    BY DEF Kept, DecisionNeverLost, Resolution
  <1> QED BY <1>1, KeptInvariant, PTL

\* No silent drop: once enqueue has returned, the item waits until a decision
\* about it is in the file, as long as processes take turns.
THEOREM ItemsAreKept ==
    ASSUME Exclusive
    PROVE  QueueSpec => []ItemNeverDropped
  <1>1. Kept => ItemNeverDropped
    BY DEF Kept, ItemNeverDropped, Tracked
  <1> QED BY <1>1, KeptInvariant, PTL

\* The queue is readable again after any crash or failed write, as long as
\* processes take turns.  (Two at once can leave half a file: run queue_torn.)
THEOREM QueueIsReadable ==
    ASSUME Exclusive
    PROVE  QueueSpec => []NeverHalfWritten
  <1>1. Kept => NeverHalfWritten
    BY QueueConstants DEF Kept, NeverHalfWritten
  <1> QED BY <1>1, KeptInvariant, PTL

\* A save that fails leaves nothing behind: a decision is in the file twice
\* only if its reviewer retried what a crash had left in doubt.
THEOREM DecisionsRecordedOnce ==
    ASSUME Exclusive
    PROVE  QueueSpec => []RecordedOnce
  <1>1. Kept => RecordedOnce
    BY DEF Kept, RecordedOnce, Resolution, AtMostOnce
  <1> QED BY <1>1, KeptInvariant, PTL

=============================================================================
