----------------------------- MODULE AuditStore -----------------------------
(***************************************************************************)
(* The durable audit sinks (persistence/sqlite.py): three append-only      *)
(* sinks over five tables of one SQLite database, on a connection they     *)
(* share with a caller that has writes of its own.  SQLite itself (what a  *)
(* statement does, what commit and rollback do, what another writer of the *)
(* file may do) is external; which statements are issued, in which         *)
(* transaction, and which triggers stand on which table is the code.       *)
(*                                                                         *)
(* A database is its schema version, the triggers on each table (a table   *)
(* without triggers does not exist), the keys of each table's rows in      *)
(* insertion order, and how many rows the caller has of its own.           *)
(***************************************************************************)
EXTENDS Integers, FiniteSets, Sequences, SequencesExt, Functions

CONSTANTS Ids,        \* audit ids
          Executions, \* execution ids
          Semantics,  \* semantic records, with what they refer to
          Old,        \* the one record of a database written before #55
          Forged,     \* what another writer leaves in the place of a row
          MaxRows,    \* a bound on the records of a sink
          MaxOwn      \* a bound on the caller's own rows

\* What is left in the place of a row is no reference of a semantic record.
ASSUME StoreConstants ==
  /\ MaxRows \in Nat \ {0} /\ MaxOwn \in Nat
  /\ \A r \in Semantics \cup {Old} : \A values \in {r.assertions, r.operations} :
       /\ values \in Seq(ToSet(values))
       /\ \A n \in 1..Len(values) : Forged # <<r.id, values[n]>>

VARIABLES disk,       \* what is committed
          work,       \* what the connection sees
          inTx,       \* whether the connection is in a transaction
          opened,     \* the sinks this process has open
          refused     \* the <<sink, id>> the sinks have refused as duplicates

vars == <<disk, work, inTx, opened, refused>>

Sinks == {"audit", "execution", "semantic"}

Tables == {"audit_records", "execution_records", "semantic_audit_records",
           "semantic_audit_assertions", "semantic_audit_operations"}

RefTables == {"semantic_audit_assertions", "semantic_audit_operations"}

SchemaVersion == 1

-----------------------------------------------------------------------------
(* The schema                                                              *)

TablesOf(s) == CASE s = "audit"     -> {"audit_records"}
                 [] s = "execution" -> {"execution_records"}
                 [] s = "semantic"  -> {"semantic_audit_records"} \cup RefTables

RecordTable == [audit |-> "audit_records", execution |-> "execution_records",
                semantic |-> "semantic_audit_records"]

\* Faulty variant: the guard against a replacement is on the content key only.
GuardsOnKeyOnly(t) ==
  {"update", "delete"} \cup (IF t = "execution_records" THEN {} ELSE {"key"})

\* The execution sink is the one whose content id is not a key: a retry with
\* the same outcome is another arrival.
Guards(t) == {"update", "delete", "rowid"}
             \cup (IF t = "execution_records" THEN {} ELSE {"key"})

\* Before #55 the tables of references had no guard on their rowid.
GuardsBefore55(t) == IF t \in RefTables THEN Guards(t) \ {"rowid"} ELSE Guards(t)

NoRows == [t \in Tables |-> << >>]

Fresh == [version |-> 0, guards |-> [t \in Tables |-> {}], rows |-> NoRows, own |-> 0]

Future == [Fresh EXCEPT !.version = SchemaVersion + 1]

Readable(db) == db.version \in {0, SchemaVersion}

WithSchema(db, s) ==
  [db EXCEPT !.version = SchemaVersion,
             !.guards  = [t \in Tables |-> IF t \in TablesOf(s)
                                             THEN @[t] \cup Guards(t) ELSE @[t]]]

-----------------------------------------------------------------------------
(* Inserting: rows for each table, in one transaction, which either all go *)
(* in or are all undone.                                                   *)

Exists(db, s) == \A t \in TablesOf(s) : db.guards[t] # {}

Keys(db, t) == ToSet(db.rows[t])

\* A trigger fires on a key that is there, be it from this very transaction.
Aborts(db, rows) ==
  \E t \in Tables :
    /\ "key" \in db.guards[t]
    /\ Keys(db, t) \cap ToSet(rows[t]) # {} \/ ~IsInjective(rows[t])

Insert(db, rows) == [db EXCEPT !.rows = [t \in Tables |-> @[t] \o rows[t]]]

\* The values of a sequence, each once (in an order no query asks for).
Unique(values) == SetToSeq(ToSet(values))

\* Faulty variant: a reference named twice is inserted twice.
RefRowsAsGiven(id, values) == [n \in 1..Len(values) |-> <<id, values[n]>>]

RefRows(id, values) ==
  LET unique == Unique(values) IN [n \in 1..Len(unique) |-> <<id, unique[n]>>]

AuditRows(id)     == [NoRows EXCEPT !["audit_records"] = <<id>>]
ExecutionRows(id) == [NoRows EXCEPT !["execution_records"] = <<id>>]
SemanticRows(r)   ==
  [NoRows EXCEPT !["semantic_audit_records"]    = <<r.id>>,
                 !["semantic_audit_assertions"] = RefRows(r.id, r.assertions),
                 !["semantic_audit_operations"] = RefRows(r.id, r.operations)]

Before55 == [version |-> SchemaVersion, guards |-> [t \in Tables |-> GuardsBefore55(t)],
             rows |-> SemanticRows(Old), own |-> 0]

-----------------------------------------------------------------------------
(* The reads: records in append order, and the join over the references    *)
(* (which records it finds; they come in the order of Records).            *)

Records(db, t) == db.rows[t]

RecordsForRef(db, t, ref) ==
  {id \in Keys(db, "semantic_audit_records") : <<id, ref>> \in Keys(db, t)}

-----------------------------------------------------------------------------

Init == /\ disk \in {Fresh, Before55, Future}
        /\ work = disk
        /\ inTx = FALSE
        /\ opened = {}
        /\ refused = {}

\* Faulty variant: the savepoint is not released.
OpenUnreleased(s) ==
  /\ s \notin opened
  /\ Readable(work)
  /\ opened' = opened \cup {s}
  /\ work' = WithSchema(work, s)
  /\ UNCHANGED <<disk, inTx, refused>>

\* Faulty variant: the schema is created by executescript, which first commits.
OpenByScript(s) ==
  /\ s \notin opened
  /\ Readable(work)
  /\ opened' = opened \cup {s}
  /\ work' = WithSchema(work, s)
  /\ disk' = work'
  /\ inTx' = FALSE
  /\ UNCHANGED refused

\* Opening a sink creates what is missing inside a savepoint: committed when
\* nothing else is going on, left to the caller's transaction when one is.
Open(s) ==
  /\ s \notin opened
  /\ Readable(work)
  /\ opened' = opened \cup {s}
  /\ work' = WithSchema(work, s)
  /\ disk' = IF inTx THEN disk ELSE work'
  /\ UNCHANGED <<inTx, refused>>

\* A database of another version is refused and left as it was.
RefuseVersion(s) ==
  /\ s \notin opened
  /\ ~Readable(work)
  /\ UNCHANGED vars

Commit(db) == disk' = db /\ work' = db /\ inTx' = FALSE

Rollback == disk' = disk /\ work' = disk /\ inTx' = FALSE

\* Faulty variant: every row commits by itself, and the process may die between.
RecordRowByRow(s, id, rows) ==
  /\ s \in opened
  /\ Len(work.rows[RecordTable[s]]) < MaxRows
  /\ Exists(work, s)
  /\ ~Aborts(work, rows)
  /\ \E written \in {{RecordTable[s]}, TablesOf(s)} :
       Commit(Insert(work, [t \in Tables |-> IF t \in written THEN rows[t] ELSE << >>]))
  /\ UNCHANGED <<opened, refused>>

\* One record of sink s: `with conn:` commits it, and whatever was pending,
\* or undoes it, and whatever was pending.
Record(s, id, rows) ==
  /\ s \in opened
  /\ Len(work.rows[RecordTable[s]]) < MaxRows
  /\ UNCHANGED opened
  /\ \/ /\ Exists(work, s)
        /\ ~Aborts(work, rows)
        /\ Commit(Insert(work, rows))
        /\ UNCHANGED refused
     \/ /\ Exists(work, s)
        /\ Aborts(work, rows)
        /\ Rollback
        /\ refused' = refused \cup {<<s, id>>}
     \/ /\ ~Exists(work, s)
        /\ Rollback
        /\ UNCHANGED refused

RecordAudit(id)     == Record("audit", id, AuditRows(id))
RecordExecution(id) == Record("execution", id, ExecutionRows(id))
RecordSemantic(r)   == Record("semantic", r.id, SemanticRows(r))

\* The caller writes a row of its own, which opens a transaction, and commits.
CallerWrites ==
  /\ work.own < MaxOwn
  /\ work' = [work EXCEPT !.own = @ + 1]
  /\ inTx' = TRUE
  /\ UNCHANGED <<disk, opened, refused>>

CallerCommits ==
  /\ inTx
  /\ Commit(work)
  /\ UNCHANGED <<opened, refused>>

CallerRollsBack ==
  /\ inTx
  /\ Rollback
  /\ UNCHANGED <<opened, refused>>

\* Another writer of the file rewrites a row of a table, or deletes it,
\* where no trigger stands in the way: an UPDATE, a DELETE, or an INSERT OR
\* REPLACE that collides on the rowid or on the key.
Writers == {"update", "delete", "rowid", "key"}

Overwritten(db, t, n, w) ==
  [db EXCEPT !.rows[t] = IF w = "delete" THEN RemoveAt(@, n)
                                         ELSE [@ EXCEPT ![n] = Forged]]

OtherWriter(t, w) ==
  /\ ~inTx
  /\ w \notin disk.guards[t]
  /\ w = "key" => t # "execution_records"
  /\ \E n \in 1..Len(disk.rows[t]) :
       /\ disk.rows[t][n] # Forged
       /\ disk' = Overwritten(disk, t, n, w)
  /\ work' = disk'
  /\ UNCHANGED <<inTx, opened, refused>>

\* The process ends and another starts: what was not committed is gone.
Crash ==
  /\ opened # {} \/ inTx
  /\ work' = disk
  /\ inTx' = FALSE
  /\ opened' = {}
  /\ UNCHANGED <<disk, refused>>

Next ==
  \/ \E s \in Sinks : Open(s) \/ RefuseVersion(s)
  \/ \E id \in Ids : RecordAudit(id)
  \/ \E id \in Executions : RecordExecution(id)
  \/ \E r \in Semantics : RecordSemantic(r)
  \/ CallerWrites \/ CallerCommits \/ CallerRollsBack
  \/ \E t \in Tables, w \in Writers : OtherWriter(t, w)
  \/ Crash

Spec == Init /\ [][Next]_vars

-----------------------------------------------------------------------------
(* Properties                                                              *)

RefsOf(r, t) == IF t = "semantic_audit_assertions" THEN ToSet(r.assertions)
                                                   ELSE ToSet(r.operations)

\* A semantic record and its references are on disk together or not at all: the
\* joins by assertion and by operation find every decision that names what they
\* ask for, in a table of references nobody else has written to.
RefsWhole ==
  \E records \in SUBSET (Semantics \cup {Old}) :
    /\ {r.id : r \in records} = Keys(disk, "semantic_audit_records")
    /\ Cardinality(records) = Len(Records(disk, "semantic_audit_records"))
    /\ \A t \in RefTables :
         Forged \notin Keys(disk, t) =>
           \A ref \in UNION {RefsOf(r, t) : r \in Semantics} :
             RecordsForRef(disk, t, ref) = {r.id : r \in {r \in records : ref \in RefsOf(r, t)}}

\* A sink refuses a record as a duplicate only when a record of that id is on
\* disk, and never an execution record: no arrival is turned away for naming a
\* reference twice or for repeating an outcome.
RefusedOnlyDuplicates ==
  \A refusal \in refused :
    \/ refusal[1] = "audit"    /\ refusal[2] \in Keys(disk, "audit_records")
    \/ refusal[1] = "semantic" /\ refusal[2] \in Keys(disk, "semantic_audit_records")

\* Once the guards the code puts on a table are committed, its rows are only
\* ever added to, whatever statement another writer of the file issues.
GuardedRowsStand ==
  [][\A t \in Tables : Guards(t) \subseteq disk.guards[t]
                          => IsPrefix(disk.rows[t], disk'.rows[t])]_vars

\* Opening a sink on a shared connection neither commits nor loses the
\* transaction the caller has open on it.
OpeningKeepsTheCaller ==
  [][opened \subseteq opened' /\ opened # opened'
       => /\ disk'.own = disk.own
          /\ work'.own = work.own
          /\ inTx' = inTx]_vars
=============================================================================
