---------------------------- MODULE CurationAudit ----------------------------
(***************************************************************************)
(* CurationEngine.curate (engine.py) with the audit sink it is given: none,*)
(* the in-memory one (memory/audit.py) or the SQLite one (AuditStore), on  *)
(* whose connection the caller and the other sinks are at work.  A call    *)
(* decides the whole batch, then records one audit record per operation of *)
(* the plan, and only then returns the plan: the process may die, or a     *)
(* record be refused, between any two.  Calls follow one another; a caller *)
(* may submit the same batch again.                                        *)
(***************************************************************************)
EXTENDS AuditStore, CurationPipeline

CONSTANTS MemoryBatches,   \* batches curated without a durable sink
          SqliteBatches,   \* batches curated with one
          Releases,        \* contract versions that may be installed
          MaxCalls         \* a bound on the calls

\* A caller's batch is a sequence of candidates; releases are numbered.
ASSUME CurationConstants ==
    /\ Releases # {}
    /\ \A r \in Releases : r.minor \in Int
    /\ \A batch \in MemoryBatches \cup SqliteBatches :
        /\ batch \in Seq(ToSet(batch))
        /\ \A n \in 1..Len(batch) : IsCandidate(batch[n])

VARIABLES sink,       \* "none", "memory" or "sqlite"
          installed,  \* the contract version the running process has
          call,       \* the call in progress
          calls,      \* how many calls have been made
          memory,     \* the in-memory sink
          handed      \* the ids of the operations of each plan returned, in order

engine == <<sink, installed, call, calls, memory, handed>>
allVars == <<vars, engine>>

Idle == [batch |-> << >>, outcomes |-> << >>, left |-> << >>]

Batches == IF sink = "sqlite" THEN SqliteBatches ELSE MemoryBatches

\* Nothing about the SQLite sink depends on the release: it is run with one.
ReleasesFor(s) == IF s = "sqlite" THEN {CHOOSE r \in Releases : TRUE} ELSE Releases

\* Faulty variant: the first record is skipped.
RecordsButFirst(planned) == [n \in 1..(Len(planned) - 1) |-> planned[n + 1].id]

\* AuditRecorder.build: one record per operation, in operation order.  The
\* audit id is derived from the operation id, and that from the candidate id.
AuditRecords(planned) == [n \in 1..Len(planned) |-> planned[n].id]

OperationIds(planned) == [n \in 1..Len(planned) |-> planned[n].id]

Recorded == CASE sink = "none"   -> {}
              [] sink = "memory" -> ToSet(memory)
              [] sink = "sqlite" -> Keys(disk, "audit_records")

-----------------------------------------------------------------------------

EngineInit ==
    /\ sink \in {"none", "memory", "sqlite"}
    /\ installed \in ReleasesFor(sink)
    /\ call = Idle
    /\ calls = 0
    /\ memory = << >>
    /\ handed = << >>

InitAll == Init /\ EngineInit /\ (sink # "sqlite" => disk = Fresh)

\* curate: everything up to the audit records.
Curate(batch) ==
    /\ call = Idle
    /\ calls < MaxCalls
    /\ sink = "sqlite" => "audit" \in opened
    /\ call' = [batch    |-> batch,
                outcomes |-> Outcomes(batch, installed),
                left     |-> AuditRecords(Planned(batch, installed))]
    /\ calls' = calls + 1
    /\ UNCHANGED <<sink, installed, memory, handed, vars>>

\* One record goes to the in-memory sink; without a sink there is none to go.
AppendInMemory ==
    /\ call.left # << >>
    /\ sink # "sqlite"
    /\ memory' = IF sink = "memory" THEN Append(memory, Head(call.left)) ELSE memory
    /\ call' = [call EXCEPT !.left = Tail(@)]
    /\ UNCHANGED <<sink, installed, calls, handed, vars>>

\* Faulty variant: a record the sink refuses is passed over.
AppendOrSkip ==
    /\ call.left # << >>
    /\ sink = "sqlite"
    /\ RecordAudit(Head(call.left))
    /\ call' = [call EXCEPT !.left = Tail(@)]
    /\ UNCHANGED <<sink, installed, calls, memory, handed>>

\* One record goes to the SQLite sink.  When the sink raises, so does curate.
AppendDurably ==
    /\ call.left # << >>
    /\ sink = "sqlite"
    /\ RecordAudit(Head(call.left))
    /\ call' = IF disk' # disk THEN [call EXCEPT !.left = Tail(@)] ELSE Idle
    /\ UNCHANGED <<sink, installed, calls, memory, handed>>

\* All of them are recorded: curate returns the plan.
Return ==
    /\ call # Idle
    /\ call.left = << >>
    /\ handed' = handed \o OperationIds(Planned(call.batch, installed))
    /\ call' = Idle
    /\ UNCHANGED <<sink, installed, calls, memory, vars>>

\* The process ends, wherever it is, and one with another release may start.
Restart ==
    /\ IF opened # {} \/ inTx THEN Crash ELSE UNCHANGED vars
    /\ installed' \in ReleasesFor(sink)
    /\ call' = Idle
    /\ memory' = << >>
    /\ UNCHANGED <<sink, calls, handed>>

\* What else uses the connection, between two calls, or the file, at any time.
Others ==
    /\ sink = "sqlite"
    /\ \/ /\ call = Idle
          /\ \/ \E s \in Sinks : Open(s) \/ RefuseVersion(s)
             \/ \E id \in Executions : RecordExecution(id)
             \/ \E r \in Semantics : RecordSemantic(r)
             \/ CallerWrites \/ CallerCommits \/ CallerRollsBack
       \/ \E t \in Tables, w \in Writers : OtherWriter(t, w)
    /\ UNCHANGED engine

Step ==
    \/ \E batch \in Batches : Curate(batch)
    \/ AppendInMemory \/ AppendDurably \/ Return
    \/ Restart
    \/ Others

Behaviour == InitAll /\ [][Step]_allVars

-----------------------------------------------------------------------------
(* Properties                                                              *)

TypeOK ==
    /\ \A db \in {disk, work} :
         /\ db.version \in {0, SchemaVersion, SchemaVersion + 1}
         /\ db.own \in 0..MaxOwn
         /\ \A t \in Tables : db.guards[t] \subseteq Writers
         /\ \A s \in Sinks : Len(db.rows[RecordTable[s]]) \in 0..MaxRows
    /\ ~inTx => work = disk
    /\ opened \subseteq Sinks
    /\ Len(call.left) <= Len(call.batch)
    /\ installed \in Releases

\* What a candidate has to be for its operation to be planned, stated without
\* the three stages: admissible here, sure in every score, and either a new
\* entity no score speaks against or a fact about known identities whose link
\* is scored high (ADR-0022, issue #43).
Deserves(c) ==
    /\ c.graph # "malformed" /\ Home \in {"any", c.graph}
    /\ c.producer
    /\ c.version.strict
    /\ <<c.version.major, Max({c.version.minor, installed.minor})>>
         = <<installed.major, installed.minor>>
    /\ c.other = "AUTO"
    /\ \/ c.kind = "entity" /\ c.identity # "low"
       \/ c.kind = "relation" /\ {c.subject, c.object} = {"identity"} /\ c.identity = "high"
       \/ c.kind = "attribute_assertion" /\ c.subject = "identity" /\ c.value
              /\ c.identity = "high"

\* p has the elements of s at some positions, each once, in their order in s.
Selects(p, s, positions) ==
    \E at \in Surjection(DOMAIN p, positions) :
        /\ \A i, j \in DOMAIN p : i < j => at[i] < at[j]
        /\ \A i \in DOMAIN p : p[i] = s[at[i]]

\* The plan of a batch has the operations of the deserving candidates, all of
\* them and no other, in input order.
PlannedIsDeserving ==
    Selects(Planned(call.batch, installed), call.batch,
            {n \in DOMAIN call.batch : Deserves(call.batch[n])})

\* What the resolution facts do to a route only ever asks for more oversight.
RouteNeverLowered ==
    \A n \in DOMAIN call.outcomes :
        LET c == call.batch[n]
        IN  call.outcomes[n].route # "none" =>
                RouteSeverity[call.outcomes[n].route]
                    >= RouteSeverity[ConfidenceRoute(c, IdentityDisposition(c))]

\* With the durable sink an operation is handed to a caller at most once, over
\* repeated batches, batches that repeat a candidate, and restarts.
HandedOutOnce == sink = "sqlite" => IsInjective(handed)

\* No plan is returned before each of its operations has an audit record.
ReturnedIsAudited ==
    [][sink # "none" => ToSet(handed') \subseteq ToSet(handed) \cup Recorded]_allVars

\* A release with a newer minor that replaces the process in the middle of a
\* batch still accepts every candidate of it the older one accepted: the
\* ledger keeps the first row of a semantic key, so a candidate rejected after
\* an upgrade could never be submitted again.
UpgradeKeepsCandidates ==
    [][/\ installed'.major = installed.major
       /\ installed'.minor >= installed.minor
       => \A n \in 1..Len(call.batch) :
            Valid(call.batch[n], installed) => Valid(call.batch[n], installed')]_installed
=============================================================================
