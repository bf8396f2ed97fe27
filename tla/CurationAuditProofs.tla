------------------------ MODULE CurationAuditProofs ------------------------
(***************************************************************************)
(* For any batches, releases, callers, other writers and crashes: what the *)
(* pipeline plans and with how much oversight; what opening a sink leaves  *)
(* of the caller's transaction; which rows stand, which records are whole, *)
(* which are refused; that what is handed out is recorded, and only once.  *)
(***************************************************************************)
EXTENDS CurationAudit, NaturalRecursion

-----------------------------------------------------------------------------
(* The pipeline.                                                           *)

\* COMPATIBLE_MINOR: what fits a minor fits a larger one of the same major, and
\* no other rule looks at the release.
LEMMA NewerMinorAccepts ==
    ASSUME ~Exact, NEW c, c.version.minor \in Int, NEW old, NEW new,
           old.minor \in Int, new.minor \in Int,
           new.major = old.major, new.minor >= old.minor, Valid(c, old)
    PROVE  Valid(c, new)
  <1>1. ContractVersionRule(c, old) = {}
    BY DEF Valid, Violations
  <1>2. CompatibleMinor(c.version, old)
    BY <1>1 DEF ContractVersionRule
  <1>3. c.version.minor <= new.minor
    BY <1>2 DEF CompatibleMinor
  <1>4. CompatibleMinor(c.version, new)
    BY <1>2, <1>3 DEF CompatibleMinor
  <1>5. ContractVersionRule(c, new) = {}
    BY <1>4 DEF ContractVersionRule
  <1> QED BY <1>1, <1>5 DEF Valid, Violations

\* Whatever the disposition, the route the scores allow is kept or escalated.
LEMMA PolicyNeverLowers ==
    ASSUME NEW c, c.other \in Routes
    PROVE  RouteSeverity[Resolve(c).route]
               >= RouteSeverity[ConfidenceRoute(c, IdentityDisposition(c))]
  <1> DEFINE route == ConfidenceRoute(c, IdentityDisposition(c))
             raised == Escalate(route, "LLM_ASSESS")
  <1>1. route \in Routes
    BY DEF ConfidenceRoute, Routes
  <1>2. Resolve(c).route \in {route, raised}
    BY DEF Resolve
  <1>3. \A r \in Routes : RouteSeverity[r] \in Int
    BY DEF Routes, RouteSeverity
  <1>4. RouteSeverity[raised] >= RouteSeverity[route]
    BY <1>1, <1>3 DEF Escalate, Routes
  <1> HIDE DEF route, raised
  <1> QED BY <1>1, <1>2, <1>3, <1>4 DEF route

\* The planner builds an operation for the candidate.
Chosen(c, release) == Valid(c, release) /\ BuildsOperation(c, Resolve(c))

\* The steps of the planner's loop over a batch.
PlanLoop(loop, batch, release) ==
    /\ loop[0] = << >>
    /\ \A n \in Nat : loop[n + 1] = IF Chosen(batch[n + 1], release)
                                    THEN Append(loop[n], batch[n + 1]) ELSE loop[n]
    /\ Planned(batch, release) = loop[Len(batch)]

LEMMA PlannedIsTheLoop ==
    ASSUME NEW batch, NEW release, Len(batch) \in Nat
    PROVE  \E loop : PlanLoop(loop, batch, release)
  <1> DEFINE E == {batch[n] : n \in Nat}
             Build(n, p) == IF Chosen(batch[n + 1], release) THEN Append(p, batch[n + 1]) ELSE p
             step == [n \in Nat |-> [p \in Seq(E) |-> Build(n, p)]]
  <1>1. PICK f : IsIteration(f, Seq(E), << >>, step)
    <2>1. ASSUME NEW n \in Nat, NEW p \in Seq(E) PROVE Build(n, p) \in Seq(E)
      <3>1. batch[n + 1] \in E
        OBVIOUS
      <3> HIDE DEF E
      <3> QED BY <3>1
    <2>2. step \in [Nat -> [Seq(E) -> Seq(E)]]
      BY <2>1
    <2>3. << >> \in Seq(E)
      OBVIOUS
    <2> HIDE DEF step
    <2> QED BY <2>2, <2>3, IteratesExist
  <1>2. f \in [Nat -> Seq(E)] /\ f[0] = << >> /\ \A n \in Nat : f[n + 1] = Build(n, f[n])
    BY <1>1 DEF IsIteration
  <1> DEFINE Loop(planned) ==
                [n \in Nat |-> IF n = 0 THEN << >>
                               ELSE IF Valid(batch[n], release) /\ BuildsOperation(batch[n], Resolve(batch[n]))
                                    THEN Append(planned[n - 1], batch[n]) ELSE planned[n - 1]]
             g == CHOOSE planned : planned = Loop(planned)
  <1>3. f = Loop(f)
    <2>1. ASSUME NEW n \in Nat PROVE f[n] = Loop(f)[n]
      <3>1. CASE n = 0
        BY <1>2, <3>1
      <3>2. CASE n # 0
        <4>1. n - 1 \in Nat /\ (n - 1) + 1 = n
          BY <3>2
        <4>2. f[(n - 1) + 1] = Build(n - 1, f[n - 1])
          BY <1>2, <4>1
        <4> QED BY <3>2, <4>1, <4>2 DEF Chosen
      <3> QED BY <3>1, <3>2
    <2>2. f = [n \in Nat |-> f[n]]
      BY <1>2
    <2>3. [n \in Nat |-> f[n]] = Loop(f)
      BY <2>1
    <2> QED BY <2>2, <2>3
  <1>4. g = Loop(g)
    <2> HIDE DEF Loop
    <2> QED BY <1>3
  <1>5. Planned(batch, release) = g[Len(batch)]
    BY DEF Planned
  <1> HIDE DEF g
  <1>6. g[0] = << >>
    BY <1>4
  <1>7. ASSUME NEW n \in Nat PROVE g[n + 1] = Build(n, g[n])
    <2>1. n + 1 \in Nat /\ n + 1 # 0 /\ (n + 1) - 1 = n
      OBVIOUS
    <2> QED BY <1>4, <2>1 DEF Chosen
  <1> QED BY <1>5, <1>6, <1>7 DEF PlanLoop

\* The plan is the batch without the candidates that were not chosen.
LEMMA PlanSelects ==
    ASSUME NEW batch, NEW release, batch \in Seq(ToSet(batch))
    PROVE  /\ Planned(batch, release) \in Seq(ToSet(batch))
           /\ Len(Planned(batch, release)) <= Len(batch)
           /\ Selects(Planned(batch, release), batch,
                      {n \in 1..Len(batch) : Chosen(batch[n], release)})
  <1> DEFINE N == Len(batch)
             E == ToSet(batch)
             At(n) == {m \in 1..n : Chosen(batch[m], release)}
  <1>1. N \in Nat /\ batch \in Seq(E) /\ \A n \in 1..N : batch[n] \in E
    OBVIOUS
  <1>2. PICK loop : PlanLoop(loop, batch, release)
    BY <1>1, PlannedIsTheLoop
  <1> HIDE DEF E
  <1> DEFINE Holds(n) == /\ loop[n] \in Seq(E)
                         /\ Len(loop[n]) <= n
                         /\ Selects(loop[n], batch, At(n))
             T == {n \in Nat : n <= N => Holds(n)}
  <1>3. 0 \in T
    <2>1. loop[0] = << >>
      BY <1>2 DEF PlanLoop
    <2>2. At(0) = {}
      OBVIOUS
    <2>3. << >> \in Surjection(DOMAIN << >>, {})
      BY DEF Surjection
    <2>4. Selects(<< >>, batch, {})
      BY <2>3 DEF Selects
    <2>5. << >> \in Seq(E) /\ Len(<< >>) <= 0
      OBVIOUS
    <2> QED BY <2>1, <2>2, <2>4, <2>5
  <1>4. ASSUME NEW n \in T PROVE n + 1 \in T
    <2> SUFFICES ASSUME n + 1 <= N PROVE Holds(n + 1)
      OBVIOUS
    <2> DEFINE p == loop[n]
               c == batch[n + 1]
    <2>1. n \in Nat /\ Holds(n) /\ c \in E
      BY <1>1
    <2>2. p \in Seq(E) /\ Len(p) <= n /\ Selects(p, batch, At(n)) /\ Len(p) \in Nat
          /\ DOMAIN p = 1..Len(p)
      BY <2>1
    <2>3. loop[n + 1] = IF Chosen(c, release) THEN Append(p, c) ELSE p
      BY <1>2 DEF PlanLoop
    <2>4. CASE ~Chosen(c, release)
      <3>1. At(n + 1) = At(n)
        BY <2>1, <2>4
      <3> HIDE DEF At, p, c
      <3> QED BY <2>1, <2>2, <2>3, <2>4, <3>1
    <2>5. CASE Chosen(c, release)
      <3>1. At(n + 1) = At(n) \cup {n + 1} /\ \A m \in At(n) : m \in 1..n
        BY <2>1, <2>5
      <3>2. PICK at \in Surjection(DOMAIN p, At(n)) :
              /\ \A i, j \in DOMAIN p : i < j => at[i] < at[j]
              /\ \A i \in DOMAIN p : p[i] = batch[at[i]]
        BY <2>2 DEF Selects
      <3> HIDE DEF At, p
      <3> DEFINE q == Append(p, c)
                 k == Len(p) + 1
                 more == [i \in 1..k |-> IF i = k THEN n + 1 ELSE at[i]]
      <3>3. q \in Seq(E) /\ Len(q) = k /\ DOMAIN q = 1..k /\ k \in Nat
            /\ q[k] = c /\ \A i \in 1..Len(p) : q[i] = p[i]
        BY <2>1, <2>2
      <3>4. at \in [1..Len(p) -> At(n)] /\ \A m \in At(n) : \E i \in 1..Len(p) : at[i] = m
        BY <2>2, <3>2 DEF Surjection
      <3>5. \A i \in 1..k : i # k => i \in 1..Len(p)
        BY <2>2
      <3> HIDE DEF q
      <3>6. more \in [1..k -> At(n + 1)]
        BY <2>2, <3>1, <3>4, <3>5
      <3>7. ASSUME NEW m \in At(n + 1) PROVE \E i \in 1..k : more[i] = m
        <4>1. CASE m = n + 1
          <5>1. k \in 1..k
            BY <2>2
          <5> QED BY <4>1, <5>1
        <4>2. CASE m \in At(n)
          <5>1. PICK i \in 1..Len(p) : at[i] = m
            BY <3>4, <4>2
          <5>2. i \in 1..k /\ i # k
            BY <2>2
          <5> QED BY <5>1, <5>2
        <4> QED BY <3>1, <4>1, <4>2
      <3>8. ASSUME NEW i \in 1..k, NEW j \in 1..k, i < j PROVE more[i] < more[j]
        <4>1. i \in 1..Len(p) /\ i # k
          BY <2>2, <3>8
        <4>2. at[i] \in 1..n
          BY <3>1, <3>4, <4>1
        <4>3. CASE j = k
          BY <2>1, <4>1, <4>2, <4>3
        <4>4. CASE j # k
          BY <2>2, <3>2, <3>5, <3>8, <4>1, <4>4
        <4> QED BY <4>3, <4>4
      <3>9. ASSUME NEW i \in 1..k PROVE q[i] = batch[more[i]]
        BY <2>2, <3>2, <3>3, <3>5
      <3>10. more \in Surjection(DOMAIN q, At(n + 1))
        BY <3>3, <3>6, <3>7 DEF Surjection
      <3> HIDE DEF more
      <3>11. Selects(q, batch, At(n + 1))
        BY <3>3, <3>8, <3>9, <3>10 DEF Selects
      <3>12. Len(q) <= n + 1
        BY <2>1, <2>2, <3>3
      <3>13. loop[n + 1] = q
        BY <2>3, <2>5 DEF q
      <3> QED BY <3>3, <3>11, <3>12, <3>13
    <2> QED BY <2>4, <2>5
  <1>5. T \in SUBSET Nat
    OBVIOUS
  <1> HIDE DEF T
  <1>6. T = Nat
    BY <1>3, <1>4, <1>5, NaturalsByInduction
  <1>7. N \in T
    BY <1>1, <1>6
  <1>8. Holds(N)
    BY <1>1, <1>7 DEF T
  <1> QED BY <1>2, <1>8 DEF PlanLoop, E

LEMMA PlanOfNothing == \A release : Planned(<< >>, release) = << >>
  <1> TAKE release
  <1>1. << >> \in Seq(ToSet(<< >>)) /\ Len(<< >>) = 0
    OBVIOUS
  <1>2. Planned(<< >>, release) \in Seq(ToSet(<< >>)) /\ Len(Planned(<< >>, release)) <= 0
    BY <1>1, PlanSelects
  <1> QED BY <1>2

\* A candidate is chosen if and only if it deserves to be: the three stages
\* together say what ADR-0022 says at once.
LEMMA ChosenIsDeserving ==
    ASSUME ~Exact, NEW c, IsCandidate(c), installed.minor \in Int
    PROVE  Chosen(c, installed) <=> Deserves(c)
  <1> DEFINE v == c.version
             larger == Max({v.minor, installed.minor})
  <1>1. v.minor \in Int /\ (larger = installed.minor <=> v.minor <= installed.minor)
    <2>1. v.minor \in Int
      BY DEF IsCandidate
    <2>2. larger = IF v.minor <= installed.minor THEN installed.minor ELSE v.minor
      <3> DEFINE S == {v.minor, installed.minor}
      <3>1. larger = CHOOSE x \in S : \A y \in S : x >= y
        BY DEF Max
      <3>2. \A x \in S : (\A y \in S : x >= y) =>
               x = IF v.minor <= installed.minor THEN installed.minor ELSE v.minor
        BY <2>1
      <3>3. \E x \in S : \A y \in S : x >= y
        BY <2>1
      <3> HIDE DEF S, larger
      <3> QED BY <3>1, <3>2, <3>3
    <2> HIDE DEF larger
    <2> QED BY <2>1, <2>2
  <1>2. Valid(c, installed) <=>
           /\ c.kind \in ImplementedKinds
           /\ c.graph # "malformed" /\ Home \in {"any", c.graph}
           /\ c.producer
           /\ v.strict /\ <<v.major, larger>> = <<installed.major, installed.minor>>
    <2>1. Valid(c, installed) <=>
             /\ SupportedKindRule(c) = {} /\ GraphIdWellFormedRule(c) = {}
             /\ ProducerPresentRule(c) = {} /\ GraphScopeRule(c) = {}
             /\ ContractVersionRule(c, installed) = {}
      BY DEF Valid, Violations
    <2>2. SupportedKindRule(c) = {} <=> c.kind \in ImplementedKinds
      BY DEF SupportedKindRule
    <2>3. GraphIdWellFormedRule(c) = {} <=> c.graph # "malformed"
      BY DEF GraphIdWellFormedRule
    <2>4. ProducerPresentRule(c) = {} <=> c.producer
      BY DEF ProducerPresentRule, IsCandidate
    <2>5. GraphScopeRule(c) = {} <=> Home \in {"any", c.graph}
      BY DEF GraphScopeRule
    <2>6. ContractVersionRule(c, installed) = {} <=>
             v.strict /\ <<v.major, larger>> = <<installed.major, installed.minor>>
      <3> HIDE DEF larger
      <3> QED BY <1>1 DEF ContractVersionRule, CompatibleMinor, IsCandidate
    <2> HIDE DEF larger
    <2> QED BY <2>1, <2>2, <2>3, <2>4, <2>5, <2>6
  <1>3. BuildsOperation(c, Resolve(c)) <=>
           /\ c.other = "AUTO"
           /\ \/ c.kind = "entity" /\ c.identity # "low"
              \/ c.kind = "relation" /\ {c.subject, c.object} = {"identity"} /\ c.identity = "high"
              \/ c.kind = "attribute_assertion" /\ c.subject = "identity" /\ c.value
                     /\ c.identity = "high"
    <2>1. CASE c.kind = "entity"
      <3>1. IdentityDisposition(c) = "NEW_IDENTITY"
        BY <2>1 DEF IdentityDisposition
      <3>2. ConfidenceRoute(c, "NEW_IDENTITY") = "AUTO" <=> c.other = "AUTO" /\ c.identity # "low"
        BY DEF ConfidenceRoute, IsCandidate
      <3>3. /\ Resolve(c).route = ConfidenceRoute(c, "NEW_IDENTITY")
            /\ Resolve(c).resolved = (Resolve(c).route = "AUTO")
            /\ Resolve(c).mints = (Resolve(c).route = "AUTO")
        BY <2>1, <3>1 DEF Resolve
      <3> QED BY <2>1, <3>2, <3>3 DEF BuildsOperation, CreatesIdentity, AttachesAttribute, AttachesRelation
    <2>2. CASE c.kind = "relation"
      <3>1. SubjectRefs(c) = <<c.subject, c.object>> /\ SubjectRefs(c) # << >>
        BY <2>2 DEF SubjectRefs
      <3>2. AllKnown(c) <=> c.subject = "identity" /\ c.object = "identity"
        BY <3>1 DEF AllKnown
      <3>3. ConfidenceRoute(c, "RESOLVED_EXISTING") = "AUTO" <=> c.other = "AUTO" /\ c.identity = "high"
        BY DEF ConfidenceRoute, IsCandidate
      <3>4. /\ AllKnown(c) => /\ Resolve(c).route = ConfidenceRoute(c, "RESOLVED_EXISTING")
                              /\ Resolve(c).resolved = TRUE
            /\ ~AllKnown(c) => Resolve(c).resolved = FALSE
        BY <2>2, <3>1 DEF Resolve, IdentityDisposition
      <3>5. {c.subject, c.object} = {"identity"} <=> AllKnown(c)
        BY <3>2
      <3> QED BY <2>2, <3>2, <3>3, <3>4, <3>5
              DEF BuildsOperation, CreatesIdentity, AttachesAttribute, AttachesRelation
    <2>3. CASE c.kind = "attribute_assertion"
      <3>1. SubjectRefs(c) = <<c.subject>> /\ SubjectRefs(c) # << >>
        BY <2>3 DEF SubjectRefs
      <3>2. AllKnown(c) <=> c.subject = "identity"
        BY <3>1 DEF AllKnown
      <3>3. ConfidenceRoute(c, "RESOLVED_EXISTING") = "AUTO" <=> c.other = "AUTO" /\ c.identity = "high"
        BY DEF ConfidenceRoute, IsCandidate
      <3>4. /\ AllKnown(c) => /\ Resolve(c).route = ConfidenceRoute(c, "RESOLVED_EXISTING")
                              /\ Resolve(c).resolved = TRUE
            /\ ~AllKnown(c) => Resolve(c).resolved = FALSE
        BY <2>3, <3>1 DEF Resolve, IdentityDisposition
      <3> QED BY <2>3, <3>2, <3>3, <3>4
              DEF BuildsOperation, CreatesIdentity, AttachesAttribute, AttachesRelation
    <2>4. CASE c.kind \notin {"entity", "relation", "attribute_assertion"}
      BY <2>4 DEF BuildsOperation, CreatesIdentity, AttachesAttribute, AttachesRelation
    <2> QED BY <2>1, <2>2, <2>3, <2>4
  <1> HIDE DEF larger
  <1> QED BY <1>2, <1>3 DEF Chosen, Deserves, ImplementedKinds, larger

-----------------------------------------------------------------------------
(* The call in progress: a batch some caller gave, decided under the       *)
(* release that runs.                                                      *)

AnyBatch == MemoryBatches \cup SqliteBatches \cup {<< >>}

LEMMA BatchesAreSequences ==
    ASSUME NEW batch \in AnyBatch
    PROVE  /\ batch \in Seq(ToSet(batch))
           /\ DOMAIN batch = 1..Len(batch) /\ Len(batch) \in Nat
           /\ \A n \in 1..Len(batch) : IsCandidate(batch[n])
  <1>1. CASE batch = << >>
    BY <1>1
  <1>2. CASE batch # << >>
    BY <1>2, CurationConstants DEF AnyBatch
  <1> QED BY <1>1, <1>2

CandidateIds ==
    UNION {{batch[n].id : n \in 1..Len(batch)} : batch \in AnyBatch}

\* An audit record has the id of a candidate some batch has.
LEMMA RecordsOfAPlan ==
    ASSUME NEW batch \in AnyBatch, NEW release
    PROVE  /\ AuditRecords(Planned(batch, release)) \in Seq(CandidateIds)
           /\ OperationIds(Planned(batch, release)) = AuditRecords(Planned(batch, release))
           /\ Len(AuditRecords(Planned(batch, release))) <= Len(batch)
  <1> DEFINE p == Planned(batch, release)
             a == AuditRecords(p)
             own == {batch[n].id : n \in 1..Len(batch)}
  <1>1. batch \in Seq(ToSet(batch))
    BY BatchesAreSequences
  <1>2. p \in Seq(ToSet(batch)) /\ Len(p) <= Len(batch)
    BY <1>1, PlanSelects
  <1>3. own \subseteq CandidateIds
    BY DEF CandidateIds
  <1> HIDE DEF p
  <1>4. Len(p) \in Nat /\ a = [n \in 1..Len(p) |-> p[n].id] /\ OperationIds(p) = a
    BY <1>2 DEF AuditRecords, OperationIds
  <1>5. ASSUME NEW n \in 1..Len(p) PROVE p[n].id \in CandidateIds
    <2>1. p[n] \in ToSet(batch)
      BY <1>2
    <2>2. PICK m \in 1..Len(batch) : p[n] = batch[m]
      BY <1>1, <2>1 DEF ToSet
    <2> QED BY <1>3, <2>2
  <1> HIDE DEF a
  <1>6. a \in Seq(CandidateIds) /\ Len(a) = Len(p)
    <2> HIDE DEF CandidateIds
    <2> QED BY <1>4, <1>5
  <1> QED BY <1>2, <1>4, <1>6 DEF p, a

DecidedHere ==
    /\ installed \in Releases
    /\ DOMAIN call = {"batch", "outcomes", "left"}
    /\ call.batch \in AnyBatch
    /\ call.outcomes \in {<< >>, Outcomes(call.batch, installed)}
    /\ call.left \in Seq(CandidateIds)
    /\ Len(call.left) <= Len(call.batch)

LEMMA SomeRelease ==
    ASSUME NEW s
    PROVE  ReleasesFor(s) \subseteq Releases
  BY CurationConstants DEF ReleasesFor

LEMMA IdleIsDecided ==
    /\ DOMAIN Idle = {"batch", "outcomes", "left"}
    /\ Idle.batch \in AnyBatch /\ Idle.outcomes = << >>
    /\ Idle.left \in Seq(CandidateIds) /\ Len(Idle.left) <= Len(Idle.batch)
  <1>1. Idle.left = << >> /\ Idle.batch = << >> /\ Idle.outcomes = << >>
        /\ DOMAIN Idle = {"batch", "outcomes", "left"}
    BY DEF Idle
  <1> QED BY <1>1 DEF AnyBatch

LEMMA DecidedNext ==
    ASSUME DecidedHere, [Step]_allVars
    PROVE  DecidedHere'
  <1>1. CASE UNCHANGED <<installed, call>>
    BY <1>1 DEF DecidedHere
  <1>2. CASE installed' \in Releases /\ call' = Idle
    BY <1>2, IdleIsDecided DEF DecidedHere
  <1>3. CASE installed' = installed /\ call' = [call EXCEPT !.left = Tail(@)] /\ call.left # << >>
    <2>1. Tail(call.left) \in Seq(CandidateIds) /\ Len(Tail(call.left)) <= Len(call.batch)
      <3>1. call.left \in Seq(CandidateIds) /\ Len(call.left) <= Len(call.batch)
        BY DEF DecidedHere
      <3>2. Len(call.batch) \in Nat
        BY BatchesAreSequences DEF DecidedHere
      <3> QED BY <1>3, <3>1, <3>2
    <2>2. /\ DOMAIN call' = {"batch", "outcomes", "left"} /\ call'.left = Tail(call.left)
          /\ call'.batch = call.batch /\ call'.outcomes = call.outcomes
      BY <1>3 DEF DecidedHere
    <2> QED BY <1>3, <2>1, <2>2 DEF DecidedHere
  <1>4. ASSUME NEW batch \in Batches, Curate(batch) PROVE DecidedHere'
    <2>1. batch \in AnyBatch
      BY DEF Batches, AnyBatch
    <2> DEFINE outcomes == Outcomes(batch, installed)
               left == AuditRecords(Planned(batch, installed))
    <2>2. call' = [batch |-> batch, outcomes |-> outcomes, left |-> left]
          /\ installed' = installed
      BY <1>4 DEF Curate
    <2>3. outcomes = Outcomes(batch, installed)
      OBVIOUS
    <2> HIDE DEF outcomes, left
    <2>4. /\ DOMAIN call' = {"batch", "outcomes", "left"}
          /\ call'.batch = batch /\ call'.outcomes = outcomes /\ call'.left = left
      BY <2>2
    <2>5. call'.outcomes = Outcomes(call'.batch, installed')
      BY <2>2, <2>3, <2>4
    <2>6. left \in Seq(CandidateIds) /\ Len(left) <= Len(batch)
      BY <2>1, RecordsOfAPlan DEF left
    <2> QED BY <2>1, <2>2, <2>4, <2>5, <2>6 DEF DecidedHere
  <1>5. CASE AppendInMemory
    BY <1>3, <1>5 DEF AppendInMemory
  <1>6. CASE AppendDurably
    BY <1>2, <1>3, <1>6 DEF AppendDurably, DecidedHere
  <1>7. CASE Return
    BY <1>2, <1>7 DEF Return, DecidedHere
  <1>8. CASE Restart
    BY <1>2, <1>8, SomeRelease DEF Restart
  <1>9. CASE Others
    BY <1>1, <1>9 DEF Others, engine
  <1> QED
    BY <1>1, <1>4, <1>5, <1>6, <1>7, <1>8, <1>9 DEF Step, allVars, engine

LEMMA BehaviourDecides == Behaviour => []DecidedHere
  <1>1. InitAll => DecidedHere
    BY IdleIsDecided, SomeRelease DEF InitAll, EngineInit, DecidedHere
  <1>2. DecidedHere /\ [Step]_allVars => DecidedHere'
    BY DecidedNext
  <1> QED BY <1>1, <1>2, PTL DEF Behaviour

\* _escalate returns "the more conservative" route (policy.py): no candidate of
\* any batch gets a route with less oversight than its scores ask for.
THEOREM OversightOnlyGrows == Behaviour => []RouteNeverLowered
  <1>1. ASSUME DecidedHere, NEW n \in DOMAIN call.outcomes,
               call.outcomes[n].route # "none"
        PROVE  RouteSeverity[call.outcomes[n].route]
                   >= RouteSeverity[ConfidenceRoute(call.batch[n], IdentityDisposition(call.batch[n]))]
    <2> DEFINE c == call.batch[n]
    <2>1. call.outcomes = Outcomes(call.batch, installed)
      BY <1>1 DEF DecidedHere
    <2>2. n \in 1..Len(call.batch) /\ call.outcomes[n] = Outcome(c, installed)
      BY <1>1, <2>1 DEF Outcomes
    <2>3. call.outcomes[n].route = Resolve(c).route
      BY <1>1, <2>2 DEF Outcome
    <2>4. c.other \in Routes
      BY <1>1, <2>2, BatchesAreSequences DEF DecidedHere, IsCandidate
    <2> HIDE DEF c
    <2> QED BY <2>3, <2>4, PolicyNeverLowers DEF c
  <1>2. DecidedHere => RouteNeverLowered
    BY <1>1 DEF RouteNeverLowered
  <1> QED BY <1>2, BehaviourDecides, PTL

\* "Anything not routed AUTO is deferred" (planner.py): the plan of every batch
\* has an operation for each candidate that ADR-0022 lets through, for no other,
\* and in the order of the batch.
THEOREM PlansAreDeserved ==
    ASSUME ~Exact
    PROVE  Behaviour => []PlannedIsDeserving
  <1>1. DecidedHere => PlannedIsDeserving
    <2> SUFFICES ASSUME DecidedHere PROVE PlannedIsDeserving
      OBVIOUS
    <2> DEFINE batch == call.batch
    <2>1. batch \in Seq(ToSet(batch)) /\ DOMAIN batch = 1..Len(batch)
          /\ \A n \in 1..Len(batch) : IsCandidate(batch[n])
      BY BatchesAreSequences DEF DecidedHere
    <2>2. installed.minor \in Int
      BY CurationConstants DEF DecidedHere
    <2> HIDE DEF batch
    <2>3. \A n \in 1..Len(batch) : Chosen(batch[n], installed) <=> Deserves(batch[n])
      BY <2>1, <2>2, ChosenIsDeserving
    <2>4. {n \in 1..Len(batch) : Chosen(batch[n], installed)} = {n \in DOMAIN batch : Deserves(batch[n])}
      BY <2>1, <2>3
    <2>5. Selects(Planned(batch, installed), batch, {n \in DOMAIN batch : Deserves(batch[n])})
      BY <2>1, <2>4, PlanSelects
    <2> QED BY <2>5 DEF PlannedIsDeserving, batch
  <1> QED BY <1>1, BehaviourDecides, PTL

\* Under COMPATIBLE_MINOR an upgrade in the middle of a batch rejects nothing of
\* it that was accepted before.
THEOREM UpgradesKeepCandidates ==
    ASSUME ~Exact
    PROVE  Behaviour => UpgradeKeepsCandidates
  <1> DEFINE Kept ==
        installed'.major = installed.major /\ installed'.minor >= installed.minor
        => \A n \in 1..Len(call.batch) :
              Valid(call.batch[n], installed) => Valid(call.batch[n], installed')
  <1>1. ASSUME DecidedHere, DecidedHere' PROVE Kept
    <2> SUFFICES ASSUME installed'.major = installed.major,
                        installed'.minor >= installed.minor,
                        NEW n \in 1..Len(call.batch), Valid(call.batch[n], installed)
                 PROVE  Valid(call.batch[n], installed')
      OBVIOUS
    <2>1. installed.minor \in Int /\ installed'.minor \in Int
      BY <1>1, CurationConstants DEF DecidedHere
    <2>2. call.batch[n].version.minor \in Int
      BY <1>1, BatchesAreSequences DEF DecidedHere, IsCandidate
    <2> QED BY <2>1, <2>2, NewerMinorAccepts
  <1>2. DecidedHere /\ DecidedHere' /\ [Step]_allVars => [Kept]_installed
    BY <1>1
  <1> QED BY <1>2, BehaviourDecides, PTL DEF Behaviour, UpgradeKeepsCandidates

-----------------------------------------------------------------------------
(* The database.  Every table has all its guards, those of before #55, or  *)
(* does not exist; the connection never shows rows that are not on disk,   *)
(* for a record is committed or undone before anything else happens.       *)

DatabaseFields == {"version", "guards", "rows", "own"}

Known == Semantics \cup {Old}

ReferencesOf(r, t) == {<<r.id, ref>> : ref \in RefsOf(r, t)}

References == UNION {ReferencesOf(r, t) : r \in Known, t \in RefTables}

\* What a row of some table may hold.
Cells == CandidateIds \cup Executions \cup {r.id : r \in Known} \cup References \cup {Forged}

Database(db) ==
    /\ DOMAIN db = DatabaseFields
    /\ db.version \in {0, SchemaVersion, SchemaVersion + 1}
    /\ db.own \in 0..MaxOwn
    /\ \A t \in Tables : db.guards[t] \in {{}, GuardsBefore55(t), Guards(t)}
    /\ db.rows \in [Tables -> Seq(Cells)]
    /\ \A t \in Tables : db.guards[t] = {} => db.rows[t] = << >>
    /\ \A s \in Sinks : Len(db.rows[RecordTable[s]]) <= MaxRows

Store ==
    /\ Database(disk)
    /\ Database(work)
    /\ work.rows = disk.rows
    /\ ~inTx => work = disk
    /\ inTx \in BOOLEAN
    /\ opened \subseteq Sinks

\* What a sink writes: one row of its table of records, and rows of no table but
\* its own.
IsBatch(s, rows) ==
    /\ rows \in [Tables -> Seq(Cells)]
    /\ \A t \in Tables \ TablesOf(s) : rows[t] = << >>
    /\ Len(rows[RecordTable[s]]) = 1

LEMMA TheTables ==
    /\ \A s \in Sinks : RecordTable[s] \in TablesOf(s) /\ TablesOf(s) \subseteq Tables
    /\ \A s \in Sinks, u \in Sinks : s # u => RecordTable[u] \notin TablesOf(s)
    /\ \A s \in Sinks : RecordTable[s] \notin RefTables
    /\ RefTables \subseteq Tables
  BY DEF Sinks, RecordTable, TablesOf, Tables, RefTables

LEMMA TheGuards ==
    ASSUME NEW t \in Tables
    PROVE  /\ GuardsBefore55(t) \subseteq Guards(t) /\ Guards(t) \subseteq Writers
           /\ Guards(t) # {} /\ GuardsBefore55(t) # {}
           /\ \A w \in Writers \ GuardsBefore55(t) :
                 w # "key" \/ t # "execution_records" => t \in RefTables /\ w = "rowid"
           /\ t # "execution_records" => "key" \in GuardsBefore55(t)
           /\ t = "execution_records" => "key" \notin Guards(t)
  BY DEF GuardsBefore55, Guards, Writers, Tables, RefTables

LEMMA TheBounds == MaxRows \in Nat /\ 1 <= MaxRows /\ MaxOwn \in Nat
  BY StoreConstants

LEMMA ShortSequences == << >> \in Seq(Cells) /\ \A x \in Cells : <<x>> \in Seq(Cells)
  OBVIOUS

LEMMA NothingInserted == NoRows \in [Tables -> Seq(Cells)] /\ \A t \in Tables : NoRows[t] = << >>
  BY DEF NoRows

\* Each value once, and every value.
LEMMA UniqueValues ==
    ASSUME NEW values, values \in Seq(ToSet(values))
    PROVE  /\ Unique(values) \in Seq(ToSet(values))
           /\ IsInjective(Unique(values))
           /\ ToSet(Unique(values)) = ToSet(values)
  <1> DEFINE S == ToSet(values)
             N == Cardinality(S)
  <1>1. IsFiniteSet(S)
    <2>1. IsFiniteSet(1..Len(values))
      BY FS_Interval
    <2>2. values \in Surjection(1..Len(values), S)
      <3>1. values \in [1..Len(values) -> S]
        OBVIOUS
      <3>2. S = {values[n] : n \in 1..Len(values)}
        BY <3>1 DEF ToSet
      <3> HIDE DEF S
      <3> QED BY <3>1, <3>2 DEF Surjection
    <2> QED BY <2>1, <2>2, FS_Surjection
  <1>2. N \in Nat /\ ExistsBijection(1..N, S)
    <2> HIDE DEF S
    <2> QED BY <1>1, FS_CardinalityType, FS_NatBijection
  <1> HIDE DEF S, N
  <1>3. PICK f : f \in Bijection(1..N, S)
    BY <1>2, Zenon DEF ExistsBijection
  <1>4. f \in [1..N -> S] /\ IsInjective(f)
    BY <1>3 DEF Bijection, Injection
  <1> DEFINE u == Unique(values)
  <1>5. u \in [1..N -> S] /\ IsInjective(u)
    <2>1. u = CHOOSE g \in [1..N -> S] : IsInjective(g)
      BY DEF Unique, SetToSeq, S, N
    <2> HIDE DEF u
    <2> QED BY <1>4, <2>1
  <1> HIDE DEF u
  <1>6. u \in Seq(S)
    BY <1>2, <1>5
  <1>7. ToSet(u) = S
    <2>1. ToSet(u) \subseteq S
      BY <1>5 DEF ToSet
    <2>2. IsFiniteSet(1..N) /\ Cardinality(1..N) = N
      BY <1>2, FS_Interval
    <2>3. ASSUME NEW v \in S, v \notin ToSet(u) PROVE FALSE
      <3>1. u \in [1..N -> S \ {v}]
        BY <1>5, <2>3 DEF ToSet
      <3>2. IsFiniteSet(S \ {v}) /\ Cardinality(S \ {v}) = N - 1
        BY <1>1, FS_RemoveElement DEF N
      <3>3. \E i, j \in 1..N : i # j /\ u[i] = u[j]
        BY <1>2, <2>2, <3>1, <3>2, FS_PigeonHole
      <3> QED BY <1>5, <3>3 DEF IsInjective
    <2> QED BY <2>1, <2>3
  <1> QED BY <1>5, <1>6, <1>7 DEF u, S

\* The references of a record go in once each.
LEMMA RowsOfReferences ==
    ASSUME NEW r \in Known, NEW t \in RefTables,
           NEW values, values = IF t = "semantic_audit_assertions" THEN r.assertions ELSE r.operations
    PROVE  /\ RefRows(r.id, values) \in Seq(ReferencesOf(r, t))
           /\ IsInjective(RefRows(r.id, values))
           /\ ToSet(RefRows(r.id, values)) = ReferencesOf(r, t)
  <1> DEFINE u == Unique(values)
             rows == RefRows(r.id, values)
  <1>1. values \in Seq(ToSet(values)) /\ ToSet(values) = RefsOf(r, t)
    BY StoreConstants DEF Known, RefsOf, RefTables
  <1>2. u \in Seq(RefsOf(r, t)) /\ IsInjective(u) /\ ToSet(u) = RefsOf(r, t)
    BY <1>1, UniqueValues
  <1>3. rows = [n \in 1..Len(u) |-> <<r.id, u[n]>>]
    BY DEF RefRows
  <1> HIDE DEF u, rows
  <1>4. Len(u) \in Nat /\ DOMAIN u = 1..Len(u) /\ \A n \in 1..Len(u) : u[n] \in RefsOf(r, t)
    BY <1>2
  <1>5. rows \in Seq(ReferencesOf(r, t))
    BY <1>3, <1>4 DEF ReferencesOf
  <1>6. DOMAIN rows = 1..Len(u) /\ \A n \in 1..Len(u) : rows[n] = <<r.id, u[n]>>
    BY <1>3
  <1>7. IsInjective(rows)
    BY <1>2, <1>4, <1>6 DEF IsInjective
  <1>8. ToSet(rows) = {<<r.id, ref>> : ref \in ToSet(u)}
    BY <1>4, <1>6 DEF ToSet
  <1> QED BY <1>2, <1>5, <1>7, <1>8 DEF rows, ReferencesOf

LEMMA RowsOfASemanticRecord ==
    ASSUME NEW r \in Known
    PROVE  /\ IsBatch("semantic", SemanticRows(r))
           /\ SemanticRows(r)["semantic_audit_records"] = <<r.id>>
           /\ \A t \in RefTables :
                /\ IsInjective(SemanticRows(r)[t])
                /\ ToSet(SemanticRows(r)[t]) = ReferencesOf(r, t)
  <1> DEFINE rows == SemanticRows(r)
  <1>1. /\ rows["semantic_audit_records"] = <<r.id>>
        /\ rows["semantic_audit_assertions"] = RefRows(r.id, r.assertions)
        /\ rows["semantic_audit_operations"] = RefRows(r.id, r.operations)
        /\ rows["audit_records"] = << >> /\ rows["execution_records"] = << >>
        /\ rows = [t \in Tables |-> rows[t]]
    BY DEF SemanticRows, NoRows, Tables
  <1> HIDE DEF rows
  <1>2. ASSUME NEW t \in RefTables
        PROVE  /\ rows[t] \in Seq(ReferencesOf(r, t))
               /\ IsInjective(rows[t])
               /\ ToSet(rows[t]) = ReferencesOf(r, t)
    <2>1. rows[t] = RefRows(r.id, IF t = "semantic_audit_assertions" THEN r.assertions ELSE r.operations)
      BY <1>1 DEF RefTables
    <2> QED BY <2>1, RowsOfReferences
  <1>3. ASSUME NEW t \in Tables PROVE rows[t] \in Seq(Cells)
    <2>1. CASE t \in RefTables
      <3>1. ReferencesOf(r, t) \subseteq References
        BY <2>1 DEF References
      <3>2. ReferencesOf(r, t) \subseteq Cells
        BY <3>1 DEF Cells
      <3> QED BY <1>2, <2>1, <3>2
    <2>2. CASE t = "semantic_audit_records"
      <3>1. r.id \in Cells
        BY DEF Cells
      <3> QED BY <1>1, <2>2, <3>1, ShortSequences
    <2>3. CASE t \in {"audit_records", "execution_records"}
      BY <1>1, <2>3, ShortSequences
    <2> QED BY <2>1, <2>2, <2>3 DEF Tables, RefTables
  <1>4. rows \in [Tables -> Seq(Cells)]
    BY <1>1, <1>3
  <1>5. \A t \in Tables \ TablesOf("semantic") : rows[t] = << >>
    BY <1>1 DEF Tables, TablesOf, RefTables
  <1>6. Len(rows[RecordTable["semantic"]]) = 1
    BY <1>1 DEF RecordTable
  <1> QED BY <1>1, <1>2, <1>4, <1>5, <1>6 DEF IsBatch, rows

LEMMA RowsOfAnAuditRecord ==
    ASSUME NEW id \in CandidateIds
    PROVE  IsBatch("audit", AuditRows(id)) /\ AuditRows(id)["audit_records"] = <<id>>
  <1>1. id \in Cells
    BY DEF Cells
  <1> DEFINE rows == AuditRows(id)
  <1>2. /\ rows["audit_records"] = <<id>>
        /\ \A t \in Tables : t # "audit_records" => rows[t] = << >>
        /\ rows = [t \in Tables |-> rows[t]]
    BY DEF AuditRows, NoRows, Tables
  <1> HIDE DEF rows
  <1>3. \A t \in Tables : rows[t] \in Seq(Cells)
    BY <1>1, <1>2, ShortSequences
  <1>4. rows \in [Tables -> Seq(Cells)]
    BY <1>2, <1>3
  <1> QED BY <1>2, <1>4 DEF IsBatch, RecordTable, TablesOf, rows

LEMMA RowsOfAnExecutionRecord ==
    ASSUME NEW id \in Executions
    PROVE  IsBatch("execution", ExecutionRows(id))
  <1>1. id \in Cells
    BY DEF Cells
  <1> DEFINE rows == ExecutionRows(id)
  <1>2. /\ rows["execution_records"] = <<id>>
        /\ \A t \in Tables : t # "execution_records" => rows[t] = << >>
        /\ rows = [t \in Tables |-> rows[t]]
    BY DEF ExecutionRows, NoRows, Tables
  <1> HIDE DEF rows
  <1>3. \A t \in Tables : rows[t] \in Seq(Cells)
    BY <1>1, <1>2, ShortSequences
  <1>4. rows \in [Tables -> Seq(Cells)]
    BY <1>2, <1>3
  <1> QED BY <1>2, <1>4 DEF IsBatch, RecordTable, TablesOf, rows

\* Opening a sink installs every guard of its tables and writes no row.
LEMMA OpenedDatabase ==
    ASSUME NEW db, Database(db), NEW s \in Sinks
    PROVE  /\ Database(WithSchema(db, s))
           /\ WithSchema(db, s).rows = db.rows /\ WithSchema(db, s).own = db.own
  <1> DEFINE new == WithSchema(db, s)
  <1>1. /\ DOMAIN new = DatabaseFields
        /\ new.version = SchemaVersion /\ new.rows = db.rows /\ new.own = db.own
        /\ \A t \in Tables : new.guards[t] = IF t \in TablesOf(s) THEN db.guards[t] \cup Guards(t)
                                                                ELSE db.guards[t]
    BY DEF WithSchema, Database, DatabaseFields
  <1> HIDE DEF new
  <1>2. ASSUME NEW t \in Tables
        PROVE  /\ new.guards[t] \in {{}, GuardsBefore55(t), Guards(t)}
               /\ new.guards[t] = {} => new.rows[t] = << >>
    <2>1. db.guards[t] \in {{}, GuardsBefore55(t), Guards(t)}
      BY DEF Database
    <2>2. CASE t \in TablesOf(s)
      <3>1. new.guards[t] = Guards(t)
        BY <1>1, <2>1, <2>2, TheGuards
      <3> QED BY <3>1, TheGuards
    <2>3. CASE t \notin TablesOf(s)
      BY <1>1, <2>1, <2>3 DEF Database
    <2> QED BY <2>2, <2>3
  <1> QED BY <1>1, <1>2 DEF Database, new

\* What is inserted comes after what is there.
LEMMA InsertedDatabase ==
    ASSUME NEW db, Database(db), NEW s \in Sinks, NEW rows, IsBatch(s, rows), Exists(db, s),
           Len(db.rows[RecordTable[s]]) < MaxRows
    PROVE  /\ Database(Insert(db, rows))
           /\ Insert(db, rows).rows = [t \in Tables |-> db.rows[t] \o rows[t]]
  <1> DEFINE new == Insert(db, rows)
  <1>1. /\ DOMAIN new = DatabaseFields
        /\ new.version = db.version /\ new.guards = db.guards /\ new.own = db.own
        /\ new.rows = [t \in Tables |-> db.rows[t] \o rows[t]]
    BY DEF Insert, Database, DatabaseFields
  <1> HIDE DEF new
  <1>2. ASSUME NEW t \in Tables
        PROVE  /\ new.rows[t] \in Seq(Cells)
               /\ Len(new.rows[t]) = Len(db.rows[t]) + Len(rows[t])
               /\ t \notin TablesOf(s) => new.rows[t] = db.rows[t]
    <2>1. db.rows[t] \in Seq(Cells) /\ rows[t] \in Seq(Cells)
      BY DEF Database, IsBatch
    <2>2. new.rows[t] = db.rows[t] \o rows[t]
      BY <1>1
    <2>3. t \notin TablesOf(s) => rows[t] = << >>
      BY DEF IsBatch
    <2>4. \A p, q \in Seq(Cells) : p \o q \in Seq(Cells) /\ Len(p \o q) = Len(p) + Len(q)
      OBVIOUS
    <2>5. \A p \in Seq(Cells) : p \o << >> = p
      OBVIOUS
    <2> QED BY <2>1, <2>2, <2>3, <2>4, <2>5
  <1>3. ASSUME NEW t \in Tables, new.guards[t] = {} PROVE new.rows[t] = << >>
    <2>1. t \notin TablesOf(s)
      BY <1>1, <1>3 DEF Exists
    <2> QED BY <1>1, <1>2, <1>3, <2>1 DEF Database
  <1>4. ASSUME NEW u \in Sinks PROVE Len(new.rows[RecordTable[u]]) <= MaxRows
    <2>1. RecordTable[u] \in Tables /\ RecordTable[s] \in Tables
      BY TheTables
    <2>2. CASE u = s
      <3>1. db.rows[RecordTable[s]] \in Seq(Cells) /\ Len(rows[RecordTable[s]]) = 1
        BY <2>1 DEF Database, IsBatch
      <3>2. Len(db.rows[RecordTable[s]]) \in Nat
        BY <3>1
      <3>3. Len(new.rows[RecordTable[s]]) = Len(db.rows[RecordTable[s]]) + 1
        BY <1>2, <2>1, <3>1
      <3> HIDE DEF IsBatch
      <3> QED BY <2>2, <3>2, <3>3, TheBounds
    <2>3. CASE u # s
      BY <1>2, <2>1, <2>3, TheTables DEF Database
    <2> QED BY <2>2, <2>3
  <1>5. new.rows \in [Tables -> Seq(Cells)]
    BY <1>1, <1>2
  <1> QED BY <1>1, <1>3, <1>4, <1>5 DEF Database, new

\* A row of references may be replaced: the tables stay what they are.
LEMMA ForgedDatabase ==
    ASSUME NEW db, Database(db), NEW t \in RefTables, NEW n \in 1..Len(db.rows[t])
    PROVE  /\ Database(Overwritten(db, t, n, "rowid"))
           /\ Overwritten(db, t, n, "rowid").rows = [db.rows EXCEPT ![t] = [@ EXCEPT ![n] = Forged]]
  <1> DEFINE new == Overwritten(db, t, n, "rowid")
             row == [db.rows[t] EXCEPT ![n] = Forged]
  <1>1. /\ DOMAIN new = DatabaseFields
        /\ new.version = db.version /\ new.guards = db.guards /\ new.own = db.own
        /\ new.rows = [db.rows EXCEPT ![t] = [@ EXCEPT ![n] = Forged]]
    BY DEF Overwritten, Database, DatabaseFields
  <1> HIDE DEF new
  <1>2. row \in Seq(Cells) /\ db.rows[t] # << >>
    <2>1. db.rows[t] \in Seq(Cells) /\ Forged \in Cells
      BY TheTables DEF Database, Cells
    <2> QED BY <2>1
  <1>3. new.rows \in [Tables -> Seq(Cells)] /\ \A u \in Tables \ {t} : new.rows[u] = db.rows[u]
    BY <1>1, <1>2 DEF Database
  <1>4. \A u \in Tables : new.guards[u] = {} => new.rows[u] = << >>
    BY <1>1, <1>2, <1>3 DEF Database
  <1>5. \A s \in Sinks : Len(new.rows[RecordTable[s]]) <= MaxRows
    BY <1>3, TheTables DEF Database
  <1> QED BY <1>1, <1>3, <1>4, <1>5 DEF Database, new

LEMMA StoreInit ==
    ASSUME Init
    PROVE  Store
  <1>1. \A s \in Sinks : RecordTable[s] \in Tables
    BY TheTables
  <1>2. Database(Fresh)
    <2>1. /\ DOMAIN Fresh = DatabaseFields /\ Fresh.version = 0 /\ Fresh.own = 0
          /\ Fresh.rows = NoRows /\ \A t \in Tables : Fresh.guards[t] = {}
      BY DEF Fresh, DatabaseFields
    <2> QED BY <1>1, <2>1, NothingInserted, StoreConstants DEF Database
  <1>3. Database(Future)
    <2>1. /\ DOMAIN Future = DatabaseFields /\ Future.version = SchemaVersion + 1 /\ Future.own = 0
          /\ Future.rows = NoRows /\ \A t \in Tables : Future.guards[t] = {}
      BY DEF Future, Fresh, DatabaseFields
    <2> QED BY <1>1, <2>1, NothingInserted, StoreConstants DEF Database
  <1>4. Database(Before55)
    <2>1. /\ DOMAIN Before55 = DatabaseFields /\ Before55.version = SchemaVersion /\ Before55.own = 0
          /\ Before55.rows = SemanticRows(Old) /\ \A t \in Tables : Before55.guards[t] = GuardsBefore55(t)
      BY DEF Before55, DatabaseFields
    <2>2. IsBatch("semantic", SemanticRows(Old))
      BY RowsOfASemanticRecord DEF Known
    <2>3. ASSUME NEW s \in Sinks PROVE Len(Before55.rows[RecordTable[s]]) <= MaxRows
      <3>1. CASE s = "semantic"
        BY <2>1, <2>2, <3>1, TheBounds DEF IsBatch
      <3>2. CASE s # "semantic"
        <4>1. SemanticRows(Old)[RecordTable[s]] = << >>
          BY <1>1, <2>2, <3>2, TheTables DEF IsBatch, Sinks
        <4> QED BY <2>1, <4>1, TheBounds
      <3> QED BY <3>1, <3>2
    <2> QED BY <2>1, <2>2, <2>3, TheGuards, StoreConstants DEF Database, IsBatch
  <1> QED BY <1>2, <1>3, <1>4 DEF Init, Store

\* A record of sink s is written, whole and after everything else.
Written(s, rows) ==
    /\ Exists(work, s) /\ ~Aborts(work, rows)
    /\ disk'.rows = [t \in Tables |-> disk.rows[t] \o rows[t]]
    /\ refused' = refused

\* A record is written, or nothing is; either way nothing is left pending.
LEMMA StoreRecords ==
    ASSUME Store, NEW s \in Sinks, NEW id, NEW rows, IsBatch(s, rows), Record(s, id, rows)
    PROVE  /\ Store' /\ opened' = opened
           /\ \/ Written(s, rows)
              \/ disk' = disk /\ refused' = refused
              \/ disk' = disk /\ Aborts(work, rows) /\ refused' = refused \cup {<<s, id>>}
  <1>1. CASE Exists(work, s) /\ ~Aborts(work, rows) /\ Commit(Insert(work, rows)) /\ refused' = refused
    <2>1. /\ Database(Insert(work, rows))
          /\ Insert(work, rows).rows = [t \in Tables |-> work.rows[t] \o rows[t]]
      BY <1>1, InsertedDatabase DEF Store, Record
    <2> QED BY <1>1, <2>1 DEF Store, Record, Commit, Written
  <1>2. CASE Rollback
    BY <1>2 DEF Store, Record, Rollback, Commit
  <1> QED BY <1>1, <1>2 DEF Record

\* Another writer of the file replaces a row of references of a database written
\* before #55.
Forges(t) ==
    /\ t \in RefTables /\ disk.guards[t] = GuardsBefore55(t)
    /\ \E n \in 1..Len(disk.rows[t]) :
          disk'.rows = [disk.rows EXCEPT ![t] = [@ EXCEPT ![n] = Forged]]
    /\ refused' = refused

LEMMA StoreForged ==
    ASSUME Store, NEW t \in Tables, NEW w \in Writers, OtherWriter(t, w)
    PROVE  Store' /\ Forges(t) /\ opened' = opened
  <1>1. PICK n \in 1..Len(disk.rows[t]) : disk' = Overwritten(disk, t, n, w)
    BY DEF OtherWriter
  <1>2. disk.rows[t] # << >> /\ disk.guards[t] \in {{}, GuardsBefore55(t), Guards(t)}
    BY <1>1 DEF Store, Database
  <1>3. disk.guards[t] \in {GuardsBefore55(t), Guards(t)}
    BY <1>2 DEF Store, Database
  <1>4. t \in RefTables /\ w = "rowid" /\ disk.guards[t] = GuardsBefore55(t)
    <2>1. w \notin GuardsBefore55(t) /\ (w = "key" => t # "execution_records")
      BY <1>3, TheGuards DEF OtherWriter
    <2>2. t \in RefTables /\ w = "rowid"
      BY <2>1, TheGuards
    <2>3. "rowid" \in Guards(t)
      BY DEF Guards
    <2> QED BY <1>3, <2>2, <2>3 DEF OtherWriter
  <1>5. /\ Database(disk')
        /\ disk'.rows = [disk.rows EXCEPT ![t] = [@ EXCEPT ![n] = Forged]]
    <2>1. Database(disk)
      BY DEF Store
    <2> QED BY <1>1, <1>4, <2>1, ForgedDatabase
  <1> QED BY <1>4, <1>5 DEF Store, OtherWriter, Forges

\* Everything that happens to the rows of the database and the refusals: nothing,
\* a record of one of the three sinks, or another writer's statement.
Happens ==
    \/ disk'.rows = disk.rows /\ refused' = refused
    \/ \E id \in CandidateIds : RecordAudit(id)
    \/ \E id \in Executions : RecordExecution(id)
    \/ \E r \in Semantics : RecordSemantic(r)
    \/ \E t \in RefTables : Forges(t)

LEMMA StoreNext ==
    ASSUME Store, DecidedHere, [Step]_allVars
    PROVE  Store' /\ Happens
  <1>1. CASE UNCHANGED vars
    BY <1>1 DEF vars, Store, Happens
  <1>2. ASSUME NEW s \in Sinks, Open(s) PROVE Store' /\ Happens
    <2>1. /\ Database(work') /\ work'.rows = work.rows
          /\ disk' = IF inTx THEN disk ELSE work'
          /\ opened' \subseteq Sinks /\ inTx' = inTx /\ refused' = refused
      BY <1>2, OpenedDatabase DEF Store, Open
    <2>2. Database(disk') /\ disk'.rows = disk.rows /\ (~inTx' => work' = disk')
      BY <2>1 DEF Store
    <2> QED BY <2>1, <2>2 DEF Store, Happens
  <1>3. ASSUME NEW id \in CandidateIds, RecordAudit(id) PROVE Store' /\ Happens
    <2>1. Store'
      BY <1>3, RowsOfAnAuditRecord, StoreRecords DEF RecordAudit, Sinks
    <2> QED BY <1>3, <2>1 DEF Happens
  <1>4. ASSUME NEW id \in Executions, RecordExecution(id) PROVE Store' /\ Happens
    <2>1. Store'
      BY <1>4, RowsOfAnExecutionRecord, StoreRecords DEF RecordExecution, Sinks
    <2> QED BY <1>4, <2>1 DEF Happens
  <1>5. ASSUME NEW r \in Semantics, RecordSemantic(r) PROVE Store' /\ Happens
    <2>1. IsBatch("semantic", SemanticRows(r))
      BY RowsOfASemanticRecord DEF Known
    <2>2. Store'
      BY <1>5, <2>1, StoreRecords DEF RecordSemantic, Sinks
    <2> QED BY <1>5, <2>2 DEF Happens
  <1>6. CASE CallerWrites
    <2>1. /\ DOMAIN work' = DatabaseFields /\ work'.version = work.version
          /\ work'.guards = work.guards /\ work'.rows = work.rows /\ work'.own \in 0..MaxOwn
      <3>1. DOMAIN work = DatabaseFields /\ work.own \in 0..MaxOwn /\ MaxOwn \in Nat
        BY StoreConstants DEF Store, Database
      <3> QED BY <1>6, <3>1 DEF CallerWrites, DatabaseFields
    <2>2. Database(work')
      BY <2>1 DEF Store, Database
    <2> QED BY <1>6, <2>1, <2>2 DEF CallerWrites, Store, Happens
  <1>7. CASE CallerCommits \/ CallerRollsBack
    BY <1>7 DEF CallerCommits, CallerRollsBack, Commit, Rollback, Store, Happens
  <1>8. ASSUME NEW t \in Tables, NEW w \in Writers, OtherWriter(t, w) PROVE Store' /\ Happens
    BY <1>8, StoreForged DEF Happens, Forges
  <1>9. CASE Crash
    BY <1>9 DEF Crash, Store, Happens
  <1>10. CASE AppendDurably
    <2>1. Head(call.left) \in CandidateIds
      BY <1>10 DEF AppendDurably, DecidedHere
    <2> QED BY <1>3, <1>10, <2>1 DEF AppendDurably
  <1>11. CASE Others
    BY <1>1, <1>2, <1>4, <1>5, <1>6, <1>7, <1>8, <1>11 DEF Others, RefuseVersion
  <1>12. CASE Restart
    BY <1>1, <1>9, <1>12 DEF Restart
  <1>13. CASE (\E batch \in Batches : Curate(batch)) \/ AppendInMemory \/ Return
    BY <1>1, <1>13 DEF Curate, AppendInMemory, Return
  <1> QED BY <1>1, <1>10, <1>11, <1>12, <1>13 DEF Step, allVars

LEMMA BehaviourStores == Behaviour => [](DecidedHere /\ Store)
  <1>1. InitAll => Store
    BY StoreInit DEF InitAll
  <1>2. DecidedHere /\ Store /\ [Step]_allVars => Store'
    BY StoreNext
  <1> QED BY <1>1, <1>2, BehaviourDecides, PTL DEF Behaviour

\* Every reachable state is well typed; a connection outside a transaction sees
\* what is on disk, and a call never has more records left than its batch has
\* candidates.
THEOREM AuditTypeCorrect == Behaviour => []TypeOK
  <1>1. DecidedHere /\ Store => TypeOK
    <2> SUFFICES ASSUME DecidedHere, Store PROVE TypeOK
      OBVIOUS
    <2>1. ASSUME NEW db, Database(db)
          PROVE  /\ db.version \in {0, SchemaVersion, SchemaVersion + 1}
                 /\ db.own \in 0..MaxOwn
                 /\ \A t \in Tables : db.guards[t] \subseteq Writers
                 /\ \A s \in Sinks : Len(db.rows[RecordTable[s]]) \in 0..MaxRows
      <3>1. \A t \in Tables : db.guards[t] \subseteq Writers
        BY <2>1, TheGuards DEF Database
      <3>2. ASSUME NEW s \in Sinks PROVE Len(db.rows[RecordTable[s]]) \in 0..MaxRows
        <4>1. db.rows[RecordTable[s]] \in Seq(Cells)
          BY <2>1, TheTables DEF Database
        <4>2. Len(db.rows[RecordTable[s]]) \in Nat /\ Len(db.rows[RecordTable[s]]) <= MaxRows
          BY <2>1, <4>1 DEF Database
        <4> QED BY <4>2, StoreConstants
      <3> QED BY <2>1, <3>1, <3>2 DEF Database
    <2> QED BY <2>1 DEF TypeOK, Store, DecidedHere
  <1> QED BY <1>1, BehaviourStores, PTL

\* A sink is opened by Open only.
LEMMA OnlyOpenOpens ==
    ASSUME Store, DecidedHere, [Step]_allVars, opened \subseteq opened', opened # opened'
    PROVE  \E s \in Sinks : Open(s)
  <1>1. opened' # opened
    OBVIOUS
  <1>2. \A s, id, rows : ~Record(s, id, rows)
    BY <1>1 DEF Record
  <1>3. ~AppendDurably /\ \A id, r : ~RecordExecution(id) /\ ~RecordSemantic(r)
    BY <1>2 DEF AppendDurably, RecordAudit, RecordExecution, RecordSemantic
  <1>4. ~Restart
    BY <1>1 DEF Restart, Crash, vars
  <1>5. CASE Others
    BY <1>1, <1>3, <1>5 DEF Others, RefuseVersion, vars, CallerWrites, CallerCommits,
       CallerRollsBack, OtherWriter
  <1> QED
    BY <1>1, <1>3, <1>4, <1>5 DEF Step, allVars, vars, Curate, AppendInMemory, Return

\* A savepoint "releases into an existing transaction instead of committing it"
\* (sqlite.py): what the caller has pending on the connection stays pending,
\* whoever opens what, and whatever was committed or rolled back before.
THEOREM TransactionsAreTheCallers == Behaviour => OpeningKeepsTheCaller
  <1> DEFINE Kept == opened \subseteq opened' /\ opened # opened' =>
                        /\ disk'.own = disk.own /\ work'.own = work.own /\ inTx' = inTx
  <1>1. ASSUME Store, DecidedHere, [Step]_allVars PROVE Kept
    <2>1. ASSUME NEW s \in Sinks, Open(s)
          PROVE  disk'.own = disk.own /\ work'.own = work.own /\ inTx' = inTx
      BY <1>1, <2>1, OpenedDatabase DEF Open, Store
    <2> QED BY <1>1, <2>1, OnlyOpenOpens
  <1>2. DecidedHere /\ Store /\ [Step]_allVars => [Kept]_vars
    BY <1>1
  <1> QED BY <1>2, BehaviourStores, PTL DEF Behaviour, OpeningKeepsTheCaller

\* A record of a sink adds rows, or changes nothing.
LEMMA RowsAreAdded ==
    ASSUME Store, NEW s \in Sinks, NEW id, NEW rows, IsBatch(s, rows), Record(s, id, rows),
           NEW t \in Tables
    PROVE  \E more \in Seq(Cells) : disk'.rows[t] = disk.rows[t] \o more
  <1>1. disk.rows[t] \in Seq(Cells) /\ rows[t] \in Seq(Cells)
    BY DEF Store, Database, IsBatch
  <1>2. CASE Written(s, rows)
    BY <1>1, <1>2 DEF Written
  <1>3. CASE disk' = disk
    <2>1. disk.rows[t] \o << >> = disk.rows[t]
      BY <1>1
    <2> QED BY <1>3, <2>1, ShortSequences
  <1> QED BY <1>2, <1>3, StoreRecords

\* A step adds rows to a table, or it is another writer's.
LEMMA RowsGrow ==
    ASSUME Store, DecidedHere, [Step]_allVars, NEW t \in Tables
    PROVE  (\E more \in Seq(Cells) : disk'.rows[t] = disk.rows[t] \o more) \/ Forges(t)
  <1> DEFINE Added == \E more \in Seq(Cells) : disk'.rows[t] = disk.rows[t] \o more
  <1>1. Happens
    BY StoreNext
  <1>2. disk.rows[t] \in Seq(Cells)
    BY DEF Store, Database
  <1>3. ASSUME disk'.rows[t] = disk.rows[t] PROVE Added
    <2>1. disk.rows[t] \o << >> = disk.rows[t]
      BY <1>2
    <2> QED BY <1>3, <2>1, ShortSequences
  <1>4. ASSUME NEW id \in CandidateIds, RecordAudit(id) PROVE Added
    BY <1>4, RowsOfAnAuditRecord, RowsAreAdded DEF RecordAudit, Sinks
  <1>5. ASSUME NEW id \in Executions, RecordExecution(id) PROVE Added
    BY <1>5, RowsOfAnExecutionRecord, RowsAreAdded DEF RecordExecution, Sinks
  <1>6. ASSUME NEW r \in Semantics, RecordSemantic(r) PROVE Added
    <2>1. IsBatch("semantic", SemanticRows(r))
      BY RowsOfASemanticRecord DEF Known
    <2> QED BY <1>6, <2>1, RowsAreAdded DEF RecordSemantic, Sinks
  <1>7. ASSUME NEW u \in RefTables, Forges(u) PROVE Added \/ Forges(t)
    <2>1. u # t => disk'.rows[t] = disk.rows[t]
      BY <1>7, TheTables DEF Forges, Store, Database
    <2> QED BY <1>3, <1>7, <2>1
  <1> HIDE DEF Added
  <1>8. disk'.rows = disk.rows => Added
    BY <1>3
  <1> QED BY <1>1, <1>4, <1>5, <1>6, <1>7, <1>8 DEF Happens, Added

\* "The guarantee lives in the schema" (sqlite.py): once a table has the guards
\* of this release, no step, of this process or another writer, changes
\* or removes a row of it.
THEOREM GuardsKeepRows == Behaviour => GuardedRowsStand
  <1> DEFINE Stand == \A t \in Tables : Guards(t) \subseteq disk.guards[t]
                                           => IsPrefix(disk.rows[t], disk'.rows[t])
  <1>1. ASSUME Store, DecidedHere, [Step]_allVars PROVE Stand
    <2> SUFFICES ASSUME NEW t \in Tables, Guards(t) \subseteq disk.guards[t]
                 PROVE  IsPrefix(disk.rows[t], disk'.rows[t])
      OBVIOUS
    <2>1. ~Forges(t)
      BY DEF Forges, GuardsBefore55, Guards
    <2>2. PICK more \in Seq(Cells) : disk'.rows[t] = disk.rows[t] \o more
      BY <1>1, <2>1, RowsGrow
    <2>3. disk.rows[t] \in Seq(Cells)
      BY <1>1 DEF Store, Database
    <2> DEFINE p == disk.rows[t]
               q == disk'.rows[t]
    <2>4. Len(p) <= Len(q) /\ SubSeq(p, 1, Len(p)) = SubSeq(q, 1, Len(p))
      BY <2>2, <2>3
    <2> QED BY <2>4 DEF IsPrefix
  <1>2. DecidedHere /\ Store /\ [Step]_allVars => [Stand]_vars
    BY <1>1
  <1> QED BY <1>2, BehaviourStores, PTL DEF Behaviour, GuardedRowsStand

-----------------------------------------------------------------------------
(* The semantic records and what they refer to.  The tables of the database *)
(* are those of some set of records, one row each: a record is on disk with *)
(* all its references or not at all.  Of a table somebody else has written  *)
(* to, what is left is still a reference of a record that is there.         *)

RefsHeld(records, t) == UNION {ReferencesOf(r, t) : r \in records}

Hold(rows, records) ==
    /\ records \subseteq Known
    /\ IsFiniteSet(records)
    /\ {r.id : r \in records} = ToSet(rows["semantic_audit_records"])
    /\ Cardinality(records) = Len(rows["semantic_audit_records"])
    /\ \A t \in RefTables :
         /\ ToSet(rows[t]) \subseteq RefsHeld(records, t) \cup {Forged}
         /\ Forged \notin ToSet(rows[t]) => ToSet(rows[t]) = RefsHeld(records, t)

Whole == \E records : Hold(disk.rows, records)

LEMMA ForgedIsNoReference ==
    \A r \in Known, t \in RefTables : Forged \notin ReferencesOf(r, t)
  <1> SUFFICES ASSUME NEW r \in Known, NEW t \in RefTables, NEW ref \in RefsOf(r, t)
               PROVE  Forged # <<r.id, ref>>
    BY DEF ReferencesOf
  <1> DEFINE values == IF t = "semantic_audit_assertions" THEN r.assertions ELSE r.operations
  <1>1. values \in Seq(ToSet(values)) /\ \A n \in 1..Len(values) : Forged # <<r.id, values[n]>>
    BY StoreConstants DEF Known
  <1>2. ref \in ToSet(values)
    BY DEF RefsOf
  <1> HIDE DEF values
  <1>3. PICK n \in 1..Len(values) : ref = values[n]
    BY <1>1, <1>2 DEF ToSet
  <1> QED BY <1>1, <1>3

LEMMA ElementsOfConcatenation ==
    ASSUME NEW S, NEW p \in Seq(S), NEW q \in Seq(S)
    PROVE  ToSet(p \o q) = ToSet(p) \cup ToSet(q) /\ Len(p \o q) = Len(p) + Len(q)
  <1> DEFINE c == p \o q
  <1>1. /\ Len(c) = Len(p) + Len(q) /\ DOMAIN c = 1..Len(c)
        /\ Len(p) \in Nat /\ Len(q) \in Nat /\ DOMAIN p = 1..Len(p) /\ DOMAIN q = 1..Len(q)
        /\ \A i \in 1..Len(p) : c[i] = p[i]
        /\ \A i \in 1..Len(c) : i > Len(p) => c[i] = q[i - Len(p)]
    OBVIOUS
  <1> HIDE DEF c
  <1>2. ASSUME NEW i \in 1..Len(c) PROVE c[i] \in ToSet(p) \cup ToSet(q)
    <2>1. i \in Int
      OBVIOUS
    <2>2. CASE i <= Len(p)
      BY <1>1, <2>1, <2>2 DEF ToSet
    <2>3. CASE i > Len(p)
      <3>1. i - Len(p) \in 1..Len(q)
        BY <1>1, <2>1, <2>3
      <3> QED BY <1>1, <2>3, <3>1 DEF ToSet
    <2> QED BY <1>1, <2>1, <2>2, <2>3
  <1>3. ASSUME NEW i \in 1..Len(p) PROVE p[i] \in ToSet(c)
    <2>1. i \in 1..Len(c)
      BY <1>1
    <2> QED BY <1>1, <2>1 DEF ToSet
  <1>4. ASSUME NEW i \in 1..Len(q) PROVE q[i] \in ToSet(c)
    <2>1. i + Len(p) \in 1..Len(c) /\ i + Len(p) > Len(p) /\ (i + Len(p)) - Len(p) = i
      BY <1>1
    <2> QED BY <1>1, <2>1 DEF ToSet
  <1>5. ToSet(c) = {c[i] : i \in 1..Len(c)} /\ ToSet(p) = {p[i] : i \in 1..Len(p)}
        /\ ToSet(q) = {q[i] : i \in 1..Len(q)}
    BY <1>1 DEF ToSet
  <1>6. ToSet(c) \subseteq ToSet(p) \cup ToSet(q)
    BY <1>2, <1>5
  <1>7. ToSet(p) \subseteq ToSet(c) /\ ToSet(q) \subseteq ToSet(c)
    BY <1>3, <1>4, <1>5
  <1> QED BY <1>1, <1>6, <1>7 DEF c

\* A new semantic record goes in with its references.
LEMMA HoldWritten ==
    ASSUME Store, NEW r \in Semantics, NEW records, Hold(disk.rows, records),
           Written("semantic", SemanticRows(r))
    PROVE  Hold(disk'.rows, records \cup {r})
  <1> DEFINE rows == SemanticRows(r)
             ids == "semantic_audit_records"
             more == records \cup {r}
  <1>1. /\ r \in Known /\ IsBatch("semantic", rows) /\ rows[ids] = <<r.id>>
        /\ \A t \in RefTables : ToSet(rows[t]) = ReferencesOf(r, t)
    BY RowsOfASemanticRecord DEF Known
  <1>2. ToSet(<<r.id>>) = {r.id}
    BY DEF ToSet
  <1> HIDE DEF rows
  <1>3. ASSUME NEW t \in Tables
        PROVE  /\ ToSet(disk'.rows[t]) = ToSet(disk.rows[t]) \cup ToSet(rows[t])
               /\ Len(disk'.rows[t]) = Len(disk.rows[t]) + Len(rows[t])
    <2>1. disk.rows[t] \in Seq(Cells) /\ rows[t] \in Seq(Cells)
      BY <1>1 DEF Store, Database, IsBatch
    <2>2. disk'.rows[t] = disk.rows[t] \o rows[t]
      BY DEF Written, rows
    <2> QED BY <2>1, <2>2, ElementsOfConcatenation
  <1>4. ids \in Tables /\ RefTables \subseteq Tables
    BY DEF Tables, RefTables
  <1>5. r \notin records
    <2>1. work.rows = disk.rows /\ "key" \in work.guards[ids]
      <3>1. work.guards[ids] # {}
        BY DEF Written, Exists, TablesOf
      <3>2. work.guards[ids] \in {{}, GuardsBefore55(ids), Guards(ids)}
        BY <1>4 DEF Store, Database
      <3> QED BY <1>4, <3>1, <3>2, TheGuards DEF Store
    <2>2. ToSet(work.rows[ids]) \cap ToSet(rows[ids]) = {}
      <3> HIDE DEF ids
      <3>1. ~Aborts(work, rows)
        BY DEF Written, rows
      <3> QED BY <1>4, <2>1, <3>1 DEF Aborts, Keys
    <2>3. r.id \notin ToSet(disk.rows[ids])
      BY <1>1, <1>2, <2>1, <2>2
    <2> QED BY <2>3 DEF Hold
  <1>6. more \subseteq Known
    BY <1>1 DEF Hold
  <1>7. IsFiniteSet(more) /\ Cardinality(more) = Cardinality(records) + 1
    BY <1>5, FS_AddElement DEF Hold
  <1>8. {q.id : q \in more} = ToSet(disk'.rows[ids])
    <2>1. ToSet(disk'.rows[ids]) = ToSet(disk.rows[ids]) \cup {r.id}
      <3> HIDE DEF ids
      <3> QED BY <1>1, <1>2, <1>3, <1>4
    <2>2. {q.id : q \in more} = {q.id : q \in records} \cup {r.id}
      OBVIOUS
    <2> QED BY <2>1, <2>2 DEF Hold
  <1>9. Cardinality(more) = Len(disk'.rows[ids])
    BY <1>1, <1>3, <1>4, <1>7 DEF Hold
  <1>10. ASSUME NEW t \in RefTables
         PROVE  /\ ToSet(disk'.rows[t]) \subseteq RefsHeld(more, t) \cup {Forged}
                /\ Forged \notin ToSet(disk'.rows[t]) => ToSet(disk'.rows[t]) = RefsHeld(more, t)
    <2>1. RefsHeld(more, t) = RefsHeld(records, t) \cup ReferencesOf(r, t)
      BY DEF RefsHeld
    <2>2. ToSet(disk'.rows[t]) = ToSet(disk.rows[t]) \cup ReferencesOf(r, t)
      BY <1>1, <1>3, <1>4
    <2> QED BY <2>1, <2>2 DEF Hold
  <1> HIDE DEF more
  <1> QED BY <1>6, <1>7, <1>8, <1>9, <1>10 DEF Hold, more

\* What another writer overwrites is marked by what it leaves.
LEMMA HoldForged ==
    ASSUME Store, NEW records, Hold(disk.rows, records), NEW t \in RefTables, Forges(t)
    PROVE  Hold(disk'.rows, records)
  <1> DEFINE old == disk.rows[t]
             new == disk'.rows[t]
  <1>1. PICK n \in 1..Len(old) : disk'.rows = [disk.rows EXCEPT ![t] = [@ EXCEPT ![n] = Forged]]
    BY DEF Forges
  <1>2. /\ old \in Seq(Cells)
        /\ new = [old EXCEPT ![n] = Forged]
        /\ \A u \in Tables \ {t} : disk'.rows[u] = disk.rows[u]
    <2>1. disk.rows \in [Tables -> Seq(Cells)] /\ t \in Tables
      BY TheTables DEF Store, Database
    <2> QED BY <1>1, <2>1
  <1>3. ToSet(new) \subseteq ToSet(old) \cup {Forged} /\ Forged \in ToSet(new)
    <2>1. DOMAIN new = DOMAIN old /\ new[n] = Forged /\ n \in DOMAIN old
          /\ \A i \in DOMAIN old : i # n => new[i] = old[i]
      BY <1>2
    <2> HIDE DEF new, old
    <2> QED BY <2>1 DEF ToSet
  <1> HIDE DEF old, new
  <1>4. "semantic_audit_records" \in Tables \ {t} /\ RefTables \subseteq Tables
    BY DEF Tables, RefTables
  <1>5. ASSUME NEW u \in RefTables
        PROVE  /\ ToSet(disk'.rows[u]) \subseteq RefsHeld(records, u) \cup {Forged}
               /\ Forged \notin ToSet(disk'.rows[u]) => ToSet(disk'.rows[u]) = RefsHeld(records, u)
    <2>1. CASE u = t
      BY <1>3, <2>1 DEF Hold, old, new
    <2>2. CASE u # t
      BY <1>2, <1>4, <2>2 DEF Hold
    <2> QED BY <2>1, <2>2
  <1> QED BY <1>2, <1>4, <1>5 DEF Hold

LEMMA HoldInit ==
    ASSUME Init
    PROVE  Whole
  <1>1. CASE disk.rows = NoRows
    <2> DEFINE none == {}
    <2>1. ToSet(<< >>) = {}
      BY DEF ToSet
    <2>2. IsFiniteSet(none) /\ Cardinality(none) = 0
      BY FS_EmptySet
    <2>3. \A t \in Tables : disk.rows[t] = << >>
      BY <1>1, NothingInserted
    <2>4. Hold(disk.rows, none)
      BY <2>1, <2>2, <2>3 DEF Hold, Tables, RefTables, RefsHeld
    <2> QED BY <2>4 DEF Whole
  <1>2. CASE disk.rows = SemanticRows(Old)
    <2> DEFINE one == {Old}
    <2>1. ToSet(<<Old.id>>) = {Old.id} /\ Len(<<Old.id>>) = 1
      BY DEF ToSet
    <2>2. IsFiniteSet(one) /\ Cardinality(one) = 1
      BY FS_Singleton
    <2>3. /\ Old \in Known /\ disk.rows["semantic_audit_records"] = <<Old.id>>
          /\ \A t \in RefTables : ToSet(disk.rows[t]) = ReferencesOf(Old, t)
      BY <1>2, RowsOfASemanticRecord DEF Known
    <2>4. \A t \in RefTables : RefsHeld(one, t) = ReferencesOf(Old, t)
      BY DEF RefsHeld
    <2>5. {r.id : r \in one} = {Old.id} /\ one \subseteq Known
      BY <2>3
    <2> HIDE DEF one
    <2>6. Hold(disk.rows, one)
      BY <2>1, <2>2, <2>3, <2>4, <2>5 DEF Hold
    <2> QED BY <2>6 DEF Whole
  <1>3. Fresh.rows = NoRows /\ Future.rows = NoRows /\ Before55.rows = SemanticRows(Old)
    BY DEF Fresh, Future, Before55
  <1> QED BY <1>1, <1>2, <1>3 DEF Init

\* A record of another sink writes no row of the semantic tables.
LEMMA OtherSinksWriteElsewhere ==
    ASSUME Store, NEW s \in Sinks, s # "semantic", NEW id, NEW rows, IsBatch(s, rows),
           Record(s, id, rows), NEW t \in TablesOf("semantic")
    PROVE  disk'.rows[t] = disk.rows[t]
  <1>1. t \in Tables \ TablesOf(s)
    BY DEF Sinks, TablesOf, Tables, RefTables
  <1>2. CASE Written(s, rows)
    <2>1. rows[t] = << >> /\ disk.rows[t] \in Seq(Cells)
      BY <1>1 DEF IsBatch, Store, Database
    <2>2. disk'.rows[t] = disk.rows[t] \o rows[t]
      BY <1>1, <1>2 DEF Written
    <2> QED BY <2>1, <2>2
  <1>3. CASE disk' = disk
    BY <1>3
  <1> QED BY <1>2, <1>3, StoreRecords

LEMMA HoldNext ==
    ASSUME Store, DecidedHere, Whole, [Step]_allVars
    PROVE  Whole'
  <1> DEFINE Same == \A t \in TablesOf("semantic") : disk'.rows[t] = disk.rows[t]
  <1>1. PICK records : Hold(disk.rows, records)
    BY DEF Whole
  <1>2. Same => Whole'
    <2>1. Same => Hold(disk'.rows, records)
      BY <1>1 DEF Hold, TablesOf
    <2> QED BY <2>1 DEF Whole
  <1>3. ASSUME NEW id \in CandidateIds, RecordAudit(id) PROVE Same
    BY <1>3, RowsOfAnAuditRecord, OtherSinksWriteElsewhere DEF RecordAudit, Sinks
  <1>4. ASSUME NEW id \in Executions, RecordExecution(id) PROVE Same
    BY <1>4, RowsOfAnExecutionRecord, OtherSinksWriteElsewhere DEF RecordExecution, Sinks
  <1>5. ASSUME NEW r \in Semantics, RecordSemantic(r) PROVE Whole'
    <2>1. IsBatch("semantic", SemanticRows(r))
      BY RowsOfASemanticRecord DEF Known
    <2>2. Written("semantic", SemanticRows(r)) \/ disk' = disk
      BY <1>5, <2>1, StoreRecords DEF RecordSemantic, Sinks
    <2>3. CASE Written("semantic", SemanticRows(r))
      BY <1>1, <2>3, HoldWritten DEF Whole
    <2> QED BY <1>2, <2>2, <2>3
  <1>6. ASSUME NEW t \in RefTables, Forges(t) PROVE Whole'
    BY <1>1, <1>6, HoldForged DEF Whole
  <1>7. disk'.rows = disk.rows => Same
    OBVIOUS
  <1> HIDE DEF Same
  <1> QED BY <1>2, <1>3, <1>4, <1>5, <1>6, <1>7, StoreNext DEF Happens

LEMMA BehaviourHolds == Behaviour => [](DecidedHere /\ Store /\ Whole)
  <1>1. InitAll => Whole
    BY HoldInit DEF InitAll
  <1>2. DecidedHere /\ Store /\ Whole /\ [Step]_allVars => Whole'
    BY HoldNext
  <1> QED BY <1>1, <1>2, BehaviourStores, PTL DEF Behaviour

\* "Each append wraps its main row and its ref rows in one transaction"
\* (sqlite.py): in every reachable state the joins by assertion and by operation find every
\* decision on disk that names what they ask for, and no other, in a table of
\* references nobody else has written to.
THEOREM SemanticRecordsAreWhole == Behaviour => []RefsWhole
  <1>1. Whole => RefsWhole
    <2> SUFFICES ASSUME NEW records, Hold(disk.rows, records) PROVE RefsWhole
      BY DEF Whole
    <2>1. records \in SUBSET (Semantics \cup {Old})
      BY DEF Hold, Known
    <2>2. /\ {r.id : r \in records} = Keys(disk, "semantic_audit_records")
          /\ Cardinality(records) = Len(Records(disk, "semantic_audit_records"))
      BY DEF Hold, Keys, Records
    <2>3. ASSUME NEW t \in RefTables, Forged \notin Keys(disk, t), NEW ref
          PROVE  RecordsForRef(disk, t, ref) = {r.id : r \in {r \in records : ref \in RefsOf(r, t)}}
      <3>1. Keys(disk, t) = UNION {ReferencesOf(r, t) : r \in records}
        BY <2>3 DEF Hold, Keys, RefsHeld
      <3>2. ASSUME NEW id
            PROVE  <<id, ref>> \in Keys(disk, t)
                   <=> \E r \in records : r.id = id /\ ref \in RefsOf(r, t)
        BY <3>1 DEF ReferencesOf
      <3> QED BY <2>2, <3>2 DEF RecordsForRef
    <2> QED BY <2>1, <2>2, <2>3 DEF RefsWhole
  <1> QED BY <1>1, BehaviourHolds, PTL

\* A trigger aborts an insertion only on a key that is there already.
LEMMA AbortsOnItsKey ==
    ASSUME Store, NEW id, NEW rows, NEW t \in Tables, rows[t] = <<id>>,
           \A u \in Tables \ {t} : rows[u] = << >>, Aborts(work, rows)
    PROVE  id \in Keys(disk, t) /\ t # "execution_records"
  <1>1. ToSet(<<id>>) = {id} /\ IsInjective(<<id>>)
    BY DEF ToSet, IsInjective
  <1>2. ToSet(<< >>) = {} /\ IsInjective(<< >>)
    BY DEF ToSet, IsInjective
  <1>3. PICK u \in Tables : /\ "key" \in work.guards[u]
                            /\ Keys(work, u) \cap ToSet(rows[u]) # {} \/ ~IsInjective(rows[u])
    BY DEF Aborts
  <1>4. u = t /\ id \in Keys(work, t)
    BY <1>1, <1>2, <1>3
  <1>5. "execution_records" \in Tables /\ work.guards[u] \in {{}, GuardsBefore55(u), Guards(u)}
    BY <1>3 DEF Tables, Store, Database
  <1>6. t # "execution_records"
    BY <1>3, <1>4, <1>5, TheGuards
  <1> QED BY <1>4, <1>6 DEF Keys, Store

LEMMA SemanticAborts ==
    ASSUME Store, Whole, NEW r \in Semantics, Aborts(work, SemanticRows(r))
    PROVE  r.id \in Keys(disk, "semantic_audit_records")
  <1> DEFINE rows == SemanticRows(r)
  <1>1. PICK records : Hold(disk.rows, records)
    BY DEF Whole
  <1>2. /\ r \in Known /\ IsBatch("semantic", rows)
        /\ rows["semantic_audit_records"] = <<r.id>>
        /\ \A t \in RefTables : IsInjective(rows[t]) /\ ToSet(rows[t]) = ReferencesOf(r, t)
    BY RowsOfASemanticRecord DEF Known
  <1> HIDE DEF rows
  <1>3. ToSet(<<r.id>>) = {r.id} /\ IsInjective(<<r.id>>)
    BY DEF ToSet, IsInjective
  <1>4. ToSet(<< >>) = {} /\ IsInjective(<< >>)
    BY DEF ToSet, IsInjective
  <1>5. PICK t \in Tables : ToSet(disk.rows[t]) \cap ToSet(rows[t]) # {} \/ ~IsInjective(rows[t])
    BY DEF Aborts, Store, Keys, rows
  <1>6. CASE t = "semantic_audit_records"
    BY <1>2, <1>3, <1>5, <1>6 DEF Keys
  <1>7. CASE t \in RefTables
    <2>1. PICK row \in ReferencesOf(r, t) : row \in ToSet(disk.rows[t])
      BY <1>2, <1>5, <1>7
    <2>2. row \in RefsHeld(records, t)
      BY <1>1, <1>2, <1>7, <2>1, ForgedIsNoReference DEF Hold
    <2>3. PICK q \in records : row \in ReferencesOf(q, t)
      BY <2>2 DEF RefsHeld
    <2>4. q.id = r.id
      BY <2>1, <2>3 DEF ReferencesOf
    <2> QED BY <1>1, <2>4 DEF Hold, Keys
  <1>8. CASE t \notin TablesOf("semantic")
    BY <1>2, <1>4, <1>5, <1>8 DEF IsBatch
  <1> QED BY <1>6, <1>7, <1>8 DEF TablesOf

\* The rows of the tables of records stay.
LEMMA RecordsStay ==
    ASSUME Store, DecidedHere, [Step]_allVars, NEW t \in Tables \ RefTables
    PROVE  Keys(disk, t) \subseteq Keys(disk, t)'
  <1>1. PICK more \in Seq(Cells) : disk'.rows[t] = disk.rows[t] \o more
    BY RowsGrow DEF Forges
  <1>2. disk.rows[t] \in Seq(Cells)
    BY DEF Store, Database
  <1> QED BY <1>1, <1>2, ElementsOfConcatenation DEF Keys

\* "append-only (issue #48): duplicate" is only said of a duplicate: a sink
\* refuses a record only if it holds one of that id, whatever the record refers
\* to, and an execution record never.
THEOREM RefusalsAreDuplicates == Behaviour => []RefusedOnlyDuplicates
  <1> DEFINE Duplicate(refusal) ==
        \/ refusal[1] = "audit"    /\ refusal[2] \in Keys(disk, "audit_records")
        \/ refusal[1] = "semantic" /\ refusal[2] \in Keys(disk, "semantic_audit_records")
  <1>1. InitAll => RefusedOnlyDuplicates
    BY DEF InitAll, Init, RefusedOnlyDuplicates
  <1>2. ASSUME DecidedHere, Store, Whole, RefusedOnlyDuplicates, [Step]_allVars
        PROVE  RefusedOnlyDuplicates'
    <2>1. \A refusal \in refused : Duplicate(refusal)'
      <3>1. {"audit_records", "semantic_audit_records"} \subseteq Tables \ RefTables
        BY DEF Tables, RefTables
      <3>2. /\ Keys(disk, "audit_records") \subseteq Keys(disk, "audit_records")'
            /\ Keys(disk, "semantic_audit_records") \subseteq Keys(disk, "semantic_audit_records")'
        BY <1>2, <3>1, RecordsStay
      <3> QED BY <1>2, <3>2 DEF RefusedOnlyDuplicates
    <2>2. refused' = refused => RefusedOnlyDuplicates'
      BY <2>1 DEF RefusedOnlyDuplicates
    <2>3. ASSUME NEW refusal, refused' = refused \cup {refusal}, Duplicate(refusal), disk' = disk
          PROVE  RefusedOnlyDuplicates'
      BY <2>1, <2>3 DEF RefusedOnlyDuplicates, Keys
    <2>4. ASSUME NEW id \in CandidateIds, RecordAudit(id) PROVE RefusedOnlyDuplicates'
      <3> DEFINE rows == AuditRows(id)
      <3>1. IsBatch("audit", rows) /\ rows["audit_records"] = <<id>> /\ "audit_records" \in Tables
            /\ \A t \in Tables \ {"audit_records"} : rows[t] = << >>
        BY RowsOfAnAuditRecord DEF IsBatch, TablesOf, Tables
      <3>2. "audit" \in Sinks /\ Record("audit", id, rows)
        BY <2>4 DEF RecordAudit, Sinks
      <3> HIDE DEF rows
      <3>3. \/ refused' = refused
            \/ disk' = disk /\ Aborts(work, rows) /\ refused' = refused \cup {<<"audit", id>>}
        BY <1>2, <3>1, <3>2, StoreRecords DEF Written
      <3>4. Aborts(work, rows) => id \in Keys(disk, "audit_records")
        BY <1>2, <3>1, AbortsOnItsKey
      <3> QED BY <2>2, <2>3, <3>3, <3>4
    <2>5. ASSUME NEW id \in Executions, RecordExecution(id) PROVE RefusedOnlyDuplicates'
      <3> DEFINE rows == ExecutionRows(id)
      <3>1. IsBatch("execution", rows) /\ "execution_records" \in Tables
        BY RowsOfAnExecutionRecord DEF Tables
      <3>2. rows["execution_records"] = <<id>>
            /\ \A t \in Tables \ {"execution_records"} : rows[t] = << >>
        BY DEF ExecutionRows, NoRows, Tables
      <3>3. "execution" \in Sinks /\ Record("execution", id, rows)
        BY <2>5 DEF RecordExecution, Sinks
      <3> HIDE DEF rows
      <3>4. ~Aborts(work, rows)
        BY <1>2, <3>1, <3>2, AbortsOnItsKey
      <3> QED BY <1>2, <2>2, <3>1, <3>3, <3>4, StoreRecords DEF Written
    <2>6. ASSUME NEW r \in Semantics, RecordSemantic(r) PROVE RefusedOnlyDuplicates'
      <3>1. IsBatch("semantic", SemanticRows(r))
        BY RowsOfASemanticRecord DEF Known
      <3>2. \/ refused' = refused
            \/ disk' = disk /\ Aborts(work, SemanticRows(r))
               /\ refused' = refused \cup {<<"semantic", r.id>>}
        BY <1>2, <2>6, <3>1, StoreRecords DEF RecordSemantic, Sinks, Written
      <3> QED BY <1>2, <2>2, <2>3, <3>2, SemanticAborts
    <2>7. ASSUME NEW t \in RefTables, Forges(t) PROVE RefusedOnlyDuplicates'
      BY <2>2, <2>7 DEF Forges
    <2> QED BY <1>2, <2>2, <2>4, <2>5, <2>6, <2>7, StoreNext DEF Happens
  <1> QED BY <1>1, <1>2, BehaviourHolds, PTL DEF Behaviour

-----------------------------------------------------------------------------
(* The audit before the plan.  A call in progress has recorded some of the  *)
(* records due, in their order, and those left are the others; with the     *)
(* durable sink, the ids it has recorded are different from each other and  *)
(* from all that were ever handed out, for the sink refuses an id it has.   *)

Due == AuditRecords(Planned(call.batch, installed))

Rest(due, k) == [i \in 1..(Len(due) - k) |-> due[i + k]]

\* The first k of the records due are made.
Made(k) ==
    /\ k \in 0..Len(Due)
    /\ call.left = Rest(Due, k)
    /\ sink # "none" => \A i \in 1..k : Due[i] \in Recorded
    /\ sink = "sqlite" => \A i \in 1..k :
          /\ Due[i] \notin ToSet(handed)
          /\ \A j \in 1..k : Due[i] = Due[j] => i = j

Audited ==
    /\ sink \in {"none", "memory", "sqlite"}
    /\ memory \in Seq(CandidateIds)
    /\ handed \in Seq(CandidateIds)
    /\ sink = "sqlite" => IsInjective(handed) /\ ToSet(handed) \subseteq Keys(disk, "audit_records")
    /\ \E k \in Nat : Made(k)

LEMMA TheRest ==
    ASSUME NEW S, NEW due \in Seq(S), NEW k \in 0..Len(due)
    PROVE  /\ Rest(due, 0) = due
           /\ Rest(due, k) = << >> => k = Len(due)
           /\ Rest(due, k) # << >> => /\ k < Len(due)
                                      /\ Head(Rest(due, k)) = due[k + 1]
                                      /\ Tail(Rest(due, k)) = Rest(due, k + 1)
  <1>1. Len(due) \in Nat /\ due = [i \in 1..Len(due) |-> due[i]]
    OBVIOUS
  <1>2. Rest(due, 0) = due
    <2>1. \A i \in 1..(Len(due) - 0) : due[i + 0] = due[i]
      OBVIOUS
    <2>2. Len(due) - 0 = Len(due)
      BY <1>1
    <2> QED BY <1>1, <2>1, <2>2 DEF Rest
  <1> DEFINE rest == Rest(due, k)
  <1>3. rest \in Seq(S) /\ Len(rest) = Len(due) - k
        /\ \A i \in 1..(Len(due) - k) : rest[i] = due[i + k]
    BY <1>1 DEF Rest
  <1>4. rest = << >> => k = Len(due)
    BY <1>1, <1>3
  <1>5. ASSUME rest # << >>
        PROVE  k < Len(due) /\ Head(rest) = due[k + 1] /\ Tail(rest) = Rest(due, k + 1)
    <2>1. k < Len(due)
      BY <1>1, <1>3, <1>5
    <2>2. Head(rest) = due[k + 1]
      BY <1>1, <1>3, <2>1
    <2> DEFINE m == Len(due) - (k + 1)
    <2>3. m \in Nat /\ Len(rest) = m + 1
      BY <1>1, <1>3, <2>1
    <2>4. Tail(rest) = [i \in 1..m |-> rest[i + 1]]
      <3> HIDE DEF m, rest
      <3>1. Tail(rest) \in Seq(S) /\ Len(Tail(rest)) = m
        BY <1>3, <1>5, <2>3
      <3>2. \A i \in 1..m : Tail(rest)[i] = rest[i + 1]
        BY <1>3, <1>5, <2>3
      <3>3. \A q \in Seq(S) : q = [i \in 1..Len(q) |-> q[i]]
        OBVIOUS
      <3>4. Tail(rest) = [i \in 1..m |-> Tail(rest)[i]]
        BY <3>1, <3>3, Zenon
      <3> QED BY <3>2, <3>4, Zenon
    <2>5. \A i \in 1..m : rest[i + 1] = due[i + (k + 1)]
      <3> TAKE i \in 1..m
      <3>1. i + 1 \in 1..(Len(due) - k) /\ (i + 1) + k = i + (k + 1)
        BY <1>1, <2>1
      <3> QED BY <1>3, <3>1
    <2> QED BY <2>1, <2>2, <2>4, <2>5 DEF Rest
  <1> QED BY <1>2, <1>4, <1>5

LEMMA DueIsASequence ==
    ASSUME DecidedHere
    PROVE  Due \in Seq(CandidateIds) /\ DOMAIN Due = 1..Len(Due) /\ Len(Due) \in Nat
  <1>1. Due \in Seq(CandidateIds)
    BY RecordsOfAPlan DEF DecidedHere, Due
  <1> HIDE DEF Due
  <1> QED BY <1>1

LEMMA IdleIsMade == call = Idle => Made(0)
  <1> SUFFICES ASSUME call = Idle PROVE Made(0)
    OBVIOUS
  <1>1. Planned(call.batch, installed) = << >> /\ call.left = << >>
    BY PlanOfNothing DEF Idle
  <1>2. Due = << >>
    BY <1>1 DEF Due, AuditRecords
  <1>3. Rest(<< >>, 0) = << >>
    BY DEF Rest
  <1> QED BY <1>1, <1>2, <1>3 DEF Made

LEMMA AuditedInit ==
    ASSUME InitAll
    PROVE  Audited
  <1>1. Made(0)
    BY IdleIsMade DEF InitAll, EngineInit
  <1>2. IsInjective(<< >>) /\ ToSet(<< >>) = {} /\ << >> \in Seq(CandidateIds)
    BY DEF IsInjective, ToSet
  <1> QED BY <1>1, <1>2 DEF InitAll, EngineInit, Audited

\* An audit record that goes in is the one after those of the table, and its id
\* is new.
LEMMA AuditRecordIsNew ==
    ASSUME Store, NEW id \in CandidateIds, RecordAudit(id)
    PROVE  \/ disk' = disk
           \/ /\ disk' # disk
              /\ id \notin Keys(disk, "audit_records")
              /\ Keys(disk, "audit_records")' = Keys(disk, "audit_records") \cup {id}
  <1> DEFINE t == "audit_records"
             rows == AuditRows(id)
  <1>1. /\ IsBatch("audit", rows) /\ rows[t] = <<id>>
        /\ "audit" \in Sinks /\ t \in Tables /\ TablesOf("audit") = {t}
    BY RowsOfAnAuditRecord DEF Sinks, Tables, TablesOf
  <1> HIDE DEF rows
  <1>2. SUFFICES ASSUME Written("audit", rows)
                 PROVE  /\ disk' # disk
                        /\ id \notin Keys(disk, t)
                        /\ Keys(disk, t)' = Keys(disk, t) \cup {id}
    BY <1>1, StoreRecords DEF RecordAudit, rows
  <1>3. /\ disk.rows[t] \in Seq(Cells) /\ <<id>> \in Seq(Cells)
        /\ disk'.rows[t] = disk.rows[t] \o <<id>>
    BY <1>1, <1>2 DEF Store, Database, IsBatch, Written
  <1>4. ToSet(<<id>>) = {id} /\ Len(<<id>>) = 1
    BY DEF ToSet
  <1>5. /\ ToSet(disk'.rows[t]) = ToSet(disk.rows[t]) \cup {id}
        /\ Len(disk'.rows[t]) = Len(disk.rows[t]) + 1
    <2> DEFINE more == <<id>>
    <2>1. more \in Seq(Cells) /\ ToSet(more) = {id} /\ Len(more) = 1
          /\ disk'.rows[t] = disk.rows[t] \o more
      BY <1>3, <1>4
    <2> HIDE DEF more
    <2> QED BY <1>3, <2>1, ElementsOfConcatenation
  <1>6. Len(disk.rows[t]) \in Nat
    BY <1>3
  <1>7. id \notin ToSet(disk.rows[t])
    <2>1. work.guards[t] # {} /\ work.rows = disk.rows
      BY <1>1, <1>2 DEF Written, Exists, Store
    <2>2. work.guards[t] \in {{}, GuardsBefore55(t), Guards(t)}
      BY <1>1 DEF Store, Database
    <2>3. "key" \in work.guards[t]
      BY <1>1, <2>1, <2>2, TheGuards
    <2>4. ToSet(work.rows[t]) \cap ToSet(rows[t]) = {}
      <3> HIDE DEF t
      <3> QED BY <1>1, <1>2, <2>3 DEF Written, Aborts, Keys
    <2> QED BY <1>1, <1>4, <2>1, <2>4
  <1> QED BY <1>5, <1>6, <1>7 DEF Keys

\* A step of the others leaves the call as it is, and loses no audit record.
LEMMA MadeStays ==
    ASSUME NEW k \in Nat, Made(k), sink \in {"none", "memory", "sqlite"},
           UNCHANGED <<installed, call, sink, handed, memory>>,
           Keys(disk, "audit_records") \subseteq Keys(disk, "audit_records")'
    PROVE  Made(k)'
  <1>1. Due' = Due /\ call'.left = call.left
    BY DEF Due
  <1>2. Recorded \subseteq Recorded'
    <2> DEFINE keys == Keys(disk, "audit_records")
    <2>1. keys \subseteq keys' /\ sink' = sink /\ memory' = memory
      OBVIOUS
    <2>2. Recorded = CASE sink = "none" -> {} [] sink = "memory" -> ToSet(memory)
                       [] sink = "sqlite" -> keys
      BY DEF Recorded
    <2>3. Recorded' = CASE sink = "none" -> {} [] sink = "memory" -> ToSet(memory)
                        [] sink = "sqlite" -> keys'
      BY <2>1 DEF Recorded
    <2> HIDE DEF keys
    <2> QED BY <2>1, <2>2, <2>3
  <1>3. sink # "none" => \A i \in 1..k : Due[i] \in Recorded'
    BY <1>2 DEF Made
  <1> HIDE DEF Due, Recorded
  <1> QED BY <1>1, <1>3 DEF Made

\* What is recorded next is the first of the records left.
LEMMA TheNextRecord ==
    ASSUME DecidedHere, NEW k \in Nat, Made(k), call.left # << >>
    PROVE  /\ k + 1 \in 1..Len(Due) /\ Head(call.left) = Due[k + 1]
           /\ Due[k + 1] \in CandidateIds
           /\ Tail(call.left) = Rest(Due, k + 1)
  <1>1. Due \in Seq(CandidateIds) /\ Len(Due) \in Nat
    BY DueIsASequence
  <1>2. k \in 0..Len(Due) /\ call.left = Rest(Due, k)
    BY DEF Made
  <1> HIDE DEF Due
  <1>3. k < Len(Due) /\ Head(call.left) = Due[k + 1] /\ Tail(call.left) = Rest(Due, k + 1)
    BY <1>1, <1>2, TheRest
  <1> QED BY <1>1, <1>2, <1>3

\* One more record is made; if it is durable, its id was not in the sink.
LEMMA OneMoreIsMade ==
    ASSUME DecidedHere, Audited, NEW k \in Nat, Made(k), call.left # << >>,
           call' = [call EXCEPT !.left = Tail(@)],
           UNCHANGED <<installed, sink, handed>>,
           sink # "none" => Recorded' = Recorded \cup {Due[k + 1]},
           sink = "sqlite" => Due[k + 1] \notin Recorded
    PROVE  Made(k + 1)'
  <1>1. /\ k + 1 \in 1..Len(Due) /\ Tail(call.left) = Rest(Due, k + 1)
    BY TheNextRecord
  <1>2. call'.batch = call.batch /\ call'.left = Tail(call.left)
    BY DEF DecidedHere
  <1>3. Due' = Due
    BY <1>2 DEF Due
  <1>4. sink = "sqlite" => Recorded = Keys(disk, "audit_records")
    BY DEF Recorded
  <1>5. sink = "sqlite" => ToSet(handed) \subseteq Recorded
    BY <1>4 DEF Audited
  <1> HIDE DEF Due, Recorded
  <1>6. /\ sink # "none" => \A i \in 1..k : Due[i] \in Recorded
        /\ sink = "sqlite" => \A i \in 1..k :
              /\ Due[i] \notin ToSet(handed)
              /\ \A j \in 1..k : Due[i] = Due[j] => i = j
    BY DEF Made
  <1>7. \A i \in 1..(k + 1) : i \in 1..k \/ i = k + 1
    OBVIOUS
  <1>8. sink # "none" => \A i \in 1..(k + 1) : Due[i] \in Recorded'
    BY <1>6, <1>7
  <1>9. ASSUME sink = "sqlite", NEW i \in 1..(k + 1)
        PROVE  /\ Due[i] \notin ToSet(handed)
               /\ \A j \in 1..(k + 1) : Due[i] = Due[j] => i = j
    <2>1. \A j \in 1..k : Due[k + 1] # Due[j]
      BY <1>6, <1>9
    <2>2. Due[k + 1] \notin ToSet(handed)
      BY <1>5, <1>9
    <2> QED BY <1>6, <1>7, <1>9, <2>1, <2>2
  <1>10. k + 1 \in 0..Len(Due) /\ call'.left = Rest(Due, k + 1)
    BY <1>1, <1>2
  <1> QED BY <1>3, <1>8, <1>9, <1>10 DEF Made

\* A call that has no record left has made them all: its plan can go.
LEMMA TheWholePlanIsMade ==
    ASSUME DecidedHere, Audited, call.left = << >>
    PROVE  /\ sink # "none" => ToSet(Due) \subseteq Recorded
           /\ sink = "sqlite" => IsInjective(Due) /\ ToSet(Due) \cap ToSet(handed) = {}
  <1>1. PICK k \in Nat : Made(k)
    BY DEF Audited
  <1>2. Due \in Seq(CandidateIds) /\ DOMAIN Due = 1..Len(Due)
    BY DueIsASequence
  <1>3. k \in 0..Len(Due) /\ Rest(Due, k) = << >>
    BY <1>1 DEF Made
  <1> HIDE DEF Due, Recorded
  <1>4. k = Len(Due)
    BY <1>2, <1>3, TheRest
  <1>5. ToSet(Due) = {Due[i] : i \in 1..k}
    BY <1>2, <1>4 DEF ToSet
  <1>6. sink # "none" => ToSet(Due) \subseteq Recorded
    BY <1>1, <1>5 DEF Made
  <1>7. sink = "sqlite" => ToSet(Due) \cap ToSet(handed) = {}
    BY <1>1, <1>5 DEF Made
  <1>8. sink = "sqlite" => IsInjective(Due)
    BY <1>1, <1>2, <1>4 DEF Made, IsInjective
  <1> QED BY <1>6, <1>7, <1>8

LEMMA InjectiveConcatenation ==
    ASSUME NEW S, NEW p \in Seq(S), NEW q \in Seq(S), IsInjective(p), IsInjective(q),
           ToSet(p) \cap ToSet(q) = {}
    PROVE  IsInjective(p \o q)
  <1> DEFINE c == p \o q
  <1>1. /\ DOMAIN c = 1..(Len(p) + Len(q))
        /\ Len(p) \in Nat /\ Len(q) \in Nat /\ DOMAIN p = 1..Len(p) /\ DOMAIN q = 1..Len(q)
        /\ \A i \in 1..Len(p) : c[i] = p[i]
        /\ \A i \in DOMAIN c : i > Len(p) => c[i] = q[i - Len(p)]
    OBVIOUS
  <1> HIDE DEF c
  <1>2. \A i \in DOMAIN p, j \in DOMAIN q : p[i] # q[j]
    BY DEF ToSet
  <1>3. ASSUME NEW i \in DOMAIN c, NEW j \in DOMAIN c, c[i] = c[j], i <= Len(p) PROVE i = j
    <2>1. i \in DOMAIN p /\ c[i] = p[i]
      BY <1>1, <1>3
    <2>2. CASE j <= Len(p)
      <3>1. j \in DOMAIN p /\ c[j] = p[j]
        BY <1>1, <2>2
      <3> QED BY <1>3, <2>1, <3>1 DEF IsInjective
    <2>3. CASE j > Len(p)
      <3>1. j - Len(p) \in DOMAIN q /\ c[j] = q[j - Len(p)]
        BY <1>1, <2>3
      <3> QED BY <1>2, <1>3, <2>1, <3>1
    <2> QED BY <1>1, <2>2, <2>3
  <1>4. ASSUME NEW i \in DOMAIN c, NEW j \in DOMAIN c, c[i] = c[j], i > Len(p), j > Len(p)
        PROVE  i = j
    <2>1. /\ i - Len(p) \in DOMAIN q /\ c[i] = q[i - Len(p)]
          /\ j - Len(p) \in DOMAIN q /\ c[j] = q[j - Len(p)]
      BY <1>1, <1>4
    <2>2. i - Len(p) = j - Len(p)
      BY <1>4, <2>1 DEF IsInjective
    <2> QED BY <1>1, <2>2
  <1>5. ASSUME NEW i \in DOMAIN c, NEW j \in DOMAIN c, c[i] = c[j] PROVE i = j
    <2>1. i <= Len(p) \/ i > Len(p)
      BY <1>1
    <2>2. j <= Len(p) \/ j > Len(p)
      BY <1>1
    <2> QED BY <1>3, <1>4, <1>5, <2>1, <2>2
  <1> QED BY <1>5 DEF IsInjective, c

LEMMA AuditedNext ==
    ASSUME DecidedHere, Store, Audited, [Step]_allVars
    PROVE  Audited'
  <1> DEFINE keys == Keys(disk, "audit_records")
  <1>1. keys \subseteq keys'
    <2>1. "audit_records" \in Tables \ RefTables
      BY DEF Tables, RefTables
    <2> QED BY <2>1, RecordsStay
  <1>2. PICK k \in Nat : Made(k)
    BY DEF Audited
  <1>3. CASE UNCHANGED <<installed, call, sink, handed, memory>>
    <2>1. Made(k)'
      BY <1>1, <1>2, <1>3, MadeStays DEF Audited
    <2> QED BY <1>1, <1>3, <2>1 DEF Audited
  <1>4. ASSUME call' = Idle, sink' = sink, handed' = handed, memory' \in {memory, << >>}
        PROVE  Audited'
    <2>1. (call = Idle => Made(0))'
      BY IdleIsMade, PTL
    <2> HIDE DEF Idle
    <2>2. \E n \in Nat : Made(n)'
      BY <1>4, <2>1
    <2>3. memory' \in Seq(CandidateIds)
      <3>1. << >> \in Seq(CandidateIds) /\ memory \in Seq(CandidateIds)
        BY DEF Audited
      <3> QED BY <1>4, <3>1
    <2>4. /\ handed \in Seq(CandidateIds)
          /\ sink = "sqlite" => IsInjective(handed) /\ ToSet(handed) \subseteq keys'
      BY <1>1 DEF Audited
    <2>5. sink' \in {"none", "memory", "sqlite"} /\ handed' = handed /\ sink' = sink
      BY <1>4 DEF Audited
    <2> QED BY <2>2, <2>3, <2>4, <2>5 DEF Audited
  <1>5. ASSUME NEW batch \in Batches, Curate(batch) PROVE Audited'
    <2>1. /\ call'.batch = batch /\ installed' = installed
          /\ call'.left = AuditRecords(Planned(batch, installed))
          /\ UNCHANGED <<sink, handed, memory, disk>>
      BY <1>5 DEF Curate, vars
    <2>2. batch \in AnyBatch
      BY DEF Batches, AnyBatch
    <2>3. Due' = call'.left /\ Due' \in Seq(CandidateIds)
      BY <2>1, <2>2, RecordsOfAPlan DEF Due
    <2>4. Made(0)'
      <3>1. 0 \in 0..Len(Due')
        BY <2>3
      <3>2. call'.left = Rest(Due', 0)
        BY <2>3, <3>1, TheRest
      <3> HIDE DEF Due
      <3> QED BY <3>1, <3>2 DEF Made
    <2>5. keys' = keys
      BY <2>1 DEF Keys
    <2> QED BY <2>1, <2>4, <2>5 DEF Audited
  <1>6. CASE AppendInMemory
    <2>1. /\ call.left # << >> /\ sink # "sqlite"
          /\ memory' = IF sink = "memory" THEN Append(memory, Head(call.left)) ELSE memory
          /\ call' = [call EXCEPT !.left = Tail(@)]
          /\ UNCHANGED <<installed, sink, handed>>
      BY <1>6 DEF AppendInMemory
    <2>2. Head(call.left) = Due[k + 1] /\ Due[k + 1] \in CandidateIds
      BY <1>2, <2>1, TheNextRecord
    <2>3. memory \in Seq(CandidateIds) /\ sink \in {"none", "memory", "sqlite"}
      BY DEF Audited
    <2> DEFINE id == Due[k + 1]
    <2> HIDE DEF id
    <2>4. /\ Append(memory, id) \in Seq(CandidateIds)
          /\ ToSet(Append(memory, id)) = ToSet(memory) \cup {id}
      <3> DEFINE one == <<id>>
      <3>1. id \in CandidateIds
        BY <2>2 DEF id
      <3>2. one \in Seq(CandidateIds) /\ ToSet(one) = {id} /\ Append(memory, id) = memory \o one
        BY <2>3, <3>1 DEF ToSet
      <3>3. Append(memory, id) \in Seq(CandidateIds)
        BY <2>3, <3>1
      <3> HIDE DEF one
      <3> QED BY <2>3, <3>2, <3>3, ElementsOfConcatenation
    <2>5. memory' \in Seq(CandidateIds)
      BY <2>1, <2>2, <2>3, <2>4 DEF id
    <2>6. sink # "none" => Recorded' = Recorded \cup {id}
      BY <2>1, <2>2, <2>3, <2>4 DEF Recorded, id
    <2>7. Made(k + 1)'
      BY <1>2, <2>1, <2>6, OneMoreIsMade DEF id
    <2>8. k + 1 \in Nat
      OBVIOUS
    <2> QED BY <2>1, <2>5, <2>7, <2>8 DEF Audited
  <1>7. CASE AppendDurably
    <2>1. /\ call.left # << >> /\ sink = "sqlite"
          /\ RecordAudit(Head(call.left))
          /\ call' = IF disk' # disk THEN [call EXCEPT !.left = Tail(@)] ELSE Idle
          /\ UNCHANGED <<installed, sink, handed, memory>>
      BY <1>7 DEF AppendDurably
    <2>2. Head(call.left) = Due[k + 1] /\ Due[k + 1] \in CandidateIds
      BY <1>2, <2>1, TheNextRecord
    <2>3. CASE disk' = disk
      BY <1>4, <2>1, <2>3
    <2>4. CASE disk' # disk
      <3>1. Due[k + 1] \notin keys /\ keys' = keys \cup {Due[k + 1]}
        BY <2>1, <2>2, <2>4, AuditRecordIsNew
      <3>2. Recorded = keys /\ Recorded' = keys'
        BY <2>1 DEF Recorded
      <3> HIDE DEF keys, Recorded, Due
      <3>3. Made(k + 1)'
        BY <1>2, <2>1, <2>4, <3>1, <3>2, OneMoreIsMade
      <3>4. k + 1 \in Nat
        OBVIOUS
      <3> QED BY <1>1, <2>1, <3>3, <3>4 DEF Audited, keys
    <2> QED BY <2>3, <2>4
  <1>8. CASE Return
    <2>1. /\ call.left = << >> /\ call' = Idle
          /\ handed' = handed \o OperationIds(Planned(call.batch, installed))
          /\ UNCHANGED <<sink, memory, disk>>
      BY <1>8 DEF Return, vars
    <2>2. OperationIds(Planned(call.batch, installed)) = Due
      BY RecordsOfAPlan DEF DecidedHere, Due
    <2>3. Due \in Seq(CandidateIds)
      BY DueIsASequence
    <2>4. handed \in Seq(CandidateIds)
      BY DEF Audited
    <2>5. sink = "sqlite" => /\ ToSet(Due) \subseteq keys
                             /\ IsInjective(Due) /\ ToSet(Due) \cap ToSet(handed) = {}
      <3>1. sink = "sqlite" => Recorded = keys
        BY DEF Recorded
      <3> QED BY <2>1, <3>1, TheWholePlanIsMade
    <2> HIDE DEF Due
    <2>6. handed' \in Seq(CandidateIds)
      BY <2>1, <2>2, <2>3, <2>4
    <2>7. keys' = keys
      BY <2>1 DEF Keys
    <2>8. ASSUME sink = "sqlite" PROVE IsInjective(handed') /\ ToSet(handed') \subseteq keys'
      <3>1. IsInjective(handed) /\ ToSet(handed) \subseteq keys
        BY <2>8 DEF Audited
      <3>2. IsInjective(handed \o Due)
        BY <2>3, <2>4, <2>5, <2>8, <3>1, InjectiveConcatenation
      <3>3. ToSet(handed \o Due) = ToSet(handed) \cup ToSet(Due)
        BY <2>3, <2>4, ElementsOfConcatenation
      <3> HIDE DEF keys
      <3> QED BY <2>1, <2>2, <2>5, <2>7, <2>8, <3>1, <3>2, <3>3
    <2>9. (call = Idle => Made(0))'
      BY IdleIsMade, PTL
    <2>10. Made(0)'
      <3> HIDE DEF Idle
      <3> QED BY <2>1, <2>9
    <2> QED BY <2>1, <2>6, <2>8, <2>10 DEF Audited
  <1>9. CASE Restart
    BY <1>4, <1>9 DEF Restart
  <1>10. CASE Others
    BY <1>3, <1>10 DEF Others, engine
  <1> QED
    BY <1>3, <1>5, <1>6, <1>7, <1>8, <1>9, <1>10 DEF Step, allVars, engine

LEMMA BehaviourAudits == Behaviour => [](DecidedHere /\ Store /\ Audited)
  <1>1. InitAll => Audited
    BY AuditedInit
  <1>2. DecidedHere /\ Store /\ Audited /\ [Step]_allVars => Audited'
    BY AuditedNext
  <1> QED BY <1>1, <1>2, BehaviourStores, PTL DEF Behaviour

\* With the durable sink no operation is handed to a caller twice, whatever
\* batches are submitted again, in the same process or after a restart.
THEOREM HandedOutAtMostOnce == Behaviour => []HandedOutOnce
  <1>1. Audited => HandedOutOnce
    BY DEF Audited, HandedOutOnce
  <1> QED BY <1>1, BehaviourAudits, PTL

\* curate returns a plan only when the sink has a record of each operation.
THEOREM PlansAreAudited == Behaviour => ReturnedIsAudited
  <1> DEFINE Backed == sink # "none" => ToSet(handed') \subseteq ToSet(handed) \cup Recorded
  <1>1. ASSUME DecidedHere, Store, Audited, [Step]_allVars PROVE Backed
    <2>1. CASE handed' = handed
      BY <2>1
    <2>2. CASE Return
      <3>1. /\ call.left = << >>
            /\ handed' = handed \o OperationIds(Planned(call.batch, installed))
        BY <2>2 DEF Return
      <3>2. OperationIds(Planned(call.batch, installed)) = Due
        BY <1>1, RecordsOfAPlan DEF DecidedHere, Due
      <3>3. Due \in Seq(CandidateIds) /\ handed \in Seq(CandidateIds)
        BY <1>1, DueIsASequence DEF Audited
      <3>4. sink # "none" => ToSet(Due) \subseteq Recorded
        BY <1>1, <3>1, TheWholePlanIsMade
      <3> HIDE DEF Due, Recorded
      <3>5. ToSet(handed \o Due) = ToSet(handed) \cup ToSet(Due)
        BY <3>3, ElementsOfConcatenation
      <3> QED BY <3>1, <3>2, <3>4, <3>5
    <2> HIDE DEF Backed
    <2>3. handed' = handed \/ Return
      BY <1>1 DEF Step, allVars, engine, Curate, AppendInMemory, AppendDurably, Restart, Others
    <2> QED BY <2>1, <2>2, <2>3
  <1>2. DecidedHere /\ Store /\ Audited /\ [Step]_allVars => [Backed]_allVars
    BY <1>1
  <1> QED BY <1>2, BehaviourAudits, PTL DEF Behaviour, ReturnedIsAudited

=============================================================================
