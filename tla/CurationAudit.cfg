SPECIFICATION Behaviour
CONSTANTS
    e1 = e1
    e2 = e2
    x1 = x1
    s0 = s0
    s1 = s1
    r1 = r1
    r2 = r2
    Ids = {e1, e2}
    Executions = {x1}
    Semantics <- SemanticRecords
    Old <- OldRecord
    Forged = Forged
    MaxRows = 2
    MaxOwn = 1
    Home = "home"
    Exact = FALSE
    MemoryBatches <- EveryShape
    SqliteBatches <- SureBatches
    Releases <- TwoReleases
    MaxCalls = 2
INVARIANT TypeOK
INVARIANT RefsWhole
INVARIANT RefusedOnlyDuplicates
INVARIANT PlannedIsDeserving
INVARIANT RouteNeverLowered
INVARIANT HandedOutOnce
PROPERTY GuardedRowsStand
PROPERTY OpeningKeepsTheCaller
PROPERTY ReturnedIsAudited
PROPERTY UpgradeKeepsCandidates
CHECK_DEADLOCK FALSE
