SPECIFICATION GovernanceSpec
CONSTANTS
    r1 = r1
    r2 = r2
    t1 = t1
    c1 = c1
    c2 = c2
    i1 = i1
    i2 = i2
    i3 = i3
    i4 = i4
    ev1 = "ev1"
    Profiles <- RegisteredProfiles
    Entities = {1, 2, 3, 4, 5, 6, 7, 8, 9}
    View <- Views
    Owned = {4}
    AllowMultiple = {}
    Seed = 1
    Resolvers = {r1, r2}
    Assignments <- AllAssignments
    NoCase = NoCase
    EvidenceIds = {"ev1"}
    Advised = TRUE
    Lookups = {"orchestrator", "adviser"}
    Contents <- EvidenceStates
    Responses <- PortResponses
    Terms = {t1}
    Curators = {c1, c2}
    NoTerm = NoTerm
    ReviewItems = {i1, i2, i3, i4}
    CaseOf <- FourItems
    Budgets <- SmallBudgets
    Hours <- Readings
INVARIANT TypeOK
INVARIANT AuthorityNeverCrossed
INVARIANT BaselineStands
INVARIANT ReplayReproduces
INVARIANT ApprovalNeverSkipped
PROPERTY ImplementsLinkedCluster
PROPERTY EveryPairDecided
PROPERTY PressureIsHeard
CHECK_DEADLOCK FALSE
