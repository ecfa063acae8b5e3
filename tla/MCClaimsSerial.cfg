SPECIFICATION Spec
CONSTANTS
    Agents = {a1, a2}
    Procs = {p1}
    Modes = {"exclusive", "shared", "ns1"}
    TTLs = {1, 3}
    Second = 2
    ResolutionTTL = 4
    Ops = {"claim", "renew", "release", "resolve", "list"}
    MaxTime = 3
    MaxOps = 3
    MaxCrashes = 1
    Nobody = Nobody
INVARIANTS
    TypeOK
    NoConflictingGrants
    PromisesDoNotConflict
    LeaseKeptToLastSecond
SYMMETRY AgentSymmetry
CHECK_DEADLOCK FALSE
