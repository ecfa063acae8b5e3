SPECIFICATION Spec
CONSTANTS
    Agents = {a1, a2}
    Procs = {p1, p2}
    Modes = {"exclusive"}
    TTLs = {2}
    Second = 2
    ResolutionTTL = 4
    Ops = {"claim"}
    MaxTime = 1
    MaxOps = 2
    MaxCrashes = 0
    Nobody = Nobody
INVARIANTS
    ExclusiveHeldByOne
SYMMETRY AgentSymmetry
CHECK_DEADLOCK FALSE
