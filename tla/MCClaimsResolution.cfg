SPECIFICATION Spec
CONSTANTS
    Agents = {a1, a2}
    Procs = {p1}
    Modes = {"exclusive"}
    TTLs = {2}
    Second = 2
    ResolutionTTL = 4
    Ops = {"claim", "resolve", "list"}
    MaxTime = 1
    MaxOps = 4
    MaxCrashes = 0
    Nobody = Nobody
PROPERTIES
    ResolutionIsKept
CHECK_DEADLOCK FALSE
