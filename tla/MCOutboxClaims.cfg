SPECIFICATION Spec
CONSTANTS
    c1 = c1
    c2 = c2
    Clients = {c1}
    Agents = {"a1", "a2"}
    Slots = {1, 2}
    MaxSeq = 1
    MaxRequests = 1
    DirectTTLs = {2}
    MaxTime = 4
    MaxFaults = 2
    Ops = {"claim"}
    TTLs = {2, 4}
    Skew <- NoSkew
    Second = 2
    FutureLimit = 0
    Retention = 4
    RequestLimit = 2
    FlushLimit = 2
    Routes = 1
    Postgres = FALSE
    Aborts = TRUE
    Direct = Direct
    None = None
PROPERTIES
    GrantIsCurrent
CHECK_DEADLOCK FALSE
