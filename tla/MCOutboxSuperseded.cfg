SPECIFICATION Spec
CONSTANTS
    c1 = c1
    c2 = c2
    Clients = {c1}
    Agents = {"a1", "a2"}
    Slots = {1, 2}
    MaxSeq = 1
    MaxRequests = 1
    DirectTTLs = {1}
    MaxTime = 2
    MaxFaults = 1
    Ops = {"claim"}
    TTLs = {1}
    Skew <- NoSkew
    Second = 1
    FutureLimit = 0
    Retention = 1
    RequestLimit = 2
    FlushLimit = 2
    Routes = 1
    Postgres = TRUE
    Aborts = FALSE
    Direct = Direct
    None = None
INVARIANTS
    SupersededHoldsNoGrant
CHECK_DEADLOCK FALSE
