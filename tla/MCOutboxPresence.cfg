SPECIFICATION Spec
CONSTANTS
    c1 = c1
    c2 = c2
    Clients = {c1, c2}
    Agents = {"a1"}
    Slots = {1, 2}
    MaxSeq = 2
    MaxRequests = 3
    DirectTTLs = {}
    MaxTime = 3
    MaxFaults = 1
    Ops = {"presence"}
    TTLs = {1, 2}
    Skew <- SecondAhead
    Second = 1
    FutureLimit = 0
    Retention = 2
    RequestLimit = 2
    FlushLimit = 1
    Routes = 1
    Postgres = FALSE
    Aborts = TRUE
    Direct = Direct
    None = None
INVARIANTS
    TypeOK
    PresenceNeverRegresses
CHECK_DEADLOCK FALSE
