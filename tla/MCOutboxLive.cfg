SPECIFICATION FairSpec
CONSTANTS
    c1 = c1
    c2 = c2
    Clients = {c1}
    Agents = {"a1"}
    Slots = {1, 2}
    MaxSeq = 2
    MaxRequests = 2
    DirectTTLs = {1}
    MaxTime = 2
    MaxFaults = 1
    Ops = {"send", "presence", "claim"}
    TTLs = {1}
    Skew <- NoSkew
    Second = 1
    FutureLimit = 0
    Retention = 1
    RequestLimit = 2
    FlushLimit = 2
    Routes = 1
    Postgres = TRUE
    Aborts = FALSE
    Direct = Direct
    None = None
PROPERTIES
    EverySubmissionSettles
    KeepsPromise
CHECK_DEADLOCK FALSE
