SPECIFICATION Spec
CONSTANTS
    c1 = c1
    c2 = c2
    Clients = {c1, c2}
    Agents = {"a1"}
    Slots = {1, 2}
    MaxSeq = 2
    MaxRequests = 3
    DirectTTLs = {}
    MaxTime = 0
    MaxFaults = 2
    Ops = {"send", "ack"}
    TTLs = {1, 2}
    Skew <- NoSkew
    Second = 1
    FutureLimit = 0
    Retention = 2
    RequestLimit = 2
    FlushLimit = 2
    Routes = 2
    Postgres = TRUE
    Aborts = TRUE
    Direct = Direct
    None = None
INVARIANTS
    AtMostOnce
    AppliedIsDurable
    UnattemptedHasNoEffect
    InSequence
    AckStaysAcked
CHECK_DEADLOCK FALSE
