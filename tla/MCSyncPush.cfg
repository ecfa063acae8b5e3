SPECIFICATION Spec
CONSTANTS
    Batch = 2
    OutboxCap = 3
    MaxChunks = 2
    PullPage = 1
    LedgerCap = 1
    Retained = 3
    Backfill = FALSE
    Kinds = {"open", "private", "bad"}
    Origins = {}
    MaxStream = 4
    MaxRows = 0
    MaxFaults = 2
    MaxCrashes = 1
    None = None
INVARIANTS
    TypeOK
    CursorMeansReplicated
    CloudInStreamOrder
