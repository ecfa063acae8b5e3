SPECIFICATION Spec
CONSTANTS
    Batch = 1
    OutboxCap = 1
    MaxChunks = 2
    PullPage = 1
    LedgerCap = 1
    Retained = 4
    Backfill = FALSE
    Kinds = {"open"}
    Origins = {"other"}
    MaxStream = 1
    MaxRows = 1
    MaxFaults = 0
    MaxCrashes = 1
    None = None
INVARIANTS
    StoredIsNotified
