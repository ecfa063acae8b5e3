SPECIFICATION FairSpec
CONSTANTS
    Batch = 1
    OutboxCap = 1
    MaxChunks = 2
    PullPage = 1
    LedgerCap = 2
    Retained = 4
    Backfill = FALSE
    Kinds = {"open", "bad", "private"}
    Origins = {"other", "garbled"}
    MaxStream = 2
    MaxRows = 2
    MaxFaults = 1
    MaxCrashes = 1
    None = None
INVARIANTS
    OnlyOwnMessages
    PullCursorMeansStored
PROPERTIES
    EveryMessageReplicates
    EveryRowArrives
