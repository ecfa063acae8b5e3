SPECIFICATION HubSpec

CONSTANTS
    JProcs = {1, 2}
    MaxFiles = 2
    Scopes = {"s1", "s2"}
    RequestKinds = {"send", "presence"}
    PendingLimit = 2
    PassLimit = 2
    JournalLimit = 5
    JBudgets <- JournalBudgets

    WPosters = {1, 2}
    WBatchSize = 2
    WPage = 1
    WRetained = 2
    WMaxInsert = 1
    WFlushers = {1}
    WMaxPosts = 3
    WStarts <- WriterStarts

    ISessions = {1, 2}
    ILanes = {"all", "red"}
    ITags = {"red", "blue"}
    ILimit = 1
    IPageSize = 2
    IScanLimit = 3
    INoteMaxlen = 4
    IMaxNotes = 5
    IStarts <- InboxStarts

    AMsgs = {1, 2}
    AWindow <- AckWindow
    APendingTtl = 1
    ARetention = 2
    AMaxClock = 3
    ABudgets <- AckBudgets

    PHubs = {1, 2}
    PProcs = {1, 2}
    PTtls = {1, 2, 3}
    PRejects <- TooLong
    PBatch = 2
    PMaxAttempts = 2
    PMaxClock = 1
    PMaxSaid = 2
    PBudgets <- PresenceBudgets

    EClients = {1}
    EMaxMsgs = 3
    EHistory = 2
    ECapacity = 2
    ERetained = 3
    EBudgets <- EventBudgets

    VStreams = {"s"}
    VAgents = {"a"}
    VCapacity = 1
    VHistory = 2
    VBudgets <- StopBudgets

    SAgents = {"a", "b"}
    SVouching = {"op"}
    SItems <- StoreItems
    SPosts <- StorePosts
    SLimit = 1
    SMaxSeq = 5
    SBudgets <- StoreBudgets

    TProcs = {1, 2}
    TIdents <- Roster
    TRoleOf <- RosterRoles
    TSelected = "me"
    TMaxTokens = 3
    TStarts <- TokenStarts

    RSessions = {1, 2}
    RServers = {2}
    RNets = {"away", "home", "road"}
    RHubs = {"h", "c"}
    RStarts <- RouteStarts

INVARIANTS
    HubTypeOK
    RetentionIsDurable
    SentNeverExpires
    RetiredOwesNothing
    NoSilentLoss
    FlushMeansSettled
    NothingSkipped
    OverdueIsExact
    PulledIsNewer
    PushedRejectedOrLate
    LastIdMissesNothing
    NothingOutlivesService
    CloudDelivery
    CloudAccessKept
    AuthorityFirst

PROPERTIES
    QueueDrains
    DebtIsRepaid
    EveryNotificationIsRead
    StopCompletes

\* The parts stop when their budget is used up.
CHECK_DEADLOCK FALSE
