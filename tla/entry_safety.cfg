SPECIFICATION Spec
CONSTANTS
    Submissions <- S2
    Rids <- R2
    Children <- TwoChildren
    Record <- Rows
    Query <- TwoShortQueries
    MaxConcurrent = 1
    ChunkSizes = {1, 2}
    ChunkTimeout = 1
    Timing = "any"
    Faults = {"cancel", "child", "loss", "call"}
INVARIANTS
    TypeOK
    SlotAccounting
    QueueMirrorsCache
    CancelledNeverCached
    CancelReachesWorkers
    NoOrphanedEntry
    ExactDelivery
    FailureHasCause
PROPERTIES
    NoLostTurn
CHECK_DEADLOCK FALSE
