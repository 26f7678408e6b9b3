SPECIFICATION FairSpec
CONSTANTS
    Submissions <- S2
    Rids <- R2
    Children <- OneChild
    Record <- Rows
    Query <- TwoTails
    MaxConcurrent = 1
    ChunkSizes = {1}
    ChunkTimeout = 1
    Timing = "any"
    Faults = {"cancel", "abandon", "child", "loss", "call"}
PROPERTIES
    EveryQueryEnds
    ImplementsQueryService
    CacheDrains
CHECK_DEADLOCK FALSE
