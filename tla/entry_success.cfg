SPECIFICATION FairSpec
CONSTANTS
    Submissions <- S2
    Rids <- R2
    Children <- TwoChildren
    Record <- Rows
    Query <- TwoShortQueries
    MaxConcurrent = 1
    ChunkSizes = {1}
    ChunkTimeout = 1
    Timing = "frozen"
    Faults = {"cancel", "child", "loss"}
PROPERTY EveryQuerySucceeds
CHECK_DEADLOCK FALSE
