SPECIFICATION Spec
CONSTANTS
    Submissions <- S3
    Rids <- R1
    Children <- TwoChildren
    Record <- Rows
    Query <- OneRid
    MaxConcurrent = 2
    ChunkSizes = {1, 2}
    ChunkTimeout = 1
    Timing = "frozen"
    Faults = {"cancel"}
INVARIANT QueuedIsCached
CHECK_DEADLOCK FALSE
