SPECIFICATION Spec
CONSTANTS
    Submissions <- S3
    Rids <- R1
    Children <- TwoChildren
    Record <- Rows
    Query <- OneRid
    MaxConcurrent = 2
    ChunkSizes = {1}
    ChunkTimeout = 1
    Timing = "any"
    Faults = {"cancel"}
INVARIANTS
    SlotAccounting
    CachedIsQueued
CHECK_DEADLOCK FALSE
