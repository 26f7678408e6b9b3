SPECIFICATION Spec
CONSTANTS
    Submissions <- S2
    Rids <- R2
    Children <- TwoChildren
    Record <- Rows
    Query <- EmptyTail
    MaxConcurrent = 1
    ChunkSizes = {1, 2}
    ChunkTimeout = 1
    Timing = "frozen"
    Faults = {}
INVARIANT NoFailureWithoutFault
CHECK_DEADLOCK FALSE
