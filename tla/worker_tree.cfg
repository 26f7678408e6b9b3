SPECIFICATION FairSpec
CONSTANTS
    Calls <- MCCalls
    Top = "A"
    Under <- MCUnder
    Worker <- MCWorker
    Asked <- MCAsked
    Rids <- MCRids
    Rid <- MCRid
    Record <- MCRecord
    Local <- MCLocal
    ChunkSize = 2
    PoolSize = 1
    Faults = {"deadline", "drop"}
INVARIANTS
    TypeOK
    ExactRows
    OnlyFaultsFail
    HeldForCaller
PROPERTY EveryCallEnds
CHECK_DEADLOCK FALSE
