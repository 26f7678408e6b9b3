SPECIFICATION PartsSpec
CONSTANTS
    Workers = {1, 2, 3}
    Files <- MCFiles
    Ranges <- MCRanges
    Rows <- MCRows
    RowCount = 1
    Fields <- MCFields
    FieldCount = 3
    Partitions <- MCPartitions
    CommandLines <- MCCommandLines
    OmpThreads = {1, 2, 3}
    SmallResult = 2
    Int32Half = 8
    NodeIds = {1, 2, 3, 4, 5, 6, 7, 8, 9}
    RootId = 1
    Edges <- MCEdges
    Handlers = {h1, h2}
    Configured = {55, 1990}
    MinSize = 50
    MaxSize = 2000
    WindowSeconds = 1
    MaxTime = 3
    MaxServed = 3
    Kinds <- MCKinds
    Numbers <- MCNumbers
    MaxCalls = 2
INVARIANTS
    PartsTypeOK
    NoLineTwice SameAsSequential
    SplitInvertsWriter ReadAlike
    ExactAnswer NodesAgree
    AskedOnce NearestParent
    SizeFollowsVerdicts SnapshotExact
    RoundTrip SizeMatches ParseMerges
CHECK_DEADLOCK FALSE
