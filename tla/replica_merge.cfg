SPECIFICATION Spec
CONSTANTS
    Node <- MCNode
    Children <- MCChildren
    Group <- MCGroup
    Endpoints <- MCNode
    Lite = {TRUE, FALSE}
    Thresholds = {0, 1}
    Outcomes = {"right", "failed", "mutation", "bare", "wrong_aggregation"}
INVARIANTS
    TypeOK
    OwnAnswersInOrder
    MergesWhoAnswered
    NoQuorumEver
CHECK_DEADLOCK FALSE
