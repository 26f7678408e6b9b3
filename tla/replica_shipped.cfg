SPECIFICATION Spec
CONSTANTS
    Node <- ShippedNode
    Children <- ShippedChildren
    Group <- ShippedGroup
    Endpoints <- ShippedNode
    Lite = {TRUE}
    Thresholds = {1}
    Outcomes = {"right"}
INVARIANT RightAnswersAreMerged
CHECK_DEADLOCK FALSE
