SPECIFICATION Spec
CHECK_DEADLOCK FALSE
CONSTANTS
    TopPercent = 1
    TopLevel = 2
    Capacity = 2
    MaxStirs = 3
    MaxEdges = 2
    MaxSessions = 2
INVARIANTS
    FollowsTheHeadset
