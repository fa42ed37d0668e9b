SPECIFICATION Spec
CHECK_DEADLOCK FALSE
CONSTANTS
    TopPercent = 2
    TopLevel = 4
    Capacity = 2
    MaxStirs = 2
    MaxEdges = 2
    MaxSessions = 2
INVARIANTS
    VolumesSettle
    AdoptsOnce
    ReconnectsAfresh
    ChannelHasOneClient
