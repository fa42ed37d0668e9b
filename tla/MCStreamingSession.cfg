SPECIFICATION FairSpec
CHECK_DEADLOCK FALSE
CONSTANTS
    SingleGain = FALSE
    PauseSuspend = TRUE
    SinkLists <- MCSinkLists
    Formats = {f44, f48}
    MaxEpochs = 2
    MaxCommands = 1
    MaxRestarts = 1
    MaxAttempts = 2
    Tolerance = 1
INVARIANTS
    MediaMatchesStream
    EndsAccounted
PROPERTIES
    StopReturns
