\* The daily host over two connections whose generation wraps, and its progress once the
\* user and the radio leave things alone.
SPECIFICATION FairSpec
CONSTANTS
    GenerationLimit = 1
    AttemptLimits <- MCAttemptLimits
    MaximumOpenAttempts = 2
    HfpTransportSwitch = FALSE
    MediaMonitor = TRUE
    MaxConnects = 2
INVARIANTS
    HostInvariant
PROPERTIES
    DisconnectReleases
    PlaybackStarts
    PlayedSessionCloses
