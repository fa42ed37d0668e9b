SPECIFICATION FairSpec
CHECK_DEADLOCK FALSE
CONSTANTS
    PacketLimit = 1
    Qualities = {"990", "660"}
    Default = "990"
    MaxRevision = 2
    s1 = s1
    s2 = s2
    Sessions = {s1, s2}
    MaxMatching = 2
    TraceCapacity = 3
    PlayDelay = 1
    MaxConnections = 2
    MaxKeys = 1
    MaxOpens = 2
    MaxPeerCommands = 1
    MaxHeadsetCommands = 1
    MaxPackets = 1
    Warmup = 2
    Cooldown = 5
    CleanToRaise = 20
INVARIANTS
    ProcessesEndClean
    QualityIsAgreed
    SleeperIsCurrent
    FeedsThisConnection
PROPERTIES
    StoppedProcessesEnd
    AdaptsSlowly
    PromiseIsKept
