SPECIFICATION FairSpec
CHECK_DEADLOCK FALSE
CONSTANTS
    a = a
    b = b
    None = None
    Threads = {a, b}
    ClientOf <- MCClientOf
    Reporters = {b}
    Wanted = {"disconnected", "connecting", "connected"}
    LinkTimeout = 1
    PresenceLease = 2
    PcmLease = 2
    Rate = 4
    Unit = 2
    Block = 2
    Capacity = 6
    MaximumRead = 4
    Interval = 2
    Latency = 2
    MaxPlayed = 16
    MaxEpochs = 2
INVARIANTS
    RingIsFaithful
    ReadKeepsTheEndpoint
PROPERTIES
    ConsumerLeaseHolds
    GoneClientsUnplug
