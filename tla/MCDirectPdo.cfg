\* The render path over one PnP lifetime, with one loss, one recovery and one packet.
CONSTANTS
    MaxOpenAttempts = 2
    MaxIntents = 5
    MaxDisconnects = 1
    MaxRecoveries = 1
    MaxPackets = 1
SPECIFICATION FairSpec
INVARIANTS
    Consistent
    SessionInvariant
PROPERTIES
    NoWriteAcrossLinks
    WorkEnds
