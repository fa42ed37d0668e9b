\* The host with the HFP switch and the media monitor, over two connections.
SPECIFICATION Spec
CONSTANTS
    GenerationLimit = 2
    AttemptLimits <- MCAttemptLimits
    MaximumOpenAttempts = 2
    HfpTransportSwitch = TRUE
    MediaMonitor = TRUE
    MaxConnects = 2
INVARIANTS
    OwnershipInvariant
PROPERTIES
    KeepsAuthority
