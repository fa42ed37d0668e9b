\* Every event sequence, for two attempt budgets and the four policies.
SPECIFICATION LedgerSpec
CONSTANTS
    GenerationLimit = 2
    AttemptLimits <- MCAttemptLimits
INVARIANTS
    LedgerTypeOK
    ConsistentLifecycle
    BoundedOpens
    ScheduledRetryStarts
PROPERTIES
    EngineLedger
    TransportLedger
