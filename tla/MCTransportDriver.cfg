CONSTANTS
    Slots = {"mediaOpen", "mediaWrite"}
    MaxConnects = 2
    MaxSuspends = 1
    MaxTails = 1
SPECIFICATION Spec
INVARIANTS
    NoOutboundOpen
    ChannelsAreAccounted
