CONSTANTS
    Slots = {"read"}
    MaxConnects = 1
    MaxSuspends = 1
    MaxTails = 1
SPECIFICATION Spec
PROPERTIES
    ShutdownEnds
