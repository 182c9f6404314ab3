SPECIFICATION Spec
CONSTANTS
    MaxDatagramSize = 2
    InitialWindow = 10
    Infinity = 1000
    IsClient = FALSE
    MaxPn <- AppPackets
    MaxTime = 5
    SendUntil = 4
    MaxPtoCount = 2
    Sizes = {2}
    LossDelays = {1}
    PtoBases = {1}
    MaxAckDelay = 0
    MaxPto = 3
INVARIANTS
    TypeOK
PROPERTIES
    ReductionNeedsNewerPacket
CHECK_DEADLOCK FALSE
