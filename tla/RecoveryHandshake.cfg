SPECIFICATION Spec
CONSTANTS
    MaxDatagramSize = 2
    InitialWindow = 10
    Infinity = 1000
    IsClient = TRUE
    MaxPn <- HandshakePackets
    MaxTime = 3
    SendUntil = 1
    MaxPtoCount = 2
    Sizes = {2}
    LossDelays = {1, 2}
    PtoBases = {1}
    MaxAckDelay = 0
    MaxPto = 3
INVARIANTS
    InFlightIsConserved
    LossTimeNamesOvertaken
    ProbeAnswersExpiredTimer
PROPERTIES
    OvertakenResolves
CHECK_DEADLOCK FALSE
