SPECIFICATION Spec
CONSTANTS
    MaxPackets = 3
    KeyUpdateInterval = 1
    PnWindows = {6, 12}
    PnLimit = 24
INVARIANT
    AheadEndpointHearsPeer
