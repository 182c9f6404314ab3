SPECIFICATION Spec
CONSTANTS
    Roles = {TRUE, FALSE}
    MaxDatagramSize = 2
    Burst = 2
    Windows = {4}
    ServerFlight = 2
    DatagramSizes = {1, 2}
    MaxReceived = 3
    MaxQueued = 2
    MaxProbes = 2
    MaxFlight = 4

INVARIANTS TypeOK AmplificationBounded
PROPERTIES PacerLetsAcksOut ProbesGoOut WindowOverrunBounded
