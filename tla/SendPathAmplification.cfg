SPECIFICATION Spec
CONSTANTS
    Roles = {FALSE}
    MaxDatagramSize = 2
    Burst = 2
    Windows = {4}
    ServerFlight = 3
    DatagramSizes = {2}
    MaxReceived = 2
    MaxQueued = 3
    MaxProbes = 2
    MaxFlight = 4
INVARIANT AmplificationLimit
