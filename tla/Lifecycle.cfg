SPECIFICATION Spec
CONSTANTS
    MaxIdleTimeout <- IdleTimeout
    Ptos = {1}
    SessionTimeout = 3
    LongestPeriod = 4
    MaxUnderWay = 1
    MaxCloses = 1
    Delays <- SomeDelays
INVARIANTS EndIsReported NeverOversleeps LiveConnectionSleeps
PROPERTIES ClosedIsSilent CloseEndsBoth
CHECK_DEADLOCK FALSE
