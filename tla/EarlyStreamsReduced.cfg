SPECIFICATION EarlySpec
CONSTANTS
    Content <- OneStream
    StreamWindow = 1
    DataWindow = 2
    StreamsWindow = 2
    Rooms = {2}
    DataSlots = {1, 2}
    LimitSlots = {3}
    MaxLosses = 1
    Remembered <- LargerStream
    Answers = {"rejected"}
INVARIANTS FreshLimitsReplace
CHECK_DEADLOCK FALSE
