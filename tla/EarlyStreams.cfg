SPECIFICATION EarlySpec
CONSTANTS
    Content <- OneStream
    StreamWindow = 3
    DataWindow = 2
    StreamsWindow = 1
    Rooms = {1, 2}
    DataSlots = {1, 2}
    LimitSlots = {3}
    MaxLosses = 1
    Remembered <- Smaller
    Answers = {"accepted", "rejected", "retried"}
INVARIANTS NoStreamError SenderKnows
PROPERTIES ReliableByteStream FinishIsConfirmed
CHECK_DEADLOCK FALSE
