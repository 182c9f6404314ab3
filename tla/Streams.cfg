SPECIFICATION Spec
CONSTANTS
    Content <- ThreeStreams
    StreamWindow = 1
    DataWindow = 1
    StreamsWindow = 2
    Rooms = {1}
    DataSlots = {1, 2}
    LimitSlots = {3}
    MaxLosses = 1
PROPERTIES ReliableByteStream LimitMoves
CHECK_DEADLOCK FALSE
