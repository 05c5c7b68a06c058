SPECIFICATION Spec
CONSTANTS
    Streams = {s1, s2}
    Total = 3
    max_data = 3
    stream_window = 2
    mss = 1
    MaxFrame = 2
    Announces = FALSE
    Abandoned = {}
    MayPress = TRUE
    MayFail = FALSE
    Repeated = {}
    MaxInFlight = 3
INVARIANTS
    NoFlowError
CHECK_DEADLOCK FALSE
