SPECIFICATION Spec
CONSTANTS
    Streams = {s1, s2}
    Total = 2
    max_data = 2
    stream_window = 1
    mss = 1
    MaxFrame = 2
    Announces = TRUE
    Abandoned = {s1}
    MayPress = TRUE
    MayFail = TRUE
    Repeated = {"data", "max_stream_data"}
    MaxInFlight = 2
INVARIANTS
    LimitsKept
    CountersAgree
CHECK_DEADLOCK FALSE
