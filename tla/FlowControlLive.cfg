SPECIFICATION FairSpec
CONSTANTS
    Streams = {s1, s2}
    Total = 5
    max_data = 5
    stream_window = 3
    mss = 2
    MaxFrame = 2
    Announces = FALSE
    Abandoned = {}
    MayPress = FALSE
    MayFail = FALSE
    Repeated = {}
    MaxInFlight = 3
INVARIANTS
    NoFlowError
    CreditReturns
PROPERTIES
    AllRead
CHECK_DEADLOCK FALSE
