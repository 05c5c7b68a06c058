SPECIFICATION FairSpec
CONSTANTS
    Kinds = {FALSE, TRUE}
    max_streams = 1
    Wanted = 2
    Jump = 1
    Resettable = {0}
    Repeated = {0}
    RepeatedTo = {"server"}
    MaxFail = 1
INVARIANTS
    NoLimitError
    Counts
PROPERTIES
    ClosedStays
    AllClosed
CHECK_DEADLOCK FALSE
