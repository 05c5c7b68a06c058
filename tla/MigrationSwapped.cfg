SPECIFICATION FairSpec
CONSTANTS
    max_count = 2
    MaxAltProbes = 3
    Addresses = {"a", "b"}
    AckAtOnce = TRUE
    Retires = {}
    MaxMoves = 1
    MaxFaults = 0
PROPERTIES
    SwappedEnds
