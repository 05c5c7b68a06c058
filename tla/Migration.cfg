SPECIFICATION FairSpec
CONSTANTS
    max_count = 2
    MaxAltProbes = 1
    Addresses = {"a", "b"}
    AckAtOnce = FALSE
    Retires = {"dest"}
    MaxMoves = 1
    MaxFaults = 1
INVARIANTS
    TypeOK
    NoConnIdError
    UsableIds
    ValidatedPath
    AltKept
PROPERTIES
    ProbingEnds
