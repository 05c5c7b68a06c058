SPECIFICATION FairSpec
CONSTANTS
    kinds <- Opening
    corked = {2}
    mss = 2
    Windows = {3}
    MayPace = TRUE
    MaxFaults = 1
PROPERTIES
    AllDone
