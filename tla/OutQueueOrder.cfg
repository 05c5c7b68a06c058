SPECIFICATION Spec
CONSTANTS
    kinds <- Abandon
    corked = {}
    mss = 2
    Windows = {3}
    MayPace = FALSE
    MaxFaults = 1
INVARIANTS
    QueueOrder
