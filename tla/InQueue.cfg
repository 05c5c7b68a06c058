SPECIFICATION Spec
CONSTANTS
    Streams = {1}
    Size = 3
    Frames <- AllFrames
    sk_rcvbuf = 6
    MsgLens = {2}
    Abandoned = {1}
    StopMayFail = FALSE
INVARIANTS
    MemoryExact
    Reassembly
    EndExact
PROPERTIES
    OrderedDelivery
