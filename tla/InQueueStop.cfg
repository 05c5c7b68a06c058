SPECIFICATION Spec
CONSTANTS
    Streams = {1}
    Size = 2
    Frames <- AllFrames
    sk_rcvbuf = 6
    MsgLens = {2}
    Abandoned = {1}
    StopMayFail = TRUE
PROPERTIES
    OrderedDelivery
