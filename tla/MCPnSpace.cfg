SPECIFICATION Spec
CONSTANTS
    MAP_SIZE = 6
    MAP_LIMIT = 4
    MAP_INITIAL = 1
    MAP_INCREMENT = 1
    BITS_PER_LONG = 2
    MAX_GABS = 2
    MaxPn = 12
    PacketNumbers <- MCPacketNumbers
INVARIANTS
    Window
    CheckExact
    AckExact
PROPERTIES
    RefusedForGood
