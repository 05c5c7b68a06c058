SPECIFICATION FairSpec
CONSTANTS
    BASE_PLPMTU = 12
    MIN_PLPMTU = 5
    MAX_PLPMTU = 30
    MAX_PROBES = 3
    PL_BIG_STEP = 8
    PL_MIN_STEP = 2
    RouteMtu = 32
    max_udp_payload_size = 25
    Sizes = {10, 12, 21, 30}
    CtrlSize = 1
    MaxChanges = 2
    MaxFaults = 1
INVARIANTS
    TypeOK
    SearchSound
PROPERTIES
    Settles
