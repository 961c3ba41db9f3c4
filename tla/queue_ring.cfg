SPECIFICATION FairRingSpec
CONSTANTS
    Bits = 3
    Requested = 3
    MaxPackets = 11
INVARIANTS
    NoDataRace
PROPERTIES
    ImplementsFifo
CHECK_DEADLOCK FALSE
