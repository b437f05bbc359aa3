CONSTANTS
    Peer = {p}
    None = None
    LastBlock = 2
    MaxConcurrent = 2
    MaxQueue = 4
    MaxOrphanBlocks = 1
    StuckLimit = 2
    MaxNonce = 2
    MaxHeaders = 2
    SliceSize = 2
    Faults = {"error", "loss"}
    MaxFaults = 1
SPECIFICATION FairSpec
PROPERTIES
    OrphansFedBack
CHECK_DEADLOCK FALSE
