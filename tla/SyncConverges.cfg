CONSTANTS
    Peer = {p}
    None = None
    LastBlock = 3
    MaxConcurrent = 2
    MaxQueue = 4
    MaxOrphanBlocks = 1
    StuckLimit = 2
    MaxNonce = 2
    MaxHeaders = 3
    SliceSize = 2
    Faults = {"slow", "error", "loss", "restart"}
    MaxFaults = 1
SPECIFICATION ExpirySpec
PROPERTIES
    Converges
CHECK_DEADLOCK FALSE
