CONSTANTS
    Peer = {p, q}
    None = None
    LastBlock = 2
    MaxConcurrent = 1
    MaxQueue = 4
    MaxOrphanBlocks = 1
    StuckLimit = 2
    MaxNonce = 2
    MaxHeaders = 2
    SliceSize = 2
    Faults = {"fast", "early", "slow", "disconnect", "error", "loss", "restart"}
    MaxFaults = 1
SPECIFICATION Spec
SYMMETRY Interchangeable
INVARIANTS
    InFlightAgrees
    OwnedIsQueued
    PublishedTipFresh
    SyncInv
PROPERTIES
    GivesUpOnlyToStartOver
CHECK_DEADLOCK FALSE
