SPECIFICATION FairSpec
CONSTANTS
    Block <- MCBlock
    Genesis = "g"
    NoBlock = "none"
    MaxHeight <- MCMaxHeight
    Parent <- MCParent
    Height <- MCHeight
    Anc <- MCAnc
    Hash <- MCHash
    Difficulty <- MCDifficulty
    CumWork <- MCCumWork
    Reward <- MCReward
    CumSupply <- MCCumSupply
    Burn <- MCBurn
    CumBurn <- MCCumBurn
    Tx <- MCTx
    NoTx = "none"
    Txs <- MCTxs
    KeyImages <- MCKeyImages
    Address <- MCAddress
    Addr <- MCAddr
    Ring <- MCRing
    WellFormed <- MCBlock
    ShieldedOk <- MCShieldedOk
    MaxReorgDepth = 5
    UnconditionalDepth = 1
    MessDivisor = 1
    BootstrapHeight = 6
    ExponentCap = 40
    MaxWork = 1000
    CheckpointInterval = 5
    KeepBlocks = 5
    MaxBlockCache = 4
    ReadErrors = FALSE
    WriteErrors = FALSE
    MaxCrashes = 0
INVARIANTS
    FollowsBestChain
PROPERTIES
    ConvergesToBestChain
CHECK_DEADLOCK FALSE
