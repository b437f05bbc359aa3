SPECIFICATION Spec
CONSTANTS
    Block <- MCBlock
    Genesis = "g"
    NoBlock = "none"
    MaxHeight <- MCMaxHeight
    Parent <- MCParent
    Height <- MCHeight
    Anc <- MCAnc
    Hash <- MCHash
    Difficulty <- MCDifficulty
    CumWork <- MCCumWork
    Reward <- MCReward
    CumSupply <- MCCumSupply
    Burn <- MCBurn
    CumBurn <- MCCumBurn
    Tx <- MCTx
    NoTx = "none"
    Txs <- MCTxs
    KeyImages <- MCKeyImages
    Address <- MCAddress
    Addr <- MCAddr
    Ring <- MCRing
    WellFormed <- MCFew
    ShieldedOk <- MCShieldedOk
    MaxReorgDepth = 3
    UnconditionalDepth = 1
    MessDivisor = 1
    BootstrapHeight = 4
    ExponentCap = 40
    MaxWork = 1000
    CheckpointInterval = 2
    KeepBlocks = 3
    MaxBlockCache = 4
    ReadErrors = FALSE
    WriteErrors = TRUE
    MaxCrashes = 2
INVARIANTS
    UtxoMatchesChain
    ChainInv
CHECK_DEADLOCK FALSE
