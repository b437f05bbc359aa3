SPECIFICATION Spec
CONSTANTS
    Block <- MCBlock
    Genesis = "g"
    NoBlock = "none"
    MaxHeight <- MCMaxHeight
    Parent <- MCParent
    Height <- MCHeight
    Anc <- MCAnc
    Hash <- MCHash
    Difficulty <- MCDifficulty
    CumWork <- MCCumWork
    Reward <- MCReward
    CumSupply <- MCCumSupply
    Burn <- MCBurn
    CumBurn <- MCCumBurn
    Tx <- MCTx
    NoTx = "none"
    Txs <- MCTxs
    KeyImages <- MCKeyImages
    Address <- MCAddress
    Addr <- MCAddr
    Ring <- MCRing
    WellFormed <- MCBlock
    ShieldedOk <- MCBlock
    MaxReorgDepth = 2
    UnconditionalDepth = 3
    MessDivisor = 1
    BootstrapHeight = 4
    ExponentCap = 40
    MaxWork = 1000
    CheckpointInterval = 5
    Sound <- MCSound
    LinkingTags <- MCLinkingTags
    Size <- MCSize
    Fee <- MCFee
    TxHash <- MCTxHash
    MaxSize = 4
    MaxTxSize = 4
    MinFeePerByte = 1
    FeeScale = 10
    MaxEvictionAttempts = 1
    TxExpiryBlocks = 1
    Handler = {"wire", "rpc"}
    Client = {"c"}
    Wire = "wire"
    NoThread = "none"
    MaxGenerationAttempts = 2
    MaxUpdates = 3
INVARIANTS
    IndicesAgree
    SizeAccounted
    PoolMineable
    PoolInv
PROPERTIES
    DropsOnlyCheaper
    RefusalChangesNothing
CHECK_DEADLOCK FALSE
