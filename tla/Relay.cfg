SPECIFICATION Spec
CONSTANTS
    na = na
    nb = nb
    nc = nc
    t1 = t1
    Node = {na, nb, nc}
    Tx = {t1}
    None = None
    MaxStempool = 2
    Dials <- TriangleDials
    Wallets <- AWallet
    MaxDrops = 1
INVARIANTS
    StemIsHidden
    RelayInv
PROPERTIES
    
    OriginAnnounces
    OriginPeersLearn
CHECK_DEADLOCK FALSE
