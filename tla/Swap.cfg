CONSTANTS
    None = None
    SwapId = {s1, s2}
    Terms <- SomeTerms
    MaxDials = 2
    MaxCrashes = 2
SPECIFICATION FairSpec
INVARIANTS  HandshakeInOrder FileNotAhead SwapInv
PROPERTIES ImplementsAtomicSwap Settles
CHECK_DEADLOCK FALSE
