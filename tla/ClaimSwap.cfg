CONSTANTS
    None = None
    SwapId = {s1}
    Terms <- SomeTerms
    MaxDials = 1
    MaxCrashes = 1
SPECIFICATION Spec
INVARIANT AliceRefundedIsWhole
CHECK_DEADLOCK FALSE
