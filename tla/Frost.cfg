SPECIFICATION Spec
CONSTANTS
    Participant = {p1, p2, p3}
    Message = {m1}
    Commitment = {k1, k2}
    Share = {s1}
    Signature = {z1}
    None = None
    Torn = Torn
    Threshold = 2
    Total = 2
    Conn = {c1, c2}
    Main = Main
    MaxFaults = 1
SYMMETRY FrostSymmetry
INVARIANTS
    SignedByQuorum
    AcceptedIsKept
    ListenersHearTheEnd
    FrostInv
PROPERTIES
    FileAdvances
CHECK_DEADLOCK FALSE
