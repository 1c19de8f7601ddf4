\* Two peers for one place, one of which speaks the extension protocol.
SPECIFICATION Spec
CONSTANTS
    c1 = c1
    c2 = c2
    Conns = {c1, c2}
    Extended = {c2}
    Pieces = {1}
    MaxQueue = 3
    HighBandwidthSlots = 0
    OptimisticUnchokeCount = 2
    MaxRate = 0
    None = None
INVARIANTS
    NoPieceWhileChoked
    ViewsConverge
    Informed
CHECK_DEADLOCK FALSE
