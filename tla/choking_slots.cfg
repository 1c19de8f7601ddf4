\* Four peers for one slot and the optimist.
SPECIFICATION FairSpec
CONSTANTS
    c1 = c1
    c2 = c2
    c3 = c3
    c4 = c4
    Conns = {c1, c2, c3, c4}
    HighBandwidthSlots = 1
    OptimisticUnchokeCount = 3
    MaxRate = 1
    None = None
INVARIANTS
    UploadSlots
PROPERTY NobodyStarves
