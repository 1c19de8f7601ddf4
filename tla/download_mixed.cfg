\* A peer that may do anything beside an honest seed: one piece of two blocks.
SPECIFICATION FairSpec
CONSTANTS
    c1 = c1
    c2 = c2
    Conns = {c1, c2}
    Addr <- DistinctAddr
    ID <- DistinctAddr
    Honest = {c2}
    Reliable = {c2}
    PieceLength = 4
    TotalSize = 4
    BlockLength = 2
    MaxActivePieces = 2
    MaxNumPeers = 2
    MaxRequestCount = 2
    StoreMayFail = FALSE
INVARIANTS
    PieceSetVerified
    InterestSound
    NoRequestLeak
PROPERTY ClosedPeersCleanedUp
CHECK_DEADLOCK FALSE
