\* A peer that may do anything beside an honest seed: three pieces, one at a time, the last one short.
SPECIFICATION Spec
CONSTANTS
    c1 = c1
    c2 = c2
    Conns = {c1, c2}
    Addr <- DistinctAddr
    ID <- DistinctAddr
    Honest = {c2}
    Reliable = {c2}
    PieceLength = 2
    TotalSize = 5
    BlockLength = 2
    MaxActivePieces = 1
    MaxNumPeers = 2
    MaxRequestCount = 2
    StoreMayFail = FALSE
INVARIANTS
    Accounting
    LeftIsMissingBytes
    ActiveWanted
PROPERTY RefinesPieceStore
CHECK_DEADLOCK FALSE
