\* An honest peer that may leave beside an honest seed.
SPECIFICATION FairSpec
CONSTANTS
    c1 = c1
    c2 = c2
    Conns = {c1, c2}
    Addr <- DistinctAddr
    ID <- DistinctAddr
    Honest = {c1, c2}
    Reliable = {c2}
    PieceLength = 1
    TotalSize = 2
    BlockLength = 1
    MaxActivePieces = 3
    MaxNumPeers = 2
    MaxRequestCount = 3
    StoreMayFail = FALSE
PROPERTY DownloadCompletes
CHECK_DEADLOCK FALSE
