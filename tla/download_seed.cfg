\* A single honest seed; pieces of two, two and one block.
SPECIFICATION FairSpec
CONSTANTS
    c1 = c1
    Conns = {c1}
    Addr <- DistinctAddr
    ID <- DistinctAddr
    Honest = {c1}
    Reliable = {c1}
    PieceLength = 2
    TotalSize = 5
    BlockLength = 1
    MaxActivePieces = 2
    MaxNumPeers = 1
    MaxRequestCount = 3
    StoreMayFail = FALSE
PROPERTY DownloadCompletes
