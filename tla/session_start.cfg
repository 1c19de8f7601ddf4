CONSTANTS
    Layouts <- FileLengths
    TotalSize = 5
    PieceLength = 2
    ByteSize = 2
    Workers = {w1, w2}
    ResultsCap = 1
    MaxFaults = 1
    None = None
    Peers = {p1, p2}
    Full = {p1}
    MetaPieces = 3
SPECIFICATION FairSpec
INVARIANTS ResumeSound MapsFit
PROPERTIES CheckExact CheckEnds NeverForgets MetadataArrive
CHECK_DEADLOCK FALSE
