\* Two pieces, the last one short, and room for two, one or one of them.
SPECIFICATION FairSpec
CONSTANTS
    NumPieces = 2
    PieceSize = 2
    LastSize = 1
    Capacity = 2
    MaxOthers = 2
    MaxFaults = 1
INVARIANTS
    ReadsMatch
    WrittenThrough
    UsageExact
    PanicsExplained
PROPERTY ReadEnds
CHECK_DEADLOCK FALSE
