\* Three files, two active at a time, control-C at any time, and two
\* connections to the first session, which has room for one.
SPECIFICATION ConnectionsFairSpec
CONSTANTS
    NumFiles = 3
    InfoHash <- DistinctHash
    MaxActive = 2
    MayInterrupt = TRUE
    Conns = {1, 2}
    Target <- FirstTorrent
    ID <- DistinctID
    Self = 0
    MaxNumPeers = 1
INVARIANTS
    ActiveBound
    TableSound
    Announced
PROPERTIES
    QuitExits
    MainReturns
CHECK_DEADLOCK FALSE
