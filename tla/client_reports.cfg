\* Two levels of trackers that answer, fail or never answer.
SPECIFICATION RelaySpec
CONSTANTS
    NumLevels = 2
    LevelSize <- TwoLevelSizes
    AnnounceList <- TwoLevels
    Trackerless = FALSE
    HaveTorrent = TRUE
    MaxReports = 3
INVARIANT TrackersKept
PROPERTIES
    NeverHeldUp
    QuitEnds
    LatestAnnounced
