\* Three clients, two of them at one address, the reaper and an interrupt.
SPECIFICATION FairSpec
CONSTANTS
    Clients = {"a", "b", "c"}
    Key <- RestartedKey
    V4 = {"a", "c"}
    Wants = {0, 1}
    DefaultPeerCount = 3
    MaxTime = 1
    MayInterrupt = TRUE
    None = None
    Reaper = Reaper
INVARIANT Introduced
PROPERTIES
    AnnounceReplied
    InterruptEnds
