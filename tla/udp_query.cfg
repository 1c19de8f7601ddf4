\* Three connection requests and an announcement.
SPECIFICATION UdpFairSpec
CONSTANT Retries = 3
INVARIANTS
    AnnounceConnected
    AnswersMatch
PROPERTY QueryEnds
