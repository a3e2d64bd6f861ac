SPECIFICATION FairSpec
CONSTANTS
    kGroup = 2
    kHiReaderNumber = 5
    kRetryCount = 2
    kMaxAdminPaiCount = 2
    Byte = 256
    t1 = t1
    t2 = t2
    LiveTiles <- TwoTiles
    MaxHandOvers = 2
    MaxWork = 3
    LinkCap = 1
    NoTransID = NoTransID
    BareAcks <- Walls
INVARIANTS TypeOK SentIsReceived
PROPERTIES WallsAreMailboxes WallsSettle LiveSettles
