SPECIFICATION FairCommandsSpec
CONSTANTS
    Counts <- AllCounts
    ValidCounts <- InRange
    kDefaultMahjongCount <- W34
    Channels = {1, 2}
    Volumes = {2, 7, 9}
    ValidVolumes = {2, 7}
    kMaxVolume = 7
    KeyUid = KeyUid
    Blank = Blank
    TransIDs = {3}
    Garbage = {2, 3, 7}
    MaxFaults = 1
INVARIANTS TypeOK RestartChangesNothing FrameInBuffer OnlyWhatWasSent
PROPERTIES RestartKeepsOrDefaults WholeFrameExecuted RepeatedTakesEffect
