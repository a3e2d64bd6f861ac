SPECIFICATION LossySpec
CONSTANTS
    kGroup = 2
    MAX_WALL_CARD = 2
    WallCounts = {2}
    green = green
    red = red
    Colours <- SoleDeck
    Faces <- OneFace
    kMahjongNorth = North
    kMahjongSouth = South
    NoTile = NoTile
    ErrLimit = 1
    MissFew = 1
    Byte = 6
    AnswerBytes = {0, 1, 2}
    LateReplies = FALSE
    MayReconfigure = FALSE
PROPERTIES RoundEnds
