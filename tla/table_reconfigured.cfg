SPECIFICATION Spec
CONSTANTS
    kGroup = 2
    MAX_WALL_CARD = 2
    WallCounts = {1, 2}
    green = green
    red = red
    Colours <- TwoDecks
    Faces <- OneFace
    kMahjongNorth = North
    kMahjongSouth = South
    NoTile = NoTile
    ErrLimit = 0
    MissFew = 1
    Byte = 6
    AnswerBytes = {1, 2, 3}
    LateReplies = FALSE
    MayReconfigure = TRUE
INVARIANTS TypeOK RPNumCounts OneDeck CleanBetweenRounds LastGroupLast
