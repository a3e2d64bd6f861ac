SPECIFICATION FairSpec
CONSTANTS
    t1 = t1
    t2 = t2
    Tiles <- TwoTiles
    Other = Other
    NoTile = NoTile
    BackupSize = 2
    RxSize = 2
INVARIANTS TypeOK NeverWithoutUart FieldOnlyWhenOn
PROPERTY FieldComesOn
