SPECIFICATION ContentSpec
CONSTANTS
    NoSurface = NoSurface
    Nobody = Nobody
    Bus = Bus
    NoPicture = NoPicture
    n1 = n1
    n2 = n2
    o1 = o1
    o2 = o2
    e1 = e1
    e2 = e2
INVARIANTS PicturesRight FilesAsWritten PlayersSettle RowsAsMeant PassesAsWritten ScriptsKeepTheirs
PROPERTIES ShownInOrder
CHECK_DEADLOCK FALSE
