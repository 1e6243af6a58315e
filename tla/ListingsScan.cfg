SPECIFICATION Spec
CONSTANTS
    rev1 = rev1
    rev2 = rev2
    lay1 = lay1
    lay2 = lay2
    lay3 = lay3
    doc1 = doc1
    doc2 = doc2
    doc3 = doc3
    note1 = note1
    note2 = note2
    note3 = note3
    cor1 = cor1
    cor2 = cor2
    log1 = log1
    log2 = log2
    Rows <- AllRows
    Table <- TableOfRow
    Flagged = {rev2, lay3}
    Created <- CreatedAt
    Due <- DueAt
    Feeds <- AllFeeds
    Limit = 1
    MaxMoves = 3
INVARIANTS
    TypeOK
    QueueMissesOnlyDecided
    ListMissesOnlyMoved
    RepeatsOnlyArrivals
CHECK_DEADLOCK FALSE
