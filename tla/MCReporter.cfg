CONSTANTS
    m1 = m1
    m2 = m2
    c1 = c1
    c2 = c2
    Metrics = {m1, m2}
    Channels = {c1, c2}
    Route <- MCRoute
    ChunkSize = 2
    MaxBatch = 2
    MaxExecs <- MCMaxExecs
    Fallible = TRUE
    Shutdown = Shutdown
SPECIFICATION FairSpec
CHECK_DEADLOCK FALSE
INVARIANTS
    TypeOK
    UnfinishedIsPending
    NothingLostInFlight
    RowsInOrder
    ClosedMeansDurable
PROPERTIES
    KeepsAJournal
    StopBlocksOnlyOnFailure
