SPECIFICATION FairSpec
CONSTANTS
    r1 = r1
    r2 = r2
    t1 = t1
    t2 = t2
    Receipts = {r1, r2}
    Tiles = {t1, t2}
    Layout <- Layouts
    NoSnapshot = NoSnapshot
    SETTLE_BATCH = 1
    MaxFaults = 1
CHECK_DEADLOCK FALSE
INVARIANTS PublishedRosterExact ArchiveExact
PROPERTIES IndexConverges EveryReceiptProcessed
