SPECIFICATION Spec
CONSTANTS
    p1 = p1
    p2 = p2
    p3 = p3
    m1 = m1
    m2 = m2
    t1 = t1
    t2 = t2
    Receipts = {p1, p2, p3}
    RoundOf <- RoundOfReceipt
    MinerOf <- MinerOfReceipt
    Tiles = {t1, t2}
    Stake <- StakeOf
    LastRound = 1
    Results <- Draws
    Prize = 5
    Emission = 4
    MAX_ATTEMPTS = 1
    Unknown = Unknown
    MaxReloads = 1
CHECK_DEADLOCK FALSE
INVARIANT NoPartialRosterCached
