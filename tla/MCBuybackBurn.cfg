SPECIFICATION FairSpec
CONSTANTS
    k1 = k1
    k2 = k2
    Keepers = {k1, k2}
    NoKeeper = NoKeeper
    Rounds = {0}
    Allocation <- Allocations
    Rates = {1, 2}
    MAX_BUYBACK = 2
    MIN_BUYBACK = 1
    BLOCKHASH_VALIDITY = 1
    TICK_TIMEOUT = 2
    LEASE_TTL = 3
    Signatures = {1, 2, 3}
    NoSignature = 0
    OrderedSettlement = TRUE
    LandsBetweenReads = FALSE
    MaxDeaths = 1
CHECK_DEADLOCK FALSE
PROPERTY LandedBurnRecorded
