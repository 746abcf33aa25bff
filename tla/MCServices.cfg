SPECIFICATION ServicesSpec
CONSTANTS
    k1 = k1
    k2 = k2
    r1 = r1
    r2 = r2
    w1 = w1
    w2 = w2
    p1 = p1
    p2 = p2
    NoReveal = NoReveal
    NoHostRound = NoHostRound
    Never = Never
    NoCursor = NoCursor
    NoWallet = NoWallet
    ROUND = 3
    BETTING = 2
    MARGIN = 0
    GRACE = 1
    LOOKBACK = 2
    RETAINED = 0
    FirstManaged = 0
    LastRound = 1
    MaxTime = 6
    MaxHostFaults = 1
    MaxPauses = 1
    Wallets = {w1, w2}
    Receipts = {p1, p2}
    Owner <- Owners
    Winning = {p1}
    MaxSwitches = 2
    MaxReadFaults = 1
    Keepers = {k1, k2}
    NoKeeper = NoKeeper
    Rounds = {0, 1}
    Allocation <- Allocations
    Rates = {1, 2}
    MAX_BUYBACK = 2
    MIN_BUYBACK = 1
    BLOCKHASH_VALIDITY = 1
    TICK_TIMEOUT = 2
    LEASE_TTL = 3
    Signatures = {1, 2, 3}
    NoSignature = 0
    OrderedSettlement = TRUE
    LandsBetweenReads = FALSE
    MaxDeaths = 3
CHECK_DEADLOCK FALSE
INVARIANTS OneKeeperAtWork  HostSound 
PROPERTIES SwapDecided DeadKeeperReplaced IncidentReachesDisk WorkerRecovers  LedgerShown EverySettlementReported
