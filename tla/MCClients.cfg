SPECIFICATION MCSpec
CONSTANTS
    NoReferrer = NoReferrer
    Miners = {a, b, c}
    Rewards = {1, 5}
    MaxEmission = 10
    U64Max = 8
    MINING_SHARE_SCALE = 3
    BPS_DENOMINATOR = 10
    CLAIM_FEE_BPS = 6
    CLAIM_PASSIVE_BPS = 4
    p1 = p1
    p2 = p2
    p3 = p3
    m1 = m1
    m2 = m2
    t1 = t1
    t2 = t2
    NoWallet = NoWallet
    Unknown = Unknown
    NoAccount = NoAccount
    NoOracle = NoOracle
    Wallets = {w1, w2}
    Clicks = {c1, c2}
    MaxChallenges = 3
    MaxChatFaults = 1
    LastRound = 1
    Receipts = {p1, p2, p3}
    RoundOf <- RoundOfReceipt
    RECENT_CHAIN_ROUNDS = 1
    CHUNK_SIZE = 1
    MaxLoads = 1
    MinerOf <- MinerOfReceipt
    Tiles = {t1, t2}
    Stake <- StakeOf
    Prize = 5
    Emission = 4
    Results <- Draws
    MAX_ATTEMPTS = 1
    MaxReloads = 1
    OPENED_AT = 2
    BETTING_ENDS_AT = 4
    SETTLES_AT = 4
    REFUND_AT = 8
    Oracles = {o1, o2}
    Accounts = {a1, a2}
    MaxDrawFaults = 2
CHECK_DEADLOCK FALSE
INVARIANTS UnclaimedLedgerSound SentOnce PostedAsConnected  NoHiddenWin ClaimReportSound PagesPartition RosterExact 
SYMMETRY Symmetry
PROPERTY UnclaimedValuesFair
