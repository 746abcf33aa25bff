SPECIFICATION FairSpec
CONSTANTS
    t1 = t1
    t2 = t2
    alice = alice
    bob = bob
    Tiles = {t1, t2}
    Miners = {alice, bob}
    RoundIds = {0}
    Nonces = {0}
    Wagers <- WagersWide
    U64Max = 1000
    BPS_DENOMINATOR = 20
    MINING_STAKING_BPS = 5
    MINING_BUYBACK_BPS = 3
    MINING_MOTHERLODE_BPS = 3
    MINING_ADMIN_BPS = 2
    STAKING_ADMIN_SHARE_BPS = 8
    GENESIS_BASE_UNITS = 1
    MAX_SUPPLY = 9
    BASE_ROUND_EMISSION = 4
    MOTHERLODE_ROUND_EMISSION = 3
    MINIMUM_ROUND_LAMPORTS = 3
    BETTING_DURATION = 1
    WINNER_DISPLAY = 1
    PREPARATION_LEAD = 1
    REFUND_DELAY = 1
    Production = TRUE
    MaxTime = 3
    MaxReceipts = 2
INVARIANTS SettledXorRefunded
PROPERTIES FrozenAfterCommitProperty NeverReopened ImplementsEscrow 
