SPECIFICATION Spec
CONSTANTS
    t1 = t1
    t2 = t2
    alice = alice
    bob = bob
    Tiles = {t1, t2}
    Miners = {alice}
    RoundIds = {0, 1}
    Nonces = {0}
    Wagers <- WagersRollover
    U64Max = 1000
    BPS_DENOMINATOR = 20
    MINING_STAKING_BPS = 2
    MINING_BUYBACK_BPS = 1
    MINING_MOTHERLODE_BPS = 10
    MINING_ADMIN_BPS = 3
    STAKING_ADMIN_SHARE_BPS = 8
    GENESIS_BASE_UNITS = 1
    MAX_SUPPLY = 9
    BASE_ROUND_EMISSION = 4
    MOTHERLODE_ROUND_EMISSION = 3
    MINIMUM_ROUND_LAMPORTS = 2
    BETTING_DURATION = 1
    WINNER_DISPLAY = 1
    PREPARATION_LEAD = 1
    REFUND_DELAY = 1
    Production = TRUE
    MaxTime = 5
    MaxReceipts = 1
INVARIANTS MotherlodeBacked MyneConserved
