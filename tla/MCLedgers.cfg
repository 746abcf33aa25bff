SPECIFICATION LedgersSpec
CONSTANTS
    alice = alice
    bob = bob
    w1 = w1
    NoRound = NoRound
    NoWallet = NoWallet
    Stakers = {alice, bob}
    Fundings = {0, 2}
    Stakes = {1, 2}
    Prizes = {1}
    InitialTokens = 2
    U64Max = 7
    REWARD_SCALE = 10
    BURN_WEIGHT_MULTIPLIER = 2
    UNSTAKE_DELAY_SECONDS = 1
    MaxTime = 1
    MaxDistributions = 3
CHECK_DEADLOCK FALSE
INVARIANTS StakeLedgerSound PlansSound
SYMMETRY Symmetry
PROPERTIES EarningsKept  
