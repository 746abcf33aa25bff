SPECIFICATION Spec
CONSTANTS
    alice = alice
    bob = bob
    Stakers = {alice}
    Fundings = {1}
    Stakes = {3}
    Prizes = {}
    InitialTokens = 3
    U64Max = 60
    REWARD_SCALE = 10
    BURN_WEIGHT_MULTIPLIER = 2
    UNSTAKE_DELAY_SECONDS = 1
    MaxTime = 1
    MaxDistributions = 4
INVARIANT Solvent
