------------------------------ MODULE Economics ------------------------------
(***************************************************************************)
(* The integer arithmetic of a mining round: basis-point fees, the fee     *)
(* allocation of a settled round, the emission schedule and the interval   *)
(* shares that pay receipts.  The amounts are u64; an arithmetic step that *)
(* the program refuses (checked_add, checked_sub, try_from) is a value     *)
(* outside U64, which the actions of the state machines refuse in turn.    *)
(***************************************************************************)
EXTENDS Integers, FiniteSets, Functions

CONSTANTS
    Tiles,                   \* the tiles of the board (TILE_COUNT of them)
    U64Max,                  \* the largest amount a u64 account field holds
    BPS_DENOMINATOR,
    MINING_STAKING_BPS, MINING_BUYBACK_BPS, MINING_MOTHERLODE_BPS,
    MINING_ADMIN_BPS, STAKING_ADMIN_SHARE_BPS,
    GENESIS_BASE_UNITS, MAX_SUPPLY,
    BASE_ROUND_EMISSION, MOTHERLODE_ROUND_EMISSION

U64 == 0 .. U64Max

\* economics.rs keeps the schedule in constants and validate_economics refuses
\* one whose legs do not sum to the advertised fee, or whose staking share
\* exceeds the whole.
ASSUME EconomicsAssumption ==
    /\ IsFiniteSet(Tiles)
    /\ U64Max \in Nat
    /\ BPS_DENOMINATOR \in Nat \ {0}
    /\ MINING_STAKING_BPS \in Nat /\ MINING_BUYBACK_BPS \in Nat
    /\ MINING_MOTHERLODE_BPS \in Nat /\ MINING_ADMIN_BPS \in Nat
    /\ STAKING_ADMIN_SHARE_BPS \in 0 .. BPS_DENOMINATOR
    /\ MINING_STAKING_BPS + MINING_BUYBACK_BPS + MINING_MOTHERLODE_BPS
         + MINING_ADMIN_BPS <= BPS_DENOMINATOR
    /\ GENESIS_BASE_UNITS \in U64 /\ MAX_SUPPLY \in U64
    /\ GENESIS_BASE_UNITS <= MAX_SUPPLY
    /\ BASE_ROUND_EMISSION \in U64 /\ MOTHERLODE_ROUND_EMISSION \in U64

MINING_PROTOCOL_FEE_BPS ==
    MINING_STAKING_BPS + MINING_BUYBACK_BPS + MINING_MOTHERLODE_BPS + MINING_ADMIN_BPS

checked_bps(amount, bps) == (amount * bps) \div BPS_DENOMINATOR

\* An allocation whose direct admin leg is its own rounded share.
TruncatedAllocation(amount) ==
    LET staking_gross == checked_bps(amount, MINING_STAKING_BPS)
        staking_admin == checked_bps(staking_gross, STAKING_ADMIN_SHARE_BPS)
    IN [ total       |-> checked_bps(amount, MINING_PROTOCOL_FEE_BPS),
         staking_net |-> staking_gross - staking_admin,
         buyback     |-> checked_bps(amount, MINING_BUYBACK_BPS),
         motherlode  |-> checked_bps(amount, MINING_MOTHERLODE_BPS),
         admin_total |-> checked_bps(amount, MINING_ADMIN_BPS) + staking_admin ]

\* The legs of the fee on a round's gross deployment.  The direct mining-admin
\* leg is what the total leaves over the other three.
mining_fee_allocation(amount) ==
    LET total          == checked_bps(amount, MINING_PROTOCOL_FEE_BPS)
        staking_gross  == checked_bps(amount, MINING_STAKING_BPS)
        buyback        == checked_bps(amount, MINING_BUYBACK_BPS)
        motherlode     == checked_bps(amount, MINING_MOTHERLODE_BPS)
        mining_admin   == total - (staking_gross + buyback + motherlode)
        staking_admin  == checked_bps(staking_gross, STAKING_ADMIN_SHARE_BPS)
    IN [ total       |-> total,
         staking_net |-> staking_gross - staking_admin,
         buyback     |-> buyback,
         motherlode  |-> motherlode,
         admin_total |-> mining_admin + staking_admin ]

\* The try_from and checked_sub of checked_bps and mining_fee_allocation.
FeesComputable(amount) ==
    /\ mining_fee_allocation(amount) \in
         [total : U64, staking_net : U64, buyback : U64, motherlode : U64, admin_total : U64]
    /\ mining_fee_allocation(amount).total <= amount

smaller(a, b) == IF a <= b THEN a ELSE b

\* Emissions that reserve the base leg for a tile nobody played.
EmissionsForAnyTile(remaining, gross, winning_total) ==
    LET motherlode == IF gross = 0 THEN 0 ELSE smaller(remaining, MOTHERLODE_ROUND_EMISSION)
    IN [ motherlode |-> motherlode,
         base |-> IF gross = 0 THEN 0 ELSE smaller(remaining - motherlode, BASE_ROUND_EMISSION) ]

\* MYNE reserved at settlement: nothing for an empty round, the motherlode
\* bonus first, the base emission only when the winning tile was played.
round_emissions(remaining, gross, winning_total) ==
    LET motherlode == IF gross = 0 THEN 0
                      ELSE smaller(remaining, MOTHERLODE_ROUND_EMISSION)
    IN [ motherlode |-> motherlode,
         base |-> IF gross = 0 \/ winning_total = 0 THEN 0
                  ELSE smaller(remaining - motherlode, BASE_ROUND_EMISSION) ]

round_can_open_after_emission(config) ==
    /\ config.total_emitted <= MAX_SUPPLY
    /\ \/ config.total_emitted < MAX_SUPPLY
       \/ config.motherlode_base_units > 0
       \/ config.motherlode_lamports > 0

checked_sum(values) == SumFunction(values)

mul_div(value, numerator, denominator) == (value * numerator) \div denominator

\* A share that rounds its own amount down instead of its interval's ends.
FlooredShare(pool, start, amount, denominator) == mul_div(pool, amount, denominator)

\* The slice of an integer pool that belongs to the tickets from start to
\* start + amount of denominator tickets; adjacent slices telescope.
proportional_interval_share(pool, start, amount, denominator) ==
    mul_div(pool, start + amount, denominator) - mul_div(pool, start, denominator)

IntervalInside(start, amount, denominator) ==
    denominator > 0 /\ start + amount <= denominator

\* What a receipt earns from a settled round: its slice of the prize and of the
\* base emission on the winning tile (all of the emission for the one solo
\* ticket), and its slice by total deployment of a motherlode payout.
receipt_rewards(round, receipt) ==
    LET tile   == round.winning_tile
        amount == receipt.amounts[tile]
        start  == receipt.cumulative_starts[tile]
        won    == amount > 0 /\ round.tile_lamports[tile] > 0
        shared(pool) ==
            IF round.gross > 0
            THEN proportional_interval_share(pool, checked_sum(receipt.cumulative_starts),
                                             receipt.total, round.gross)
            ELSE 0
        prize == IF won THEN proportional_interval_share(
                                 round.prize, start, amount, round.tile_lamports[tile])
                 ELSE 0
        myne == IF ~won THEN 0
                ELSE IF round.solo_mode
                THEN IF round.solo_sample \in start .. (start + amount - 1)
                     THEN round.base_emission ELSE 0
                ELSE proportional_interval_share(
                         round.base_emission, start, amount, round.tile_lamports[tile])
    IN [ sol        |-> prize + shared(round.motherlode_payout),
         myne       |-> myne,
         motherlode |-> shared(round.motherlode_emission) ]

\* The checks of receipt_rewards and proportional_interval_share: the slices lie
\* inside their pools, the results are amounts.
RewardsComputable(round, receipt) ==
    LET tile == round.winning_tile
    IN /\ tile \in Tiles
       /\ receipt.amounts[tile] > 0 /\ round.tile_lamports[tile] > 0 =>
             IntervalInside(receipt.cumulative_starts[tile], receipt.amounts[tile],
                            round.tile_lamports[tile])
       /\ round.gross > 0 =>
             IntervalInside(checked_sum(receipt.cumulative_starts), receipt.total,
                            round.gross)
       /\ receipt_rewards(round, receipt) \in [sol : U64, myne : U64, motherlode : U64]

=============================================================================
