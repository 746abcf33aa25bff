------------------------------ MODULE StakePool ------------------------------
(***************************************************************************)
(* The staking pool: the weights of standard and burned stake, the reward  *)
(* index that shares every lamport put into the pool, the checkpoints that *)
(* turn a position's part of the index into lamports it may take, and the  *)
(* cooldown that returns standard stake.  Settled receipts pay their SOL   *)
(* through the same account, so the pool is also the claim vault of every  *)
(* winner.  One action per instruction; transactions interleave freely.    *)
(*                                                                         *)
(* lamports is what the pool account holds above its rent reserve: the     *)
(* runtime refuses a transaction that would leave less than the reserve.   *)
(***************************************************************************)
EXTENDS Integers, FiniteSets, FiniteSetsExt

CONSTANTS
    Stakers,
    Fundings,                    \* lamports one settlement or one funder adds
    Stakes,                      \* MYNE one staking instruction moves
    Prizes,                      \* the SOL a settled receipt pays
    InitialTokens,               \* MYNE each staker holds at first
    U64Max, REWARD_SCALE, BURN_WEIGHT_MULTIPLIER, UNSTAKE_DELAY_SECONDS,
    MaxTime,                     \* bound: the clock stops here
    MaxDistributions             \* bound: calls of fund_stake_rewards

U64 == 0 .. U64Max

ASSUME StakePoolAssumption ==
    /\ IsFiniteSet(Stakers)
    /\ Fundings \subseteq U64 /\ Stakes \subseteq U64 /\ Prizes \subseteq U64
    /\ InitialTokens \in U64 /\ U64Max \in Nat
    /\ REWARD_SCALE \in Nat \ {0} /\ BURN_WEIGHT_MULTIPLIER \in Nat \ {0}
    /\ UNSTAKE_DELAY_SECONDS \in Nat /\ MaxTime \in Nat /\ MaxDistributions \in Nat

VARIABLES
    now,            \* unix timestamp of the Clock sysvar
    paused,         \* config.paused
    pool,           \* the StakePool account
    position,       \* the StakePosition of every staker
    lamports,       \* of the StakePool account, above rent
    vaultTokens,    \* MYNE in the pool's token account
    wallet,         \* MYNE in the stakers' token accounts
    distributions   \* how often fund_stake_rewards ran so far

vars == <<now, paused, pool, position, lamports, vaultTokens, wallet, distributions>>

EmptyPool ==
    [ active_stakers |-> 0, total_standard |-> 0, total_burn |-> 0, total_weight |-> 0,
      reward_per_weight |-> 0, undistributed |-> 0, total_funded |-> 0, total_claimed |-> 0 ]

\* register_miner creates the position; before, nothing can name it.
NoPosition ==
    [ registered |-> FALSE, standard_principal |-> 0, burn_principal |-> 0,
      reward_weight |-> 0, reward_debt |-> 0, pending_sol |-> 0,
      cooldown_amount |-> 0, cooldown_unlock_at |-> 0 ]

Init ==
    /\ now = 0
    /\ paused = TRUE
    /\ pool = EmptyPool
    /\ position = [s \in Stakers |-> NoPosition]
    /\ lamports = 0
    /\ vaultTokens = 0
    /\ wallet = [s \in Stakers |-> InitialTokens]
    /\ distributions = 0

-----------------------------------------------------------------------------
(* The reward index                                                        *)

\* What a position's weight earned since its last checkpoint, in whole
\* lamports.
Reward(pos) ==
    (pos.reward_weight * (pool.reward_per_weight - pos.reward_debt)) \div REWARD_SCALE

checkpoint_stake(pos) ==
    [pos EXCEPT !.pending_sol = pos.pending_sol + Reward(pos),
                !.reward_debt = pool.reward_per_weight]

increment(total, weight) == (total * REWARD_SCALE) \div weight

\* The two operations of the allocation in the other order.
AllocatedDividingFirst(total, weight) == (increment(total, weight) \div REWARD_SCALE) * weight

\* What the carried remainder leaves as distributed: the floor of what the
\* index grants.
allocated(total, weight) == (increment(total, weight) * weight) \div REWARD_SCALE

\* The pool p after fund_stake_rewards(amount).
fund_stake_rewards(p, amount) ==
    LET total == amount + p.undistributed
    IN IF p.total_weight = 0
       THEN [p EXCEPT !.total_funded = p.total_funded + amount,
                      !.undistributed = total]
       ELSE [p EXCEPT !.total_funded = p.total_funded + amount,
                      !.reward_per_weight =
                          p.reward_per_weight + increment(total, p.total_weight),
                      !.undistributed = total - allocated(total, p.total_weight)]

\* The u64 fields: a checked operation outside this set aborts the instruction.
PoolType ==
    [ active_stakers : U64, total_standard : U64, total_burn : U64, total_weight : U64,
      reward_per_weight : Nat, undistributed : U64, total_funded : U64, total_claimed : U64 ]

PositionType ==
    [ registered : BOOLEAN, standard_principal : U64, burn_principal : U64,
      reward_weight : U64, reward_debt : Nat, pending_sol : U64,
      cooldown_amount : U64, cooldown_unlock_at : Nat ]

\* An instruction that ends in fund_stake_rewards.
Distributes ==
    /\ distributions < MaxDistributions
    /\ distributions' = distributions + 1

Registered(s) == position[s].registered

-----------------------------------------------------------------------------
(* Funding: settle_round_core and fund_staking_rewards                     *)

\* Both move the lamports into the pool account and distribute them; an empty
\* round settles with nothing.
fund_staking_rewards(amount) ==
    /\ Distributes
    /\ pool' = fund_stake_rewards(pool, amount)
    /\ pool' \in PoolType
    /\ lamports' = lamports + amount
    /\ UNCHANGED <<now, paused, position, vaultTokens, wallet>>

-----------------------------------------------------------------------------
(* Weight                                                                  *)

\* A position, and the pool, after it gains standard and burned stake.
WithStake(pos, standard, burn) ==
    [pos EXCEPT !.standard_principal = pos.standard_principal + standard,
                !.burn_principal = pos.burn_principal + burn,
                !.reward_weight =
                    pos.reward_weight + standard + burn * BURN_WEIGHT_MULTIPLIER]

PoolWithStake(pos, standard, burn) ==
    [pool EXCEPT !.total_standard = pool.total_standard + standard,
                 !.total_burn = pool.total_burn + burn,
                 !.total_weight =
                     pool.total_weight + standard + burn * BURN_WEIGHT_MULTIPLIER,
                 !.active_stakers =
                     pool.active_stakers + (IF pos.reward_weight = 0 THEN 1 ELSE 0)]

AddStake(s, pos, standard, burn) ==
    /\ Distributes
    /\ position' = [position EXCEPT ![s] = WithStake(pos, standard, burn)]
    /\ pool' = fund_stake_rewards(PoolWithStake(pos, standard, burn), 0)
    /\ pool' \in PoolType /\ position'[s] \in PositionType

MoveIntoVault(s, amount) ==
    /\ ~paused
    /\ Registered(s)
    /\ amount > 0 /\ amount <= wallet[s]
    /\ wallet' = [wallet EXCEPT ![s] = wallet[s] - amount]
    /\ vaultTokens' = vaultTokens + amount
    /\ UNCHANGED <<now, paused, lamports>>

\* Staking into a position that still holds its old debt.
StakeWithoutCheckpoint(s, amount) ==
    /\ MoveIntoVault(s, amount)
    /\ AddStake(s, position[s], amount, 0)

stake_standard(s, amount) ==
    /\ MoveIntoVault(s, amount)
    /\ AddStake(s, checkpoint_stake(position[s]), amount, 0)

burn_stake(s, amount) ==
    /\ ~paused
    /\ Registered(s)
    /\ amount > 0 /\ amount <= wallet[s]
    /\ AddStake(s, checkpoint_stake(position[s]), 0, amount)
    /\ wallet' = [wallet EXCEPT ![s] = wallet[s] - amount]
    /\ UNCHANGED <<now, paused, lamports, vaultTokens>>

\* burn_unclaimed_myne: the debited mining reward becomes a virtual burn.  A
\* pause does not stop it.
burn_unclaimed_myne(s, amount) ==
    /\ Registered(s)
    /\ amount > 0
    /\ AddStake(s, checkpoint_stake(position[s]), 0, amount)
    /\ UNCHANGED <<now, paused, lamports, vaultTokens, wallet>>

\* The position's side of a request.
StartCooldown(s, pos, amount) ==
    /\ Registered(s)
    /\ amount > 0 /\ amount <= position[s].standard_principal
    /\ position[s].cooldown_amount = 0
    /\ now + UNSTAKE_DELAY_SECONDS <= MaxTime
    /\ position' = [position EXCEPT ![s] =
           [pos EXCEPT !.standard_principal = pos.standard_principal - amount,
                       !.reward_weight = pos.reward_weight - amount,
                       !.cooldown_amount = amount,
                       !.cooldown_unlock_at = now + UNSTAKE_DELAY_SECONDS]]
    /\ position'[s] \in PositionType
    /\ UNCHANGED <<now, paused, lamports, vaultTokens, wallet, distributions>>

\* Cooling stake earns nothing: its weight leaves the index at once.
request_unstake(s, amount) ==
    /\ StartCooldown(s, checkpoint_stake(position[s]), amount)
    /\ pool' = [pool EXCEPT !.total_standard = pool.total_standard - amount,
                            !.total_weight = pool.total_weight - amount,
                            !.active_stakers = pool.active_stakers
                                - (IF position[s].reward_weight = amount THEN 1 ELSE 0)]

ReturnPrincipal(s) ==
    /\ position[s].cooldown_amount > 0
    /\ now >= position[s].cooldown_unlock_at
    /\ position[s].cooldown_amount <= vaultTokens
    /\ vaultTokens' = vaultTokens - position[s].cooldown_amount
    /\ wallet' = [wallet EXCEPT ![s] = wallet[s] + position[s].cooldown_amount]
    /\ position' = [position EXCEPT ![s] =
           [position[s] EXCEPT !.cooldown_amount = 0, !.cooldown_unlock_at = 0]]
    /\ UNCHANGED <<now, paused, pool, lamports, distributions>>

\* No pause check: a stopped protocol still returns principal.
withdraw_unstaked(s) == ReturnPrincipal(s)

-----------------------------------------------------------------------------
(* Paying SOL in and out                                                   *)

\* Take a whole checkpointed balance out of the pool, counting it as claimed.
TakePending(s, counted) ==
    LET pos == checkpoint_stake(position[s]) IN
    /\ Registered(s)
    /\ pos \in PositionType
    /\ lamports' = lamports - pos.pending_sol
    /\ pool' = [pool EXCEPT !.total_claimed =
                    pool.total_claimed + (IF counted THEN pos.pending_sol ELSE 0)]
    /\ pool' \in PoolType
    /\ position' = [position EXCEPT ![s] = [pos EXCEPT !.pending_sol = 0]]
    /\ UNCHANGED <<now, paused, vaultTokens, wallet, distributions>>

\* move_lamports, and the runtime behind it, refuse to go below the reserve.
PayOut(s) ==
    /\ checkpoint_stake(position[s]).pending_sol <= lamports
    /\ TakePending(s, TRUE)

claim_staking_rewards(s) ==
    /\ checkpoint_stake(position[s]).pending_sol > 0
    /\ PayOut(s)

\* The executor of an active plan that reinvests moves the balance into the
\* plan; with nothing pending it only checkpoints.
reinvest_auto_plan_rewards(s) == ~paused /\ PayOut(s)

\* A claimed or permissionlessly settled receipt: checkpoint, accrue its SOL
\* into pending, then record its virtual burn.  The receipt's own round pays.
accrue_receipt_sol(s, sol, burn) ==
    LET pos  == checkpoint_stake(position[s])
        paid == [pos EXCEPT !.pending_sol = pos.pending_sol + sol]
        funded == [pool EXCEPT !.total_funded = pool.total_funded + sol]
    IN
    /\ Registered(s)
    /\ lamports' = lamports + sol
    /\ IF burn = 0
       THEN /\ position' = [position EXCEPT ![s] = paid]
            /\ pool' = funded
            /\ UNCHANGED distributions
       ELSE /\ Distributes
            /\ position' = [position EXCEPT ![s] = WithStake(paid, 0, burn)]
            /\ pool' = fund_stake_rewards(
                   [PoolWithStake(pos, 0, burn) EXCEPT !.total_funded = funded.total_funded], 0)
    /\ pool' \in PoolType /\ position'[s] \in PositionType
    /\ UNCHANGED <<now, paused, vaultTokens, wallet>>

-----------------------------------------------------------------------------
register_miner(s) ==
    /\ ~paused
    /\ ~Registered(s)
    /\ position' = [position EXCEPT ![s] =
           [NoPosition EXCEPT !.registered = TRUE,
                              !.reward_debt = pool.reward_per_weight]]
    /\ UNCHANGED <<now, paused, pool, lamports, vaultTokens, wallet, distributions>>

set_paused(p) ==
    /\ paused # p
    /\ paused' = p
    /\ UNCHANGED <<now, pool, position, lamports, vaultTokens, wallet, distributions>>

Tick ==
    /\ now < MaxTime
    /\ now' = now + 1
    /\ UNCHANGED <<paused, pool, position, lamports, vaultTokens, wallet, distributions>>

Next ==
    \/ Tick
    \/ \E p \in BOOLEAN : set_paused(p)
    \/ \E amount \in Fundings : fund_staking_rewards(amount)
    \/ \E s \in Stakers :
         \/ register_miner(s)
         \/ \E amount \in Stakes :
              \/ stake_standard(s, amount)
              \/ burn_stake(s, amount)
              \/ burn_unclaimed_myne(s, amount)
              \/ request_unstake(s, amount)
         \/ withdraw_unstaked(s)
         \/ claim_staking_rewards(s)
         \/ reinvest_auto_plan_rewards(s)
         \/ \E sol \in Prizes, burn \in Stakes \cup {0} : accrue_receipt_sol(s, sol, burn)

Spec == Init /\ [][Next]_vars

-----------------------------------------------------------------------------
(* Properties                                                              *)

\* Every u64 field of the pool and the positions stays in range.
TypeOK ==
    /\ now \in 0 .. MaxTime
    /\ paused \in BOOLEAN
    /\ pool \in PoolType
    /\ position \in [Stakers -> PositionType]
    /\ lamports \in Nat /\ vaultTokens \in Nat
    /\ wallet \in [Stakers -> Nat]
    /\ distributions \in 0 .. MaxDistributions

SumOver(f) == MapThenSumSet(LAMBDA s : f[s], Stakers)

\* What claim_staking_rewards would pay s now.
Owed(s) == position[s].pending_sol + Reward(position[s])

\* The lamports in the pool account are those put in and not yet taken: every
\* move of SOL through the claim vault is recorded (fund_stake_rewards,
\* accrue_receipt_sol, claim_staking_rewards, reinvest_auto_plan_rewards).
LedgerExact == lamports = pool.total_funded - pool.total_claimed

\* The totals the index divides by are those of the positions, and the token
\* vault holds exactly the staked and the cooling principal: a withdrawal
\* never waits for another staker's deposit.
PoolTotalsMatchPositions ==
    /\ \A s \in Stakers :
          position[s].reward_weight =
              position[s].standard_principal
                + BURN_WEIGHT_MULTIPLIER * position[s].burn_principal
    /\ pool.total_weight = SumOver([s \in Stakers |-> position[s].reward_weight])
    /\ pool.total_standard = SumOver([s \in Stakers |-> position[s].standard_principal])
    /\ pool.total_burn = SumOver([s \in Stakers |-> position[s].burn_principal])
    /\ pool.active_stakers = Cardinality({s \in Stakers : position[s].reward_weight > 0})
    /\ vaultTokens = SumOver([s \in Stakers |->
          position[s].standard_principal + position[s].cooldown_amount])

\* What the index, standing at index, and the checkpoints promise a position,
\* in units of the index.
Promise(pos, index) ==
    pos.reward_weight * (index - pos.reward_debt) + REWARD_SCALE * pos.pending_sol

\* The pool promises less than one lamport per distribution beyond what it
\* holds: the floor in stake_reward_increment_and_remainder may carry again a
\* lamport whose greater part the index already granted, and nothing else
\* creates value.
OverdraftBelowDistributions ==
    SumOver([s \in Stakers |-> Promise(position[s], pool.reward_per_weight)])
      + REWARD_SCALE * pool.undistributed
    <= REWARD_SCALE * lamports + (REWARD_SCALE - 1) * distributions

\* What a staker may claim falls only when that staker is paid all of it:
\* nobody's staking, unstaking, claiming or funding dilutes what another has
\* already earned.
NeverDiluted ==
    [][\A s \in Stakers :
         \/ Owed(s)' >= Owed(s)
         \/ Owed(s)' = 0 /\ lamports' = lamports - Owed(s)]_vars

\* A staker who enters or adds stake gains nothing by it beyond a share of
\* what the pool carries undistributed: the new weight has no claim on the
\* funding that came before (checkpoint_stake before every weight change).
NewWeightEarnsNothingPast ==
    [][\A s \in Stakers :
         position'[s].reward_weight > position[s].reward_weight =>
           Owed(s)' <= Owed(s) + pool.undistributed + (lamports' - lamports)]_vars

\* The staking ledger as one invariant: the claim vault, the totals, the token
\* vault and the promises of the index agree.
StakeLedgerSound ==
    TypeOK /\ LedgerExact /\ PoolTotalsMatchPositions /\ OverdraftBelowDistributions

\* What one instruction may do to the earnings of several stakers: it dilutes
\* nobody's, and new weight has no part in the past.
EarningsKept == NeverDiluted /\ NewWeightEarnsNothingPast

\* The unit test repeated_staking_checkpoints_never_overpay_multiple_stakers:
\* what the stakers may claim and the carried remainder never exceed what was
\* funded and is still there.
Solvent == SumOver([s \in Stakers |-> Owed(s)]) + pool.undistributed <= lamports
=============================================================================
