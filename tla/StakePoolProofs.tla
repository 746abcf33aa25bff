--------------------------- MODULE StakePoolProofs ---------------------------
(***************************************************************************)
(* The staking ledger balances and dilutes nobody, for any number of       *)
(* stakers, any scale of the index and any number of distributions.        *)
(***************************************************************************)
EXTENDS StakePool, LedgerLemmas

\* A position is checkpointed against an index that only grows.
DebtsBehind == \A s \in Stakers : position[s].reward_debt <= pool.reward_per_weight

\* A position that was never registered is empty.
UnregisteredEmpty == \A s \in Stakers : Registered(s) \/ position[s] = NoPosition

StakeInv == StakeLedgerSound /\ DebtsBehind /\ UnregisteredEmpty

Weighed(ps) ==
    \A s \in Stakers : ps[s].reward_weight =
        ps[s].standard_principal + BURN_WEIGHT_MULTIPLIER * ps[s].burn_principal
Weights(ps)     == SumOver([s \in Stakers |-> ps[s].reward_weight])
Standards(ps)   == SumOver([s \in Stakers |-> ps[s].standard_principal])
Burns(ps)       == SumOver([s \in Stakers |-> ps[s].burn_principal])
Principals(ps)  == SumOver([s \in Stakers |-> ps[s].standard_principal + ps[s].cooldown_amount])
Earning(ps)     == {s \in Stakers : ps[s].reward_weight > 0}
Promises(ps, i) == SumOver([s \in Stakers |-> Promise(ps[s], i)])

-----------------------------------------------------------------------------
(* The sums over the positions.                                            *)

LEMMA SumOverIsSumOf == \A f : SumOver(f) = SumOf(f, Stakers)
BY DEF SumOver, SumOf

\* Replacing one position changes each total by the difference.
LEMMA TotalsReplaced ==
    ASSUME NEW ps \in [Stakers -> PositionType], NEW s \in Stakers, NEW p \in PositionType
    PROVE  LET qs == [ps EXCEPT ![s] = p] IN
           /\ Weights(qs) = Weights(ps) - ps[s].reward_weight + p.reward_weight
           /\ Standards(qs) = Standards(ps) - ps[s].standard_principal + p.standard_principal
           /\ Burns(qs) = Burns(ps) - ps[s].burn_principal + p.burn_principal
           /\ Principals(qs) = Principals(ps) - (ps[s].standard_principal + ps[s].cooldown_amount)
                                 + (p.standard_principal + p.cooldown_amount)
<1> DEFINE qs == [ps EXCEPT ![s] = p]
<1>1. IsFiniteSet(Stakers)
  BY StakePoolAssumption
<1>2. U64 \subseteq Nat
  BY StakePoolAssumption DEF U64
<1>3. /\ qs[s] = p /\ \A x \in Stakers \ {s} : qs[x] = ps[x]
      /\ \A x \in Stakers : ps[x] \in PositionType /\ qs[x] \in PositionType
  OBVIOUS
<1> HIDE DEF qs
<1>4. Weights(qs) = Weights(ps) - ps[s].reward_weight + p.reward_weight
  <2> DEFINE f == [x \in Stakers |-> ps[x].reward_weight]
             g == [x \in Stakers |-> qs[x].reward_weight]
  <2>1. /\ \A x \in Stakers : f[x] \in Nat
        /\ g[s] \in Nat /\ \A x \in Stakers \ {s} : g[x] = f[x]
        /\ f[s] = ps[s].reward_weight /\ g[s] = p.reward_weight
    BY <1>2, <1>3 DEF PositionType
  <2> HIDE DEF f, g
  <2>2. SumOf(g, Stakers) = SumOf(f, Stakers) - f[s] + g[s]
    BY <1>1, <2>1, SumChange
  <2> QED BY <2>1, <2>2, SumOverIsSumOf DEF Weights, f, g
<1>5. Standards(qs) = Standards(ps) - ps[s].standard_principal + p.standard_principal
  <2> DEFINE f == [x \in Stakers |-> ps[x].standard_principal]
             g == [x \in Stakers |-> qs[x].standard_principal]
  <2>1. /\ \A x \in Stakers : f[x] \in Nat
        /\ g[s] \in Nat /\ \A x \in Stakers \ {s} : g[x] = f[x]
        /\ f[s] = ps[s].standard_principal /\ g[s] = p.standard_principal
    BY <1>2, <1>3 DEF PositionType
  <2> HIDE DEF f, g
  <2>2. SumOf(g, Stakers) = SumOf(f, Stakers) - f[s] + g[s]
    BY <1>1, <2>1, SumChange
  <2> QED BY <2>1, <2>2, SumOverIsSumOf DEF Standards, f, g
<1>6. Burns(qs) = Burns(ps) - ps[s].burn_principal + p.burn_principal
  <2> DEFINE f == [x \in Stakers |-> ps[x].burn_principal]
             g == [x \in Stakers |-> qs[x].burn_principal]
  <2>1. /\ \A x \in Stakers : f[x] \in Nat
        /\ g[s] \in Nat /\ \A x \in Stakers \ {s} : g[x] = f[x]
        /\ f[s] = ps[s].burn_principal /\ g[s] = p.burn_principal
    BY <1>2, <1>3 DEF PositionType
  <2> HIDE DEF f, g
  <2>2. SumOf(g, Stakers) = SumOf(f, Stakers) - f[s] + g[s]
    BY <1>1, <2>1, SumChange
  <2> QED BY <2>1, <2>2, SumOverIsSumOf DEF Burns, f, g
<1>7. Principals(qs) = Principals(ps) - (ps[s].standard_principal + ps[s].cooldown_amount)
                         + (p.standard_principal + p.cooldown_amount)
  <2> DEFINE f == [x \in Stakers |-> ps[x].standard_principal + ps[x].cooldown_amount]
             g == [x \in Stakers |-> qs[x].standard_principal + qs[x].cooldown_amount]
  <2>1. /\ \A x \in Stakers : f[x] \in Nat
        /\ g[s] \in Nat /\ \A x \in Stakers \ {s} : g[x] = f[x]
        /\ f[s] = ps[s].standard_principal + ps[s].cooldown_amount
        /\ g[s] = p.standard_principal + p.cooldown_amount
    <3>1. \A q \in PositionType : q.standard_principal + q.cooldown_amount \in Nat
      BY StakePoolAssumption DEF PositionType, U64
    <3> QED BY <1>3, <3>1
  <2> HIDE DEF f, g
  <2>2. SumOf(g, Stakers) = SumOf(f, Stakers) - f[s] + g[s]
    BY <1>1, <2>1, SumChange
  <2> QED BY <2>1, <2>2, SumOverIsSumOf DEF Principals, f, g
<1> QED BY <1>4, <1>5, <1>6, <1>7 DEF qs

\* The number of positions with weight changes with one of them.
LEMMA EarningReplaced ==
    ASSUME NEW ps \in [Stakers -> PositionType], NEW s \in Stakers, NEW p \in PositionType
    PROVE  LET qs == [ps EXCEPT ![s] = p] IN
           Cardinality(Earning(qs)) = Cardinality(Earning(ps))
               - (IF ps[s].reward_weight > 0 THEN 1 ELSE 0) + (IF p.reward_weight > 0 THEN 1 ELSE 0)
<1> DEFINE qs == [ps EXCEPT ![s] = p]
           rest == Earning(ps) \ {s}
<1>1. IsFiniteSet(Earning(ps)) /\ Cardinality(Earning(ps)) \in Nat
  BY StakePoolAssumption, FS_Subset, FS_CardinalityType DEF Earning
<1>2. /\ IsFiniteSet(rest)
      /\ Cardinality(rest) = Cardinality(Earning(ps)) - (IF ps[s].reward_weight > 0 THEN 1 ELSE 0)
  <2>1. s \in Earning(ps) <=> ps[s].reward_weight > 0
    BY DEF Earning
  <2>2. /\ IsFiniteSet(rest)
        /\ Cardinality(rest) = IF s \in Earning(ps) THEN Cardinality(Earning(ps)) - 1
                               ELSE Cardinality(Earning(ps))
    BY <1>1, FS_RemoveElement
  <2> HIDE DEF rest
  <2> QED BY <1>1, <2>1, <2>2
<1>3. Earning(qs) = IF p.reward_weight > 0 THEN rest \cup {s} ELSE rest
  BY DEF Earning
<1>4. Cardinality(rest \cup {s}) = Cardinality(rest) + 1
  BY <1>2, FS_AddElement
<1> QED BY <1>1, <1>2, <1>3, <1>4

\* What is promised to a position is a natural number while its debt lies
\* behind the index.
LEMMA PromiseType ==
    ASSUME NEW p \in PositionType, NEW i \in Nat, p.reward_debt <= i
    PROVE  Promise(p, i) \in Nat
<1>1. /\ p.reward_weight \in Nat /\ p.pending_sol \in Nat /\ i - p.reward_debt \in Nat
      /\ REWARD_SCALE \in Nat
  BY StakePoolAssumption DEF PositionType, U64
<1>2. \A a, b, c, d \in Nat : a * b + c * d \in Nat
  OBVIOUS
<1> QED BY <1>1, <1>2 DEF Promise

\* Replacing a position changes the promises by the difference; a growing
\* index adds its growth for every unit of weight.
LEMMA PromisesReplaced ==
    ASSUME NEW ps \in [Stakers -> PositionType], NEW s \in Stakers, NEW p \in PositionType,
           NEW i \in Nat, \A x \in Stakers : ps[x].reward_debt <= i, p.reward_debt <= i
    PROVE  Promises([ps EXCEPT ![s] = p], i) = Promises(ps, i) - Promise(ps[s], i) + Promise(p, i)
<1> DEFINE qs == [ps EXCEPT ![s] = p]
           f == [x \in Stakers |-> Promise(ps[x], i)]
           g == [x \in Stakers |-> Promise(qs[x], i)]
<1>1. \A x \in Stakers : f[x] \in Nat
  BY PromiseType
<1>2. g[s] = Promise(p, i) /\ g[s] \in Nat /\ \A x \in Stakers \ {s} : g[x] = f[x]
  BY PromiseType
<1>3. f[s] = Promise(ps[s], i) /\ IsFiniteSet(Stakers)
  BY StakePoolAssumption
<1>4. Promises(ps, i) = SumOf(f, Stakers) /\ Promises(qs, i) = SumOf(g, Stakers)
  BY SumOverIsSumOf DEF Promises
<1> HIDE DEF f, g, qs
<1>5. SumOf(g, Stakers) = SumOf(f, Stakers) - f[s] + g[s]
  <2>1. \A x \in Stakers \ {s} : g[x] = f[x]
    BY <1>2
  <2>2. g[s] \in Nat
    BY <1>2
  <2>3. IsFiniteSet(Stakers)
    BY <1>3
  <2> QED BY <1>1, <2>1, <2>2, <2>3, SumChange
<1> QED BY <1>2, <1>3, <1>4, <1>5 DEF qs

LEMMA PromisesGrow ==
    ASSUME NEW ps \in [Stakers -> PositionType], NEW i \in Nat, NEW inc \in Nat,
           \A x \in Stakers : ps[x].reward_debt <= i
    PROVE  /\ Promises(ps, i + inc) = Promises(ps, i) + inc * Weights(ps)
           /\ Promises(ps, i) \in Nat /\ Weights(ps) \in Nat
<1> DEFINE f == [x \in Stakers |-> Promise(ps[x], i)]
           g == [x \in Stakers |-> ps[x].reward_weight]
           h == [x \in Stakers |-> Promise(ps[x], i + inc)]
<1>1. \A x \in Stakers : f[x] \in Nat /\ g[x] \in Nat
  BY PromiseType, StakePoolAssumption DEF PositionType, U64
<1>2. ASSUME NEW x \in Stakers PROVE h[x] = f[x] + inc * g[x]
  <2>1. /\ ps[x].reward_weight \in Int /\ ps[x].reward_debt \in Int
        /\ REWARD_SCALE * ps[x].pending_sol \in Int
    BY StakePoolAssumption DEF PositionType, U64
  <2>2. \A w, d, c \in Int : w * (i + inc - d) + c = w * (i - d) + c + inc * w
    OBVIOUS
  <2> QED BY <2>1, <2>2 DEF Promise
<1>3. IsFiniteSet(Stakers)
  BY StakePoolAssumption
<1>4. /\ Promises(ps, i) = SumOf(f, Stakers) /\ Weights(ps) = SumOf(g, Stakers)
      /\ Promises(ps, i + inc) = SumOf(h, Stakers)
  BY SumOverIsSumOf DEF Promises, Weights
<1> HIDE DEF f, g, h
<1>5. SumOf(h, Stakers) = SumOf(f, Stakers) + inc * SumOf(g, Stakers)
  BY <1>1, <1>2, <1>3, SumLinear
<1>6. SumOf(f, Stakers) \in Nat /\ SumOf(g, Stakers) \in Nat
  BY <1>1, <1>3, SumType
<1> QED BY <1>4, <1>5, <1>6

-----------------------------------------------------------------------------
(* One instruction.                                                        *)

\* The fields of the pool as numbers, before the u64 checks.
LoosePool ==
    [ active_stakers : Int, total_standard : Int, total_burn : Int, total_weight : Nat,
      reward_per_weight : Nat, undistributed : Nat, total_funded : Int, total_claimed : Int ]

\* q is p after a distribution of amount that raised the index by inc: less
\* than one lamport is created by rounding, and no weight is granted more than
\* what was distributed.
Grants(p, amount, q, inc) ==
    /\ q.reward_per_weight = p.reward_per_weight + inc
    /\ q.undistributed \in Int
    /\ inc * p.total_weight + REWARD_SCALE * q.undistributed
         <= REWARD_SCALE * (p.undistributed + amount) + (REWARD_SCALE - 1)
    /\ \A w \in Nat : w <= p.total_weight =>
           (w * inc) \div REWARD_SCALE <= p.undistributed + amount
    /\ q.active_stakers = p.active_stakers /\ q.total_standard = p.total_standard
    /\ q.total_burn = p.total_burn /\ q.total_weight = p.total_weight
    /\ q.total_funded = p.total_funded + amount /\ q.total_claimed = p.total_claimed

\* fund_stake_rewards does that, whatever the weights.
LEMMA DistributionGrants ==
    ASSUME NEW p \in LoosePool, NEW amount \in Nat
    PROVE  \E inc \in Nat : Grants(p, amount, fund_stake_rewards(p, amount), inc)
<1> DEFINE total == amount + p.undistributed
           W == p.total_weight
           q == fund_stake_rewards(p, amount)
           inc == increment(total, W)
<1>1. /\ total \in Nat /\ W \in Nat /\ REWARD_SCALE \in Nat \ {0}
      /\ p.undistributed \in Nat /\ p.reward_per_weight \in Nat
  BY StakePoolAssumption DEF LoosePool
<1>2. CASE W = 0
  <2>1. q = [p EXCEPT !.total_funded = p.total_funded + amount, !.undistributed = total]
    BY <1>2 DEF fund_stake_rewards
  <2>2. /\ q.reward_per_weight = p.reward_per_weight /\ q.undistributed = total
        /\ q.active_stakers = p.active_stakers /\ q.total_standard = p.total_standard
        /\ q.total_burn = p.total_burn /\ q.total_weight = p.total_weight
        /\ q.total_funded = p.total_funded + amount /\ q.total_claimed = p.total_claimed
    BY <2>1 DEF LoosePool
  <2>3. \A w \in Nat : (w * 0) \div REWARD_SCALE = 0
    BY <1>1
  <2> HIDE DEF q
  <2>4. 0 * W + REWARD_SCALE * total <= REWARD_SCALE * (p.undistributed + amount) + (REWARD_SCALE - 1)
    BY <1>1
  <2>5. Grants(p, amount, q, 0)
    BY <1>1, <2>2, <2>3, <2>4 DEF Grants
  <2> QED BY <2>5 DEF q
<1>3. CASE W # 0
  <2>1. q = [p EXCEPT !.total_funded = p.total_funded + amount,
                      !.reward_per_weight = p.reward_per_weight + inc,
                      !.undistributed = total - allocated(total, W)]
    BY <1>3 DEF fund_stake_rewards
  <2>2. /\ q.reward_per_weight = p.reward_per_weight + inc
        /\ q.undistributed = total - allocated(total, W)
        /\ q.active_stakers = p.active_stakers /\ q.total_standard = p.total_standard
        /\ q.total_burn = p.total_burn /\ q.total_weight = p.total_weight
        /\ q.total_funded = p.total_funded + amount /\ q.total_claimed = p.total_claimed
    BY <2>1 DEF LoosePool
  <2>3. total * REWARD_SCALE \in Nat
    BY <1>1, ProductMonotone
  <2>4. inc \in Nat /\ W * inc <= total * REWARD_SCALE
    BY <1>1, <1>3, <2>3, DivBounds DEF increment
  <2> HIDE DEF q, inc, total
  <2>5. inc * W \in Nat
    BY <1>1, <2>4, ProductMonotone
  <2> DEFINE given == (inc * W) \div REWARD_SCALE
  <2>6. /\ given \in Nat /\ REWARD_SCALE * given <= inc * W
        /\ inc * W < REWARD_SCALE * given + REWARD_SCALE
    BY <1>1, <2>5, DivBounds
  <2>7. allocated(total, W) = given
    BY DEF allocated, inc
  <2> HIDE DEF given, W
  <2>8. inc * W + REWARD_SCALE * (total - given) <= REWARD_SCALE * total + (REWARD_SCALE - 1)
    BY <1>1, <2>4, <2>6
  <2>9. ASSUME NEW w \in Nat, w <= W
         PROVE  (w * inc) \div REWARD_SCALE <= total
    <3>1. w * inc \in Nat /\ w * inc <= W * inc
      BY <1>1, <2>4, <2>9, ProductMonotone
    <3>2. w * inc <= total * REWARD_SCALE
      BY <1>1, <2>3, <2>4, <2>5, <3>1
    <3> QED BY <1>1, <3>1, <3>2, DivBelow
  <2>10. q.undistributed \in Int /\ q.undistributed = total - given
    BY <1>1, <2>2, <2>6, <2>7
  <2>11. total = p.undistributed + amount
    BY <1>1 DEF total
  <2>12. Grants(p, amount, q, inc)
    BY <2>2, <2>8, <2>9, <2>10, <2>11 DEF Grants, W
  <2> QED BY <2>4, <2>12 DEF q
<1> QED BY <1>1, <1>2, <1>3

\* A position before its u64 checks.
LoosePosition ==
    [ registered : BOOLEAN, standard_principal : U64, burn_principal : U64,
      reward_weight : U64, reward_debt : Nat, pending_sol : Nat,
      cooldown_amount : U64, cooldown_unlock_at : Nat ]

\* A checkpoint moves what the index granted into pending, drops the fraction,
\* and changes nothing else.
Checkpointed(pos, p) ==
    /\ p \in LoosePosition
    /\ p.pending_sol = pos.pending_sol + Reward(pos)
    /\ p.reward_debt = pool.reward_per_weight
    /\ p.registered = pos.registered /\ p.reward_weight = pos.reward_weight
    /\ p.standard_principal = pos.standard_principal /\ p.burn_principal = pos.burn_principal
    /\ p.cooldown_amount = pos.cooldown_amount /\ p.cooldown_unlock_at = pos.cooldown_unlock_at
    /\ Reward(pos) \in Nat
    /\ REWARD_SCALE * p.pending_sol <= Promise(pos, pool.reward_per_weight)

LEMMA CheckpointMoves ==
    ASSUME NEW pos \in PositionType, pool \in PoolType, pos.reward_debt <= pool.reward_per_weight
    PROVE  Checkpointed(pos, checkpoint_stake(pos))
<1> DEFINE earned == pos.reward_weight * (pool.reward_per_weight - pos.reward_debt)
           p == checkpoint_stake(pos)
<1>1. /\ pos.reward_weight \in Nat /\ pos.pending_sol \in Nat /\ pool.reward_per_weight \in Nat
      /\ pool.reward_per_weight - pos.reward_debt \in Nat /\ REWARD_SCALE \in Nat \ {0}
  BY StakePoolAssumption DEF PositionType, PoolType, U64
<1>2. earned \in Nat
  BY <1>1, ProductMonotone
<1> HIDE DEF earned
<1>3. earned \div REWARD_SCALE \in Nat /\ REWARD_SCALE * (earned \div REWARD_SCALE) <= earned
  BY <1>1, <1>2, DivBounds
<1>4. Reward(pos) = earned \div REWARD_SCALE
  BY DEF Reward, earned
<1>5. REWARD_SCALE * (pos.pending_sol + Reward(pos)) <= earned + REWARD_SCALE * pos.pending_sol
  BY <1>1, <1>2, <1>3, <1>4
<1>6. Reward(pos) \in Nat /\ pos.pending_sol + Reward(pos) \in Nat
  BY <1>1, <1>3, <1>4
<1>7. p = [pos EXCEPT !.pending_sol = pos.pending_sol + Reward(pos),
                      !.reward_debt = pool.reward_per_weight]
  BY DEF checkpoint_stake
<1> HIDE DEF p
<1>8. /\ p \in LoosePosition
      /\ p.pending_sol = pos.pending_sol + Reward(pos) /\ p.reward_debt = pool.reward_per_weight
      /\ p.registered = pos.registered /\ p.reward_weight = pos.reward_weight
      /\ p.standard_principal = pos.standard_principal /\ p.burn_principal = pos.burn_principal
      /\ p.cooldown_amount = pos.cooldown_amount /\ p.cooldown_unlock_at = pos.cooldown_unlock_at
  BY <1>1, <1>6, <1>7 DEF PositionType, LoosePosition
<1>9. Promise(pos, pool.reward_per_weight) = earned + REWARD_SCALE * pos.pending_sol
  BY DEF Promise, earned
<1> QED BY <1>5, <1>6, <1>8, <1>9 DEF Checkpointed, p

-----------------------------------------------------------------------------
(* What a step must show.                                                  *)

\* The step replaces s's position by p, raises the index by inc, moves delta
\* lamports and counts k distributions, and keeps the books while it does.
Balanced(s, p, inc, k, delta) ==
    LET old == position[s] IN
    /\ p \in PositionType /\ p.registered
    /\ position' = [position EXCEPT ![s] = p]
    /\ p.reward_debt <= pool.reward_per_weight
    /\ pool' \in PoolType /\ pool'.reward_per_weight = pool.reward_per_weight + inc
    /\ lamports' = lamports + delta /\ lamports' \in Nat
    /\ pool'.total_funded - pool'.total_claimed = pool.total_funded - pool.total_claimed + delta
    /\ distributions' = distributions + k /\ distributions' \in 0 .. MaxDistributions
    /\ Promise(p, pool.reward_per_weight)
         <= Promise(old, pool.reward_per_weight) + REWARD_SCALE * delta
    /\ inc * pool'.total_weight + REWARD_SCALE * pool'.undistributed
         <= REWARD_SCALE * pool.undistributed + (REWARD_SCALE - 1) * k
    /\ p.reward_weight = p.standard_principal + BURN_WEIGHT_MULTIPLIER * p.burn_principal
    /\ pool'.total_weight = pool.total_weight - old.reward_weight + p.reward_weight
    /\ pool'.total_standard = pool.total_standard - old.standard_principal + p.standard_principal
    /\ pool'.total_burn = pool.total_burn - old.burn_principal + p.burn_principal
    /\ pool'.active_stakers = pool.active_stakers
         - (IF old.reward_weight > 0 THEN 1 ELSE 0) + (IF p.reward_weight > 0 THEN 1 ELSE 0)
    /\ vaultTokens' = vaultTokens - (old.standard_principal + old.cooldown_amount)
                                  + (p.standard_principal + p.cooldown_amount)
    /\ vaultTokens' \in Nat
    /\ now' \in 0 .. MaxTime /\ paused' \in BOOLEAN /\ wallet' \in [Stakers -> Nat]

\* The invariant in terms of the sums.
LEMMA InvariantSums ==
    /\ PoolTotalsMatchPositions <=>
          /\ Weighed(position)
          /\ pool.total_weight = Weights(position) /\ pool.total_standard = Standards(position)
          /\ pool.total_burn = Burns(position)
          /\ pool.active_stakers = Cardinality(Earning(position))
          /\ vaultTokens = Principals(position)
    /\ OverdraftBelowDistributions <=>
          Promises(position, pool.reward_per_weight) + REWARD_SCALE * pool.undistributed
            <= REWARD_SCALE * lamports + (REWARD_SCALE - 1) * distributions
BY DEF PoolTotalsMatchPositions, OverdraftBelowDistributions, Weighed, Weights, Standards, Burns,
       Principals, Earning, Promises

\* A balanced step keeps the overdraft below the distributions.
LEMMA BalancedOverdraft ==
    ASSUME StakeInv, NEW s \in Stakers, NEW p, NEW inc \in Nat, NEW k \in Nat, NEW delta \in Int,
           Balanced(s, p, inc, k, delta), pool'.total_weight = Weights(position')
    PROVE  OverdraftBelowDistributions'
<1> DEFINE i == pool.reward_per_weight
           qs == [position EXCEPT ![s] = p]
<1>1. /\ position \in [Stakers -> PositionType] /\ i \in Nat /\ pool.undistributed \in Nat
      /\ lamports \in Nat /\ distributions \in Nat /\ REWARD_SCALE \in Nat \ {0}
      /\ \A x \in Stakers : position[x].reward_debt <= i
  BY StakePoolAssumption DEF StakeInv, StakeLedgerSound, TypeOK, PoolType, U64, DebtsBehind
<1>2. /\ position' = qs /\ pool'.reward_per_weight = i + inc /\ lamports' = lamports + delta
      /\ distributions' = distributions + k /\ p \in PositionType /\ p.reward_debt <= i
      /\ Promise(p, i) <= Promise(position[s], i) + REWARD_SCALE * delta
      /\ inc * pool'.total_weight + REWARD_SCALE * pool'.undistributed
           <= REWARD_SCALE * pool.undistributed + (REWARD_SCALE - 1) * k
  BY DEF Balanced
<1>3. pool'.undistributed \in Nat
  BY StakePoolAssumption DEF Balanced, PoolType, U64
<1>4. /\ qs \in [Stakers -> PositionType] /\ \A x \in Stakers : qs[x].reward_debt <= i
  BY <1>1, <1>2
<1>5. Promises(qs, i) = Promises(position, i) - Promise(position[s], i) + Promise(p, i)
  BY <1>1, <1>2, PromisesReplaced
<1> HIDE DEF i, qs
<1>6. /\ Promises(qs, i + inc) = Promises(qs, i) + inc * Weights(qs)
      /\ Promises(qs, i) \in Nat /\ Weights(qs) \in Nat
  BY <1>1, <1>4, PromisesGrow
<1>7. Promises(position, i) \in Nat
  BY <1>1, PromisesGrow
<1>8. Promise(position[s], i) \in Nat /\ Promise(p, i) \in Nat
  BY <1>1, <1>2, PromiseType
<1>9. Promises(position, i) + REWARD_SCALE * pool.undistributed
        <= REWARD_SCALE * lamports + (REWARD_SCALE - 1) * distributions
  BY InvariantSums DEF StakeInv, StakeLedgerSound, i
<1>10. inc * Weights(qs) + REWARD_SCALE * pool'.undistributed
         <= REWARD_SCALE * pool.undistributed + (REWARD_SCALE - 1) * k
  BY <1>2
<1>11. Promises(qs, i + inc) + REWARD_SCALE * pool'.undistributed
         <= REWARD_SCALE * (lamports + delta) + (REWARD_SCALE - 1) * (distributions + k)
  <2> DEFINE S == REWARD_SCALE  grown == inc * Weights(qs)
             a == S * pool.undistributed  b == S * pool'.undistributed  c == S * lamports
             d == S * delta  e == (S - 1) * distributions  g == (S - 1) * k
  <2>1. /\ grown \in Int /\ a \in Int /\ b \in Int /\ c \in Int /\ d \in Int /\ e \in Int /\ g \in Int
    BY <1>1, <1>3, <1>6
  <2>2. S * (lamports + delta) = c + d /\ (S - 1) * (distributions + k) = e + g
    BY <1>1
  <2>3. /\ Promise(p, i) <= Promise(position[s], i) + d /\ Promises(position, i) + a <= c + e
        /\ grown + b <= a + g
    BY <1>2, <1>9, <1>10
  <2>4. Promises(qs, i + inc) = Promises(position, i) - Promise(position[s], i) + Promise(p, i) + grown
    BY <1>5, <1>6
  <2> HIDE DEF grown, a, b, c, d, e, g
  <2>5. Promises(qs, i + inc) + b <= c + d + (e + g)
    BY <1>7, <1>8, <2>1, <2>3, <2>4
  <2> QED BY <2>2, <2>5 DEF b
<1>12. (OverdraftBelowDistributions <=>
          Promises(position, pool.reward_per_weight) + REWARD_SCALE * pool.undistributed
            <= REWARD_SCALE * lamports + (REWARD_SCALE - 1) * distributions)'
  BY InvariantSums, PTL
<1> QED BY <1>2, <1>11, <1>12

\* The sums are natural numbers.
LEMMA TotalsType ==
    ASSUME NEW ps \in [Stakers -> PositionType]
    PROVE  /\ Weights(ps) \in Nat /\ Standards(ps) \in Nat /\ Burns(ps) \in Nat
           /\ Principals(ps) \in Nat
<1> DEFINE f == [x \in Stakers |-> ps[x].reward_weight]
           g == [x \in Stakers |-> ps[x].standard_principal]
           h == [x \in Stakers |-> ps[x].burn_principal]
           e == [x \in Stakers |-> ps[x].standard_principal + ps[x].cooldown_amount]
<1>1. IsFiniteSet(Stakers)
  BY StakePoolAssumption
<1>2. \A x \in Stakers : f[x] \in Nat /\ g[x] \in Nat /\ h[x] \in Nat /\ e[x] \in Nat
  BY StakePoolAssumption DEF PositionType, U64
<1>3. /\ Weights(ps) = SumOf(f, Stakers) /\ Standards(ps) = SumOf(g, Stakers)
      /\ Burns(ps) = SumOf(h, Stakers) /\ Principals(ps) = SumOf(e, Stakers)
  BY SumOverIsSumOf DEF Weights, Standards, Burns, Principals
<1> HIDE DEF f, g, h, e
<1>4. SumOf(f, Stakers) \in Nat
  BY <1>1, <1>2, SumType
<1>5. SumOf(g, Stakers) \in Nat
  BY <1>1, <1>2, SumType
<1>6. SumOf(h, Stakers) \in Nat
  BY <1>1, <1>2, SumType
<1>7. SumOf(e, Stakers) \in Nat
  BY <1>1, <1>2, SumType
<1> QED BY <1>3, <1>4, <1>5, <1>6, <1>7

\* A balanced step preserves the invariant.
LEMMA BalancedKeeps ==
    ASSUME StakeInv, NEW s \in Stakers, NEW p, NEW inc \in Nat, NEW k \in Nat, NEW delta \in Int,
           Balanced(s, p, inc, k, delta)
    PROVE  StakeInv'
<1> DEFINE qs == [position EXCEPT ![s] = p]
           old == position[s]
<1>1. /\ position \in [Stakers -> PositionType] /\ pool \in PoolType /\ lamports \in Nat
      /\ \A x \in Stakers : position[x].reward_debt <= pool.reward_per_weight
      /\ lamports = pool.total_funded - pool.total_claimed
  BY DEF StakeInv, StakeLedgerSound, TypeOK, DebtsBehind, LedgerExact
<1>2. /\ position' = qs /\ p \in PositionType /\ old \in PositionType /\ qs \in [Stakers -> PositionType]
      /\ qs[s] = p /\ \A x \in Stakers \ {s} : qs[x] = position[x]
  BY <1>1 DEF Balanced
<1>3. TypeOK'
  BY <1>2 DEF Balanced, TypeOK
<1>4. LedgerExact'
  BY <1>1, StakePoolAssumption DEF Balanced, LedgerExact, PoolType, U64
<1>5. PoolTotalsMatchPositions'
  <2>1. /\ Weights(qs) = Weights(position) - old.reward_weight + p.reward_weight
        /\ Standards(qs) = Standards(position) - old.standard_principal + p.standard_principal
        /\ Burns(qs) = Burns(position) - old.burn_principal + p.burn_principal
        /\ Principals(qs) = Principals(position) - (old.standard_principal + old.cooldown_amount)
                              + (p.standard_principal + p.cooldown_amount)
    BY <1>1, <1>2, TotalsReplaced, ZenonT(60)
  <2>2. Cardinality(Earning(qs)) = Cardinality(Earning(position))
          - (IF old.reward_weight > 0 THEN 1 ELSE 0) + (IF p.reward_weight > 0 THEN 1 ELSE 0)
    BY <1>1, <1>2, EarningReplaced
  <2>3. /\ Weighed(position)
        /\ pool.total_weight = Weights(position) /\ pool.total_standard = Standards(position)
        /\ pool.total_burn = Burns(position)
        /\ pool.active_stakers = Cardinality(Earning(position))
        /\ vaultTokens = Principals(position)
    BY InvariantSums DEF StakeInv, StakeLedgerSound
  <2> HIDE DEF qs, old
  <2>4. /\ pool'.total_weight = Weights(qs) /\ pool'.total_standard = Standards(qs)
        /\ pool'.total_burn = Burns(qs) /\ pool'.active_stakers = Cardinality(Earning(qs))
        /\ vaultTokens' = Principals(qs)
    BY <2>1, <2>2, <2>3 DEF Balanced, old
  <2>5. Weighed(qs)
    BY <1>2, <2>3 DEF Balanced, Weighed
  <2>6. (PoolTotalsMatchPositions <=>
          /\ Weighed(position)
          /\ pool.total_weight = Weights(position) /\ pool.total_standard = Standards(position)
          /\ pool.total_burn = Burns(position)
          /\ pool.active_stakers = Cardinality(Earning(position))
          /\ vaultTokens = Principals(position))'
    BY InvariantSums, PTL
  <2> QED BY <1>2, <2>4, <2>5, <2>6
<1>6. pool'.total_weight = Weights(position')
  <2>1. (PoolTotalsMatchPositions => pool.total_weight = Weights(position))'
    BY InvariantSums, PTL
  <2> QED BY <1>5, <2>1
<1>7. OverdraftBelowDistributions'
  BY <1>6, BalancedOverdraft
<1>8. DebtsBehind'
  <2>1. /\ pool'.reward_per_weight = pool.reward_per_weight + inc /\ pool.reward_per_weight \in Nat
        /\ \A x \in Stakers : position[x].reward_debt \in Nat /\ qs[x].reward_debt \in Nat
        /\ p.reward_debt <= pool.reward_per_weight
    BY <1>1, <1>2 DEF Balanced, PoolType, PositionType
  <2>2. ASSUME NEW x \in Stakers PROVE qs[x].reward_debt <= pool'.reward_per_weight
    <3>1. qs[x].reward_debt <= pool.reward_per_weight
      BY <1>1, <1>2, <2>1
    <3> HIDE DEF qs
    <3> QED BY <2>1, <3>1
  <2> QED BY <1>2, <2>2 DEF DebtsBehind
<1>9. UnregisteredEmpty'
  BY <1>2 DEF StakeInv, UnregisteredEmpty, Registered, Balanced
<1> QED BY <1>3, <1>4, <1>5, <1>7, <1>8, <1>9 DEF StakeInv, StakeLedgerSound

-----------------------------------------------------------------------------
(* Steps that add weight.                                                  *)

\* c is old after a checkpoint and a payment of sol.
Paid(old, c, sol) ==
    /\ c \in LoosePosition
    /\ c.pending_sol = old.pending_sol + Reward(old) + sol
    /\ c.reward_debt = pool.reward_per_weight
    /\ c.registered = old.registered /\ c.reward_weight = old.reward_weight
    /\ c.standard_principal = old.standard_principal /\ c.burn_principal = old.burn_principal
    /\ c.cooldown_amount = old.cooldown_amount /\ c.cooldown_unlock_at = old.cooldown_unlock_at
    /\ REWARD_SCALE * c.pending_sol
         <= Promise(old, pool.reward_per_weight) + REWARD_SCALE * sol

\* m is the pool with old's new stake and a payment of sol, not yet
\* redistributed.
Enlarged(old, m, standard, burn, sol) ==
    /\ m \in LoosePool
    /\ m.reward_per_weight = pool.reward_per_weight /\ m.undistributed = pool.undistributed
    /\ m.total_funded = pool.total_funded + sol /\ m.total_claimed = pool.total_claimed
    /\ m.total_standard = pool.total_standard + standard
    /\ m.total_burn = pool.total_burn + burn
    /\ m.total_weight = pool.total_weight + standard + burn * BURN_WEIGHT_MULTIPLIER
    /\ m.active_stakers = pool.active_stakers + (IF old.reward_weight = 0 THEN 1 ELSE 0)

LEMMA PaidCheckpoint ==
    ASSUME StakeInv, NEW s \in Stakers, NEW sol \in Nat
    PROVE  LET pos == checkpoint_stake(position[s]) IN
           /\ Paid(position[s], pos, 0)
           /\ Paid(position[s], [pos EXCEPT !.pending_sol = pos.pending_sol + sol], sol)
<1> DEFINE old == position[s]
           pos == checkpoint_stake(old)
           paid == [pos EXCEPT !.pending_sol = pos.pending_sol + sol]
           earned == Promise(old, pool.reward_per_weight)
<1>1. /\ old \in PositionType /\ pool \in PoolType /\ old.reward_debt <= pool.reward_per_weight
  BY DEF StakeInv, StakeLedgerSound, TypeOK, DebtsBehind
<1>2. Checkpointed(old, pos)
  BY <1>1, CheckpointMoves
<1>3. earned \in Nat
  BY <1>1, PromiseType DEF PoolType
<1>4. old.pending_sol \in Nat /\ Reward(old) \in Nat /\ REWARD_SCALE \in Nat
  BY <1>1, <1>2, StakePoolAssumption DEF PositionType, U64, Checkpointed
<1> HIDE DEF pos, old, earned
<1>5. pos.pending_sol + sol \in Nat /\ pos.pending_sol = old.pending_sol + Reward(old)
  BY <1>2, <1>4 DEF Checkpointed
<1>6. /\ paid \in LoosePosition /\ paid.pending_sol = pos.pending_sol + sol
      /\ paid.reward_debt = pos.reward_debt /\ paid.registered = pos.registered
      /\ paid.reward_weight = pos.reward_weight
      /\ paid.standard_principal = pos.standard_principal
      /\ paid.burn_principal = pos.burn_principal /\ paid.cooldown_amount = pos.cooldown_amount
      /\ paid.cooldown_unlock_at = pos.cooldown_unlock_at
  BY <1>2, <1>5 DEF Checkpointed, LoosePosition
<1> HIDE DEF paid
<1>7. REWARD_SCALE * pos.pending_sol <= earned
  BY <1>2 DEF Checkpointed, earned
<1>8. REWARD_SCALE * (pos.pending_sol + sol) <= earned + REWARD_SCALE * sol
  BY <1>3, <1>4, <1>5, <1>7
<1>9. Paid(old, pos, 0)
  <2>1. old.pending_sol + Reward(old) + 0 = pos.pending_sol /\ earned + REWARD_SCALE * 0 = earned
    BY <1>3, <1>4, <1>5
  <2> QED BY <1>2, <1>7, <2>1 DEF Checkpointed, Paid, earned
<1>10. Paid(old, paid, sol)
  <2>1. old.pending_sol + Reward(old) + sol = pos.pending_sol + sol
    BY <1>4, <1>5
  <2> QED BY <1>2, <1>6, <1>8, <2>1 DEF Checkpointed, Paid, earned
<1> QED BY <1>9, <1>10 DEF pos, old, paid

LEMMA EnlargedPool ==
    ASSUME StakeInv, NEW s \in Stakers, NEW standard \in Nat, NEW burn \in Nat, NEW sol \in Nat
    PROVE  LET m == PoolWithStake(checkpoint_stake(position[s]), standard, burn) IN
           /\ Enlarged(position[s], m, standard, burn, 0)
           /\ Enlarged(position[s], [m EXCEPT !.total_funded = pool.total_funded + sol],
                       standard, burn, sol)
<1> DEFINE old == position[s]
           pos == checkpoint_stake(old)
           m == PoolWithStake(pos, standard, burn)
           n == [m EXCEPT !.total_funded = pool.total_funded + sol]
           weight == pool.total_weight + standard + burn * BURN_WEIGHT_MULTIPLIER
           active == pool.active_stakers + (IF old.reward_weight = 0 THEN 1 ELSE 0)
<1>1. /\ old \in PositionType /\ pool \in PoolType /\ old.reward_debt <= pool.reward_per_weight
  BY DEF StakeInv, StakeLedgerSound, TypeOK, DebtsBehind
<1>2. pos.reward_weight = old.reward_weight
  BY <1>1, CheckpointMoves DEF Checkpointed
<1>3. /\ pool.total_weight \in Nat /\ pool.total_standard \in Nat /\ pool.total_burn \in Nat
      /\ pool.active_stakers \in Nat /\ pool.total_funded \in Nat /\ pool.total_claimed \in Nat
      /\ pool.undistributed \in Nat /\ pool.reward_per_weight \in Nat
      /\ BURN_WEIGHT_MULTIPLIER \in Nat
  BY <1>1, StakePoolAssumption DEF PoolType, U64
<1>4. burn * BURN_WEIGHT_MULTIPLIER \in Nat
  BY <1>3
<1>5. /\ weight \in Nat /\ active \in Int
      /\ pool.total_standard + standard \in Int /\ pool.total_burn + burn \in Int
      /\ pool.total_funded + sol \in Int /\ pool.total_funded + 0 = pool.total_funded
  BY <1>3, <1>4
<1>6. m = [pool EXCEPT !.total_standard = pool.total_standard + standard,
                       !.total_burn = pool.total_burn + burn,
                       !.total_weight = weight, !.active_stakers = active]
  BY <1>2 DEF PoolWithStake
<1> HIDE DEF weight, active, m, old
<1>7. Enlarged(old, m, standard, burn, 0)
  <2>0. pool \in LoosePool
    <3>1. U64 \subseteq Nat /\ U64 \subseteq Int
      BY StakePoolAssumption DEF U64
    <3> QED BY <1>1, <3>1 DEF PoolType, LoosePool
  <2>1. /\ m \in LoosePool
        /\ m.total_standard = pool.total_standard + standard
        /\ m.total_burn = pool.total_burn + burn /\ m.total_weight = weight
        /\ m.active_stakers = active /\ m.total_funded = pool.total_funded
        /\ m.total_claimed = pool.total_claimed /\ m.undistributed = pool.undistributed
        /\ m.reward_per_weight = pool.reward_per_weight
    BY <1>5, <1>6, <2>0 DEF LoosePool
  <2> QED BY <1>5, <2>1 DEF Enlarged, weight, active
<1>8. Enlarged(old, n, standard, burn, sol)
  <2>1. /\ n \in LoosePool /\ n.total_funded = pool.total_funded + sol
        /\ n.total_standard = m.total_standard /\ n.total_burn = m.total_burn
        /\ n.total_weight = m.total_weight /\ n.active_stakers = m.active_stakers
        /\ n.total_claimed = m.total_claimed /\ n.undistributed = m.undistributed
        /\ n.reward_per_weight = m.reward_per_weight
    BY <1>5, <1>7 DEF Enlarged, LoosePool
  <2> QED BY <1>7, <2>1 DEF Enlarged
<1> QED BY <1>7, <1>8 DEF m, old

\* No weight is granted more than amount.
GrantsAtMost(weight, inc, amount) ==
    \A w \in Nat : w <= weight => (w * inc) \div REWARD_SCALE <= amount

\* An instruction that adds stake to a checkpointed and paid position is
\* balanced, and its weight is granted at most the carried remainder.
LEMMA StakeAdded ==
    ASSUME StakeInv, NEW s \in Stakers, Registered(s),
           NEW standard \in U64, NEW burn \in U64, standard + burn > 0, NEW sol \in Nat,
           NEW c, Paid(position[s], c, sol),
           NEW m, Enlarged(position[s], m, standard, burn, sol),
           position' = [position EXCEPT ![s] = WithStake(c, standard, burn)],
           position'[s] \in PositionType,
           pool' = fund_stake_rewards(m, 0), pool' \in PoolType, Distributes,
           lamports' = lamports + sol, vaultTokens' = vaultTokens + standard,
           now' \in 0 .. MaxTime, paused' \in BOOLEAN, wallet' \in [Stakers -> Nat]
    PROVE  \E inc \in Nat :
              /\ Balanced(s, WithStake(c, standard, burn), inc, 1, sol)
              /\ GrantsAtMost(pool'.total_weight, inc, pool.undistributed)
<1> DEFINE old == position[s]
           p == WithStake(c, standard, burn)
           M == BURN_WEIGHT_MULTIPLIER
<1>1. /\ position \in [Stakers -> PositionType] /\ old \in PositionType /\ pool \in PoolType
      /\ lamports \in Nat /\ vaultTokens \in Nat /\ distributions \in Nat
      /\ old.reward_weight = old.standard_principal + M * old.burn_principal
  BY DEF StakeInv, StakeLedgerSound, TypeOK, PoolTotalsMatchPositions
<1>2. /\ pool.total_weight \in Nat /\ pool.total_standard \in Nat /\ pool.total_burn \in Nat
      /\ pool.active_stakers \in Nat /\ pool.total_funded \in Nat /\ pool.total_claimed \in Nat
      /\ pool.undistributed \in Nat /\ pool.reward_per_weight \in Nat
      /\ M \in Nat \ {0} /\ REWARD_SCALE \in Nat \ {0} /\ standard \in Nat /\ burn \in Nat
      /\ old.reward_weight \in Nat /\ old.standard_principal \in Nat
      /\ old.burn_principal \in Nat /\ old.cooldown_amount \in Nat
  BY <1>1, StakePoolAssumption DEF PoolType, PositionType, U64
<1>3. p \in PositionType
  BY <1>1
<1>4. p = [c EXCEPT !.standard_principal = c.standard_principal + standard,
                    !.burn_principal = c.burn_principal + burn,
                    !.reward_weight = c.reward_weight + standard + burn * M]
  BY DEF WithStake
<1>5. c \in LoosePosition
  BY DEF Paid
<1> HIDE DEF p, old, M
<1>6. /\ p.standard_principal = old.standard_principal + standard
      /\ p.burn_principal = old.burn_principal + burn
      /\ p.reward_weight = old.reward_weight + standard + burn * M
      /\ p.cooldown_amount = old.cooldown_amount /\ p.registered = old.registered
      /\ p.reward_debt = pool.reward_per_weight /\ p.pending_sol = c.pending_sol
  BY <1>4, <1>5 DEF LoosePosition, Paid, old
<1>7. /\ m \in LoosePool /\ m.reward_per_weight = pool.reward_per_weight
      /\ m.undistributed = pool.undistributed /\ m.total_funded = pool.total_funded + sol
      /\ m.total_claimed = pool.total_claimed
      /\ m.total_standard = pool.total_standard + standard
      /\ m.total_burn = pool.total_burn + burn
      /\ m.total_weight = pool.total_weight + standard + burn * M
      /\ m.active_stakers = pool.active_stakers + (IF old.reward_weight = 0 THEN 1 ELSE 0)
  BY DEF Enlarged, old, M
<1>8. PICK inc \in Nat : Grants(m, 0, pool', inc)
  BY <1>7, DistributionGrants
<1>9. /\ burn * M \in Nat /\ burn * M = M * burn /\ M * burn \in Nat /\ M * old.burn_principal \in Nat
      /\ M * (old.burn_principal + burn) = M * old.burn_principal + M * burn
      /\ (burn > 0 => burn * M > 0)
  BY <1>2
<1>10. p.reward_weight = p.standard_principal + M * p.burn_principal
  BY <1>1, <1>2, <1>6, <1>9
<1>11. p.reward_weight > 0
  <2> HIDE DEF p
  <2>1. standard > 0 \/ burn * M > 0
    BY <1>2, <1>9
  <2> QED BY <1>2, <1>6, <1>9, <2>1, SMTT(30)
<1>12. /\ pool'.total_weight = pool.total_weight - old.reward_weight + p.reward_weight
       /\ pool'.total_standard = pool.total_standard - old.standard_principal + p.standard_principal
       /\ pool'.total_burn = pool.total_burn - old.burn_principal + p.burn_principal
       /\ pool'.active_stakers = pool.active_stakers
            - (IF old.reward_weight > 0 THEN 1 ELSE 0) + (IF p.reward_weight > 0 THEN 1 ELSE 0)
  <2>1. /\ pool'.total_weight = pool.total_weight + standard + burn * M
        /\ pool'.total_standard = pool.total_standard + standard
        /\ pool'.total_burn = pool.total_burn + burn
        /\ pool'.active_stakers = pool.active_stakers + (IF old.reward_weight = 0 THEN 1 ELSE 0)
    BY <1>7, <1>8 DEF Grants
  <2> QED BY <1>2, <1>6, <1>9, <1>11, <2>1
<1>13. Promise(p, pool.reward_per_weight)
         <= Promise(old, pool.reward_per_weight) + REWARD_SCALE * sol
  <2>1. \A w, d, x \in Int : w * (d - d) + x = x
    OBVIOUS
  <2>2. p.pending_sol \in Int /\ REWARD_SCALE * p.pending_sol \in Int /\ p.reward_weight \in Int
    BY <1>2, <1>3, StakePoolAssumption DEF PositionType, U64
  <2>3. Promise(p, pool.reward_per_weight) = REWARD_SCALE * p.pending_sol
    BY <1>2, <1>6, <2>1, <2>2 DEF Promise
  <2> QED BY <1>6, <2>3 DEF Paid, old
<1>14. /\ inc * pool'.total_weight + REWARD_SCALE * pool'.undistributed
            <= REWARD_SCALE * pool.undistributed + (REWARD_SCALE - 1) * 1
       /\ pool'.reward_per_weight = pool.reward_per_weight + inc
       /\ pool'.total_funded - pool'.total_claimed
            = pool.total_funded - pool.total_claimed + sol
  <2>1. /\ inc * m.total_weight + REWARD_SCALE * pool'.undistributed
            <= REWARD_SCALE * (m.undistributed + 0) + (REWARD_SCALE - 1)
        /\ pool'.total_weight = m.total_weight
        /\ pool'.reward_per_weight = m.reward_per_weight + inc
        /\ pool'.total_funded = m.total_funded + 0 /\ pool'.total_claimed = m.total_claimed
    BY <1>8 DEF Grants
  <2>2. m.undistributed + 0 = pool.undistributed /\ (REWARD_SCALE - 1) * 1 = REWARD_SCALE - 1
    BY <1>2, <1>7
  <2>3. pool'.total_funded = pool.total_funded + sol /\ pool'.total_claimed = pool.total_claimed
    BY <1>2, <1>7, <2>1
  <2> QED BY <1>2, <1>7, <2>1, <2>2, <2>3
<1>15. /\ distributions' = distributions + 1 /\ distributions' \in 0 .. MaxDistributions
       /\ lamports' \in Nat /\ vaultTokens' \in Nat
       /\ vaultTokens' = vaultTokens - (old.standard_principal + old.cooldown_amount)
                                  + (p.standard_principal + p.cooldown_amount)
  BY <1>1, <1>2, <1>6, StakePoolAssumption DEF Distributes
<1>16. Balanced(s, p, inc, 1, sol)
  <2>1. p.registered
    BY <1>6 DEF Registered, old
  <2>2. p.reward_debt <= pool.reward_per_weight
    BY <1>2, <1>6
  <2>3. position' = [position EXCEPT ![s] = p]
    BY DEF p
  <2> QED BY <1>3, <1>10, <1>12, <1>13, <1>14, <1>15, <2>1, <2>2, <2>3 DEF Balanced, old, M
<1>17. GrantsAtMost(pool'.total_weight, inc, pool.undistributed)
  <2>1. m.undistributed + 0 = pool.undistributed /\ pool'.total_weight = m.total_weight
    BY <1>2, <1>7, <1>8 DEF Grants
  <2> QED BY <1>8, <2>1 DEF Grants, GrantsAtMost
<1> QED BY <1>16, <1>17 DEF p

-----------------------------------------------------------------------------
(* What a step does to what the stakers may take.                          *)

\* What claim_staking_rewards pays a position when the index stands at i.
Earned(p, i) ==
    p.pending_sol + (p.reward_weight * (i - p.reward_debt)) \div REWARD_SCALE

\* The step takes nothing from s but what it pays, and grants its new weight
\* no more than the carried remainder.
Fair(s, p, inc, delta) ==
    LET before == Earned(position[s], pool.reward_per_weight)
        after  == Earned(p, pool.reward_per_weight + inc)
    IN
    /\ after >= before \/ (after = 0 /\ delta = 0 - before)
    /\ p.reward_weight > position[s].reward_weight =>
         after <= before + pool.undistributed + delta

\* One step of either temporal property.
EarningsStep ==
    /\ \A s \in Stakers :
         \/ Owed(s)' >= Owed(s)
         \/ Owed(s)' = 0 /\ lamports' = lamports - Owed(s)
    /\ \A s \in Stakers :
         position'[s].reward_weight > position[s].reward_weight =>
           Owed(s)' <= Owed(s) + pool.undistributed + (lamports' - lamports)

LEMMA OwedIsEarned ==
    /\ \A s \in Stakers : Owed(s) = Earned(position[s], pool.reward_per_weight)
    /\ \A s \in Stakers : Owed(s)' = Earned(position'[s], pool'.reward_per_weight)
BY DEF Owed, Reward, Earned

\* A growing index takes nothing away.
LEMMA EarnedGrows ==
    ASSUME NEW p \in PositionType, NEW i \in Nat, NEW inc \in Nat, p.reward_debt <= i
    PROVE  /\ Earned(p, i) \in Nat /\ Earned(p, i + inc) \in Nat
           /\ p.pending_sol <= Earned(p, i) /\ Earned(p, i) <= Earned(p, i + inc)
<1> DEFINE w == p.reward_weight
           x == i - p.reward_debt
           y == (i + inc) - p.reward_debt
<1>1. /\ w \in Nat /\ x \in Nat /\ y \in Nat /\ x <= y
      /\ p.pending_sol \in Nat /\ REWARD_SCALE \in Nat \ {0}
  BY StakePoolAssumption DEF PositionType, U64
<1> HIDE DEF w, x, y
<1>2. w * x \in Nat /\ w * y \in Nat /\ w * x <= w * y
  BY <1>1, ProductMonotone
<1> DEFINE a == w * x
           b == w * y
<1> HIDE DEF a, b
<1>3. a \in Nat /\ b \in Nat /\ a <= b
  BY <1>2 DEF a, b
<1>4. a \div REWARD_SCALE \in Nat /\ b \div REWARD_SCALE \in Nat
      /\ a \div REWARD_SCALE <= b \div REWARD_SCALE
  BY <1>1, <1>3, DivBounds, DivMonotone
<1>5. /\ Earned(p, i) = p.pending_sol + a \div REWARD_SCALE
      /\ Earned(p, i + inc) = p.pending_sol + b \div REWARD_SCALE
  <2>1. a = p.reward_weight * (i - p.reward_debt)
    BY DEF a, w, x
  <2>2. b = p.reward_weight * ((i + inc) - p.reward_debt)
    BY DEF b, w, y
  <2> QED BY <2>1, <2>2 DEF Earned
<1> QED BY <1>1, <1>4, <1>5

\* A balanced and fair step is a step of the temporal properties.
LEMMA BalancedFair ==
    ASSUME StakeInv, NEW s \in Stakers, NEW p, NEW inc \in Nat, NEW k \in Nat, NEW delta \in Int,
           Balanced(s, p, inc, k, delta), Fair(s, p, inc, delta)
    PROVE  EarningsStep
<1>1. /\ position \in [Stakers -> PositionType] /\ pool.reward_per_weight \in Nat
      /\ lamports \in Nat /\ pool.undistributed \in Nat
      /\ \A x \in Stakers : position[x].reward_debt <= pool.reward_per_weight
  BY StakePoolAssumption DEF StakeInv, StakeLedgerSound, TypeOK, PoolType, U64, DebtsBehind
<1>2. /\ p \in PositionType /\ position' = [position EXCEPT ![s] = p]
      /\ pool'.reward_per_weight = pool.reward_per_weight + inc /\ lamports' = lamports + delta
      /\ p.reward_debt <= pool.reward_per_weight
  BY DEF Balanced
<1>3. ASSUME NEW x \in Stakers, x # s
      PROVE  Owed(x)' >= Owed(x) /\ position'[x].reward_weight = position[x].reward_weight
  <2>1. position'[x] = position[x] /\ position[x] \in PositionType
    BY <1>1, <1>2, <1>3
  <2>2. /\ Earned(position[x], pool.reward_per_weight) \in Nat
        /\ Earned(position[x], pool.reward_per_weight + inc) \in Nat
        /\ Earned(position[x], pool.reward_per_weight)
             <= Earned(position[x], pool.reward_per_weight + inc)
    BY <1>1, <2>1, EarnedGrows
  <2> QED BY <1>2, <2>1, <2>2, OwedIsEarned
<1>4. /\ Owed(s) = Earned(position[s], pool.reward_per_weight)
      /\ Owed(s)' = Earned(p, pool.reward_per_weight + inc)
      /\ position'[s] = p
  BY <1>1, <1>2, OwedIsEarned
<1>5. Owed(s) \in Nat
  BY <1>1, <1>4, EarnedGrows
<1>6. /\ Owed(s)' >= Owed(s) \/ (Owed(s)' = 0 /\ delta = 0 - Owed(s))
      /\ p.reward_weight > position[s].reward_weight =>
           Owed(s)' <= Owed(s) + pool.undistributed + delta
  BY <1>4 DEF Fair
<1>7. lamports' - lamports = delta /\ (delta = 0 - Owed(s) => lamports' = lamports - Owed(s))
  <2>1. \A u, v, d, o \in Int : v = u + d => v - u = d /\ (d = 0 - o => v = u - o)
    OBVIOUS
  <2>2. lamports' \in Int
    BY <1>1, <1>2
  <2> QED BY <1>1, <1>2, <1>5, <2>1, <2>2
<1>8. \A x \in Stakers : position[x].reward_weight \in Nat
  BY <1>1, StakePoolAssumption DEF PositionType, U64
<1>9. \A x \in Stakers :
         \/ Owed(x)' >= Owed(x)
         \/ Owed(x)' = 0 /\ lamports' = lamports - Owed(x)
  BY <1>3, <1>6, <1>7
<1>10. \A x \in Stakers :
         position'[x].reward_weight > position[x].reward_weight =>
           Owed(x)' <= Owed(x) + pool.undistributed + (lamports' - lamports)
  <2>1. ASSUME NEW x \in Stakers, position'[x].reward_weight > position[x].reward_weight
        PROVE  x = s
    BY <1>3, <1>8, <2>1
  <2> QED BY <1>4, <1>6, <1>7, <2>1
<1> QED BY <1>9, <1>10 DEF EarningsStep

\* No staker's part of a total is larger than the total.
LEMMA PartOfTotals ==
    ASSUME StakeInv, NEW s \in Stakers
    PROVE  /\ position[s].reward_weight <= pool.total_weight
           /\ position[s].standard_principal <= pool.total_standard
           /\ position[s].reward_weight > 0 => pool.active_stakers >= 1
<1> DEFINE f == [x \in Stakers |-> position[x].reward_weight]
           g == [x \in Stakers |-> position[x].standard_principal]
<1>1. IsFiniteSet(Stakers) /\ position \in [Stakers -> PositionType]
  BY StakePoolAssumption DEF StakeInv, StakeLedgerSound, TypeOK
<1>2. \A x \in Stakers : f[x] \in Nat /\ g[x] \in Nat
  BY <1>1, StakePoolAssumption DEF PositionType, U64
<1>3. /\ pool.total_weight = SumOf(f, Stakers) /\ pool.total_standard = SumOf(g, Stakers)
      /\ pool.active_stakers = Cardinality(Earning(position))
  BY InvariantSums, SumOverIsSumOf DEF StakeInv, StakeLedgerSound, Weights, Standards
<1>4. f[s] = position[s].reward_weight /\ g[s] = position[s].standard_principal
  OBVIOUS
<1> HIDE DEF f, g
<1>5. f[s] <= SumOf(f, Stakers)
  BY <1>1, <1>2, SumElement
<1>6. g[s] <= SumOf(g, Stakers)
  BY <1>1, <1>2, SumElement
<1>7. ASSUME position[s].reward_weight > 0 PROVE Cardinality(Earning(position)) >= 1
  <2>1. Earning(position) \subseteq Stakers /\ Earning(position) # {}
    BY <1>7 DEF Earning
  <2>2. IsFiniteSet(Earning(position))
    BY <1>1, <2>1, FS_Subset
  <2>3. Cardinality(Earning(position)) \in Nat /\ Cardinality(Earning(position)) # 0
    BY <2>1, <2>2, FS_CardinalityType, FS_EmptySet
  <2> QED BY <2>3
<1> QED BY <1>3, <1>4, <1>5, <1>6, <1>7

-----------------------------------------------------------------------------
(* The actions.                                                            *)

\* A balanced and fair step keeps the books and the earnings.
LEMMA StepKeeps ==
    ASSUME StakeInv, NEW s \in Stakers, NEW p, NEW inc \in Nat, NEW k \in Nat, NEW delta \in Int,
           Balanced(s, p, inc, k, delta), Fair(s, p, inc, delta)
    PROVE  StakeInv' /\ EarningsStep
BY BalancedKeeps, BalancedFair

LEMMA AddedStakeKeeps ==
    ASSUME StakeInv, NEW s \in Stakers, Registered(s),
           NEW standard \in U64, NEW burn \in U64, standard + burn > 0, NEW sol \in Nat,
           NEW c, Paid(position[s], c, sol),
           NEW m, Enlarged(position[s], m, standard, burn, sol),
           position' = [position EXCEPT ![s] = WithStake(c, standard, burn)],
           position'[s] \in PositionType,
           pool' = fund_stake_rewards(m, 0), pool' \in PoolType, Distributes,
           lamports' = lamports + sol, vaultTokens' = vaultTokens + standard,
           now' \in 0 .. MaxTime, paused' \in BOOLEAN, wallet' \in [Stakers -> Nat]
    PROVE  StakeInv' /\ EarningsStep
<1> DEFINE p == WithStake(c, standard, burn)
           i == pool.reward_per_weight
           before == Earned(position[s], i)
<1>1. PICK inc \in Nat :
        /\ Balanced(s, p, inc, 1, sol)
        /\ GrantsAtMost(pool'.total_weight, inc, pool.undistributed)
  BY StakeAdded
<1>2. /\ position[s] \in PositionType /\ position[s].reward_debt <= i /\ i \in Nat
      /\ pool.undistributed \in Nat /\ pool.total_weight \in Nat /\ REWARD_SCALE \in Nat \ {0}
  BY StakePoolAssumption DEF StakeInv, StakeLedgerSound, TypeOK, DebtsBehind, PoolType, U64
<1>3. before \in Nat
  BY <1>2, EarnedGrows
<1>4. c \in LoosePosition /\ c.reward_debt = i /\ c.pending_sol = before + sol
  BY <1>2 DEF Paid, Reward, Earned
<1>5. p.reward_debt = i /\ p.pending_sol = before + sol
  BY <1>4 DEF WithStake, LoosePosition
<1>6. p \in PositionType /\ pool'.total_weight
          = pool.total_weight - position[s].reward_weight + p.reward_weight
  BY <1>1 DEF Balanced
<1>7. position[s].reward_weight <= pool.total_weight
  BY PartOfTotals
<1>8. position[s].reward_weight \in Nat /\ p.reward_weight \in Nat
  BY <1>2, <1>6, StakePoolAssumption DEF PositionType, U64
<1> HIDE DEF p, i, before
<1>9. p.reward_weight <= pool'.total_weight
  BY <1>2, <1>6, <1>7, <1>8
<1>10. (p.reward_weight * inc) \div REWARD_SCALE <= pool.undistributed
  BY <1>1, <1>8, <1>9 DEF GrantsAtMost
<1>11. Earned(p, i + inc) = before + sol + (p.reward_weight * inc) \div REWARD_SCALE
  <2>1. (i + inc) - i = inc
    BY <1>1, <1>2
  <2> QED BY <1>5, <2>1 DEF Earned
<1>12. p.reward_weight * inc \in Nat
  BY <1>1, <1>8, ProductMonotone
<1> DEFINE g == (p.reward_weight * inc) \div REWARD_SCALE
<1>13. g \in Nat
  BY <1>2, <1>12, DivBounds
<1>14. Earned(p, i + inc) = before + sol + g /\ g <= pool.undistributed
  BY <1>10, <1>11
<1> HIDE DEF g
<1>15. Fair(s, p, inc, sol)
  BY <1>2, <1>3, <1>13, <1>14 DEF Fair, before, i
<1> QED BY <1>1, <1>15, StepKeeps

LEMMA StakeStandardKeeps ==
    ASSUME StakeInv, NEW s \in Stakers, NEW amount \in Stakes, stake_standard(s, amount)
    PROVE  StakeInv' /\ EarningsStep
<1> DEFINE pos == checkpoint_stake(position[s])
           m == PoolWithStake(pos, amount, 0)
<1>1. /\ amount \in U64 /\ amount > 0 /\ 0 \in U64 /\ amount \in Nat
  BY StakePoolAssumption DEF stake_standard, MoveIntoVault, U64
<1>2. /\ Registered(s) /\ vaultTokens' = vaultTokens + amount /\ Distributes
      /\ position' = [position EXCEPT ![s] = WithStake(pos, amount, 0)]
      /\ pool' = fund_stake_rewards(m, 0)
      /\ pool' \in PoolType /\ position'[s] \in PositionType
      /\ now' = now /\ paused' = paused /\ lamports' = lamports
      /\ wallet' = [wallet EXCEPT ![s] = wallet[s] - amount] /\ amount <= wallet[s]
  BY DEF stake_standard, MoveIntoVault, AddStake
<1>3. Paid(position[s], pos, 0) /\ Enlarged(position[s], m, amount, 0, 0)
  BY <1>1, PaidCheckpoint, EnlargedPool
<1>4. /\ now' \in 0 .. MaxTime /\ paused' \in BOOLEAN /\ lamports' = lamports + 0
      /\ wallet' \in [Stakers -> Nat] /\ amount + 0 > 0
  BY <1>1, <1>2 DEF StakeInv, StakeLedgerSound, TypeOK
<1> HIDE DEF pos, m
<1> QED BY <1>1, <1>2, <1>3, <1>4, AddedStakeKeeps

LEMMA BurnKeeps ==
    ASSUME StakeInv, NEW s \in Stakers, NEW amount \in Stakes,
           burn_stake(s, amount) \/ burn_unclaimed_myne(s, amount)
    PROVE  StakeInv' /\ EarningsStep
<1> DEFINE pos == checkpoint_stake(position[s])
           m == PoolWithStake(pos, 0, amount)
<1>1. /\ amount \in U64 /\ amount > 0 /\ 0 \in U64 /\ amount \in Nat
  BY StakePoolAssumption DEF burn_stake, burn_unclaimed_myne, U64
<1>2. /\ Registered(s) /\ vaultTokens' = vaultTokens /\ Distributes
      /\ position' = [position EXCEPT ![s] = WithStake(pos, 0, amount)]
      /\ pool' = fund_stake_rewards(m, 0)
      /\ pool' \in PoolType /\ position'[s] \in PositionType
      /\ now' = now /\ paused' = paused /\ lamports' = lamports
  BY DEF burn_stake, burn_unclaimed_myne, AddStake
<1>3. Paid(position[s], pos, 0) /\ Enlarged(position[s], m, 0, amount, 0)
  BY <1>1, PaidCheckpoint, EnlargedPool
<1>4. /\ now' \in 0 .. MaxTime /\ paused' \in BOOLEAN /\ lamports' = lamports + 0
      /\ vaultTokens' = vaultTokens + 0 /\ 0 + amount > 0
  BY <1>1, <1>2 DEF StakeInv, StakeLedgerSound, TypeOK
<1>5. wallet' \in [Stakers -> Nat]
  <2>1. wallet \in [Stakers -> Nat]
    BY DEF StakeInv, StakeLedgerSound, TypeOK
  <2>2. CASE burn_stake(s, amount)
    BY <1>1, <2>1, <2>2 DEF burn_stake
  <2>3. CASE burn_unclaimed_myne(s, amount)
    BY <2>1, <2>3 DEF burn_unclaimed_myne
  <2> QED BY <2>2, <2>3
<1> HIDE DEF pos, m
<1> QED BY <1>1, <1>2, <1>3, <1>4, <1>5, AddedStakeKeeps

\* A withdrawal moves the cooling principal and touches no reward.
LEMMA WithdrawKeeps ==
    ASSUME StakeInv, NEW s \in Stakers, withdraw_unstaked(s)
    PROVE  StakeInv' /\ EarningsStep
<1> DEFINE old == position[s]
           p == [old EXCEPT !.cooldown_amount = 0, !.cooldown_unlock_at = 0]
           i == pool.reward_per_weight
<1>1. /\ old \in PositionType /\ old.reward_debt <= i /\ i \in Nat /\ pool \in PoolType
      /\ pool.undistributed \in Nat /\ pool.total_weight \in Nat /\ REWARD_SCALE \in Nat \ {0}
      /\ lamports \in Nat /\ vaultTokens \in Nat /\ wallet \in [Stakers -> Nat]
      /\ old.reward_weight = old.standard_principal + BURN_WEIGHT_MULTIPLIER * old.burn_principal
      /\ (old.registered \/ old = NoPosition) /\ distributions \in 0 .. MaxDistributions
  BY StakePoolAssumption DEF StakeInv, StakeLedgerSound, TypeOK, DebtsBehind, PoolType, U64,
     PoolTotalsMatchPositions, UnregisteredEmpty, Registered
<1>2. /\ old.cooldown_amount > 0 /\ old.cooldown_amount <= vaultTokens
      /\ vaultTokens' = vaultTokens - old.cooldown_amount
      /\ wallet' = [wallet EXCEPT ![s] = wallet[s] + old.cooldown_amount]
      /\ position' = [position EXCEPT ![s] = p]
      /\ UNCHANGED <<now, paused, pool, lamports, distributions>>
  BY DEF withdraw_unstaked, ReturnPrincipal
<1>3. /\ old.cooldown_amount \in Nat /\ old.standard_principal \in Nat /\ old.burn_principal \in Nat
      /\ old.reward_weight \in Nat /\ 0 \in U64
      /\ pool.total_standard \in Nat /\ pool.total_burn \in Nat /\ pool.active_stakers \in Nat
      /\ pool.total_funded \in Nat /\ pool.total_claimed \in Nat
  BY <1>1, StakePoolAssumption DEF PositionType, PoolType, U64
<1>4. old.registered
  BY <1>1, <1>2 DEF NoPosition
<1> HIDE DEF old, i
<1>5. /\ p \in PositionType /\ p.registered = old.registered /\ p.reward_weight = old.reward_weight
      /\ p.standard_principal = old.standard_principal /\ p.burn_principal = old.burn_principal
      /\ p.reward_debt = old.reward_debt /\ p.pending_sol = old.pending_sol
      /\ p.cooldown_amount = 0
  BY <1>1, <1>3 DEF PositionType
<1> HIDE DEF p
<1>6. Promise(p, i) = Promise(old, i) /\ Promise(old, i) \in Nat
  BY <1>1, <1>5, PromiseType DEF Promise
<1>7. Earned(p, i) = Earned(old, i) /\ Earned(old, i) \in Nat
  BY <1>1, <1>5, EarnedGrows DEF Earned
<1>8. wallet' \in [Stakers -> Nat]
  BY <1>1, <1>2, <1>3
<1>9. Balanced(s, p, 0, 0, 0)
  <2>1. /\ i + 0 = i /\ lamports' = lamports + 0 /\ lamports' \in Nat
        /\ pool'.total_funded - pool'.total_claimed = pool.total_funded - pool.total_claimed + 0
        /\ distributions' = distributions + 0
    BY <1>1, <1>2, <1>3
  <2>2. Promise(p, i) <= Promise(old, i) + REWARD_SCALE * 0
    BY <1>1, <1>6
  <2>3. 0 * pool'.total_weight + REWARD_SCALE * pool'.undistributed
         <= REWARD_SCALE * pool.undistributed + (REWARD_SCALE - 1) * 0
    BY <1>1, <1>2
  <2>4. /\ pool'.total_weight = pool.total_weight - old.reward_weight + p.reward_weight
        /\ pool'.total_standard = pool.total_standard - old.standard_principal + p.standard_principal
        /\ pool'.total_burn = pool.total_burn - old.burn_principal + p.burn_principal
        /\ pool'.active_stakers = pool.active_stakers
             - (IF old.reward_weight > 0 THEN 1 ELSE 0) + (IF p.reward_weight > 0 THEN 1 ELSE 0)
        /\ vaultTokens' = vaultTokens - (old.standard_principal + old.cooldown_amount)
                                  + (p.standard_principal + p.cooldown_amount)
        /\ vaultTokens' \in Nat
    BY <1>1, <1>2, <1>3, <1>5
  <2>5. now' \in 0 .. MaxTime /\ paused' \in BOOLEAN /\ distributions' \in 0 .. MaxDistributions
    BY <1>1, <1>2 DEF StakeInv, StakeLedgerSound, TypeOK
  <2>6. /\ p.registered /\ p.reward_debt <= i
        /\ p.reward_weight = p.standard_principal + BURN_WEIGHT_MULTIPLIER * p.burn_principal
        /\ pool' = pool
    BY <1>1, <1>2, <1>4, <1>5
  <2> QED BY <1>1, <1>2, <1>5, <1>8, <2>1, <2>2, <2>3, <2>4, <2>5, <2>6 DEF Balanced, old, i
<1>10. Fair(s, p, 0, 0)
  <2>1. i + 0 = i /\ ~(p.reward_weight > old.reward_weight)
    BY <1>1, <1>3, <1>5
  <2> QED BY <1>7, <2>1 DEF Fair, old, i
<1> QED BY <1>9, <1>10, StepKeeps

\* A request takes the cooling stake's weight out of the index at once.
LEMMA RequestKeeps ==
    ASSUME StakeInv, NEW s \in Stakers, NEW amount \in Stakes, request_unstake(s, amount)
    PROVE  StakeInv' /\ EarningsStep
<1> DEFINE old == position[s]
           pos == checkpoint_stake(old)
           p == [pos EXCEPT !.standard_principal = pos.standard_principal - amount,
                            !.reward_weight = pos.reward_weight - amount,
                            !.cooldown_amount = amount,
                            !.cooldown_unlock_at = now + UNSTAKE_DELAY_SECONDS]
           i == pool.reward_per_weight
           left == IF old.reward_weight = amount THEN 1 ELSE 0
<1>1. /\ old \in PositionType /\ old.reward_debt <= i /\ i \in Nat /\ pool \in PoolType
      /\ pool.undistributed \in Nat /\ pool.total_weight \in Nat /\ REWARD_SCALE \in Nat \ {0}
      /\ lamports \in Nat /\ vaultTokens \in Nat /\ wallet \in [Stakers -> Nat]
      /\ old.reward_weight = old.standard_principal + BURN_WEIGHT_MULTIPLIER * old.burn_principal
      /\ distributions \in 0 .. MaxDistributions
  BY StakePoolAssumption DEF StakeInv, StakeLedgerSound, TypeOK, DebtsBehind, PoolType, U64,
     PoolTotalsMatchPositions
<1>2. /\ old.registered /\ amount > 0 /\ amount <= old.standard_principal
      /\ old.cooldown_amount = 0
      /\ position' = [position EXCEPT ![s] = p] /\ position'[s] \in PositionType
      /\ UNCHANGED <<now, paused, lamports, vaultTokens, wallet, distributions>>
      /\ pool' = [pool EXCEPT !.total_standard = pool.total_standard - amount,
                              !.total_weight = pool.total_weight - amount,
                              !.active_stakers = pool.active_stakers - left]
  BY DEF request_unstake, StartCooldown, Registered
<1>3. /\ old.standard_principal \in Nat /\ old.burn_principal \in Nat
      /\ old.reward_weight \in Nat /\ 0 \in U64 /\ amount \in U64 /\ amount \in Nat
      /\ pool.total_standard \in U64 /\ pool.total_burn \in Nat /\ pool.active_stakers \in U64
      /\ pool.total_funded \in Nat /\ pool.total_claimed \in Nat /\ pool.total_weight \in U64
      /\ BURN_WEIGHT_MULTIPLIER * old.burn_principal \in Nat
  BY <1>1, StakePoolAssumption DEF PositionType, PoolType, U64
<1>4. Checkpointed(old, pos)
  BY <1>1, CheckpointMoves
<1>5. /\ old.reward_weight <= pool.total_weight /\ old.standard_principal <= pool.total_standard
      /\ (old.reward_weight > 0 => pool.active_stakers >= 1)
  BY PartOfTotals
<1>6. p \in PositionType
  <2>1. position'[s] = p
    BY <1>2 DEF StakeInv, StakeLedgerSound, TypeOK
  <2> QED BY <1>2, <2>1
<1>7. pos \in LoosePosition
  BY <1>4 DEF Checkpointed
<1>8. /\ p.registered = pos.registered
      /\ p.standard_principal = pos.standard_principal - amount
      /\ p.burn_principal = pos.burn_principal
      /\ p.reward_weight = pos.reward_weight - amount
      /\ p.reward_debt = pos.reward_debt /\ p.pending_sol = pos.pending_sol
      /\ p.cooldown_amount = amount
  BY <1>7 DEF LoosePosition
<1> HIDE DEF pos, p, left, old, i
<1>9. /\ p.registered = old.registered
      /\ p.standard_principal = old.standard_principal - amount
      /\ p.burn_principal = old.burn_principal /\ p.reward_weight = old.reward_weight - amount
      /\ p.reward_debt = i /\ p.pending_sol = old.pending_sol + Reward(old)
      /\ REWARD_SCALE * p.pending_sol <= Promise(old, i)
      /\ p.cooldown_amount = amount
  BY <1>4, <1>8 DEF Checkpointed, i
<1>10. old.reward_weight >= amount /\ old.reward_weight > 0
  BY <1>1, <1>2, <1>3
<1>11. pool.active_stakers - left \in U64 /\ pool.total_weight - amount \in U64
       /\ pool.total_standard - amount \in U64 /\ left \in {0, 1}
  BY <1>2, <1>3, <1>5, <1>10, StakePoolAssumption DEF left, U64
<1>12. /\ pool' \in PoolType /\ pool'.reward_per_weight = i
       /\ pool'.undistributed = pool.undistributed /\ pool'.total_funded = pool.total_funded
       /\ pool'.total_claimed = pool.total_claimed /\ pool'.total_burn = pool.total_burn
       /\ pool'.total_standard = pool.total_standard - amount
       /\ pool'.total_weight = pool.total_weight - amount
       /\ pool'.active_stakers = pool.active_stakers - left
  BY <1>1, <1>2, <1>11 DEF PoolType, i
<1>13. Promise(p, i) = REWARD_SCALE * p.pending_sol
  <2>1. \A w, d, x \in Int : w * (d - d) + x = x
    OBVIOUS
  <2>2. REWARD_SCALE * p.pending_sol \in Int /\ p.reward_weight \in Int
    BY <1>1, <1>6, StakePoolAssumption DEF PositionType, U64
  <2> QED BY <1>1, <1>9, <2>1, <2>2 DEF Promise
<1>14. Balanced(s, p, 0, 0, 0)
  <2>1. /\ i + 0 = i /\ lamports' = lamports + 0 /\ lamports' \in Nat
        /\ pool'.total_funded - pool'.total_claimed = pool.total_funded - pool.total_claimed + 0
        /\ distributions' = distributions + 0 /\ distributions' \in 0 .. MaxDistributions
    BY <1>1, <1>2, <1>3, <1>12
  <2>2. Promise(p, i) <= Promise(old, i) + REWARD_SCALE * 0
    <3>1. Promise(old, i) \in Nat
      BY <1>1, PromiseType
    <3> QED BY <1>1, <1>9, <1>13, <3>1
  <2>3. 0 * pool'.total_weight + REWARD_SCALE * pool'.undistributed
         <= REWARD_SCALE * pool.undistributed + (REWARD_SCALE - 1) * 0
    <3>1. pool'.total_weight \in Int
      BY <1>1, <1>3, <1>12
    <3> QED BY <1>1, <1>12, <3>1
  <2>4. p.reward_weight > 0 <=> old.reward_weight # amount
    BY <1>3, <1>9, <1>10
  <2>5. /\ pool'.total_weight = pool.total_weight - old.reward_weight + p.reward_weight
        /\ pool'.total_standard = pool.total_standard - old.standard_principal + p.standard_principal
        /\ pool'.total_burn = pool.total_burn - old.burn_principal + p.burn_principal
    BY <1>1, <1>3, <1>9, <1>12, StakePoolAssumption DEF U64
  <2>6. pool'.active_stakers = pool.active_stakers
             - (IF old.reward_weight > 0 THEN 1 ELSE 0) + (IF p.reward_weight > 0 THEN 1 ELSE 0)
    BY <1>3, <1>10, <1>12, <2>4, StakePoolAssumption DEF left, U64
  <2>7. /\ vaultTokens' = vaultTokens - (old.standard_principal + old.cooldown_amount)
                                  + (p.standard_principal + p.cooldown_amount)
        /\ vaultTokens' \in Nat
    BY <1>1, <1>2, <1>3, <1>9
  <2>8. now' \in 0 .. MaxTime /\ paused' \in BOOLEAN /\ wallet' \in [Stakers -> Nat]
    BY <1>2 DEF StakeInv, StakeLedgerSound, TypeOK
  <2>9. /\ p.registered /\ p.reward_debt <= i
        /\ p.reward_weight = p.standard_principal + BURN_WEIGHT_MULTIPLIER * p.burn_principal
    BY <1>1, <1>2, <1>3, <1>9
  <2>10. position' = [position EXCEPT ![s] = p]
    BY <1>2
  <2> QED BY <1>6, <1>12, <2>1, <2>2, <2>3, <2>5, <2>6, <2>7, <2>8, <2>9, <2>10
          DEF Balanced, old, i
<1>15. Fair(s, p, 0, 0)
  <2>1. i + 0 = i /\ ~(p.reward_weight > old.reward_weight) /\ p.reward_debt <= i
    BY <1>1, <1>2, <1>3, <1>9
  <2>2. Earned(p, i) \in Nat /\ p.pending_sol <= Earned(p, i)
    BY <1>1, <1>6, <2>1, EarnedGrows
  <2>3. p.pending_sol = Earned(old, i)
    BY <1>9 DEF Reward, Earned, i
  <2> QED BY <2>1, <2>2, <2>3 DEF Fair, old, i
<1> QED BY <1>14, <1>15, StepKeeps

\* A payout empties the checkpointed balance.
LEMMA PayOutKeeps ==
    ASSUME StakeInv, NEW s \in Stakers, PayOut(s)
    PROVE  StakeInv' /\ EarningsStep
<1> DEFINE old == position[s]
           pos == checkpoint_stake(old)
           p == [pos EXCEPT !.pending_sol = 0]
           i == pool.reward_per_weight
           delta == 0 - pos.pending_sol
<1>1. /\ old \in PositionType /\ old.reward_debt <= i /\ i \in Nat /\ pool \in PoolType
      /\ pool.undistributed \in Nat /\ pool.total_weight \in Nat /\ REWARD_SCALE \in Nat \ {0}
      /\ lamports \in Nat /\ vaultTokens \in Nat /\ wallet \in [Stakers -> Nat]
      /\ old.reward_weight = old.standard_principal + BURN_WEIGHT_MULTIPLIER * old.burn_principal
      /\ distributions \in 0 .. MaxDistributions
  BY StakePoolAssumption DEF StakeInv, StakeLedgerSound, TypeOK, DebtsBehind, PoolType, U64,
     PoolTotalsMatchPositions
<1>2. /\ old.registered /\ pos \in PositionType /\ pos.pending_sol <= lamports
      /\ lamports' = lamports - pos.pending_sol
      /\ pool' = [pool EXCEPT !.total_claimed = pool.total_claimed + pos.pending_sol]
      /\ pool' \in PoolType /\ position' = [position EXCEPT ![s] = p]
      /\ UNCHANGED <<now, paused, vaultTokens, wallet, distributions>>
  BY DEF PayOut, TakePending, Registered
<1>3. /\ old.standard_principal \in Nat /\ old.burn_principal \in Nat
      /\ old.reward_weight \in Nat /\ 0 \in U64 /\ old.cooldown_amount \in Nat
      /\ pool.total_standard \in Nat /\ pool.total_burn \in Nat /\ pool.active_stakers \in Nat
      /\ pool.total_funded \in Nat /\ pool.total_claimed \in Nat
      /\ pos.pending_sol \in Nat
  BY <1>1, <1>2, StakePoolAssumption DEF PositionType, PoolType, U64
<1>4. Checkpointed(old, pos)
  BY <1>1, CheckpointMoves
<1>5. /\ p \in PositionType /\ p.registered = pos.registered /\ p.pending_sol = 0
      /\ p.reward_debt = pos.reward_debt /\ p.reward_weight = pos.reward_weight
      /\ p.standard_principal = pos.standard_principal
      /\ p.burn_principal = pos.burn_principal /\ p.cooldown_amount = pos.cooldown_amount
  BY <1>2, <1>3 DEF PositionType
<1> HIDE DEF pos, p, old, i
<1>6. /\ p.registered = old.registered /\ p.reward_debt = i /\ p.reward_weight = old.reward_weight
      /\ p.standard_principal = old.standard_principal
      /\ p.burn_principal = old.burn_principal /\ p.cooldown_amount = old.cooldown_amount
      /\ pos.pending_sol = Earned(old, i)
      /\ REWARD_SCALE * pos.pending_sol <= Promise(old, i)
  BY <1>4, <1>5 DEF Checkpointed, Earned, Reward, i
<1>7. /\ pool'.reward_per_weight = i
      /\ pool'.undistributed = pool.undistributed /\ pool'.total_funded = pool.total_funded
      /\ pool'.total_claimed = pool.total_claimed + pos.pending_sol
      /\ pool'.total_burn = pool.total_burn /\ pool'.total_standard = pool.total_standard
      /\ pool'.total_weight = pool.total_weight /\ pool'.active_stakers = pool.active_stakers
  BY <1>1, <1>2 DEF PoolType, i
<1>8. delta \in Int /\ lamports' = lamports + delta /\ lamports' \in Nat
      /\ REWARD_SCALE * delta = 0 - REWARD_SCALE * pos.pending_sol
  BY <1>1, <1>2, <1>3
<1> HIDE DEF delta
<1>9. Promise(p, i) = 0
  <2>1. \A w, d, x \in Int : w * (d - d) + x * 0 = 0
    OBVIOUS
  <2> QED BY <1>1, <1>3, <1>5, <1>6, <2>1 DEF Promise
<1>10. Earned(p, i) = 0
  <2>1. \A w, d \in Int : w * (d - d) = 0
    OBVIOUS
  <2>2. 0 \div REWARD_SCALE = 0
    BY <1>1
  <2> QED BY <1>1, <1>3, <1>5, <1>6, <2>1, <2>2 DEF Earned
<1>11. Balanced(s, p, 0, 0, delta)
  <2>1. /\ i + 0 = i /\ distributions' = distributions + 0 /\ distributions' \in 0 .. MaxDistributions
        /\ now' \in 0 .. MaxTime /\ paused' \in BOOLEAN /\ wallet' \in [Stakers -> Nat]
    BY <1>1, <1>2 DEF StakeInv, StakeLedgerSound, TypeOK
  <2>2. pool'.total_funded - pool'.total_claimed = pool.total_funded - pool.total_claimed + delta
    BY <1>3, <1>7 DEF delta
  <2>3. Promise(p, i) <= Promise(old, i) + REWARD_SCALE * delta
    <3>1. Promise(old, i) \in Nat
      BY <1>1, PromiseType
    <3>2. REWARD_SCALE * pos.pending_sol \in Int
      BY <1>1, <1>3
    <3> QED BY <1>6, <1>8, <1>9, <3>1, <3>2
  <2>4. 0 * pool'.total_weight + REWARD_SCALE * pool'.undistributed
         <= REWARD_SCALE * pool.undistributed + (REWARD_SCALE - 1) * 0
    BY <1>1, <1>7
  <2>5. /\ pool'.total_weight = pool.total_weight - old.reward_weight + p.reward_weight
        /\ pool'.total_standard = pool.total_standard - old.standard_principal + p.standard_principal
        /\ pool'.total_burn = pool.total_burn - old.burn_principal + p.burn_principal
        /\ pool'.active_stakers = pool.active_stakers
             - (IF old.reward_weight > 0 THEN 1 ELSE 0) + (IF p.reward_weight > 0 THEN 1 ELSE 0)
        /\ vaultTokens' = vaultTokens - (old.standard_principal + old.cooldown_amount)
                                  + (p.standard_principal + p.cooldown_amount)
        /\ vaultTokens' \in Nat
    BY <1>1, <1>2, <1>3, <1>6, <1>7
  <2>6. /\ p.registered /\ p.reward_debt <= i
        /\ p.reward_weight = p.standard_principal + BURN_WEIGHT_MULTIPLIER * p.burn_principal
    BY <1>1, <1>2, <1>6
  <2> QED BY <1>2, <1>5, <1>7, <1>8, <2>1, <2>2, <2>3, <2>4, <2>5, <2>6 DEF Balanced, old, i
<1>12. Fair(s, p, 0, delta)
  <2>1. i + 0 = i /\ ~(p.reward_weight > old.reward_weight) /\ delta = 0 - Earned(old, i)
    BY <1>1, <1>3, <1>6 DEF delta
  <2> QED BY <1>10, <2>1 DEF Fair, old, i
<1> QED BY <1>8, <1>11, <1>12, StepKeeps

\* A registration creates an empty position at today's index.
LEMMA RegisterKeeps ==
    ASSUME StakeInv, NEW s \in Stakers, register_miner(s)
    PROVE  StakeInv' /\ EarningsStep
<1> DEFINE old == position[s]
           i == pool.reward_per_weight
           p == [NoPosition EXCEPT !.registered = TRUE, !.reward_debt = i]
<1>1. /\ old = NoPosition /\ old \in PositionType /\ i \in Nat /\ pool \in PoolType
      /\ pool.undistributed \in Nat /\ pool.total_weight \in Nat /\ REWARD_SCALE \in Nat \ {0}
      /\ lamports \in Nat /\ vaultTokens \in Nat /\ wallet \in [Stakers -> Nat]
      /\ pool.total_standard \in Nat /\ pool.total_burn \in Nat /\ pool.active_stakers \in Nat
      /\ pool.total_funded \in Nat /\ pool.total_claimed \in Nat
      /\ BURN_WEIGHT_MULTIPLIER \in Nat /\ distributions \in 0 .. MaxDistributions
  BY StakePoolAssumption DEF StakeInv, StakeLedgerSound, TypeOK, PoolType, U64,
     UnregisteredEmpty, Registered, register_miner
<1>2. /\ position' = [position EXCEPT ![s] = p]
      /\ UNCHANGED <<now, paused, pool, lamports, vaultTokens, wallet, distributions>>
  BY DEF register_miner
<1> HIDE DEF i
<1>3. /\ p \in PositionType /\ p.registered /\ p.pending_sol = 0 /\ p.reward_debt = i
      /\ p.reward_weight = 0 /\ p.standard_principal = 0 /\ p.burn_principal = 0
      /\ p.cooldown_amount = 0
      /\ old.reward_weight = 0 /\ old.standard_principal = 0 /\ old.burn_principal = 0
      /\ old.cooldown_amount = 0 /\ old.pending_sol = 0 /\ old.reward_debt = 0
  <2>1. 0 \in U64
    BY StakePoolAssumption DEF U64
  <2>2. NoPosition \in PositionType
    BY <2>1 DEF NoPosition, PositionType
  <2>3. /\ NoPosition.reward_weight = 0 /\ NoPosition.standard_principal = 0
        /\ NoPosition.burn_principal = 0 /\ NoPosition.cooldown_amount = 0
        /\ NoPosition.pending_sol = 0 /\ NoPosition.reward_debt = 0
    BY DEF NoPosition
  <2> QED BY <1>1, <2>2, <2>3 DEF PositionType
<1> HIDE DEF p, old
<1>4. Promise(p, i) = 0 /\ Promise(old, i) = 0
  BY <1>1, <1>3 DEF Promise
<1>5. Earned(p, i) = 0 /\ Earned(old, i) = 0
  <2>1. 0 \div REWARD_SCALE = 0 /\ 0 * (i - i) = 0 /\ 0 * (i - 0) = 0
    BY <1>1
  <2> QED BY <1>3, <2>1 DEF Earned
<1>6. Balanced(s, p, 0, 0, 0)
  <2>1. /\ i + 0 = i /\ lamports' = lamports + 0 /\ lamports' \in Nat
        /\ pool'.total_funded - pool'.total_claimed = pool.total_funded - pool.total_claimed + 0
        /\ distributions' = distributions + 0 /\ distributions' \in 0 .. MaxDistributions
        /\ pool' \in PoolType /\ pool'.reward_per_weight = i
    BY <1>1, <1>2 DEF i
  <2>2. Promise(p, i) <= Promise(old, i) + REWARD_SCALE * 0
    BY <1>1, <1>4
  <2>3. 0 * pool'.total_weight + REWARD_SCALE * pool'.undistributed
         <= REWARD_SCALE * pool.undistributed + (REWARD_SCALE - 1) * 0
    BY <1>1, <1>2
  <2>4. /\ pool'.total_weight = pool.total_weight - old.reward_weight + p.reward_weight
        /\ pool'.total_standard = pool.total_standard - old.standard_principal + p.standard_principal
        /\ pool'.total_burn = pool.total_burn - old.burn_principal + p.burn_principal
        /\ pool'.active_stakers = pool.active_stakers
             - (IF old.reward_weight > 0 THEN 1 ELSE 0) + (IF p.reward_weight > 0 THEN 1 ELSE 0)
        /\ vaultTokens' = vaultTokens - (old.standard_principal + old.cooldown_amount)
                                  + (p.standard_principal + p.cooldown_amount)
        /\ vaultTokens' \in Nat
    BY <1>1, <1>2, <1>3
  <2>5. now' \in 0 .. MaxTime /\ paused' \in BOOLEAN /\ wallet' \in [Stakers -> Nat]
    BY <1>2 DEF StakeInv, StakeLedgerSound, TypeOK
  <2>6. /\ p.registered /\ p.reward_debt <= i
        /\ p.reward_weight = p.standard_principal + BURN_WEIGHT_MULTIPLIER * p.burn_principal
    BY <1>1, <1>3
  <2> QED BY <1>2, <1>3, <2>1, <2>2, <2>3, <2>4, <2>5, <2>6 DEF Balanced, old, i
<1>7. Fair(s, p, 0, 0)
  <2>1. i + 0 = i /\ ~(p.reward_weight > old.reward_weight)
    BY <1>1, <1>3
  <2> QED BY <1>5, <2>1 DEF Fair, old, i
<1> QED BY <1>6, <1>7, StepKeeps

\* A receipt that pays SOL and burns nothing only checkpoints and accrues.
LEMMA AccrueKeeps ==
    ASSUME StakeInv, NEW s \in Stakers, NEW sol \in Prizes, accrue_receipt_sol(s, sol, 0)
    PROVE  StakeInv' /\ EarningsStep
<1> DEFINE old == position[s]
           pos == checkpoint_stake(old)
           p == [pos EXCEPT !.pending_sol = pos.pending_sol + sol]
           i == pool.reward_per_weight
<1>1. /\ old \in PositionType /\ old.reward_debt <= i /\ i \in Nat /\ pool \in PoolType
      /\ pool.undistributed \in Nat /\ pool.total_weight \in Nat /\ REWARD_SCALE \in Nat \ {0}
      /\ lamports \in Nat /\ vaultTokens \in Nat /\ wallet \in [Stakers -> Nat]
      /\ old.reward_weight = old.standard_principal + BURN_WEIGHT_MULTIPLIER * old.burn_principal
      /\ distributions \in 0 .. MaxDistributions /\ sol \in Nat
  BY StakePoolAssumption DEF StakeInv, StakeLedgerSound, TypeOK, DebtsBehind, PoolType, U64,
     PoolTotalsMatchPositions
<1>2. /\ old.registered /\ lamports' = lamports + sol
      /\ pool' = [pool EXCEPT !.total_funded = pool.total_funded + sol]
      /\ pool' \in PoolType /\ position' = [position EXCEPT ![s] = p]
      /\ position'[s] \in PositionType
      /\ UNCHANGED <<now, paused, vaultTokens, wallet, distributions>>
  BY DEF accrue_receipt_sol, Registered
<1>3. /\ old.standard_principal \in Nat /\ old.burn_principal \in Nat
      /\ old.reward_weight \in Nat /\ old.cooldown_amount \in Nat
      /\ pool.total_standard \in Nat /\ pool.total_burn \in Nat /\ pool.active_stakers \in Nat
      /\ pool.total_funded \in Nat /\ pool.total_claimed \in Nat
  BY <1>1, StakePoolAssumption DEF PositionType, PoolType, U64
<1>4. Paid(old, p, sol)
  BY <1>1, PaidCheckpoint
<1>5. p \in PositionType
  <2>1. position'[s] = p
    BY <1>2 DEF StakeInv, StakeLedgerSound, TypeOK
  <2> QED BY <1>2, <2>1
<1> HIDE DEF pos, p, old, i
<1>6. /\ p.registered = old.registered /\ p.reward_debt = i /\ p.reward_weight = old.reward_weight
      /\ p.standard_principal = old.standard_principal
      /\ p.burn_principal = old.burn_principal /\ p.cooldown_amount = old.cooldown_amount
      /\ p.pending_sol = Earned(old, i) + sol
      /\ REWARD_SCALE * p.pending_sol <= Promise(old, i) + REWARD_SCALE * sol
  BY <1>4 DEF Paid, Earned, Reward, i
<1>7. /\ pool'.reward_per_weight = i
      /\ pool'.undistributed = pool.undistributed /\ pool'.total_funded = pool.total_funded + sol
      /\ pool'.total_claimed = pool.total_claimed
      /\ pool'.total_burn = pool.total_burn /\ pool'.total_standard = pool.total_standard
      /\ pool'.total_weight = pool.total_weight /\ pool'.active_stakers = pool.active_stakers
  BY <1>1, <1>2 DEF PoolType, i
<1>8. Promise(p, i) = REWARD_SCALE * p.pending_sol
  <2>1. \A w, d, x \in Int : w * (d - d) + x = x
    OBVIOUS
  <2>2. REWARD_SCALE * p.pending_sol \in Int
    BY <1>1, <1>5, StakePoolAssumption DEF PositionType, U64
  <2> QED BY <1>1, <1>3, <1>6, <2>1, <2>2 DEF Promise
<1>9. Balanced(s, p, 0, 0, sol)
  <2>1. /\ i + 0 = i /\ distributions' = distributions + 0 /\ distributions' \in 0 .. MaxDistributions
        /\ now' \in 0 .. MaxTime /\ paused' \in BOOLEAN /\ wallet' \in [Stakers -> Nat]
        /\ lamports' \in Nat
    BY <1>1, <1>2 DEF StakeInv, StakeLedgerSound, TypeOK
  <2>2. pool'.total_funded - pool'.total_claimed = pool.total_funded - pool.total_claimed + sol
    BY <1>1, <1>3, <1>7
  <2>3. Promise(p, i) <= Promise(old, i) + REWARD_SCALE * sol
    BY <1>6, <1>8
  <2>4. 0 * pool'.total_weight + REWARD_SCALE * pool'.undistributed
         <= REWARD_SCALE * pool.undistributed + (REWARD_SCALE - 1) * 0
    BY <1>1, <1>7
  <2>5. /\ pool'.total_weight = pool.total_weight - old.reward_weight + p.reward_weight
        /\ pool'.total_standard = pool.total_standard - old.standard_principal + p.standard_principal
        /\ pool'.total_burn = pool.total_burn - old.burn_principal + p.burn_principal
        /\ pool'.active_stakers = pool.active_stakers
             - (IF old.reward_weight > 0 THEN 1 ELSE 0) + (IF p.reward_weight > 0 THEN 1 ELSE 0)
        /\ vaultTokens' = vaultTokens - (old.standard_principal + old.cooldown_amount)
                                  + (p.standard_principal + p.cooldown_amount)
        /\ vaultTokens' \in Nat
    BY <1>1, <1>2, <1>3, <1>6, <1>7
  <2>6. /\ p.registered /\ p.reward_debt <= i
        /\ p.reward_weight = p.standard_principal + BURN_WEIGHT_MULTIPLIER * p.burn_principal
    BY <1>1, <1>2, <1>6
  <2> QED BY <1>2, <1>5, <1>7, <2>1, <2>2, <2>3, <2>4, <2>5, <2>6 DEF Balanced, old, i
<1>10. Fair(s, p, 0, sol)
  <2>1. i + 0 = i /\ ~(p.reward_weight > old.reward_weight)
    BY <1>1, <1>3, <1>6
  <2>2. Earned(old, i) \in Nat
    BY <1>1, EarnedGrows
  <2>3. p.reward_debt <= i
    BY <1>1, <1>6
  <2>4. p.pending_sol <= Earned(p, i) /\ Earned(p, i) \in Nat
    BY <1>1, <1>5, <2>3, EarnedGrows
  <2>5. Earned(p, i) >= Earned(old, i)
    BY <1>1, <1>6, <2>2, <2>4
  <2> QED BY <2>1, <2>5 DEF Fair, old, i
<1> QED BY <1>1, <1>9, <1>10, StepKeeps

\* One that burns adds its weight after the checkpoint and the payment.
LEMMA AccrueBurnKeeps ==
    ASSUME StakeInv, NEW s \in Stakers, NEW sol \in Prizes, NEW burn \in Stakes, burn # 0,
           accrue_receipt_sol(s, sol, burn)
    PROVE  StakeInv' /\ EarningsStep
<1> DEFINE pos == checkpoint_stake(position[s])
           c == [pos EXCEPT !.pending_sol = pos.pending_sol + sol]
           e == PoolWithStake(pos, 0, burn)
           m == [e EXCEPT !.total_funded = pool.total_funded + sol]
           funded == [pool EXCEPT !.total_funded = pool.total_funded + sol]
<1>1. /\ burn \in U64 /\ burn > 0 /\ 0 \in U64 /\ burn \in Nat /\ sol \in Nat /\ 0 + burn > 0
  BY StakePoolAssumption DEF U64
<1>2. /\ Registered(s) /\ vaultTokens' = vaultTokens /\ Distributes
      /\ position' = [position EXCEPT ![s] = WithStake(c, 0, burn)]
      /\ pool' = fund_stake_rewards([e EXCEPT !.total_funded = funded.total_funded], 0)
      /\ pool' \in PoolType /\ position'[s] \in PositionType
      /\ now' = now /\ paused' = paused /\ lamports' = lamports + sol /\ wallet' = wallet
  BY <1>1 DEF accrue_receipt_sol
<1>3. funded.total_funded = pool.total_funded + sol
  BY DEF StakeInv, StakeLedgerSound, TypeOK, PoolType
<1>4. pool' = fund_stake_rewards(m, 0)
  BY <1>2, <1>3
<1>5. Paid(position[s], c, sol) /\ Enlarged(position[s], m, 0, burn, sol)
  BY <1>1, PaidCheckpoint, EnlargedPool
<1>6. /\ now' \in 0 .. MaxTime /\ paused' \in BOOLEAN /\ vaultTokens' = vaultTokens + 0
      /\ wallet' \in [Stakers -> Nat]
  BY <1>2 DEF StakeInv, StakeLedgerSound, TypeOK
<1> HIDE DEF c, m
<1> QED BY <1>1, <1>2, <1>4, <1>5, <1>6, AddedStakeKeeps

\* A funding shares its amount and touches no position.
LEMMA FundingKeeps ==
    ASSUME StakeInv, NEW amount \in Fundings, fund_staking_rewards(amount)
    PROVE  StakeInv' /\ EarningsStep
<1> DEFINE i == pool.reward_per_weight
           S == REWARD_SCALE
<1>1. /\ position \in [Stakers -> PositionType] /\ i \in Nat /\ pool \in PoolType
      /\ pool.undistributed \in Nat /\ pool.total_weight \in Nat /\ S \in Nat \ {0}
      /\ pool.total_funded \in Nat /\ pool.total_claimed \in Nat /\ amount \in Nat
      /\ lamports \in Nat /\ distributions \in 0 .. MaxDistributions
      /\ \A x \in Stakers : position[x].reward_debt <= i
  BY StakePoolAssumption DEF StakeInv, StakeLedgerSound, TypeOK, DebtsBehind, PoolType, U64
<1>2. /\ pool' = fund_stake_rewards(pool, amount) /\ pool' \in PoolType
      /\ lamports' = lamports + amount /\ distributions < MaxDistributions
      /\ distributions' = distributions + 1
      /\ now' = now /\ paused' = paused /\ position' = position
      /\ vaultTokens' = vaultTokens /\ wallet' = wallet
  BY DEF fund_staking_rewards, Distributes
<1>3. pool \in LoosePool
  <2>1. U64 \subseteq Nat /\ U64 \subseteq Int
    BY StakePoolAssumption DEF U64
  <2> QED BY <1>1, <2>1 DEF PoolType, LoosePool
<1>4. PICK inc \in Nat : Grants(pool, amount, pool', inc)
  BY <1>1, <1>2, <1>3, DistributionGrants
<1>5. /\ pool'.reward_per_weight = i + inc /\ pool'.undistributed \in Nat
      /\ inc * pool.total_weight + S * pool'.undistributed
           <= S * (pool.undistributed + amount) + (S - 1)
      /\ pool'.active_stakers = pool.active_stakers /\ pool'.total_standard = pool.total_standard
      /\ pool'.total_burn = pool.total_burn /\ pool'.total_weight = pool.total_weight
      /\ pool'.total_funded = pool.total_funded + amount /\ pool'.total_claimed = pool.total_claimed
  BY <1>2, <1>4, StakePoolAssumption DEF Grants, PoolType, U64
<1>6. TypeOK' /\ LedgerExact'
  <2>1. distributions' \in 0 .. MaxDistributions /\ lamports' \in Nat
    BY <1>1, <1>2, StakePoolAssumption
  <2>2. lamports' = pool'.total_funded - pool'.total_claimed
    BY <1>1, <1>2, <1>5 DEF StakeInv, StakeLedgerSound, LedgerExact
  <2> QED BY <1>2, <2>1, <2>2 DEF StakeInv, StakeLedgerSound, TypeOK, LedgerExact
<1>7. PoolTotalsMatchPositions'
  <2>1. (PoolTotalsMatchPositions <=>
          /\ Weighed(position)
          /\ pool.total_weight = Weights(position) /\ pool.total_standard = Standards(position)
          /\ pool.total_burn = Burns(position)
          /\ pool.active_stakers = Cardinality(Earning(position))
          /\ vaultTokens = Principals(position))'
    BY InvariantSums, PTL
  <2> QED BY <1>2, <1>5, <2>1, InvariantSums DEF StakeInv, StakeLedgerSound
<1>8. OverdraftBelowDistributions'
  <2>1. /\ Promises(position, i + inc) = Promises(position, i) + inc * Weights(position)
        /\ Promises(position, i) \in Nat /\ Weights(position) \in Nat
    BY <1>1, PromisesGrow
  <2>2. /\ Promises(position, i) + S * pool.undistributed <= S * lamports + (S - 1) * distributions
        /\ pool.total_weight = Weights(position)
    BY InvariantSums DEF StakeInv, StakeLedgerSound
  <2> HIDE DEF i
  <2> DEFINE grown == inc * Weights(position)
  <2>3. /\ grown \in Int /\ S * pool.undistributed \in Int /\ S * pool'.undistributed \in Int
        /\ S * lamports \in Int /\ (S - 1) * distributions \in Int /\ S * amount \in Int
    BY <1>1, <1>5, <2>1
  <2>4. /\ S * (pool.undistributed + amount) = S * pool.undistributed + S * amount
        /\ S * (lamports + amount) = S * lamports + S * amount
        /\ (S - 1) * (distributions + 1) = (S - 1) * distributions + (S - 1)
    BY <1>1
  <2> HIDE DEF grown
  <2>5. /\ grown + S * pool'.undistributed <= S * pool.undistributed + S * amount + (S - 1)
        /\ Promises(position, i + inc) = Promises(position, i) + grown
    BY <1>5, <2>1, <2>2, <2>4 DEF grown
  <2>6. Promises(position, i + inc) + S * pool'.undistributed
          <= S * lamports + S * amount + ((S - 1) * distributions + (S - 1))
    BY <1>1, <2>1, <2>2, <2>3, <2>5
  <2>7. (OverdraftBelowDistributions <=>
          Promises(position, pool.reward_per_weight) + REWARD_SCALE * pool.undistributed
            <= REWARD_SCALE * lamports + (REWARD_SCALE - 1) * distributions)'
    BY InvariantSums, PTL
  <2> QED BY <1>2, <1>5, <2>4, <2>6, <2>7
<1>9. DebtsBehind' /\ UnregisteredEmpty'
  <2>1. ASSUME NEW x \in Stakers PROVE position[x].reward_debt <= pool'.reward_per_weight
    <3>1. position[x].reward_debt \in Nat /\ position[x].reward_debt <= i
      BY <1>1 DEF PositionType
    <3> QED BY <1>1, <1>5, <3>1
  <2> QED BY <1>2, <2>1 DEF StakeInv, DebtsBehind, UnregisteredEmpty, Registered
<1>10. EarningsStep
  <2>1. ASSUME NEW x \in Stakers PROVE Owed(x)' >= Owed(x)
    <3>1. position[x] \in PositionType /\ position[x].reward_debt <= i
      BY <1>1
    <3>2. /\ Earned(position[x], i) \in Nat /\ Earned(position[x], i + inc) \in Nat
          /\ Earned(position[x], i) <= Earned(position[x], i + inc)
      BY <1>1, <3>1, EarnedGrows
    <3> QED BY <1>2, <1>5, <3>2, OwedIsEarned
  <2>2. \A x \in Stakers : ~(position'[x].reward_weight > position[x].reward_weight)
    BY <1>1, <1>2, StakePoolAssumption DEF PositionType, U64
  <2> QED BY <2>1, <2>2 DEF EarningsStep
<1> QED BY <1>6, <1>7, <1>8, <1>9, <1>10 DEF StakeInv, StakeLedgerSound

\* The clock and the pause touch no account; nothing happening changes nothing.
LEMMA RestKeeps ==
    ASSUME StakeInv, UNCHANGED <<pool, position, lamports, vaultTokens, wallet, distributions>>,
           now' \in 0 .. MaxTime, paused' \in BOOLEAN
    PROVE  StakeInv'
<1>1. TypeOK' /\ LedgerExact'
  BY DEF StakeInv, StakeLedgerSound, TypeOK, LedgerExact
<1>2. PoolTotalsMatchPositions'
  <2>1. (PoolTotalsMatchPositions <=>
          /\ Weighed(position)
          /\ pool.total_weight = Weights(position) /\ pool.total_standard = Standards(position)
          /\ pool.total_burn = Burns(position)
          /\ pool.active_stakers = Cardinality(Earning(position))
          /\ vaultTokens = Principals(position))'
    BY InvariantSums, PTL
  <2> QED BY <2>1, InvariantSums DEF StakeInv, StakeLedgerSound
<1>3. OverdraftBelowDistributions'
  <2>1. (OverdraftBelowDistributions <=>
          Promises(position, pool.reward_per_weight) + REWARD_SCALE * pool.undistributed
            <= REWARD_SCALE * lamports + (REWARD_SCALE - 1) * distributions)'
    BY InvariantSums, PTL
  <2> QED BY <2>1, InvariantSums DEF StakeInv, StakeLedgerSound
<1>4. DebtsBehind' /\ UnregisteredEmpty'
  BY DEF StakeInv, DebtsBehind, UnregisteredEmpty, Registered
<1> QED BY <1>1, <1>2, <1>3, <1>4 DEF StakeInv, StakeLedgerSound

LEMMA RestEarns ==
    ASSUME StakeInv, UNCHANGED <<pool, position, lamports>>
    PROVE  EarningsStep
<1>1. ASSUME NEW s \in Stakers PROVE Owed(s)' >= Owed(s)
  <2>1. /\ position[s] \in PositionType /\ position[s].reward_debt <= pool.reward_per_weight
        /\ pool.reward_per_weight \in Nat
    BY DEF StakeInv, StakeLedgerSound, TypeOK, DebtsBehind, PoolType
  <2>2. Earned(position[s], pool.reward_per_weight) \in Nat
    BY <2>1, EarnedGrows
  <2> QED BY <2>2, OwedIsEarned
<1>2. \A s \in Stakers : ~(position'[s].reward_weight > position[s].reward_weight)
  BY StakePoolAssumption DEF StakeInv, StakeLedgerSound, TypeOK, PositionType, U64
<1> QED BY <1>1, <1>2 DEF EarningsStep

LEMMA NextKeeps ==
    ASSUME StakeInv, Next
    PROVE  StakeInv' /\ EarningsStep
<1>1. CASE Tick
  <2>1. now' \in 0 .. MaxTime /\ paused' \in BOOLEAN
    BY <1>1, StakePoolAssumption DEF Tick, StakeInv, StakeLedgerSound, TypeOK
  <2> QED BY <1>1, <2>1, RestKeeps, RestEarns DEF Tick
<1>2. CASE \E p \in BOOLEAN : set_paused(p)
  <2>1. now' \in 0 .. MaxTime /\ paused' \in BOOLEAN
    BY <1>2 DEF set_paused, StakeInv, StakeLedgerSound, TypeOK
  <2> QED BY <1>2, <2>1, RestKeeps, RestEarns DEF set_paused
<1>3. CASE \E amount \in Fundings : fund_staking_rewards(amount)
  BY <1>3, FundingKeeps
<1>4. ASSUME NEW s \in Stakers, register_miner(s) PROVE StakeInv' /\ EarningsStep
  BY <1>4, RegisterKeeps
<1>5. ASSUME NEW s \in Stakers, NEW amount \in Stakes,
             \/ stake_standard(s, amount) \/ burn_stake(s, amount)
             \/ burn_unclaimed_myne(s, amount) \/ request_unstake(s, amount)
      PROVE  StakeInv' /\ EarningsStep
  BY <1>5, StakeStandardKeeps, BurnKeeps, RequestKeeps
<1>6. ASSUME NEW s \in Stakers,
             withdraw_unstaked(s) \/ claim_staking_rewards(s) \/ reinvest_auto_plan_rewards(s)
      PROVE  StakeInv' /\ EarningsStep
  BY <1>6, WithdrawKeeps, PayOutKeeps DEF claim_staking_rewards, reinvest_auto_plan_rewards
<1>7. ASSUME NEW s \in Stakers, NEW sol \in Prizes, NEW burn \in Stakes \cup {0},
             accrue_receipt_sol(s, sol, burn)
      PROVE  StakeInv' /\ EarningsStep
  <2>1. CASE burn = 0
    BY <1>7, <2>1, AccrueKeeps
  <2>2. CASE burn # 0
    BY <1>7, <2>2, AccrueBurnKeeps
  <2> QED BY <2>1, <2>2
<1> QED BY <1>1, <1>2, <1>3, <1>4, <1>5, <1>6, <1>7 DEF Next

LEMMA InitKeeps == Init => StakeInv
<1> SUFFICES ASSUME Init PROVE StakeInv
  OBVIOUS
<1>1. 0 \in U64 /\ InitialTokens \in Nat /\ REWARD_SCALE \in Nat \ {0} /\ MaxTime \in Nat
      /\ MaxDistributions \in Nat /\ BURN_WEIGHT_MULTIPLIER \in Nat /\ IsFiniteSet(Stakers)
  BY StakePoolAssumption DEF U64
<1>2. pool \in PoolType /\ \A s \in Stakers : position[s] = NoPosition
  BY <1>1 DEF Init, EmptyPool, PoolType
<1>3. /\ NoPosition \in PositionType
      /\ NoPosition.reward_weight = 0 /\ NoPosition.standard_principal = 0
      /\ NoPosition.burn_principal = 0 /\ NoPosition.cooldown_amount = 0
      /\ NoPosition.pending_sol = 0 /\ NoPosition.reward_debt = 0
  BY <1>1 DEF NoPosition, PositionType
<1>4. /\ pool.total_weight = 0 /\ pool.total_standard = 0 /\ pool.total_burn = 0
      /\ pool.active_stakers = 0 /\ pool.undistributed = 0 /\ pool.reward_per_weight = 0
      /\ pool.total_funded = 0 /\ pool.total_claimed = 0
      /\ lamports = 0 /\ vaultTokens = 0 /\ distributions = 0
  BY DEF Init, EmptyPool
<1>5. TypeOK /\ LedgerExact
  BY <1>1, <1>2, <1>3, <1>4 DEF Init, TypeOK, LedgerExact
<1>6. ASSUME NEW f, \A s \in Stakers : f[s] = 0 PROVE SumOver(f) = 0
  <2> DEFINE g == [s \in Stakers |-> 0]
  <2>1. \A s \in Stakers : f[s] \in Nat /\ Units(f, Stakers) = {}
    BY <1>6 DEF Units
  <2>2. SumOf(f, Stakers) = Cardinality(Units(f, Stakers))
    BY <1>1, <1>6, SumCounts
  <2>3. Units(f, Stakers) = {}
    BY <1>6 DEF Units
  <2> QED BY <2>2, <2>3, FS_EmptySet, SumOverIsSumOf
<1>7. PoolTotalsMatchPositions
  <2>1. /\ Weights(position) = 0 /\ Standards(position) = 0 /\ Burns(position) = 0
        /\ Principals(position) = 0
    BY <1>2, <1>3, <1>6 DEF Weights, Standards, Burns, Principals
  <2>2. Earning(position) = {}
    BY <1>2, <1>3 DEF Earning
  <2>3. Weighed(position)
    BY <1>1, <1>2, <1>3 DEF Weighed
  <2> QED BY <1>4, <2>1, <2>2, <2>3, FS_EmptySet, InvariantSums
<1>8. OverdraftBelowDistributions
  <2>1. Promise(NoPosition, 0) = 0
    BY <1>1, <1>3 DEF Promise
  <2>2. Promises(position, 0) = 0
    BY <1>2, <1>6, <2>1 DEF Promises
  <2> QED BY <1>1, <1>4, <2>2, InvariantSums
<1>9. DebtsBehind /\ UnregisteredEmpty
  BY <1>2, <1>3, <1>4 DEF DebtsBehind, UnregisteredEmpty
<1> QED BY <1>5, <1>7, <1>8, <1>9 DEF StakeInv, StakeLedgerSound

-----------------------------------------------------------------------------
\* In every reachable state of the staking pool the claim vault holds what
\* was put in and not taken, the totals are the sums of the positions, the
\* token vault holds the staked and cooling principal, and the index promises
\* less than one lamport per distribution beyond what is held
\* (fund_stake_rewards, checkpoint_stake and every staking instruction).
THEOREM StakeInvariant == Spec => []StakeInv
<1>1. Init => StakeInv
  BY InitKeeps
<1>2. StakeInv /\ [Next]_vars => StakeInv'
  <2> SUFFICES ASSUME StakeInv, [Next]_vars PROVE StakeInv'
    OBVIOUS
  <2>1. CASE Next
    BY <2>1, NextKeeps
  <2>2. CASE UNCHANGED vars
    <3>1. now' \in 0 .. MaxTime /\ paused' \in BOOLEAN
      BY <2>2 DEF vars, StakeInv, StakeLedgerSound, TypeOK
    <3> QED BY <2>2, <3>1, RestKeeps DEF vars
  <2> QED BY <2>1, <2>2
<1> QED BY <1>1, <1>2, PTL DEF Spec

\* The part of it the runs check.
THEOREM StakeLedgerIsSound == Spec => []StakeLedgerSound
<1>1. StakeInv => StakeLedgerSound
  BY DEF StakeInv
<1> QED BY <1>1, StakeInvariant, PTL

\* No instruction takes from a staker anything but what it pays that staker,
\* and new weight has no claim on earlier funding, in any interleaving of any
\* number of stakers (checkpoint_stake before every weight change).
THEOREM StakersKeepEarnings == Spec => EarningsKept
<1>1. StakeInv /\ [Next]_vars => [EarningsStep]_vars
  BY NextKeeps
<1>2. EarningsStep =>
        \A s \in Stakers :
          \/ Owed(s)' >= Owed(s)
          \/ Owed(s)' = 0 /\ lamports' = lamports - Owed(s)
  BY DEF EarningsStep
<1>3. EarningsStep =>
        \A s \in Stakers :
          position'[s].reward_weight > position[s].reward_weight =>
            Owed(s)' <= Owed(s) + pool.undistributed + (lamports' - lamports)
  BY DEF EarningsStep
<1>4. Spec => NeverDiluted
  BY <1>1, <1>2, StakeInvariant, PTL DEF Spec, NeverDiluted
<1>5. Spec => NewWeightEarnsNothingPast
  BY <1>1, <1>3, StakeInvariant, PTL DEF Spec, NewWeightEarnsNothingPast
<1> QED BY <1>4, <1>5 DEF EarningsKept
=============================================================================
