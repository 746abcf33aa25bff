----------------------------- MODULE MiningPool -----------------------------
(***************************************************************************)
(* Unclaimed MYNE.  A settled receipt credits its miner with shares of one *)
(* pool; a claim debits all of a miner's shares, keeps a fee, gives most   *)
(* of it back to the miners still in the pool by raising the value of      *)
(* their shares, and mints the rest.  Burning unclaimed MYNE leaves the    *)
(* pool without a fee.  The registration of miners, with the referrer who  *)
(* takes the remaining part of the fee, is here too.                       *)
(*                                                                         *)
(* The fields keep the names of the accounts' current meaning: the shares  *)
(* are stored in reward_per_unclaimed and passive_reward_debt.             *)
(***************************************************************************)
EXTENDS Integers, FiniteSets, FiniteSetsExt

CONSTANTS
    Miners, NoReferrer,
    Rewards,                    \* MYNE one settled receipt credits
    MaxEmission,                \* MAX_SUPPLY less genesis: all a receipt can credit
    U64Max, MINING_SHARE_SCALE, BPS_DENOMINATOR, CLAIM_FEE_BPS, CLAIM_PASSIVE_BPS

\* What the program's constants satisfy; instances assume it.
MiningPoolAssumption ==
    /\ IsFiniteSet(Miners) /\ NoReferrer \notin Miners
    /\ U64Max \in Nat /\ Rewards \subseteq 0 .. U64Max /\ MaxEmission \in Nat
    /\ MINING_SHARE_SCALE \in Nat \ {0} /\ BPS_DENOMINATOR \in Nat \ {0}
    /\ CLAIM_FEE_BPS \in 0 .. BPS_DENOMINATOR /\ CLAIM_PASSIVE_BPS \in 0 .. CLAIM_FEE_BPS

VARIABLES
    paused,     \* config.paused
    pool,       \* the MiningPool account
    miner,      \* the Miner accounts
    minted,     \* MYNE minted by claims
    burned,     \* config.virtual_burn_base_units from unclaimed MYNE
    credited    \* MYNE credited by receipts so far

vars == <<paused, pool, miner, minted, burned, credited>>

Init ==
    /\ paused = TRUE
    /\ pool = [total_unclaimed |-> 0, shares |-> 0, undistributed |-> 0]
    /\ miner = [m \in Miners |->
                  [registered |-> FALSE, referrer |-> NoReferrer, basis |-> 0, shares |-> 0]]
    /\ minted = 0
    /\ burned = 0
    /\ credited = 0

-----------------------------------------------------------------------------
(* Shares                                                                  *)

mining_share_value(total_assets, total_shares, shares) ==
    IF shares = 0 THEN 0 ELSE (total_assets * shares) \div total_shares

mining_shares_for_credit(total_assets, total_shares, amount) ==
    IF total_shares = 0 THEN amount * MINING_SHARE_SCALE
    ELSE (amount * total_shares) \div total_assets

\* The value of miner record m in pool p (validate_miner_shares).
ValueIn(p, m) == mining_share_value(p.total_unclaimed, p.shares, m.shares)

\* The pool and a miner's account after a credit that adds basis.
WithShares(p, m, amount, basis) ==
    LET shares == mining_shares_for_credit(p.total_unclaimed, p.shares, amount)
    IN [ pool  |-> [p EXCEPT !.total_unclaimed = p.total_unclaimed + amount,
                             !.shares = p.shares + shares],
         miner |-> [m EXCEPT !.shares = m.shares + shares, !.basis = basis] ]

\* The basis grows by what the new shares are worth; one that no share backs
\* is stale, and cleared first (validate_miner_shares).
credit_mining_rewards(p, m, amount) ==
    LET bare  == WithShares(p, m, amount, 0)
        basis == IF m.shares = 0 THEN 0 ELSE m.basis
    IN WithShares(p, m, amount, basis + ValueIn(bare.pool, bare.miner) - ValueIn(p, m))

\* A credit too small for one share is refused, and so is an overflow.
CreditAccepted(p, amount) ==
    /\ p.total_unclaimed + amount <= U64Max
    /\ amount > 0 => mining_shares_for_credit(p.total_unclaimed, p.shares, amount) > 0

\* Passive fees raise the value of the shares there are; with none they stay
\* unissued.
distribute_mining_rewards(p, amount) ==
    IF p.shares = 0
    THEN [p EXCEPT !.undistributed = p.undistributed + amount]
    ELSE [p EXCEPT !.total_unclaimed = p.total_unclaimed + amount]

\* A debit that gives the leaving miner the remainder of the division.
DebitRoundedUp(p, m) ==
    [p EXCEPT !.total_unclaimed =
                  p.total_unclaimed - (p.total_unclaimed * m.shares + p.shares - 1) \div p.shares,
              !.shares = p.shares - m.shares]

PoolAfterDebit(p, m) ==
    [p EXCEPT !.total_unclaimed = p.total_unclaimed - ValueIn(p, m),
              !.shares = p.shares - m.shares]

AfterDebit(m) == [m EXCEPT !.shares = 0, !.basis = 0]

\* The guards of debit_all_mining_rewards: something to take, and a pool left
\* with shares exactly when it is left with MYNE.
Debits(m) ==
    LET p == PoolAfterDebit(pool, miner[m]) IN
    /\ miner[m].registered
    /\ miner[m].shares > 0
    /\ ValueIn(pool, miner[m]) > 0
    /\ (p.shares = 0) = (p.total_unclaimed = 0)

-----------------------------------------------------------------------------
(* Instructions                                                            *)

NewMiner(referrer) ==
    [registered |-> TRUE, referrer |-> referrer, basis |-> 0, shares |-> 0]

register_miner(m, referrer) ==
    /\ ~paused
    /\ ~miner[m].registered
    /\ referrer # m
    /\ referrer # NoReferrer =>
         miner[referrer].registered /\ miner[referrer].referrer # m
    /\ miner' = [miner EXCEPT ![m] = NewMiner(referrer)]
    /\ UNCHANGED <<paused, pool, minted, burned, credited>>

\* The MYNE side of a claimed or permissionlessly settled receipt whose reward
\* accumulates.
receipt_credit(m, amount) ==
    LET credit == credit_mining_rewards(pool, miner[m], amount) IN
    /\ miner[m].registered
    /\ credited + amount <= MaxEmission
    /\ CreditAccepted(pool, amount)
    /\ pool' = credit.pool
    /\ miner' = [miner EXCEPT ![m] = credit.miner]
    /\ credited' = credited + amount
    /\ UNCHANGED <<paused, minted, burned>>

checked_bps(amount, bps) == (amount * bps) \div BPS_DENOMINATOR

total_fee(gross)      == checked_bps(gross, CLAIM_FEE_BPS)
passive_fee(gross)    == checked_bps(gross, CLAIM_PASSIVE_BPS)
referral_share(gross) == total_fee(gross) - passive_fee(gross)

\* Route a claim of gross: with a referrer to be credited, the state after
\* that credit; otherwise the pool alone, and the referral share is minted to
\* the admin.  The mint stays below the supply cap.
RouteClaim(m, gross, credits, credit, shared) ==
    /\ Debits(m)
    /\ IF credits
       THEN /\ pool' = credit.pool
            /\ miner' = [miner EXCEPT ![m] = AfterDebit(miner[m]),
                                      ![miner[m].referrer] = credit.miner]
            /\ minted' = minted + gross - total_fee(gross)
       ELSE /\ pool' = shared
            /\ miner' = [miner EXCEPT ![m] = AfterDebit(miner[m])]
            /\ minted' = minted + gross - passive_fee(gross)
    /\ minted' <= MaxEmission
    /\ UNCHANGED <<paused, burned, credited>>

\* A claim that credits the referrer before it distributes the passive fee.
ClaimCreditsReferrerFirst(m) ==
    LET gross   == ValueIn(pool, miner[m])
        left    == PoolAfterDebit(pool, miner[m])
        credits == miner[m].referrer # NoReferrer /\ referral_share(gross) > 0
        credit  == credit_mining_rewards(left, miner[miner[m].referrer], referral_share(gross))
    IN
    /\ credits => CreditAccepted(left, referral_share(gross))
    /\ RouteClaim(m, gross, credits,
                  [pool  |-> distribute_mining_rewards(credit.pool, passive_fee(gross)),
                   miner |-> credit.miner],
                  distribute_mining_rewards(left, passive_fee(gross)))

\* Debit everything, distribute the passive fee, then credit the referrer.  No
\* pause check.
claim_myne(m) ==
    LET gross   == ValueIn(pool, miner[m])
        shared  == distribute_mining_rewards(PoolAfterDebit(pool, miner[m]),
                                             passive_fee(gross))
        credits == miner[m].referrer # NoReferrer /\ referral_share(gross) > 0
        credit  == credit_mining_rewards(shared, miner[miner[m].referrer],
                                         referral_share(gross))
    IN
    /\ credits => CreditAccepted(shared, referral_share(gross))
    /\ RouteClaim(m, gross, credits, credit, shared)

\* No fee and no pause check: the value becomes permanent burn weight.
burn_unclaimed_myne(m) ==
    /\ Debits(m)
    /\ pool' = PoolAfterDebit(pool, miner[m])
    /\ miner' = [miner EXCEPT ![m] = AfterDebit(miner[m])]
    /\ burned' = burned + ValueIn(pool, miner[m])
    /\ UNCHANGED <<paused, minted, credited>>

set_paused(p) ==
    /\ paused # p
    /\ paused' = p
    /\ UNCHANGED <<pool, miner, minted, burned, credited>>

Next ==
    \/ \E p \in BOOLEAN : set_paused(p)
    \/ \E m \in Miners :
         \/ \E referrer \in Miners \cup {NoReferrer} : register_miner(m, referrer)
         \/ \E amount \in Rewards : receipt_credit(m, amount)
         \/ claim_myne(m)
         \/ burn_unclaimed_myne(m)

Spec == Init /\ [][Next]_vars

-----------------------------------------------------------------------------
(* Properties                                                              *)

\* The accounts keep their types: a share is never negative, a referrer is a
\* miner.
TypeOK ==
    /\ paused \in BOOLEAN
    /\ pool \in [total_unclaimed : 0 .. U64Max, shares : Nat, undistributed : Nat]
    /\ miner \in [Miners -> [registered : BOOLEAN, referrer : Miners \cup {NoReferrer},
                             basis : Nat, shares : Nat]]
    /\ minted \in Nat /\ burned \in Nat /\ credited \in 0 .. MaxEmission

SumOver(f) == MapThenSumSet(LAMBDA m : f[m], Miners)

\* What claim_myne would take out of the pool for m now.
Value(m) == ValueIn(pool, miner[m])

\* The shares of the pool are those of its miners, the pool owes at least what
\* they may claim and less than one base unit more for each of them, and what
\* is not passive gain is never more than the whole: the last miner out
\* receives every remainder.
SharesBackValue ==
    LET holders == {m \in Miners : miner[m].shares > 0}
        value   == SumOver([m \in Miners |-> Value(m)])
    IN
    /\ pool.shares = SumOver([m \in Miners |-> miner[m].shares])
    /\ value <= pool.total_unclaimed
    /\ pool.total_unclaimed < value + Cardinality(holders) \/ holders = {}
    /\ \A m \in Miners : miner[m].basis <= Value(m)

\* Every unit of MYNE a receipt ever credited is minted, burned, in the pool,
\* or withheld for good.
MyneAccounted ==
    credited = minted + burned + pool.total_unclaimed + pool.undistributed

\* A miner with something to take can always leave: the consistency check of
\* debit_all_mining_rewards and the supply cap of claim_myne never refuse.
ExitNeverRefused ==
    \A m \in Miners :
        miner[m].shares > 0 /\ Value(m) > 0 => Debits(m) /\ minted + Value(m) <= MaxEmission

\* What a miner may claim falls only when that miner claims or burns it all:
\* no other credit, claim or burn dilutes it.
NeverDiluted ==
    [][\A m \in Miners : Value(m)' >= Value(m) \/ miner'[m].shares = 0]_vars

\* A credit is worth what the receipt won, to within one base unit while there
\* are at least as many shares as units (share issuance rounds down).
CreditNearlyExact ==
    [][\A m \in Miners :
         pool.shares >= pool.total_unclaimed /\ miner'[m].shares > miner[m].shares
           /\ credited' > credited
         => Value(m)' - Value(m) \in (credited' - credited) - 1 .. credited' - credited]_vars

\* A referrer without shares gains the referral share of a claim and nothing
\* of the passive fee of that same claim.
ReferralEarnsNoPassiveFee ==
    [][\A claimant, referrer \in Miners :
         /\ miner[claimant].shares > 0 /\ miner'[claimant].shares = 0
         /\ miner[referrer].shares = 0 /\ miner'[referrer].shares > 0
         => Value(referrer)' <= referral_share(Value(claimant))]_vars

\* The referrals are a forest: no miner is, at any distance, the source of its
\* own referral, so among any miners one has a referrer who is not of them.
ReferralsAcyclic ==
    \A group \in (SUBSET Miners) \ {{}} : \E m \in group : miner[m].referrer \notin group

\* The ledger of unclaimed MYNE as one invariant: shares back values, every
\* unit is accounted for, nobody is locked in, and referrals form a forest.
UnclaimedLedgerSound ==
    TypeOK /\ SharesBackValue /\ MyneAccounted /\ ExitNeverRefused /\ ReferralsAcyclic

\* What one instruction may do to the values of several miners: it dilutes
\* nobody, a credit is worth the reward, a referrer gets no passive fee.
UnclaimedValuesFair == NeverDiluted /\ CreditNearlyExact /\ ReferralEarnsNoPassiveFee
=============================================================================
