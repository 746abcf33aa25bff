---------------------------- MODULE RoundsProofs ----------------------------
(***************************************************************************)
(* Proofs about Rounds, for every board, set of miners and rounds, fee     *)
(* schedule, supply and timing.  In every build the accounts keep their    *)
(* types and the books of a round and of the motherlode balance; in the    *)
(* production build a round that paid a refund never settles, is never     *)
(* created twice and takes no bet once its outcome is fixed; it is the     *)
(* escrow of its wagers, and every unit of MYNE that is counted as emitted *)
(* is somewhere.                                                           *)
(***************************************************************************)
EXTENDS Rounds, LedgerLemmas, TLAPS

\* An emission is an amount whenever the supply left is one.
LEMMA EmissionsAreAmounts ==
    ASSUME NEW remaining \in U64, NEW gross \in U64, NEW winning_total \in U64
    PROVE  round_emissions(remaining, gross, winning_total) \in [motherlode : U64, base : U64]
BY EconomicsAssumption DEF round_emissions, smaller, U64

\* Every account the program creates or clears is well typed.
LEMMA EmptyTypes ==
    /\ \A s \in {"absent", "live", "closed"} : EmptyRound(s) \in RoundType
    /\ NoReceipt \in ReceiptType
BY EconomicsAssumption DEF EmptyRound, RoundType, NoReceipt, ReceiptType, NoTiles, U64,
                           RandomnessStates

\* The fields a settlement writes keep the type of a round.
LEMMA OutcomeType ==
    ASSUME NEW rd \in RoundType, NEW tile \in Tiles, NEW solo \in BOOLEAN,
           NEW hit \in BOOLEAN, NEW done \in BOOLEAN, NEW sample \in U64,
           NEW prize \in U64, NEW base \in U64, NEW bonus \in U64, NEW payout \in U64
    PROVE  [rd EXCEPT !.settled = TRUE, !.winning_tile = tile, !.solo_mode = solo,
                      !.motherlode_hit = hit, !.solo_sample = sample, !.prize = prize,
                      !.buyback_completed = done, !.base_emission = base,
                      !.motherlode_emission = bonus, !.motherlode_payout = payout]
             \in RoundType
BY DEF RoundType

\* The accounts start well typed.
LEMMA InitType == Init => TypeOK
<1> SUFFICES ASSUME Init PROVE TypeOK
    OBVIOUS
<1>1. round \in [RoundIds -> RoundType] /\ receipt \in [ReceiptIds -> ReceiptType]
    BY EmptyTypes DEF Init
<1>2. QED
    BY <1>1, EconomicsAssumption DEF Init, TypeOK, U64

\* A settlement keeps every field typed: the checked arithmetic refuses the
\* step otherwise.
LEMMA SettleType ==
    ASSUME TypeOK, NEW r \in RoundIds, Drawn(r)
    PROVE  TypeOK'
<1>1. PICK tile \in Tiles, solo \in BOOLEAN, hit \in BOOLEAN :
          \E sample \in SoloSamples(r, tile) : settle_round_core(r, tile, solo, hit, sample)
    BY DEF Drawn
<1>2. PICK sample \in SoloSamples(r, tile) : settle_round_core(r, tile, solo, hit, sample)
    BY <1>1
<1> DEFINE fees == mining_fee_allocation(round[r].gross)
<1>3. /\ round[r] \in RoundType /\ round[r].gross \in U64
      /\ round[r].tile_lamports[tile] \in U64
    BY DEF TypeOK, RoundType
<1>4. sample \in U64
    BY <1>3, EconomicsAssumption DEF SoloSamples, U64
<1>5. /\ fees \in [total : U64, staking_net : U64, buyback : U64, motherlode : U64,
                   admin_total : U64]
      /\ fees.total <= round[r].gross
    BY <1>2 DEF settle_round_core, FeesComputable
<1>6. Prize(r) \in U64 /\ Rollover(r, tile) \in U64 /\ Prize(r) - Rollover(r, tile) \in U64
    BY <1>3, <1>5, EconomicsAssumption DEF Prize, Rollover, U64
<1>7. Emissions(r, tile) \in [motherlode : U64, base : U64]
  <2>1. config.total_emitted \in U64 /\ config.total_emitted <= MAX_SUPPLY
      BY <1>2 DEF settle_round_core, TypeOK
  <2>2. MAX_SUPPLY - config.total_emitted \in U64
      BY <2>1, EconomicsAssumption DEF U64
  <2>3. QED
      BY <1>3, <2>2, EmissionsAreAmounts DEF Emissions
<1>8. Pot(r, tile) \in U64 /\ Bonus(r, tile) \in U64
      /\ ConfigAfter(r, tile, hit).total_emitted \in U64
    BY <1>2 DEF settle_round_core
<1>9. config' \in [motherlode_lamports : U64, motherlode_base_units : U64, total_emitted : U64]
  <2>1. config' = ConfigAfter(r, tile, hit)
      BY <1>2 DEF settle_round_core
  <2>2. QED
      BY <1>8, <2>1, EconomicsAssumption DEF ConfigAfter, U64
<1>10. round' \in [RoundIds -> RoundType]
  <2> DEFINE done   == fees.buyback = 0 \/ ~liquidity_gate_required(program)
             prize  == Prize(r) - Rollover(r, tile)
             base   == Emissions(r, tile).base
             bonus  == IF motherlode_pays_round(r, hit) THEN Bonus(r, tile) ELSE 0
             payout == IF motherlode_pays_round(r, hit) THEN Pot(r, tile) ELSE 0
             next == [round[r] EXCEPT
                !.settled = TRUE, !.winning_tile = tile, !.solo_mode = solo,
                !.motherlode_hit = hit, !.solo_sample = sample, !.prize = prize,
                !.buyback_completed = done, !.base_emission = base,
                !.motherlode_emission = bonus, !.motherlode_payout = payout]
  <2>1. round' = [round EXCEPT ![r] = next]
      BY <1>2 DEF settle_round_core
  <2>2. payout \in U64 /\ bonus \in U64
      BY <1>8, EconomicsAssumption DEF U64
  <2>3. done \in BOOLEAN
      OBVIOUS
  <2>4. base \in U64 /\ prize \in U64
      BY <1>6, <1>7
  <2> HIDE DEF done, prize, base, bonus, payout
  <2>5. next \in RoundType
      BY <1>3, <1>4, <2>2, <2>3, <2>4 DEF RoundType
  <2> HIDE DEF next
  <2>6. QED
      BY <2>1, <2>5 DEF TypeOK
<1>11. vault' \in [round : [RoundIds -> U64], config : U64, stake : U64, buyback : U64, admin : U64]
    BY <1>2, <1>5, <1>6, <1>8, EconomicsAssumption DEF settle_round_core, TypeOK, U64
<1>12. UNCHANGED <<now, paused, program, poolOk, receipt, oracle, accrued>>
    BY <1>2 DEF settle_round_core
<1>13. QED
    BY <1>9, <1>10, <1>11, <1>12 DEF TypeOK

\* Recording a deployment keeps every field typed.
LEMMA DeployType ==
    ASSUME TypeOK, NEW id \in ReceiptIds, NEW w \in Wagers, deploy(id, w)
    PROVE  TypeOK'
<1> DEFINE r == id[1]
           total == checked_sum(w)
<1>1. r \in RoundIds
    BY DEF ReceiptIds
<1>2. w \in [Tiles -> U64] /\ total \in U64
    BY RoundsAssumption DEF deploy
<1>3. round[r] \in RoundType
    BY <1>1 DEF TypeOK
<1>4. RecordDeployment(id, w, 0)
    BY DEF deploy
<1>5. /\ round[r].gross + total \in U64
      /\ round[r].prize + total \in U64
      /\ vault.round[r] + total \in U64
      /\ [t \in Tiles |-> round[r].tile_lamports[t] + w[t]] \in [Tiles -> U64]
    BY <1>4 DEF RecordDeployment
<1>6. receipt' \in [ReceiptIds -> ReceiptType]
  <2> DEFINE new == [ status |-> "open", amounts |-> w,
                      cumulative_starts |-> round[r].tile_lamports,
                      total |-> total, reward_mode |-> 0 ]
  <2>1. new \in ReceiptType
      BY <1>2, <1>3 DEF ReceiptType, RoundType
  <2>2. receipt' = [receipt EXCEPT ![id] = new]
      BY <1>4 DEF RecordDeployment
  <2> HIDE DEF new
  <2>3. QED
      BY <2>1, <2>2 DEF TypeOK
<1>7. round' \in [RoundIds -> RoundType]
  <2> DEFINE tiles == [t \in Tiles |-> round[r].tile_lamports[t] + w[t]]
             gross == round[r].gross + total
             prize == round[r].prize + total
             count == round[r].total_receipts + 1
             next  == [round[r] EXCEPT !.tile_lamports = tiles, !.gross = gross,
                                       !.prize = prize, !.total_receipts = count]
  <2>1. round' = [round EXCEPT ![r] = next]
      BY <1>4 DEF RecordDeployment
  <2>2. tiles \in [Tiles -> U64] /\ gross \in U64 /\ prize \in U64
      BY <1>5
  <2>3. count \in Nat
      BY <1>3 DEF RoundType
  <2> HIDE DEF tiles, gross, prize, count
  <2>4. next \in RoundType
      BY <1>3, <2>2, <2>3 DEF RoundType
  <2> HIDE DEF next
  <2>5. QED
      BY <2>1, <2>4 DEF TypeOK
<1>8. vault' \in [round : [RoundIds -> U64], config : U64, stake : U64, buyback : U64, admin : U64]
    BY <1>1, <1>4, <1>5 DEF RecordDeployment, TypeOK
<1>9. UNCHANGED <<now, paused, program, poolOk, config, oracle, accrued>>
    BY <1>4 DEF RecordDeployment
<1>10. QED
    BY <1>6, <1>7, <1>8, <1>9 DEF TypeOK

\* Paying a receipt keeps every field typed.
LEMMA PayType ==
    ASSUME TypeOK, NEW id \in ReceiptIds, PayReceipt(id)
    PROVE  TypeOK'
<1> DEFINE r       == id[1]
           m       == id[2]
           rewards == receipt_rewards(round[r], receipt[id])
           kept    == IF receipt[id].reward_mode = 0 THEN rewards.myne ELSE 0
           burned  == rewards.motherlode + rewards.myne - kept
<1>1. r \in RoundIds /\ m \in Miners
    BY DEF ReceiptIds
<1>2. round[r] \in RoundType /\ receipt[id] \in ReceiptType
    BY <1>1 DEF TypeOK
<1>3. rewards.sol \in U64 /\ rewards.sol <= vault.round[r]
    BY DEF PayReceipt, RewardsComputable
<1>4. /\ round[r].claimed + rewards.sol \in U64
      /\ vault.stake + rewards.sol \in U64
      /\ accrued[m].sol + rewards.sol \in U64
      /\ accrued[m].myne + kept \in U64
      /\ accrued[m].burn + burned \in U64
    BY DEF PayReceipt
<1>5. round' \in [RoundIds -> RoundType]
  <2> DEFINE claimed == round[r].claimed + rewards.sol
             count   == round[r].processed_receipts + 1
             next    == [round[r] EXCEPT !.claimed = claimed, !.processed_receipts = count]
  <2>1. round' = [round EXCEPT ![r] = next]
      BY DEF PayReceipt
  <2>2. claimed \in U64 /\ count \in Nat
      BY <1>2, <1>4 DEF RoundType
  <2> HIDE DEF claimed, count
  <2>3. next \in RoundType
      BY <1>2, <2>2 DEF RoundType
  <2> HIDE DEF next
  <2>4. QED
      BY <2>1, <2>3 DEF TypeOK
<1>6. receipt' \in [ReceiptIds -> ReceiptType]
    BY <1>2 DEF PayReceipt, TypeOK, ReceiptType
<1>7. vault' \in [round : [RoundIds -> U64], config : U64, stake : U64, buyback : U64, admin : U64]
  <2> DEFINE left  == vault.round[r] - rewards.sol
             stake == vault.stake + rewards.sol
  <2>1. vault' = [vault EXCEPT !.round = [vault.round EXCEPT ![r] = left], !.stake = stake]
      BY DEF PayReceipt
  <2>2. left \in U64 /\ stake \in U64
      BY <1>1, <1>3, <1>4, EconomicsAssumption DEF TypeOK, U64
  <2> HIDE DEF left, stake
  <2>3. QED
      BY <1>1, <2>1, <2>2 DEF TypeOK
<1>8. accrued' \in [Miners -> [sol : U64, myne : U64, burn : U64]]
  <2> DEFINE new == [ sol |-> accrued[m].sol + rewards.sol, myne |-> accrued[m].myne + kept,
                      burn |-> accrued[m].burn + burned ]
  <2>1. accrued' = [accrued EXCEPT ![m] = new]
      BY DEF PayReceipt
  <2>2. new \in [sol : U64, myne : U64, burn : U64]
      BY <1>4
  <2> HIDE DEF new
  <2>3. QED
      BY <2>1, <2>2 DEF TypeOK
<1>9. UNCHANGED <<now, paused, program, poolOk, config, oracle>>
    BY DEF PayReceipt
<1>10. QED
    BY <1>5, <1>6, <1>7, <1>8, <1>9 DEF TypeOK

\* Refunding a receipt keeps every field typed.
LEMMA RefundType ==
    ASSUME TypeOK, NEW id \in ReceiptIds, RefundReceipt(id)
    PROVE  TypeOK'
<1> DEFINE r     == id[1]
           total == receipt[id].total
<1>1. r \in RoundIds
    BY DEF ReceiptIds
<1>2. round[r] \in RoundType /\ receipt[id] \in ReceiptType
    BY <1>1 DEF TypeOK
<1>3. /\ total <= vault.round[r] /\ total <= round[r].gross /\ total <= round[r].prize
      /\ \A t \in Tiles : receipt[id].amounts[t] <= round[r].tile_lamports[t]
    BY DEF RefundReceipt
<1>4. round' \in [RoundIds -> RoundType]
  <2> DEFINE tiles == [t \in Tiles |-> round[r].tile_lamports[t] - receipt[id].amounts[t]]
             gross == round[r].gross - total
             prize == round[r].prize - total
             count == round[r].processed_receipts + 1
             next  == [round[r] EXCEPT !.tile_lamports = tiles, !.gross = gross,
                                       !.prize = prize, !.processed_receipts = count]
  <2>1. round' = [round EXCEPT ![r] = next]
      BY DEF RefundReceipt
  <2>2. tiles \in [Tiles -> U64]
      BY <1>2, <1>3, EconomicsAssumption DEF RoundType, ReceiptType, U64
  <2>3. gross \in U64 /\ prize \in U64 /\ count \in Nat
      BY <1>2, <1>3, EconomicsAssumption DEF RoundType, ReceiptType, U64
  <2> HIDE DEF tiles, gross, prize, count
  <2>4. next \in RoundType
      BY <1>2, <2>2, <2>3 DEF RoundType
  <2> HIDE DEF next
  <2>5. QED
      BY <2>1, <2>4 DEF TypeOK
<1>5. receipt' \in [ReceiptIds -> ReceiptType]
    BY <1>2 DEF RefundReceipt, TypeOK, ReceiptType
<1>6. vault' \in [round : [RoundIds -> U64], config : U64, stake : U64, buyback : U64, admin : U64]
  <2> DEFINE left == vault.round[r] - total
  <2>1. vault' = [vault EXCEPT !.round = [vault.round EXCEPT ![r] = left]]
      BY DEF RefundReceipt
  <2>2. left \in U64
      BY <1>1, <1>2, <1>3, EconomicsAssumption DEF TypeOK, ReceiptType, U64
  <2> HIDE DEF left
  <2>3. QED
      BY <1>1, <2>1, <2>2 DEF TypeOK
<1>7. UNCHANGED <<now, paused, program, poolOk, config, oracle, accrued>>
    BY DEF RefundReceipt
<1>8. QED
    BY <1>4, <1>5, <1>6, <1>7 DEF TypeOK

\* The steps that write one field of one round, or clear a round.
LEMMA RoundFieldType ==
    ASSUME TypeOK, NEW r \in RoundIds,
           \/ open_round(r)
           \/ bind_round_randomness(r)
           \/ bind_round_server_commitment(r)
           \/ record_round_randomness_commit(r)
           \/ lock_round_server_entropy(r)
           \/ mark_buyback_completed(r)
           \/ archive_round(r)
           \/ close_round(r)
    PROVE  TypeOK'
<1>0. round[r] \in RoundType
    BY DEF TypeOK
<1>1. CASE open_round(r)
    BY <1>1, EmptyTypes DEF open_round, TypeOK
<1>2. CASE bind_round_randomness(r)
    BY <1>0, <1>2 DEF bind_round_randomness, TypeOK, RoundType, RandomnessStates
<1>3. CASE bind_round_server_commitment(r)
    BY <1>0, <1>3 DEF bind_round_server_commitment, TypeOK, RoundType, RandomnessStates
<1>4. CASE record_round_randomness_commit(r)
    BY <1>0, <1>4 DEF record_round_randomness_commit, TypeOK, RoundType, RandomnessStates
<1>5. CASE lock_round_server_entropy(r)
    BY <1>0, <1>5 DEF lock_round_server_entropy, TypeOK, RoundType, RandomnessStates
<1>6. CASE mark_buyback_completed(r)
    BY <1>0, <1>6 DEF mark_buyback_completed, TypeOK, RoundType
<1>7. CASE archive_round(r)
    BY <1>0, <1>7 DEF archive_round, TypeOK, RoundType
<1>8. CASE close_round(r)
  <2>1. round' \in [RoundIds -> RoundType]
      BY <1>8, EmptyTypes DEF close_round, TypeOK
  <2>2. vault' \in [round : [RoundIds -> U64], config : U64, stake : U64, buyback : U64, admin : U64]
    <3>1. 0 \in U64
        BY EconomicsAssumption DEF U64
    <3>2. QED
        BY <1>8, <3>1 DEF close_round, TypeOK
  <2>3. QED
      BY <1>8, <2>1, <2>2 DEF close_round, TypeOK
<1>9. QED
    BY <1>1, <1>2, <1>3, <1>4, <1>5, <1>6, <1>7, <1>8

\* Closing a receipt keeps every field typed.
LEMMA CloseReceiptType ==
    ASSUME TypeOK, NEW id \in ReceiptIds, close_receipt(id)
    PROVE  TypeOK'
<1>1. id[1] \in RoundIds /\ round[id[1]] \in RoundType
    BY DEF ReceiptIds, TypeOK
<1>2. round' \in [RoundIds -> RoundType]
  <2> DEFINE r     == id[1]
             count == round[r].closed_receipts + 1
             next  == [round[r] EXCEPT !.closed_receipts = count]
  <2>1. round' = [round EXCEPT ![r] = next]
      BY DEF close_receipt
  <2>2. count \in Nat
      BY <1>1 DEF RoundType
  <2> HIDE DEF count
  <2>3. next \in RoundType
      BY <1>1, <2>2 DEF RoundType
  <2> HIDE DEF next
  <2>4. QED
      BY <1>1, <2>1, <2>3 DEF TypeOK
<1>3. receipt' \in [ReceiptIds -> ReceiptType]
  <2>1. [NoReceipt EXCEPT !.status = "closed"] \in ReceiptType
      BY EmptyTypes DEF ReceiptType
  <2>2. QED
      BY <2>1 DEF close_receipt, TypeOK
<1>4. QED
    BY <1>2, <1>3 DEF close_receipt, TypeOK

\* Every step of the program and of its environment keeps every field typed.
LEMMA NextType == TypeOK /\ [Next]_vars => TypeOK'
<1> SUFFICES ASSUME TypeOK, [Next]_vars PROVE TypeOK'
    OBVIOUS
<1>1. CASE UNCHANGED vars
    BY <1>1 DEF vars, TypeOK
<1>2. CASE Environment
  <2>1. CASE Tick
      BY <2>1 DEF Tick, TypeOK
  <2>2. CASE pool_reserves_change
      BY <2>2 DEF pool_reserves_change, TypeOK
  <2>3. ASSUME NEW r \in RoundIds, switchboard_commit(r) PROVE TypeOK'
      BY <2>3 DEF switchboard_commit, TypeOK
  <2>4. QED
      BY <1>2, <2>1, <2>2, <2>3 DEF Environment
<1>3. CASE Administration
  <2>1. ASSUME NEW p \in BOOLEAN, set_paused(p) PROVE TypeOK'
      BY <2>1 DEF set_paused, TypeOK
  <2>2. ASSUME NEW p \in Programs, set_randomness_program(p) PROVE TypeOK'
      BY <2>2 DEF set_randomness_program, TypeOK
  <2>3. QED
      BY <1>3, <2>1, <2>2 DEF Administration
<1>4. CASE Provider
  <2>1. PICK r \in RoundIds :
            \/ open_round(r)
            \/ bind_round_randomness(r)
            \/ bind_round_server_commitment(r)
            \/ record_round_randomness_commit(r)
            \/ lock_round_server_entropy(r)
            \/ mark_buyback_completed(r)
            \/ archive_round(r)
            \/ close_round(r)
            \/ Drawn(r)
      BY <1>4 DEF Provider, settle_round, settle_round_verified, settle_round_server
  <2>2. CASE Drawn(r)
      BY <2>2, SettleType
  <2>3. QED
      BY <2>1, <2>2, RoundFieldType
<1>5. CASE MinerSteps
  <2>1. PICK id \in ReceiptIds :
            \/ \E w \in Wagers : deploy(id, w)
            \/ PayReceipt(id)
            \/ RefundReceipt(id)
            \/ close_receipt(id)
      BY <1>5 DEF MinerSteps, claim_receipt, settle_receipt, refund_receipt,
                  refund_receipt_permissionless
  <2>2. QED
      BY <2>1, DeployType, PayType, RefundType, CloseReceiptType
<1>6. QED
    BY <1>1, <1>2, <1>3, <1>4, <1>5 DEF Next

\* Every account field keeps the type of its Rust declaration in every reachable
\* state; in particular no amount ever leaves u64.
THEOREM TypeCorrect == Spec => []TypeOK
BY InitType, NextType, PTL DEF Spec

-----------------------------------------------------------------------------
\* The four legs of the fee carry the whole of it, with no lamport lost to or
\* created by rounding.
LEMMA FeeLegsCarryTheTotal ==
    ASSUME NEW amount \in U64
    PROVE  LET fees == mining_fee_allocation(amount)
           IN fees.staking_net + fees.buyback + fees.admin_total + fees.motherlode = fees.total
<1>1. amount \in Int /\ \A x, b \in Int : checked_bps(x, b) \in Int
    BY EconomicsAssumption DEF checked_bps, U64
<1> DEFINE total         == checked_bps(amount, MINING_PROTOCOL_FEE_BPS)
           staking_gross == checked_bps(amount, MINING_STAKING_BPS)
           buyback       == checked_bps(amount, MINING_BUYBACK_BPS)
           motherlode    == checked_bps(amount, MINING_MOTHERLODE_BPS)
           staking_admin == checked_bps(staking_gross, STAKING_ADMIN_SHARE_BPS)
<1>2. /\ total \in Int /\ staking_gross \in Int /\ buyback \in Int
      /\ motherlode \in Int /\ staking_admin \in Int
  <2>1. /\ MINING_PROTOCOL_FEE_BPS \in Int /\ STAKING_ADMIN_SHARE_BPS \in Int
        /\ MINING_STAKING_BPS \in Int /\ MINING_BUYBACK_BPS \in Int
        /\ MINING_MOTHERLODE_BPS \in Int
      BY EconomicsAssumption DEF MINING_PROTOCOL_FEE_BPS
  <2>2. QED
      BY <1>1, <2>1
<1>3. mining_fee_allocation(amount) =
        [ total |-> total, staking_net |-> staking_gross - staking_admin,
          buyback |-> buyback, motherlode |-> motherlode,
          admin_total |-> total - (staking_gross + buyback + motherlode) + staking_admin ]
    BY DEF mining_fee_allocation
<1> HIDE DEF total, staking_gross, buyback, motherlode, staking_admin
<1>4. QED
    BY <1>2, <1>3

\* What the books rest on: nothing is claimed before settlement, and an account
\* that does not exist is as an opened one starts.
Unstarted ==
    \A r \in RoundIds : /\ ~round[r].settled => round[r].claimed = 0
                        /\ ~Live(r) => round[r] = EmptyRound(round[r].status)

Books == RoundVaultExact /\ Unstarted /\ MotherlodeBacked

\* The books balance before the first round is opened.
LEMMA InitBooks == Init => Books
<1> SUFFICES ASSUME Init PROVE Books
    OBVIOUS
<1>1. \A r \in RoundIds : round[r] = EmptyRound("absent") /\ vault.round[r] = 0
    BY DEF Init
<1>2. RoundVaultExact
    BY <1>1 DEF RoundVaultExact, EmptyRound
<1>3. Unstarted
  <2>1. /\ EmptyRound("absent").status = "absent" /\ ~EmptyRound("absent").settled
        /\ EmptyRound("absent").claimed = 0
      BY DEF EmptyRound
  <2>2. QED
      BY <1>1, <2>1 DEF Unstarted
<1>4. MotherlodeBacked
    BY DEF Init, MotherlodeBacked
<1>5. QED
    BY <1>2, <1>3, <1>4 DEF Books

\* A settlement moves out of the round what its books take off, and into the
\* config what the motherlode gains.
LEMMA SettleBooks ==
    ASSUME TypeOK, Books, NEW r \in RoundIds, Live(r), Drawn(r)
    PROVE  Books'
<1>1. PICK tile \in Tiles, solo \in BOOLEAN, hit \in BOOLEAN :
          \E sample \in SoloSamples(r, tile) : settle_round_core(r, tile, solo, hit, sample)
    BY DEF Drawn
<1>2. PICK sample \in SoloSamples(r, tile) : settle_round_core(r, tile, solo, hit, sample)
    BY <1>1
<1> DEFINE fees     == mining_fee_allocation(round[r].gross)
           rollover == Rollover(r, tile)
           payout   == IF motherlode_pays_round(r, hit) THEN Pot(r, tile) ELSE 0
           out      == fees.staking_net + fees.buyback + fees.admin_total
                         + fees.motherlode + rollover
           held     == vault.config + fees.motherlode + rollover
<1>3. /\ round[r] \in RoundType /\ round[r].gross \in Int /\ vault.round[r] \in Int
      /\ vault.config \in Int /\ config.motherlode_lamports \in Int
    BY DEF TypeOK, RoundType, U64
<1>4. /\ fees.total \in Int /\ fees.staking_net \in Int /\ fees.buyback \in Int
      /\ fees.motherlode \in Int /\ fees.admin_total \in Int
    BY <1>2 DEF settle_round_core, FeesComputable, U64
<1>5. rollover \in Int /\ Prize(r) = round[r].gross - fees.total /\ Prize(r) \in Int
    BY <1>3, <1>4 DEF Rollover, Prize
<1>6. fees.staking_net + fees.buyback + fees.admin_total + fees.motherlode = fees.total
    BY FeeLegsCarryTheTotal DEF TypeOK, RoundType
<1>7. payout \in Int /\ Pot(r, tile) \in Int
    BY <1>2 DEF settle_round_core, U64
<1>8. /\ ~round[r].settled /\ vault.round[r] = round[r].gross /\ round[r].claimed = 0
    BY <1>2 DEF settle_round_core, Books, RoundVaultExact, Unstarted
<1>9. /\ round'[r].settled = TRUE
      /\ round'[r].prize = Prize(r) - rollover
      /\ round'[r].motherlode_payout = payout
      /\ round'[r].claimed = round[r].claimed
      /\ round'[r].status = round[r].status
      /\ vault'.round = [vault.round EXCEPT ![r] = vault.round[r] - out + payout]
      /\ \A s \in RoundIds \ {r} : round'[s] = round[s]
  <2> DEFINE next == [round[r] EXCEPT
                !.settled = TRUE, !.winning_tile = tile, !.solo_mode = solo,
                !.motherlode_hit = hit, !.solo_sample = sample,
                !.prize = Prize(r) - rollover,
                !.buyback_completed = fees.buyback = 0 \/ ~liquidity_gate_required(program),
                !.base_emission = Emissions(r, tile).base,
                !.motherlode_emission =
                    IF motherlode_pays_round(r, hit) THEN Bonus(r, tile) ELSE 0,
                !.motherlode_payout = payout]
  <2>1. round' = [round EXCEPT ![r] = next]
      BY <1>2 DEF settle_round_core
  <2>2. /\ next.settled = TRUE /\ next.prize = Prize(r) - rollover
        /\ next.motherlode_payout = payout /\ next.claimed = round[r].claimed
        /\ next.status = round[r].status
      BY <1>3 DEF RoundType
  <2>3. vault'.round = [vault.round EXCEPT ![r] = vault.round[r] - out + payout]
      BY <1>2 DEF settle_round_core
  <2> HIDE DEF next
  <2>4. QED
      BY <2>1, <2>2, <2>3 DEF TypeOK
<1>10. RoundVaultExact'
  <2>1. vault'.round[r] = Prize(r) - rollover + payout - 0
      BY <1>3, <1>4, <1>5, <1>6, <1>7, <1>8, <1>9 DEF TypeOK
  <2>2. ASSUME NEW s \in RoundIds \ {r}
        PROVE  vault'.round[s] = vault.round[s]
      BY <1>9 DEF TypeOK
  <2>3. QED
      BY <1>8, <1>9, <2>1, <2>2 DEF Books, RoundVaultExact
<1>11. Unstarted'
    BY <1>9 DEF Books, Unstarted, Live
<1>12. MotherlodeBacked'
  <2>1. vault'.config = held - payout /\ config' = ConfigAfter(r, tile, hit)
      BY <1>2 DEF settle_round_core
  <2>2. Pot(r, tile) = held
      BY <1>3, <1>4, <1>5 DEF Pot, Books, MotherlodeBacked
  <2>3. QED
      BY <1>3, <1>4, <1>5, <1>7, <2>1, <2>2 DEF MotherlodeBacked, ConfigAfter
<1>13. QED
    BY <1>10, <1>11, <1>12 DEF Books

\* A step that only sets a field the books do not read leaves them balanced.
LEMMA FieldBooks ==
    ASSUME TypeOK, Books, NEW r \in RoundIds, Live(r),
           \/ bind_round_randomness(r)
           \/ bind_round_server_commitment(r)
           \/ record_round_randomness_commit(r)
           \/ lock_round_server_entropy(r)
           \/ mark_buyback_completed(r)
           \/ archive_round(r)
    PROVE  Books'
<1>1. round[r] \in RoundType /\ round \in [RoundIds -> RoundType]
    BY DEF TypeOK
<1>2. /\ UNCHANGED <<vault, config>>
      /\ round'[r].settled = round[r].settled /\ round'[r].gross = round[r].gross
      /\ round'[r].prize = round[r].prize /\ round'[r].claimed = round[r].claimed
      /\ round'[r].motherlode_payout = round[r].motherlode_payout
      /\ round'[r].status = round[r].status
      /\ \A s \in RoundIds \ {r} : round'[s] = round[s]
  <2>1. CASE bind_round_randomness(r)
      BY <1>1, <2>1 DEF bind_round_randomness, RoundType
  <2>2. CASE bind_round_server_commitment(r)
      BY <1>1, <2>2 DEF bind_round_server_commitment, RoundType
  <2>3. CASE record_round_randomness_commit(r)
      BY <1>1, <2>3 DEF record_round_randomness_commit, RoundType
  <2>4. CASE lock_round_server_entropy(r)
      BY <1>1, <2>4 DEF lock_round_server_entropy, RoundType
  <2>5. CASE mark_buyback_completed(r)
      BY <1>1, <2>5 DEF mark_buyback_completed, RoundType
  <2>6. CASE archive_round(r)
      BY <1>1, <2>6 DEF archive_round, RoundType
  <2>7. QED
      BY <2>1, <2>2, <2>3, <2>4, <2>5, <2>6
<1>3. RoundVaultExact'
    BY <1>2 DEF Books, RoundVaultExact
<1>4. Unstarted'
    BY <1>2 DEF Books, Unstarted, Live
<1>5. MotherlodeBacked'
    BY <1>2 DEF Books, MotherlodeBacked
<1>6. QED
    BY <1>3, <1>4, <1>5 DEF Books

\* Creating and clearing a round account.
LEMMA AccountBooks ==
    ASSUME TypeOK, Books, NEW r \in RoundIds, open_round(r) \/ close_round(r)
    PROVE  Books'
<1>1. \A s \in {"live", "closed"} :
          /\ EmptyRound(s).status = s /\ ~EmptyRound(s).settled
          /\ EmptyRound(s).claimed = 0 /\ EmptyRound(s).gross = 0
    BY DEF EmptyRound
<1>2. /\ \E s \in {"live", "closed"} : round' = [round EXCEPT ![r] = EmptyRound(s)]
      /\ vault'.round[r] = 0 /\ \A s \in RoundIds \ {r} : vault'.round[s] = vault.round[s]
      /\ vault'.config = vault.config /\ config' = config
  <2>1. CASE open_round(r)
    <3>1. round[r] = EmptyRound(round[r].status) /\ round[r].status \in {"absent", "closed"}
        BY <2>1 DEF open_round, Books, Unstarted, Live, TypeOK, RoundType
    <3>2. ~round[r].settled /\ round[r].gross = 0
        BY <3>1 DEF EmptyRound
    <3>3. vault.round[r] = 0
        BY <3>2 DEF Books, RoundVaultExact
    <3>4. QED
        BY <2>1, <3>3 DEF open_round
  <2>2. CASE close_round(r)
      BY <2>2 DEF close_round, TypeOK
  <2>3. QED
      BY <2>1, <2>2
<1>3. PICK st \in {"live", "closed"} : round' = [round EXCEPT ![r] = EmptyRound(st)]
    BY <1>2
<1>4. round'[r] = EmptyRound(st) /\ \A s \in RoundIds \ {r} : round'[s] = round[s]
    BY <1>3 DEF TypeOK
<1>5. RoundVaultExact'
    BY <1>1, <1>2, <1>4 DEF Books, RoundVaultExact
<1>6. Unstarted'
    BY <1>1, <1>4 DEF Books, Unstarted, Live
<1>7. MotherlodeBacked'
    BY <1>2 DEF Books, MotherlodeBacked
<1>8. QED
    BY <1>5, <1>6, <1>7 DEF Books

\* Deployments, payments and refunds move lamports and books together.
LEMMA ReceiptBooks ==
    ASSUME TypeOK, Books, NEW id \in ReceiptIds,
           \/ \E w \in Wagers : deploy(id, w)
           \/ PayReceipt(id)
           \/ RefundReceipt(id)
           \/ close_receipt(id)
    PROVE  Books'
<1> DEFINE r == id[1]
<1>1. /\ r \in RoundIds /\ round \in [RoundIds -> RoundType] /\ round[r] \in RoundType
      /\ vault.round \in [RoundIds -> U64]
    BY DEF TypeOK, ReceiptIds
<1>2. /\ round[r].gross \in Int /\ round[r].prize \in Int /\ round[r].claimed \in Int
      /\ round[r].motherlode_payout \in Int /\ vault.round[r] \in Int
      /\ receipt[id].total \in Int
    BY <1>1 DEF TypeOK, RoundType, ReceiptType, U64
<1>3. /\ vault.round[r] = IF round[r].settled
                          THEN round[r].prize + round[r].motherlode_payout - round[r].claimed
                          ELSE round[r].gross
      /\ ~round[r].settled => round[r].claimed = 0
    BY <1>1 DEF Books, RoundVaultExact, Unstarted
<1>4. /\ Live(r) /\ round'[r].status = round[r].status
      /\ round'[r].settled = round[r].settled
      /\ vault'.round[r] = IF round'[r].settled
                           THEN round'[r].prize + round'[r].motherlode_payout - round'[r].claimed
                           ELSE round'[r].gross
      /\ ~round'[r].settled => round'[r].claimed = 0
      /\ \A s \in RoundIds \ {r} : round'[s] = round[s] /\ vault'.round[s] = vault.round[s]
      /\ vault'.config = vault.config /\ config' = config
  <2>1. ASSUME NEW w \in Wagers, deploy(id, w)
        PROVE  <1>4!:
    <3>1. RecordDeployment(id, w, 0) /\ checked_sum(w) \in Int
        BY <2>1 DEF deploy, U64
    <3> DEFINE total == checked_sum(w)
               next  == [round[r] EXCEPT
                   !.tile_lamports = [t \in Tiles |-> round[r].tile_lamports[t] + w[t]],
                   !.gross = round[r].gross + total, !.prize = round[r].prize + total,
                   !.total_receipts = round[r].total_receipts + 1]
    <3>2. /\ round' = [round EXCEPT ![r] = next]
          /\ vault' = [vault EXCEPT !.round =
                           [vault.round EXCEPT ![r] = vault.round[r] + total]]
          /\ Live(r) /\ ~round[r].settled /\ config' = config
        BY <3>1 DEF RecordDeployment, assert_round_accepting_deployments_at
    <3>3. /\ next.status = round[r].status /\ next.settled = round[r].settled
          /\ next.gross = round[r].gross + total /\ next.claimed = round[r].claimed
        BY <1>1 DEF RoundType
    <3> HIDE DEF next
    <3>4. /\ round'[r] = next /\ \A s \in RoundIds \ {r} : round'[s] = round[s]
          /\ vault'.round[r] = vault.round[r] + total
          /\ \A s \in RoundIds \ {r} : vault'.round[s] = vault.round[s]
          /\ vault'.config = vault.config
        BY <1>1, <3>2 DEF TypeOK
    <3> HIDE DEF total
    <3>5. QED
        BY <1>2, <1>3, <3>1, <3>2, <3>3, <3>4
  <2>2. CASE PayReceipt(id)
    <3> DEFINE sol == receipt_rewards(round[r], receipt[id]).sol
    <3>1. sol \in Int
      <4>1. sol \in U64
        BY <2>2 DEF PayReceipt, RewardsComputable
      <4> QED BY <4>1 DEF U64
    <3> DEFINE next == [round[r] EXCEPT
                   !.claimed = round[r].claimed + sol,
                   !.processed_receipts = round[r].processed_receipts + 1]
    <3>2. /\ round' = [round EXCEPT ![r] = next]
          /\ vault' = [vault EXCEPT
                           !.round = [vault.round EXCEPT ![r] = vault.round[r] - sol],
                           !.stake = vault.stake + sol]
          /\ Live(r) /\ round[r].settled /\ config' = config
        BY <2>2 DEF PayReceipt
    <3>3. /\ next.status = round[r].status /\ next.settled = round[r].settled
          /\ next.claimed = round[r].claimed + sol /\ next.prize = round[r].prize
          /\ next.motherlode_payout = round[r].motherlode_payout
        BY <1>1 DEF RoundType
    <3> HIDE DEF next, sol
    <3>4. /\ round'[r] = next /\ \A s \in RoundIds \ {r} : round'[s] = round[s]
          /\ vault'.round[r] = vault.round[r] - sol
          /\ \A s \in RoundIds \ {r} : vault'.round[s] = vault.round[s]
          /\ vault'.config = vault.config
        BY <1>1, <3>2 DEF TypeOK
    <3>5. vault'.round[r] =
              round'[r].prize + round'[r].motherlode_payout - round'[r].claimed
      <4>1. vault.round[r] = round[r].prize + round[r].motherlode_payout - round[r].claimed
          BY <1>3, <3>2
      <4>2. QED
          BY <1>2, <3>1, <3>3, <3>4, <4>1
    <3>6. round'[r].settled /\ round'[r].settled = round[r].settled
        BY <3>2, <3>3, <3>4
    <3>7. QED
        BY <3>2, <3>3, <3>4, <3>5, <3>6
  <2>3. CASE RefundReceipt(id)
    <3> DEFINE total == receipt[id].total
               next  == [round[r] EXCEPT
                   !.tile_lamports =
                       [t \in Tiles |-> round[r].tile_lamports[t] - receipt[id].amounts[t]],
                   !.gross = round[r].gross - total, !.prize = round[r].prize - total,
                   !.processed_receipts = round[r].processed_receipts + 1]
    <3>1. total \in Int
        BY <1>2
    <3>2. /\ round' = [round EXCEPT ![r] = next]
          /\ vault' = [vault EXCEPT !.round =
                           [vault.round EXCEPT ![r] = vault.round[r] - total]]
          /\ Live(r) /\ ~round[r].settled /\ config' = config
        BY <2>3 DEF RefundReceipt
    <3>3. /\ next.status = round[r].status /\ next.settled = round[r].settled
          /\ next.gross = round[r].gross - total /\ next.claimed = round[r].claimed
        BY <1>1 DEF RoundType
    <3> HIDE DEF next, total
    <3>4. /\ round'[r] = next /\ \A s \in RoundIds \ {r} : round'[s] = round[s]
          /\ vault'.round[r] = vault.round[r] - total
          /\ \A s \in RoundIds \ {r} : vault'.round[s] = vault.round[s]
          /\ vault'.config = vault.config
        BY <1>1, <3>2 DEF TypeOK
    <3>5. QED
        BY <1>2, <1>3, <3>1, <3>2, <3>3, <3>4
  <2>4. CASE close_receipt(id)
      BY <1>1, <1>2, <1>3, <2>4 DEF close_receipt, RoundType
  <2>5. QED
      BY <2>1, <2>2, <2>3, <2>4
<1>5. RoundVaultExact'
    BY <1>1, <1>4 DEF Books, RoundVaultExact
<1>6. Unstarted'
    BY <1>1, <1>4 DEF Books, Unstarted, Live
<1>7. MotherlodeBacked'
    BY <1>4 DEF Books, MotherlodeBacked
<1>8. QED
    BY <1>5, <1>6, <1>7 DEF Books

\* Every instruction keeps the books balanced.
LEMMA NextBooks == TypeOK /\ Books /\ [Next]_vars => Books'
<1> SUFFICES ASSUME TypeOK, Books, [Next]_vars PROVE Books'
    OBVIOUS
<1>1. ASSUME UNCHANGED <<round, config, vault>> PROVE Books'
    BY <1>1 DEF Books, RoundVaultExact, Unstarted, MotherlodeBacked, Live
<1>2. CASE UNCHANGED vars
    BY <1>1, <1>2 DEF vars
<1>3. CASE Environment
    BY <1>1, <1>3 DEF Environment, Tick, pool_reserves_change, switchboard_commit
<1>4. CASE Administration
    BY <1>1, <1>4 DEF Administration, set_paused, set_randomness_program
<1>5. CASE Provider
  <2>1. PICK r \in RoundIds :
            \/ open_round(r) \/ close_round(r)
            \/ Live(r) /\ \/ bind_round_randomness(r)
                          \/ bind_round_server_commitment(r)
                          \/ record_round_randomness_commit(r)
                          \/ lock_round_server_entropy(r)
                          \/ mark_buyback_completed(r)
                          \/ archive_round(r)
            \/ Live(r) /\ Drawn(r)
      BY <1>5 DEF Provider, settle_round, settle_round_verified, settle_round_server,
                  bind_round_randomness, bind_round_server_commitment,
                  record_round_randomness_commit, lock_round_server_entropy,
                  mark_buyback_completed, archive_round
  <2>2. QED
      BY <2>1, AccountBooks, FieldBooks, SettleBooks
<1>6. CASE MinerSteps
  <2>1. PICK id \in ReceiptIds :
            \/ \E w \in Wagers : deploy(id, w)
            \/ PayReceipt(id)
            \/ RefundReceipt(id)
            \/ close_receipt(id)
      BY <1>6 DEF MinerSteps, claim_receipt, settle_receipt, refund_receipt,
                  refund_receipt_permissionless
  <2>2. QED
      BY <2>1, ReceiptBooks
<1>7. QED
    BY <1>2, <1>3, <1>4, <1>5, <1>6 DEF Next

\* The books balance in every reachable state of every build.
LEMMA BooksBalance == Spec => []Books
BY InitBooks, NextBooks, TypeCorrect, PTL DEF Spec

\* The lamports of a round account are what its books say, in every build and
\* for every interleaving of deployments, settlement, claims and refunds.
THEOREM RoundVaultIsExact == Spec => []RoundVaultExact
<1>1. Books => RoundVaultExact
    BY DEF Books
<1>2. QED
    BY <1>1, BooksBalance, PTL

\* The config account holds exactly the rolling SOL motherlode it records.
THEOREM MotherlodeIsBacked == Spec => []MotherlodeBacked
<1>1. Books => MotherlodeBacked
    BY DEF Books
<1>2. QED
    BY <1>1, BooksBalance, PTL

-----------------------------------------------------------------------------
(* The production build                                                    *)

\* What order the production build keeps: a round settles or closes only after
\* betting, a committed oracle account belongs to the round it was bound to, and
\* a refund happens only past the deadline of an unsettled round.
Ordered ==
    /\ \A r \in RoundIds :
          /\ round[r].settled \/ round[r].status = "closed" => now >= betting_ends_at(r)
          /\ oracle[r] = "committed" =>
                round[r].status = "closed" \/ round[r].randomness \in {"bound", "committed"}
    /\ \A id \in ReceiptIds :
          receipt[id].status = "refunded" => ~round[id[1]].settled /\ now >= refund_at(id[1])

\* The refund window opens after betting has closed.
LEMMA WindowsOrdered ==
    ASSUME NEW r \in RoundIds
    PROVE  /\ betting_ends_at(r) \in Int /\ refund_at(r) \in Int
           /\ betting_ends_at(r) <= refund_at(r)
<1>1. ROUND_DURATION \in Int /\ ROUND_DURATION >= BETTING_DURATION
    BY RoundsAssumption DEF ROUND_DURATION
<1>2. opened_at(r) \in Int
    BY <1>1, RoundsAssumption DEF opened_at
<1>3. QED
    BY <1>1, <1>2, RoundsAssumption DEF betting_ends_at, refund_at

\* What a settlement leaves alone.
LEMMA SettleFrame ==
    ASSUME TypeOK, NEW r \in RoundIds, Drawn(r)
    PROVE  /\ ~round[r].settled
           /\ round'[r].status = round[r].status
           /\ round'[r].randomness = round[r].randomness
           /\ round'[r].tile_lamports = round[r].tile_lamports
           /\ \A s \in RoundIds \ {r} : round'[s] = round[s]
           /\ UNCHANGED <<now, receipt, oracle>>
<1>1. PICK tile \in Tiles, solo \in BOOLEAN, hit \in BOOLEAN :
          \E sample \in SoloSamples(r, tile) : settle_round_core(r, tile, solo, hit, sample)
    BY DEF Drawn
<1>2. PICK sample \in SoloSamples(r, tile) : settle_round_core(r, tile, solo, hit, sample)
    BY <1>1
<1> DEFINE payout == IF motherlode_pays_round(r, hit) THEN Pot(r, tile) ELSE 0
           fees   == mining_fee_allocation(round[r].gross)
           next   == [round[r] EXCEPT
                !.settled = TRUE, !.winning_tile = tile, !.solo_mode = solo,
                !.motherlode_hit = hit, !.solo_sample = sample,
                !.prize = Prize(r) - Rollover(r, tile),
                !.buyback_completed = fees.buyback = 0 \/ ~liquidity_gate_required(program),
                !.base_emission = Emissions(r, tile).base,
                !.motherlode_emission =
                    IF motherlode_pays_round(r, hit) THEN Bonus(r, tile) ELSE 0,
                !.motherlode_payout = payout]
<1>3. round' = [round EXCEPT ![r] = next]
    BY <1>2 DEF settle_round_core
<1>4. round \in [RoundIds -> RoundType] /\ round[r] \in RoundType
    BY DEF TypeOK
<1>5. /\ next.status = round[r].status /\ next.randomness = round[r].randomness
      /\ next.tile_lamports = round[r].tile_lamports
    BY <1>4 DEF RoundType
<1> HIDE DEF next
<1>6. ~round[r].settled /\ UNCHANGED <<now, receipt, oracle>>
    BY <1>2 DEF settle_round_core
<1>7. QED
    BY <1>3, <1>4, <1>5, <1>6

\* In the production build only the two windowed settlements exist.
LEMMA ProductionSettles ==
    ASSUME Production, TypeOK, NEW r \in RoundIds,
           settle_round(r) \/ settle_round_verified(r) \/ settle_round_server(r)
    PROVE  Live(r) /\ InSettlementWindow(r) /\ Drawn(r)
BY DEF settle_round, settle_round_verified, settle_round_server, AllowedPrograms, TypeOK

\* A step on a receipt needs its round and leaves the other rounds alone.
LEMMA ReceiptFrame ==
    ASSUME TypeOK, MinerSteps
    PROVE  \E id \in ReceiptIds :
               /\ Live(id[1])
               /\ \A t \in RoundIds \ {id[1]} : round'[t] = round[t]
<1>1. PICK id \in ReceiptIds :
          \/ \E w \in Wagers : deploy(id, w)
          \/ PayReceipt(id)
          \/ RefundReceipt(id)
          \/ close_receipt(id)
    BY DEF MinerSteps, claim_receipt, settle_receipt, refund_receipt,
           refund_receipt_permissionless
<1> DEFINE Frame == Live(id[1]) /\ \A t \in RoundIds \ {id[1]} : round'[t] = round[t]
<1>2. round \in [RoundIds -> RoundType] /\ id[1] \in RoundIds
    BY DEF TypeOK, ReceiptIds
<1>3. ASSUME NEW w \in Wagers, deploy(id, w) PROVE Frame
    BY <1>2, <1>3 DEF deploy, RecordDeployment
<1>4. ASSUME PayReceipt(id) PROVE Frame
  <2> DEFINE next == [round[id[1]] EXCEPT
                 !.claimed = round[id[1]].claimed
                               + receipt_rewards(round[id[1]], receipt[id]).sol,
                 !.processed_receipts = round[id[1]].processed_receipts + 1]
  <2>1. Live(id[1]) /\ round' = [round EXCEPT ![id[1]] = next]
      BY <1>4 DEF PayReceipt
  <2> HIDE DEF next
  <2>2. QED
      BY <1>2, <2>1
<1>5. ASSUME RefundReceipt(id) PROVE Frame
    BY <1>2, <1>5 DEF RefundReceipt
<1>6. ASSUME close_receipt(id) PROVE Frame
    BY <1>2, <1>6 DEF close_receipt
<1> HIDE DEF Frame
<1>7. Frame
    BY <1>1, <1>3, <1>4, <1>5, <1>6
<1>8. QED
    BY <1>7 DEF Frame

\* The order holds before the first round is opened.
LEMMA InitOrdered == Init => Ordered
<1> SUFFICES ASSUME Init PROVE Ordered
    OBVIOUS
<1>1. /\ \A r \in RoundIds : ~round[r].settled /\ round[r].status = "absent"
      /\ \A r \in RoundIds : oracle[r] = "uncommitted"
      /\ \A id \in ReceiptIds : receipt[id].status = "absent"
    BY DEF Init, EmptyRound, NoReceipt
<1>2. QED
    BY <1>1 DEF Ordered

\* Steps that touch the randomness or the life cycle of one round.
LEMMA ProviderOrdered ==
    ASSUME Production, TypeOK, Unstarted, Ordered, Provider
    PROVE  Ordered'
<1>1. PICK r \in RoundIds :
          \/ open_round(r)
          \/ bind_round_randomness(r)
          \/ bind_round_server_commitment(r)
          \/ record_round_randomness_commit(r)
          \/ lock_round_server_entropy(r)
          \/ settle_round(r) \/ settle_round_verified(r) \/ settle_round_server(r)
          \/ mark_buyback_completed(r)
          \/ archive_round(r)
          \/ close_round(r)
    BY DEF Provider
<1>2. /\ now \in Int /\ round \in [RoundIds -> RoundType] /\ round[r] \in RoundType
      /\ oracle \in [RoundIds -> {"uncommitted", "committed"}]
      /\ betting_ends_at(r) \in Int /\ refund_at(r) \in Int
      /\ betting_ends_at(r) <= refund_at(r)
    BY WindowsOrdered DEF TypeOK
<1>3. \A s \in {"live", "closed"} : EmptyRound(s).status = s /\ ~EmptyRound(s).settled
    BY DEF EmptyRound
<1>4. /\ \A s \in RoundIds \ {r} : round'[s] = round[s] /\ oracle'[s] = oracle[s]
      /\ receipt' = receipt /\ now' = now
      /\ round'[r].settled \/ round'[r].status = "closed" => now >= betting_ends_at(r)
      /\ oracle'[r] = "committed" =>
            round'[r].status = "closed" \/ round'[r].randomness \in {"bound", "committed"}
      /\ round'[r].settled => round[r].settled \/ now < refund_at(r)
  <2>1. CASE open_round(r)
    <3>1. round' = [round EXCEPT ![r] = EmptyRound("live")] /\ UNCHANGED <<oracle, receipt, now>>
        BY <2>1 DEF open_round
    <3>2. now < betting_ends_at(r) /\ round[r].status \in {"absent", "closed"}
        BY <1>2, <2>1 DEF open_round, assert_round_can_open_at, Live, RoundType
    <3>3. round[r].status = "absent" /\ round[r].randomness = "unbound"
      <4>1. round[r].status = "absent"
          BY <1>2, <3>2 DEF Ordered
      <4>2. round[r] = EmptyRound("absent")
          BY <4>1 DEF Unstarted, Live
      <4>3. QED
          BY <4>1, <4>2 DEF EmptyRound
    <3>4. oracle[r] # "committed"
        BY <3>3 DEF Ordered
    <3>5. QED
        BY <1>2, <1>3, <3>1, <3>4
  <2>2. CASE bind_round_randomness(r)
      BY <1>2, <2>2 DEF bind_round_randomness, Ordered, RoundType
  <2>3. CASE bind_round_server_commitment(r)
    <3>1. round[r].randomness = "unbound" /\ round[r].status = "live"
        BY <2>3 DEF bind_round_server_commitment, Live
    <3>2. oracle[r] # "committed"
        BY <3>1 DEF Ordered
    <3>3. QED
        BY <1>2, <2>3, <3>2 DEF bind_round_server_commitment, Ordered, RoundType
  <2>4. CASE record_round_randomness_commit(r)
      BY <1>2, <2>4 DEF record_round_randomness_commit, Ordered, RoundType
  <2>5. CASE lock_round_server_entropy(r)
    <3>1. round[r].randomness = "pending" /\ round[r].status = "live"
        BY <2>5 DEF lock_round_server_entropy, Live
    <3>2. oracle[r] # "committed"
        BY <3>1 DEF Ordered
    <3>3. QED
        BY <1>2, <2>5, <3>2 DEF lock_round_server_entropy, Ordered, RoundType
  <2>6. CASE settle_round(r) \/ settle_round_verified(r) \/ settle_round_server(r)
    <3>1. Live(r) /\ InSettlementWindow(r) /\ Drawn(r)
        BY <2>6, ProductionSettles
    <3>2. now >= betting_ends_at(r) /\ now < refund_at(r)
        BY <3>1 DEF InSettlementWindow, settles_at
    <3>3. QED
        BY <3>1, <3>2, SettleFrame DEF Ordered
  <2>7. CASE mark_buyback_completed(r)
      BY <1>2, <2>7 DEF mark_buyback_completed, Ordered, RoundType
  <2>8. CASE archive_round(r)
      BY <1>2, <2>8 DEF archive_round, Ordered, RoundType
  <2>9. CASE close_round(r)
    <3>1. now >= betting_ends_at(r)
        BY <1>2, <2>9 DEF close_round, Ordered
    <3>2. round' = [round EXCEPT ![r] = EmptyRound("closed")] /\ UNCHANGED <<oracle, receipt, now>>
        BY <2>9 DEF close_round
    <3>3. QED
        BY <1>2, <1>3, <3>1, <3>2
  <2>10. QED
      BY <1>1, <2>1, <2>2, <2>3, <2>4, <2>5, <2>6, <2>7, <2>8, <2>9
<1>5. ASSUME NEW s \in RoundIds
      PROVE  /\ round'[s].settled \/ round'[s].status = "closed" => now' >= betting_ends_at(s)
             /\ oracle'[s] = "committed" =>
                   round'[s].status = "closed" \/ round'[s].randomness \in {"bound", "committed"}
    BY <1>4 DEF Ordered
<1>6. ASSUME NEW id \in ReceiptIds, receipt'[id].status = "refunded"
      PROVE  ~round'[id[1]].settled /\ now' >= refund_at(id[1])
  <2>1. id[1] \in RoundIds
      BY DEF ReceiptIds
  <2>2. ~round[id[1]].settled /\ now >= refund_at(id[1])
      BY <1>4, <1>6 DEF Ordered
  <2>3. CASE id[1] = r
      BY <1>2, <1>4, <2>2, <2>3
  <2>4. CASE id[1] # r
      BY <1>4, <2>1, <2>2, <2>4
  <2>5. QED
      BY <2>3, <2>4
<1>7. QED
    BY <1>5, <1>6 DEF Ordered, betting_ends_at, refund_at, opened_at

\* Every instruction of the production build keeps the order.
LEMMA NextOrdered ==
    ASSUME Production
    PROVE  TypeOK /\ Unstarted /\ Ordered /\ [Next]_vars => Ordered'
<1> SUFFICES ASSUME TypeOK, Unstarted, Ordered, [Next]_vars PROVE Ordered'
    OBVIOUS
<1> USE DEF betting_ends_at, refund_at, opened_at
<1>1. ASSUME UNCHANGED <<now, round, oracle, receipt>> PROVE Ordered'
    BY <1>1 DEF Ordered
<1>2. CASE UNCHANGED vars
    BY <1>1, <1>2 DEF vars
<1>3. CASE Environment
  <2>1. CASE Tick
    <3>1. now' >= now /\ now \in Int /\ now' \in Int
        BY <2>1 DEF Tick, TypeOK
    <3>2. UNCHANGED <<round, oracle, receipt>>
        BY <2>1 DEF Tick
    <3>3. \A r \in RoundIds : betting_ends_at(r) \in Int /\ refund_at(r) \in Int
        BY WindowsOrdered
    <3>4. \A id \in ReceiptIds : id[1] \in RoundIds
        BY DEF ReceiptIds
    <3> HIDE DEF betting_ends_at, refund_at, opened_at
    <3>5. ASSUME NEW r \in RoundIds
          PROVE  round'[r].settled \/ round'[r].status = "closed" => now' >= betting_ends_at(r)
        BY <3>1, <3>2, <3>3 DEF Ordered
    <3>6. ASSUME NEW id \in ReceiptIds, receipt'[id].status = "refunded"
          PROVE  ~round'[id[1]].settled /\ now' >= refund_at(id[1])
        BY <3>1, <3>2, <3>3, <3>4, <3>6 DEF Ordered
    <3>7. QED
        BY <3>2, <3>5, <3>6 DEF Ordered, betting_ends_at, refund_at, opened_at
  <2>2. CASE pool_reserves_change
      BY <1>1, <2>2 DEF pool_reserves_change
  <2>3. ASSUME NEW r \in RoundIds, switchboard_commit(r) PROVE Ordered'
      BY <2>3 DEF switchboard_commit, Ordered, TypeOK
  <2>4. QED
      BY <1>3, <2>1, <2>2, <2>3 DEF Environment
<1>4. CASE Administration
    BY <1>1, <1>4 DEF Administration, set_paused, set_randomness_program
<1>5. CASE Provider
    BY <1>5, ProviderOrdered
<1>6. CASE MinerSteps
  <2> HIDE DEF betting_ends_at, refund_at, opened_at
  <2>1. PICK id \in ReceiptIds :
            \/ \E w \in Wagers : deploy(id, w)
            \/ PayReceipt(id)
            \/ RefundReceipt(id)
            \/ close_receipt(id)
      BY <1>6 DEF MinerSteps, claim_receipt, settle_receipt, refund_receipt,
                  refund_receipt_permissionless
  <2> DEFINE r == id[1]
  <2>2. /\ r \in RoundIds /\ round \in [RoundIds -> RoundType] /\ round[r] \in RoundType
        /\ receipt \in [ReceiptIds -> ReceiptType] /\ receipt[id] \in ReceiptType
      BY DEF TypeOK, ReceiptIds
  <2>3. /\ UNCHANGED <<now, oracle>>
        /\ round'[r].status = round[r].status /\ round'[r].settled = round[r].settled
        /\ round'[r].randomness = round[r].randomness
        /\ \A s \in RoundIds \ {r} : round'[s] = round[s]
        /\ \A i \in ReceiptIds \ {id} : receipt'[i] = receipt[i]
        /\ receipt'[id].status = "refunded" => ~round[r].settled /\ now >= refund_at(r)
    <3>1. ASSUME NEW w \in Wagers, deploy(id, w) PROVE <2>3!:
        BY <2>2, <3>1 DEF deploy, RecordDeployment, RoundType
    <3>2. CASE PayReceipt(id)
        BY <2>2, <3>2 DEF PayReceipt, RoundType, ReceiptType
    <3>3. CASE RefundReceipt(id)
        BY <2>2, <3>3 DEF RefundReceipt, RoundType, ReceiptType
    <3>4. CASE close_receipt(id)
        BY <2>2, <3>4 DEF close_receipt, RoundType, NoReceipt
    <3>5. QED
        BY <2>1, <3>1, <3>2, <3>3, <3>4
  <2>4. ASSUME NEW s \in RoundIds
        PROVE  /\ round'[s].settled \/ round'[s].status = "closed" => now' >= betting_ends_at(s)
               /\ oracle'[s] = "committed" =>
                     round'[s].status = "closed" \/ round'[s].randomness \in {"bound", "committed"}
      BY <2>2, <2>3 DEF Ordered
  <2>5. ASSUME NEW i \in ReceiptIds, receipt'[i].status = "refunded"
        PROVE  ~round'[i[1]].settled /\ now' >= refund_at(i[1])
    <3>1. i[1] \in RoundIds
        BY DEF ReceiptIds
    <3>2. ~round[i[1]].settled /\ now >= refund_at(i[1])
        BY <2>3, <2>5 DEF Ordered
    <3>3. QED
        BY <2>2, <2>3, <3>1, <3>2
  <2>6. QED
      BY <2>4, <2>5 DEF Ordered, betting_ends_at, refund_at, opened_at
<1>7. QED
    BY <1>2, <1>3, <1>4, <1>5, <1>6 DEF Next

\* The production build keeps the order in every reachable state.
LEMMA OrderKept ==
    ASSUME Production
    PROVE  Spec => []Ordered
<1>1. Books => Unstarted
    BY DEF Books
<1>2. QED
    BY <1>1, InitOrdered, NextOrdered, TypeCorrect, BooksBalance, PTL DEF Spec

\* In the production build a round that refunded any receipt never settles.
THEOREM RefundedNeverSettles ==
    ASSUME Production
    PROVE  Spec => []SettledXorRefunded
<1>1. Ordered => SettledXorRefunded
    BY DEF Ordered, SettledXorRefunded
<1>2. QED
    BY <1>1, OrderKept, PTL

\* In the production build the address of a closed round is never used again.
THEOREM ClosedStaysClosed ==
    ASSUME Production
    PROVE  Spec => NeverReopened
<1>1. TypeOK /\ Ordered /\ [Next]_vars =>
          [\A r \in RoundIds : round[r].status = "closed" => round'[r].status = "closed"]_vars
  <2> SUFFICES ASSUME TypeOK, Ordered, Next, NEW r \in RoundIds, round[r].status = "closed"
               PROVE  round'[r].status = "closed"
      BY DEF vars
  <2>1. /\ now \in Int /\ betting_ends_at(r) \in Int /\ now >= betting_ends_at(r)
        /\ round \in [RoundIds -> RoundType]
      BY WindowsOrdered DEF Ordered, TypeOK
  <2>2. ~Live(r)
      BY DEF Live
  <2>3. CASE Environment \/ Administration
      BY <2>3 DEF Environment, Administration, Tick, pool_reserves_change,
                  switchboard_commit, set_paused, set_randomness_program
  <2>4. CASE Provider
    <3>1. PICK s \in RoundIds :
              \/ open_round(s)
              \/ Live(s) /\ \A t \in RoundIds \ {s} : round'[t] = round[t]
        BY <2>1, <2>4, SettleFrame
           DEF Provider, settle_round, settle_round_verified, settle_round_server,
               bind_round_randomness, bind_round_server_commitment,
               record_round_randomness_commit, lock_round_server_entropy,
               mark_buyback_completed, archive_round, close_round
    <3>2. CASE open_round(s)
      <4>1. s # r
          BY <2>1, <3>2 DEF open_round, assert_round_can_open_at
      <4>2. QED
          BY <2>1, <3>2, <4>1 DEF open_round
    <3>3. QED
        BY <2>2, <3>1, <3>2
  <2>5. CASE MinerSteps
    <3>1. PICK id \in ReceiptIds :
              Live(id[1]) /\ \A t \in RoundIds \ {id[1]} : round'[t] = round[t]
        BY <2>5, ReceiptFrame
    <3>2. QED
        BY <2>2, <3>1
  <2>6. QED
      BY <2>3, <2>4, <2>5 DEF Next
<1>2. QED
    BY <1>1, OrderKept, TypeCorrect, PTL DEF Spec, NeverReopened

\* In the production build no deployment enters a round whose oracle account is
\* committed, whose server entropy is locked, or which is settled.
THEOREM NoBetAfterCommit ==
    ASSUME Production
    PROVE  Spec => FrozenAfterCommitProperty
<1>1. TypeOK /\ Unstarted /\ Ordered /\ [Next]_vars => [FrozenAfterCommit]_vars
  <2> SUFFICES ASSUME TypeOK, Unstarted, Ordered, Next, NEW r \in RoundIds, NEW t \in Tiles,
                      \/ oracle[r] = "committed"
                      \/ round[r].randomness = "locked"
                      \/ round[r].settled
               PROVE  round'[r].tile_lamports[t] <= round[r].tile_lamports[t]
      BY DEF vars, FrozenAfterCommit
  <2>1. /\ round \in [RoundIds -> RoundType] /\ round[r] \in RoundType
        /\ round[r].tile_lamports[t] \in Nat
      BY DEF TypeOK, RoundType, U64
  <2>2. ASSUME round'[r].tile_lamports = round[r].tile_lamports
        PROVE  round'[r].tile_lamports[t] <= round[r].tile_lamports[t]
      BY <2>1, <2>2
  <2>3. CASE Environment \/ Administration
      BY <2>2, <2>3 DEF Environment, Administration, Tick, pool_reserves_change,
                  switchboard_commit, set_paused, set_randomness_program
  <2>4. CASE Provider
    <3>1. PICK s \in RoundIds :
              \/ open_round(s) \/ close_round(s)
              \/ /\ round'[s].tile_lamports = round[s].tile_lamports
                 /\ \A q \in RoundIds \ {s} : round'[q] = round[q]
      <4>1. PICK s \in RoundIds :
              \/ open_round(s)
              \/ bind_round_randomness(s)
              \/ bind_round_server_commitment(s)
              \/ record_round_randomness_commit(s)
              \/ lock_round_server_entropy(s)
              \/ Drawn(s)
              \/ mark_buyback_completed(s)
              \/ archive_round(s)
              \/ close_round(s)
          BY <2>4 DEF Provider, settle_round, settle_round_verified, settle_round_server
      <4> DEFINE Same == /\ round'[s].tile_lamports = round[s].tile_lamports
                         /\ \A q \in RoundIds \ {s} : round'[q] = round[q]
      <4>2. round[s] \in RoundType
          BY <2>1
      <4>3. CASE bind_round_randomness(s)
          BY <2>1, <4>2, <4>3 DEF bind_round_randomness, RoundType
      <4>4. CASE bind_round_server_commitment(s)
          BY <2>1, <4>2, <4>4 DEF bind_round_server_commitment, RoundType
      <4>5. CASE record_round_randomness_commit(s)
          BY <2>1, <4>2, <4>5 DEF record_round_randomness_commit, RoundType
      <4>6. CASE lock_round_server_entropy(s)
          BY <2>1, <4>2, <4>6 DEF lock_round_server_entropy, RoundType
      <4>7. CASE mark_buyback_completed(s)
          BY <2>1, <4>2, <4>7 DEF mark_buyback_completed, RoundType
      <4>8. CASE archive_round(s)
          BY <2>1, <4>2, <4>8 DEF archive_round, RoundType
      <4>9. CASE Drawn(s)
          BY <4>9, SettleFrame
      <4>10. QED
          BY <4>1, <4>3, <4>4, <4>5, <4>6, <4>7, <4>8, <4>9
    <3>2. CASE open_round(s) \/ close_round(s)
      <4>1. PICK st \in {"live", "closed"} : round' = [round EXCEPT ![s] = EmptyRound(st)]
          BY <3>2 DEF open_round, close_round
      <4>2. EmptyRound(st).tile_lamports[t] = 0
          BY DEF EmptyRound, NoTiles
      <4>3. QED
          BY <2>1, <2>2, <4>1, <4>2
    <3>3. QED
        BY <2>2, <3>1, <3>2
  <2>5. CASE MinerSteps
    <3>1. PICK id \in ReceiptIds :
              \/ \E w \in Wagers : deploy(id, w)
              \/ PayReceipt(id)
              \/ RefundReceipt(id)
              \/ close_receipt(id)
        BY <2>5 DEF MinerSteps, claim_receipt, settle_receipt, refund_receipt,
                    refund_receipt_permissionless
    <3>2. id[1] \in RoundIds /\ round[id[1]] \in RoundType
        BY DEF ReceiptIds, TypeOK
    <3>3. ASSUME NEW w \in Wagers, deploy(id, w)
          PROVE  round'[r].tile_lamports = round[r].tile_lamports
      <4>1. /\ Live(id[1]) /\ ~round[id[1]].settled
            /\ assert_bound_randomness_accepting_bets(id[1])
          BY <3>3 DEF deploy, RecordDeployment, assert_round_accepting_deployments_at
      <4>2. program # "default"
          BY DEF TypeOK, AllowedPrograms
      <4>3. id[1] # r
          BY <4>1, <4>2 DEF Ordered, Live, assert_bound_randomness_accepting_bets
      <4>4. QED
          BY <2>1, <3>2, <3>3, <4>3 DEF deploy, RecordDeployment
    <3>4. CASE PayReceipt(id)
        BY <2>1, <2>2, <3>2, <3>4 DEF PayReceipt, RoundType
    <3>5. CASE RefundReceipt(id)
      <4> DEFINE s     == id[1]
                 tiles == [q \in Tiles |-> round[s].tile_lamports[q] - receipt[id].amounts[q]]
                 next  == [round[s] EXCEPT !.tile_lamports = tiles,
                             !.gross = round[s].gross - receipt[id].total,
                             !.prize = round[s].prize - receipt[id].total,
                             !.processed_receipts = round[s].processed_receipts + 1]
      <4>1. round' = [round EXCEPT ![s] = next]
          BY <3>5 DEF RefundReceipt
      <4>2. next.tile_lamports = tiles
          BY <3>2 DEF RoundType
      <4>3. receipt[id].amounts[t] \in Nat
          BY DEF TypeOK, ReceiptType, U64
      <4> HIDE DEF next
      <4>4. CASE s = r
          BY <2>1, <4>1, <4>2, <4>3, <4>4
      <4>5. CASE s # r
          BY <2>1, <2>2, <4>1, <4>5
      <4>6. QED
          BY <4>4, <4>5
    <3>6. CASE close_receipt(id)
        BY <2>1, <2>2, <3>2, <3>6 DEF close_receipt, RoundType
    <3>7. QED
        BY <2>2, <3>1, <3>3, <3>4, <3>5, <3>6
  <2>6. QED
      BY <2>3, <2>4, <2>5 DEF Next
<1>2. Books => Unstarted
    BY DEF Books
<1>3. QED
    BY <1>1, <1>2, OrderKept, TypeCorrect, BooksBalance, PTL DEF Spec, FrozenAfterCommitProperty

-----------------------------------------------------------------------------
(***************************************************************************)
(* The production build is the escrow of the wagers.                       *)
(*                                                                         *)
(* A receipt takes the next tickets of every tile and of the whole round,  *)
(* so the tickets of a round telescope: whatever function of the ticket    *)
(* number grows over the receipts' intervals grows by as much over all of  *)
(* them.  A payment is such a growth, of a pool rounded down at each       *)
(* ticket; the solo prize is one, of a single jump.  What the receipts of  *)
(* a settled round are due adds up to its pools, to the last unit, and     *)
(* paying them in any order leaves nothing.                                *)
(***************************************************************************)

Of(r) == {id \in ReceiptIds : id[1] = r}

\* The receipts of a round by what has become of them.
Opened(r, rc)    == {id \in Of(r) : rc[id].status # "absent"}
Processed(r, rc) == {id \in Of(r) : rc[id].status \in {"claimed", "refunded", "closed"}}
Closed(r, rc)    == {id \in Of(r) : rc[id].status = "closed"}

\* What an open receipt deployed, and what it is due of its round.
Stake(rc)   == [id \in ReceiptIds |-> IF rc[id].status = "open" THEN rc[id].total ELSE 0]
Rewards(rd, rc) == receipt_rewards(rd, rc)
Sol(rd, rc)  == IF rc.status = "open" THEN Rewards(rd, rc).sol ELSE 0
Myne(rd, rc) == IF rc.status = "open" /\ rd.settled
                THEN Rewards(rd, rc).myne + Rewards(rd, rc).motherlode ELSE 0

TileStarts(rc, t) == [id \in ReceiptIds |-> rc[id].cumulative_starts[t]]
TileAmounts(rc, t) == [id \in ReceiptIds |-> rc[id].amounts[t]]
AllStarts(rc)  == [id \in ReceiptIds |-> checked_sum(rc[id].cumulative_starts)]
AllAmounts(rc) == [id \in ReceiptIds |-> rc[id].total]

\* Before the first refund or settlement the tickets of a round telescope.
Sliced(r, rd, rc) ==
    /\ rd.gross = checked_sum(rd.tile_lamports)
    /\ \A t \in Tiles : Telescopes(Of(r), TileStarts(rc, t), TileAmounts(rc, t), rd.tile_lamports[t])
    /\ Telescopes(Of(r), AllStarts(rc), AllAmounts(rc), rd.gross)

\* The life of a round's receipts follows that of the round.
Lived(r, rd, rc, time) ==
    /\ \A id \in Of(r) :
          /\ rc[id].status = "absent" => rc[id] = NoReceipt
          /\ rd.status = "absent" => rc[id].status = "absent"
          /\ rd.status = "closed" => rc[id].status \in {"absent", "closed"}
          /\ rc[id].status = "claimed" => rd.settled
          /\ rc[id].status \in {"refunded", "closed"} /\ rd.status = "live" /\ ~rd.settled =>
                time >= refund_at(r)
          /\ rd.archived => rc[id].status # "open"
    /\ rd.archived /\ ~rd.settled => time >= refund_at(r)

Counted(r, rd, rc) ==
    rd.status = "live" =>
        /\ rd.total_receipts = Cardinality(Opened(r, rc))
        /\ rd.processed_receipts = Cardinality(Processed(r, rc))
        /\ rd.closed_receipts = Cardinality(Closed(r, rc))

Untouched(r, rc) == \A id \in Of(r) : rc[id].status \in {"absent", "open"}

Kept(r, rd, rc) ==
    /\ ~rd.settled => rd.gross = SumOf(Stake(rc), Of(r))
    /\ ~rd.settled /\ rd.status = "live" /\ Untouched(r, rc) => Sliced(r, rd, rc)
    /\ rd.settled =>
          /\ \A id \in Of(r) : rc[id].status = "open" =>
                Rewards(rd, rc[id]) \in [sol : Nat, myne : Nat, motherlode : Nat]
          /\ rd.claimed + SumOf([id \in ReceiptIds |-> Sol(rd, rc[id])], Of(r))
               = rd.prize + rd.motherlode_payout

PerRound(r, rd, rc, time) ==
    Lived(r, rd, rc, time) /\ Counted(r, rd, rc) /\ Kept(r, rd, rc)

EscrowInv == \A r \in RoundIds : PerRound(r, round[r], receipt, now)

-----------------------------------------------------------------------------
(* Receipts and their rounds.                                              *)

LEMMA FiniteReceipts ==
    /\ IsFiniteSet(ReceiptIds)
    /\ \A r \in RoundIds : IsFiniteSet(Of(r)) /\ Of(r) \in SUBSET ReceiptIds
    /\ \A id \in ReceiptIds : id[1] \in RoundIds /\ id[2] \in Miners /\ id \in Of(id[1])
<1> DEFINE Pairs == (RoundIds \X Miners) \X Nonces
           flat == [p \in Pairs |-> <<p[1][1], p[1][2], p[2]>>]
<1>1. IsFiniteSet(Pairs)
  <2>1. IsFiniteSet(RoundIds \X Miners)
    BY RoundsAssumption, FS_Product
  <2> QED BY <2>1, RoundsAssumption, FS_Product
<1>2. flat \in Surjection(Pairs, ReceiptIds)
  <2>1. \A p \in Pairs : flat[p] \in ReceiptIds
    BY DEF ReceiptIds
  <2>2. ASSUME NEW id \in ReceiptIds PROVE \E p \in Pairs : flat[p] = id
    <3>1. PICK r \in RoundIds, m \in Miners, n \in Nonces : id = <<r, m, n>>
      BY DEF ReceiptIds
    <3>2. <<<<r, m>>, n>> \in Pairs
      OBVIOUS
    <3> QED BY <3>1, <3>2
  <2>3. flat \in [Pairs -> ReceiptIds]
    BY <2>1
  <2> HIDE DEF flat, Pairs
  <2> QED BY <2>2, <2>3 DEF Surjection
<1>3. IsFiniteSet(ReceiptIds)
  <2> HIDE DEF flat, Pairs
  <2> QED BY <1>1, <1>2, FS_Surjection
<1>4. \A r \in RoundIds : Of(r) \in SUBSET ReceiptIds
  BY DEF Of
<1>5. \A r \in RoundIds : IsFiniteSet(Of(r))
  BY <1>3, <1>4, FS_Subset
<1>6. \A id \in ReceiptIds : id[1] \in RoundIds /\ id[2] \in Miners /\ id \in Of(id[1])
  BY DEF ReceiptIds, Of
<1> QED BY <1>3, <1>4, <1>5, <1>6

\* One tile after the other, the amounts of a board add up to a natural.
LEMMA BoardSum ==
    ASSUME NEW a \in [Tiles -> Nat]
    PROVE  checked_sum(a) = SumOf(a, Tiles) /\ checked_sum(a) \in Nat
<1>1. checked_sum(a) = SumOf(a, Tiles)
  BY SumFunctionIsSumOf DEF checked_sum
<1> QED BY <1>1, SumType, EconomicsAssumption

LEMMA BoardsAdd ==
    ASSUME NEW a \in [Tiles -> Nat], NEW b \in [Tiles -> Nat]
    PROVE  checked_sum([t \in Tiles |-> a[t] + b[t]]) = checked_sum(a) + checked_sum(b)
<1> DEFINE c == [t \in Tiles |-> a[t] + b[t]]
<1>1. c \in [Tiles -> Nat] /\ \A t \in Tiles : a[t] \in Nat /\ b[t] \in Nat /\ c[t] = a[t] + b[t]
  OBVIOUS
<1> HIDE DEF c
<1>2. SumOf(c, Tiles) = SumOf(a, Tiles) + SumOf(b, Tiles)
  BY <1>1, SumAdds, EconomicsAssumption
<1>3. checked_sum(c) = checked_sum(a) + checked_sum(b)
  BY <1>1, <1>2, BoardSum
<1> QED BY <1>3 DEF c

LEMMA EmptyBoard == NoTiles \in [Tiles -> Nat] /\ checked_sum(NoTiles) = 0
<1>1. NoTiles \in [Tiles -> Nat] /\ \A t \in Tiles : NoTiles[t] = 0
  BY DEF NoTiles
<1> DEFINE none == {}
<1>2. \A t \in Tiles \ none : NoTiles[t] = 0
  BY <1>1
<1>3. SumOf(NoTiles, Tiles) = SumOf(NoTiles, none)
  BY <1>2, SumZeros, EconomicsAssumption
<1>4. SumOf(NoTiles, none) = 0
  BY SumType, FS_EmptySet
<1> QED BY <1>1, <1>3, <1>4, BoardSum

\* What the types say of one receipt.
LEMMA ReceiptAmounts ==
    ASSUME NEW rc \in [ReceiptIds -> ReceiptType], NEW id \in ReceiptIds
    PROVE  /\ rc[id].total \in Nat
           /\ rc[id].amounts \in [Tiles -> Nat] /\ rc[id].cumulative_starts \in [Tiles -> Nat]
           /\ checked_sum(rc[id].cumulative_starts) \in Nat
<1>1. U64 \subseteq Nat
  BY EconomicsAssumption DEF U64
<1>2. /\ rc[id].total \in Nat
      /\ rc[id].amounts \in [Tiles -> Nat] /\ rc[id].cumulative_starts \in [Tiles -> Nat]
  BY <1>1 DEF ReceiptType
<1> QED BY <1>2, BoardSum

-----------------------------------------------------------------------------
(* What leaves the invariant of a round alone.                             *)

\* The fields of a round that rewards are computed from.
SameTerms(a, b) ==
    /\ a.winning_tile = b.winning_tile /\ a.tile_lamports = b.tile_lamports
    /\ a.gross = b.gross /\ a.prize = b.prize /\ a.motherlode_payout = b.motherlode_payout
    /\ a.solo_mode = b.solo_mode /\ a.solo_sample = b.solo_sample
    /\ a.base_emission = b.base_emission /\ a.motherlode_emission = b.motherlode_emission

SameRound(a, b) ==
    /\ SameTerms(a, b) /\ a.status = b.status /\ a.settled = b.settled /\ a.claimed = b.claimed
    /\ a.total_receipts = b.total_receipts /\ a.processed_receipts = b.processed_receipts
    /\ a.closed_receipts = b.closed_receipts

LEMMA RewardsSame ==
    ASSUME NEW a, NEW b, SameTerms(a, b), NEW rc
    PROVE  Rewards(a, rc) = Rewards(b, rc)
BY DEF SameTerms, Rewards, receipt_rewards

LEMMA SolType ==
    ASSUME NEW r \in RoundIds, NEW rd, NEW rc, rd.settled, Kept(r, rd, rc), NEW id \in Of(r)
    PROVE  Sol(rd, rc[id]) \in Nat
BY DEF Kept, Sol

\* A step in another round.
LEMMA OtherRound ==
    ASSUME NEW r \in RoundIds, NEW rd, NEW rc \in [ReceiptIds -> ReceiptType], NEW rc2,
           \A id \in Of(r) : rc2[id] = rc[id],
           NEW time, NEW time2, time >= refund_at(r) => time2 >= refund_at(r),
           PerRound(r, rd, rc, time)
    PROVE  PerRound(r, rd, rc2, time2)
<1>1. IsFiniteSet(Of(r)) /\ Of(r) \in SUBSET ReceiptIds
  BY FiniteReceipts
<1>2. Lived(r, rd, rc2, time2)
  BY DEF PerRound, Lived
<1>3. Counted(r, rd, rc2)
  <2>1. /\ Opened(r, rc2) = Opened(r, rc) /\ Processed(r, rc2) = Processed(r, rc)
        /\ Closed(r, rc2) = Closed(r, rc)
    BY DEF Opened, Processed, Closed
  <2> QED BY <2>1 DEF PerRound, Counted
<1>4. SumOf(Stake(rc2), Of(r)) = SumOf(Stake(rc), Of(r))
  <2>1. \A id \in Of(r) : Stake(rc)[id] \in Nat /\ Stake(rc2)[id] = Stake(rc)[id]
    BY <1>1, ReceiptAmounts DEF Stake
  <2> QED BY <1>1, <2>1, SumCongruent
<1>5. Sliced(r, rd, rc) => Sliced(r, rd, rc2)
  <2>1. ASSUME NEW st, NEW am, NEW st2, NEW am2, NEW top,
               \A id \in Of(r) : st2[id] = st[id] /\ am2[id] = am[id],
               Telescopes(Of(r), st, am, top)
        PROVE  Telescopes(Of(r), st2, am2, top)
    <3> SUFFICES ASSUME NEW F \in Growing
                 PROVE  F[0] + SumOf([x \in Of(r) |-> Slice(F, st2, am2, x)], Of(r)) = F[top]
      BY DEF Telescopes
    <3>1. [x \in Of(r) |-> Slice(F, st2, am2, x)] = [x \in Of(r) |-> Slice(F, st, am, x)]
      BY <2>1 DEF Slice
    <3> QED BY <2>1, <3>1 DEF Telescopes
  <2>2. ASSUME Sliced(r, rd, rc), NEW t \in Tiles
        PROVE  Telescopes(Of(r), TileStarts(rc2, t), TileAmounts(rc2, t), rd.tile_lamports[t])
    <3>1. \A id \in Of(r) : /\ TileStarts(rc2, t)[id] = TileStarts(rc, t)[id]
                            /\ TileAmounts(rc2, t)[id] = TileAmounts(rc, t)[id]
      BY <1>1 DEF TileStarts, TileAmounts
    <3>2. Telescopes(Of(r), TileStarts(rc, t), TileAmounts(rc, t), rd.tile_lamports[t])
      BY <2>2 DEF Sliced
    <3> QED BY <2>1, <3>1, <3>2
  <2>3. ASSUME Sliced(r, rd, rc)
        PROVE  Telescopes(Of(r), AllStarts(rc2), AllAmounts(rc2), rd.gross)
    <3>1. \A id \in Of(r) : /\ AllStarts(rc2)[id] = AllStarts(rc)[id]
                            /\ AllAmounts(rc2)[id] = AllAmounts(rc)[id]
      BY <1>1 DEF AllStarts, AllAmounts
    <3>2. Telescopes(Of(r), AllStarts(rc), AllAmounts(rc), rd.gross)
      BY <2>3 DEF Sliced
    <3> QED BY <2>1, <3>1, <3>2
  <2> QED BY <2>2, <2>3 DEF Sliced
<1>6. ASSUME rd.settled
      PROVE  SumOf([id \in ReceiptIds |-> Sol(rd, rc2[id])], Of(r))
               = SumOf([id \in ReceiptIds |-> Sol(rd, rc[id])], Of(r))
  <2> DEFINE f == [id \in ReceiptIds |-> Sol(rd, rc[id])]
             g == [id \in ReceiptIds |-> Sol(rd, rc2[id])]
  <2>1. \A id \in Of(r) : f[id] \in Nat /\ g[id] = f[id]
    BY <1>1, <1>6, SolType DEF PerRound
  <2> HIDE DEF f, g
  <2>2. SumOf(g, Of(r)) = SumOf(f, Of(r))
    BY <1>1, <2>1, SumCongruent
  <2> QED BY <2>2 DEF f, g
<1>7. Untouched(r, rc2) = Untouched(r, rc)
  BY DEF Untouched
<1>8. Kept(r, rd, rc2)
  BY <1>4, <1>5, <1>6, <1>7 DEF PerRound, Kept
<1> QED BY <1>2, <1>3, <1>8 DEF PerRound

\* A step that sets a field the invariant does not read.
LEMMA FieldKept ==
    ASSUME NEW r \in RoundIds, NEW rd, NEW rd2, NEW rc, NEW time, SameRound(rd2, rd),
           rd2.archived => rd.archived \/ /\ rd.settled \/ time >= refund_at(r)
                                          /\ \A id \in Of(r) : rc[id].status # "open",
           PerRound(r, rd, rc, time)
    PROVE  PerRound(r, rd2, rc, time)
<1>1. SameTerms(rd2, rd)
  BY DEF SameRound
<1>2. \A x : Rewards(rd2, x) = Rewards(rd, x)
  BY <1>1, RewardsSame
<1>3. \A x : Sol(rd2, x) = Sol(rd, x)
  BY <1>2 DEF Sol
<1>4. Lived(r, rd2, rc, time)
  BY DEF PerRound, Lived, SameRound
<1>5. Counted(r, rd2, rc)
  BY DEF PerRound, Counted, SameRound
<1>6. Sliced(r, rd, rc) => Sliced(r, rd2, rc)
  BY <1>1 DEF Sliced, SameTerms
<1>7. [id \in ReceiptIds |-> Sol(rd2, rc[id])] = [id \in ReceiptIds |-> Sol(rd, rc[id])]
  BY <1>3
<1>8. Kept(r, rd2, rc)
  <2>1. ~rd2.settled => rd2.gross = SumOf(Stake(rc), Of(r))
    BY DEF PerRound, Kept, SameRound, SameTerms
  <2>2. ~rd2.settled /\ rd2.status = "live" /\ Untouched(r, rc) => Sliced(r, rd2, rc)
    BY <1>6 DEF PerRound, Kept, SameRound
  <2>3. rd2.settled =>
          /\ \A id \in Of(r) : rc[id].status = "open" =>
                Rewards(rd2, rc[id]) \in [sol : Nat, myne : Nat, motherlode : Nat]
          /\ rd2.claimed + SumOf([id \in ReceiptIds |-> Sol(rd2, rc[id])], Of(r))
               = rd2.prize + rd2.motherlode_payout
    BY <1>2, <1>7 DEF PerRound, Kept, SameRound, SameTerms
  <2> QED BY <2>1, <2>2, <2>3 DEF Kept
<1> QED BY <1>4, <1>5, <1>8 DEF PerRound

\* Archived or closed: what the counts say.
LEMMA CountsMeet ==
    ASSUME NEW r \in RoundIds, NEW rd, NEW rc, rd.status = "live", Counted(r, rd, rc)
    PROVE  /\ rd.processed_receipts = rd.total_receipts => Processed(r, rc) = Opened(r, rc)
           /\ rd.closed_receipts = rd.total_receipts => Closed(r, rc) = Opened(r, rc)
<1>1. IsFiniteSet(Of(r))
  BY FiniteReceipts
<1>2. Opened(r, rc) \subseteq Of(r) /\ Processed(r, rc) \subseteq Opened(r, rc)
      /\ Closed(r, rc) \subseteq Opened(r, rc)
  BY DEF Opened, Processed, Closed
<1>3. IsFiniteSet(Opened(r, rc))
  BY <1>1, <1>2, FS_Subset
<1> QED BY <1>2, <1>3, FS_Subset DEF Counted

-----------------------------------------------------------------------------
(* Accounts that come and go.                                              *)

\* Sums over receipts none of which is open.
LEMMA NothingStaked ==
    ASSUME NEW r \in RoundIds, NEW rc, \A id \in Of(r) : rc[id].status # "open"
    PROVE  SumOf(Stake(rc), Of(r)) = 0
<1>1. IsFiniteSet(Of(r)) /\ Of(r) \in SUBSET ReceiptIds
  BY FiniteReceipts
<1> DEFINE none == {}
<1>2. \A id \in Of(r) \ none : Stake(rc)[id] = 0
  BY <1>1 DEF Stake
<1>3. SumOf(Stake(rc), Of(r)) = SumOf(Stake(rc), none)
  BY <1>1, <1>2, SumZeros
<1>4. SumOf(Stake(rc), none) = 0
  BY SumType, FS_EmptySet
<1> QED BY <1>3, <1>4

\* A round account as it is before it is opened, after, and when it is closed.
LEMMA EmptyRoundKept ==
    ASSUME NEW r \in RoundIds, NEW rc, NEW time, NEW st \in {"absent", "live", "closed"},
           \/ /\ st = "closed"
              /\ \A id \in Of(r) : rc[id].status \in {"absent", "closed"}
              /\ \A id \in Of(r) : rc[id].status = "absent" => rc[id] = NoReceipt
           \/ \A id \in Of(r) : rc[id] = NoReceipt
    PROVE  PerRound(r, EmptyRound(st), rc, time)
<1>1. IsFiniteSet(Of(r)) /\ Of(r) \in SUBSET ReceiptIds
  BY FiniteReceipts
<1>2. PICK rd : rd = EmptyRound(st)
  OBVIOUS
<1>3. /\ rd.status = st /\ ~rd.settled /\ ~rd.archived /\ rd.gross = 0 /\ rd.tile_lamports = NoTiles
      /\ rd.total_receipts = 0 /\ rd.processed_receipts = 0 /\ rd.closed_receipts = 0
  BY <1>2 DEF EmptyRound
<1>4. NoReceipt.status = "absent" /\ NoReceipt.amounts = NoTiles
      /\ NoReceipt.cumulative_starts = NoTiles /\ NoReceipt.total = 0
  BY DEF NoReceipt
<1>5. Lived(r, rd, rc, time)
  BY <1>3, <1>4 DEF Lived
<1>6. Counted(r, rd, rc)
  <2>1. CASE st # "live"
    BY <2>1, <1>3 DEF Counted
  <2>2. CASE st = "live"
    <3>1. Opened(r, rc) = {} /\ Processed(r, rc) = {} /\ Closed(r, rc) = {}
      BY <2>2, <1>4 DEF Opened, Processed, Closed
    <3> QED BY <3>1, <1>3, FS_EmptySet DEF Counted
  <2> QED BY <2>1, <2>2
<1>7. SumOf(Stake(rc), Of(r)) = 0
  BY <1>4, NothingStaked
<1>8. ASSUME st = "live" PROVE Sliced(r, rd, rc)
  <2>1. \A id \in Of(r) : rc[id] = NoReceipt
    BY <1>8
  <2>2. NoTiles \in [Tiles -> Nat] /\ checked_sum(NoTiles) = 0 /\ \A t \in Tiles : NoTiles[t] = 0
    BY EmptyBoard DEF NoTiles
  <2>3. ASSUME NEW t \in Tiles
        PROVE  Telescopes(Of(r), TileStarts(rc, t), TileAmounts(rc, t), rd.tile_lamports[t])
    <3>1. \A id \in Of(r) : TileStarts(rc, t)[id] \in Nat /\ TileAmounts(rc, t)[id] = 0
      BY <1>1, <1>4, <2>1, <2>2 DEF TileStarts, TileAmounts
    <3>2. rd.tile_lamports[t] = 0
      BY <1>3, <2>2
    <3> QED BY <1>1, <3>1, <3>2, TelescopeEmpty
  <2>4. Telescopes(Of(r), AllStarts(rc), AllAmounts(rc), rd.gross)
    <3>1. \A id \in Of(r) : AllStarts(rc)[id] \in Nat /\ AllAmounts(rc)[id] = 0
      BY <1>1, <1>4, <2>1, <2>2 DEF AllStarts, AllAmounts
    <3> QED BY <1>1, <1>3, <3>1, TelescopeEmpty
  <2> QED BY <1>3, <2>2, <2>3, <2>4 DEF Sliced
<1>9. Kept(r, rd, rc)
  BY <1>3, <1>7, <1>8 DEF Kept
<1> QED BY <1>2, <1>5, <1>6, <1>9 DEF PerRound

\* One round, and its receipts, change.
LEMMA OneRound ==
    ASSUME TypeOK, EscrowInv, NEW r \in RoundIds,
           \A s \in RoundIds \ {r} : round'[s] = round[s],
           \A id \in ReceiptIds : id[1] # r => receipt'[id] = receipt[id],
           now' = now, PerRound(r, round'[r], receipt', now')
    PROVE  EscrowInv'
<1> SUFFICES ASSUME NEW s \in RoundIds PROVE PerRound(s, round'[s], receipt', now')
  BY DEF EscrowInv
<1>1. CASE s = r
  BY <1>1
<1>2. CASE s # r
  <2>1. \A id \in Of(s) : receipt'[id] = receipt[id]
    BY <1>2 DEF Of
  <2>2. PerRound(s, round[s], receipt, now) /\ receipt \in [ReceiptIds -> ReceiptType]
    BY DEF EscrowInv, TypeOK
  <2>3. round'[s] = round[s]
    BY <1>2
  <2>4. PICK rc, rc2, rd, time : rc = receipt /\ rc2 = receipt' /\ rd = round[s] /\ time = now
    OBVIOUS
  <2>5. /\ rc \in [ReceiptIds -> ReceiptType] /\ \A id \in Of(s) : rc2[id] = rc[id]
        /\ PerRound(s, rd, rc, time)
    BY <2>1, <2>2, <2>4
  <2>6. PerRound(s, rd, rc2, time)
    BY <2>5, OtherRound
  <2> QED BY <2>3, <2>4, <2>6
<1> QED BY <1>1, <1>2

\* What opening finds: the round's first and only opening.
LEMMA OpensAbsent ==
    ASSUME Production, TypeOK, Books, Ordered, EscrowInv, NEW r \in RoundIds, open_round(r)
    PROVE  /\ round[r].status = "absent" /\ \A id \in Of(r) : receipt[id] = NoReceipt
           /\ round' = [round EXCEPT ![r] = EmptyRound("live")]
           /\ UNCHANGED <<now, receipt, config, vault, accrued>>
<1>1. now < betting_ends_at(r) /\ ~Live(r)
  BY DEF open_round, assert_round_can_open_at
<1>2. round[r] \in RoundType /\ now \in Int /\ betting_ends_at(r) \in Int
  BY WindowsOrdered DEF TypeOK
<1>3. round[r].status # "closed"
  BY <1>1, <1>2 DEF Ordered
<1>4. round[r].status = "absent"
  BY <1>1, <1>2, <1>3 DEF RoundType, Live
<1>5. \A id \in Of(r) : receipt[id].status = "absent" /\ receipt[id] = NoReceipt
  BY <1>4 DEF EscrowInv, PerRound, Lived
<1> QED BY <1>4, <1>5 DEF open_round

LEMMA OpenKeeps ==
    ASSUME Production, TypeOK, Books, Ordered, EscrowInv, NEW r \in RoundIds, open_round(r)
    PROVE  EscrowInv'
<1>1. /\ \A id \in Of(r) : receipt[id] = NoReceipt
      /\ round' = [round EXCEPT ![r] = EmptyRound("live")] /\ UNCHANGED <<now, receipt>>
  BY OpensAbsent
<1>2. round \in [RoundIds -> RoundType]
  BY DEF TypeOK
<1>3. round'[r] = EmptyRound("live") /\ \A s \in RoundIds \ {r} : round'[s] = round[s]
  BY <1>1, <1>2
<1>4. PerRound(r, EmptyRound("live"), receipt', now')
  BY <1>1, EmptyRoundKept
<1> QED BY <1>1, <1>3, <1>4, OneRound

\* What closing finds: no receipt that is not closed, and no lamport.
LEMMA ClosesSpent ==
    ASSUME TypeOK, Books, EscrowInv, NEW r \in RoundIds, close_round(r)
    PROVE  /\ \A id \in Of(r) : receipt[id].status \in {"absent", "closed"}
           /\ \A id \in Of(r) : receipt[id].status = "absent" => receipt[id] = NoReceipt
           /\ vault.round[r] = 0
<1>1. Live(r) /\ round[r].status = "live" /\ PerRound(r, round[r], receipt, now)
  BY DEF close_round, Live, EscrowInv
<1>2. Closed(r, receipt) = Opened(r, receipt)
  <2>1. round[r].closed_receipts = round[r].total_receipts
    BY DEF close_round
  <2>2. PICK rd, rc : rd = round[r] /\ rc = receipt
    OBVIOUS
  <2>3. rd.status = "live" /\ Counted(r, rd, rc) /\ rd.closed_receipts = rd.total_receipts
    BY <1>1, <2>1, <2>2 DEF PerRound
  <2>4. Closed(r, rc) = Opened(r, rc)
    BY <2>3, CountsMeet
  <2> QED BY <2>2, <2>4
<1>3. \A id \in Of(r) : receipt[id].status \in {"absent", "closed"}
  BY <1>2 DEF Closed, Opened
<1>4. \A id \in Of(r) : receipt[id].status = "absent" => receipt[id] = NoReceipt
  BY <1>1 DEF PerRound, Lived
<1>5. vault.round[r] = 0
  <2>1. round[r] \in RoundType /\ U64 \subseteq Nat
    BY EconomicsAssumption DEF TypeOK, U64
  <2>2. CASE round[r].settled
    <3>1. round[r].claimed = round[r].prize + round[r].motherlode_payout
      BY <2>2 DEF close_round
    <3>2. vault.round[r] = round[r].prize + round[r].motherlode_payout - round[r].claimed
      BY <2>2 DEF Books, RoundVaultExact
    <3>3. round[r].claimed \in Nat /\ round[r].prize \in Nat /\ round[r].motherlode_payout \in Nat
      BY <2>1 DEF RoundType
    <3> QED BY <3>1, <3>2, <3>3
  <2>3. CASE ~round[r].settled
    <3>1. PICK rc : rc = receipt
      OBVIOUS
    <3>2. SumOf(Stake(rc), Of(r)) = 0
      BY <1>3, <3>1, NothingStaked
    <3>3. round[r].gross = 0
      BY <1>1, <2>3, <3>1, <3>2 DEF PerRound, Kept
    <3> QED BY <2>3, <3>3 DEF Books, RoundVaultExact
  <2> QED BY <2>2, <2>3
<1> QED BY <1>3, <1>4, <1>5

LEMMA CloseKeeps ==
    ASSUME TypeOK, Books, EscrowInv, NEW r \in RoundIds, close_round(r)
    PROVE  EscrowInv'
<1>1. /\ \A id \in Of(r) : receipt[id].status \in {"absent", "closed"}
      /\ \A id \in Of(r) : receipt[id].status = "absent" => receipt[id] = NoReceipt
  BY ClosesSpent
<1>2. round' = [round EXCEPT ![r] = EmptyRound("closed")] /\ UNCHANGED <<now, receipt>>
  BY DEF close_round
<1>3. round \in [RoundIds -> RoundType]
  BY DEF TypeOK
<1>4. round'[r] = EmptyRound("closed") /\ \A s \in RoundIds \ {r} : round'[s] = round[s]
  BY <1>2, <1>3
<1>5. PerRound(r, EmptyRound("closed"), receipt', now')
  BY <1>1, <1>2, EmptyRoundKept
<1> QED BY <1>2, <1>4, <1>5, OneRound

-----------------------------------------------------------------------------
(* Fields.                                                                 *)

FieldStep(r) ==
    Live(r) /\ \/ bind_round_randomness(r)
               \/ bind_round_server_commitment(r)
               \/ record_round_randomness_commit(r)
               \/ lock_round_server_entropy(r)
               \/ mark_buyback_completed(r)
               \/ archive_round(r)

LEMMA FieldFrame ==
    ASSUME TypeOK, EscrowInv, NEW r \in RoundIds, FieldStep(r)
    PROVE  /\ SameRound(round'[r], round[r])
           /\ \A s \in RoundIds \ {r} : round'[s] = round[s]
           /\ UNCHANGED <<now, receipt, config, vault, accrued>>
           /\ round'[r].archived => round[r].archived \/
                 /\ round[r].settled \/ now >= refund_at(r)
                 /\ \A id \in Of(r) : receipt[id].status # "open"
<1>1. round[r] \in RoundType /\ round \in [RoundIds -> RoundType]
  BY DEF TypeOK
<1>2. /\ UNCHANGED <<now, receipt, config, vault, accrued>>
      /\ \A s \in RoundIds \ {r} : round'[s] = round[s]
  BY <1>1 DEF FieldStep, bind_round_randomness, bind_round_server_commitment,
       record_round_randomness_commit, lock_round_server_entropy, mark_buyback_completed,
       archive_round
<1>3. CASE ~archive_round(r)
  <2>1. PICK nd : /\ round' = [round EXCEPT ![r] = nd]
                  /\ \/ \E v : nd = [round[r] EXCEPT !.randomness = v]
                     \/ nd = [round[r] EXCEPT !.buyback_completed = TRUE]
    BY <1>1, <1>3 DEF FieldStep, bind_round_randomness, bind_round_server_commitment,
       record_round_randomness_commit, lock_round_server_entropy, mark_buyback_completed
  <2>2. SameRound(nd, round[r]) /\ nd.archived = round[r].archived
    BY <1>1, <2>1 DEF RoundType, SameRound, SameTerms
  <2>3. round'[r] = nd
    BY <1>1, <2>1
  <2> QED BY <1>2, <2>2, <2>3
<1>4. CASE archive_round(r)
  <2>1. PICK nd : round' = [round EXCEPT ![r] = nd] /\ nd = [round[r] EXCEPT !.archived = TRUE]
    BY <1>1, <1>4 DEF archive_round
  <2>2. SameRound(nd, round[r])
    BY <1>1, <2>1 DEF RoundType, SameRound, SameTerms
  <2>3. round'[r] = nd
    BY <1>1, <2>1
  <2>4. Processed(r, receipt) = Opened(r, receipt)
    <3>1. PICK rd, rc : rd = round[r] /\ rc = receipt
      OBVIOUS
    <3>2. rd.status = "live" /\ Counted(r, rd, rc) /\ rd.processed_receipts = rd.total_receipts
      BY <1>4, <3>1 DEF archive_round, Live, EscrowInv, PerRound
    <3>3. Processed(r, rc) = Opened(r, rc)
      BY <3>2, CountsMeet
    <3> QED BY <3>1, <3>3
  <2>5. \A id \in Of(r) : receipt[id].status # "open"
    BY <2>4 DEF Processed, Opened
  <2>6. round[r].settled \/ now >= refund_at(r)
    BY <1>4 DEF archive_round
  <2> QED BY <1>2, <2>2, <2>3, <2>5, <2>6
<1> QED BY <1>3, <1>4

LEMMA FieldKeeps ==
    ASSUME TypeOK, EscrowInv, NEW r \in RoundIds, FieldStep(r)
    PROVE  EscrowInv'
<1>1. /\ SameRound(round'[r], round[r])
      /\ \A s \in RoundIds \ {r} : round'[s] = round[s]
      /\ UNCHANGED <<now, receipt>>
      /\ round'[r].archived => round[r].archived \/
            /\ round[r].settled \/ now >= refund_at(r)
            /\ \A id \in Of(r) : receipt[id].status # "open"
  BY FieldFrame
<1>2. PICK rd, rd2, rc, time : rd = round[r] /\ rd2 = round'[r] /\ rc = receipt /\ time = now
  OBVIOUS
<1>3. PerRound(r, rd, rc, time)
  BY <1>2 DEF EscrowInv
<1>4. PerRound(r, rd2, rc, time)
  BY <1>1, <1>2, <1>3, FieldKept
<1> QED BY <1>1, <1>2, <1>4, OneRound

-----------------------------------------------------------------------------
(* Deployments.                                                            *)

\* Before the refund window opens nobody has left the round.
LEMMA NobodyLeft ==
    ASSUME NEW r \in RoundIds, NEW rd, NEW rc \in [ReceiptIds -> ReceiptType], NEW time \in Int,
           rd.status = "live", ~rd.settled, time < refund_at(r), PerRound(r, rd, rc, time)
    PROVE  /\ Untouched(r, rc) /\ ~rd.archived /\ Sliced(r, rd, rc)
           /\ \A id \in Of(r) : rc[id].status # "open" => rc[id] = NoReceipt
<1>1. ~(time >= refund_at(r))
  BY WindowsOrdered
<1>2. \A id \in Of(r) : rc[id].status \in {"absent", "open"}
  <2>1. \A id \in Of(r) : rc[id] \in ReceiptType
    BY FiniteReceipts
  <2>2. \A id \in Of(r) : rc[id].status \in {"absent", "open", "claimed", "refunded", "closed"}
    BY <2>1 DEF ReceiptType
  <2> QED BY <1>1, <2>2 DEF PerRound, Lived
<1>3. Untouched(r, rc) /\ ~rd.archived
  BY <1>1, <1>2 DEF PerRound, Lived, Untouched
<1>4. \A id \in Of(r) : rc[id].status # "open" => rc[id] = NoReceipt
  BY <1>2 DEF PerRound, Lived
<1> QED BY <1>3, <1>4 DEF PerRound, Kept

\* What a deployment of w does to its round and its receipt.
DeploysTo(rd, rd2, rc, rc2, id, w) ==
    /\ rd.status = "live" /\ ~rd.settled /\ w \in [Tiles -> Nat] /\ rc[id] = NoReceipt
    /\ rd2.status = "live" /\ ~rd2.settled /\ rd2.archived = rd.archived
    /\ rd2.tile_lamports = [t \in Tiles |-> rd.tile_lamports[t] + w[t]]
    /\ rd2.gross = rd.gross + checked_sum(w)
    /\ rd2.total_receipts = rd.total_receipts + 1
    /\ rd2.processed_receipts = rd.processed_receipts
    /\ rd2.closed_receipts = rd.closed_receipts
    /\ rc2 = [rc EXCEPT ![id] =
          [ status |-> "open", amounts |-> w, cumulative_starts |-> rd.tile_lamports,
            total |-> checked_sum(w), reward_mode |-> 0 ]]

LEMMA Deployed ==
    ASSUME NEW r \in RoundIds, NEW rd \in RoundType, NEW rc \in [ReceiptIds -> ReceiptType],
           NEW time \in Int, time < refund_at(r), PerRound(r, rd, rc, time),
           NEW id \in Of(r), NEW w, NEW rd2, NEW rc2, DeploysTo(rd, rd2, rc, rc2, id, w)
    PROVE  PerRound(r, rd2, rc2, time)
<1>1. IsFiniteSet(Of(r)) /\ Of(r) \in SUBSET ReceiptIds
  BY FiniteReceipts
<1>2. /\ Untouched(r, rc) /\ ~rd.archived /\ Sliced(r, rd, rc) /\ rc[id] = NoReceipt
  BY NobodyLeft DEF DeploysTo
<1> PICK nr : nr = [ status |-> "open", amounts |-> w, cumulative_starts |-> rd.tile_lamports,
                     total |-> checked_sum(w), reward_mode |-> 0 ]
  OBVIOUS
<1>3. /\ rd.status = "live" /\ ~rd.settled /\ w \in [Tiles -> Nat]
       /\ rd2.status = "live" /\ ~rd2.settled /\ rd2.archived = rd.archived
       /\ rd2.tile_lamports = [t \in Tiles |-> rd.tile_lamports[t] + w[t]]
       /\ rd2.gross = rd.gross + checked_sum(w)
       /\ rd2.total_receipts = rd.total_receipts + 1
       /\ rd2.processed_receipts = rd.processed_receipts
       /\ rd2.closed_receipts = rd.closed_receipts
       /\ rc2 = [rc EXCEPT ![id] = nr]
  BY DEF DeploysTo
<1>4. rd.gross \in Nat /\ rd.tile_lamports \in [Tiles -> Nat] /\ rd.total_receipts \in Nat
  <2>1. U64 \subseteq Nat
    BY EconomicsAssumption DEF U64
  <2> QED BY <2>1 DEF RoundType
<1> USE <1>3, <1>4
<1>5. rc2[id] = nr /\ \A x \in Of(r) \ {id} : rc2[x] = rc[x]
  BY <1>1
<1>6. /\ rc[id].status = "absent" /\ rc[id].amounts = NoTiles
      /\ rc[id].cumulative_starts = NoTiles /\ rc[id].total = 0
  BY <1>2 DEF NoReceipt
<1>7. checked_sum(w) \in Nat
  BY BoardSum
<1>8. Lived(r, rd2, rc2, time)
  <2>1. ASSUME NEW x \in Of(r)
        PROVE  /\ rc2[x].status = "absent" => rc2[x] = NoReceipt
               /\ rc2[x].status \in {"absent", "open"}
    <3>1. CASE x = id
      BY <1>5, <3>1
    <3>2. CASE x # id
      BY <1>2, <1>5, <3>2 DEF PerRound, Lived, Untouched
    <3> QED BY <3>1, <3>2
  <2> QED BY <1>2, <2>1 DEF Lived
<1>9. Counted(r, rd2, rc2)
  <2>1. Opened(r, rc2) = Opened(r, rc) \cup {id} /\ id \notin Opened(r, rc)
    BY <1>5, <1>6 DEF Opened
  <2>2. Processed(r, rc2) = Processed(r, rc) /\ Closed(r, rc2) = Closed(r, rc)
    BY <1>5, <1>6 DEF Processed, Closed
  <2>3. IsFiniteSet(Opened(r, rc))
    BY <1>1, FS_Subset DEF Opened
  <2>4. Cardinality(Opened(r, rc2)) = Cardinality(Opened(r, rc)) + 1
    BY <2>1, <2>3, FS_AddElement, ZenonT(60)
  <2> QED BY <2>2, <2>4 DEF PerRound, Counted
<1>10. rd2.gross = SumOf(Stake(rc2), Of(r))
  <2> DEFINE f == Stake(rc)
             g == Stake(rc2)
  <2>1. \A x \in Of(r) : f[x] \in Nat
    BY <1>1, ReceiptAmounts DEF Stake
  <2>2. f[id] = 0 /\ g[id] = checked_sum(w) /\ g[id] \in Nat
    BY <1>1, <1>5, <1>6, <1>7 DEF Stake
  <2>3. \A x \in Of(r) \ {id} : g[x] = f[x]
    BY <1>1, <1>5 DEF Stake
  <2> HIDE DEF f, g
  <2>4. SumOf(g, Of(r)) = SumOf(f, Of(r)) - f[id] + g[id] /\ SumOf(f, Of(r)) \in Nat
    BY <1>1, <2>1, <2>2, <2>3, SumChange, SumType
  <2>5. rd.gross = SumOf(f, Of(r))
    BY DEF PerRound, Kept, f
  <2> QED BY <1>7, <2>2, <2>4, <2>5 DEF g
<1>11. Sliced(r, rd2, rc2)
  <2>1. rd2.gross = checked_sum(rd2.tile_lamports)
    BY <1>2, BoardsAdd DEF Sliced
  <2>2. ASSUME NEW t \in Tiles
        PROVE  Telescopes(Of(r), TileStarts(rc2, t), TileAmounts(rc2, t), rd2.tile_lamports[t])
    <3> DEFINE st == TileStarts(rc, t)
               am == TileAmounts(rc, t)
               st2 == TileStarts(rc2, t)
               am2 == TileAmounts(rc2, t)
    <3>1. \A x \in Of(r) : st[x] \in Nat /\ am[x] \in Nat
      BY <1>1, ReceiptAmounts DEF TileStarts, TileAmounts
    <3>2. am[id] = 0 /\ st2[id] = rd.tile_lamports[t] /\ am2[id] = w[t]
      BY <1>1, <1>5, <1>6 DEF TileStarts, TileAmounts, NoTiles
    <3>3. \A x \in Of(r) \ {id} : st2[x] = st[x] /\ am2[x] = am[x]
      BY <1>1, <1>5 DEF TileStarts, TileAmounts
    <3>4. Telescopes(Of(r), st, am, rd.tile_lamports[t])
      BY <1>2 DEF Sliced
    <3>5. rd.tile_lamports[t] \in Nat /\ w[t] \in Nat
          /\ rd2.tile_lamports[t] = rd.tile_lamports[t] + w[t]
      OBVIOUS
    <3> HIDE DEF st, am, st2, am2
    <3>6. Telescopes(Of(r), st2, am2, rd.tile_lamports[t] + w[t])
      BY <1>1, <3>1, <3>2, <3>3, <3>4, <3>5, TelescopeExtend, SMTT(30)
    <3> QED BY <3>5, <3>6 DEF st2, am2
  <2>3. Telescopes(Of(r), AllStarts(rc2), AllAmounts(rc2), rd2.gross)
    <3> DEFINE st == AllStarts(rc)
               am == AllAmounts(rc)
               st2 == AllStarts(rc2)
               am2 == AllAmounts(rc2)
    <3>1. \A x \in Of(r) : st[x] \in Nat /\ am[x] \in Nat
      BY <1>1, ReceiptAmounts DEF AllStarts, AllAmounts
    <3>2. am[id] = 0 /\ st2[id] = rd.gross /\ am2[id] = checked_sum(w)
      BY <1>1, <1>2, <1>5, <1>6 DEF AllStarts, AllAmounts, Sliced
    <3>3. \A x \in Of(r) \ {id} : st2[x] = st[x] /\ am2[x] = am[x]
      BY <1>1, <1>5 DEF AllStarts, AllAmounts
    <3>4. Telescopes(Of(r), st, am, rd.gross)
      BY <1>2 DEF Sliced
    <3> HIDE DEF st, am, st2, am2
    <3>5. Telescopes(Of(r), st2, am2, rd.gross + checked_sum(w))
      BY <1>1, <1>7, <3>1, <3>2, <3>3, <3>4, TelescopeExtend
    <3> QED BY <3>5 DEF st2, am2
  <2> QED BY <2>1, <2>2, <2>3 DEF Sliced
<1>12. Kept(r, rd2, rc2)
  BY <1>10, <1>11 DEF Kept
<1> QED BY <1>8, <1>9, <1>12 DEF PerRound

\* What a deployment finds and writes.
LEMMA DeployFrame ==
    ASSUME TypeOK, EscrowInv, NEW id \in ReceiptIds, NEW w \in Wagers, deploy(id, w)
    PROVE  LET r == id[1]
           IN /\ now < refund_at(r)
              /\ DeploysTo(round[r], round'[r], receipt, receipt', id, w)
              /\ \A s \in RoundIds \ {r} : round'[s] = round[s]
              /\ vault'.round = [vault.round EXCEPT ![r] = vault.round[r] + checked_sum(w)]
              /\ UNCHANGED <<now, config, accrued>>
<1> DEFINE r == id[1]
<1>1. r \in RoundIds /\ id \in Of(r)
  BY FiniteReceipts
<1>2. round[r] \in RoundType /\ round \in [RoundIds -> RoundType] /\ now \in Int
      /\ receipt \in [ReceiptIds -> ReceiptType]
      /\ vault \in [round : [RoundIds -> U64], config : U64, stake : U64, buyback : U64, admin : U64]
  BY <1>1 DEF TypeOK
<1>3. w \in [Tiles -> Nat] /\ checked_sum(w) \in Nat
  <2>1. U64 \subseteq Nat
    BY EconomicsAssumption DEF U64
  <2>2. w \in [Tiles -> Nat]
    BY <2>1, RoundsAssumption
  <2> QED BY <2>2, BoardSum
<1>4. round[r].status = "live" /\ ~round[r].settled /\ now < refund_at(r)
  <2>1. round[r].status = "live" /\ ~round[r].settled /\ now < betting_ends_at(r)
    BY DEF deploy, RecordDeployment, Live, assert_round_accepting_deployments_at
  <2> QED BY <1>1, <1>2, <2>1, WindowsOrdered
<1>5. receipt[id] = NoReceipt
  <2>1. PICK rd, rc, time : rd = round[r] /\ rc = receipt /\ time = now
    OBVIOUS
  <2>2. rc[id].status # "open"
    BY <2>1 DEF deploy, RecordDeployment
  <2>3. rc \in [ReceiptIds -> ReceiptType] /\ time \in Int /\ rd.status = "live" /\ ~rd.settled
        /\ time < refund_at(r) /\ PerRound(r, rd, rc, time)
    BY <1>1, <1>2, <1>4, <2>1 DEF EscrowInv
  <2>4. rc[id] = NoReceipt
    BY <1>1, <2>2, <2>3, NobodyLeft
  <2> QED BY <2>1, <2>4
<1>6. /\ receipt' = [receipt EXCEPT ![id] =
            [ status |-> "open", amounts |-> w, cumulative_starts |-> round[r].tile_lamports,
              total |-> checked_sum(w), reward_mode |-> 0 ]]
      /\ vault'.round = [vault.round EXCEPT ![r] = vault.round[r] + checked_sum(w)]
      /\ UNCHANGED <<now, config, accrued>>
  BY <1>2 DEF deploy, RecordDeployment
<1> DEFINE tiles == [t \in Tiles |-> round[r].tile_lamports[t] + w[t]]
           total == round[r].gross + checked_sum(w)
           prize == round[r].prize + checked_sum(w)
           count == round[r].total_receipts + 1
           nd == [round[r] EXCEPT !.tile_lamports = tiles, !.gross = total, !.prize = prize,
                                  !.total_receipts = count]
<1>7. round' = [round EXCEPT ![r] = nd]
  BY DEF deploy, RecordDeployment
<1>8. /\ nd.status = round[r].status /\ nd.settled = round[r].settled
      /\ nd.archived = round[r].archived
      /\ nd.tile_lamports = tiles /\ nd.gross = total /\ nd.total_receipts = count
      /\ nd.processed_receipts = round[r].processed_receipts
      /\ nd.closed_receipts = round[r].closed_receipts
  <2> HIDE DEF tiles, total, prize, count
  <2> QED BY <1>2 DEF RoundType
<1> HIDE DEF nd
<1>9. round'[r] = nd /\ \A s \in RoundIds \ {r} : round'[s] = round[s]
  BY <1>1, <1>2, <1>7
<1> QED BY <1>1, <1>3, <1>4, <1>5, <1>6, <1>8, <1>9 DEF DeploysTo

LEMMA DeployKeeps ==
    ASSUME TypeOK, EscrowInv, NEW id \in ReceiptIds, NEW w \in Wagers, deploy(id, w)
    PROVE  EscrowInv'
<1>1. PICK r, rd, rd2, rc, rc2, time :
          r = id[1] /\ rd = round[r] /\ rd2 = round'[r] /\ rc = receipt /\ rc2 = receipt' /\ time = now
  OBVIOUS
<1>2. r \in RoundIds /\ id \in Of(r)
  BY <1>1, FiniteReceipts
<1>3. time < refund_at(r) /\ DeploysTo(rd, rd2, rc, rc2, id, w)
      /\ (\A s \in RoundIds \ {r} : round'[s] = round[s]) /\ now' = now
  BY <1>1, DeployFrame
<1>4. rd \in RoundType /\ rc \in [ReceiptIds -> ReceiptType] /\ time \in Int
  BY <1>1, <1>2 DEF TypeOK
<1>5. PerRound(r, rd, rc, time)
  BY <1>1, <1>2 DEF EscrowInv
<1>6. PerRound(r, rd2, rc2, time)
  BY <1>2, <1>3, <1>4, <1>5, Deployed
<1>7. \A x \in ReceiptIds : x[1] # r => receipt'[x] = receipt[x]
  BY <1>1, <1>2, <1>3, <1>4 DEF DeploysTo
<1> QED BY <1>1, <1>2, <1>3, <1>6, <1>7, OneRound

-----------------------------------------------------------------------------
(* Payments.                                                               *)

\* What a payment does to its round and its receipt.
PaysTo(rd, rd2, rc, rc2, id) ==
    /\ rd.status = "live" /\ rd.settled /\ rc[id].status = "open"
    /\ SameTerms(rd2, rd)
    /\ rd2.status = "live" /\ rd2.settled /\ rd2.archived = rd.archived
    /\ rd2.claimed = rd.claimed + Rewards(rd, rc[id]).sol
    /\ rd2.total_receipts = rd.total_receipts
    /\ rd2.processed_receipts = rd.processed_receipts + 1
    /\ rd2.closed_receipts = rd.closed_receipts
    /\ rc2 = [rc EXCEPT ![id] = [rc[id] EXCEPT !.status = "claimed"]]

LEMMA Paid ==
    ASSUME NEW r \in RoundIds, NEW rd \in RoundType, NEW rc \in [ReceiptIds -> ReceiptType],
           NEW time, PerRound(r, rd, rc, time),
           NEW id \in Of(r), NEW rd2, NEW rc2, PaysTo(rd, rd2, rc, rc2, id)
    PROVE  PerRound(r, rd2, rc2, time)
<1>1. IsFiniteSet(Of(r)) /\ Of(r) \in SUBSET ReceiptIds
  BY FiniteReceipts
<1>2. PICK nr : nr = [rc[id] EXCEPT !.status = "claimed"]
  OBVIOUS
<1>3. rc2[id] = nr /\ nr.status = "claimed" /\ \A x \in Of(r) \ {id} : rc2[x] = rc[x]
  BY <1>1, <1>2 DEF PaysTo, ReceiptType
<1>4. Lived(r, rd2, rc2, time)
  <2>1. ASSUME NEW x \in Of(r)
        PROVE  /\ rc2[x].status = "absent" => rc2[x] = NoReceipt
               /\ rd2.archived => rc2[x].status # "open"
    <3>1. CASE x = id
      BY <1>3, <3>1
    <3>2. CASE x # id
      BY <1>3, <3>2 DEF PerRound, Lived, PaysTo
    <3> QED BY <3>1, <3>2
  <2> QED BY <2>1 DEF Lived, PaysTo
<1>5. Counted(r, rd2, rc2)
  <2>1. Processed(r, rc2) = Processed(r, rc) \cup {id} /\ id \notin Processed(r, rc)
    BY <1>3 DEF Processed, PaysTo
  <2>2. Opened(r, rc2) = Opened(r, rc) /\ Closed(r, rc2) = Closed(r, rc)
    BY <1>3 DEF Opened, Closed, PaysTo
  <2>3. IsFiniteSet(Processed(r, rc))
    BY <1>1, FS_Subset DEF Processed
  <2>4. Cardinality(Processed(r, rc2)) = Cardinality(Processed(r, rc)) + 1
    BY <2>1, <2>3, FS_AddElement
  <2> QED BY <2>2, <2>4 DEF PerRound, Counted, PaysTo
<1>6. \A x : Rewards(rd2, x) = Rewards(rd, x)
  BY RewardsSame DEF PaysTo
<1>7. \A x \in Of(r) : rc2[x].status = "open" =>
          Rewards(rd2, rc2[x]) \in [sol : Nat, myne : Nat, motherlode : Nat]
  BY <1>3, <1>6 DEF PerRound, Kept, PaysTo
<1>8. rd2.claimed + SumOf([x \in ReceiptIds |-> Sol(rd2, rc2[x])], Of(r))
        = rd2.prize + rd2.motherlode_payout
  <2> DEFINE f == [x \in ReceiptIds |-> Sol(rd, rc[x])]
             g == [x \in ReceiptIds |-> Sol(rd2, rc2[x])]
             due == Rewards(rd, rc[id]).sol
  <2>1. rd.settled /\ Kept(r, rd, rc)
    BY DEF PaysTo, PerRound
  <2>2. \A x \in Of(r) : f[x] \in Nat
    BY <1>1, <2>1, SolType
  <2>3. f[id] = due /\ g[id] = 0
    BY <1>1, <1>3 DEF Sol, PaysTo
  <2>4. \A x \in Of(r) \ {id} : g[x] = f[x]
    BY <1>1, <1>3, <1>6 DEF Sol
  <2>5. rd.claimed + SumOf(f, Of(r)) = rd.prize + rd.motherlode_payout
    BY <2>1 DEF Kept
  <2>6. rd2.claimed = rd.claimed + due
        /\ rd2.prize = rd.prize /\ rd2.motherlode_payout = rd.motherlode_payout
    BY DEF PaysTo, SameTerms
  <2>7. rd.claimed \in Int
    BY EconomicsAssumption DEF RoundType, U64
  <2> HIDE DEF f, g, due
  <2>8. SumOf(g, Of(r)) = SumOf(f, Of(r)) - f[id] + g[id] /\ SumOf(f, Of(r)) \in Nat
        /\ f[id] \in Nat
    BY <1>1, <2>2, <2>3, <2>4, SumChange, SumType
  <2>9. rd2.claimed + SumOf(g, Of(r)) = rd2.prize + rd2.motherlode_payout
    BY <2>3, <2>5, <2>6, <2>7, <2>8
  <2> QED BY <2>9 DEF g
<1>9. Kept(r, rd2, rc2)
  BY <1>7, <1>8 DEF Kept, PaysTo
<1> QED BY <1>4, <1>5, <1>9 DEF PerRound

\* What a payment writes.
LEMMA PayFrame ==
    ASSUME TypeOK, NEW id \in ReceiptIds, PayReceipt(id)
    PROVE  LET r == id[1]
               m == id[2]
               rewards == Rewards(round[r], receipt[id])
               kept == IF receipt[id].reward_mode = 0 THEN rewards.myne ELSE 0
           IN /\ PaysTo(round[r], round'[r], receipt, receipt', id)
              /\ \A s \in RoundIds \ {r} : round'[s] = round[s]
              /\ rewards \in [sol : U64, myne : U64, motherlode : U64]
              /\ rewards.sol <= vault.round[r]
              /\ vault'.round = [vault.round EXCEPT ![r] = vault.round[r] - rewards.sol]
              /\ accrued' = [accrued EXCEPT ![m] =
                    [ sol |-> accrued[m].sol + rewards.sol, myne |-> accrued[m].myne + kept,
                      burn |-> accrued[m].burn + (rewards.motherlode + rewards.myne - kept) ]]
              /\ UNCHANGED <<now, config>>
<1> DEFINE r == id[1]
           m == id[2]
           rewards == Rewards(round[r], receipt[id])
           kept == IF receipt[id].reward_mode = 0 THEN rewards.myne ELSE 0
<1>1. r \in RoundIds /\ m \in Miners /\ id \in Of(r)
  BY FiniteReceipts
<1>2. round[r] \in RoundType /\ round \in [RoundIds -> RoundType]
      /\ receipt \in [ReceiptIds -> ReceiptType]
      /\ vault \in [round : [RoundIds -> U64], config : U64, stake : U64, buyback : U64, admin : U64]
  BY <1>1 DEF TypeOK
<1>3. /\ round[r].status = "live" /\ round[r].settled /\ receipt[id].status = "open"
      /\ rewards.sol <= vault.round[r] /\ UNCHANGED <<now, config>>
  BY DEF PayReceipt, Live, Rewards
<1>4. rewards \in [sol : U64, myne : U64, motherlode : U64]
  BY DEF PayReceipt, RewardsComputable, Rewards
<1>5. accrued' = [accrued EXCEPT ![m] =
          [ sol |-> accrued[m].sol + rewards.sol, myne |-> accrued[m].myne + kept,
            burn |-> accrued[m].burn + (rewards.motherlode + rewards.myne - kept) ]]
  BY DEF PayReceipt, Rewards
<1> DEFINE left == vault.round[r] - rewards.sol
           total == round[r].claimed + rewards.sol
           count == round[r].processed_receipts + 1
           nd == [round[r] EXCEPT !.claimed = total, !.processed_receipts = count]
           pots == [vault.round EXCEPT ![r] = left]
<1>6. vault'.round = pots
  <2>1. PICK paid : vault' = [vault EXCEPT !.round = pots, !.stake = paid]
    BY DEF PayReceipt, Rewards
  <2> HIDE DEF pots
  <2> QED BY <1>2, <2>1
<1>7. round' = [round EXCEPT ![r] = nd]
  BY DEF PayReceipt, Rewards
<1>8. /\ SameTerms(nd, round[r]) /\ nd.status = round[r].status /\ nd.settled = round[r].settled
      /\ nd.archived = round[r].archived /\ nd.claimed = total
      /\ nd.total_receipts = round[r].total_receipts /\ nd.processed_receipts = count
      /\ nd.closed_receipts = round[r].closed_receipts
  <2> HIDE DEF total, count
  <2> QED BY <1>2 DEF RoundType, SameTerms
<1> HIDE DEF nd
<1>9. round'[r] = nd /\ \A s \in RoundIds \ {r} : round'[s] = round[s]
  BY <1>1, <1>2, <1>7
<1>10. receipt' = [receipt EXCEPT ![id] = [receipt[id] EXCEPT !.status = "claimed"]]
  BY DEF PayReceipt
<1>11. PaysTo(round[r], round'[r], receipt, receipt', id)
  BY <1>3, <1>8, <1>9, <1>10 DEF PaysTo
<1> QED BY <1>3, <1>4, <1>5, <1>6, <1>9, <1>11

LEMMA PayKeeps ==
    ASSUME TypeOK, EscrowInv, NEW id \in ReceiptIds, PayReceipt(id)
    PROVE  EscrowInv'
<1>1. PICK r, rd, rd2, rc, rc2, time :
          r = id[1] /\ rd = round[r] /\ rd2 = round'[r] /\ rc = receipt /\ rc2 = receipt' /\ time = now
  OBVIOUS
<1>2. r \in RoundIds /\ id \in Of(r)
  BY <1>1, FiniteReceipts
<1>3. PaysTo(rd, rd2, rc, rc2, id) /\ (\A s \in RoundIds \ {r} : round'[s] = round[s]) /\ now' = now
  BY <1>1, PayFrame
<1>4. rd \in RoundType /\ rc \in [ReceiptIds -> ReceiptType]
  BY <1>1, <1>2 DEF TypeOK
<1>5. PerRound(r, rd, rc, time)
  BY <1>1, <1>2 DEF EscrowInv
<1>6. PerRound(r, rd2, rc2, time)
  BY <1>2, <1>3, <1>4, <1>5, Paid
<1>7. \A x \in ReceiptIds : x[1] # r => receipt'[x] = receipt[x]
  BY <1>1, <1>2, <1>3, <1>4 DEF PaysTo
<1> QED BY <1>1, <1>2, <1>3, <1>6, <1>7, OneRound

-----------------------------------------------------------------------------
(* Refunds and closed receipts.                                            *)

\* What a refund does to its round and its receipt.
RefundsTo(rd, rd2, rc, rc2, id) ==
    /\ rd.status = "live" /\ ~rd.settled /\ rc[id].status = "open"
    /\ rd2.status = "live" /\ ~rd2.settled /\ rd2.archived = rd.archived
    /\ rc[id].total <= rd.gross /\ rd2.gross = rd.gross - rc[id].total
    /\ rd2.total_receipts = rd.total_receipts
    /\ rd2.processed_receipts = rd.processed_receipts + 1
    /\ rd2.closed_receipts = rd.closed_receipts
    /\ rc2 = [rc EXCEPT ![id] = [rc[id] EXCEPT !.status = "refunded"]]

LEMMA Refunded ==
    ASSUME NEW r \in RoundIds, NEW rd \in RoundType, NEW rc \in [ReceiptIds -> ReceiptType],
           NEW time, time >= refund_at(r), PerRound(r, rd, rc, time),
           NEW id \in Of(r), NEW rd2, NEW rc2, RefundsTo(rd, rd2, rc, rc2, id)
    PROVE  PerRound(r, rd2, rc2, time)
<1>1. IsFiniteSet(Of(r)) /\ Of(r) \in SUBSET ReceiptIds
  BY FiniteReceipts
<1>2. PICK nr : nr = [rc[id] EXCEPT !.status = "refunded"]
  OBVIOUS
<1>3. rc2[id] = nr /\ nr.status = "refunded" /\ \A x \in Of(r) \ {id} : rc2[x] = rc[x]
  BY <1>1, <1>2 DEF RefundsTo, ReceiptType
<1>4. Lived(r, rd2, rc2, time)
  <2>1. ASSUME NEW x \in Of(r)
        PROVE  /\ rc2[x].status = "absent" => rc2[x] = NoReceipt
               /\ rc2[x].status # "claimed"
               /\ rd2.archived => rc2[x].status # "open"
    <3>1. CASE x = id
      BY <1>3, <3>1
    <3>2. CASE x # id
      BY <1>3, <3>2 DEF PerRound, Lived, RefundsTo
    <3> QED BY <3>1, <3>2
  <2> QED BY <2>1 DEF Lived, RefundsTo
<1>5. Counted(r, rd2, rc2)
  <2>1. Processed(r, rc2) = Processed(r, rc) \cup {id} /\ id \notin Processed(r, rc)
    BY <1>3 DEF Processed, RefundsTo
  <2>2. Opened(r, rc2) = Opened(r, rc) /\ Closed(r, rc2) = Closed(r, rc)
    BY <1>3 DEF Opened, Closed, RefundsTo
  <2>3. IsFiniteSet(Processed(r, rc))
    BY <1>1, FS_Subset DEF Processed
  <2>4. Cardinality(Processed(r, rc2)) = Cardinality(Processed(r, rc)) + 1
    BY <2>1, <2>3, FS_AddElement
  <2> QED BY <2>2, <2>4 DEF PerRound, Counted, RefundsTo
<1>6. rd2.gross = SumOf(Stake(rc2), Of(r))
  <2> DEFINE f == Stake(rc)
             g == Stake(rc2)
  <2>1. \A x \in Of(r) : f[x] \in Nat
    BY <1>1, ReceiptAmounts DEF Stake
  <2>2. f[id] = rc[id].total /\ g[id] = 0
    BY <1>1, <1>3 DEF Stake, RefundsTo
  <2>3. \A x \in Of(r) \ {id} : g[x] = f[x]
    BY <1>1, <1>3 DEF Stake
  <2>4. rd.gross = SumOf(f, Of(r)) /\ rd2.gross = rd.gross - rc[id].total
    BY DEF PerRound, Kept, RefundsTo
  <2> HIDE DEF f, g
  <2>5. SumOf(g, Of(r)) = SumOf(f, Of(r)) - f[id] + g[id] /\ SumOf(f, Of(r)) \in Nat
        /\ f[id] \in Nat
    BY <1>1, <2>1, <2>2, <2>3, SumChange, SumType
  <2> QED BY <2>2, <2>4, <2>5 DEF g
<1>7. ~Untouched(r, rc2)
  BY <1>3 DEF Untouched
<1>8. Kept(r, rd2, rc2)
  BY <1>6, <1>7 DEF Kept, RefundsTo
<1> QED BY <1>4, <1>5, <1>8 DEF PerRound

\* What a refund writes.
LEMMA RefundFrame ==
    ASSUME TypeOK, NEW id \in ReceiptIds, RefundReceipt(id)
    PROVE  LET r == id[1]
           IN /\ RefundsTo(round[r], round'[r], receipt, receipt', id)
              /\ now >= refund_at(r)
              /\ \A s \in RoundIds \ {r} : round'[s] = round[s]
              /\ receipt[id].total <= vault.round[r]
              /\ vault'.round = [vault.round EXCEPT ![r] = vault.round[r] - receipt[id].total]
              /\ UNCHANGED <<now, config, accrued>>
<1> DEFINE r == id[1]
<1>1. r \in RoundIds /\ id \in Of(r)
  BY FiniteReceipts
<1>2. round[r] \in RoundType /\ round \in [RoundIds -> RoundType]
      /\ receipt \in [ReceiptIds -> ReceiptType]
      /\ vault \in [round : [RoundIds -> U64], config : U64, stake : U64, buyback : U64, admin : U64]
  BY <1>1 DEF TypeOK
<1>3. /\ round[r].status = "live" /\ ~round[r].settled /\ receipt[id].status = "open"
      /\ receipt[id].total <= round[r].gross /\ receipt[id].total <= vault.round[r]
      /\ now >= refund_at(r) /\ UNCHANGED <<now, config, accrued>>
  BY DEF RefundReceipt, Live
<1> DEFINE left == vault.round[r] - receipt[id].total
           tiles == [t \in Tiles |-> round[r].tile_lamports[t] - receipt[id].amounts[t]]
           total == round[r].gross - receipt[id].total
           prize == round[r].prize - receipt[id].total
           count == round[r].processed_receipts + 1
           nd == [round[r] EXCEPT !.tile_lamports = tiles, !.gross = total, !.prize = prize,
                                  !.processed_receipts = count]
           pots == [vault.round EXCEPT ![r] = left]
<1>4. vault'.round = pots
  <2>1. vault' = [vault EXCEPT !.round = pots]
    BY DEF RefundReceipt
  <2> HIDE DEF pots
  <2> QED BY <1>2, <2>1
<1>5. round' = [round EXCEPT ![r] = nd]
  BY DEF RefundReceipt
<1>6. /\ nd.status = round[r].status /\ nd.settled = round[r].settled
      /\ nd.archived = round[r].archived /\ nd.gross = total
      /\ nd.total_receipts = round[r].total_receipts /\ nd.processed_receipts = count
      /\ nd.closed_receipts = round[r].closed_receipts
  <2> HIDE DEF tiles, total, prize, count
  <2> QED BY <1>2 DEF RoundType
<1> HIDE DEF nd
<1>7. round'[r] = nd /\ \A s \in RoundIds \ {r} : round'[s] = round[s]
  BY <1>1, <1>2, <1>5
<1>8. receipt' = [receipt EXCEPT ![id] = [receipt[id] EXCEPT !.status = "refunded"]]
  BY DEF RefundReceipt
<1>9. RefundsTo(round[r], round'[r], receipt, receipt', id)
  BY <1>3, <1>6, <1>7, <1>8 DEF RefundsTo
<1> QED BY <1>3, <1>4, <1>7, <1>9

LEMMA RefundKeeps ==
    ASSUME TypeOK, EscrowInv, NEW id \in ReceiptIds, RefundReceipt(id)
    PROVE  EscrowInv'
<1>1. PICK r, rd, rd2, rc, rc2, time :
          r = id[1] /\ rd = round[r] /\ rd2 = round'[r] /\ rc = receipt /\ rc2 = receipt' /\ time = now
  OBVIOUS
<1>2. r \in RoundIds /\ id \in Of(r)
  BY <1>1, FiniteReceipts
<1>3. RefundsTo(rd, rd2, rc, rc2, id) /\ time >= refund_at(r)
      /\ (\A s \in RoundIds \ {r} : round'[s] = round[s]) /\ now' = now
  BY <1>1, RefundFrame
<1>4. rd \in RoundType /\ rc \in [ReceiptIds -> ReceiptType]
  BY <1>1, <1>2 DEF TypeOK
<1>5. PerRound(r, rd, rc, time)
  BY <1>1, <1>2 DEF EscrowInv
<1>6. PerRound(r, rd2, rc2, time)
  BY <1>2, <1>3, <1>4, <1>5, Refunded
<1>7. \A x \in ReceiptIds : x[1] # r => receipt'[x] = receipt[x]
  BY <1>1, <1>2, <1>3, <1>4 DEF RefundsTo
<1> QED BY <1>1, <1>2, <1>3, <1>6, <1>7, OneRound

\* What closing a receipt does to its round and its account.
ClosesTo(rd, rd2, rc, rc2, id) ==
    /\ rd.status = "live" /\ rd.archived /\ rc[id].status \in {"claimed", "refunded"}
    /\ SameTerms(rd2, rd) /\ rd2.claimed = rd.claimed
    /\ rd2.status = "live" /\ rd2.settled = rd.settled /\ rd2.archived
    /\ rd2.total_receipts = rd.total_receipts
    /\ rd2.processed_receipts = rd.processed_receipts
    /\ rd2.closed_receipts = rd.closed_receipts + 1
    /\ rc2 = [rc EXCEPT ![id] = [NoReceipt EXCEPT !.status = "closed"]]

LEMMA ClosedReceipt ==
    ASSUME NEW r \in RoundIds, NEW rd \in RoundType, NEW rc \in [ReceiptIds -> ReceiptType],
           NEW time, PerRound(r, rd, rc, time),
           NEW id \in Of(r), NEW rd2, NEW rc2, ClosesTo(rd, rd2, rc, rc2, id)
    PROVE  PerRound(r, rd2, rc2, time)
<1>1. IsFiniteSet(Of(r)) /\ Of(r) \in SUBSET ReceiptIds
  BY FiniteReceipts
<1>2. PICK nr : nr = [NoReceipt EXCEPT !.status = "closed"]
  OBVIOUS
<1>3. rc2[id] = nr /\ nr.status = "closed" /\ \A x \in Of(r) \ {id} : rc2[x] = rc[x]
  BY <1>1, <1>2 DEF ClosesTo, NoReceipt
<1>4. Lived(r, rd2, rc2, time)
  <2>1. ~rd.settled => time >= refund_at(r)
    BY DEF PerRound, Lived, ClosesTo
  <2>2. ASSUME NEW x \in Of(r)
        PROVE  /\ rc2[x].status = "absent" => rc2[x] = NoReceipt
               /\ rc2[x].status = "claimed" => rd.settled
               /\ rc2[x].status # "open"
    <3>1. CASE x = id
      BY <1>3, <3>1
    <3>2. CASE x # id
      BY <1>3, <3>2 DEF PerRound, Lived, ClosesTo
    <3> QED BY <3>1, <3>2
  <2> QED BY <2>1, <2>2 DEF Lived, ClosesTo
<1>5. Counted(r, rd2, rc2)
  <2>1. Closed(r, rc2) = Closed(r, rc) \cup {id} /\ id \notin Closed(r, rc)
    BY <1>3 DEF Closed, ClosesTo
  <2>2. Opened(r, rc2) = Opened(r, rc) /\ Processed(r, rc2) = Processed(r, rc)
    BY <1>3 DEF Opened, Processed, ClosesTo
  <2>3. IsFiniteSet(Closed(r, rc))
    BY <1>1, FS_Subset DEF Closed
  <2>4. Cardinality(Closed(r, rc2)) = Cardinality(Closed(r, rc)) + 1
    BY <2>1, <2>3, FS_AddElement
  <2> QED BY <2>2, <2>4 DEF PerRound, Counted, ClosesTo
<1>6. ~rd2.settled => rd2.gross = SumOf(Stake(rc2), Of(r))
  <2>1. \A x \in Of(r) : Stake(rc)[x] \in Nat
    BY <1>1, ReceiptAmounts DEF Stake
  <2>2. \A x \in Of(r) : Stake(rc2)[x] = Stake(rc)[x]
    BY <1>1, <1>3 DEF Stake, ClosesTo
  <2>3. SumOf(Stake(rc2), Of(r)) = SumOf(Stake(rc), Of(r))
    BY <1>1, <2>1, <2>2, SumCongruent
  <2> QED BY <2>3 DEF PerRound, Kept, ClosesTo, SameTerms
<1>7. ~Untouched(r, rc2)
  BY <1>3 DEF Untouched
<1>8. \A x : Rewards(rd2, x) = Rewards(rd, x)
  BY RewardsSame DEF ClosesTo
<1>9. ASSUME rd.settled
      PROVE  /\ \A x \in Of(r) : rc2[x].status = "open" =>
                  Rewards(rd2, rc2[x]) \in [sol : Nat, myne : Nat, motherlode : Nat]
             /\ rd2.claimed + SumOf([x \in ReceiptIds |-> Sol(rd2, rc2[x])], Of(r))
                  = rd2.prize + rd2.motherlode_payout
  <2> DEFINE f == [x \in ReceiptIds |-> Sol(rd, rc[x])]
             g == [x \in ReceiptIds |-> Sol(rd2, rc2[x])]
  <2>1. Kept(r, rd, rc)
    BY DEF PerRound
  <2>2. \A x \in Of(r) : f[x] \in Nat
    BY <1>1, <1>9, <2>1, SolType
  <2>3. \A x \in Of(r) : g[x] = f[x]
    <3> SUFFICES ASSUME NEW x \in Of(r) PROVE g[x] = f[x]
      OBVIOUS
    <3>1. CASE x = id
      BY <1>1, <1>3, <3>1 DEF Sol, ClosesTo
    <3>2. CASE x # id
      BY <1>1, <1>3, <1>8, <3>2 DEF Sol
    <3> QED BY <3>1, <3>2
  <2>4. rd.claimed + SumOf(f, Of(r)) = rd.prize + rd.motherlode_payout
    BY <1>9, <2>1 DEF Kept
  <2>5. \A x \in Of(r) : rc2[x].status = "open" =>
                  Rewards(rd2, rc2[x]) \in [sol : Nat, myne : Nat, motherlode : Nat]
    BY <1>3, <1>8, <1>9, <2>1 DEF Kept
  <2> HIDE DEF f, g
  <2>6. SumOf(g, Of(r)) = SumOf(f, Of(r))
    BY <1>1, <2>2, <2>3, SumCongruent
  <2>7. rd2.claimed + SumOf(g, Of(r)) = rd2.prize + rd2.motherlode_payout
    BY <2>4, <2>6 DEF ClosesTo, SameTerms
  <2> QED BY <2>5, <2>7 DEF g
<1>10. Kept(r, rd2, rc2)
  BY <1>6, <1>7, <1>9 DEF Kept, ClosesTo
<1> QED BY <1>4, <1>5, <1>10 DEF PerRound

\* What closing a receipt writes.
LEMMA CloseReceiptFrame ==
    ASSUME TypeOK, NEW id \in ReceiptIds, close_receipt(id)
    PROVE  LET r == id[1]
           IN /\ ClosesTo(round[r], round'[r], receipt, receipt', id)
              /\ \A s \in RoundIds \ {r} : round'[s] = round[s]
              /\ UNCHANGED <<now, config, vault, accrued>>
<1> DEFINE r == id[1]
<1>1. r \in RoundIds
  BY FiniteReceipts
<1>2. round[r] \in RoundType /\ round \in [RoundIds -> RoundType]
  BY <1>1 DEF TypeOK
<1>3. /\ round[r].status = "live" /\ round[r].archived
      /\ receipt[id].status \in {"claimed", "refunded"}
      /\ receipt' = [receipt EXCEPT ![id] = [NoReceipt EXCEPT !.status = "closed"]]
      /\ UNCHANGED <<now, config, vault, accrued>>
  BY DEF close_receipt, Live
<1> DEFINE nd == [round[r] EXCEPT !.closed_receipts = round[r].closed_receipts + 1]
<1>4. round' = [round EXCEPT ![r] = nd]
  BY <1>1, <1>2 DEF close_receipt
<1>5. /\ SameTerms(nd, round[r]) /\ nd.status = round[r].status /\ nd.settled = round[r].settled
      /\ nd.archived = round[r].archived /\ nd.claimed = round[r].claimed
      /\ nd.total_receipts = round[r].total_receipts
      /\ nd.processed_receipts = round[r].processed_receipts
      /\ nd.closed_receipts = round[r].closed_receipts + 1
  BY <1>2 DEF RoundType, SameTerms
<1> HIDE DEF nd
<1>6. round'[r] = nd /\ \A s \in RoundIds \ {r} : round'[s] = round[s]
  BY <1>1, <1>2, <1>4
<1>7. ClosesTo(round[r], round'[r], receipt, receipt', id)
  BY <1>3, <1>5, <1>6 DEF ClosesTo
<1> QED BY <1>3, <1>6, <1>7

LEMMA CloseReceiptKeeps ==
    ASSUME TypeOK, EscrowInv, NEW id \in ReceiptIds, close_receipt(id)
    PROVE  EscrowInv'
<1>1. PICK r, rd, rd2, rc, rc2, time :
          r = id[1] /\ rd = round[r] /\ rd2 = round'[r] /\ rc = receipt /\ rc2 = receipt' /\ time = now
  OBVIOUS
<1>2. r \in RoundIds /\ id \in Of(r)
  BY <1>1, FiniteReceipts
<1>3. ClosesTo(rd, rd2, rc, rc2, id) /\ (\A s \in RoundIds \ {r} : round'[s] = round[s]) /\ now' = now
  BY <1>1, CloseReceiptFrame
<1>4. rd \in RoundType /\ rc \in [ReceiptIds -> ReceiptType]
  BY <1>1, <1>2 DEF TypeOK
<1>5. PerRound(r, rd, rc, time)
  BY <1>1, <1>2 DEF EscrowInv
<1>6. PerRound(r, rd2, rc2, time)
  BY <1>2, <1>3, <1>4, <1>5, ClosedReceipt
<1>7. \A x \in ReceiptIds : x[1] # r => receipt'[x] = receipt[x]
  BY <1>1, <1>2, <1>3, <1>4 DEF ClosesTo
<1> QED BY <1>1, <1>2, <1>3, <1>6, <1>7, OneRound

-----------------------------------------------------------------------------
(* The draw.                                                               *)

\* Shares of a pool by the intervals of telescoping tickets make up the pool.
LEMMA PoolShares ==
    ASSUME NEW S, IsFiniteSet(S), NEW st, NEW am, NEW top \in Nat \ {0},
           Telescopes(S, st, am, top), \A x \in S : st[x] \in Nat /\ am[x] \in Nat,
           NEW pool \in Nat, NEW f,
           \A x \in S : f[x] = proportional_interval_share(pool, st[x], am[x], top)
    PROVE  /\ \A x \in S : f[x] \in Nat /\ (am[x] = 0 => f[x] = 0)
           /\ SumOf(f, S) = pool
<1> DEFINE F == [x \in Nat |-> (pool * x) \div top]
           g == [x \in S |-> Slice(F, st, am, x)]
<1>1. F \in Growing
  BY PoolGrows
<1>2. F[0] = 0 /\ F[top] = pool
  BY PoolSpent
<1>3. \A x \in S : f[x] = Slice(F, st, am, x)
  <2> SUFFICES ASSUME NEW x \in S PROVE f[x] = Slice(F, st, am, x)
    OBVIOUS
  <2>1. F[st[x] + am[x]] = (pool * (st[x] + am[x])) \div top /\ F[st[x]] = (pool * st[x]) \div top
    OBVIOUS
  <2> HIDE DEF F
  <2> QED BY <2>1 DEF Slice, proportional_interval_share, mul_div
<1> HIDE DEF F
<1>4. \A x \in S : f[x] \in Nat /\ (am[x] = 0 => f[x] = 0)
  BY <1>1, <1>3, SliceType
<1>5. \A x \in S : f[x] \in Nat /\ g[x] = f[x]
  BY <1>3, <1>4
<1>6. F[0] + SumOf(g, S) = F[top]
  BY <1>1 DEF Telescopes
<1> HIDE DEF g
<1>7. SumOf(g, S) = SumOf(f, S) /\ SumOf(f, S) \in Nat
  BY <1>5, SumCongruent, SumType
<1> QED BY <1>2, <1>4, <1>6, <1>7

\* The one interval that holds a ticket takes everything.
LEMMA OneWinner ==
    ASSUME NEW S, IsFiniteSet(S), NEW st, NEW am, NEW top \in Nat,
           Telescopes(S, st, am, top), \A x \in S : st[x] \in Nat /\ am[x] \in Nat,
           NEW sample \in Nat, sample < top, NEW pool \in Nat, NEW f,
           \A x \in S : f[x] = IF am[x] > 0 /\ sample \in st[x] .. (st[x] + am[x] - 1)
                               THEN pool ELSE 0
    PROVE  /\ \A x \in S : f[x] \in Nat
           /\ SumOf(f, S) = pool
<1> DEFINE F == [x \in Nat |-> IF x > sample THEN pool ELSE 0]
           g == [x \in S |-> Slice(F, st, am, x)]
<1>1. F \in Growing
  BY DEF Growing
<1>2. F[0] = 0 /\ F[top] = pool
  OBVIOUS
<1>3. \A x \in S : f[x] \in Nat /\ g[x] = f[x]
  BY DEF Slice
<1> HIDE DEF F
<1>4. F[0] + SumOf(g, S) = F[top]
  BY <1>1 DEF Telescopes
<1> HIDE DEF g
<1>5. SumOf(g, S) = SumOf(f, S) /\ SumOf(f, S) \in Nat
  BY <1>3, SumCongruent, SumType
<1> QED BY <1>2, <1>3, <1>4, <1>5

\* Nothing for anybody of an empty pool.
LEMMA NoShares ==
    ASSUME NEW S, IsFiniteSet(S), NEW f, \A x \in S : f[x] = 0
    PROVE  SumOf(f, S) = 0
<1> DEFINE none == {}
<1>1. \A x \in S \ none : f[x] = 0
  OBVIOUS
<1>2. SumOf(f, S) = SumOf(f, none)
  BY <1>1, SumZeros
<1> QED BY <1>2, SumType, FS_EmptySet

\* The parts of a reward.
Won(rd, rc) == rc.amounts[rd.winning_tile] > 0 /\ rd.tile_lamports[rd.winning_tile] > 0
PrizePart(rd, rc) ==
    IF Won(rd, rc)
    THEN proportional_interval_share(rd.prize, rc.cumulative_starts[rd.winning_tile],
             rc.amounts[rd.winning_tile], rd.tile_lamports[rd.winning_tile])
    ELSE 0
BasePart(rd, rc) ==
    IF ~Won(rd, rc) THEN 0
    ELSE IF rd.solo_mode
    THEN IF rd.solo_sample \in rc.cumulative_starts[rd.winning_tile] ..
                (rc.cumulative_starts[rd.winning_tile] + rc.amounts[rd.winning_tile] - 1)
         THEN rd.base_emission ELSE 0
    ELSE proportional_interval_share(rd.base_emission, rc.cumulative_starts[rd.winning_tile],
             rc.amounts[rd.winning_tile], rd.tile_lamports[rd.winning_tile])
SharedPart(rd, rc, pool) ==
    IF rd.gross > 0
    THEN proportional_interval_share(pool, checked_sum(rc.cumulative_starts), rc.total, rd.gross)
    ELSE 0

LEMMA RewardParts ==
    ASSUME NEW rd, NEW rc
    PROVE  Rewards(rd, rc) = [ sol |-> PrizePart(rd, rc) + SharedPart(rd, rc, rd.motherlode_payout),
                               myne |-> BasePart(rd, rc),
                               motherlode |-> SharedPart(rd, rc, rd.motherlode_emission) ]
BY DEF Rewards, receipt_rewards, PrizePart, BasePart, SharedPart, Won

\* What a settlement does to its round.
SettlesTo(rd, rd2) ==
    /\ rd.status = "live" /\ ~rd.settled
    /\ rd2.status = "live" /\ rd2.settled /\ rd2.archived = rd.archived
    /\ rd2.tile_lamports = rd.tile_lamports /\ rd2.gross = rd.gross /\ rd2.claimed = 0
    /\ rd2.total_receipts = rd.total_receipts
    /\ rd2.processed_receipts = rd.processed_receipts
    /\ rd2.closed_receipts = rd.closed_receipts
    /\ rd2.winning_tile \in Tiles /\ rd2.prize \in Nat /\ rd2.motherlode_payout \in Nat
    /\ rd2.base_emission \in Nat /\ rd2.motherlode_emission \in Nat
    /\ rd.tile_lamports[rd2.winning_tile] = 0 => rd2.prize = 0 /\ rd2.base_emission = 0
    /\ rd.tile_lamports[rd2.winning_tile] > 0 =>
          rd2.solo_sample \in Nat /\ rd2.solo_sample < rd.tile_lamports[rd2.winning_tile]
    /\ rd.gross = 0 => rd2.motherlode_payout = 0 /\ rd2.motherlode_emission = 0

\* A settled round owes its receipts its pools.
LEMMA SettledShares ==
    ASSUME NEW r \in RoundIds, NEW rd \in RoundType, NEW rc \in [ReceiptIds -> ReceiptType],
           Sliced(r, rd, rc), NEW rd2, SettlesTo(rd, rd2),
           \A id \in Of(r) : rc[id].status # "open" => rc[id] = NoReceipt
    PROVE  /\ \A id \in Of(r) :
                Rewards(rd2, rc[id]) \in [sol : Nat, myne : Nat, motherlode : Nat]
           /\ SumOf([id \in ReceiptIds |-> Sol(rd2, rc[id])], Of(r))
                = rd2.prize + rd2.motherlode_payout
           /\ SumOf([id \in ReceiptIds |-> Myne(rd2, rc[id])], Of(r))
                = rd2.base_emission + rd2.motherlode_emission
<1> DEFINE S == Of(r)
           tile == rd2.winning_tile
           st == TileStarts(rc, tile)
           am == TileAmounts(rc, tile)
           all == AllStarts(rc)
           tot == AllAmounts(rc)
           top == rd.tile_lamports[tile]
           prize == [id \in ReceiptIds |-> PrizePart(rd2, rc[id])]
           base == [id \in ReceiptIds |-> BasePart(rd2, rc[id])]
           payout == [id \in ReceiptIds |-> SharedPart(rd2, rc[id], rd2.motherlode_payout)]
           bonus == [id \in ReceiptIds |-> SharedPart(rd2, rc[id], rd2.motherlode_emission)]
<1>1. IsFiniteSet(S) /\ S \in SUBSET ReceiptIds
  BY FiniteReceipts
<1>2. /\ tile \in Tiles /\ rd2.prize \in Nat /\ rd2.motherlode_payout \in Nat
      /\ rd2.base_emission \in Nat /\ rd2.motherlode_emission \in Nat
      /\ rd2.tile_lamports = rd.tile_lamports /\ rd2.gross = rd.gross
      /\ top = 0 => rd2.prize = 0 /\ rd2.base_emission = 0
      /\ top > 0 => rd2.solo_sample \in Nat /\ rd2.solo_sample < top
      /\ rd.gross = 0 => rd2.motherlode_payout = 0 /\ rd2.motherlode_emission = 0
      /\ rd2.settled
  BY DEF SettlesTo
<1>3. top \in Nat /\ rd.gross \in Nat
  <2>1. U64 \subseteq Nat
    BY EconomicsAssumption DEF U64
  <2> QED BY <1>2, <2>1 DEF RoundType
<1>4. /\ \A x \in S : st[x] \in Nat /\ am[x] \in Nat
      /\ \A x \in S : all[x] \in Nat /\ tot[x] \in Nat
  BY <1>1, <1>2, ReceiptAmounts DEF TileStarts, TileAmounts, AllStarts, AllAmounts
<1>5. Telescopes(S, st, am, top) /\ Telescopes(S, all, tot, rd.gross)
  BY <1>2 DEF Sliced
<1>6. \A x \in S : /\ rc[x].cumulative_starts[tile] = st[x] /\ rc[x].amounts[tile] = am[x]
                   /\ checked_sum(rc[x].cumulative_starts) = all[x] /\ rc[x].total = tot[x]
  BY <1>1, <1>2 DEF TileStarts, TileAmounts, AllStarts, AllAmounts
<1> HIDE DEF st, am, all, tot
<1>7. \A x \in S : Won(rd2, rc[x]) <=> am[x] > 0 /\ top > 0
  BY <1>2, <1>6 DEF Won
<1>8. ASSUME NEW pool \in Nat, rd.gross = 0 => pool = 0, NEW f,
             \A x \in S : f[x] = SharedPart(rd2, rc[x], pool)
      PROVE  (\A x \in S : f[x] \in Nat) /\ SumOf(f, S) = pool
  <2>1. CASE rd.gross = 0
    <3>1. \A x \in S : f[x] = 0
      BY <1>2, <1>3, <1>8, <2>1 DEF SharedPart
    <3> QED BY <1>1, <1>8, <2>1, <3>1, NoShares
  <2>2. CASE rd.gross # 0
    <3>1. rd.gross \in Nat \ {0}
      BY <1>3, <2>2
    <3>2. \A x \in S : f[x] = proportional_interval_share(pool, all[x], tot[x], rd.gross)
      BY <1>2, <1>6, <1>8, <3>1 DEF SharedPart
    <3> QED BY <1>1, <1>4, <1>5, <1>8, <3>1, <3>2, PoolShares
  <2> QED BY <2>1, <2>2
<1>9. (\A x \in S : prize[x] \in Nat) /\ SumOf(prize, S) = rd2.prize
  <2>1. CASE top = 0
    <3>1. \A x \in S : prize[x] = 0
      BY <1>1, <1>7, <2>1 DEF PrizePart
    <3> HIDE DEF prize
    <3> QED BY <1>1, <1>2, <2>1, <3>1, NoShares
  <2>2. CASE top # 0
    <3> DEFINE f == [x \in S |-> proportional_interval_share(rd2.prize, st[x], am[x], top)]
    <3>1. top \in Nat \ {0}
      BY <1>3, <2>2
    <3>2. \A x \in S : f[x] = proportional_interval_share(rd2.prize, st[x], am[x], top)
      OBVIOUS
    <3> HIDE DEF f
    <3>3. (\A x \in S : f[x] \in Nat /\ (am[x] = 0 => f[x] = 0)) /\ SumOf(f, S) = rd2.prize
      BY <1>1, <1>2, <1>4, <1>5, <3>1, <3>2, PoolShares
    <3>4. \A x \in S : f[x] \in Nat /\ prize[x] = f[x]
      <4> SUFFICES ASSUME NEW x \in S PROVE prize[x] = f[x]
        BY <3>3
      <4>1. prize[x] = PrizePart(rd2, rc[x])
        BY <1>1
      <4>2. CASE am[x] = 0
        BY <1>7, <3>3, <4>1, <4>2 DEF PrizePart
      <4>3. CASE am[x] # 0
        <5>1. am[x] > 0 /\ top > 0
          BY <1>4, <3>1, <4>3
        <5>2. Won(rd2, rc[x])
          BY <1>7, <5>1
        <5> QED BY <1>2, <1>6, <3>2, <4>1, <5>2 DEF PrizePart
      <4> QED BY <4>2, <4>3
    <3> HIDE DEF prize
    <3> QED BY <1>1, <3>3, <3>4, SumCongruent
  <2> QED BY <2>1, <2>2
<1>10. (\A x \in S : base[x] \in Nat) /\ SumOf(base, S) = rd2.base_emission
  <2>1. CASE top = 0
    <3>1. \A x \in S : base[x] = 0
      BY <1>1, <1>7, <2>1 DEF BasePart
    <3> HIDE DEF base
    <3> QED BY <1>1, <1>2, <2>1, <3>1, NoShares
  <2>2. CASE top # 0 /\ rd2.solo_mode
    <3>1. top > 0 /\ rd2.solo_sample \in Nat /\ rd2.solo_sample < top
      BY <1>2, <1>3, <2>2
    <3>2. \A x \in S : base[x] =
              IF am[x] > 0 /\ rd2.solo_sample \in st[x] .. (st[x] + am[x] - 1)
              THEN rd2.base_emission ELSE 0
      BY <1>1, <1>6, <1>7, <2>2, <3>1 DEF BasePart
    <3> HIDE DEF base
    <3>3. PICK sample, pool : sample = rd2.solo_sample /\ pool = rd2.base_emission
      OBVIOUS
    <3>4. sample \in Nat /\ sample < top /\ pool \in Nat
      BY <1>2, <3>1, <3>3
    <3>5. \A x \in S : base[x] = IF am[x] > 0 /\ sample \in st[x] .. (st[x] + am[x] - 1)
                                 THEN pool ELSE 0
      BY <3>2, <3>3
    <3>6. (\A x \in S : base[x] \in Nat) /\ SumOf(base, S) = pool
      <4> HIDE DEF top, tile
      <4> QED BY <1>1, <1>3, <1>4, <1>5, <3>4, <3>5, OneWinner
    <3> QED BY <3>3, <3>6
  <2>3. CASE top # 0 /\ ~rd2.solo_mode
    <3> DEFINE f == [x \in S |-> proportional_interval_share(rd2.base_emission, st[x], am[x], top)]
    <3>1. top \in Nat \ {0}
      BY <1>3, <2>3
    <3>2. \A x \in S : f[x] = proportional_interval_share(rd2.base_emission, st[x], am[x], top)
      OBVIOUS
    <3> HIDE DEF f
    <3>3. (\A x \in S : f[x] \in Nat /\ (am[x] = 0 => f[x] = 0)) /\ SumOf(f, S) = rd2.base_emission
      BY <1>1, <1>2, <1>4, <1>5, <3>1, <3>2, PoolShares
    <3>4. \A x \in S : f[x] \in Nat /\ base[x] = f[x]
      <4> SUFFICES ASSUME NEW x \in S PROVE base[x] = f[x]
        BY <3>3
      <4>1. base[x] = BasePart(rd2, rc[x])
        BY <1>1
      <4>2. CASE am[x] = 0
        BY <1>7, <3>3, <4>1, <4>2, SMTT(30) DEF BasePart
      <4>3. CASE am[x] # 0
        <5>1. am[x] > 0 /\ top > 0
          BY <1>4, <3>1, <4>3
        <5>2. Won(rd2, rc[x])
          BY <1>7, <5>1
        <5> QED BY <1>2, <1>6, <2>3, <3>2, <4>1, <5>2 DEF BasePart
      <4> QED BY <4>2, <4>3
    <3> HIDE DEF base
    <3> QED BY <1>1, <3>3, <3>4, SumCongruent
  <2> QED BY <2>1, <2>2, <2>3
<1>11. (\A x \in S : payout[x] \in Nat) /\ SumOf(payout, S) = rd2.motherlode_payout
  <2>1. \A x \in S : payout[x] = SharedPart(rd2, rc[x], rd2.motherlode_payout)
    BY <1>1
  <2> HIDE DEF payout
  <2> QED BY <1>2, <1>8, <2>1
<1>12. (\A x \in S : bonus[x] \in Nat) /\ SumOf(bonus, S) = rd2.motherlode_emission
  <2>1. \A x \in S : bonus[x] = SharedPart(rd2, rc[x], rd2.motherlode_emission)
    BY <1>1
  <2> HIDE DEF bonus
  <2> QED BY <1>2, <1>8, <2>1
<1>13. \A x \in S : /\ Rewards(rd2, rc[x]).sol = prize[x] + payout[x]
                    /\ Rewards(rd2, rc[x]).myne = base[x]
                    /\ Rewards(rd2, rc[x]).motherlode = bonus[x]
                    /\ Rewards(rd2, rc[x]) = [ sol |-> prize[x] + payout[x],
                                               myne |-> base[x], motherlode |-> bonus[x] ]
  BY <1>1, RewardParts
<1> DEFINE sol == [id \in ReceiptIds |-> Sol(rd2, rc[id])]
           myne == [id \in ReceiptIds |-> Myne(rd2, rc[id])]
<1>14. \A x \in S : rc[x].status # "open" => am[x] = 0 /\ tot[x] = 0 /\ all[x] \in Nat
  BY <1>2, <1>4, <1>6 DEF NoReceipt, NoTiles
<1>15. \A x \in S : rc[x].status # "open" =>
           prize[x] = 0 /\ payout[x] = 0 /\ base[x] = 0 /\ bonus[x] = 0
  <2> SUFFICES ASSUME NEW x \in S, rc[x].status # "open"
               PROVE  prize[x] = 0 /\ payout[x] = 0 /\ base[x] = 0 /\ bonus[x] = 0
    OBVIOUS
  <2>1. ~Won(rd2, rc[x])
    BY <1>7, <1>14
  <2>2. prize[x] = 0 /\ base[x] = 0
    BY <1>1, <2>1 DEF PrizePart, BasePart
  <2>3. ASSUME NEW pool \in Nat PROVE SharedPart(rd2, rc[x], pool) = 0
    <3>1. tot[x] = 0 /\ all[x] \in Nat
      BY <1>14
    <3>2. \A y \in Nat : proportional_interval_share(pool, y, 0, rd.gross) = 0 \/ rd.gross = 0
      <4> SUFFICES ASSUME NEW y \in Nat, rd.gross \in Nat \ {0}
                   PROVE  proportional_interval_share(pool, y, 0, rd.gross) = 0
        BY <1>3
      <4>1. pool * y \in Nat /\ y + 0 = y
        BY ProductMonotone
      <4>2. (pool * y) \div rd.gross \in Nat
        BY <4>1, DivBounds
      <4> QED BY <4>1, <4>2 DEF proportional_interval_share, mul_div
    <3> QED BY <1>2, <1>6, <3>1, <3>2 DEF SharedPart
  <2>4. payout[x] = 0 /\ bonus[x] = 0
    BY <1>1, <1>2, <2>3
  <2> QED BY <2>2, <2>4
<1> HIDE DEF prize, base, payout, bonus
<1>16. \A x \in S : /\ prize[x] \in Nat /\ payout[x] \in Nat /\ sol[x] = prize[x] + payout[x]
                    /\ base[x] \in Nat /\ bonus[x] \in Nat /\ myne[x] = base[x] + bonus[x]
  <2> SUFFICES ASSUME NEW x \in S
               PROVE  sol[x] = prize[x] + payout[x] /\ myne[x] = base[x] + bonus[x]
    BY <1>9, <1>10, <1>11, <1>12
  <2>1. sol[x] = Sol(rd2, rc[x]) /\ myne[x] = Myne(rd2, rc[x])
    BY <1>1
  <2>2. CASE rc[x].status = "open"
    BY <1>2, <1>13, <2>1, <2>2 DEF Sol, Myne
  <2>3. CASE rc[x].status # "open"
    BY <1>15, <2>1, <2>3 DEF Sol, Myne
  <2> QED BY <2>2, <2>3
<1>17. \A x \in S : Rewards(rd2, rc[x]) \in [sol : Nat, myne : Nat, motherlode : Nat]
  <2> SUFFICES ASSUME NEW x \in S
               PROVE  Rewards(rd2, rc[x]) \in [sol : Nat, myne : Nat, motherlode : Nat]
    OBVIOUS
  <2>1. prize[x] \in Nat /\ payout[x] \in Nat /\ base[x] \in Nat /\ bonus[x] \in Nat
    BY <1>16
  <2>2. prize[x] + payout[x] \in Nat /\ base[x] \in Nat /\ bonus[x] \in Nat
    BY <2>1
  <2>3. Rewards(rd2, rc[x]) = [ sol |-> prize[x] + payout[x],
                                myne |-> base[x], motherlode |-> bonus[x] ]
    BY <1>13
  <2> QED BY <2>2, <2>3
<1> HIDE DEF sol, myne
<1>18. SumOf(sol, S) = SumOf(prize, S) + SumOf(payout, S)
  BY <1>1, <1>16, SumAdds
<1>19. SumOf(myne, S) = SumOf(base, S) + SumOf(bonus, S)
  BY <1>1, <1>16, SumAdds
<1> QED BY <1>9, <1>10, <1>11, <1>12, <1>17, <1>18, <1>19 DEF sol, myne

LEMMA Settled ==
    ASSUME NEW r \in RoundIds, NEW rd \in RoundType, NEW rc \in [ReceiptIds -> ReceiptType],
           NEW time \in Int, time < refund_at(r), PerRound(r, rd, rc, time),
           NEW rd2, SettlesTo(rd, rd2)
    PROVE  /\ PerRound(r, rd2, rc, time)
           /\ SumOf([id \in ReceiptIds |-> Myne(rd2, rc[id])], Of(r))
                = rd2.base_emission + rd2.motherlode_emission
<1>1. /\ Untouched(r, rc) /\ ~rd.archived /\ Sliced(r, rd, rc)
      /\ \A id \in Of(r) : rc[id].status # "open" => rc[id] = NoReceipt
  BY NobodyLeft DEF SettlesTo
<1>2. /\ \A id \in Of(r) :
            Rewards(rd2, rc[id]) \in [sol : Nat, myne : Nat, motherlode : Nat]
      /\ SumOf([id \in ReceiptIds |-> Sol(rd2, rc[id])], Of(r))
            = rd2.prize + rd2.motherlode_payout
      /\ SumOf([id \in ReceiptIds |-> Myne(rd2, rc[id])], Of(r))
            = rd2.base_emission + rd2.motherlode_emission
  BY <1>1, SettledShares
<1>3. Lived(r, rd2, rc, time)
  BY <1>1 DEF PerRound, Lived, SettlesTo, Untouched
<1>4. Counted(r, rd2, rc)
  BY DEF PerRound, Counted, SettlesTo
<1>5. Kept(r, rd2, rc)
  BY <1>2 DEF Kept, SettlesTo
<1> QED BY <1>2, <1>3, <1>4, <1>5 DEF PerRound

\* What a settlement mints is in the motherlode or owed to the round.
Mints(cf, cf2, rd2) ==
    /\ cf2.total_emitted <= MAX_SUPPLY
    /\ cf2.total_emitted + cf.motherlode_base_units
         = cf.total_emitted + cf2.motherlode_base_units
             + (rd2.base_emission + rd2.motherlode_emission)

\* What a settlement writes.
LEMMA DrawFrame ==
    ASSUME TypeOK, Books, NEW r \in RoundIds, Live(r), Drawn(r)
    PROVE  /\ SettlesTo(round[r], round'[r])
           /\ \A s \in RoundIds \ {r} : round'[s] = round[s] /\ vault'.round[s] = vault.round[s]
           /\ Mints(config, config', round'[r])
           /\ UNCHANGED <<now, receipt, accrued>>
<1>1. PICK tile \in Tiles, solo \in BOOLEAN, hit \in BOOLEAN :
          \E sample \in SoloSamples(r, tile) : settle_round_core(r, tile, solo, hit, sample)
  BY DEF Drawn
<1>2. PICK sample \in SoloSamples(r, tile) : settle_round_core(r, tile, solo, hit, sample)
  BY <1>1
<1> DEFINE payout == IF motherlode_pays_round(r, hit) THEN Pot(r, tile) ELSE 0
           bonus  == IF motherlode_pays_round(r, hit) THEN Bonus(r, tile) ELSE 0
           fees   == mining_fee_allocation(round[r].gross)
           done   == fees.buyback = 0 \/ ~liquidity_gate_required(program)
           prize  == Prize(r) - Rollover(r, tile)
           base   == Emissions(r, tile).base
           nd     == [round[r] EXCEPT
                !.settled = TRUE, !.winning_tile = tile, !.solo_mode = solo,
                !.motherlode_hit = hit, !.solo_sample = sample, !.prize = prize,
                !.buyback_completed = done, !.base_emission = base,
                !.motherlode_emission = bonus, !.motherlode_payout = payout]
<1>3. round[r] \in RoundType /\ round \in [RoundIds -> RoundType]
      /\ vault \in [round : [RoundIds -> U64], config : U64, stake : U64, buyback : U64, admin : U64]
      /\ config \in [motherlode_lamports : U64, motherlode_base_units : U64, total_emitted : U64]
  BY DEF TypeOK
<1>4. round' = [round EXCEPT ![r] = nd]
  BY <1>2 DEF settle_round_core
<1>5. /\ nd.settled = TRUE /\ nd.status = round[r].status /\ nd.archived = round[r].archived
      /\ nd.winning_tile = tile /\ nd.solo_sample = sample /\ nd.prize = prize
      /\ nd.base_emission = base /\ nd.motherlode_emission = bonus
      /\ nd.motherlode_payout = payout /\ nd.tile_lamports = round[r].tile_lamports
      /\ nd.gross = round[r].gross /\ nd.claimed = round[r].claimed
      /\ nd.total_receipts = round[r].total_receipts
      /\ nd.processed_receipts = round[r].processed_receipts
      /\ nd.closed_receipts = round[r].closed_receipts
  <2> HIDE DEF payout, bonus, done, prize, base
  <2> QED BY <1>3 DEF RoundType
<1>6. nd \in RoundType
  <2>1. round' \in [RoundIds -> RoundType]
    BY SettleType DEF TypeOK
  <2> HIDE DEF nd
  <2> QED BY <1>3, <1>4, <2>1
<1> HIDE DEF nd
<1>7. round'[r] = nd /\ \A s \in RoundIds \ {r} : round'[s] = round[s]
  BY <1>3, <1>4
<1>8. U64 \subseteq Nat
  BY EconomicsAssumption DEF U64
<1>9. /\ prize \in Nat /\ payout \in Nat /\ base \in Nat /\ bonus \in Nat
      /\ round[r].gross \in Nat /\ round[r].tile_lamports[tile] \in Nat
  <2>1. /\ nd.prize \in Nat /\ nd.motherlode_payout \in Nat
        /\ nd.base_emission \in Nat /\ nd.motherlode_emission \in Nat
        /\ round[r].gross \in Nat /\ round[r].tile_lamports \in [Tiles -> U64]
    BY <1>3, <1>6, <1>8 DEF RoundType
  <2> HIDE DEF payout, bonus, prize, base
  <2> QED BY <1>5, <1>8, <2>1
<1>10. round[r].tile_lamports[tile] = 0 => prize = 0 /\ base = 0
  <2> SUFFICES ASSUME round[r].tile_lamports[tile] = 0 PROVE prize = 0 /\ base = 0
    OBVIOUS
  <2>1. base = 0
    BY DEF Emissions, round_emissions
  <2>2. fees.total \in Int
    BY <1>2, <1>8 DEF settle_round_core, FeesComputable
  <2>3. Prize(r) \in Int
    BY <1>9, <2>2 DEF Prize
  <2> QED BY <2>1, <2>3 DEF Rollover
<1>11. round[r].tile_lamports[tile] > 0 =>
          sample \in Nat /\ sample < round[r].tile_lamports[tile]
  BY <1>9 DEF SoloSamples
<1>12. round[r].gross = 0 => payout = 0 /\ bonus = 0
  BY <1>9 DEF motherlode_pays_round
<1>13. ~round[r].settled /\ round[r].claimed = 0 /\ round[r].status = "live"
       /\ UNCHANGED <<now, receipt, accrued>>
  BY <1>2 DEF settle_round_core, Books, Unstarted, Live
<1>14. SettlesTo(round[r], round'[r])
  <2> HIDE DEF payout, bonus, prize, base
  <2> QED BY <1>5, <1>7, <1>9, <1>10, <1>11, <1>12, <1>13 DEF SettlesTo
<1>15. \A s \in RoundIds \ {r} : vault'.round[s] = vault.round[s]
  <2>1. PICK left : vault'.round = [vault.round EXCEPT ![r] = left]
    BY <1>2 DEF settle_round_core
  <2> QED BY <1>3, <2>1
<1>16. Mints(config, config', round'[r])
  <2> DEFINE minted == Emissions(r, tile).motherlode
  <2>1. config' = ConfigAfter(r, tile, hit) /\ config.total_emitted <= MAX_SUPPLY
    BY <1>2 DEF settle_round_core
  <2>2. config.total_emitted \in Nat /\ MAX_SUPPLY \in Nat /\ config.motherlode_base_units \in Nat
    BY <1>3, <1>8, EconomicsAssumption
  <2>3. MOTHERLODE_ROUND_EMISSION \in Nat /\ BASE_ROUND_EMISSION \in Nat
    BY <1>8, EconomicsAssumption
  <2>4. minted \in Nat /\ base \in Nat /\ minted + base <= MAX_SUPPLY - config.total_emitted
    BY <2>1, <2>2, <2>3 DEF Emissions, round_emissions, smaller
  <2>5. /\ config'.total_emitted = config.total_emitted + minted + base
        /\ config'.motherlode_base_units = IF motherlode_pays_round(r, hit) THEN 0 ELSE Bonus(r, tile)
        /\ Bonus(r, tile) = config.motherlode_base_units + minted
    BY <2>1 DEF ConfigAfter, Bonus
  <2>6. nd.base_emission = base /\ nd.motherlode_emission = bonus
    BY <1>5
  <2> HIDE DEF minted, base
  <2>7. config'.motherlode_base_units + bonus = config.motherlode_base_units + minted
    BY <2>2, <2>4, <2>5
  <2>8. config'.motherlode_base_units \in Nat
    BY <2>2, <2>4, <2>5
  <2> HIDE DEF bonus
  <2> QED BY <1>7, <1>9, <2>2, <2>4, <2>5, <2>6, <2>7, <2>8 DEF Mints
<1> QED BY <1>7, <1>13, <1>14, <1>15, <1>16

SettleStep(r) == settle_round(r) \/ settle_round_verified(r) \/ settle_round_server(r)

LEMMA SettleKeeps ==
    ASSUME Production, TypeOK, Books, EscrowInv, NEW r \in RoundIds, SettleStep(r)
    PROVE  EscrowInv'
<1>1. PICK rd, rd2, rc, time : rd = round[r] /\ rd2 = round'[r] /\ rc = receipt /\ time = now
  OBVIOUS
<1>2. Live(r) /\ now < refund_at(r) /\ Drawn(r)
  BY ProductionSettles DEF SettleStep, InSettlementWindow
<1>3. SettlesTo(rd, rd2) /\ time < refund_at(r)
      /\ (\A s \in RoundIds \ {r} : round'[s] = round[s]) /\ UNCHANGED <<now, receipt>>
  BY <1>1, <1>2, DrawFrame
<1>4. rd \in RoundType /\ rc \in [ReceiptIds -> ReceiptType] /\ time \in Int
  BY <1>1 DEF TypeOK
<1>5. PerRound(r, rd, rc, time)
  BY <1>1 DEF EscrowInv
<1>6. PerRound(r, rd2, rc, time)
  BY <1>3, <1>4, <1>5, Settled
<1> QED BY <1>1, <1>3, <1>6, OneRound

-----------------------------------------------------------------------------
(* The invariant.                                                          *)

\* The steps by what they do to a round's wagers.
LEMMA StepKinds ==
    ASSUME [Next]_vars
    PROVE  \/ UNCHANGED <<round, receipt, config, accrued>> /\ vault' = vault
              /\ (now' = now \/ now' = now + 1)
           \/ \E r \in RoundIds : open_round(r) \/ FieldStep(r) \/ SettleStep(r) \/ close_round(r)
           \/ \E id \in ReceiptIds : \/ \E w \in Wagers : deploy(id, w)
                                     \/ PayReceipt(id)
                                     \/ RefundReceipt(id)
                                     \/ close_receipt(id)
<1>1. CASE UNCHANGED vars
  BY <1>1 DEF vars
<1>2. CASE Environment \/ Administration
  BY <1>2 DEF Environment, Administration, Tick, pool_reserves_change, switchboard_commit,
       set_paused, set_randomness_program
<1>3. CASE Provider
  <2>1. PICK r \in RoundIds :
          \/ open_round(r)
          \/ bind_round_randomness(r)
          \/ bind_round_server_commitment(r)
          \/ record_round_randomness_commit(r)
          \/ lock_round_server_entropy(r)
          \/ SettleStep(r)
          \/ mark_buyback_completed(r)
          \/ archive_round(r)
          \/ close_round(r)
    BY <1>3 DEF Provider, SettleStep
  <2>2. bind_round_randomness(r) \/ bind_round_server_commitment(r)
          \/ record_round_randomness_commit(r) \/ lock_round_server_entropy(r)
          \/ mark_buyback_completed(r) \/ archive_round(r) => Live(r)
    BY DEF bind_round_randomness, bind_round_server_commitment,
       record_round_randomness_commit, lock_round_server_entropy, mark_buyback_completed,
       archive_round
  <2> QED BY <2>1, <2>2 DEF FieldStep
<1>4. CASE MinerSteps
  BY <1>4 DEF MinerSteps, claim_receipt, settle_receipt, refund_receipt,
       refund_receipt_permissionless
<1> QED BY <1>1, <1>2, <1>3, <1>4 DEF Next

LEMMA NextEscrow ==
    ASSUME Production, TypeOK, Books, Ordered, EscrowInv, [Next]_vars
    PROVE  EscrowInv'
<1>1. CASE UNCHANGED <<round, receipt>> /\ (now' = now \/ now' = now + 1)
  <2> SUFFICES ASSUME NEW r \in RoundIds PROVE PerRound(r, round'[r], receipt', now')
    BY DEF EscrowInv
  <2>1. PICK rd, rc, time, time2 : rd = round[r] /\ rc = receipt /\ time = now /\ time2 = now'
    OBVIOUS
  <2>2. rc \in [ReceiptIds -> ReceiptType] /\ PerRound(r, rd, rc, time) /\ time \in Int
    BY <2>1 DEF EscrowInv, TypeOK
  <2>3. time >= refund_at(r) => time2 >= refund_at(r)
    <3>1. time2 = time \/ time2 = time + 1
      BY <1>1, <2>1
    <3>2. refund_at(r) \in Int
      BY WindowsOrdered
    <3> QED BY <2>2, <3>1, <3>2
  <2>4. PerRound(r, rd, rc, time2)
    BY <2>2, <2>3, OtherRound
  <2> QED BY <1>1, <2>1, <2>4
<1>2. ASSUME NEW r \in RoundIds,
             open_round(r) \/ FieldStep(r) \/ SettleStep(r) \/ close_round(r)
      PROVE  EscrowInv'
  BY <1>2, OpenKeeps, FieldKeeps, SettleKeeps, CloseKeeps
<1>3. ASSUME NEW id \in ReceiptIds,
             \/ \E w \in Wagers : deploy(id, w)
             \/ PayReceipt(id)
             \/ RefundReceipt(id)
             \/ close_receipt(id)
      PROVE  EscrowInv'
  BY <1>3, DeployKeeps, PayKeeps, RefundKeeps, CloseReceiptKeeps
<1> QED BY <1>1, <1>2, <1>3, StepKinds

LEMMA InitEscrow == Init => EscrowInv
<1> SUFFICES ASSUME Init, NEW r \in RoundIds PROVE PerRound(r, round[r], receipt, now)
  BY DEF EscrowInv
<1>1. PICK rc, time : rc = receipt /\ time = now
  OBVIOUS
<1>2. round[r] = EmptyRound("absent") /\ \A id \in Of(r) : rc[id] = NoReceipt
  BY <1>1 DEF Init, Of
<1>3. PerRound(r, EmptyRound("absent"), rc, time)
  BY <1>2, EmptyRoundKept
<1> QED BY <1>1, <1>2, <1>3

\* In the production build every round accounts for its receipts in every
\* reachable state.
LEMMA EscrowInvariant ==
    ASSUME Production
    PROVE  Spec => [](TypeOK /\ Books /\ Ordered /\ EscrowInv)
<1>1. TypeOK /\ Books /\ Ordered /\ EscrowInv /\ [Next]_vars => EscrowInv'
  BY NextEscrow
<1> QED BY <1>1, InitEscrow, TypeCorrect, BooksBalance, OrderKept, PTL DEF Spec

-----------------------------------------------------------------------------
(* MYNE.                                                                   *)

Owes(rds, rc) == [id \in ReceiptIds |-> Myne(rds[id[1]], rc[id])]
Credits(ac)   == [m \in Miners |-> ac[m].myne + ac[m].burn]

MyneBooks(cf, rds, rc, ac) ==
    /\ cf.total_emitted <= MAX_SUPPLY
    /\ cf.total_emitted - GENESIS_BASE_UNITS
         = cf.motherlode_base_units + SumOf(Owes(rds, rc), ReceiptIds)
             + SumOf(Credits(ac), Miners)

MyneInv == MyneBooks(config, round, receipt, accrued)

\* What a receipt is owed is a natural.
LEMMA OwesType ==
    ASSUME EscrowInv
    PROVE  \A id \in ReceiptIds : Owes(round, receipt)[id] \in Nat
<1> SUFFICES ASSUME NEW id \in ReceiptIds PROVE Myne(round[id[1]], receipt[id]) \in Nat
  BY DEF Owes
<1>1. PICK r, rd, rc, time : r = id[1] /\ rd = round[r] /\ rc = receipt /\ time = now
  OBVIOUS
<1>2. r \in RoundIds /\ id \in Of(r)
  BY <1>1, FiniteReceipts
<1>3. PerRound(r, rd, rc, time)
  BY <1>1, <1>2 DEF EscrowInv
<1>4. rc[id].status = "open" /\ rd.settled =>
          Rewards(rd, rc[id]) \in [sol : Nat, myne : Nat, motherlode : Nat]
  BY <1>2, <1>3 DEF PerRound, Kept
<1>5. Myne(rd, rc[id]) \in Nat
  BY <1>4 DEF Myne
<1> QED BY <1>1, <1>5

\* A step after which every receipt is owed what it was.
LEMMA OwesSame ==
    ASSUME EscrowInv, MyneInv, UNCHANGED <<config, accrued>>,
           \A id \in ReceiptIds : Owes(round', receipt')[id] = Owes(round, receipt)[id]
    PROVE  MyneInv'
<1>1. PICK f, g : f = Owes(round, receipt) /\ g = Owes(round', receipt')
  OBVIOUS
<1>2. \A id \in ReceiptIds : f[id] \in Nat /\ g[id] = f[id]
  BY <1>1, OwesType
<1>3. SumOf(g, ReceiptIds) = SumOf(f, ReceiptIds)
  BY <1>2, FiniteReceipts, SumCongruent
<1> QED BY <1>1, <1>3 DEF MyneInv, MyneBooks

\* Nothing is owed to a receipt that is not open, or of a round not settled.
LEMMA NothingOwed ==
    ASSUME NEW rd, NEW rc, rc.status # "open" \/ ~rd.settled
    PROVE  Myne(rd, rc) = 0
BY DEF Myne

\* What a round owes does not depend on the receipts of others.
LEMMA OwesElsewhere ==
    ASSUME NEW r \in RoundIds, \A s \in RoundIds \ {r} : round'[s] = round[s],
           \A id \in ReceiptIds : id[1] # r => receipt'[id] = receipt[id],
           NEW id \in ReceiptIds, id[1] # r
    PROVE  Owes(round', receipt')[id] = Owes(round, receipt)[id]
<1>1. id[1] \in RoundIds \ {r}
  BY FiniteReceipts
<1> QED BY <1>1 DEF Owes

\* Steps that draw and pay nothing.
LEMMA ProviderMyne ==
    ASSUME Production, TypeOK, Books, Ordered, EscrowInv, MyneInv, NEW r \in RoundIds,
           open_round(r) \/ FieldStep(r) \/ close_round(r)
    PROVE  MyneInv'
<1>1. \A s \in RoundIds \ {r} : round'[s] = round[s]
  <2>1. round \in [RoundIds -> RoundType]
    BY DEF TypeOK
  <2> QED BY <2>1, FieldFrame DEF open_round, close_round
<1>2. UNCHANGED <<receipt, config, accrued>>
  BY FieldFrame DEF open_round, close_round
<1>3. ASSUME NEW id \in ReceiptIds
      PROVE  Owes(round', receipt')[id] = Owes(round, receipt)[id]
  <2>1. CASE id[1] # r
    BY <1>1, <1>2, <2>1, OwesElsewhere
  <2>2. CASE id[1] = r /\ FieldStep(r)
    <3>1. PICK rd, rd2 : rd = round[r] /\ rd2 = round'[r]
      OBVIOUS
    <3>2. SameRound(rd2, rd)
      BY <2>2, <3>1, FieldFrame
    <3>3. SameTerms(rd2, rd) /\ rd2.settled = rd.settled
      BY <3>2 DEF SameRound
    <3>4. \A x : Rewards(rd2, x) = Rewards(rd, x)
      BY <3>3, RewardsSame
    <3>5. Myne(rd2, receipt[id]) = Myne(rd, receipt[id])
      BY <3>3, <3>4 DEF Myne
    <3> QED BY <1>2, <2>2, <3>1, <3>5 DEF Owes
  <2>3. CASE id[1] = r /\ ~FieldStep(r)
    <3>1. id \in Of(r)
      BY <2>3 DEF Of
    <3>2. receipt[id].status # "open"
      BY <2>3, <3>1, OpensAbsent, ClosesSpent DEF NoReceipt
    <3>3. \A rd : Myne(rd, receipt[id]) = 0
      BY <3>2, NothingOwed
    <3> QED BY <1>2, <3>3 DEF Owes
  <2> QED BY <2>1, <2>2, <2>3
<1> QED BY <1>2, <1>3, OwesSame

LEMMA ReceiptMyne ==
    ASSUME TypeOK, EscrowInv, MyneInv, NEW id \in ReceiptIds,
           \/ \E w \in Wagers : deploy(id, w)
           \/ RefundReceipt(id)
           \/ close_receipt(id)
    PROVE  MyneInv'
<1>1. PICK r, rd, rd2, rc, rc2 :
          r = id[1] /\ rd = round[r] /\ rd2 = round'[r] /\ rc = receipt /\ rc2 = receipt'
  OBVIOUS
<1>2. r \in RoundIds /\ id \in Of(r) /\ rc \in [ReceiptIds -> ReceiptType]
  BY <1>1, FiniteReceipts DEF TypeOK
<1>3. \A w \in Wagers : deploy(id, w) =>
          /\ DeploysTo(rd, rd2, rc, rc2, id, w) /\ UNCHANGED <<config, accrued>>
          /\ \A s \in RoundIds \ {r} : round'[s] = round[s]
  BY <1>1, DeployFrame
<1>4. RefundReceipt(id) =>
          /\ RefundsTo(rd, rd2, rc, rc2, id) /\ UNCHANGED <<config, accrued>>
          /\ \A s \in RoundIds \ {r} : round'[s] = round[s]
  BY <1>1, RefundFrame
<1>5. close_receipt(id) =>
          /\ ClosesTo(rd, rd2, rc, rc2, id) /\ UNCHANGED <<config, accrued>>
          /\ \A s \in RoundIds \ {r} : round'[s] = round[s]
  BY <1>1, CloseReceiptFrame
<1>6. UNCHANGED <<config, accrued>> /\ \A s \in RoundIds \ {r} : round'[s] = round[s]
  BY <1>3, <1>4, <1>5
<1>7. \/ \E w \in Wagers : DeploysTo(rd, rd2, rc, rc2, id, w)
      \/ RefundsTo(rd, rd2, rc, rc2, id)
      \/ ClosesTo(rd, rd2, rc, rc2, id)
  BY <1>3, <1>4, <1>5
<1>8. \A x \in ReceiptIds \ {id} : rc2[x] = rc[x]
  BY <1>2, <1>7 DEF DeploysTo, RefundsTo, ClosesTo
<1>9. \/ ~rd.settled /\ ~rd2.settled
      \/ ClosesTo(rd, rd2, rc, rc2, id)
  BY <1>7 DEF DeploysTo, RefundsTo
<1>10. ASSUME NEW x \in Of(r) PROVE Myne(rd2, rc2[x]) = Myne(rd, rc[x])
  <2>1. CASE ~rd.settled /\ ~rd2.settled
    BY <2>1, NothingOwed
  <2>2. CASE ClosesTo(rd, rd2, rc, rc2, id)
    <3>1. \A y : Rewards(rd2, y) = Rewards(rd, y)
      BY <2>2, RewardsSame DEF ClosesTo
    <3>2. CASE x = id
      <4>1. rc[x].status # "open" /\ rc2[x].status # "open"
        BY <1>2, <2>2, <3>2 DEF ClosesTo, NoReceipt
      <4> QED BY <4>1, NothingOwed
    <3>3. CASE x # id
      <4>1. rc2[x] = rc[x] /\ rd2.settled = rd.settled
        BY <1>8, <2>2, <3>3 DEF ClosesTo, Of
      <4> QED BY <3>1, <4>1 DEF Myne
    <3> QED BY <3>2, <3>3
  <2> QED BY <1>9, <2>1, <2>2
<1>11. \A x \in ReceiptIds : x[1] # r => receipt'[x] = receipt[x]
  BY <1>1, <1>8
<1>12. ASSUME NEW x \in ReceiptIds
       PROVE  Owes(round', receipt')[x] = Owes(round, receipt)[x]
  <2>1. CASE x[1] # r
    BY <1>2, <1>6, <1>11, <2>1, OwesElsewhere
  <2>2. CASE x[1] = r
    <3>1. x \in Of(r)
      BY <2>2 DEF Of
    <3> QED BY <1>1, <1>10, <2>2, <3>1 DEF Owes
  <2> QED BY <2>1, <2>2
<1> QED BY <1>6, <1>12, OwesSame

\* A payment moves what its receipt was owed to its miner.
LEMMA PayMyne ==
    ASSUME TypeOK, EscrowInv, MyneInv, NEW id \in ReceiptIds, PayReceipt(id)
    PROVE  MyneInv'
<1>1. PICK r, m, rd, rd2, rc, rc2 : /\ r = id[1] /\ m = id[2] /\ rd = round[r] /\ rd2 = round'[r]
                                    /\ rc = receipt /\ rc2 = receipt'
  OBVIOUS
<1>2. r \in RoundIds /\ m \in Miners /\ id \in Of(r) /\ rc \in [ReceiptIds -> ReceiptType]
  BY <1>1, FiniteReceipts DEF TypeOK
<1>3. PICK rewards, kept : /\ rewards = Rewards(rd, rc[id])
                           /\ kept = IF rc[id].reward_mode = 0 THEN rewards.myne ELSE 0
  OBVIOUS
<1>4. /\ PaysTo(rd, rd2, rc, rc2, id)
      /\ \A s \in RoundIds \ {r} : round'[s] = round[s]
      /\ rewards \in [sol : U64, myne : U64, motherlode : U64]
      /\ UNCHANGED config
  BY <1>1, <1>3, PayFrame
<1>5. accrued' = [accrued EXCEPT ![m] =
                    [ sol |-> accrued[m].sol + rewards.sol, myne |-> accrued[m].myne + kept,
                      burn |-> accrued[m].burn + (rewards.motherlode + rewards.myne - kept) ]]
  BY <1>1, <1>3, PayFrame
<1>6. rewards.myne \in Nat /\ rewards.motherlode \in Nat /\ kept \in Nat
  <2>1. U64 \subseteq Nat
    BY EconomicsAssumption DEF U64
  <2> QED BY <1>3, <1>4, <2>1
<1> DEFINE due == rewards.myne + rewards.motherlode
<1>7. \A x \in ReceiptIds \ {id} : rc2[x] = rc[x]
  BY <1>2, <1>4 DEF PaysTo
<1>8. PICK f, g, c, d : /\ f = Owes(round, receipt) /\ g = Owes(round', receipt')
                        /\ c = Credits(accrued) /\ d = Credits(accrued')
  OBVIOUS
<1>9. SumOf(g, ReceiptIds) = SumOf(f, ReceiptIds) - due /\ SumOf(f, ReceiptIds) \in Nat
  <2>1. \A x \in ReceiptIds : f[x] \in Nat
    BY <1>8, OwesType
  <2>2. f[id] = due
    BY <1>1, <1>3, <1>4, <1>8 DEF Owes, Myne, PaysTo
  <2>3. g[id] = 0
    <3>1. rc2[id].status # "open"
      BY <1>2, <1>4 DEF PaysTo, ReceiptType
    <3> QED BY <1>1, <1>8, <3>1, NothingOwed DEF Owes
  <2>4. ASSUME NEW x \in ReceiptIds \ {id} PROVE g[x] = f[x]
    <3>1. CASE x[1] # r
      <4>1. \A y \in ReceiptIds : y[1] # r => receipt'[y] = receipt[y]
        BY <1>1, <1>7
      <4> QED BY <1>2, <1>4, <1>8, <3>1, <4>1, OwesElsewhere
    <3>2. CASE x[1] = r
      <4>1. \A y : Rewards(rd2, y) = Rewards(rd, y)
        BY <1>4, RewardsSame DEF PaysTo
      <4>2. Myne(rd2, rc2[x]) = Myne(rd, rc[x])
        BY <1>4, <1>7, <4>1 DEF Myne, PaysTo
      <4> QED BY <1>1, <1>8, <3>2, <4>2 DEF Owes
    <3> QED BY <3>1, <3>2
  <2>5. SumOf(g, ReceiptIds) = SumOf(f, ReceiptIds) - f[id] + g[id]
        /\ SumOf(f, ReceiptIds) \in Nat
    <3>1. IsFiniteSet(ReceiptIds) /\ g[id] \in Nat
      BY <2>3, FiniteReceipts
    <3> QED BY <2>1, <2>4, <3>1, SumChange, SumType
  <2> QED BY <1>6, <2>2, <2>3, <2>5
<1>10. SumOf(d, Miners) = SumOf(c, Miners) + due /\ SumOf(c, Miners) \in Nat
  <2>1. accrued \in [Miners -> [sol : U64, myne : U64, burn : U64]] /\ U64 \subseteq Nat
    BY EconomicsAssumption DEF TypeOK, U64
  <2>2. \A x \in Miners : accrued[x].myne \in Nat /\ accrued[x].burn \in Nat
    BY <2>1
  <2>3. \A x \in Miners : c[x] = accrued[x].myne + accrued[x].burn /\ c[x] \in Nat
    BY <1>8, <2>2 DEF Credits
  <2>4. /\ accrued'[m].myne = accrued[m].myne + kept
        /\ accrued'[m].burn = accrued[m].burn + (rewards.motherlode + rewards.myne - kept)
        /\ \A x \in Miners \ {m} : accrued'[x] = accrued[x]
    BY <1>2, <1>5, <2>1
  <2>5. d[m] = accrued'[m].myne + accrued'[m].burn
    BY <1>2, <1>8 DEF Credits
  <2>6. d[m] = c[m] + due /\ d[m] \in Nat /\ c[m] \in Nat
    BY <1>2, <1>6, <2>2, <2>3, <2>4, <2>5
  <2>7. \A x \in Miners \ {m} : d[x] = c[x]
    BY <1>8, <2>4 DEF Credits
  <2> HIDE DEF due
  <2>8. SumOf(d, Miners) = SumOf(c, Miners) - c[m] + d[m] /\ SumOf(c, Miners) \in Nat
    BY <1>2, <2>3, <2>6, <2>7, SumChange, SumType, RoundsAssumption
  <2>9. due \in Nat
    BY <1>6 DEF due
  <2> QED BY <2>6, <2>8, <2>9
<1>11. config.motherlode_base_units \in Int
  BY EconomicsAssumption DEF TypeOK, U64
<1>12. due \in Nat
  BY <1>6
<1> HIDE DEF due
<1>13. SumOf(g, ReceiptIds) + SumOf(d, Miners) = SumOf(f, ReceiptIds) + SumOf(c, Miners)
       /\ SumOf(g, ReceiptIds) \in Int /\ SumOf(d, Miners) \in Int
  BY <1>9, <1>10, <1>12
<1>14. config.motherlode_base_units + SumOf(g, ReceiptIds) + SumOf(d, Miners)
         = config.motherlode_base_units + SumOf(f, ReceiptIds) + SumOf(c, Miners)
  BY <1>9, <1>10, <1>11, <1>13
<1> QED BY <1>4, <1>8, <1>14 DEF MyneInv, MyneBooks

\* A settlement owes its receipts what it takes from the supply and the motherlode.
LEMMA SettleMyne ==
    ASSUME Production, TypeOK, Books, EscrowInv, MyneInv, NEW r \in RoundIds, SettleStep(r)
    PROVE  MyneInv'
<1>1. PICK rd, rd2, rc, time : rd = round[r] /\ rd2 = round'[r] /\ rc = receipt /\ time = now
  OBVIOUS
<1>2. Live(r) /\ now < refund_at(r) /\ Drawn(r)
  BY ProductionSettles DEF SettleStep, InSettlementWindow
<1>3. /\ SettlesTo(rd, rd2) /\ time < refund_at(r) /\ Mints(config, config', rd2)
      /\ (\A s \in RoundIds \ {r} : round'[s] = round[s]) /\ UNCHANGED <<receipt, accrued>>
  BY <1>1, <1>2, DrawFrame
<1>4. rd \in RoundType /\ rc \in [ReceiptIds -> ReceiptType] /\ time \in Int
  BY <1>1 DEF TypeOK
<1>5. PerRound(r, rd, rc, time)
  BY <1>1 DEF EscrowInv
<1> DEFINE h == [id \in ReceiptIds |-> Myne(rd2, rc[id])]
           due == rd2.base_emission + rd2.motherlode_emission
<1>6. SumOf(h, Of(r)) = due /\ PerRound(r, rd2, rc, time)
  BY <1>3, <1>4, <1>5, Settled
<1>7. Of(r) \in SUBSET ReceiptIds /\ IsFiniteSet(ReceiptIds)
  BY FiniteReceipts
<1>8. PICK f, g : f = Owes(round, receipt) /\ g = Owes(round', receipt')
  OBVIOUS
<1>9. \A x \in ReceiptIds : f[x] \in Nat
  BY <1>8, OwesType
<1>10. \A x \in Of(r) : f[x] = 0 /\ g[x] = h[x]
  <2> SUFFICES ASSUME NEW x \in Of(r) PROVE f[x] = 0 /\ g[x] = h[x]
    OBVIOUS
  <2>1. x \in ReceiptIds /\ x[1] = r
    BY DEF Of
  <2>2. Myne(rd, rc[x]) = 0
    BY <1>3, NothingOwed DEF SettlesTo
  <2> QED BY <1>1, <1>3, <1>8, <2>1, <2>2 DEF Owes
<1>11. \A x \in Of(r) : h[x] \in Nat
  <2> SUFFICES ASSUME NEW x \in Of(r) PROVE Myne(rd2, rc[x]) \in Nat
    BY <1>7
  <2>1. rc[x].status = "open" =>
            Rewards(rd2, rc[x]) \in [sol : Nat, myne : Nat, motherlode : Nat]
    BY <1>3, <1>6 DEF PerRound, Kept, SettlesTo
  <2> QED BY <2>1 DEF Myne
<1>12. \A x \in ReceiptIds \ Of(r) : g[x] = f[x]
  <2> SUFFICES ASSUME NEW x \in ReceiptIds \ Of(r) PROVE g[x] = f[x]
    OBVIOUS
  <2>1. x[1] # r
    BY DEF Of
  <2> QED BY <1>3, <1>8, <2>1, OwesElsewhere
<1> HIDE DEF h
<1>13. SumOf(g, ReceiptIds) = SumOf(f, ReceiptIds) + SumOf(h, Of(r))
       /\ SumOf(f, ReceiptIds) \in Nat
  BY <1>7, <1>9, <1>10, <1>11, <1>12, SumFills, SumType
<1>14. due \in Nat
  BY <1>3 DEF SettlesTo
<1> HIDE DEF due
<1>15. SumOf(g, ReceiptIds) = SumOf(f, ReceiptIds) + due /\ SumOf(f, ReceiptIds) \in Nat
  BY <1>6, <1>13
<1>16. /\ config.total_emitted \in Int /\ config.motherlode_base_units \in Int
       /\ config'.total_emitted \in Int /\ config'.motherlode_base_units \in Int
  <2>1. TypeOK'
    BY <1>2, SettleType
  <2> QED BY <2>1, EconomicsAssumption DEF TypeOK, U64
<1>17. PICK c : c = SumOf(Credits(accrued), Miners)
  OBVIOUS
<1>18. c \in Nat
  <2>1. accrued \in [Miners -> [sol : U64, myne : U64, burn : U64]] /\ U64 \subseteq Nat
    BY EconomicsAssumption DEF TypeOK, U64
  <2>2. \A x \in Miners : accrued[x].myne \in Nat /\ accrued[x].burn \in Nat
    BY <2>1
  <2>3. \A x \in Miners : Credits(accrued)[x] \in Nat
    BY <2>2 DEF Credits
  <2> QED BY <1>17, <2>3, SumType, RoundsAssumption
<1>19. config.total_emitted - GENESIS_BASE_UNITS
         = config.motherlode_base_units + SumOf(f, ReceiptIds) + c
  BY <1>8, <1>17 DEF MyneInv, MyneBooks
<1>20. config'.total_emitted + config.motherlode_base_units
         = config.total_emitted + config'.motherlode_base_units + due
       /\ config'.total_emitted <= MAX_SUPPLY
  BY <1>3 DEF Mints, due
<1>21. GENESIS_BASE_UNITS \in Int
  BY EconomicsAssumption DEF U64
<1>22. config'.total_emitted - GENESIS_BASE_UNITS
         = config'.motherlode_base_units + SumOf(g, ReceiptIds) + c
  BY <1>14, <1>15, <1>16, <1>18, <1>19, <1>20, <1>21
<1> QED BY <1>3, <1>8, <1>17, <1>20, <1>22 DEF MyneInv, MyneBooks

LEMMA NextMyne ==
    ASSUME Production, TypeOK, Books, Ordered, EscrowInv, MyneInv, [Next]_vars
    PROVE  MyneInv'
<1>1. CASE UNCHANGED <<round, receipt, config, accrued>>
  BY <1>1 DEF MyneInv
<1>2. ASSUME NEW r \in RoundIds,
             open_round(r) \/ FieldStep(r) \/ SettleStep(r) \/ close_round(r)
      PROVE  MyneInv'
  BY <1>2, ProviderMyne, SettleMyne
<1>3. ASSUME NEW id \in ReceiptIds,
             \/ \E w \in Wagers : deploy(id, w)
             \/ PayReceipt(id)
             \/ RefundReceipt(id)
             \/ close_receipt(id)
      PROVE  MyneInv'
  BY <1>3, ReceiptMyne, PayMyne
<1> QED BY <1>1, <1>2, <1>3, StepKinds

LEMMA InitMyne == Init => MyneInv
<1> SUFFICES ASSUME Init PROVE MyneInv
  OBVIOUS
<1>1. PICK f, c : f = Owes(round, receipt) /\ c = Credits(accrued)
  OBVIOUS
<1>2. \A id \in ReceiptIds : f[id] = 0
  <2>1. \A id \in ReceiptIds : receipt[id].status = "absent"
    BY DEF Init, NoReceipt
  <2> QED BY <1>1, <2>1 DEF Owes, Myne
<1>3. \A m \in Miners : c[m] = 0
  BY <1>1 DEF Init, Credits
<1>4. SumOf(f, ReceiptIds) = 0
  BY <1>2, FiniteReceipts, NoShares
<1>5. SumOf(c, Miners) = 0
  BY <1>3, RoundsAssumption, NoShares
<1>6. config.total_emitted = GENESIS_BASE_UNITS /\ config.motherlode_base_units = 0
      /\ GENESIS_BASE_UNITS \in Int /\ GENESIS_BASE_UNITS <= MAX_SUPPLY
  BY EconomicsAssumption DEF Init, U64
<1> QED BY <1>1, <1>4, <1>5, <1>6 DEF MyneInv, MyneBooks

\* In the production build every MYNE unit counted as emitted is in the
\* motherlode, owed to an open receipt of a settled round or credited to a
\* miner, and none is promised beyond the supply, for every board, every number
\* of rounds and receipts, and every order of draws and payments.
THEOREM MyneIsConserved ==
    ASSUME Production
    PROVE  Spec => []MyneConserved
<1>1. TypeOK /\ EscrowInv /\ MyneInv => MyneConserved
  <2> SUFFICES ASSUME TypeOK, EscrowInv, MyneInv PROVE MyneConserved
    OBVIOUS
  <2> DEFINE Owed(id) == receipt_rewards(round[id[1]], receipt[id]).myne
                           + receipt_rewards(round[id[1]], receipt[id]).motherlode
             Unclaimed == {id \in ReceiptIds : receipt[id].status = "open" /\ round[id[1]].settled}
             Credited(m) == accrued[m].myne + accrued[m].burn
             owed == [id \in Unclaimed |-> Owed(id)]
             credited == [m \in Miners |-> Credited(m)]
  <2>1. SumFunction(owed) = SumOf(Owes(round, receipt), ReceiptIds)
    <3>1. PICK f : f = Owes(round, receipt)
      OBVIOUS
    <3>2. \A id \in ReceiptIds : f[id] \in Nat
      BY <3>1, OwesType
    <3>3. \A id \in ReceiptIds \ Unclaimed : f[id] = 0
      BY <3>1 DEF Owes, Myne
    <3>4. \A id \in Unclaimed : owed[id] = f[id]
      BY <3>1 DEF Owes, Myne, Rewards
    <3>5. Unclaimed \in SUBSET ReceiptIds /\ DOMAIN owed = Unclaimed
      OBVIOUS
    <3> HIDE DEF owed, Unclaimed
    <3>6. SumFunction(owed) = SumOf(owed, Unclaimed)
      BY <3>5, SumFunctionIsSumOf
    <3>7. \A id \in Unclaimed : f[id] \in Nat /\ owed[id] = f[id]
      BY <3>2, <3>4, <3>5
    <3>8. SumOf(f, ReceiptIds) = SumOf(owed, Unclaimed)
      BY <3>3, <3>5, <3>7, FiniteReceipts, SumZeros
    <3> QED BY <3>1, <3>6, <3>8
  <2>2. SumFunction(credited) = SumOf(Credits(accrued), Miners)
    <3>1. credited = Credits(accrued) /\ DOMAIN credited = Miners
      BY DEF Credits
    <3> HIDE DEF credited
    <3> QED BY <3>1, SumFunctionIsSumOf
  <2>3. SumOver(Unclaimed, Owed) = SumFunction(owed)
    BY DEF SumOver
  <2>4. SumOver(Miners, Credited) = SumFunction(credited)
    BY DEF SumOver
  <2>5. config.total_emitted <= MAX_SUPPLY
        /\ config.total_emitted - GENESIS_BASE_UNITS =
             config.motherlode_base_units + SumFunction(owed) + SumFunction(credited)
    BY <2>1, <2>2 DEF MyneInv, MyneBooks
  <2> QED BY <2>3, <2>4, <2>5 DEF MyneConserved
<1>2. TypeOK /\ Books /\ Ordered /\ EscrowInv /\ MyneInv /\ [Next]_vars => MyneInv'
  BY NextMyne
<1>3. Spec => []MyneInv
  BY <1>2, InitMyne, EscrowInvariant, PTL DEF Spec
<1> QED BY <1>1, <1>3, EscrowInvariant, PTL

-----------------------------------------------------------------------------
(* The escrow.                                                             *)

PhaseOf(r, rd, rc) ==
    IF rd.status # "live"
    THEN IF rd.status = "closed" THEN "closed" ELSE "none"
    ELSE IF rd.settled THEN "paying"
    ELSE IF \E id \in Of(r) : rc[id].status \in {"refunded", "closed"}
    THEN "returning" ELSE "betting"

WagerOf(rc) ==
    CASE rc.status = "absent" -> "none"
      [] rc.status = "open"   -> "held"
      [] rc.status = "closed" -> "closed"
      [] OTHER -> "finished"

LEMMA EscrowState ==
    /\ EscrowPhase = [r \in RoundIds |-> PhaseOf(r, round[r], receipt)]
    /\ EscrowWager = [id \in ReceiptIds |-> WagerOf(receipt[id])]
BY DEF EscrowPhase, EscrowWager, PhaseOf, WagerOf, Of

LEMMA EscrowStateNext ==
    /\ EscrowPhase' = [r \in RoundIds |-> PhaseOf(r, round'[r], receipt')]
    /\ EscrowWager' = [id \in ReceiptIds |-> WagerOf(receipt'[id])]
BY DEF EscrowPhase, EscrowWager, PhaseOf, WagerOf, Of

\* A step in one round.
LEMMA PhaseChange ==
    ASSUME NEW r \in RoundIds, \A s \in RoundIds \ {r} : round'[s] = round[s],
           \A id \in ReceiptIds : id[1] # r => receipt'[id] = receipt[id],
           NEW p, PhaseOf(r, round'[r], receipt') = p
    PROVE  EscrowPhase' = [EscrowPhase EXCEPT ![r] = p]
<1>1. ASSUME NEW s \in RoundIds \ {r}
      PROVE  PhaseOf(s, round'[s], receipt') = PhaseOf(s, round[s], receipt)
  <2>1. \A id \in Of(s) : receipt'[id] = receipt[id]
    BY DEF Of
  <2> QED BY <2>1 DEF PhaseOf
<1>2. \A s \in RoundIds : EscrowPhase'[s] = [EscrowPhase EXCEPT ![r] = p][s]
  BY <1>1, EscrowState, EscrowStateNext
<1> QED BY <1>2, EscrowState, EscrowStateNext

\* A step that changes one receipt.
LEMMA WagerChange ==
    ASSUME TypeOK, NEW id \in ReceiptIds, NEW nr, receipt' = [receipt EXCEPT ![id] = nr]
    PROVE  /\ EscrowWager' = [EscrowWager EXCEPT ![id] = WagerOf(nr)]
           /\ AllAmounts(receipt') = [AllAmounts(receipt) EXCEPT ![id] = nr.total]
           /\ \A x \in ReceiptIds : x[1] # id[1] => receipt'[x] = receipt[x]
<1>1. receipt \in [ReceiptIds -> ReceiptType]
  BY DEF TypeOK
<1>2. receipt'[id] = nr /\ \A x \in ReceiptIds \ {id} : receipt'[x] = receipt[x]
  BY <1>1
<1>3. \A x \in ReceiptIds : EscrowWager'[x] = [EscrowWager EXCEPT ![id] = WagerOf(nr)][x]
  BY <1>2, EscrowState, EscrowStateNext
<1>4. EscrowWager' = [EscrowWager EXCEPT ![id] = WagerOf(nr)]
  BY <1>3, EscrowState, EscrowStateNext
<1>5. AllAmounts(receipt') = [AllAmounts(receipt) EXCEPT ![id] = nr.total]
  <2>1. \A x \in ReceiptIds : AllAmounts(receipt')[x]
                                  = [AllAmounts(receipt) EXCEPT ![id] = nr.total][x]
    BY <1>2 DEF AllAmounts
  <2> QED BY <2>1 DEF AllAmounts
<1>6. \A x \in ReceiptIds : x[1] # id[1] => receipt'[x] = receipt[x]
  BY <1>2
<1> QED BY <1>4, <1>5, <1>6

LEMMA EscrowOpens ==
    ASSUME Production, TypeOK, Books, Ordered, EscrowInv, NEW r \in RoundIds, open_round(r)
    PROVE  Escrow!Open(r)
<1>1. /\ round[r].status = "absent" /\ \A id \in Of(r) : receipt[id] = NoReceipt
      /\ round' = [round EXCEPT ![r] = EmptyRound("live")]
      /\ UNCHANGED <<receipt, vault>>
  BY OpensAbsent
<1>2. round'[r] = EmptyRound("live") /\ \A s \in RoundIds \ {r} : round'[s] = round[s]
  BY <1>1 DEF TypeOK
<1>3. EscrowPhase[r] = "none"
  BY <1>1, EscrowState DEF PhaseOf
<1>4. PhaseOf(r, round'[r], receipt') = "betting"
  BY <1>1, <1>2 DEF PhaseOf, EmptyRound, NoReceipt
<1>5. EscrowPhase' = [EscrowPhase EXCEPT ![r] = "betting"]
  BY <1>1, <1>2, <1>4, PhaseChange
<1>6. EscrowWager' = EscrowWager
  BY <1>1, EscrowState, EscrowStateNext
<1> QED BY <1>1, <1>3, <1>5, <1>6 DEF Escrow!Open

LEMMA EscrowStays ==
    ASSUME TypeOK, EscrowInv, NEW r \in RoundIds, FieldStep(r)
    PROVE  UNCHANGED <<EscrowPhase, EscrowWager, [id \in ReceiptIds |-> receipt[id].total], vault.round>>
<1>1. /\ SameRound(round'[r], round[r]) /\ \A s \in RoundIds \ {r} : round'[s] = round[s]
      /\ UNCHANGED <<receipt, vault>>
  BY FieldFrame
<1>2. \A s \in RoundIds : round'[s].status = round[s].status /\ round'[s].settled = round[s].settled
  BY <1>1 DEF SameRound
<1>3. \A s \in RoundIds : PhaseOf(s, round'[s], receipt') = PhaseOf(s, round[s], receipt)
  BY <1>1, <1>2 DEF PhaseOf
<1>4. EscrowPhase' = EscrowPhase
  BY <1>3, EscrowState, EscrowStateNext
<1>5. EscrowWager' = EscrowWager
  BY <1>1, EscrowState, EscrowStateNext
<1> QED BY <1>1, <1>4, <1>5

LEMMA EscrowCloses ==
    ASSUME TypeOK, Books, EscrowInv, NEW r \in RoundIds, close_round(r)
    PROVE  Escrow!CloseRound(r)
<1>1. /\ \A id \in Of(r) : receipt[id].status \in {"absent", "closed"}
      /\ vault.round[r] = 0
  BY ClosesSpent
<1>2. /\ round[r].status = "live" /\ round' = [round EXCEPT ![r] = EmptyRound("closed")]
      /\ receipt' = receipt /\ vault' = [vault EXCEPT !.round = [vault.round EXCEPT ![r] = 0]]
  BY DEF close_round, Live
<1>3. round'[r] = EmptyRound("closed") /\ \A s \in RoundIds \ {r} : round'[s] = round[s]
  BY <1>2 DEF TypeOK
<1>4. EscrowPhase[r] \in {"betting", "paying", "returning"}
  BY <1>2, EscrowState DEF PhaseOf
<1>5. Escrow!Unclosed(r) = {}
  <2>1. \A id \in ReceiptIds : id[1] = r => EscrowWager[id] \in {"none", "closed"}
    BY <1>1, EscrowState DEF WagerOf, Of
  <2> QED BY <2>1 DEF Escrow!Unclosed
<1>6. PhaseOf(r, round'[r], receipt') = "closed"
  BY <1>3 DEF PhaseOf, EmptyRound
<1>7. EscrowPhase' = [EscrowPhase EXCEPT ![r] = "closed"]
  BY <1>2, <1>3, <1>6, PhaseChange
<1>8. EscrowWager' = EscrowWager
  BY <1>2, EscrowState, EscrowStateNext
<1>9. vault'.round = vault.round
  BY <1>1, <1>2 DEF TypeOK
<1> QED BY <1>1, <1>2, <1>4, <1>5, <1>7, <1>8, <1>9 DEF Escrow!CloseRound

LEMMA EscrowPlaces ==
    ASSUME TypeOK, EscrowInv, NEW id \in ReceiptIds, NEW w \in Wagers, deploy(id, w)
    PROVE  Escrow!Place(id, checked_sum(w))
<1>1. PICK r, rd, rd2, rc, rc2, time :
          r = id[1] /\ rd = round[r] /\ rd2 = round'[r] /\ rc = receipt /\ rc2 = receipt' /\ time = now
  OBVIOUS
<1>2. r \in RoundIds /\ id \in Of(r)
  BY <1>1, FiniteReceipts
<1>3. time < refund_at(r) /\ DeploysTo(rd, rd2, rc, rc2, id, w)
      /\ (\A s \in RoundIds \ {r} : round'[s] = round[s])
      /\ vault'.round = [vault.round EXCEPT ![r] = vault.round[r] + checked_sum(w)]
  BY <1>1, DeployFrame
<1>4. rd \in RoundType /\ rc \in [ReceiptIds -> ReceiptType] /\ time \in Int
      /\ PerRound(r, rd, rc, time)
  BY <1>1, <1>2 DEF TypeOK, EscrowInv
<1>5. Untouched(r, rc)
  BY <1>2, <1>3, <1>4, NobodyLeft DEF DeploysTo
<1>6. PICK nr : /\ nr = [ status |-> "open", amounts |-> w, cumulative_starts |-> rd.tile_lamports,
                          total |-> checked_sum(w), reward_mode |-> 0 ]
                /\ rc2 = [rc EXCEPT ![id] = nr]
  BY <1>3 DEF DeploysTo
<1>7. WagerOf(nr) = "held" /\ nr.total = checked_sum(w)
  BY <1>6 DEF WagerOf
<1>8. /\ EscrowWager' = [EscrowWager EXCEPT ![id] = "held"]
      /\ AllAmounts(receipt') = [AllAmounts(receipt) EXCEPT ![id] = checked_sum(w)]
      /\ \A x \in ReceiptIds : x[1] # r => receipt'[x] = receipt[x]
  <2>1. receipt' = [receipt EXCEPT ![id] = nr]
    BY <1>1, <1>6
  <2>2. /\ EscrowWager' = [EscrowWager EXCEPT ![id] = WagerOf(nr)]
        /\ AllAmounts(receipt') = [AllAmounts(receipt) EXCEPT ![id] = nr.total]
        /\ \A x \in ReceiptIds : x[1] # id[1] => receipt'[x] = receipt[x]
    BY <2>1, WagerChange
  <2> QED BY <1>1, <1>7, <2>2
<1>9. EscrowWager[id] = "none"
  BY <1>1, <1>3, EscrowState DEF WagerOf, DeploysTo, NoReceipt
<1>10. PhaseOf(r, rd, rc) = "betting"
  BY <1>3, <1>5 DEF PhaseOf, DeploysTo, Untouched
<1>11. PhaseOf(r, rd2, rc2) = "betting"
  <2>1. \A x \in Of(r) : rc2[x].status \in {"absent", "open"}
    BY <1>4, <1>5, <1>6 DEF Untouched, Of
  <2> QED BY <1>3, <2>1 DEF PhaseOf, DeploysTo
<1>12. EscrowPhase[r] = "betting" /\ EscrowPhase' = EscrowPhase
  <2>1. EscrowPhase[r] = "betting"
    BY <1>1, <1>2, <1>10, EscrowState
  <2>2. EscrowPhase' = [EscrowPhase EXCEPT ![r] = "betting"]
    BY <1>1, <1>2, <1>3, <1>8, <1>11, PhaseChange
  <2> QED BY <2>1, <2>2, EscrowState
<1> QED BY <1>1, <1>2, <1>3, <1>8, <1>9, <1>12 DEF Escrow!Place, AllAmounts

LEMMA EscrowDraws ==
    ASSUME Production, TypeOK, Books, EscrowInv, NEW r \in RoundIds, SettleStep(r)
    PROVE  Escrow!Draw(r)
<1>1. PICK rd, rd2, rc, time : rd = round[r] /\ rd2 = round'[r] /\ rc = receipt /\ time = now
  OBVIOUS
<1>2. Live(r) /\ now < refund_at(r) /\ Drawn(r)
  BY ProductionSettles DEF SettleStep, InSettlementWindow
<1>3. /\ SettlesTo(rd, rd2) /\ time < refund_at(r)
      /\ (\A s \in RoundIds \ {r} : round'[s] = round[s] /\ vault'.round[s] = vault.round[s])
      /\ UNCHANGED receipt
  BY <1>1, <1>2, DrawFrame
<1>4. rd \in RoundType /\ rc \in [ReceiptIds -> ReceiptType] /\ time \in Int
      /\ PerRound(r, rd, rc, time)
  BY <1>1 DEF TypeOK, EscrowInv
<1>5. Untouched(r, rc) /\ Sliced(r, rd, rc)
  BY <1>3, <1>4, NobodyLeft DEF SettlesTo
<1>6. TypeOK' /\ Books'
  BY <1>2, SettleType, SettleBooks
<1>7. vault'.round[r] \in Nat /\ vault'.round = [vault.round EXCEPT ![r] = vault'.round[r]]
  <2>1. /\ vault.round \in [RoundIds -> U64] /\ vault'.round \in [RoundIds -> U64]
        /\ U64 \subseteq Nat
    BY <1>6, EconomicsAssumption DEF TypeOK, U64
  <2> QED BY <1>3, <2>1
<1>8. EscrowPhase[r] = "betting" /\ EscrowPhase' = [EscrowPhase EXCEPT ![r] = "paying"]
  <2>1. PhaseOf(r, rd, rc) = "betting"
    BY <1>3, <1>5 DEF PhaseOf, SettlesTo, Untouched
  <2>2. PhaseOf(r, rd2, rc) = "paying"
    BY <1>3 DEF PhaseOf, SettlesTo
  <2>3. EscrowPhase[r] = "betting"
    BY <1>1, <2>1, EscrowState
  <2>4. EscrowPhase' = [EscrowPhase EXCEPT ![r] = "paying"]
    BY <1>1, <1>3, <2>2, PhaseChange
  <2> QED BY <2>3, <2>4
<1>9. EscrowWager' = EscrowWager
  BY <1>3, EscrowState, EscrowStateNext
<1>10. ASSUME Escrow!Held(r) = {} PROVE vault'.round[r] = 0
  <2>1. \A id \in Of(r) : rc[id].status # "open"
    <3>1. \A id \in ReceiptIds : id[1] = r => EscrowWager[id] # "held"
      BY <1>10 DEF Escrow!Held
    <3>2. \A id \in ReceiptIds : rc[id].status = "open" => EscrowWager[id] = "held"
      BY <1>1, EscrowState DEF WagerOf
    <3> QED BY <3>1, <3>2 DEF Of
  <2>2. SumOf(Stake(rc), Of(r)) = 0
    BY <2>1, NothingStaked
  <2>3. rd.gross = 0
    BY <1>3, <1>4, <2>2 DEF PerRound, Kept, SettlesTo
  <2>4. rd2.winning_tile \in Tiles /\ rd.tile_lamports \in [Tiles -> Nat]
    <3>1. U64 \subseteq Nat
      BY EconomicsAssumption DEF U64
    <3> QED BY <1>3, <1>4, <3>1 DEF SettlesTo, RoundType
  <2>5. rd.tile_lamports[rd2.winning_tile] = 0
    <3>1. SumOf(rd.tile_lamports, Tiles) = 0
      BY <1>5, <2>3, <2>4, BoardSum DEF Sliced
    <3>2. rd.tile_lamports[rd2.winning_tile] <= SumOf(rd.tile_lamports, Tiles)
      BY <2>4, SumElement, EconomicsAssumption
    <3> QED BY <2>4, <3>1, <3>2
  <2>6. rd2.settled /\ rd2.prize = 0 /\ rd2.motherlode_payout = 0 /\ rd2.claimed = 0
    BY <1>3, <2>3, <2>5 DEF SettlesTo
  <2>7. vault'.round[r] = rd2.prize + rd2.motherlode_payout - rd2.claimed
    BY <1>1, <1>6, <2>6 DEF Books, RoundVaultExact
  <2> QED BY <2>6, <2>7
<1> QED BY <1>3, <1>7, <1>8, <1>9, <1>10 DEF Escrow!Draw

LEMMA EscrowPays ==
    ASSUME TypeOK, Books, EscrowInv, NEW id \in ReceiptIds, PayReceipt(id)
    PROVE  Escrow!Pay(id)
<1>1. PICK r, rd, rd2, rc, rc2, time, due :
          /\ r = id[1] /\ rd = round[r] /\ rd2 = round'[r] /\ rc = receipt /\ rc2 = receipt'
          /\ time = now /\ due = Rewards(rd, rc[id]).sol
  OBVIOUS
<1>2. r \in RoundIds /\ id \in Of(r) /\ Of(r) \in SUBSET ReceiptIds /\ IsFiniteSet(Of(r))
  BY <1>1, FiniteReceipts
<1>3. /\ PaysTo(rd, rd2, rc, rc2, id) /\ (\A s \in RoundIds \ {r} : round'[s] = round[s])
      /\ due \in U64 /\ due <= vault.round[r]
      /\ vault'.round = [vault.round EXCEPT ![r] = vault.round[r] - due]
  BY <1>1, PayFrame
<1>4. rd \in RoundType /\ rc \in [ReceiptIds -> ReceiptType] /\ PerRound(r, rd, rc, time)
  BY <1>1, <1>2 DEF TypeOK, EscrowInv
<1>5. PICK nr : nr = [rc[id] EXCEPT !.status = "claimed"] /\ rc2 = [rc EXCEPT ![id] = nr]
  BY <1>3 DEF PaysTo
<1>6. WagerOf(nr) = "finished" /\ nr.total = rc[id].total /\ nr.status = "claimed"
  BY <1>2, <1>4, <1>5 DEF WagerOf, ReceiptType
<1>7. /\ EscrowWager' = [EscrowWager EXCEPT ![id] = "finished"]
      /\ AllAmounts(receipt') = AllAmounts(receipt)
      /\ \A x \in ReceiptIds : x[1] # r => receipt'[x] = receipt[x]
  <2>1. receipt' = [receipt EXCEPT ![id] = nr]
    BY <1>1, <1>5
  <2>2. /\ EscrowWager' = [EscrowWager EXCEPT ![id] = WagerOf(nr)]
        /\ AllAmounts(receipt') = [AllAmounts(receipt) EXCEPT ![id] = nr.total]
        /\ \A x \in ReceiptIds : x[1] # id[1] => receipt'[x] = receipt[x]
    BY <2>1, WagerChange
  <2> QED BY <1>1, <1>6, <2>2 DEF AllAmounts
<1>8. EscrowWager[id] = "held"
  BY <1>1, <1>3, EscrowState DEF WagerOf, PaysTo
<1>9. EscrowPhase[r] = "paying" /\ EscrowPhase' = EscrowPhase
  <2>1. PhaseOf(r, rd, rc) = "paying" /\ PhaseOf(r, rd2, rc2) = "paying"
    BY <1>3 DEF PhaseOf, PaysTo
  <2>2. EscrowPhase[r] = "paying"
    BY <1>1, <1>2, <2>1, EscrowState
  <2>3. EscrowPhase' = [EscrowPhase EXCEPT ![r] = "paying"]
    BY <1>1, <1>2, <1>3, <1>7, <2>1, PhaseChange
  <2> QED BY <2>2, <2>3, EscrowState
<1>10. vault.round \in [RoundIds -> U64] /\ vault.round[r] \in Nat /\ due \in Nat
  <2>1. U64 \subseteq Nat
    BY EconomicsAssumption DEF U64
  <2> QED BY <1>2, <1>3, <2>1 DEF TypeOK
<1>11. /\ vault'.round[r] = vault.round[r] - due /\ vault'.round[r] \in Nat
       /\ vault'.round[r] <= vault.round[r]
       /\ vault'.round = [vault.round EXCEPT ![r] = vault'.round[r]]
  <2>1. vault'.round[r] = vault.round[r] - due
    BY <1>2, <1>3, <1>10
  <2> QED BY <1>3, <1>10, <2>1
<1>12. ASSUME Escrow!Held(r) = {id} PROVE vault'.round[r] = 0
  <2>1. \A x \in Of(r) \ {id} : rc[x].status # "open"
    <3>1. \A x \in ReceiptIds : x[1] = r /\ EscrowWager[x] = "held" => x = id
      BY <1>12 DEF Escrow!Held
    <3>2. \A x \in ReceiptIds : rc[x].status = "open" => EscrowWager[x] = "held"
      BY <1>1, EscrowState DEF WagerOf
    <3> QED BY <3>1, <3>2 DEF Of
  <2> DEFINE f == [x \in ReceiptIds |-> Sol(rd, rc[x])]
             one == {id}
  <2>2. rd.settled /\ Kept(r, rd, rc)
    BY <1>3, <1>4 DEF PaysTo, PerRound
  <2>3. \A x \in Of(r) : f[x] \in Nat
    BY <1>2, <2>2, SolType
  <2>4. f[id] = due
    BY <1>1, <1>3 DEF Sol, PaysTo
  <2>5. \A x \in Of(r) \ one : f[x] = 0
    BY <1>2, <2>1 DEF Sol
  <2>6. rd.claimed + SumOf(f, Of(r)) = rd.prize + rd.motherlode_payout
    BY <2>2 DEF Kept
  <2> HIDE DEF f
  <2>7. SumOf(f, Of(r)) = f[id] + SumOf(f, Of(r) \ one)
    BY <1>2, <2>3, SumRemove
  <2>8. SumOf(f, Of(r) \ one) = 0
    <3>1. IsFiniteSet(Of(r) \ one)
      BY <1>2, FS_RemoveElement
    <3> QED BY <2>5, <3>1, NoShares
  <2>9. vault.round[r] = rd.prize + rd.motherlode_payout - rd.claimed
    BY <1>1, <1>2, <2>2 DEF Books, RoundVaultExact
  <2>10. rd.claimed \in Int /\ rd.prize \in Int /\ rd.motherlode_payout \in Int
    BY <1>4, EconomicsAssumption DEF RoundType, U64
  <2>11. SumOf(f, Of(r)) = due
    BY <1>10, <2>4, <2>7, <2>8
  <2> QED BY <1>10, <1>11, <2>6, <2>9, <2>10, <2>11
<1> QED BY <1>1, <1>7, <1>8, <1>9, <1>11, <1>12 DEF Escrow!Pay, AllAmounts

LEMMA EscrowReturns ==
    ASSUME TypeOK, EscrowInv, NEW id \in ReceiptIds, RefundReceipt(id)
    PROVE  Escrow!Return(id)
<1>1. PICK r, rd, rd2, rc, rc2 :
          r = id[1] /\ rd = round[r] /\ rd2 = round'[r] /\ rc = receipt /\ rc2 = receipt'
  OBVIOUS
<1>2. r \in RoundIds /\ id \in Of(r) /\ rc \in [ReceiptIds -> ReceiptType]
  BY <1>1, FiniteReceipts DEF TypeOK
<1>3. /\ RefundsTo(rd, rd2, rc, rc2, id) /\ (\A s \in RoundIds \ {r} : round'[s] = round[s])
      /\ rc[id].total <= vault.round[r]
      /\ vault'.round = [vault.round EXCEPT ![r] = vault.round[r] - rc[id].total]
  BY <1>1, RefundFrame
<1>4. PICK nr : nr = [rc[id] EXCEPT !.status = "refunded"] /\ rc2 = [rc EXCEPT ![id] = nr]
  BY <1>3 DEF RefundsTo
<1>5. WagerOf(nr) = "finished" /\ nr.total = rc[id].total /\ nr.status = "refunded"
  BY <1>2, <1>4 DEF WagerOf, ReceiptType
<1>6. /\ EscrowWager' = [EscrowWager EXCEPT ![id] = "finished"]
      /\ AllAmounts(receipt') = AllAmounts(receipt)
      /\ \A x \in ReceiptIds : x[1] # r => receipt'[x] = receipt[x]
  <2>1. receipt' = [receipt EXCEPT ![id] = nr]
    BY <1>1, <1>4
  <2>2. /\ EscrowWager' = [EscrowWager EXCEPT ![id] = WagerOf(nr)]
        /\ AllAmounts(receipt') = [AllAmounts(receipt) EXCEPT ![id] = nr.total]
        /\ \A x \in ReceiptIds : x[1] # id[1] => receipt'[x] = receipt[x]
    BY <2>1, WagerChange
  <2> QED BY <1>1, <1>5, <2>2 DEF AllAmounts
<1>7. EscrowWager[id] = "held"
  BY <1>1, <1>3, EscrowState DEF WagerOf, RefundsTo
<1>8. EscrowPhase[r] \in {"betting", "returning"}
      /\ EscrowPhase' = [EscrowPhase EXCEPT ![r] = "returning"]
  <2>1. PhaseOf(r, rd, rc) \in {"betting", "returning"}
    BY <1>3 DEF PhaseOf, RefundsTo
  <2>2. PhaseOf(r, rd2, rc2) = "returning"
    <3>1. rc2[id].status = "refunded"
      BY <1>2, <1>4, <1>5
    <3> QED BY <1>2, <1>3, <3>1 DEF PhaseOf, RefundsTo
  <2>3. EscrowPhase[r] \in {"betting", "returning"}
    BY <1>1, <1>2, <2>1, EscrowState
  <2>4. EscrowPhase' = [EscrowPhase EXCEPT ![r] = "returning"]
    BY <1>1, <1>2, <1>3, <1>6, <2>2, PhaseChange
  <2> QED BY <2>3, <2>4
<1> QED BY <1>1, <1>3, <1>6, <1>7, <1>8 DEF Escrow!Return, AllAmounts

LEMMA EscrowClosesWager ==
    ASSUME TypeOK, EscrowInv, NEW id \in ReceiptIds, close_receipt(id)
    PROVE  Escrow!CloseWager(id)
<1>1. PICK r, rd, rd2, rc, rc2, time :
          /\ r = id[1] /\ rd = round[r] /\ rd2 = round'[r] /\ rc = receipt /\ rc2 = receipt'
          /\ time = now
  OBVIOUS
<1>2. r \in RoundIds /\ id \in Of(r) /\ rc \in [ReceiptIds -> ReceiptType]
      /\ PerRound(r, rd, rc, time)
  BY <1>1, FiniteReceipts DEF TypeOK, EscrowInv
<1>3. /\ ClosesTo(rd, rd2, rc, rc2, id) /\ (\A s \in RoundIds \ {r} : round'[s] = round[s])
      /\ vault' = vault
  BY <1>1, CloseReceiptFrame
<1>4. PICK nr : nr = [NoReceipt EXCEPT !.status = "closed"] /\ rc2 = [rc EXCEPT ![id] = nr]
  BY <1>3 DEF ClosesTo
<1>5. WagerOf(nr) = "closed" /\ nr.total = 0 /\ nr.status = "closed"
  BY <1>4 DEF WagerOf, NoReceipt
<1>6. /\ EscrowWager' = [EscrowWager EXCEPT ![id] = "closed"]
      /\ AllAmounts(receipt') = [AllAmounts(receipt) EXCEPT ![id] = 0]
      /\ \A x \in ReceiptIds : x[1] # r => receipt'[x] = receipt[x]
  <2>1. receipt' = [receipt EXCEPT ![id] = nr]
    BY <1>1, <1>4
  <2>2. /\ EscrowWager' = [EscrowWager EXCEPT ![id] = WagerOf(nr)]
        /\ AllAmounts(receipt') = [AllAmounts(receipt) EXCEPT ![id] = nr.total]
        /\ \A x \in ReceiptIds : x[1] # id[1] => receipt'[x] = receipt[x]
    BY <2>1, WagerChange
  <2> QED BY <1>1, <1>5, <2>2
<1>7. EscrowWager[id] = "finished"
  BY <1>1, <1>3, EscrowState DEF WagerOf, ClosesTo
<1>8. Escrow!Held(r) = {}
  <2>1. \A x \in Of(r) : rc[x].status # "open"
    BY <1>2, <1>3 DEF PerRound, Lived, ClosesTo
  <2>2. \A x \in Of(r) : EscrowWager[x] # "held"
    BY <1>1, <2>1, EscrowState DEF WagerOf, Of
  <2> QED BY <2>2 DEF Escrow!Held, Of
<1>9. EscrowPhase[r] \in {"paying", "returning"} /\ EscrowPhase' = EscrowPhase
  <2>1. rc[id].status = "claimed" => rd.settled
    BY <1>2 DEF PerRound, Lived
  <2>2. PhaseOf(r, rd, rc) = IF rd.settled THEN "paying" ELSE "returning"
    BY <1>2, <1>3, <2>1 DEF PhaseOf, ClosesTo
  <2>3. PhaseOf(r, rd2, rc2) = IF rd.settled THEN "paying" ELSE "returning"
    <3>1. rc2[id].status = "closed"
      BY <1>2, <1>4, <1>5
    <3> QED BY <1>2, <1>3, <3>1 DEF PhaseOf, ClosesTo
  <2>4. EscrowPhase[r] = PhaseOf(r, rd, rc)
    BY <1>1, <1>2, EscrowState
  <2>5. EscrowPhase' = [EscrowPhase EXCEPT ![r] = PhaseOf(r, rd, rc)]
    <3>1. PhaseOf(r, rd2, rc2) = PhaseOf(r, rd, rc)
      BY <2>2, <2>3
    <3> QED BY <1>1, <1>2, <1>3, <1>6, <3>1, PhaseChange
  <2> QED BY <2>2, <2>4, <2>5, EscrowState
<1> QED BY <1>1, <1>3, <1>6, <1>7, <1>8, <1>9 DEF Escrow!CloseWager, AllAmounts

LEMMA EscrowStarts == Init => Escrow!Init
<1> SUFFICES ASSUME Init PROVE Escrow!Init
  OBVIOUS
<1>1. \A r \in RoundIds : PhaseOf(r, round[r], receipt) = "none"
  BY DEF Init, PhaseOf, EmptyRound
<1>2. EscrowPhase = [r \in RoundIds |-> "none"]
  BY <1>1, EscrowState
<1>3. \A id \in ReceiptIds : WagerOf(receipt[id]) = "none" /\ receipt[id].total = 0
  BY DEF Init, WagerOf, NoReceipt
<1>4. EscrowWager = [id \in ReceiptIds |-> "none"]
  BY <1>3, EscrowState
<1>5. vault.round = [r \in RoundIds |-> 0]
  BY DEF Init
<1> QED BY <1>2, <1>3, <1>4, <1>5 DEF Escrow!Init

LEMMA EscrowStep ==
    ASSUME Production, TypeOK, Books, Ordered, EscrowInv, [Next]_vars
    PROVE  [Escrow!Next]_(Escrow!vars)
<1>1. CASE UNCHANGED <<round, receipt>> /\ vault' = vault
  <2>1. EscrowPhase' = EscrowPhase /\ EscrowWager' = EscrowWager
    BY <1>1, EscrowState, EscrowStateNext
  <2> QED BY <1>1, <2>1 DEF Escrow!vars
<1>2. ASSUME NEW r \in RoundIds,
             open_round(r) \/ FieldStep(r) \/ SettleStep(r) \/ close_round(r)
      PROVE  [Escrow!Next]_(Escrow!vars)
  <2>1. \/ Escrow!Open(r) \/ Escrow!Draw(r) \/ Escrow!CloseRound(r)
        \/ UNCHANGED Escrow!vars
    BY <1>2, EscrowOpens, EscrowStays, EscrowDraws, EscrowCloses DEF Escrow!vars
  <2> QED BY <2>1 DEF Escrow!Next
<1>3. ASSUME NEW id \in ReceiptIds,
             \/ \E w \in Wagers : deploy(id, w)
             \/ PayReceipt(id)
             \/ RefundReceipt(id)
             \/ close_receipt(id)
      PROVE  [Escrow!Next]_(Escrow!vars)
  <2>1. \/ \E w \in Wagers : Escrow!Place(id, checked_sum(w))
        \/ Escrow!Pay(id) \/ Escrow!Return(id) \/ Escrow!CloseWager(id)
    BY <1>3, EscrowPlaces, EscrowPays, EscrowReturns, EscrowClosesWager
  <2> QED BY <2>1 DEF Escrow!Next
<1> QED BY <1>1, <1>2, <1>3, StepKinds

\* The production build implements WagerEscrow, for every board, fee schedule,
\* timing and number of rounds, miners and receipts: each wager leaves its round
\* once, the payments of a drawn round take its pot to the last lamport, a round
\* that is not drawn returns every wager in full, and a round closes empty.
THEOREM RoundsImplementEscrow ==
    ASSUME Production
    PROVE  Spec => ImplementsEscrow
<1>1. TypeOK /\ Books /\ Ordered /\ EscrowInv /\ [Next]_vars => [Escrow!Next]_(Escrow!vars)
  BY EscrowStep
<1> QED BY <1>1, EscrowStarts, EscrowInvariant, PTL DEF Spec, ImplementsEscrow, Escrow!Spec
=============================================================================
