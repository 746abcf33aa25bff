------------------------------- MODULE Rounds -------------------------------
(***************************************************************************)
(* The on-chain life of a mining round: a provider opens it, binds its     *)
(* randomness, miners deploy SOL into receipts, the randomness is fixed    *)
(* after betting closes, one settlement splits the fee and draws the       *)
(* outcome, every receipt is paid or refunded, and the accounts are        *)
(* archived and closed.  One action per instruction of the program; a      *)
(* transaction is atomic on chain, so an action is a whole instruction and *)
(* the interleaving is that of transactions from unsynchronised senders.   *)
(*                                                                         *)
(* Lamports are those above the rent reserve of an account, which no       *)
(* instruction but the closing ones touches.  The randomness bytes are     *)
(* abstracted to what they decide: the winning tile, the mode, the solo    *)
(* ticket and the motherlode.  Of the two reward pools this module keeps   *)
(* what a receipt adds to them (see MiningPool and StakePool for theirs).  *)
(***************************************************************************)
EXTENDS Economics

CONSTANTS
    Miners, RoundIds, Nonces,
    Wagers,                       \* the tile amounts a miner may deploy
    MINIMUM_ROUND_LAMPORTS,
    BETTING_DURATION, WINNER_DISPLAY, PREPARATION_LEAD, REFUND_DELAY,
    Production,                   \* the cargo feature of the artifact
    MaxTime,                      \* bound: the clock stops here
    MaxReceipts                   \* bound: deployments per round

ASSUME RoundsAssumption ==
    /\ RoundIds \subseteq Nat /\ IsFiniteSet(RoundIds)
    /\ IsFiniteSet(Miners) /\ IsFiniteSet(Nonces)
    /\ Wagers \subseteq [Tiles -> U64]
    /\ MINIMUM_ROUND_LAMPORTS \in Nat \ {0}
    /\ BETTING_DURATION \in Nat \ {0} /\ WINNER_DISPLAY \in Nat
    /\ PREPARATION_LEAD \in Nat /\ REFUND_DELAY \in Nat
    /\ Production \in BOOLEAN /\ MaxTime \in Nat /\ MaxReceipts \in Nat

VARIABLES
    now,        \* unix timestamp of the Clock sysvar
    paused,     \* config.paused
    program,    \* config.randomness_program
    poolOk,     \* the registered Meteora pool passes assert_liquidity_pool
    config,     \* config.motherlode_lamports, _base_units, total_emitted
    round,      \* the Round PDAs
    receipt,    \* the BetReceipt PDAs, by round, miner and nonce
    oracle,     \* the Switchboard account bound to a round
    vault,      \* lamports of the program's accounts and fee wallets
    accrued     \* what settled receipts credited to each miner

vars == <<now, paused, program, poolOk, config, round, receipt, oracle, vault, accrued>>

ReceiptIds == RoundIds \X Miners \X Nonces

Programs == {"default", "switchboard_devnet", "switchboard_mainnet", "server"}

\* assert_randomness_program_allowed_for_build.
AllowedPrograms ==
    IF Production THEN {"switchboard_mainnet", "server"} ELSE Programs

is_switchboard_program(p) == p \in {"switchboard_devnet", "switchboard_mainnet"}

liquidity_gate_required(p) == Production \/ p \notin {"default", "switchboard_devnet"}

NoTiles == [t \in Tiles |-> 0]
NoTile  == "no tile"

\* randomness_account and randomness_commit_slot of a round, as the mode they
\* encode: no account; a Switchboard account whose commit slot is 0 or set; a
\* server commitment whose slot is SERVER_RANDOMNESS_PENDING or tagged.
RandomnessStates == {"unbound", "bound", "committed", "pending", "locked"}

EmptyRound(status) ==
    [ status |-> status, settled |-> FALSE, winning_tile |-> NoTile,
      solo_mode |-> FALSE, motherlode_hit |-> FALSE, randomness |-> "unbound",
      solo_sample |-> 0, tile_lamports |-> NoTiles, gross |-> 0, prize |-> 0,
      motherlode_payout |-> 0, claimed |-> 0, base_emission |-> 0,
      motherlode_emission |-> 0, total_receipts |-> 0, processed_receipts |-> 0,
      closed_receipts |-> 0, buyback_completed |-> FALSE, archived |-> FALSE ]

NoReceipt ==
    [ status |-> "absent", amounts |-> NoTiles, cumulative_starts |-> NoTiles,
      total |-> 0, reward_mode |-> 0 ]

Init ==
    /\ now = 0
    /\ paused = TRUE
    /\ program \in AllowedPrograms
    /\ poolOk \in BOOLEAN
    /\ config = [ motherlode_lamports |-> 0, motherlode_base_units |-> 0,
                  total_emitted |-> GENESIS_BASE_UNITS ]
    /\ round = [r \in RoundIds |-> EmptyRound("absent")]
    /\ receipt = [id \in ReceiptIds |-> NoReceipt]
    /\ oracle = [r \in RoundIds |-> "uncommitted"]
    /\ vault = [ round |-> [r \in RoundIds |-> 0], config |-> 0, stake |-> 0,
                 buyback |-> 0, admin |-> 0 ]
    /\ accrued = [m \in Miners |-> [sol |-> 0, myne |-> 0, burn |-> 0]]

-----------------------------------------------------------------------------
(* Schedule: the fixed slots of rounds after initialization at time 0.     *)

ROUND_DURATION == BETTING_DURATION + WINNER_DISPLAY
opened_at(r)       == r * ROUND_DURATION
betting_ends_at(r) == opened_at(r) + BETTING_DURATION
settles_at(r)      == betting_ends_at(r)
refund_at(r)       == opened_at(r) + ROUND_DURATION + REFUND_DELAY

\* Opening a round whose betting window is over.
OpenAnyTimeAfter(r) == now >= opened_at(r) - PREPARATION_LEAD

assert_round_can_open_at(r) ==
    /\ now >= opened_at(r) - (IF program # "default" THEN PREPARATION_LEAD ELSE 0)
    /\ now < betting_ends_at(r)

assert_round_accepting_deployments_at(r) ==
    ~round[r].settled /\ now >= opened_at(r) /\ now < betting_ends_at(r)

Live(r) == round[r].status = "live"

-----------------------------------------------------------------------------
(* The clock, the liquidity pool and the oracle account: the environment.  *)

Tick ==
    /\ now < MaxTime
    /\ now' = now + 1
    /\ UNCHANGED <<paused, program, poolOk, config, round, receipt, oracle, vault, accrued>>

\* Swaps and liquidity moves take the registered pool's reserves below the
\* recorded minimum, or back above it.
pool_reserves_change ==
    /\ poolOk' = ~poolOk
    /\ UNCHANGED <<now, paused, program, config, round, receipt, oracle, vault, accrued>>

\* The randomness authority sends Switchboard's randomness_commit on its own,
\* outside the transaction that records the commitment.
switchboard_commit(r) ==
    /\ round[r].randomness = "bound" /\ oracle[r] = "uncommitted"
    /\ oracle' = [oracle EXCEPT ![r] = "committed"]
    /\ UNCHANGED <<now, paused, program, poolOk, config, round, receipt, vault, accrued>>

-----------------------------------------------------------------------------
(* Administration                                                          *)

set_paused(p) ==
    /\ ~p => /\ program \in AllowedPrograms
             /\ liquidity_gate_required(program) => poolOk
    /\ paused' = p
    /\ UNCHANGED <<now, program, poolOk, config, round, receipt, oracle, vault, accrued>>

set_randomness_program(p) ==
    /\ paused
    /\ p \in AllowedPrograms
    /\ program' = p
    /\ UNCHANGED <<now, paused, poolOk, config, round, receipt, oracle, vault, accrued>>

-----------------------------------------------------------------------------
(* Opening a round and binding its randomness                              *)

open_round(r) ==
    /\ ~paused
    /\ program \in AllowedPrograms
    /\ round_can_open_after_emission(config)
    /\ assert_round_can_open_at(r)
    /\ ~Live(r)
    /\ round' = [round EXCEPT ![r] = EmptyRound("live")]
    /\ UNCHANGED <<now, paused, program, poolOk, config, receipt, oracle, vault, accrued>>

bind_round_randomness(r) ==
    /\ ~paused
    /\ is_switchboard_program(program)
    /\ Live(r) /\ ~round[r].settled /\ now < betting_ends_at(r)
    /\ oracle[r] = "uncommitted"
    /\ round[r].randomness = "unbound"
    /\ round' = [round EXCEPT ![r].randomness = "bound"]
    /\ UNCHANGED <<now, paused, program, poolOk, config, receipt, oracle, vault, accrued>>

bind_round_server_commitment(r) ==
    /\ ~paused
    /\ program = "server"
    /\ Live(r) /\ ~round[r].settled /\ now < betting_ends_at(r)
    /\ round[r].total_receipts = 0 /\ round[r].gross = 0
    /\ round[r].randomness = "unbound"
    /\ round' = [round EXCEPT ![r].randomness = "pending"]
    /\ UNCHANGED <<now, paused, program, poolOk, config, receipt, oracle, vault, accrued>>

lock_round_server_entropy(r) ==
    /\ ~paused
    /\ Live(r) /\ ~round[r].settled
    /\ now >= betting_ends_at(r) /\ now < refund_at(r)
    /\ round[r].randomness = "pending"
    /\ round' = [round EXCEPT ![r].randomness = "locked"]
    /\ UNCHANGED <<now, paused, program, poolOk, config, receipt, oracle, vault, accrued>>

\* Follows Switchboard's randomness_commit in the same transaction, which the
\* freshness check enforces.
record_round_randomness_commit(r) ==
    /\ ~paused
    /\ program # "default"
    /\ Live(r) /\ ~round[r].settled
    /\ now >= betting_ends_at(r) /\ now < refund_at(r)
    /\ round[r].randomness = "bound"
    /\ oracle' = [oracle EXCEPT ![r] = "committed"]
    /\ round' = [round EXCEPT ![r].randomness = "committed"]
    /\ UNCHANGED <<now, paused, program, poolOk, config, receipt, vault, accrued>>

-----------------------------------------------------------------------------
(* Deployments                                                             *)

\* Accepting bets without reading the oracle account.
AcceptsBetsByRoundOnly(r) == round[r].randomness \in {"pending", "bound"}

assert_bound_randomness_accepting_bets(r) ==
    \/ round[r].randomness = "pending"
    \/ program = "default" /\ round[r].randomness = "unbound"
    \/ program # "default" /\ round[r].randomness = "bound" /\ oracle[r] = "uncommitted"

\* The receipt and the round after a deployment of w, as deploy and
\* execute_auto_plan write them.
RecordDeployment(id, w, reward_mode) ==
    LET r == id[1]
    IN /\ Live(r)
       /\ ~paused
       /\ program \in AllowedPrograms
       /\ assert_round_accepting_deployments_at(r)
       /\ assert_bound_randomness_accepting_bets(r)
       /\ receipt[id].status \in {"absent", "closed"}
       /\ round[r].total_receipts < MaxReceipts
       /\ \A t \in Tiles : round[r].tile_lamports[t] + w[t] \in U64
       /\ round[r].gross + checked_sum(w) \in U64
       /\ vault.round[r] + checked_sum(w) \in U64
       /\ round[r].prize + checked_sum(w) \in U64
       /\ receipt' = [receipt EXCEPT ![id] =
              [ status |-> "open", amounts |-> w,
                cumulative_starts |-> round[r].tile_lamports,
                total |-> checked_sum(w), reward_mode |-> reward_mode ]]
       /\ round' = [round EXCEPT ![r] = [round[r] EXCEPT
              !.tile_lamports = [t \in Tiles |-> round[r].tile_lamports[t] + w[t]],
              !.gross = round[r].gross + checked_sum(w),
              !.prize = round[r].prize + checked_sum(w),
              !.total_receipts = round[r].total_receipts + 1]]
       /\ vault' = [vault EXCEPT !.round =
              [vault.round EXCEPT ![r] = vault.round[r] + checked_sum(w)]]
       /\ UNCHANGED <<now, paused, program, poolOk, config, oracle, accrued>>

deploy(id, w) ==
    /\ checked_sum(w) \in U64
    /\ checked_sum(w) >= MINIMUM_ROUND_LAMPORTS
    /\ RecordDeployment(id, w, 0)

-----------------------------------------------------------------------------
(* Settlement                                                              *)

\* The solo ticket is drawn modulo the winning tile's total.
SoloSamples(r, tile) ==
    IF round[r].tile_lamports[tile] > 0
    THEN 0 .. (round[r].tile_lamports[tile] - 1) ELSE {0}

\* The prize of a played tile stays in the round; that of an empty one rolls
\* over into the motherlode.
Prize(r)          == round[r].gross - mining_fee_allocation(round[r].gross).total
Rollover(r, tile) == IF round[r].tile_lamports[tile] = 0 THEN Prize(r) ELSE 0

Emissions(r, tile) ==
    round_emissions(MAX_SUPPLY - config.total_emitted, round[r].gross,
                    round[r].tile_lamports[tile])

\* The motherlode with this round's leg and bonus, before it is paid out.
Pot(r, tile)   == config.motherlode_lamports
                    + mining_fee_allocation(round[r].gross).motherlode + Rollover(r, tile)
Bonus(r, tile) == config.motherlode_base_units + Emissions(r, tile).motherlode

motherlode_pays_round(r, hit) == hit /\ round[r].gross > 0

\* A payout that forgets to reset the rolling SOL.
ConfigAfterKeepsSol(r, tile, hit) ==
    [ motherlode_lamports   |-> Pot(r, tile),
      motherlode_base_units |-> IF motherlode_pays_round(r, hit) THEN 0 ELSE Bonus(r, tile),
      total_emitted |-> config.total_emitted + Emissions(r, tile).motherlode
                          + Emissions(r, tile).base ]

ConfigAfter(r, tile, hit) ==
    LET pays == motherlode_pays_round(r, hit)
    IN [ motherlode_lamports   |-> IF pays THEN 0 ELSE Pot(r, tile),
         motherlode_base_units |-> IF pays THEN 0 ELSE Bonus(r, tile),
         total_emitted |-> config.total_emitted + Emissions(r, tile).motherlode
                             + Emissions(r, tile).base ]

\* The outcome (tile, solo, hit, sample) of the randomness is applied: the fee
\* legs leave the round, the motherlode is fed and perhaps paid, MYNE reserved.
settle_round_core(r, tile, solo, hit, sample) ==
    LET fees     == mining_fee_allocation(round[r].gross)
        rollover == Rollover(r, tile)
        pays     == motherlode_pays_round(r, hit)
        payout   == IF pays THEN Pot(r, tile) ELSE 0
        out      == fees.staking_net + fees.buyback + fees.admin_total
                      + fees.motherlode + rollover
        held     == vault.config + fees.motherlode + rollover
    IN /\ liquidity_gate_required(program) => poolOk
       /\ ~round[r].settled
       /\ FeesComputable(round[r].gross)
       /\ config.total_emitted <= MAX_SUPPLY
       /\ Pot(r, tile) \in U64 /\ Bonus(r, tile) \in U64
       /\ ConfigAfter(r, tile, hit).total_emitted \in U64
       /\ out <= vault.round[r] /\ vault.round[r] - out + payout \in U64
       /\ held \in U64 /\ payout <= held
       /\ vault.stake + fees.staking_net \in U64
       /\ vault.buyback + fees.buyback \in U64
       /\ vault.admin + fees.admin_total \in U64
       /\ round' = [round EXCEPT ![r] = [round[r] EXCEPT
              !.settled = TRUE, !.winning_tile = tile, !.solo_mode = solo,
              !.motherlode_hit = hit, !.solo_sample = sample,
              !.prize = Prize(r) - rollover,
              !.buyback_completed = fees.buyback = 0 \/ ~liquidity_gate_required(program),
              !.base_emission = Emissions(r, tile).base,
              !.motherlode_emission = IF pays THEN Bonus(r, tile) ELSE 0,
              !.motherlode_payout = payout]]
       /\ config' = ConfigAfter(r, tile, hit)
       /\ vault' = [ round   |-> [vault.round EXCEPT ![r] = vault.round[r] - out + payout],
                     config  |-> held - payout,
                     stake   |-> vault.stake + fees.staking_net,
                     buyback |-> vault.buyback + fees.buyback,
                     admin   |-> vault.admin + fees.admin_total ]
       /\ UNCHANGED <<now, paused, program, poolOk, receipt, oracle, accrued>>

Drawn(r) ==
    \E tile \in Tiles, solo \in BOOLEAN, hit \in BOOLEAN :
        \E sample \in SoloSamples(r, tile) : settle_round_core(r, tile, solo, hit, sample)

\* The local rehearsal path: the randomness is the caller's, and the round's
\* schedule is not looked at.
settle_round(r) ==
    /\ Live(r)
    /\ ~paused
    /\ program = "default" /\ program \in AllowedPrograms
    /\ Drawn(r)

\* A settlement window without its deadline.
OpenEndedWindow(r) == now >= settles_at(r)

InSettlementWindow(r) == now >= settles_at(r) /\ now < refund_at(r)

\* Settlement follows the mode stored on the round, not the provider that is
\* selected now.
settle_round_verified(r) ==
    /\ Live(r)
    /\ ~paused
    /\ program \in AllowedPrograms
    /\ InSettlementWindow(r)
    /\ round[r].randomness = "committed"
    /\ Drawn(r)

settle_round_server(r) ==
    /\ Live(r)
    /\ ~paused
    /\ program \in AllowedPrograms
    /\ InSettlementWindow(r)
    /\ round[r].randomness = "locked"
    /\ Drawn(r)

-----------------------------------------------------------------------------
(* Paying and refunding receipts                                           *)

\* accrue_receipt_sol, credit_mining_rewards and add_virtual_burn: the SOL goes
\* to the claim vault, the MYNE to the mining pool or to burned stake, according
\* to the mode fixed in the receipt; the motherlode bonus is always burned stake.
PayReceipt(id) ==
    LET r       == id[1]
        m       == id[2]
        rewards == receipt_rewards(round[r], receipt[id])
        kept    == IF receipt[id].reward_mode = 0 THEN rewards.myne ELSE 0
        burned  == rewards.motherlode + rewards.myne - kept
    IN /\ Live(r) /\ round[r].settled
       /\ receipt[id].status = "open"
       /\ RewardsComputable(round[r], receipt[id])
       /\ rewards.sol <= vault.round[r]
       /\ vault.stake + rewards.sol \in U64
       /\ round[r].claimed + rewards.sol \in U64
       /\ accrued[m].sol + rewards.sol \in U64
       /\ accrued[m].myne + kept \in U64
       /\ accrued[m].burn + burned \in U64
       /\ round' = [round EXCEPT ![r] = [round[r] EXCEPT
              !.claimed = round[r].claimed + rewards.sol,
              !.processed_receipts = round[r].processed_receipts + 1]]
       /\ receipt' = [receipt EXCEPT ![id].status = "claimed"]
       /\ vault' = [vault EXCEPT
              !.round = [vault.round EXCEPT ![r] = vault.round[r] - rewards.sol],
              !.stake = vault.stake + rewards.sol]
       /\ accrued' = [accrued EXCEPT ![m] =
              [ sol  |-> accrued[m].sol + rewards.sol,
                myne |-> accrued[m].myne + kept,
                burn |-> accrued[m].burn + burned ]]
       /\ UNCHANGED <<now, paused, program, poolOk, config, oracle>>

\* The owner's claim and anybody's completion have the same effect; neither is
\* stopped by the pause.
claim_receipt(id)  == PayReceipt(id)
settle_receipt(id) == PayReceipt(id)

RefundReceipt(id) ==
    LET r == id[1]
        w == receipt[id].amounts
    IN /\ Live(r) /\ ~round[r].settled /\ now >= refund_at(r)
       /\ receipt[id].status = "open"
       /\ receipt[id].total <= vault.round[r]
       /\ \A t \in Tiles : w[t] <= round[r].tile_lamports[t]
       /\ receipt[id].total <= round[r].gross
       /\ receipt[id].total <= round[r].prize
       /\ vault' = [vault EXCEPT !.round =
              [vault.round EXCEPT ![r] = vault.round[r] - receipt[id].total]]
       /\ round' = [round EXCEPT ![r] = [round[r] EXCEPT
              !.tile_lamports = [t \in Tiles |-> round[r].tile_lamports[t] - w[t]],
              !.gross = round[r].gross - receipt[id].total,
              !.prize = round[r].prize - receipt[id].total,
              !.processed_receipts = round[r].processed_receipts + 1]]
       /\ receipt' = [receipt EXCEPT ![id].status = "refunded"]
       /\ UNCHANGED <<now, paused, program, poolOk, config, oracle, accrued>>

\* A refund that the pause stops.
RefundUnlessPaused(id) == ~paused /\ RefundReceipt(id)

refund_receipt(id)                == RefundReceipt(id)
refund_receipt_permissionless(id) == RefundReceipt(id)

-----------------------------------------------------------------------------
(* Cleanup                                                                 *)

\* The buyback authority attests the swap and burn, which happen off chain.
mark_buyback_completed(r) ==
    /\ Live(r) /\ round[r].settled
    /\ ~round[r].buyback_completed
    /\ round' = [round EXCEPT ![r].buyback_completed = TRUE]
    /\ UNCHANGED <<now, paused, program, poolOk, config, receipt, oracle, vault, accrued>>

archive_round(r) ==
    /\ Live(r)
    /\ round[r].settled \/ now >= refund_at(r)
    /\ round[r].settled => round[r].buyback_completed
    /\ ~round[r].archived
    /\ round[r].processed_receipts = round[r].total_receipts
    /\ round' = [round EXCEPT ![r].archived = TRUE]
    /\ UNCHANGED <<now, paused, program, poolOk, config, receipt, oracle, vault, accrued>>

close_receipt(id) ==
    LET r == id[1]
    IN /\ Live(r) /\ round[r].archived
       /\ receipt[id].status \in {"claimed", "refunded"}
       /\ round' = [round EXCEPT ![r].closed_receipts = @ + 1]
       /\ receipt' = [receipt EXCEPT ![id] = [NoReceipt EXCEPT !.status = "closed"]]
       /\ UNCHANGED <<now, paused, program, poolOk, config, oracle, vault, accrued>>

\* Closing the account returns every lamport left in it to the rent payer.
close_round(r) ==
    /\ Live(r) /\ round[r].archived
    /\ round[r].processed_receipts = round[r].total_receipts
    /\ round[r].closed_receipts = round[r].total_receipts
    /\ IF round[r].settled
       THEN /\ round[r].buyback_completed
            /\ round[r].claimed = round[r].prize + round[r].motherlode_payout
       ELSE now >= refund_at(r)
    /\ round' = [round EXCEPT ![r] = EmptyRound("closed")]
    /\ vault' = [vault EXCEPT !.round = [vault.round EXCEPT ![r] = 0]]
    /\ UNCHANGED <<now, paused, program, poolOk, config, receipt, oracle, accrued>>

-----------------------------------------------------------------------------
(* Behaviours                                                              *)

Environment ==
    \/ Tick
    \/ pool_reserves_change
    \/ \E r \in RoundIds : switchboard_commit(r)

Administration ==
    \/ \E p \in BOOLEAN : set_paused(p)
    \/ \E p \in Programs : set_randomness_program(p)

Provider ==
    \E r \in RoundIds :
        \/ open_round(r)
        \/ bind_round_randomness(r)
        \/ bind_round_server_commitment(r)
        \/ record_round_randomness_commit(r)
        \/ lock_round_server_entropy(r)
        \/ settle_round(r)
        \/ settle_round_verified(r)
        \/ settle_round_server(r)
        \/ mark_buyback_completed(r)
        \/ archive_round(r)
        \/ close_round(r)

MinerSteps ==
    \E id \in ReceiptIds :
        \/ \E w \in Wagers : deploy(id, w)
        \/ claim_receipt(id)
        \/ settle_receipt(id)
        \/ refund_receipt(id)
        \/ refund_receipt_permissionless(id)
        \/ close_receipt(id)

Next == Environment \/ Administration \/ Provider \/ MinerSteps

Spec == Init /\ [][Next]_vars

\* What the workers send without anyone's permission: the buyback keeper attests
\* the buyback, the indexer archives the round, the lifecycle keeper finishes
\* receipts and closes accounts.
Cleanup ==
    \/ \E r \in RoundIds : mark_buyback_completed(r) \/ archive_round(r) \/ close_round(r)
    \/ \E id \in ReceiptIds :
           close_receipt(id) \/ refund_receipt_permissionless(id) \/ settle_receipt(id)

\* Time passes, and the workers are not idle for ever while one of these
\* instructions would succeed; each of them succeeds once per account.  Nothing
\* is assumed of the randomness provider, the pool or the admin.
FairSpec == Spec /\ WF_vars(Tick) /\ WF_vars(Cleanup)

-----------------------------------------------------------------------------
(* Properties                                                              *)

RoundType ==
    [ status : {"absent", "live", "closed"}, settled : BOOLEAN,
      winning_tile : Tiles \cup {NoTile}, solo_mode : BOOLEAN,
      motherlode_hit : BOOLEAN, randomness : RandomnessStates,
      solo_sample : U64, tile_lamports : [Tiles -> U64], gross : U64, prize : U64,
      motherlode_payout : U64, claimed : U64, base_emission : U64,
      motherlode_emission : U64, total_receipts : Nat, processed_receipts : Nat,
      closed_receipts : Nat, buyback_completed : BOOLEAN, archived : BOOLEAN ]

ReceiptType ==
    [ status : {"absent", "open", "claimed", "refunded", "closed"},
      amounts : [Tiles -> U64], cumulative_starts : [Tiles -> U64],
      total : U64, reward_mode : {0, 1} ]

\* Every account field keeps the type of its Rust declaration: in particular no
\* amount leaves u64.
TypeOK ==
    /\ now \in Nat
    /\ paused \in BOOLEAN
    /\ program \in AllowedPrograms
    /\ poolOk \in BOOLEAN
    /\ config \in [motherlode_lamports : U64, motherlode_base_units : U64, total_emitted : U64]
    /\ round \in [RoundIds -> RoundType]
    /\ receipt \in [ReceiptIds -> ReceiptType]
    /\ oracle \in [RoundIds -> {"uncommitted", "committed"}]
    /\ vault \in [round : [RoundIds -> U64], config : U64, stake : U64,
                  buyback : U64, admin : U64]
    /\ accrued \in [Miners -> [sol : U64, myne : U64, burn : U64]]

SumOver(S, f(_)) == SumFunction([x \in S |-> f(x)])

\* The lamports above rent of a round account are what its own books say: the
\* gross before settlement, the unclaimed part of the payout after it.
RoundVaultExact ==
    \A r \in RoundIds :
        vault.round[r] = IF round[r].settled
                         THEN round[r].prize + round[r].motherlode_payout - round[r].claimed
                         ELSE round[r].gross

\* The rolling SOL motherlode recorded in the config is the SOL the config
\* account holds, through fee legs, rollovers and payouts.
MotherlodeBacked == vault.config = config.motherlode_lamports

\* Every MYNE unit counted as emitted is in the motherlode, owed to an open
\* receipt of a settled round, or credited to a miner, and none is promised
\* beyond the supply.
MyneConserved ==
    LET Owed(id) == LET rewards == receipt_rewards(round[id[1]], receipt[id])
                    IN rewards.myne + rewards.motherlode
        Unclaimed == {id \in ReceiptIds : receipt[id].status = "open" /\ round[id[1]].settled}
        Credited(m) == accrued[m].myne + accrued[m].burn
    IN /\ config.total_emitted <= MAX_SUPPLY
       /\ config.total_emitted - GENESIS_BASE_UNITS =
            config.motherlode_base_units + SumOver(Unclaimed, Owed) + SumOver(Miners, Credited)

\* A round that paid a refund is never settled, so no miner's wager is both
\* refunded and drawn: the settlement window ends where the refund window opens.
SettledXorRefunded ==
    \A id \in ReceiptIds : round[id[1]].settled => receipt[id].status # "refunded"

\* Once the oracle account is committed, or the server entropy is locked, no
\* deployment enters the round: nobody bets on an outcome already fixed.
FrozenAfterCommit ==
    \A r \in RoundIds :
        oracle[r] = "committed" \/ round[r].randomness = "locked" \/ round[r].settled =>
            \A t \in Tiles : round'[r].tile_lamports[t] <= round[r].tile_lamports[t]
FrozenAfterCommitProperty == [][FrozenAfterCommit]_vars

\* A round account that was closed is never created again at the same address,
\* so no wager can be recorded under a number that was already archived.
NeverReopened == [][\A r \in RoundIds : round[r].status = "closed" => round'[r].status = "closed"]_vars

\* The state of WagerEscrow that a state of the program stands for.
EscrowPhase ==
    [r \in RoundIds |->
        IF round[r].status # "live"
        THEN IF round[r].status = "closed" THEN "closed" ELSE "none"
        ELSE IF round[r].settled THEN "paying"
        ELSE IF \E id \in ReceiptIds : id[1] = r /\ receipt[id].status \in {"refunded", "closed"}
        THEN "returning" ELSE "betting"]
EscrowWager ==
    [id \in ReceiptIds |->
        CASE receipt[id].status = "absent" -> "none"
          [] receipt[id].status = "open"   -> "held"
          [] receipt[id].status = "closed" -> "closed"
          [] OTHER -> "finished"]

Escrow == INSTANCE WagerEscrow WITH
              WagerIds <- ReceiptIds, Amounts <- {checked_sum(w) : w \in Wagers},
              phase <- EscrowPhase, wager <- EscrowWager,
              amount <- [id \in ReceiptIds |-> receipt[id].total], pot <- vault.round

\* The program implements the escrow: whatever order deployments, draws, claims,
\* refunds and closings come in, each wager leaves its round once, payments take
\* the pot to the last lamport, and a closed round kept nothing of anyone's.
ImplementsEscrow == Escrow!Spec

\* Every opened round is eventually archived and its account closed.
EveryRoundCloses ==
    \A r \in RoundIds : Live(r) ~> round[r].status = "closed"

=============================================================================
