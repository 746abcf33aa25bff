------------------------------ MODULE MCLedgers ------------------------------
(***************************************************************************)
(* Bounded instances of what holds a miner's SOL, and of the board that    *)
(* tells him what he wagered: the staking pool with the claim vault, the   *)
(* auto-plans, and the board.  A behaviour is a behaviour of one of them   *)
(* (focus) while the others rest.  The variables of the pool are its own;  *)
(* the state of plans or board, if in focus, is x1, x2 and so on, in the   *)
(* order of the module.                                                    *)
(*                                                                         *)
(* REWARD_SCALE is small and no divisor of the weights, so that every kind *)
(* of rounding of the index occurs; batches hold two plans, so that one    *)
(* plan can spoil the other's batch.                                       *)
(***************************************************************************)
EXTENDS StakePool, TLC

CONSTANTS alice, bob, w1, NoRound, NoWallet

VARIABLES focus, x1, x2, x3, x4, x5, x6, x7, x8, x9, x10, x11, x12, x13, x14, x15, x16, x17, x18

Plans == INSTANCE AutoPlan WITH
    now <- x1, paused <- x2, plan <- x3, planLamports <- x4, receipt <- x5,
    pending_sol <- x6, claimVault <- x7, executions <- x8, keeper <- x9, sent <- x10,
    userSteps <- x11,
    Miners <- {alice, bob}, RoundIds <- {0, 1}, Nonces <- {0, 1}, Wagers <- {1},
    Deposits <- {2}, Prizes <- {2}, RewardModes <- {3}, U64Max <- 4,
    MINIMUM_ROUND_LAMPORTS <- 1, RECEIPT_RENT <- 1, BATCH_SIZE <- 2,
    MaxTime <- 1, MaxSent <- 1, MaxUserSteps <- 3

Board == INSTANCE MineBoard WITH
    wager <- x1, bets <- x2, resolved <- x3, slot <- x4, notices <- x5, roundReads
    <- x6, walletReads <- x7, bid <- x8, roundId <- x9, account <- x10, live <- x11,
    currentRound <- x12, lastResolved <- x13, lastPlayed <- x14, myBets <- x15,
    confirmed <- x16, stored <- x17, switches <- x18,
    LastRound <- 1, Wallets <- {w1}, MaxBids <- 1, MaxSwitches <- 2, MaxNotices <- 1

ASSUME PlansInstance == Plans!AutoPlanAssumption

Beyond11 == <<x12, x13, x14, x15, x16, x17, x18>>
restVars == <<x1, x2, x3, x4, x5, x6, x7, x8, x9, x10, x11, Beyond11>>

Unused11 ==
    x12 = 0 /\ x13 = 0 /\ x14 = 0 /\ x15 = 0 /\ x16 = 0 /\ x17 = 0 /\ x18 = 0
UnusedAll ==
    /\ x1 = 0 /\ x2 = 0 /\ x3 = 0 /\ x4 = 0 /\ x5 = 0 /\ x6 = 0 /\ x7 = 0 /\ x8 = 0
    /\ x9 = 0 /\ x10 = 0 /\ x11 = 0 /\ Unused11

LedgersInit ==
    /\ Init
    /\ \/ focus = "stake" /\ UnusedAll
       \/ focus = "plans" /\ Plans!Init /\ Unused11
       \/ focus = "board" /\ Board!Init

LedgersNext ==
    /\ UNCHANGED focus
    /\ \/ focus = "stake" /\ Next       /\ UNCHANGED restVars
       \/ focus = "plans" /\ Plans!Next /\ UNCHANGED <<vars, Beyond11>>
       \/ focus = "board" /\ Board!Next /\ UNCHANGED vars

ledgerVars == <<focus, vars, restVars>>

LedgersSpec == LedgersInit /\ [][LedgersNext]_ledgerVars

\* A plan account is backed and plays a round once, whatever lands late
\* (execute_auto_plan, reinvest_auto_plan_rewards).
PlansSound == focus = "plans" => Plans!PlansSound

\* A bad plan costs no other plan its round (sendIsolated).
PlansIsolated ==
    [][focus = "plans" => Plans!BlameIsOwn /\ Plans!KeepsEntries]_ledgerVars

\* applyRound and readWalletTileBets: no late answer takes back a bid, a
\* result, or the lock of a tile that was paid.
BoardNeverStepsBack ==
    [][focus = "board" => Board!StepsForward /\ Board!KeepsPaidTiles]_ledgerVars

Symmetry == Permutations({alice, bob})
=============================================================================
