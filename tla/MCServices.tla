----------------------------- MODULE MCServices -----------------------------
(***************************************************************************)
(* Bounded instances of the off-chain services under the fairness their    *)
(* loops give them: the buyback keeper with its lease and journal, the     *)
(* worker host and its supervision of one worker, the selection of rounds  *)
(* by the indexer and the lifecycle keeper, one round of a server keeper   *)
(* under a power failure, and the wallet's reward ledger in the browser.   *)
(* None shares a variable with another here, so a behaviour is a behaviour *)
(* of one of them (focus) while the others rest in their initial state.    *)
(*                                                                         *)
(* Buyback: an allocation that takes two swaps and one that takes one, a   *)
(* blockhash that outlives no tick, and a lease one clock step longer than *)
(* the timeout of a tick.                                                  *)
(***************************************************************************)
EXTENDS Buyback, TLC

CONSTANTS
    k1, k2, r1, r2, w1, w2, p1, p2,
    NoReveal, NoHostRound, Never, NoCursor, NoWallet,
    ROUND, BETTING, MARGIN, GRACE, LOOKBACK, RETAINED, FirstManaged, LastRound, MaxTime,
    MaxHostFaults, MaxPauses,
    Wallets, Receipts, Owner, Winning, MaxSwitches, MaxReadFaults

Allocations == [r \in Rounds |-> IF r = 0 THEN 3 ELSE 1]
Owners == p1 :> w1 @@ p2 :> w2

VARIABLES
    focus,
    host_clock, host_paused, host_rounds, kids, inbox, exits, host, disk, host_faults, pauses,
    mode, failFast, ready, proc, wake, status, exited, restart, worker_faults,
    current, absent, gap, blocked, unclosed, unpaid, cursor, visited, restarts,
    slot, blocks, round, file, sent, server, told, failures,
    open, sol, myne, account, live, hidden, reads, dirty, timer, shown, claim, report,
    missed, switches, read_faults

hostVars == <<host_clock, host_paused, host_rounds, kids, inbox, exits, host, disk,
              host_faults, pauses>>
workerVars == <<mode, failFast, ready, proc, wake, status, exited, restart, worker_faults>>
selectionVars == <<current, absent, gap, blocked, unclosed, unpaid, cursor, visited, restarts>>
serverVars == <<slot, blocks, round, file, sent, server, told, failures>>
ledgerVars == <<open, sol, myne, account, live, hidden, reads, dirty, timer, shown, claim,
                report, missed, switches, read_faults>>
all == <<focus, vars, hostVars, workerVars, selectionVars, serverVars, ledgerVars>>

Host == INSTANCE WorkerHost WITH
    clock <- host_clock, paused <- host_paused, rounds <- host_rounds, faults <- host_faults,
    MaxFaults <- MaxHostFaults, NoRound <- NoHostRound

Worker == INSTANCE WorkerSupervisor WITH
    timer <- restart, faults <- worker_faults,
    HEARTBEAT_TIMEOUT <- 2, SUCCESS_FRESHNESS <- 1, ERROR_LIMIT <- 2, MaxFaults <- 2

Selection == INSTANCE RoundSelection WITH
    MaxRound <- 3, RECENT_DEPTH <- 1, GAP_BATCH <- 2, WINDOW_SIZE <- 3, ROUND_BATCH <- 2,
    MaxRestarts <- 1

Server == INSTANCE ServerRound WITH
    keeper <- server, report <- told, Keepers <- {k1}, Reveals <- {r1, r2},
    FirstSlot <- 1, OPENED_AT <- 2, BETTING_ENDS_AT <- 3, RESULT_DEADLINE <- 6, REFUND_AT <- 8,
    PREPARATION_LEAD <- 1, SERVER_ENTROPY_DELAY_SLOTS <- 1, SLOT_HASHES_MAX_ENTRIES <- 2,
    MaxSlot <- 8, MaxFailures <- 1

Ledger == INSTANCE RewardLedger WITH
    faults <- read_faults, MaxFaults <- MaxReadFaults

ASSUME ServiceInstances ==
    Host!WorkerHostAssumption /\ Worker!TimeoutBounds /\ Ledger!RewardLedgerAssumption

ServicesInit ==
    /\ focus \in {"buyback", "host", "worker", "selection", "server", "ledger"}
    /\ Init /\ Host!Init /\ Worker!Init /\ Selection!Init /\ Server!Init /\ Ledger!Init
    /\ focus # "worker" => mode = "live" /\ ~failFast
    /\ focus # "selection" => absent = {} /\ gap = 0 /\ unpaid = {} /\ blocked = {}

ServicesNext ==
    \/ /\ focus = "buyback" /\ Next
       /\ UNCHANGED <<focus, hostVars, workerVars, selectionVars, serverVars, ledgerVars>>
    \/ /\ focus = "host" /\ Host!Next
       /\ UNCHANGED <<focus, vars, workerVars, selectionVars, serverVars, ledgerVars>>
    \/ /\ focus = "worker" /\ Worker!Next
       /\ UNCHANGED <<focus, vars, hostVars, selectionVars, serverVars, ledgerVars>>
    \/ /\ focus = "selection" /\ Selection!Next
       /\ UNCHANGED <<focus, vars, hostVars, workerVars, serverVars, ledgerVars>>
    \/ /\ focus = "server" /\ Server!NextOrPowerFailure
       /\ UNCHANGED <<focus, vars, hostVars, workerVars, selectionVars, ledgerVars>>
    \/ /\ focus = "ledger" /\ Ledger!Next
       /\ UNCHANGED <<focus, vars, hostVars, workerVars, selectionVars, serverVars>>

\* The variables of the component in focus: the others never change.
Focused ==
    CASE focus = "buyback"   -> vars
      [] focus = "host"      -> hostVars
      [] focus = "worker"    -> workerVars
      [] focus = "selection" -> selectionVars
      [] focus = "server"    -> serverVars
      [] focus = "ledger"    -> ledgerVars

\* The fairness of every component (its FairSpec).  The focus never changes,
\* so a disjunction of actions of different components is fair to each.
Fair1 ==
    \/ focus = "buyback"   /\ Clock
    \/ focus = "host"      /\ Host!main({})
    \/ focus = "worker"    /\ Worker!WorkerStep
    \/ focus = "selection" /\ Selection!reconcileBatch
    \/ focus = "server"    /\ Server!NextSlot
    \/ focus = "ledger"    /\ Ledger!readArrives

Fair2 ==
    \/ focus = "buyback"   /\ KeeperStep(k1)
    \/ focus = "host"      /\ Host!HostEvents
    \/ focus = "worker"    /\ Worker!HostStep
    \/ focus = "selection" /\ Selection!lifecycleTick
    \/ focus = "server"    /\ Server!Delivery
    \/ focus = "ledger"    /\ Ledger!scheduleMinerRefresh

Fair3 ==
    \/ focus = "buyback"   /\ KeeperStep(k2)
    \/ focus = "host"      /\ Host!Scheduler
    \/ focus = "worker"    /\ Worker!TimePasses
    \/ focus = "server"    /\ Server!KeeperStep(k1)
    \/ focus = "ledger"    /\ Ledger!poll

Fair4 ==
    \/ focus = "host"      /\ Host!KeeperStep
    \/ focus = "worker"    /\ Worker!validateSafely
    \/ focus = "ledger"    /\ Ledger!ClaimProgress

ServicesSpec ==
    /\ ServicesInit /\ [][ServicesNext]_all
    /\ WF_Focused(Fair1 /\ UNCHANGED focus) /\ WF_Focused(Fair2 /\ UNCHANGED focus)
    /\ WF_Focused(Fair3 /\ UNCHANGED focus) /\ WF_Focused(Fair4 /\ UNCHANGED focus)

-----------------------------------------------------------------------------
(* Properties of the instances                                             *)

\* startRoundWorker and the incident file: a round never has two keepers, and a
\* green health check means no missed deadline waits for review.
HostSound == focus = "host" => Host!TypeOK /\ Host!OneKeeperPerRound /\ Host!HealthyMeansReviewed

\* onExit and scheduleRoundWorkers: a keeper that died is replaced while its
\* round is managed and live.
DeadKeeperReplaced == Host!DeadKeeperReplaced

\* persistRoundDeadlineIncident: a miss the host has seen reaches the file.
IncidentReachesDisk == Host!IncidentReachesDisk

\* superviseWorker: the worker is never lost, and its health comes back.
WorkerRecovers ==
    [](Worker!TypeOK /\ Worker!WorkerNeverLost) /\ []<>(focus = "worker" => Worker!publicHealth(status))

\* historicalRoundGapBatch and lifecycleQueues: every lost row is found again,
\* and no round waits for its payment behind rounds that wait for something
\* else.
EveryRoundServed ==
    []Selection!TypeOK /\ Selection!EveryGapFound /\ Selection!EveryRoundPaid

\* auditRecoveredSettlement: whatever dies in between, the host learns of every
\* settlement.
EverySettlementReported == Server!EverySettlementReported

\* refreshMiner and claimAll: the figures shown are the connected wallet's, and
\* a Claim All that reports success left nothing behind.
LedgerSound == focus = "ledger" => Ledger!NoForeignRewards /\ Ledger!ClaimAllSound

\* scheduleMinerRefresh: a wallet whose rewards stop changing comes to see them.
LedgerShown == Ledger!LedgerShown
=============================================================================
