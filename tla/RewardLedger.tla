---------------------------- MODULE RewardLedger ----------------------------
(***************************************************************************)
(* The connected wallet's rewards on the Mine page: refreshMiner with its  *)
(* single flight, dirty flag and request id, the notices and polls that    *)
(* start it, and Claim All, which processes receipts, reads the ledger     *)
(* again and withdraws what it finds.  Keepers process the same receipts,  *)
(* reads fail or answer late, prompts are refused and the user switches    *)
(* wallets at any time.  Receipts belong to one wallet each; a processed   *)
(* receipt is due in SOL, and in MYNE too if it won some.                  *)
(***************************************************************************)
EXTENDS Naturals, FiniteSets

CONSTANTS
    Wallets, NoWallet,
    Receipts,
    Owner,         \* Owner[p]: the wallet of receipt p
    Winning,       \* receipts that also earn MYNE
    MaxSwitches,   \* bound: account, route and visibility changes
    MaxFaults      \* bound: failed reads

\* A receipt belongs to one wallet for good.
RewardLedgerAssumption ==
    NoWallet \notin Wallets /\ Owner \in [Receipts -> Wallets] /\ Winning \subseteq Receipts

VARIABLES
    open,       \* receipts not processed yet
    sol, myne,  \* processed receipts whose SOL, whose MYNE is still due
    account, live, hidden,
    reads,      \* readMiner calls on their way
    dirty,      \* minerRefreshDirty
    timer,      \* minerRefreshTimer is set
    shown,      \* the ledger published in state
    claim,      \* the Claim All in progress
    report,     \* what the last one returned
    missed,     \* a read failed, or a notice was dropped while hidden
    switches, faults

ledger == <<open, sol, myne>>
page == <<account, live, hidden>>
vars == <<ledger, page, reads, dirty, timer, shown, claim, report, missed, switches, faults>>

Due(w) == [sol |-> {p \in sol : Owner[p] = w}, myne |-> {p \in myne : Owner[p] = w}]
Cleared == [sol |-> {}, myne |-> {}]
NoClaim == [pc |-> "idle", waiting |-> FALSE, burn |-> FALSE, account |-> NoWallet, requested |-> {},
            processed |-> {}, miner |-> Cleared, ok |-> FALSE, handled |-> FALSE, moved |-> FALSE]
NoReport == [ok |-> FALSE, requested |-> {}, moved |-> FALSE]

Init ==
    /\ open = Receipts /\ sol = {} /\ myne = {}
    /\ account = NoWallet /\ live = TRUE /\ hidden = FALSE
    /\ reads = {} /\ dirty = FALSE /\ timer = FALSE /\ shown = Cleared
    /\ claim = NoClaim /\ report = NoReport /\ missed = FALSE /\ switches = 0 /\ faults = 0

-----------------------------------------------------------------------------
(* refreshMiner: reads are marked current (minerRefreshRequest), latest    *)
(* (its id is minerRefreshId) and awaited by Claim All.                    *)

Shared(rs, w) == {x \in rs : x.current /\ x.account = w}
Superseded(rs) == {[x EXCEPT !.current = FALSE, !.latest = FALSE] : x \in rs}
Issued(rs, w, awaited) ==
    Superseded(rs) \cup {[account |-> w, snap |-> Due(w), current |-> TRUE, latest |-> TRUE, awaited |-> awaited]}

\* The reads after a call for wallet w, of those in rs.
Refreshed(rs, w, awaited) ==
    IF w = NoWallet THEN rs
    ELSE IF Shared(rs, w) = {} THEN Issued(rs, w, awaited)
    ELSE {[x EXCEPT !.awaited = @ \/ (awaited /\ x \in Shared(rs, w))] : x \in rs}
JoinsRead(rs, w) == w # NoWallet /\ Shared(rs, w) # {}

\* A call that nobody waits for.
refreshMiner ==
    /\ reads' = Refreshed(reads, account, FALSE)
    /\ dirty' = (dirty \/ JoinsRead(reads, account))

\* A call of the claim c, which goes on at pc once the read is back; without
\* a wallet there is nothing to wait for.
AwaitRefresh(c, pc) ==
    /\ reads' = Refreshed(reads, account, TRUE)
    /\ dirty' = (dirty \/ JoinsRead(reads, account))
    /\ shown' = IF account = NoWallet THEN Cleared ELSE shown
    /\ claim' = [c EXCEPT !.pc = pc, !.waiting = account # NoWallet, !.ok = FALSE]

\* A continuation that is due runs before the page handles another event.
Resuming == claim.pc \in {"fresh1", "settled", "fresh2", "paidSol", "paidMyne"} /\ ~claim.waiting

\* The answer: published if the wallet is the same and no newer call was
\* made, then the read that a call in the meantime asked for.
PublishOfAnyWallet(x, ok) == ok
Published(x, ok) == ok /\ x.account = account /\ x.latest
NeverRerun(x) == FALSE
Rerun(x) == x.current /\ dirty /\ account = x.account
readMinerAnswer(x, ok) ==
    /\ shown' = IF Published(x, ok) THEN x.snap ELSE shown
    /\ reads' = IF Rerun(x) THEN Refreshed(reads \ {x}, account, FALSE) ELSE reads \ {x}
    /\ dirty' = (dirty /\ ~Rerun(x))
    /\ claim' = IF x.awaited
                THEN [claim EXCEPT !.waiting = FALSE, !.ok = ok /\ x.account = account, !.miner = x.snap]
                ELSE claim

readArrives ==
    /\ ~Resuming
    /\ \E x \in reads : readMinerAnswer(x, TRUE)
    /\ UNCHANGED <<ledger, page, timer, report, missed, switches, faults>>

readFails ==
    /\ ~Resuming /\ faults < MaxFaults /\ faults' = faults + 1 /\ missed' = TRUE
    /\ \E x \in reads : readMinerAnswer(x, FALSE)
    /\ UNCHANGED <<ledger, page, timer, report, switches>>

-----------------------------------------------------------------------------
(* The chain.  Every change reaches the page as a notice of a subscribed   *)
(* account, which sets one timer; while the page is hidden it is dropped.  *)

Notified ==
    /\ timer' = (timer \/ (account # NoWallet /\ ~hidden))
    /\ missed' = (missed \/ (account # NoWallet /\ hidden))
Process(p) ==
    /\ p \in open /\ open' = open \ {p}
    /\ sol' = sol \cup {p} /\ myne' = myne \cup ({p} \cap Winning)
    /\ Notified

\* The lifecycle keeper.
keeperSettles ==
    /\ \E p \in Receipts : Process(p)
    /\ UNCHANGED <<page, reads, dirty, shown, claim, report, switches, faults>>

-----------------------------------------------------------------------------
(* The page.                                                               *)

scheduleMinerRefresh ==
    /\ ~Resuming /\ timer /\ timer' = FALSE
    /\ missed' = (missed \/ hidden)
    /\ IF hidden \/ account = NoWallet THEN UNCHANGED <<reads, dirty>> ELSE refreshMiner
    /\ UNCHANGED <<ledger, page, shown, claim, report, switches, faults>>

\* The five-second poll of the Mine route.
poll ==
    /\ ~Resuming /\ live /\ ~hidden /\ account # NoWallet
    /\ shown # Due(account) \/ claim.pc # "idle"       \* a poll that changes nothing is left out
    /\ refreshMiner
    /\ UNCHANGED <<ledger, page, timer, shown, claim, report, missed, switches, faults>>

\* Invalidates the reads on their way and clears the old wallet's figures.
onAccountChange ==
    /\ ~Resuming /\ switches < MaxSwitches /\ switches' = switches + 1
    /\ account' \in (Wallets \cup {NoWallet}) \ {account}
    /\ shown' = Cleared
    /\ \E rs \in {{[x EXCEPT !.latest = FALSE] : x \in reads}} :
        /\ reads' = Refreshed(rs, account', FALSE)
        /\ dirty' = JoinsRead(rs, account')
    /\ claim' = [claim EXCEPT !.moved = claim.pc # "idle"]
    /\ UNCHANGED <<ledger, live, hidden, timer, report, missed, faults>>

setLive ==
    /\ ~Resuming /\ switches < MaxSwitches /\ switches' = switches + 1
    /\ live' = ~live
    /\ IF live' /\ ~hidden /\ account # NoWallet THEN refreshMiner ELSE UNCHANGED <<reads, dirty>>
    /\ UNCHANGED <<ledger, account, hidden, timer, shown, claim, report, missed, faults>>

visibilitychange ==
    /\ ~Resuming /\ switches < MaxSwitches /\ switches' = switches + 1
    /\ hidden' = ~hidden
    /\ UNCHANGED <<ledger, account, live, reads, dirty, timer, shown, claim, report, missed, faults>>

-----------------------------------------------------------------------------
(* claimAll, and stakeAndBurnRewards, which burns the MYNE instead.        *)

Returns(ok) ==
    /\ report' = [ok |-> ok, requested |-> claim.requested, moved |-> claim.moved]
    /\ claim' = NoClaim
rest == <<reads, dirty, timer, shown, missed, switches, faults>>

claimAll ==
    /\ claim = NoClaim /\ report = NoReport /\ account # NoWallet
    /\ \E rs \in SUBSET {p \in Receipts : Owner[p] = account}, burn \in BOOLEAN :
        AwaitRefresh([NoClaim EXCEPT !.account = account, !.requested = rs, !.burn = burn], "fresh1")
    /\ UNCHANGED <<ledger, page, timer, report, missed, switches, faults>>

\* freshRewardAccount: the wallet is the one that clicked, and it was read.
Fresh == account = claim.account /\ claim.ok

\* What is left to do once the receipts are dealt with, from the snapshot c
\* holds: refine looks at the published figure again.
AllProcessed(c) == c.processed = c.requested
MyneOrReturn(c) ==
    IF c.miner.myne # {} /\ (c.burn \/ shown.myne # {}) /\ account # NoWallet
    THEN claim' = [c EXCEPT !.pc = "myne", !.account = account] /\ UNCHANGED report
    ELSE Returns(c.miner.myne = {} /\ AllProcessed(c) /\ c.handled /\ ~c.burn)
Withdraw(c) ==
    IF c.miner.sol # {} THEN claim' = [c EXCEPT !.pc = "sol"] /\ UNCHANGED report ELSE MyneOrReturn(c)

\* The first check, then claimMany unless there is nothing to process.
firstFresh ==
    /\ claim.pc = "fresh1" /\ ~claim.waiting
    /\ IF ~Fresh THEN Returns(FALSE)
       ELSE IF claim.requested = {} THEN Withdraw(claim)
       ELSE claim' = [claim EXCEPT !.pc = "batch"] /\ UNCHANGED report
    /\ UNCHANGED <<ledger, page, rest>>

\* A chunk of the batch lands.
chunkLands ==
    /\ claim.pc = "batch" /\ account = claim.account
    /\ \E p \in claim.requested : Process(p)
    /\ UNCHANGED <<page, reads, dirty, shown, claim, report, switches, faults>>

\* claimBatched ends with the rounds it knows to be processed, all or some,
\* and refreshes the ledger if there is one.
RefreshAfterBatch(c) == AwaitRefresh(c, IF c.processed = {} THEN "fresh2" ELSE "settled")
claimBatched ==
    /\ claim.pc = "batch"
    /\ \E processed \in SUBSET (claim.requested \ open) :
        RefreshAfterBatch([claim EXCEPT !.processed = processed, !.handled = processed # {}])
    /\ UNCHANGED <<ledger, page, timer, report, missed, switches, faults>>

freshAgain ==
    /\ claim.pc = "settled" /\ ~claim.waiting /\ AwaitRefresh(claim, "fresh2")
    /\ UNCHANGED <<ledger, page, timer, report, missed, switches, faults>>

secondFresh ==
    /\ claim.pc = "fresh2" /\ ~claim.waiting
    /\ IF ~Fresh THEN Returns(FALSE) ELSE Withdraw(claim)
    /\ UNCHANGED <<ledger, page, rest>>

\* runTx of withdrawClaimableSol, withdrawUnrefined and burnUnclaimedMyne.
withdrawClaimableSol ==
    /\ claim.pc = "sol"
    /\ sol' = sol \ Due(claim.account).sol /\ Notified
    /\ AwaitRefresh([claim EXCEPT !.handled = TRUE], "paidSol")
    /\ UNCHANGED <<open, myne, page, report, switches, faults>>

solConfirmed ==
    /\ claim.pc = "paidSol" /\ ~claim.waiting /\ MyneOrReturn(claim)
    /\ UNCHANGED <<ledger, page, rest>>

withdrawUnrefined ==
    /\ claim.pc = "myne"
    /\ Due(claim.account).myne # {} /\ myne' = myne \ Due(claim.account).myne /\ Notified
    /\ AwaitRefresh(claim, "paidMyne")
    /\ UNCHANGED <<open, sol, page, report, switches, faults>>

myneConfirmed ==
    /\ claim.pc = "paidMyne" /\ ~claim.waiting /\ Returns(AllProcessed(claim))
    /\ UNCHANGED <<ledger, page, rest>>

\* A prompt is refused or the transaction fails.
runTxFails ==
    /\ claim.pc \in {"sol", "myne"} /\ Returns(FALSE)
    /\ UNCHANGED <<ledger, page, rest>>

Next ==
    \/ readArrives \/ readFails \/ keeperSettles
    \/ scheduleMinerRefresh \/ poll \/ onAccountChange \/ setLive \/ visibilitychange
    \/ claimAll \/ firstFresh \/ chunkLands \/ claimBatched \/ freshAgain \/ secondFresh
    \/ withdrawClaimableSol \/ solConfirmed \/ withdrawUnrefined \/ myneConfirmed \/ runTxFails

Spec == Init /\ [][Next]_vars

ClaimProgress == firstFresh \/ freshAgain \/ secondFresh \/ solConfirmed \/ myneConfirmed

\* Answers come, timers fire and the poll runs; what the user does is free.
Fairness == WF_vars(readArrives) /\ WF_vars(scheduleMinerRefresh) /\ WF_vars(poll)
            /\ WF_vars(ClaimProgress)
FairSpec == Spec /\ Fairness

-----------------------------------------------------------------------------
(* The figures shown, on which the claim buttons act, are always those of  *)
(* the connected wallet, in whatever order its reads come back.            *)
NoForeignRewards ==
    \A p \in shown.sol \cup shown.myne : Owner[p] = account

(* A Claim All that reports success left nothing behind: every receipt it  *)
(* was asked for is processed and, if the wallet stayed connected, its SOL *)
(* and MYNE are withdrawn, though the read it relies on may have been      *)
(* started by somebody else.                                               *)
ClaimAllSound ==
    report.ok =>
        /\ report.requested \cap open = {}
        /\ ~report.moved => report.requested \cap (sol \cup myne) = {}

(* Once a wallet's rewards stop changing the page comes to show them,      *)
(* polling or not, unless a read failed or a notice was missed off the     *)
(* Mine route.                                                             *)
LedgerShown ==
    <>[](account # NoWallet /\ (~missed \/ (live /\ ~hidden)) => shown = Due(account))
=============================================================================
