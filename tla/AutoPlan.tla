------------------------------ MODULE AutoPlan ------------------------------
(***************************************************************************)
(* Auto-plans: a miner deposits SOL and a standing wager, and anybody may  *)
(* execute it once per round, and reinvest the owner's claimable SOL into  *)
(* it first when the owner consented.  The module has the instructions of  *)
(* the plan account and the keeper that executes the plans of a round:     *)
(* it reads the plans one by one, sends them in batches, halves a batch    *)
(* that fails, and leaves alone one whose fate it does not know.  What it  *)
(* read may be stale when its transaction lands, and a transaction it gave *)
(* up may still land.                                                      *)
(*                                                                         *)
(* A wager is its total: the board is the subject of Rounds, and so is the *)
(* round account, of which only the betting window is kept here.           *)
(***************************************************************************)
EXTENDS Integers, FiniteSets, FiniteSetsExt, Sequences, SequencesExt

CONSTANTS
    Miners, RoundIds, Nonces,
    Wagers, Deposits,            \* lamports per round, and per deposit
    Prizes,                      \* the SOL a paid receipt may bring
    RewardModes,                 \* the reward_mode bytes an owner may ask for
    U64Max, MINIMUM_ROUND_LAMPORTS, RECEIPT_RENT, BATCH_SIZE,
    NoRound,                     \* u64::MAX in last_round
    MaxTime,                     \* bound: the clock stops here
    MaxSent,                     \* bound: transactions of unknown fate
    MaxUserSteps                 \* bound: instructions not sent by a keeper

U64 == 0 .. U64Max

\* What the program's constants satisfy; instances assume it.
AutoPlanAssumption ==
    /\ IsFiniteSet(Miners) /\ RoundIds \subseteq Nat /\ Nonces \subseteq Nat
    /\ Wagers \subseteq U64 /\ Deposits \subseteq U64 /\ Prizes \subseteq U64
    /\ RewardModes \subseteq Nat /\ U64Max \in Nat /\ MINIMUM_ROUND_LAMPORTS \in Nat \ {0}
    /\ RECEIPT_RENT \in U64 /\ BATCH_SIZE \in Nat \ {0}
    /\ NoRound \notin RoundIds /\ MaxTime \in Nat /\ MaxSent \in Nat /\ MaxUserSteps \in Nat

VARIABLES
    now,            \* unix timestamp of the Clock sysvar
    paused,         \* config.paused
    plan,           \* the AutoPlan PDA of every miner
    planLamports,   \* of that account, above its own rent
    receipt,        \* the BetReceipt PDAs, by round, miner and nonce
    pending_sol,    \* the miners' claim balances
    claimVault,     \* the lamports behind them
    executions,     \* history: how often the plan played each round
    keeper,         \* the pass of each round's keeper over the plans
    sent,           \* batches sent that may still land
    userSteps       \* instructions of owners, of the admin and of others so far

planVars   == <<plan, planLamports, executions>>
claimVars  == <<pending_sol, claimVault>>
vars == <<now, paused, planVars, receipt, claimVars, keeper, sent, userSteps>>

ReceiptIds == RoundIds \X Miners \X Nonces

NoPlan ==
    [ exists |-> FALSE, active |-> FALSE, reward_mode |-> 0, amount |-> 0,
      balance |-> 0, next_nonce |-> 0, last_round |-> NoRound ]

NoPass == [pc |-> "idle", unread |-> {}, entries |-> {}, queue |-> <<>>, rejected |-> {}]

Init ==
    /\ now = 0
    /\ paused = FALSE           \* the protocol is launched
    /\ plan = [m \in Miners |-> NoPlan]
    /\ planLamports = [m \in Miners |-> 0]
    /\ receipt = [id \in ReceiptIds |-> "absent"]
    /\ pending_sol = [m \in Miners |-> 0]
    /\ claimVault = 0
    /\ executions = [m \in Miners |-> [r \in RoundIds |-> 0]]
    /\ keeper = [r \in RoundIds |-> NoPass]
    /\ sent = {}
    /\ userSteps = 0

\* AUTO_REWARD_BURN is the low bit, AUTO_PLAN_REINVEST_SOL the next.
assert_auto_plan_reward_mode(mode) == mode \in 0 .. 3
auto_plan_reinvests_sol(mode)      == mode \in {2, 3}

\* A round takes wagers in its own unit of time and none after it.
BettingOpen(r) == now = r

-----------------------------------------------------------------------------
(* Time, and the rest of the protocol                                      *)

Tick ==
    /\ now < MaxTime
    /\ now' = now + 1
    /\ UNCHANGED <<paused, planVars, receipt, claimVars, keeper, sent>>

set_paused(p) ==
    /\ paused # p
    /\ paused' = p
    /\ UNCHANGED <<now, planVars, receipt, claimVars, keeper, sent>>

\* A deployment by hand, at any nonce the miner likes.
deploy(m, r, nonce) ==
    /\ ~paused /\ BettingOpen(r)
    /\ receipt[<<r, m, nonce>>] = "absent"
    /\ receipt' = [receipt EXCEPT ![<<r, m, nonce>>] = "open"]
    /\ UNCHANGED <<now, paused, planVars, claimVars, keeper, sent>>

\* A receipt of a settled round is paid into its owner's claim balance.
settle_receipt(id, sol) ==
    /\ now > id[1]
    /\ receipt[id] = "open"
    /\ pending_sol[id[2]] + sol \in U64 /\ claimVault + sol \in U64
    /\ receipt' = [receipt EXCEPT ![id] = "claimed"]
    /\ pending_sol' = [pending_sol EXCEPT ![id[2]] = pending_sol[id[2]] + sol]
    /\ claimVault' = claimVault + sol
    /\ UNCHANGED <<now, paused, planVars, keeper, sent>>

claim_staking_rewards(m) ==
    /\ pending_sol[m] > 0 /\ pending_sol[m] <= claimVault
    /\ claimVault' = claimVault - pending_sol[m]
    /\ pending_sol' = [pending_sol EXCEPT ![m] = 0]
    /\ UNCHANGED <<now, paused, planVars, receipt, keeper, sent>>

-----------------------------------------------------------------------------
(* The owner                                                               *)

ValidPlan(amount, mode) ==
    amount >= MINIMUM_ROUND_LAMPORTS /\ assert_auto_plan_reward_mode(mode)

create_auto_plan(m, amount, deposit, mode) ==
    /\ ~paused
    /\ ~plan[m].exists
    /\ ValidPlan(amount, mode)
    /\ plan' = [plan EXCEPT ![m] = [NoPlan EXCEPT
           !.exists = TRUE, !.active = TRUE, !.reward_mode = mode,
           !.amount = amount, !.balance = deposit]]
    /\ planLamports' = [planLamports EXCEPT ![m] = deposit]
    /\ executions' = [executions EXCEPT ![m] = [r \in RoundIds |-> 0]]
    /\ UNCHANGED <<now, paused, receipt, claimVars, keeper, sent>>

configure_auto_plan(m, amount, active, mode) ==
    /\ plan[m].exists
    /\ ValidPlan(amount, mode)
    /\ plan' = [plan EXCEPT ![m] = [plan[m] EXCEPT
           !.amount = amount, !.active = active, !.reward_mode = mode]]
    /\ UNCHANGED <<now, paused, planLamports, executions, receipt, claimVars, keeper, sent>>

fund_auto_plan(m, lamports) ==
    /\ plan[m].exists
    /\ lamports > 0
    /\ plan[m].balance + lamports \in U64
    /\ plan' = [plan EXCEPT ![m].balance = plan[m].balance + lamports]
    /\ planLamports' = [planLamports EXCEPT ![m] = planLamports[m] + lamports]
    /\ UNCHANGED <<now, paused, executions, receipt, claimVars, keeper, sent>>

\* The tracked balance is returned and the account is closed, paused or not.
cancel_auto_plan(m) ==
    /\ plan[m].exists
    /\ plan[m].balance <= planLamports[m]
    /\ plan' = [plan EXCEPT ![m] = NoPlan]
    /\ planLamports' = [planLamports EXCEPT ![m] = 0]
    /\ UNCHANGED <<now, paused, executions, receipt, claimVars, keeper, sent>>

-----------------------------------------------------------------------------
(* Any executor                                                            *)

\* Whether reinvest_auto_plan_rewards would accept the plan of m.
Reinvestable(m) ==
    /\ ~paused
    /\ plan[m].exists /\ plan[m].active
    /\ auto_plan_reinvests_sol(plan[m].reward_mode)
    /\ pending_sol[m] <= claimVault
    /\ plan[m].balance + pending_sol[m] \in U64

MovePendingToPlan(m) ==
    /\ Reinvestable(m)
    /\ plan' = [plan EXCEPT ![m].balance = plan[m].balance + pending_sol[m]]
    /\ planLamports' = [planLamports EXCEPT ![m] = planLamports[m] + pending_sol[m]]
    /\ claimVault' = claimVault - pending_sol[m]
    /\ UNCHANGED <<now, paused, executions, receipt, keeper, sent>>

reinvest_auto_plan_rewards(m) ==
    /\ MovePendingToPlan(m)
    /\ pending_sol' = [pending_sol EXCEPT ![m] = 0]

\* What the optional reinvestment adds before the execution of an entry.
Reinvested(e) == IF e.reinvest THEN pending_sol[e.miner] ELSE 0

required_balance(m) == plan[m].amount + RECEIPT_RENT

\* The checks of an execution without the one against last_round.
PlayableAnyRound(r, e) ==
    LET m == e.miner
    IN /\ ~paused
       /\ plan[m].exists /\ plan[m].active
       /\ e.reinvest => Reinvestable(m)
       /\ plan[m].next_nonce = e.nonce
       /\ BettingOpen(r)
       /\ plan[m].balance + Reinvested(e) >= required_balance(m)
       /\ <<r, m, e.nonce>> \in ReceiptIds /\ receipt[<<r, m, e.nonce>>] = "absent"

\* Whether execute_auto_plan accepts the entry, after its reinvestment: the
\* receipt is created at the plan's next nonce, and that fails where the owner
\* has a receipt of that nonce in the round.
Playable(r, e) ==
    LET m == e.miner
    IN /\ ~paused
       /\ plan[m].exists /\ plan[m].active
       /\ e.reinvest => Reinvestable(m)
       /\ plan[m].last_round # r
       /\ plan[m].next_nonce = e.nonce
       /\ BettingOpen(r)
       /\ plan[m].balance + Reinvested(e) >= required_balance(m)
       /\ <<r, m, e.nonce>> \in ReceiptIds /\ receipt[<<r, m, e.nonce>>] = "absent"

PlanAfter(r, e) ==
    [plan[e.miner] EXCEPT !.balance = plan[e.miner].balance + Reinvested(e)
                                        - required_balance(e.miner),
                          !.next_nonce = e.nonce + 1, !.last_round = r]

Total(f, S) == MapThenSumSet(LAMBDA m : f[m], S)

\* One atomic transaction: every entry reinvests, if it does, and plays, or
\* nothing happens.
ExecuteBatch(r, batch) ==
    LET Entry(m)  == CHOOSE e \in batch : e.miner = m
        Played    == {e.miner : e \in batch}
        Reinvests == {e.miner : e \in {x \in batch : x.reinvest}}
    IN /\ \A e \in batch : Playable(r, e)
       /\ plan' = [m \in Miners |-> IF m \in Played THEN PlanAfter(r, Entry(m)) ELSE plan[m]]
       /\ planLamports' = [m \in Miners |->
              IF m \in Played
              THEN planLamports[m] + Reinvested(Entry(m)) - plan[m].amount - RECEIPT_RENT
              ELSE planLamports[m]]
       /\ executions' = [m \in Miners |->
              IF m \in Played THEN [executions[m] EXCEPT ![r] = executions[m][r] + 1]
              ELSE executions[m]]
       /\ receipt' = [id \in ReceiptIds |->
              IF \E e \in batch : id = <<r, e.miner, e.nonce>> THEN "open" ELSE receipt[id]]
       /\ pending_sol' = [m \in Miners |-> IF m \in Reinvests THEN 0 ELSE pending_sol[m]]
       /\ claimVault' = claimVault - Total(pending_sol, Reinvests)
       /\ UNCHANGED <<now, paused>>

\* Anybody's execution of one plan, without a reinvestment.
execute_auto_plan(m, r) ==
    /\ ExecuteBatch(r, {[miner |-> m, nonce |-> plan[m].next_nonce, reinvest |-> FALSE]})
    /\ UNCHANGED <<keeper, sent>>

-----------------------------------------------------------------------------
(* The keeper of a round                                                   *)

chainVars == <<now, paused, planVars, receipt, claimVars>>

\* What the index answers: it may lag behind the chain either way, so it names
\* any miners.
IndexedRows == SUBSET Miners

StartPass(r, authorities) ==
    /\ keeper[r].pc = "idle"
    /\ BettingOpen(r)
    /\ keeper' = [keeper EXCEPT ![r] = [NoPass EXCEPT !.pc = "read", !.unread = authorities]]
    /\ UNCHANGED <<chainVars, sent>>

\* buildEntry: the plans are read one after the other, in any order.
BuildEntry(r, m) ==
    LET reinvests == auto_plan_reinvests_sol(plan[m].reward_mode) /\ pending_sol[m] > 0
        entry     == [miner |-> m, nonce |-> plan[m].next_nonce, reinvest |-> reinvests]
        wanted    == /\ plan[m].exists /\ plan[m].active
                     /\ plan[m].balance + Reinvested(entry) >= required_balance(m)
                     /\ plan[m].last_round # r
    IN /\ keeper[r].pc = "read" /\ m \in keeper[r].unread
       /\ keeper' = [keeper EXCEPT ![r] = [keeper[r] EXCEPT
              !.unread  = keeper[r].unread \ {m},
              !.entries = IF wanted THEN keeper[r].entries \cup {entry} ELSE keeper[r].entries]]
       /\ UNCHANGED <<chainVars, sent>>

\* The entries, in the order of the index, are cut into batches.
QueueBatches(r, order) ==
    LET count    == (Len(order) + BATCH_SIZE - 1) \div BATCH_SIZE
        Batch(i) == SubSeq(order, (i - 1) * BATCH_SIZE + 1, Min({i * BATCH_SIZE, Len(order)}))
    IN /\ keeper[r].pc = "read" /\ keeper[r].unread = {}
       /\ keeper' = [keeper EXCEPT ![r] = [keeper[r] EXCEPT
              !.pc = "send", !.entries = {}, !.queue = [i \in 1 .. count |-> Batch(i)]]]
       /\ UNCHANGED <<chainVars, sent>>

Sending(r) == keeper[r].pc = "send" /\ keeper[r].queue # <<>>

Rest(r) == [keeper[r] EXCEPT !.queue = Tail(keeper[r].queue)]

\* The window is over: the batch is skipped.
SkipBatch(r) ==
    /\ Sending(r)
    /\ ~BettingOpen(r)
    /\ keeper' = [keeper EXCEPT ![r] = Rest(r)]
    /\ UNCHANGED <<chainVars, sent>>

\* The simulation passes and the transaction is confirmed.
SendConfirmed(r) ==
    /\ Sending(r)
    /\ ExecuteBatch(r, ToSet(Head(keeper[r].queue)))
    /\ keeper' = [keeper EXCEPT ![r] = Rest(r)]
    /\ UNCHANGED sent

\* Going on with the first half of a failed batch only.
SplitKeepsFirstHalf(r, batch) ==
    IF Len(batch) > 1
    THEN [Rest(r) EXCEPT !.queue =
             <<SubSeq(batch, 1, (Len(batch) + 1) \div 2)>> \o Tail(keeper[r].queue)]
    ELSE [Rest(r) EXCEPT !.rejected = keeper[r].rejected \cup ToSet(batch)]

\* A failed batch is cut in two, a failed entry is reported.
SplitOrReject(r, batch) ==
    LET split == (Len(batch) + 1) \div 2
    IN IF Len(batch) > 1
       THEN [Rest(r) EXCEPT !.queue =
                <<SubSeq(batch, 1, split), SubSeq(batch, split + 1, Len(batch))>>
                    \o Tail(keeper[r].queue)]
       ELSE [Rest(r) EXCEPT !.rejected = keeper[r].rejected \cup ToSet(batch)]

\* The simulation refuses the batch.
SimulationFails(r) ==
    LET batch == Head(keeper[r].queue)
    IN /\ Sending(r)
       /\ \E e \in ToSet(batch) : ~Playable(r, e)
       /\ keeper' = [keeper EXCEPT ![r] = SplitOrReject(r, batch)]
       /\ UNCHANGED <<chainVars, sent>>

SendAnyway(r, batch) ==
    /\ Cardinality(sent) < MaxSent
    /\ sent' = sent \cup {[round |-> r, batch |-> ToSet(batch)]}

\* A batch of several entries is sent and its confirmation fails otherwise than
\* by a timeout: it is cut in two and sent again although it may still land.
ConfirmationFails(r) ==
    LET batch == Head(keeper[r].queue)
    IN /\ Sending(r)
       /\ Len(batch) > 1
       /\ keeper' = [keeper EXCEPT ![r] = SplitOrReject(r, batch)]
       /\ SendAnyway(r, batch)
       /\ UNCHANGED chainVars

\* A timeout leaves the batch alone: its fate is unknown.  So is that of a
\* single entry whose confirmation fails otherwise, which is only reported.
SendTimesOut(r) ==
    /\ Sending(r)
    /\ keeper' = [keeper EXCEPT ![r] = Rest(r)]
    /\ SendAnyway(r, Head(keeper[r].queue))
    /\ UNCHANGED chainVars

\* The next pass follows while the window is open; then the keeper goes on.
EndPass(r) ==
    /\ keeper[r].pc = "send" /\ keeper[r].queue = <<>>
    /\ keeper' = [keeper EXCEPT ![r] = [NoPass EXCEPT
           !.pc = IF BettingOpen(r) THEN "idle" ELSE "done"]]
    /\ UNCHANGED <<chainVars, sent>>

\* A transaction nobody waits for any more lands after all, or is lost.
LandLate(tx) ==
    /\ tx \in sent
    /\ ExecuteBatch(tx.round, tx.batch)
    /\ sent' = sent \ {tx}
    /\ UNCHANGED keeper

Lose(tx) ==
    /\ tx \in sent
    /\ sent' = sent \ {tx}
    /\ UNCHANGED <<chainVars, keeper>>

-----------------------------------------------------------------------------
OwnerSteps(m) ==
    \/ \E amount \in Wagers, mode \in RewardModes :
         \/ \E deposit \in Deposits : create_auto_plan(m, amount, deposit, mode)
         \/ \E active \in BOOLEAN : configure_auto_plan(m, amount, active, mode)
    \/ \E lamports \in Deposits : fund_auto_plan(m, lamports)
    \/ cancel_auto_plan(m)
    \/ claim_staking_rewards(m)
    \/ \E r \in RoundIds, nonce \in Nonces : deploy(m, r, nonce)

KeeperSteps(r) ==
    \/ \E authorities \in IndexedRows : StartPass(r, authorities)
    \/ \E m \in Miners : BuildEntry(r, m)
    \/ \E order \in SetToSeqs(keeper[r].entries) : QueueBatches(r, order)
    \/ SkipBatch(r)
    \/ SendConfirmed(r)
    \/ SimulationFails(r)
    \/ ConfirmationFails(r)
    \/ SendTimesOut(r)
    \/ EndPass(r)

Next ==
    \/ /\ userSteps < MaxUserSteps /\ userSteps' = userSteps + 1
       /\ \/ \E p \in BOOLEAN : set_paused(p)
          \/ \E m \in Miners : 
                \/ OwnerSteps(m)
                \/ reinvest_auto_plan_rewards(m)
                \/ \E r \in RoundIds : execute_auto_plan(m, r)
          \/ \E id \in ReceiptIds, sol \in Prizes : settle_receipt(id, sol)
    \/ /\ UNCHANGED userSteps
       /\ \/ Tick
          \/ \E r \in RoundIds : KeeperSteps(r)
          \/ \E tx \in sent : LandLate(tx) \/ Lose(tx)

Spec == Init /\ [][Next]_vars

-----------------------------------------------------------------------------
(* Properties                                                              *)

EntryType == [miner : Miners, nonce : Nat, reinvest : BOOLEAN]

\* Accounts and passes keep their types; no amount leaves u64.
TypeOK ==
    /\ now \in 0 .. MaxTime /\ paused \in BOOLEAN
    /\ plan \in [Miners -> [ exists : BOOLEAN, active : BOOLEAN, reward_mode : 0 .. 3,
                             amount : U64, balance : U64, next_nonce : Nat,
                             last_round : RoundIds \cup {NoRound} ]]
    /\ planLamports \in [Miners -> U64]
    /\ receipt \in [ReceiptIds -> {"absent", "open", "claimed"}]
    /\ pending_sol \in [Miners -> U64] /\ claimVault \in U64
    /\ \A r \in RoundIds : keeper[r].entries \subseteq EntryType

\* The plan account holds exactly the balance it records, through deposits,
\* reinvestments, wagers and the rent it pays back to executors, so that the
\* last execution or a cancellation finds what it is about to move.
PlanBacked == \A m \in Miners : planLamports[m] = plan[m].balance

\* A plan plays a round at most once, however often keepers retry, halve and
\* resend batches whose first copy may still land, and although the plan
\* remembers its last round only.
OncePerRound == \A m \in Miners, r \in RoundIds : executions[m][r] <= 1

\* The claim vault holds what its miners may still claim: an owner's claim and
\* a reinvestment race for the same balance and only one of them gets it.
ClaimVaultCovers == Total(pending_sol, Miners) <= claimVault

\* One bad plan does not cost its neighbours their round: a keeper reports an
\* entry as failed only when the chain would have refused that entry.
BlameIsOwn ==
    \A r \in RoundIds : \A e \in keeper'[r].rejected \ keeper[r].rejected : ~Playable(r, e)

\* Nothing that was read as executable is forgotten by the halving of batches:
\* an entry leaves the queue only by being played, reported or given up.
KeepsEntries ==
    \A r \in RoundIds :
      LET Queued(k) == UNION {ToSet(k.queue[i]) : i \in 1 .. Len(k.queue)}
      IN keeper[r].pc = "send" /\ BettingOpen(r) =>
           \A e \in Queued(keeper[r]) :
              \/ e \in Queued(keeper'[r])
              \/ e \in keeper'[r].rejected
              \/ plan'[e.miner].last_round = r
              \/ \E tx \in sent' : tx.round = r /\ e \in tx.batch

\* A plan spends what it holds and plays a round once, and what it reinvests
\* is nobody else's.
PlansSound == TypeOK /\ PlanBacked /\ OncePerRound /\ ClaimVaultCovers

\* The keeper isolates a bad plan: its neighbours are neither blamed nor lost.
PlansIsolated == [][BlameIsOwn /\ KeepsEntries]_vars
=============================================================================
