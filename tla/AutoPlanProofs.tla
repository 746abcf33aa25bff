---------------------------- MODULE AutoPlanProofs ----------------------------
(***************************************************************************)
(* For any number of miners, rounds, prizes and keepers, whatever lands    *)
(* late or twice, a plan holds the balance it records, plays a round at    *)
(* most once, and what it reinvests is its owner's; and a keeper that      *)
(* halves a failing batch neither blames nor forgets the neighbours of a   *)
(* bad plan.                                                               *)
(*                                                                         *)
(* Playing twice is excluded by the clock, not by the history: the plan    *)
(* remembers its last round only, but a round that is not its last one is  *)
(* over, so that nobody can play it any more.                              *)
(***************************************************************************)
EXTENDS AutoPlan, LedgerLemmas, SequenceTheorems

PlanType ==
    [ exists : BOOLEAN, active : BOOLEAN, reward_mode : 0 .. 3, amount : U64,
      balance : U64, next_nonce : Nat, last_round : RoundIds \cup {NoRound} ]

PassType ==
    [ pc : {"idle", "read", "send", "done"}, unread : SUBSET Miners,
      entries : SUBSET EntryType, queue : Seq(Seq(EntryType)), rejected : SUBSET EntryType ]

-----------------------------------------------------------------------------
(* The inductive invariant.                                                *)

\* Wherever a plan played, the round is over or it is the plan's last one.
\* A closed plan plays nothing until it is created, and then it starts anew.
PlayedSound ==
    /\ executions \in [Miners -> [RoundIds -> Nat]]
    /\ \A m \in Miners, r \in RoundIds :
          executions[m][r] # 0 =>
              /\ executions[m][r] = 1 /\ r <= now
              /\ r = now /\ plan[m].exists => plan[m].last_round = r

\* What a keeper holds is finite, and made of entries.
PassesSound ==
    /\ keeper \in [RoundIds -> PassType]
    /\ \A r \in RoundIds : IsFiniteSet(keeper[r].entries)

\* A plan that does not exist holds nothing.
ClosedEmpty == \A m \in Miners : ~plan[m].exists => plan[m].balance = 0

IInv ==
    /\ TypeOK /\ PlanBacked /\ ClaimVaultCovers
    /\ ClosedEmpty /\ PlayedSound /\ PassesSound

LEMMA PlayedOnce == PlayedSound => OncePerRound
BY DEF PlayedSound, OncePerRound

\* The accounts, without what the keepers have in mind.
AccountsSound ==
    /\ now \in 0 .. MaxTime /\ paused \in BOOLEAN
    /\ plan \in [Miners -> PlanType]
    /\ planLamports \in [Miners -> U64]
    /\ receipt \in [ReceiptIds -> {"absent", "open", "claimed"}]
    /\ pending_sol \in [Miners -> U64] /\ claimVault \in U64
    /\ PlanBacked /\ ClaimVaultCovers /\ ClosedEmpty /\ PlayedSound

LEMMA InParts == IInv <=> AccountsSound /\ PassesSound
<1>1. PassesSound => \A r \in RoundIds : keeper[r].entries \subseteq EntryType
    BY DEF PassesSound, PassType
<1>2. QED
    BY <1>1 DEF IInv, AccountsSound, TypeOK, PlanType

LEMMA InPartsNext == IInv' <=> AccountsSound' /\ PassesSound'
<1>1. PassesSound' => \A r \in RoundIds : keeper'[r].entries \subseteq EntryType
    BY DEF PassesSound, PassType
<1>2. QED
    BY <1>1 DEF IInv, AccountsSound, TypeOK, PlanType

LEMMA PassesKept ==
    ASSUME PassesSound, keeper' = keeper
    PROVE  PassesSound'
BY DEF PassesSound

-----------------------------------------------------------------------------
(* Sums of claims.                                                         *)

\* The vault still covers the claims when some miners are paid theirs.
LEMMA ClaimsPaid ==
    ASSUME NEW S, IsFiniteSet(S), NEW A \in SUBSET S, NEW f, NEW g, NEW v \in Nat,
           \A x \in S : f[x] \in Nat, SumOf(f, S) <= v,
           \A x \in S : g[x] = IF x \in A THEN 0 ELSE f[x]
    PROVE  /\ SumOf(f, A) \in Nat /\ v - SumOf(f, A) \in Nat
           /\ SumOf(g, S) <= v - SumOf(f, A)
<1> DEFINE h == [x \in S |-> IF x \in A THEN f[x] ELSE 0]
<1>1. \A x \in S : g[x] \in Nat /\ h[x] \in Nat /\ f[x] = g[x] + h[x]
    OBVIOUS
<1>2. \A x \in A : h[x] \in Nat /\ f[x] = h[x]
    OBVIOUS
<1>3. \A x \in S \ A : h[x] = 0
    OBVIOUS
<1> HIDE DEF h
<1>4. SumOf(f, S) = SumOf(g, S) + SumOf(h, S)
    BY <1>1, SumAdds
<1>5. SumOf(h, S) = SumOf(f, A)
    BY <1>2, <1>3, SumZeros
<1>6. SumOf(g, S) \in Nat /\ SumOf(h, S) \in Nat
    BY <1>1, SumType
<1>7. QED
    BY <1>4, <1>5, <1>6

LEMMA TotalIsSum == \A f, S : Total(f, S) = SumOf(f, S)
BY DEF Total, SumOf

LEMMA CoversSum == ClaimVaultCovers <=> SumOf(pending_sol, Miners) <= claimVault
BY TotalIsSum DEF ClaimVaultCovers

LEMMA CoversSumNext == ClaimVaultCovers' <=> SumOf(pending_sol', Miners) <= claimVault'
BY TotalIsSum DEF ClaimVaultCovers

-----------------------------------------------------------------------------
(* The instructions.                                                       *)

LEMMA TickKeeps ==
    ASSUME AccountsSound, Tick, AutoPlanAssumption
    PROVE  AccountsSound'
<1>1. now' = now + 1 /\ now' \in 0 .. MaxTime /\ now \in Nat
    BY DEF Tick, AccountsSound, AutoPlanAssumption
<1>2. UNCHANGED <<paused, plan, planLamports, executions, receipt, pending_sol, claimVault>>
    BY DEF Tick, planVars, claimVars
<1>3. PlayedSound'
    BY <1>1, <1>2 DEF AccountsSound, PlayedSound, AutoPlanAssumption
<1>4. QED
    BY <1>1, <1>2, <1>3 DEF AccountsSound, PlanBacked, ClaimVaultCovers, ClosedEmpty

LEMMA PauseKeeps ==
    ASSUME AccountsSound, NEW p \in BOOLEAN, set_paused(p)
    PROVE  AccountsSound'
BY DEF set_paused, planVars, claimVars, AccountsSound, PlanBacked, ClaimVaultCovers, ClosedEmpty,
       PlayedSound

LEMMA DeployKeeps ==
    ASSUME AccountsSound, NEW m \in Miners, NEW r \in RoundIds, NEW nonce \in Nonces,
           deploy(m, r, nonce)
    PROVE  AccountsSound'
<1>1. receipt' \in [ReceiptIds -> {"absent", "open", "claimed"}]
    BY DEF deploy, AccountsSound
<1>2. QED
    BY <1>1 DEF deploy, planVars, claimVars, AccountsSound, PlanBacked, ClaimVaultCovers,
                ClosedEmpty, PlayedSound

LEMMA SettleKeeps ==
    ASSUME AutoPlanAssumption, AccountsSound, NEW id \in ReceiptIds, NEW sol \in Prizes,
           settle_receipt(id, sol)
    PROVE  AccountsSound'
<1>1. receipt' \in [ReceiptIds -> {"absent", "open", "claimed"}]
    BY DEF settle_receipt, AccountsSound
<1>2. PICK m \in Miners : m = id[2]
    BY DEF ReceiptIds
<1>3. /\ pending_sol' = [pending_sol EXCEPT ![m] = pending_sol[m] + sol]
      /\ claimVault' = claimVault + sol
      /\ pending_sol[m] + sol \in U64 /\ claimVault + sol \in U64
    BY <1>2 DEF settle_receipt
<1>4. /\ \A x \in Miners : pending_sol[x] \in Nat
      /\ IsFiniteSet(Miners) /\ sol \in Nat /\ claimVault \in Nat
    BY DEF AccountsSound, AutoPlanAssumption, U64
<1>5. /\ pending_sol' \in [Miners -> U64] /\ claimVault' \in U64
      /\ pending_sol'[m] = pending_sol[m] + sol
      /\ \A x \in Miners \ {m} : pending_sol'[x] = pending_sol[x]
    BY <1>3 DEF AccountsSound
<1>6. ClaimVaultCovers'
  <2>1. PICK g : g = pending_sol'
      OBVIOUS
  <2>2. g[m] \in Nat
      BY <1>4, <1>5, <2>1
  <2>3. SumOf(g, Miners) = SumOf(pending_sol, Miners) - pending_sol[m] + g[m]
      BY <1>4, <1>5, <2>1, <2>2, SumChange
  <2>4. SumOf(pending_sol, Miners) \in Nat /\ SumOf(pending_sol, Miners) <= claimVault
      BY <1>4, SumType, CoversSum DEF AccountsSound
  <2>5. SumOf(g, Miners) <= claimVault'
      BY <1>3, <1>4, <1>5, <2>1, <2>3, <2>4
  <2>6. QED
      BY <2>1, <2>5, CoversSumNext
<1>7. UNCHANGED <<now, paused, plan, planLamports, executions>>
    BY DEF settle_receipt, planVars
<1>8. QED
    BY <1>1, <1>5, <1>6, <1>7 DEF AccountsSound, PlanBacked, ClosedEmpty, PlayedSound

\* A miner's whole claim is taken, and the vault gives exactly that.
LEMMA ClaimTaken ==
    ASSUME AutoPlanAssumption, AccountsSound, NEW m \in Miners,
           pending_sol[m] <= claimVault,
           claimVault' = claimVault - pending_sol[m],
           pending_sol' = [pending_sol EXCEPT ![m] = 0]
    PROVE  pending_sol' \in [Miners -> U64] /\ claimVault' \in U64 /\ ClaimVaultCovers'
<1>1. /\ \A x \in Miners : pending_sol[x] \in Nat
      /\ IsFiniteSet(Miners) /\ claimVault \in Nat /\ claimVault <= U64Max /\ U64Max \in Nat
    BY DEF AccountsSound, AutoPlanAssumption, U64
<1>2. pending_sol' \in [Miners -> U64] /\ claimVault' \in U64
    BY <1>1 DEF AccountsSound, U64
<1>3. ClaimVaultCovers'
  <2>1. PICK g : g = pending_sol'
      OBVIOUS
  <2>2. g[m] = 0 /\ \A x \in Miners \ {m} : g[x] = pending_sol[x]
      BY <2>1 DEF AccountsSound
  <2>3. SumOf(g, Miners) = SumOf(pending_sol, Miners) - pending_sol[m] + g[m]
      BY <1>1, <2>2, SumChange
  <2>4. SumOf(pending_sol, Miners) \in Nat /\ SumOf(pending_sol, Miners) <= claimVault
      BY <1>1, SumType, CoversSum DEF AccountsSound
  <2>5. SumOf(g, Miners) <= claimVault'
      BY <1>1, <2>2, <2>3, <2>4
  <2>6. QED
      BY <2>1, <2>5, CoversSumNext
<1>4. QED
    BY <1>2, <1>3

LEMMA ClaimKeeps ==
    ASSUME AutoPlanAssumption, AccountsSound, NEW m \in Miners, claim_staking_rewards(m)
    PROVE  AccountsSound'
<1>1. pending_sol' \in [Miners -> U64] /\ claimVault' \in U64 /\ ClaimVaultCovers'
    BY ClaimTaken DEF claim_staking_rewards
<1>2. QED
    BY <1>1 DEF claim_staking_rewards, planVars, AccountsSound, PlanBacked, ClosedEmpty, PlayedSound

\* An instruction on the plan of one miner: its balance and its lamports move
\* together, and its history stays unless it starts anew.
LEMMA PlanChanges ==
    ASSUME AccountsSound, NEW m \in Miners, NEW p \in PlanType, NEW l \in U64,
           plan' = [plan EXCEPT ![m] = p], planLamports' = [planLamports EXCEPT ![m] = l],
           l = p.balance, ~p.exists => p.balance = 0,
           UNCHANGED <<now, paused, receipt>>,
           pending_sol' \in [Miners -> U64], claimVault' \in U64, ClaimVaultCovers',
           \/ executions' = executions
              /\ (p.exists => plan[m].exists /\ p.last_round = plan[m].last_round)
           \/ executions' = [executions EXCEPT ![m] = [r \in RoundIds |-> 0]]
    PROVE  AccountsSound'
<1>1. /\ plan' \in [Miners -> PlanType] /\ planLamports' \in [Miners -> U64]
      /\ plan'[m] = p /\ planLamports'[m] = l
      /\ \A x \in Miners \ {m} : plan'[x] = plan[x] /\ planLamports'[x] = planLamports[x]
    BY DEF AccountsSound
<1>2. PlanBacked' /\ ClosedEmpty'
    BY <1>1 DEF AccountsSound, PlanBacked, ClosedEmpty
<1>3. PlayedSound'
  <2>1. CASE executions' = executions /\ (p.exists => plan[m].exists /\ p.last_round = plan[m].last_round)
      BY <1>1, <2>1 DEF AccountsSound, PlayedSound
  <2>2. CASE executions' = [executions EXCEPT ![m] = [r \in RoundIds |-> 0]]
      BY <1>1, <2>2 DEF AccountsSound, PlayedSound
  <2>3. QED
      BY <2>1, <2>2
<1>4. QED
    BY <1>1, <1>2, <1>3 DEF AccountsSound

LEMMA CreateKeeps ==
    ASSUME AutoPlanAssumption, AccountsSound, NEW m \in Miners, NEW amount \in Wagers,
           NEW deposit \in Deposits, NEW mode \in RewardModes,
           create_auto_plan(m, amount, deposit, mode)
    PROVE  AccountsSound'
<1> DEFINE p == [NoPlan EXCEPT !.exists = TRUE, !.active = TRUE, !.reward_mode = mode,
                               !.amount = amount, !.balance = deposit]
<1>1. /\ plan' = [plan EXCEPT ![m] = p] /\ planLamports' = [planLamports EXCEPT ![m] = deposit]
      /\ executions' = [executions EXCEPT ![m] = [r \in RoundIds |-> 0]]
      /\ UNCHANGED <<now, paused, receipt, pending_sol, claimVault>>
      /\ mode \in 0 .. 3
    BY DEF create_auto_plan, claimVars, ValidPlan, assert_auto_plan_reward_mode
<1>2. p \in PlanType /\ p.balance = deposit /\ p.exists /\ deposit \in U64
    BY <1>1 DEF NoPlan, PlanType, AutoPlanAssumption, U64
<1> HIDE DEF p
<1>3. pending_sol' \in [Miners -> U64] /\ claimVault' \in U64 /\ ClaimVaultCovers'
    BY <1>1 DEF AccountsSound, ClaimVaultCovers
<1>4. QED
    BY <1>1, <1>2, <1>3, PlanChanges

LEMMA ConfigureKeeps ==
    ASSUME AutoPlanAssumption, AccountsSound, NEW m \in Miners, NEW amount \in Wagers,
           NEW active \in BOOLEAN, NEW mode \in RewardModes,
           configure_auto_plan(m, amount, active, mode)
    PROVE  AccountsSound'
<1> DEFINE p == [plan[m] EXCEPT !.amount = amount, !.active = active, !.reward_mode = mode]
           l == planLamports[m]
<1>1. /\ plan' = [plan EXCEPT ![m] = p] /\ planLamports' = planLamports
      /\ UNCHANGED <<now, paused, receipt, executions, pending_sol, claimVault>>
      /\ mode \in 0 .. 3 /\ plan[m].exists
    BY DEF configure_auto_plan, claimVars, ValidPlan, assert_auto_plan_reward_mode
<1>2. /\ plan[m] \in PlanType /\ l \in U64 /\ l = plan[m].balance
      /\ planLamports' = [planLamports EXCEPT ![m] = l]
    BY <1>1 DEF AccountsSound, PlanBacked
<1>3. /\ p \in PlanType /\ p.balance = plan[m].balance /\ p.exists
      /\ p.last_round = plan[m].last_round
    BY <1>1, <1>2 DEF PlanType, AutoPlanAssumption
<1> HIDE DEF p, l
<1>4. pending_sol' \in [Miners -> U64] /\ claimVault' \in U64 /\ ClaimVaultCovers'
    BY <1>1 DEF AccountsSound, ClaimVaultCovers
<1>5. QED
    BY <1>1, <1>2, <1>3, <1>4, PlanChanges

LEMMA FundKeeps ==
    ASSUME AutoPlanAssumption, AccountsSound, NEW m \in Miners, NEW lamports \in Deposits,
           fund_auto_plan(m, lamports)
    PROVE  AccountsSound'
<1> DEFINE b == plan[m].balance + lamports
           p == [plan[m] EXCEPT !.balance = b]
<1>1. /\ plan[m] \in PlanType /\ planLamports[m] = plan[m].balance /\ plan[m].exists /\ b \in U64
    BY DEF AccountsSound, PlanBacked, fund_auto_plan
<1>2. /\ plan' = [plan EXCEPT ![m] = p]
      /\ planLamports' = [planLamports EXCEPT ![m] = b]
      /\ UNCHANGED <<now, paused, receipt, executions, pending_sol, claimVault>>
    BY <1>1 DEF fund_auto_plan, claimVars
<1> HIDE DEF b
<1>3. /\ p \in PlanType /\ p.balance = b /\ p.exists /\ p.last_round = plan[m].last_round
    BY <1>1 DEF PlanType
<1> HIDE DEF p
<1>4. pending_sol' \in [Miners -> U64] /\ claimVault' \in U64 /\ ClaimVaultCovers'
    BY <1>2 DEF AccountsSound, ClaimVaultCovers
<1>5. QED
    BY <1>1, <1>2, <1>3, <1>4, PlanChanges

LEMMA CancelKeeps ==
    ASSUME AutoPlanAssumption, AccountsSound, NEW m \in Miners, cancel_auto_plan(m)
    PROVE  AccountsSound'
<1>1. /\ plan' = [plan EXCEPT ![m] = NoPlan] /\ planLamports' = [planLamports EXCEPT ![m] = 0]
      /\ UNCHANGED <<now, paused, receipt, executions, pending_sol, claimVault>>
    BY DEF cancel_auto_plan, claimVars
<1>2. NoPlan \in PlanType /\ NoPlan.balance = 0 /\ ~NoPlan.exists /\ 0 \in U64
    BY DEF NoPlan, PlanType, AutoPlanAssumption, U64
<1>3. pending_sol' \in [Miners -> U64] /\ claimVault' \in U64 /\ ClaimVaultCovers'
    BY <1>1 DEF AccountsSound, ClaimVaultCovers
<1>4. QED
    BY <1>1, <1>2, <1>3, PlanChanges

LEMMA ReinvestKeeps ==
    ASSUME AutoPlanAssumption, AccountsSound, NEW m \in Miners, reinvest_auto_plan_rewards(m)
    PROVE  AccountsSound'
<1> DEFINE b == plan[m].balance + pending_sol[m]
           p == [plan[m] EXCEPT !.balance = b]
<1>1. /\ plan[m] \in PlanType /\ planLamports[m] = plan[m].balance /\ plan[m].exists /\ b \in U64
      /\ pending_sol[m] <= claimVault
    BY DEF AccountsSound, PlanBacked, reinvest_auto_plan_rewards, MovePendingToPlan, Reinvestable
<1>2. /\ plan' = [plan EXCEPT ![m] = p]
      /\ planLamports' = [planLamports EXCEPT ![m] = b]
      /\ UNCHANGED <<now, paused, receipt, executions>>
    BY <1>1 DEF reinvest_auto_plan_rewards, MovePendingToPlan
<1>3. pending_sol' \in [Miners -> U64] /\ claimVault' \in U64 /\ ClaimVaultCovers'
    BY <1>1, ClaimTaken DEF reinvest_auto_plan_rewards, MovePendingToPlan
<1> HIDE DEF b
<1>4. /\ p \in PlanType /\ p.balance = b /\ p.exists /\ p.last_round = plan[m].last_round
    BY <1>1 DEF PlanType
<1> HIDE DEF p
<1>5. QED
    BY <1>1, <1>2, <1>3, <1>4, PlanChanges

\* Every plan of an executed batch was playable: it exists, it has not played
\* the round that is open, and it holds what the wager and the rent cost.
LEMMA BatchKeeps ==
    ASSUME AutoPlanAssumption, AccountsSound, NEW r, NEW batch, ExecuteBatch(r, batch)
    PROVE  /\ AccountsSound'
           /\ \A e \in batch : plan'[e.miner].last_round = r
<1> DEFINE Entry(m)  == CHOOSE e \in batch : e.miner = m
           Played    == {e.miner : e \in batch}
           Reinvests == {e.miner : e \in {x \in batch : x.reinvest}}
<1>1. ASSUME NEW e \in batch
      PROVE  /\ e.miner \in Miners /\ r \in RoundIds /\ now = r
             /\ plan[e.miner].exists /\ plan[e.miner].last_round # r
             /\ plan[e.miner].balance + Reinvested(e) >= required_balance(e.miner)
             /\ plan[e.miner].balance + Reinvested(e) \in U64
             /\ e.nonce \in Nat /\ Reinvested(e) \in Nat
  <2>1. Playable(r, e)
      BY DEF ExecuteBatch
  <2>2. e.miner \in Miners /\ r \in RoundIds /\ e.nonce \in Nonces
      BY <2>1 DEF Playable, ReceiptIds
  <2>3. /\ plan[e.miner].balance \in U64 /\ pending_sol[e.miner] \in Nat /\ e.nonce \in Nat
    <3>1. PICK m \in Miners : m = e.miner
        BY <2>2
    <3>2. plan[m] \in PlanType /\ pending_sol[m] \in U64
        BY DEF AccountsSound
    <3>3. plan[m].balance \in U64
        BY <3>2 DEF PlanType
    <3>4. e.nonce \in Nat
        BY <2>2 DEF AutoPlanAssumption
    <3>5. QED
        BY <3>1, <3>2, <3>3, <3>4 DEF U64
  <2>4. CASE e.reinvest
    <3>1. plan[e.miner].balance + pending_sol[e.miner] \in U64
        BY <2>1, <2>4 DEF Playable, Reinvestable
    <3>2. QED
        BY <2>1, <2>2, <2>3, <2>4, <3>1 DEF Playable, BettingOpen, Reinvested
  <2>5. CASE ~e.reinvest
      BY <2>1, <2>2, <2>3, <2>5 DEF Playable, BettingOpen, Reinvested, U64, AutoPlanAssumption
  <2>6. QED
      BY <2>4, <2>5
<1>2. ASSUME NEW m \in Played
      PROVE  Entry(m) \in batch /\ Entry(m).miner = m
    OBVIOUS
<1>3. Played \subseteq Miners /\ Reinvests \in SUBSET Miners
    BY <1>1
<1>4. /\ plan' = [m \in Miners |-> IF m \in Played THEN PlanAfter(r, Entry(m)) ELSE plan[m]]
      /\ planLamports' = [m \in Miners |->
              IF m \in Played
              THEN planLamports[m] + Reinvested(Entry(m)) - plan[m].amount - RECEIPT_RENT
              ELSE planLamports[m]]
      /\ executions' = [m \in Miners |->
              IF m \in Played THEN [executions[m] EXCEPT ![r] = executions[m][r] + 1]
              ELSE executions[m]]
      /\ pending_sol' = [m \in Miners |-> IF m \in Reinvests THEN 0 ELSE pending_sol[m]]
      /\ claimVault' = claimVault - Total(pending_sol, Reinvests)
      /\ UNCHANGED <<now, paused>>
    BY DEF ExecuteBatch
<1>5. receipt' \in [ReceiptIds -> {"absent", "open", "claimed"}]
    BY DEF ExecuteBatch, AccountsSound
<1> HIDE DEF Entry, Played, Reinvests
<1>6. ASSUME NEW m \in Played
      PROVE  /\ PlanAfter(r, Entry(m)) \in PlanType
             /\ PlanAfter(r, Entry(m)).exists /\ PlanAfter(r, Entry(m)).last_round = r
             /\ PlanAfter(r, Entry(m)).balance
                  = planLamports[m] + Reinvested(Entry(m)) - plan[m].amount - RECEIPT_RENT
             /\ executions[m][r] = 0 /\ r = now /\ r \in RoundIds
  <2>1. PICK e \in batch : e = Entry(m) /\ e.miner = m
      BY <1>2
  <2>2. /\ m \in Miners /\ r \in RoundIds /\ now = r /\ plan[m].exists /\ plan[m].last_round # r
        /\ plan[m].balance + Reinvested(e) >= required_balance(m)
        /\ plan[m].balance + Reinvested(e) \in U64
        /\ e.nonce \in Nat /\ Reinvested(e) \in Nat
      BY <1>1, <2>1
  <2>3. /\ plan[m] \in PlanType /\ planLamports[m] = plan[m].balance
        /\ plan[m].balance \in Nat /\ plan[m].amount \in Nat /\ RECEIPT_RENT \in Nat /\ U64Max \in Nat
      BY <2>2 DEF AccountsSound, PlanBacked, PlanType, U64, AutoPlanAssumption
  <2> DEFINE b == plan[m].balance + Reinvested(e) - required_balance(m)
  <2>4. /\ b \in U64
        /\ b = planLamports[m] + Reinvested(e) - plan[m].amount - RECEIPT_RENT
      BY <2>2, <2>3 DEF required_balance, U64
  <2>5. PlanAfter(r, e) = [plan[m] EXCEPT !.balance = b, !.next_nonce = e.nonce + 1, !.last_round = r]
      BY <2>1 DEF PlanAfter
  <2> HIDE DEF b
  <2>6. /\ PlanAfter(r, e) \in PlanType /\ PlanAfter(r, e).exists
        /\ PlanAfter(r, e).last_round = r /\ PlanAfter(r, e).balance = b
    <3>1. PICK p \in PlanType : p = plan[m]
        BY <2>3
    <3>2. PICK n \in Nat : n = e.nonce + 1
        BY <2>2
    <3>3. PlanAfter(r, e) = [p EXCEPT !.balance = b, !.next_nonce = n, !.last_round = r]
        BY <2>5, <3>1, <3>2
    <3>4. p.exists /\ r \in RoundIds \cup {NoRound}
        BY <2>2, <3>1
    <3>5. QED
        BY <2>4, <3>3, <3>4 DEF PlanType
  <2>7. executions[m][r] = 0
      BY <2>2 DEF AccountsSound, PlayedSound
  <2>8. QED
      BY <2>1, <2>2, <2>4, <2>6, <2>7
<1>7. \A m \in Miners : plan'[m] = IF m \in Played THEN PlanAfter(r, Entry(m)) ELSE plan[m]
    BY <1>4
<1>8. plan' \in [Miners -> PlanType]
    BY <1>4, <1>6 DEF AccountsSound
<1>9. \A m \in Miners : planLamports'[m] = plan'[m].balance /\ plan'[m].balance \in U64
    BY <1>4, <1>6, <1>7 DEF AccountsSound, PlanBacked, PlanType
<1>10. planLamports' \in [Miners -> U64]
    BY <1>4, <1>9
<1>11. ClosedEmpty'
    BY <1>6, <1>7 DEF AccountsSound, ClosedEmpty
<1>12. PlayedSound'
  <2>1. executions' \in [Miners -> [RoundIds -> Nat]]
      BY <1>4, <1>6 DEF AccountsSound, PlayedSound
  <2>2. ASSUME NEW m \in Miners, NEW q \in RoundIds, executions'[m][q] # 0
        PROVE  /\ executions'[m][q] = 1 /\ q <= now'
               /\ q = now' /\ plan'[m].exists => plan'[m].last_round = q
    <3>1. CASE m \notin Played
        BY <1>4, <1>7, <2>2, <3>1 DEF AccountsSound, PlayedSound
    <3>2. CASE m \in Played
      <4>1. /\ executions'[m] = [executions[m] EXCEPT ![r] = executions[m][r] + 1]
            /\ executions[m] \in [RoundIds -> Nat] /\ executions[m][r] = 0
            /\ plan'[m].last_round = r /\ now' = r /\ r \in RoundIds /\ r = now
          BY <1>4, <1>6, <1>7, <3>2 DEF AccountsSound, PlayedSound
      <4>2. CASE q = r
        <5>1. executions'[m][q] = 0 + 1
            BY <4>1, <4>2
        <5>2. q = now' /\ q \in Nat
            BY <4>1, <4>2 DEF AutoPlanAssumption
        <5>3. QED
            BY <4>1, <4>2, <5>1, <5>2
      <4>3. CASE q # r
        <5>1. executions[m][q] # 0 /\ executions'[m][q] = executions[m][q]
            BY <2>2, <4>1, <4>3
        <5>2. QED
            BY <4>1, <4>3, <5>1 DEF AccountsSound, PlayedSound
      <4>4. QED
          BY <4>2, <4>3
    <3>3. QED
        BY <3>1, <3>2
  <2>3. QED
      BY <2>1, <2>2 DEF PlayedSound
<1>13. pending_sol' \in [Miners -> U64] /\ claimVault' \in U64 /\ ClaimVaultCovers'
  <2>1. PICK f, g : f = pending_sol /\ g = pending_sol'
      OBVIOUS
  <2>2. /\ IsFiniteSet(Miners) /\ claimVault \in Nat /\ claimVault <= U64Max /\ U64Max \in Nat
        /\ \A x \in Miners : f[x] \in Nat /\ f[x] <= U64Max
        /\ \A x \in Miners : g[x] = IF x \in Reinvests THEN 0 ELSE f[x]
        /\ SumOf(f, Miners) <= claimVault
      BY <1>4, <2>1, CoversSum DEF AccountsSound, AutoPlanAssumption, U64
  <2>3. /\ SumOf(f, Reinvests) \in Nat /\ claimVault - SumOf(f, Reinvests) \in Nat
        /\ SumOf(g, Miners) <= claimVault - SumOf(f, Reinvests)
      BY <1>3, <2>2, ClaimsPaid
  <2>4. claimVault' = claimVault - SumOf(f, Reinvests)
      BY <1>4, <2>1, TotalIsSum
  <2>5. claimVault' \in U64
      BY <2>2, <2>3, <2>4 DEF U64
  <2>6. pending_sol' \in [Miners -> U64]
      BY <1>4, <2>1, <2>2 DEF U64
  <2>7. QED
      BY <2>1, <2>3, <2>4, <2>5, <2>6, CoversSumNext
<1>14. \A e \in batch : plan'[e.miner].last_round = r
  <2> TAKE e \in batch
  <2>1. e.miner \in Miners /\ e.miner \in Played
      BY <1>1 DEF Played
  <2>2. QED
      BY <1>6, <1>7, <2>1
<1>15. PlanBacked'
    BY <1>9 DEF PlanBacked
<1>16. QED
    BY <1>4, <1>5, <1>8, <1>10, <1>11, <1>12, <1>13, <1>14, <1>15 DEF AccountsSound

-----------------------------------------------------------------------------
(* The entries of a queue of batches.                                      *)

Held(q) == UNION {ToSet(q[i]) : i \in 1 .. Len(q)}

LEMMA HeldHas ==
    ASSUME NEW q, NEW e
    PROVE  e \in Held(q) <=> \E i \in 1 .. Len(q) : e \in ToSet(q[i])
BY DEF Held

LEMMA ToSetHas ==
    ASSUME NEW E, NEW s \in Seq(E), NEW e
    PROVE  e \in ToSet(s) <=> \E i \in 1 .. Len(s) : e = s[i]
BY LenProperties DEF ToSet

\* A queue holds its first batch and the rest.
LEMMA QueueRest ==
    ASSUME NEW E, NEW q \in Seq(Seq(E)), q # <<>>
    PROVE  /\ Head(q) \in Seq(E) /\ Tail(q) \in Seq(Seq(E))
           /\ Held(q) = ToSet(Head(q)) \cup Held(Tail(q))
<1>1. /\ Head(q) \in Seq(E) /\ Tail(q) \in Seq(Seq(E)) /\ Head(q) = q[1]
      /\ Len(q) \in Nat \ {0} /\ Len(Tail(q)) = Len(q) - 1
      /\ \A i \in 1 .. Len(Tail(q)) : Tail(q)[i] = q[i + 1]
    BY HeadTailProperties, EmptySeq
<1>2. ASSUME NEW e \in Held(q) PROVE e \in ToSet(Head(q)) \cup Held(Tail(q))
  <2>1. PICK i \in 1 .. Len(q) : e \in ToSet(q[i])
      BY <1>2, HeldHas
  <2>2. CASE i = 1
      BY <1>1, <2>1, <2>2
  <2>3. CASE i # 1
    <3>1. PICK j \in 1 .. Len(Tail(q)) : i = j + 1
        BY <1>1, <2>3
    <3>2. e \in ToSet(Tail(q)[j])
        BY <1>1, <2>1, <3>1
    <3>3. QED
        BY <3>2, HeldHas
  <2>4. QED
      BY <2>2, <2>3
<1>3. ASSUME NEW e \in Held(Tail(q)) PROVE e \in Held(q)
  <2>1. PICK j \in 1 .. Len(Tail(q)) : e \in ToSet(Tail(q)[j])
      BY <1>3, HeldHas
  <2>2. j + 1 \in 1 .. Len(q) /\ e \in ToSet(q[j + 1])
      BY <1>1, <2>1
  <2>3. QED
      BY <2>2, HeldHas
<1>4. ASSUME NEW e \in ToSet(Head(q)) PROVE e \in Held(q)
  <2>1. 1 \in 1 .. Len(q) /\ e \in ToSet(q[1])
      BY <1>1, <1>4
  <2>2. QED
      BY <2>1, HeldHas
<1>5. QED
    BY <1>1, <1>2, <1>3, <1>4

\* Two batches put before a queue are in it.
LEMMA QueueTwo ==
    ASSUME NEW E, NEW a \in Seq(E), NEW b \in Seq(E), NEW q \in Seq(Seq(E))
    PROVE  /\ <<a, b>> \o q \in Seq(Seq(E))
           /\ Held(<<a, b>> \o q) = ToSet(a) \cup ToSet(b) \cup Held(q)
<1>1. <<a, b>> \in Seq(Seq(E)) /\ Len(<<a, b>>) = 2 /\ <<a, b>>[1] = a /\ <<a, b>>[2] = b
    OBVIOUS
<1>2. PICK p \in Seq(Seq(E)) : p = <<a, b>>
    BY <1>1
<1>3. Len(q) \in Nat
    BY LenProperties
<1>4. /\ p \o q \in Seq(Seq(E)) /\ Len(p \o q) = 2 + Len(q)
      /\ \A i \in 1 .. 2 + Len(q) : (p \o q)[i] = IF i <= 2 THEN p[i] ELSE q[i - 2]
    BY <1>1, <1>2, ConcatProperties
<1>5. PICK c : c = p \o q
    OBVIOUS
<1>6. /\ 1 \in 1 .. Len(c) /\ c[1] = a /\ 2 \in 1 .. Len(c) /\ c[2] = b
      /\ \A i \in 1 .. Len(q) : i + 2 \in 1 .. Len(c) /\ c[i + 2] = q[i]
    BY <1>1, <1>2, <1>3, <1>4, <1>5
<1>7. \A i \in 1 .. Len(c) : i = 1 \/ i = 2 \/ \E j \in 1 .. Len(q) : i = j + 2
  <2> TAKE i \in 1 .. Len(c)
  <2>1. i - 2 \in 1 .. Len(q) \/ i = 1 \/ i = 2
      BY <1>3, <1>4, <1>5
  <2>2. i = (i - 2) + 2
      BY <1>3, <1>4, <1>5
  <2>3. QED
      BY <2>1, <2>2
<1>8. ASSUME NEW e \in Held(c) PROVE e \in ToSet(a) \cup ToSet(b) \cup Held(q)
  <2>1. PICK i \in 1 .. Len(c) : e \in ToSet(c[i])
      BY <1>8, HeldHas
  <2>2. CASE i = 1 \/ i = 2
      BY <1>6, <2>1, <2>2
  <2>3. CASE \E j \in 1 .. Len(q) : i = j + 2
    <3>1. PICK j \in 1 .. Len(q) : i = j + 2
        BY <2>3
    <3>2. e \in ToSet(q[j])
        BY <1>6, <2>1, <3>1
    <3>3. QED
        BY <3>2, HeldHas
  <2>4. QED
      BY <1>7, <2>2, <2>3
<1>9. ASSUME NEW e \in ToSet(a) \cup ToSet(b) \cup Held(q) PROVE e \in Held(c)
  <2>1. CASE e \in ToSet(a) \/ e \in ToSet(b)
      BY <1>6, <2>1, HeldHas
  <2>2. CASE e \in Held(q)
    <3>1. PICK j \in 1 .. Len(q) : e \in ToSet(q[j])
        BY <2>2, HeldHas
    <3>2. j + 2 \in 1 .. Len(c) /\ e \in ToSet(c[j + 2])
        BY <1>6, <3>1
    <3>3. QED
        BY <3>2, HeldHas
  <2>3. QED
      BY <1>9, <2>1, <2>2
<1>10. QED
    BY <1>2, <1>4, <1>5, <1>8, <1>9

\* A batch cut in two is its two parts.
LEMMA CutInTwo ==
    ASSUME NEW E, NEW s \in Seq(E), NEW k \in Nat, k <= Len(s)
    PROVE  /\ SubSeq(s, 1, k) \in Seq(E) /\ SubSeq(s, k + 1, Len(s)) \in Seq(E)
           /\ ToSet(s) = ToSet(SubSeq(s, 1, k)) \cup ToSet(SubSeq(s, k + 1, Len(s)))
<1>1. /\ Len(s) \in Nat /\ \A i \in 1 .. Len(s) : s[i] \in E
    BY LenProperties, ElementOfSeq
<1>2. /\ SubSeq(s, 1, k) \in Seq(E) /\ Len(SubSeq(s, 1, k)) = k
      /\ \A i \in 1 .. k : SubSeq(s, 1, k)[i] = s[i]
    BY <1>1, SubSeqProperties
<1>3. /\ SubSeq(s, k + 1, Len(s)) \in Seq(E) /\ Len(SubSeq(s, k + 1, Len(s))) = Len(s) - k
      /\ \A i \in 1 .. Len(s) - k : SubSeq(s, k + 1, Len(s))[i] = s[k + i]
    BY <1>1, SubSeqProperties
<1>4. PICK a \in Seq(E), b \in Seq(E) : a = SubSeq(s, 1, k) /\ b = SubSeq(s, k + 1, Len(s))
    BY <1>2, <1>3
<1>5. \A i \in 1 .. Len(s) : (i \in 1 .. k /\ s[i] = a[i]) \/ (i - k \in 1 .. Len(s) - k /\ s[i] = b[i - k])
    BY <1>1, <1>2, <1>3, <1>4
<1>6. ASSUME NEW e \in ToSet(s) PROVE e \in ToSet(a) \cup ToSet(b)
  <2>1. PICK i \in 1 .. Len(s) : e = s[i]
      BY <1>6, ToSetHas
  <2>2. (\E j \in 1 .. Len(a) : e = a[j]) \/ (\E j \in 1 .. Len(b) : e = b[j])
      BY <1>2, <1>3, <1>4, <1>5, <2>1
  <2>3. QED
      BY <2>2, ToSetHas
<1>7. ASSUME NEW e \in ToSet(a) \cup ToSet(b) PROVE e \in ToSet(s)
  <2>1. CASE e \in ToSet(a)
    <3>1. PICK i \in 1 .. Len(a) : e = a[i]
        BY <2>1, ToSetHas
    <3>2. i \in 1 .. Len(s) /\ e = s[i]
        BY <1>1, <1>2, <1>4, <3>1
    <3>3. QED
        BY <3>2, ToSetHas
  <2>2. CASE e \in ToSet(b)
    <3>1. PICK i \in 1 .. Len(b) : e = b[i]
        BY <2>2, ToSetHas
    <3>2. k + i \in 1 .. Len(s) /\ e = s[k + i]
        BY <1>1, <1>3, <1>4, <3>1
    <3>3. QED
        BY <3>2, ToSetHas
  <2>3. QED
      BY <1>7, <2>1, <2>2
<1>8. QED
    BY <1>2, <1>3, <1>4, <1>6, <1>7

-----------------------------------------------------------------------------
(* The keepers.                                                            *)

KeeperFair == BlameIsOwn /\ KeepsEntries

\* A keeper that does nothing blames and forgets nobody.
LEMMA KeeperRests ==
    ASSUME PassesSound, keeper' = keeper
    PROVE  PassesSound' /\ KeeperFair
<1>1. PassesSound'
    BY PassesKept
<1>2. BlameIsOwn
    BY DEF BlameIsOwn
<1>3. KeepsEntries
    BY DEF KeepsEntries
<1>4. QED
    BY <1>1, <1>2, <1>3 DEF KeeperFair

\* Where an entry that was queued may be after a step.
Accounted(r, p, e) ==
    \/ e \in Held(p.queue)
    \/ e \in p.rejected
    \/ plan'[e.miner].last_round = r
    \/ \E tx \in sent' : tx.round = r /\ e \in tx.batch

\* The pass of one round goes on.
LEMMA PassMoves ==
    ASSUME PassesSound, NEW r \in RoundIds, NEW p \in PassType, IsFiniteSet(p.entries),
           keeper' = [keeper EXCEPT ![r] = p],
           \A e \in p.rejected \ keeper[r].rejected : ~Playable(r, e),
           keeper[r].pc = "send" /\ BettingOpen(r) =>
               \A e \in Held(keeper[r].queue) : Accounted(r, p, e)
    PROVE  PassesSound' /\ KeeperFair
<1>1. /\ keeper' \in [RoundIds -> PassType] /\ keeper'[r] = p
      /\ \A q \in RoundIds \ {r} : keeper'[q] = keeper[q]
    BY DEF PassesSound
<1>2. PassesSound'
    BY <1>1 DEF PassesSound
<1>3. BlameIsOwn
    BY <1>1 DEF BlameIsOwn
<1>4. ASSUME NEW q \in RoundIds, keeper[q].pc = "send", BettingOpen(q),
             NEW e \in Held(keeper[q].queue)
      PROVE  Accounted(q, keeper'[q], e)
  <2>1. CASE q = r
      BY <1>1, <1>4, <2>1
  <2>2. CASE q # r
      BY <1>1, <1>4, <2>2 DEF Accounted
  <2>3. QED
      BY <2>1, <2>2
<1>5. KeepsEntries
    BY <1>4 DEF KeepsEntries, Accounted, Held
<1>6. QED
    BY <1>2, <1>3, <1>5 DEF KeeperFair

\* The record of a pass.
LEMMA PassFields ==
    ASSUME PassesSound, NEW r \in RoundIds
    PROVE  /\ keeper[r] \in PassType /\ IsFiniteSet(keeper[r].entries)
           /\ keeper[r].pc \in {"idle", "read", "send", "done"} /\ keeper[r].unread \in SUBSET Miners
           /\ keeper[r].entries \in SUBSET EntryType /\ keeper[r].queue \in Seq(Seq(EntryType))
           /\ keeper[r].rejected \in SUBSET EntryType
<1>1. keeper[r] \in PassType /\ IsFiniteSet(keeper[r].entries)
    BY DEF PassesSound
<1>2. QED
    BY <1>1 DEF PassType

LEMMA NoPassType == NoPass \in PassType /\ NoPass.entries = {} /\ NoPass.rejected = {}
<1>1. <<>> \in Seq(Seq(EntryType))
    BY EmptySeq
<1>2. QED
    BY <1>1 DEF NoPass, PassType

LEMMA StartKeeps ==
    ASSUME PassesSound, NEW r \in RoundIds, NEW authorities \in IndexedRows,
           StartPass(r, authorities)
    PROVE  PassesSound' /\ KeeperFair
<1>1. PICK p : p = [NoPass EXCEPT !.pc = "read", !.unread = authorities]
    OBVIOUS
<1>2. p \in PassType /\ p.entries = {} /\ p.rejected = {}
    BY <1>1, NoPassType DEF PassType, IndexedRows
<1>3. IsFiniteSet(p.entries)
    BY <1>2, FS_EmptySet
<1>4. keeper' = [keeper EXCEPT ![r] = p] /\ keeper[r].pc = "idle"
    BY <1>1 DEF StartPass
<1>5. QED
    BY <1>2, <1>3, <1>4, PassMoves

\* What the keeper reads of a plan is an entry.
LEMMA BuildKeeps ==
    ASSUME PassesSound, AccountsSound, NEW r \in RoundIds, NEW m \in Miners, BuildEntry(r, m)
    PROVE  PassesSound' /\ KeeperFair
<1> DEFINE reinvests == auto_plan_reinvests_sol(plan[m].reward_mode) /\ pending_sol[m] > 0
           entry     == [miner |-> m, nonce |-> plan[m].next_nonce, reinvest |-> reinvests]
           wanted    == /\ plan[m].exists /\ plan[m].active
                        /\ plan[m].balance + Reinvested(entry) >= required_balance(m)
                        /\ plan[m].last_round # r
<1>1. entry \in EntryType
  <2>1. plan[m].next_nonce \in Nat /\ reinvests \in BOOLEAN
      BY DEF AccountsSound, PlanType, auto_plan_reinvests_sol
  <2> HIDE DEF reinvests
  <2>2. QED
      BY <2>1 DEF EntryType
<1>2. keeper' = [keeper EXCEPT ![r] = [keeper[r] EXCEPT
          !.unread  = keeper[r].unread \ {m},
          !.entries = IF wanted THEN keeper[r].entries \cup {entry} ELSE keeper[r].entries]]
    BY DEF BuildEntry
<1> HIDE DEF entry, wanted
<1>3. PICK E : E = IF wanted THEN keeper[r].entries \cup {entry} ELSE keeper[r].entries
    OBVIOUS
<1>4. E \in SUBSET EntryType /\ IsFiniteSet(E)
  <2>1. keeper[r].entries \in SUBSET EntryType /\ IsFiniteSet(keeper[r].entries)
      BY PassFields
  <2>2. IsFiniteSet(keeper[r].entries \cup {entry})
      BY <2>1, FS_AddElement
  <2>3. QED
      BY <1>1, <1>3, <2>1, <2>2
<1>5. PICK p : p = [keeper[r] EXCEPT !.unread = keeper[r].unread \ {m}, !.entries = E]
    OBVIOUS
<1>6. p \in PassType /\ p.entries = E /\ p.rejected = keeper[r].rejected
  <2>1. PICK k \in PassType : k = keeper[r]
      BY PassFields
  <2>2. PICK U \in SUBSET Miners : U = keeper[r].unread \ {m}
      BY PassFields
  <2>3. p = [k EXCEPT !.unread = U, !.entries = E]
      BY <1>5, <2>1, <2>2
  <2>4. QED
      BY <1>4, <2>1, <2>3 DEF PassType
<1>7. keeper' = [keeper EXCEPT ![r] = p] /\ keeper[r].pc = "read"
    BY <1>2, <1>3, <1>5 DEF BuildEntry
<1>8. QED
    BY <1>4, <1>6, <1>7, PassMoves

\* The batches of a pass are sequences of its entries.
LEMMA QueueKeeps ==
    ASSUME AutoPlanAssumption, PassesSound, NEW r \in RoundIds,
           NEW order \in SetToSeqs(keeper[r].entries), QueueBatches(r, order)
    PROVE  PassesSound' /\ KeeperFair
<1> DEFINE count    == (Len(order) + BATCH_SIZE - 1) \div BATCH_SIZE
           Batch(i) == SubSeq(order, (i - 1) * BATCH_SIZE + 1, Min({i * BATCH_SIZE, Len(order)}))
           queue    == [i \in 1 .. count |-> Batch(i)]
<1>1. order \in Seq(EntryType)
  <2>1. order \in [1 .. Cardinality(keeper[r].entries) -> keeper[r].entries]
      BY DEF SetToSeqs
  <2>2. Cardinality(keeper[r].entries) \in Nat /\ keeper[r].entries \in SUBSET EntryType
      BY PassFields, FS_CardinalityType
  <2>3. order \in [1 .. Cardinality(keeper[r].entries) -> EntryType]
      BY <2>1, <2>2
  <2>4. QED
      BY <2>2, <2>3, SeqDef
<1>2. PICK n \in Nat : n = Len(order)
    BY <1>1, LenProperties
<1>3. BATCH_SIZE \in Nat \ {0}
    BY DEF AutoPlanAssumption
<1>4. count \in Nat
  <2>1. n + BATCH_SIZE - 1 \in Nat
      BY <1>3
  <2>2. QED
      BY <1>2, <1>3, <2>1, DivBounds
<1>5. ASSUME NEW i \in 1 .. count PROVE Batch(i) \in Seq(EntryType)
  <2>1. PICK a \in Nat, b \in Nat : a = (i - 1) * BATCH_SIZE + 1 /\ b = i * BATCH_SIZE
    <3>1. i - 1 \in Nat /\ i \in Nat
        BY <1>4
    <3>2. (i - 1) * BATCH_SIZE \in Nat /\ i * BATCH_SIZE \in Nat
        BY <1>3, <3>1, ProductMonotone
    <3>3. QED
        BY <3>2
  <2>2. a >= 1
    <3>1. (i - 1) * BATCH_SIZE \in Nat
        BY <1>3, <1>4, ProductMonotone
    <3>2. QED
        BY <2>1, <3>1
  <2>3. PICK l : l = Min({b, n})
      OBVIOUS
  <2>4. l \in {b, n} /\ l <= n
    <3>1. {b, n} \subseteq Nat /\ {b, n} # {}
        OBVIOUS
    <3>2. QED
        BY <2>3, <3>1, LeastNatural
  <2>5. \A j \in a .. l : order[j] \in EntryType
      BY <1>1, <1>2, <2>2, <2>4, ElementOfSeq
  <2>6. SubSeq(order, a, l) \in Seq(EntryType)
      BY <2>4, <2>5, SubSeqProperties
  <2>7. QED
      BY <1>2, <2>1, <2>3, <2>6
<1> HIDE DEF Batch, count
<1>6. queue \in Seq(Seq(EntryType))
  <2>1. queue \in [1 .. count -> Seq(EntryType)]
      BY <1>5
  <2>2. QED
      BY <1>4, <2>1, SeqDef
<1>7. PICK z : z = queue
    OBVIOUS
<1>8. PICK p : p = [keeper[r] EXCEPT !.pc = "send", !.entries = {}, !.queue = z]
    OBVIOUS
<1>9. /\ keeper' = [keeper EXCEPT ![r] = p] /\ keeper[r].pc = "read"
    BY <1>7, <1>8 DEF QueueBatches, Batch, count
<1> HIDE DEF queue
<1>10. p \in PassType /\ p.entries = {} /\ p.rejected = keeper[r].rejected
  <2>1. PICK k \in PassType : k = keeper[r]
      BY PassFields
  <2>2. p = [k EXCEPT !.pc = "send", !.entries = {}, !.queue = z]
      BY <1>8, <2>1
  <2>3. QED
      BY <1>6, <1>7, <2>1, <2>2 DEF PassType
<1>11. IsFiniteSet(p.entries)
    BY <1>10, FS_EmptySet
<1>12. QED
    BY <1>9, <1>10, <1>11, PassMoves

\* The first batch leaves the queue.
LEMMA QueueAfter ==
    ASSUME PassesSound, NEW r \in RoundIds, Sending(r)
    PROVE  /\ keeper[r].queue # <<>> /\ Head(keeper[r].queue) \in Seq(EntryType)
           /\ Tail(keeper[r].queue) \in Seq(Seq(EntryType))
           /\ Held(keeper[r].queue) = ToSet(Head(keeper[r].queue)) \cup Held(Tail(keeper[r].queue))
BY PassFields, QueueRest DEF Sending

LEMMA RestIs ==
    ASSUME PassesSound, NEW r \in RoundIds, Sending(r)
    PROVE  /\ Rest(r) \in PassType /\ IsFiniteSet(Rest(r).entries)
           /\ Rest(r).queue = Tail(keeper[r].queue) /\ Rest(r).rejected = keeper[r].rejected
<1>1. PICK k \in PassType : k = keeper[r] /\ IsFiniteSet(k.entries)
    BY PassFields
<1>2. PICK q \in Seq(Seq(EntryType)) : q = Tail(keeper[r].queue)
    BY QueueAfter
<1>3. Rest(r) = [k EXCEPT !.queue = q]
    BY <1>1, <1>2 DEF Rest
<1>4. QED
    BY <1>1, <1>2, <1>3 DEF PassType

\* The first batch is done with: its entries are accounted for otherwise.
LEMMA RestKeeps ==
    ASSUME PassesSound, NEW r \in RoundIds, Sending(r), keeper' = [keeper EXCEPT ![r] = Rest(r)],
           BettingOpen(r) =>
               \A e \in ToSet(Head(keeper[r].queue)) : Accounted(r, Rest(r), e)
    PROVE  PassesSound' /\ KeeperFair
<1>1. PICK p \in PassType : p = Rest(r)
    BY RestIs
<1>2. /\ IsFiniteSet(p.entries) /\ p.queue = Tail(keeper[r].queue)
      /\ p.rejected = keeper[r].rejected /\ keeper' = [keeper EXCEPT ![r] = p]
    BY <1>1, RestIs
<1>3. ASSUME BettingOpen(r), NEW e \in Held(keeper[r].queue)
      PROVE  Accounted(r, p, e)
  <2>1. CASE e \in ToSet(Head(keeper[r].queue))
      BY <1>1, <1>3, <2>1
  <2>2. CASE e \in Held(Tail(keeper[r].queue))
      BY <1>2, <2>2 DEF Accounted
  <2>3. QED
      BY <1>3, <2>1, <2>2, QueueAfter
<1>4. QED
    BY <1>2, <1>3, PassMoves

\* The window is over: nobody is owed anything any more.
LEMMA SkipKeeps ==
    ASSUME PassesSound, NEW r \in RoundIds, SkipBatch(r)
    PROVE  PassesSound' /\ KeeperFair
BY RestKeeps DEF SkipBatch

\* A confirmed batch has played.
LEMMA ConfirmedKeeps ==
    ASSUME AutoPlanAssumption, AccountsSound, PassesSound, NEW r \in RoundIds, SendConfirmed(r)
    PROVE  AccountsSound' /\ PassesSound' /\ KeeperFair
<1>1. PICK batch : batch = ToSet(Head(keeper[r].queue))
    OBVIOUS
<1>2. Sending(r) /\ ExecuteBatch(r, batch) /\ keeper' = [keeper EXCEPT ![r] = Rest(r)]
    BY <1>1 DEF SendConfirmed
<1>3. AccountsSound' /\ \A e \in batch : plan'[e.miner].last_round = r
    BY <1>2, BatchKeeps
<1>4. \A e \in ToSet(Head(keeper[r].queue)) : Accounted(r, Rest(r), e)
    BY <1>1, <1>3 DEF Accounted
<1>5. QED
    BY <1>2, <1>3, <1>4, RestKeeps

\* A batch whose fate is unknown may still land.
LEMMA TimeoutKeeps ==
    ASSUME PassesSound, NEW r \in RoundIds, SendTimesOut(r)
    PROVE  PassesSound' /\ KeeperFair
<1>1. PICK batch : batch = ToSet(Head(keeper[r].queue))
    OBVIOUS
<1>2. /\ Sending(r) /\ keeper' = [keeper EXCEPT ![r] = Rest(r)]
      /\ sent' = sent \cup {[round |-> r, batch |-> batch]}
    BY <1>1 DEF SendTimesOut, SendAnyway
<1>3. PICK tx : tx = [round |-> r, batch |-> batch]
    OBVIOUS
<1>4. tx \in sent' /\ tx.round = r /\ tx.batch = batch
    BY <1>2, <1>3
<1>5. \A e \in ToSet(Head(keeper[r].queue)) : Accounted(r, Rest(r), e)
    BY <1>1, <1>4 DEF Accounted
<1>6. QED
    BY <1>2, <1>5, RestKeeps

\* A failed batch is halved and nothing of it is lost; a failed entry was
\* refused by the chain.
LEMMA SplitKeeps ==
    ASSUME PassesSound, NEW r \in RoundIds, Sending(r),
           keeper' = [keeper EXCEPT ![r] = SplitOrReject(r, Head(keeper[r].queue))],
           Len(Head(keeper[r].queue)) > 1 \/ \E e \in ToSet(Head(keeper[r].queue)) : ~Playable(r, e)
    PROVE  PassesSound' /\ KeeperFair
<1>1. PICK batch \in Seq(EntryType) : batch = Head(keeper[r].queue)
    BY QueueAfter
<1>2. PICK tail \in Seq(Seq(EntryType)) : tail = Tail(keeper[r].queue)
    BY QueueAfter
<1>3. Held(keeper[r].queue) = ToSet(batch) \cup Held(tail)
    BY <1>1, <1>2, QueueAfter
<1>4. PICK k \in PassType : k = Rest(r) /\ IsFiniteSet(k.entries) /\ k.queue = tail /\ k.rejected = keeper[r].rejected
    BY <1>2, RestIs
<1>5. Len(batch) \in Nat
    BY LenProperties
<1>6. CASE Len(batch) > 1
  <2>1. PICK split \in Nat : split = (Len(batch) + 1) \div 2
      BY <1>5
  <2>2. split <= Len(batch)
      BY <1>5, <1>6, <2>1
  <2>3. PICK a, b : a = SubSeq(batch, 1, split) /\ b = SubSeq(batch, split + 1, Len(batch))
      OBVIOUS
  <2>4. a \in Seq(EntryType) /\ b \in Seq(EntryType) /\ ToSet(batch) = ToSet(a) \cup ToSet(b)
      BY <2>2, <2>3, CutInTwo
  <2>5. PICK q : q = <<a, b>> \o tail
      OBVIOUS
  <2>6. q \in Seq(Seq(EntryType)) /\ Held(q) = ToSet(a) \cup ToSet(b) \cup Held(tail)
      BY <2>4, <2>5, QueueTwo
  <2>7. PICK p : p = [k EXCEPT !.queue = q]
      OBVIOUS
  <2>8. SplitOrReject(r, batch) = p
      BY <1>2, <1>4, <1>6, <2>1, <2>3, <2>5, <2>7 DEF SplitOrReject
  <2>9. /\ p \in PassType /\ IsFiniteSet(p.entries) /\ p.queue = q /\ p.rejected = k.rejected
      BY <1>4, <2>6, <2>7 DEF PassType
  <2>10. \A e \in Held(keeper[r].queue) : Accounted(r, p, e)
      BY <1>3, <2>4, <2>6, <2>9 DEF Accounted
  <2>11. keeper' = [keeper EXCEPT ![r] = p]
      BY <1>1, <2>8
  <2>12. QED
      BY <1>4, <2>9, <2>10, <2>11, PassMoves
<1>7. CASE ~(Len(batch) > 1)
  <2>1. PICK e \in ToSet(batch) : ~Playable(r, e)
      BY <1>1, <1>7
  <2>2. ToSet(batch) = {e}
    <3>1. ASSUME NEW x \in ToSet(batch) PROVE x = batch[1] /\ Len(batch) = 1
      <4>1. PICK i \in 1 .. Len(batch) : x = batch[i]
          BY <3>1, ToSetHas
      <4>2. PICK n \in Nat : n = Len(batch)
          BY <1>5
      <4>3. i \in 1 .. n /\ ~(n > 1)
          BY <1>7, <4>1, <4>2
      <4>4. i = 1 /\ n = 1
          BY <4>3
      <4>5. QED
          BY <4>1, <4>2, <4>4
    <3>2. QED
        BY <2>1, <3>1
  <2>3. ToSet(batch) \in SUBSET EntryType
      BY ToSetHas, ElementOfSeq
  <2>4. PICK f \in SUBSET EntryType : f = keeper[r].rejected \cup {e}
      BY <2>2, <2>3, PassFields
  <2>5. PICK p : p = [k EXCEPT !.rejected = f]
      OBVIOUS
  <2>6. SplitOrReject(r, batch) = p
      BY <1>4, <1>7, <2>2, <2>4, <2>5 DEF SplitOrReject
  <2>7. /\ p \in PassType /\ IsFiniteSet(p.entries) /\ p.queue = tail /\ p.rejected = f
      BY <1>4, <2>5 DEF PassType
  <2>8. \A x \in Held(keeper[r].queue) : Accounted(r, p, x)
      BY <1>3, <2>2, <2>4, <2>7 DEF Accounted
  <2>9. keeper' = [keeper EXCEPT ![r] = p]
      BY <1>1, <2>6
  <2>10. \A x \in p.rejected \ keeper[r].rejected : ~Playable(r, x)
      BY <2>1, <2>4, <2>7
  <2>11. QED
      BY <2>7, <2>8, <2>9, <2>10, PassMoves
<1>8. QED
    BY <1>6, <1>7

LEMMA SimulationKeeps ==
    ASSUME PassesSound, NEW r \in RoundIds, SimulationFails(r)
    PROVE  PassesSound' /\ KeeperFair
BY SplitKeeps DEF SimulationFails

LEMMA ConfirmationKeeps ==
    ASSUME PassesSound, NEW r \in RoundIds, ConfirmationFails(r)
    PROVE  PassesSound' /\ KeeperFair
BY SplitKeeps DEF ConfirmationFails

LEMMA EndKeeps ==
    ASSUME PassesSound, NEW r \in RoundIds, EndPass(r)
    PROVE  PassesSound' /\ KeeperFair
<1>1. PICK s \in {"idle", "done"} : s = IF BettingOpen(r) THEN "idle" ELSE "done"
    OBVIOUS
<1>2. PICK p : p = [NoPass EXCEPT !.pc = s]
    OBVIOUS
<1>3. p \in PassType /\ p.entries = {} /\ p.rejected = {}
    BY <1>2, NoPassType DEF PassType
<1>4. IsFiniteSet(p.entries)
    BY <1>3, FS_EmptySet
<1>5. keeper' = [keeper EXCEPT ![r] = p] /\ keeper[r].queue = <<>>
    BY <1>1, <1>2 DEF EndPass
<1>6. Held(keeper[r].queue) = {}
    BY <1>5 DEF Held
<1>7. QED
    BY <1>3, <1>4, <1>5, <1>6, PassMoves

-----------------------------------------------------------------------------
(* The invariant, and what no step does.                                   *)

\* What leaves the accounts alone keeps them.
LEMMA AccountsKept ==
    ASSUME AccountsSound, UNCHANGED chainVars
    PROVE  AccountsSound'
BY DEF AccountsSound, chainVars, planVars, claimVars, PlanBacked, ClaimVaultCovers, ClosedEmpty,
       PlayedSound

LEMMA InitHolds ==
    ASSUME AutoPlanAssumption, Init
    PROVE  IInv
<1>1. NoPlan \in PlanType /\ ~NoPlan.exists /\ NoPlan.balance = 0 /\ 0 \in U64
    BY DEF NoPlan, PlanType, AutoPlanAssumption, U64
<1>2. /\ now \in 0 .. MaxTime /\ paused \in BOOLEAN
      /\ plan \in [Miners -> PlanType] /\ planLamports \in [Miners -> U64]
      /\ receipt \in [ReceiptIds -> {"absent", "open", "claimed"}]
      /\ pending_sol \in [Miners -> U64] /\ claimVault \in U64
  <2>1. now \in 0 .. MaxTime /\ paused \in BOOLEAN
    <3>1. now = 0 /\ paused = FALSE
        BY DEF Init
    <3>2. now \in 0 .. MaxTime
        BY <3>1 DEF AutoPlanAssumption
    <3>3. QED
        BY <3>1, <3>2
  <2>2. plan \in [Miners -> PlanType] /\ planLamports \in [Miners -> U64]
      BY <1>1 DEF Init
  <2>3. receipt \in [ReceiptIds -> {"absent", "open", "claimed"}]
      BY DEF Init
  <2>4. pending_sol \in [Miners -> U64] /\ claimVault \in U64
      BY <1>1 DEF Init
  <2>5. QED
      BY <2>1, <2>2, <2>3, <2>4
<1>3. PlanBacked /\ ClosedEmpty
    BY <1>1 DEF Init, PlanBacked, ClosedEmpty
<1>4. PlayedSound
    BY DEF Init, PlayedSound
<1>5. ClaimVaultCovers
  <2>1. PICK f : f = pending_sol
      OBVIOUS
  <2>2. IsFiniteSet(Miners) /\ \A x \in Miners : f[x] = 0
      BY <2>1 DEF Init, AutoPlanAssumption
  <2>3. SumOf(f, Miners) = SumOf(f, {})
      BY <2>2, SumZeros
  <2>4. SumOf(f, {}) = 0
      BY FS_EmptySet, SumType
  <2>5. claimVault = 0
      BY DEF Init
  <2>6. QED
      BY <2>1, <2>3, <2>4, <2>5, CoversSum
<1>6. PassesSound
    BY NoPassType, FS_EmptySet DEF Init, PassesSound
<1>7. QED
    BY <1>2, <1>3, <1>4, <1>5, <1>6, InParts DEF AccountsSound

LEMMA OwnerKeeps ==
    ASSUME AutoPlanAssumption, AccountsSound, NEW m \in Miners, OwnerSteps(m)
    PROVE  AccountsSound' /\ keeper' = keeper
<1>1. ASSUME NEW amount \in Wagers, NEW mode \in RewardModes, NEW deposit \in Deposits,
             create_auto_plan(m, amount, deposit, mode)
      PROVE  AccountsSound' /\ keeper' = keeper
  <2>1. AccountsSound'
      BY <1>1, CreateKeeps
  <2>2. keeper' = keeper
      BY <1>1 DEF create_auto_plan
  <2>3. QED
      BY <2>1, <2>2
<1>2. ASSUME NEW amount \in Wagers, NEW mode \in RewardModes, NEW active \in BOOLEAN,
             configure_auto_plan(m, amount, active, mode)
      PROVE  AccountsSound' /\ keeper' = keeper
  <2>1. AccountsSound'
      BY <1>2, ConfigureKeeps
  <2>2. keeper' = keeper
      BY <1>2 DEF configure_auto_plan
  <2>3. QED
      BY <2>1, <2>2
<1>3. ASSUME NEW lamports \in Deposits, fund_auto_plan(m, lamports)
      PROVE  AccountsSound' /\ keeper' = keeper
    BY <1>3, FundKeeps DEF fund_auto_plan
<1>4. CASE cancel_auto_plan(m)
    BY <1>4, CancelKeeps DEF cancel_auto_plan
<1>5. CASE claim_staking_rewards(m)
    BY <1>5, ClaimKeeps DEF claim_staking_rewards
<1>6. ASSUME NEW r \in RoundIds, NEW nonce \in Nonces, deploy(m, r, nonce)
      PROVE  AccountsSound' /\ keeper' = keeper
    BY <1>6, DeployKeeps DEF deploy
<1>7. QED
    BY <1>1, <1>2, <1>3, <1>4, <1>5, <1>6 DEF OwnerSteps

LEMMA KeeperKeeps ==
    ASSUME AutoPlanAssumption, AccountsSound, PassesSound, NEW r \in RoundIds, KeeperSteps(r)
    PROVE  AccountsSound' /\ PassesSound' /\ KeeperFair
<1>1. CASE SendConfirmed(r)
    BY <1>1, ConfirmedKeeps
<1>2. ASSUME NEW authorities \in IndexedRows, StartPass(r, authorities)
      PROVE  AccountsSound' /\ PassesSound' /\ KeeperFair
  <2>1. AccountsSound'
      BY <1>2, AccountsKept DEF StartPass
  <2>2. QED
      BY <1>2, <2>1, StartKeeps
<1>3. ASSUME NEW m \in Miners, BuildEntry(r, m)
      PROVE  AccountsSound' /\ PassesSound' /\ KeeperFair
  <2>1. AccountsSound'
      BY <1>3, AccountsKept DEF BuildEntry
  <2>2. QED
      BY <1>3, <2>1, BuildKeeps
<1>4. ASSUME NEW order \in SetToSeqs(keeper[r].entries), QueueBatches(r, order)
      PROVE  AccountsSound' /\ PassesSound' /\ KeeperFair
  <2>1. AccountsSound'
      BY <1>4, AccountsKept DEF QueueBatches
  <2>2. QED
      BY <1>4, <2>1, QueueKeeps
<1>5. CASE SkipBatch(r)
    BY <1>5, SkipKeeps, AccountsKept DEF SkipBatch
<1>6. CASE SimulationFails(r)
    BY <1>6, SimulationKeeps, AccountsKept DEF SimulationFails
<1>7. CASE ConfirmationFails(r)
    BY <1>7, ConfirmationKeeps, AccountsKept DEF ConfirmationFails
<1>8. CASE SendTimesOut(r)
    BY <1>8, TimeoutKeeps, AccountsKept DEF SendTimesOut
<1>9. CASE EndPass(r)
    BY <1>9, EndKeeps, AccountsKept DEF EndPass
<1>10. QED
    BY <1>1, <1>2, <1>3, <1>4, <1>5, <1>6, <1>7, <1>8, <1>9 DEF KeeperSteps

\* One case for each line of Next.
LEMMA NextKeeps ==
    ASSUME AutoPlanAssumption, IInv, [Next]_vars
    PROVE  IInv' /\ KeeperFair
<1>1. AccountsSound /\ PassesSound
    BY InParts
<1>2. CASE \E p \in BOOLEAN : set_paused(p)
  <2>1. keeper' = keeper /\ AccountsSound'
      BY <1>1, <1>2, PauseKeeps DEF set_paused
  <2>2. QED
      BY <1>1, <2>1, KeeperRests, InPartsNext
<1>3. CASE \E m \in Miners : OwnerSteps(m)
    BY <1>1, <1>3, OwnerKeeps, KeeperRests, InPartsNext
<1>4. CASE \E m \in Miners : reinvest_auto_plan_rewards(m)
  <2>1. keeper' = keeper /\ AccountsSound'
      BY <1>1, <1>4, ReinvestKeeps DEF reinvest_auto_plan_rewards, MovePendingToPlan
  <2>2. QED
      BY <1>1, <2>1, KeeperRests, InPartsNext
<1>5. CASE \E m \in Miners, r \in RoundIds : execute_auto_plan(m, r)
  <2>1. keeper' = keeper /\ AccountsSound'
      BY <1>1, <1>5, BatchKeeps DEF execute_auto_plan
  <2>2. QED
      BY <1>1, <2>1, KeeperRests, InPartsNext
<1>6. CASE \E id \in ReceiptIds, sol \in Prizes : settle_receipt(id, sol)
  <2>1. keeper' = keeper /\ AccountsSound'
      BY <1>1, <1>6, SettleKeeps DEF settle_receipt
  <2>2. QED
      BY <1>1, <2>1, KeeperRests, InPartsNext
<1>7. CASE Tick
  <2>1. keeper' = keeper /\ AccountsSound'
      BY <1>1, <1>7, TickKeeps DEF Tick
  <2>2. QED
      BY <1>1, <2>1, KeeperRests, InPartsNext
<1>8. CASE \E r \in RoundIds : KeeperSteps(r)
    BY <1>1, <1>8, KeeperKeeps, InPartsNext
<1>9. CASE \E tx \in sent : LandLate(tx)
  <2>1. keeper' = keeper /\ AccountsSound'
      BY <1>1, <1>9, BatchKeeps DEF LandLate
  <2>2. QED
      BY <1>1, <2>1, KeeperRests, InPartsNext
<1>10. CASE \E tx \in sent : Lose(tx)
  <2>1. keeper' = keeper /\ AccountsSound'
      BY <1>1, <1>10, AccountsKept DEF Lose
  <2>2. QED
      BY <1>1, <2>1, KeeperRests, InPartsNext
<1>11. CASE UNCHANGED vars
  <2>1. keeper' = keeper /\ AccountsSound'
      BY <1>1, <1>11, AccountsKept DEF vars, chainVars
  <2>2. QED
      BY <1>1, <2>1, KeeperRests, InPartsNext
<1>12. QED
    BY <1>2, <1>3, <1>4, <1>5, <1>6, <1>7, <1>8, <1>9, <1>10, <1>11 DEF Next

LEMMA Inductive == ASSUME AutoPlanAssumption PROVE Spec => []IInv
<1>1. Init => IInv
    BY InitHolds
<1>2. IInv /\ [Next]_vars => IInv'
    BY NextKeeps
<1>3. QED
    BY <1>1, <1>2, PTL DEF Spec

\* A plan spends what it holds and plays a round at most once, and what it
\* reinvests is nobody else's: execute_auto_plan, reinvest_auto_plan_rewards
\* and the owner's instructions in any order, with stale and resent batches.
THEOREM PlansAreSound == ASSUME AutoPlanAssumption PROVE Spec => []PlansSound
<1>1. IInv => PlansSound
    BY PlayedOnce DEF IInv, PlansSound
<1>2. QED
    BY <1>1, Inductive, PTL

\* A keeper blames only entries the chain would have refused, and no entry it
\* queued is forgotten while the window is open: executeBatch halves batches
\* until the bad entry is alone.
THEOREM PlansAreIsolated == ASSUME AutoPlanAssumption PROVE Spec => PlansIsolated
<1>1. IInv /\ [Next]_vars => [BlameIsOwn /\ KeepsEntries]_vars
    BY NextKeeps DEF KeeperFair
<1>2. QED
    BY <1>1, Inductive, PTL DEF Spec, PlansIsolated
=============================================================================
