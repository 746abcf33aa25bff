-------------------------- MODULE SwitchboardRound --------------------------
(***************************************************************************)
(* One round under the Switchboard provider: the keeper that opens and     *)
(* binds, commits after betting and settles with the reveal; the round and *)
(* randomness accounts its transactions change; the queue of oracles.  The *)
(* host starts the keeper again whenever it ends.  A transaction lands at  *)
(* any later moment or never, a read may come from a node that is one slot *)
(* behind, and anyone may submit the oracle's reveal alone.                *)
(* The chain's clock is the slot number.                                   *)
(***************************************************************************)
EXTENDS Naturals, FiniteSets

CONSTANTS
    OPENED_AT, BETTING_ENDS_AT, SETTLES_AT, REFUND_AT,
    Oracles,          \* oracles of the queue
    Accounts,         \* randomness keypairs the keeper may generate
    NoAccount, NoOracle,
    MaxFaults         \* bound: crashes, lost transactions, lost slots

\* A round lasts, and the faults of a run leave slots before its refund;
\* instances assume it.
SwitchboardAssumption ==
    /\ OPENED_AT \in Nat /\ BETTING_ENDS_AT \in Nat /\ 0 < OPENED_AT /\ OPENED_AT < BETTING_ENDS_AT
    /\ SETTLES_AT \in Nat /\ REFUND_AT \in Nat /\ MaxFaults \in Nat
    /\ SETTLES_AT + MaxFaults < REFUND_AT /\ BETTING_ENDS_AT + MaxFaults < REFUND_AT

VARIABLES
    slot,
    round,      \* the Round account
    past,       \* the Round account one slot ago
    feed,       \* each randomness account: seed_slot, reveal_slot and its oracle
    paused,     \* config.paused
    healthy,    \* oracles whose own gateway answers 2xx
    indexed,    \* mine_rounds holds the open round
    sent,       \* transactions neither landed nor lost
    keeper,     \* the keeper process
    faults,
    hindered    \* pause, outage or foreign reveal met by the round

vars == <<slot, round, past, feed, paused, healthy, indexed, sent, keeper, faults, hindered>>

NoRound == [exists |-> FALSE, account |-> NoAccount, commit_slot |-> 0, settled |-> FALSE, last_bet |-> 0]
Unused == [seed |-> 0, reveal |-> 0, oracle |-> NoOracle]
Off == [pc |-> "off", account |-> NoAccount, seen |-> NoRound, tx |-> "none"]
Tx(kind, a, o) == [kind |-> kind, account |-> a, oracle |-> o]

-----------------------------------------------------------------------------
(* Transactions.  All instructions of one take effect or none does.        *)

\* Randomness.create, open_round and bind_round_randomness.
PrepareTx(a) ==
    /\ ~paused /\ ~round.exists /\ slot < BETTING_ENDS_AT
    /\ round' = [NoRound EXCEPT !.exists = TRUE, !.account = a]
    /\ UNCHANGED feed

\* The two instructions sent as two transactions, the second one lost.
CommitWithoutRecord(a, o) ==
    /\ ~paused /\ slot < REFUND_AT /\ feed[a].reveal = 0
    /\ feed' = [feed EXCEPT ![a].seed = slot - 1, ![a].oracle = o]
    /\ UNCHANGED round

\* Switchboard's commit sets the seed slot; record_round_randomness_commit
\* accepts it only fresh, after betting.
CommitTx(a, o) ==
    /\ ~paused /\ round.exists /\ ~round.settled
    /\ slot >= BETTING_ENDS_AT /\ slot < REFUND_AT
    /\ round.account = a /\ round.commit_slot = 0 /\ feed[a].reveal = 0
    /\ feed' = [feed EXCEPT ![a].seed = slot - 1, ![a].oracle = o]
    /\ round' = [round EXCEPT !.commit_slot = slot - 1]

\* The reveal and settle_round_verified, which consumes a value of its own slot.
SettleTx(a) ==
    /\ ~paused /\ round.exists /\ ~round.settled
    /\ slot >= SETTLES_AT /\ slot < REFUND_AT
    /\ round.account = a /\ round.commit_slot > 0
    /\ feed[a].seed = round.commit_slot /\ feed[a].seed < slot /\ feed[a].reveal = 0
    /\ feed' = [feed EXCEPT ![a].reveal = slot]
    /\ round' = [round EXCEPT !.settled = TRUE]

Execute(tx) ==
    \/ tx.kind = "prepare" /\ PrepareTx(tx.account)
    \/ tx.kind = "commit"  /\ CommitTx(tx.account, tx.oracle)
    \/ tx.kind = "settle"  /\ SettleTx(tx.account)

Land(tx) ==
    /\ tx \in sent /\ Execute(tx) /\ sent' = sent \ {tx}
    /\ indexed' = (indexed \/ tx.kind = "prepare")
    /\ keeper' = IF keeper.tx = tx.kind /\ keeper.account = tx.account
                 THEN [keeper EXCEPT !.tx = "landed"] ELSE keeper
    /\ UNCHANGED <<slot, past, paused, healthy, faults, hindered>>

\* A transaction that cannot execute fails; one that could may expire.
Lose(tx) ==
    /\ tx \in sent /\ sent' = sent \ {tx}
    /\ \/ ~ENABLED Execute(tx) /\ UNCHANGED faults
       \/ faults < MaxFaults /\ faults' = faults + 1
    /\ keeper' = IF keeper.tx = tx.kind /\ keeper.account = tx.account
                 THEN [keeper EXCEPT !.tx = "failed"] ELSE keeper
    /\ UNCHANGED <<slot, round, past, feed, paused, healthy, indexed, hindered>>

-----------------------------------------------------------------------------
(* The keeper.                                                             *)

\* Which account states a load-balanced read may return.
Visible == {round, past}

Exit == keeper' = Off
KeeperOnly == UNCHANGED <<slot, round, past, feed, paused, healthy, indexed, faults, hindered>>

\* buildKeeperTransaction and sendKeeperInstructions: what the simulation
\* rejects is not sent.
sendKeeperInstructions(tx, next) ==
    IF ENABLED Execute(tx)
    THEN /\ sent' = sent \cup {tx}
         /\ keeper' = [keeper EXCEPT !.pc = next, !.tx = tx.kind, !.account = tx.account]
    ELSE Exit /\ UNCHANGED sent

\* The confirmation arrives, and the new state becomes visible.
confirm(from, to) ==
    /\ keeper.pc = from
    /\ \/ keeper.tx = "landed" /\ keeper' = [keeper EXCEPT !.pc = to, !.tx = "none", !.seen = round]
       \/ keeper.tx = "failed" /\ Exit
    /\ UNCHANGED sent /\ KeeperOnly

\* The host starts a process for this round; a paused protocol defers it.
start ==
    /\ keeper.pc = "off" /\ ~paused /\ slot < REFUND_AT
    /\ keeper' = [Off EXCEPT !.pc = "load"]
    /\ UNCHANGED sent /\ KeeperOnly

\* The round as the RPC shows it.  Without a round the keeper waits for the
\* index when that has one, gives up a window that has begun, or prepares it;
\* an existing round goes on with the account that is bound to it.
loadRound ==
    /\ keeper.pc = "load"
    /\ \E seen \in Visible :
         \/ /\ ~seen.exists
            /\ IF indexed \/ slot >= OPENED_AT THEN Exit /\ UNCHANGED sent
               ELSE \E a \in Accounts \ ({round.account} \cup {tx.account : tx \in sent}) :
                        sendKeeperInstructions(Tx("prepare", a, NoOracle), "preparing")
         \/ /\ seen.exists
            /\ keeper' = [keeper EXCEPT !.pc = "check", !.account = seen.account, !.seen = seen]
            /\ UNCHANGED sent
    /\ KeeperOnly

\* A randomness account that was committed or revealed outside the keeper's
\* own transactions is left to the refunds.
RecoveryConsistent(r, f) ==
    IF r.commit_slot = 0 THEN f.seed = 0 /\ f.reveal = 0
    ELSE r.settled \/ (f.seed = r.commit_slot /\ f.reveal = 0)

checkRecovery ==
    /\ keeper.pc = "check"
    /\ IF RecoveryConsistent(keeper.seen, feed[keeper.account])
       THEN keeper' = [keeper EXCEPT !.pc = "betting"] ELSE Exit
    /\ UNCHANGED sent /\ KeeperOnly

\* After betting (and the auto-plans) the round is read again.
waitForBettingEnd ==
    /\ keeper.pc = "betting" /\ slot >= BETTING_ENDS_AT
    /\ \E seen \in Visible : keeper' = [keeper EXCEPT !.pc = "commit", !.seen = seen]
    /\ UNCHANGED sent /\ KeeperOnly

\* The oracles that take a commitment: the SDK's choice is kept if its own
\* gateway answers, so any that answers may be the one.
selectDirectlyHealthyRandomnessOracle == healthy

commitRandomness ==
    /\ keeper.pc = "commit"
    /\ IF keeper.seen.settled \/ keeper.seen.commit_slot > 0
       THEN keeper' = [keeper EXCEPT !.pc = "settle"] /\ UNCHANGED sent
       ELSE IF feed[keeper.account] = Unused /\ selectDirectlyHealthyRandomnessOracle # {}
            THEN \E o \in selectDirectlyHealthyRandomnessOracle :
                     sendKeeperInstructions(Tx("commit", keeper.account, o), "committing")
            ELSE Exit /\ UNCHANGED sent
    /\ KeeperOnly

\* Settlement time and the seed slot have both passed; revealIx asks the
\* gateway of the oracle that was committed to.
settleRound ==
    /\ keeper.pc = "settle" /\ slot >= SETTLES_AT
    /\ slot > keeper.seen.commit_slot \/ slot >= REFUND_AT
    /\ IF keeper.seen.settled \/ slot >= REFUND_AT \/ feed[keeper.account].oracle \notin healthy
       THEN Exit /\ UNCHANGED sent
       ELSE sendKeeperInstructions(Tx("settle", keeper.account, NoOracle), "settling")
    /\ KeeperOnly

KeeperStep ==
    \/ start \/ loadRound \/ checkRecovery \/ waitForBettingEnd \/ commitRandomness \/ settleRound
    \/ confirm("preparing", "check")
    \/ confirm("committing", "settle")
    \/ confirm("settling", "done")

-----------------------------------------------------------------------------
(* The world.                                                              *)

deploy ==
    /\ ~paused /\ round.exists /\ round.account # NoAccount
    /\ slot >= OPENED_AT /\ slot < BETTING_ENDS_AT
    /\ round.commit_slot = 0 /\ feed[round.account].seed = 0
    /\ round.last_bet # slot /\ round' = [round EXCEPT !.last_bet = slot]
    /\ UNCHANGED <<slot, past, feed, paused, healthy, indexed, sent, keeper, faults, hindered>>

\* The keeper's process dies; its transactions live on.
Crash ==
    /\ keeper.pc \notin {"off", "done"} /\ faults < MaxFaults
    /\ keeper' = Off /\ faults' = faults + 1
    /\ UNCHANGED <<slot, round, past, feed, paused, healthy, indexed, sent, hindered>>

\* A committed request is revealed by a transaction of its own.
ForeignReveal ==
    /\ round.exists /\ round.commit_slot > 0 /\ slot > round.commit_slot
    /\ feed[round.account].reveal = 0
    /\ feed' = [feed EXCEPT ![round.account].reveal = slot]
    /\ hindered' = TRUE
    /\ UNCHANGED <<slot, round, past, paused, healthy, indexed, sent, keeper, faults>>

SetPaused ==
    /\ slot >= OPENED_AT - 1 /\ ~hindered /\ paused' = TRUE /\ hindered' = TRUE
    /\ UNCHANGED <<slot, round, past, feed, healthy, indexed, sent, keeper, faults>>

Unpause ==
    /\ paused /\ paused' = FALSE
    /\ UNCHANGED <<slot, round, past, feed, healthy, indexed, sent, keeper, faults, hindered>>

\* Gateways fail and come back.  The round is hindered when none is left, or
\* when the one that a commitment names fails after it was chosen.
GatewayChange ==
    \E o \in Oracles :
        /\ healthy' = IF o \in healthy THEN healthy \ {o} ELSE healthy \cup {o}
        /\ hindered' = (hindered \/ healthy' = {} \/ \E a \in Accounts : feed[a].oracle = o
                        \/ \E tx \in sent : tx.oracle = o)
        /\ UNCHANGED <<slot, round, past, feed, paused, indexed, sent, keeper, faults>>

\* Slots are long compared with the keeper's steps: one that passes while a
\* step or a landing is due is a fault.
Waiting ==
    /\ sent = {}
    /\ \/ keeper.pc = "off" /\ (paused \/ slot >= REFUND_AT)
       \/ keeper.pc = "betting" /\ slot < BETTING_ENDS_AT
       \/ keeper.pc = "settle" /\ (slot < SETTLES_AT \/ slot <= keeper.seen.commit_slot)
       \/ keeper.pc = "done"
       \/ keeper.pc = "off" /\ ~round.exists /\ slot >= OPENED_AT

NextSlot ==
    /\ slot < REFUND_AT
    /\ slot' = slot + 1 /\ past' = round
    /\ IF Waiting THEN UNCHANGED faults ELSE faults < MaxFaults /\ faults' = faults + 1
    /\ UNCHANGED <<round, feed, paused, healthy, indexed, sent, keeper, hindered>>

-----------------------------------------------------------------------------
Init ==
    /\ slot = OPENED_AT - 1 /\ round = NoRound /\ past = NoRound
    /\ feed = [a \in Accounts |-> Unused]
    /\ paused = FALSE /\ healthy \in (SUBSET Oracles) \ {{}} /\ indexed = FALSE
    /\ sent = {} /\ keeper = Off /\ faults = 0 /\ hindered = FALSE

Next ==
    \/ KeeperStep \/ \E tx \in sent : Land(tx) \/ Lose(tx)
    \/ deploy \/ Crash \/ ForeignReveal \/ SetPaused \/ Unpause \/ GatewayChange \/ NextSlot

Spec == Init /\ [][Next]_vars

-----------------------------------------------------------------------------
\* The draw is fair whatever lands late: the seed was chosen when no bet could
\* follow it, and a value the world has seen is consumed at once or never.
FairDraw ==
    round.exists =>
        LET f == feed[round.account]
        IN  /\ f.seed # 0 => f.seed >= round.last_bet /\ f.seed = round.commit_slot
            /\ f.reveal # 0 => f.reveal > f.seed
            /\ f.reveal # 0 /\ ~hindered => round.settled

\* Crashes, lost or late transactions and stale reads alone never cost the
\* players their round: while they cost fewer slots than the result window
\* has, a bound round is settled before the refunds open.
SettledDespiteFaults ==
    slot >= REFUND_AT /\ round.exists /\ ~hindered => round.settled
=============================================================================
