----------------------------- MODULE ServerRound -----------------------------
(***************************************************************************)
(* One round under the server provider, end to end: the keeper processes   *)
(* that persist a preimage, commit to it on chain, lock a future slot and  *)
(* settle; the durable file they share; the transactions they send, which  *)
(* land late, in any order or never; and the chain that keeps the hashes   *)
(* of the last slots only.  A keeper may die between any two steps, and    *)
(* the worker host starts it again.                                        *)
(*                                                                         *)
(* The program's clock is the slot number: its timestamp never runs back.  *)
(* A commitment is a hash of the preimage, so it is the preimage here.     *)
(***************************************************************************)
EXTENDS Integers, FiniteSets, FiniteSetsExt

CONSTANTS
    Keepers, Reveals, NoReveal,
    FirstSlot, OPENED_AT, BETTING_ENDS_AT, RESULT_DEADLINE, REFUND_AT,
    PREPARATION_LEAD, SERVER_ENTROPY_DELAY_SLOTS, SLOT_HASHES_MAX_ENTRIES,
    MaxSlot,              \* bound: the last slot
    MaxFailures           \* bound: keeper deaths, power failures, lost transactions

ASSUME ServerRoundAssumption ==
    /\ Reveals \cap {NoReveal, "absent", "empty"} = {} /\ IsFiniteSet(Keepers)
    /\ FirstSlot \in Nat \ {0} /\ PREPARATION_LEAD \in Nat
    /\ OPENED_AT \in Nat /\ BETTING_ENDS_AT \in Nat /\ OPENED_AT < BETTING_ENDS_AT
    /\ RESULT_DEADLINE \in Nat /\ BETTING_ENDS_AT < RESULT_DEADLINE
    /\ REFUND_AT \in Nat /\ RESULT_DEADLINE <= REFUND_AT
    /\ SERVER_ENTROPY_DELAY_SLOTS \in Nat \ {0} /\ SLOT_HASHES_MAX_ENTRIES \in Nat \ {0}
    /\ MaxSlot \in Nat /\ FirstSlot <= MaxSlot /\ MaxFailures \in Nat

VARIABLES
    slot,       \* the bank being produced
    blocks,     \* the slots produced before it
    round,      \* the Round account
    file,       \* round-<id>.json on the mounted volume
    sent,       \* transactions sent and not yet landed or lost
    keeper,     \* each keeper process
    report,     \* what the host was told about the settlement deadline
    failures

vars == <<slot, blocks, round, file, sent, keeper, report, failures>>

NoRound ==
    [ exists |-> FALSE, commitment |-> NoReveal, randomness |-> "unbound",
      commit_slot |-> 0, locked_in |-> 0, settled |-> FALSE, entropy |-> 0, settled_in |-> 0 ]

Idle == [pc |-> "off", reveal |-> NoReveal, seen |-> NoRound]

Init ==
    /\ slot = FirstSlot
    /\ blocks = {FirstSlot - 1}
    /\ round = NoRound
    /\ file = [content |-> "absent", synced |-> TRUE]
    /\ sent = {}
    /\ keeper = [k \in Keepers |-> Idle]
    /\ report = "none"
    /\ failures = 0

-----------------------------------------------------------------------------
(* The chain                                                               *)

\* A later slot is produced; the ones between are skipped for good.
NextSlot ==
    \E s \in slot + 1 .. slot + 2 :
        /\ s <= MaxSlot
        /\ slot' = s
        /\ blocks' = blocks \cup {slot}
        /\ UNCHANGED <<round, file, sent, keeper, report, failures>>

\* The SlotHashes sysvar: the newest produced slots.
SlotHashes ==
    {s \in blocks : Cardinality({t \in blocks : t > s}) < SLOT_HASHES_MAX_ENTRIES}

\* The produced slots the scan may still tell from aged-out ones; it takes the
\* smallest.
EligibleEntropy(target) ==
    IF target >= Min(SlotHashes) THEN {s \in SlotHashes : s >= target} ELSE {}

select_slot_hash_at_or_after(target) == Min(EligibleEntropy(target))

\* open_round and bind_round_server_commitment, in one transaction.
prepare(reveal) ==
    /\ ~round.exists
    /\ slot >= OPENED_AT - PREPARATION_LEAD /\ slot < BETTING_ENDS_AT
    /\ round' = [NoRound EXCEPT !.exists = TRUE, !.commitment = reveal,
                                !.randomness = "pending"]

\* The account keeps the target until the settlement puts the entropy slot in
\* its place; the model keeps both, as the settlement's event does.
lock_round_server_entropy ==
    /\ round.exists /\ ~round.settled
    /\ slot >= BETTING_ENDS_AT /\ slot < REFUND_AT
    /\ round.randomness = "pending"
    /\ round' = [round EXCEPT !.randomness = "locked",
                              !.commit_slot = slot + SERVER_ENTROPY_DELAY_SLOTS,
                              !.locked_in = slot]

settle_round_server(reveal) ==
    /\ round.exists /\ ~round.settled
    /\ slot >= BETTING_ENDS_AT /\ slot < REFUND_AT
    /\ round.randomness = "locked"
    /\ slot > round.commit_slot
    /\ round.commitment = reveal
    /\ EligibleEntropy(round.commit_slot) # {}
    /\ round' = [round EXCEPT !.settled = TRUE,
                              !.entropy = select_slot_hash_at_or_after(round.commit_slot),
                              !.settled_in = slot]

Execute(tx) ==
    CASE tx.kind = "prepare" -> prepare(tx.reveal)
      [] tx.kind = "lock"    -> lock_round_server_entropy
      [] tx.kind = "settle"  -> settle_round_server(tx.reveal)

Land(tx) ==
    /\ tx \in sent
    /\ sent' = sent \ {tx}
    /\ Execute(tx)
    /\ UNCHANGED <<slot, blocks, file, keeper, report, failures>>

\* Anyone may lock the entropy of a pending round.
LockByOther ==
    /\ lock_round_server_entropy
    /\ UNCHANGED <<slot, blocks, file, sent, keeper, report, failures>>

\* A transaction expires, is dropped, or fails against the state it meets.
Lose(tx) ==
    /\ tx \in sent
    /\ \/ failures < MaxFailures /\ failures' = failures + 1
       \/ ~ENABLED Execute(tx) /\ UNCHANGED failures
    /\ sent' = sent \ {tx}
    /\ UNCHANGED <<slot, blocks, round, file, keeper, report>>

Delivery == \E tx \in sent : Land(tx) \/ Lose(tx)

-----------------------------------------------------------------------------
(* The keeper                                                              *)

\* The keeper sleeps until the confirmed chain time, which it reads again and
\* again, has reached the target.
waitForChainTimestamp(target) == slot >= target

\* The sysvar as the keeper scans it: FALSE while no slot at or after the
\* target is there.  A target that has aged out throws (see AwaitEntropy).
serverEntropyAvailable(target) == \E s \in SlotHashes : s >= target

agedOut(target) == target < Min(SlotHashes)

Step(k, from, to) ==
    /\ keeper[k].pc = from
    /\ keeper' = [keeper EXCEPT ![k].pc = to]

Env == UNCHANGED <<slot, blocks, round>>

\* The host starts (or starts again) the keeper of the round.
StartKeeper(k) ==
    /\ keeper[k].pc = "off"
    /\ keeper' = [keeper EXCEPT ![k] = [Idle EXCEPT !.pc = "start"]]
    /\ Env /\ UNCHANGED <<file, sent, report, failures>>

\* A first read that takes a settled round for finished work.
ReadSkippingAudit(k) ==
    /\ keeper[k].pc = "start"
    /\ keeper' = [keeper EXCEPT ![k].seen = round,
           ![k].pc = IF round.settled THEN "done"
                     ELSE IF ~round.exists /\ slot >= OPENED_AT THEN "missed"
                     ELSE "load"]
    /\ Env /\ UNCHANGED <<file, sent, report, failures>>

\* The first read: a settled round is audited, a missing one whose opening has
\* passed is given up.
ReadRound(k) ==
    /\ keeper[k].pc = "start"
    /\ keeper' = [keeper EXCEPT ![k].seen = round,
           ![k].pc = IF round.settled THEN "report"
                     ELSE IF ~round.exists /\ slot >= OPENED_AT THEN "missed"
                     ELSE "load"]
    /\ Env /\ UNCHANGED <<file, sent, report, failures>>

Exits(k) == keeper' = [keeper EXCEPT ![k] = Idle]

\* parseRevealState throws on anything that is no whole state.
TakeReveal(k) ==
    IF file.content \in Reveals
    THEN keeper' = [keeper EXCEPT ![k].reveal = file.content, ![k].pc = "prepare"]
    ELSE Exits(k)

LoadReveal(k) ==
    /\ keeper[k].pc = "load"
    /\ IF file.content = "absent"
       THEN \E r \in Reveals :
              keeper' = [keeper EXCEPT ![k].reveal = r, ![k].pc = "create"]
       ELSE TakeReveal(k)
    /\ Env /\ UNCHANGED <<file, sent, report, failures>>

\* A creation that truncates what another keeper left there.
CreateTruncating(k) ==
    /\ Step(k, "create", "write")
    /\ file' = [content |-> "empty", synced |-> FALSE]
    /\ Env /\ UNCHANGED <<sent, report, failures>>

\* open(path, 'wx'): fails where the file exists, and then reads it.
CreateReveal(k) ==
    /\ keeper[k].pc = "create"
    /\ IF file.content = "absent"
       THEN /\ Step(k, "create", "write")
            /\ file' = [content |-> "empty", synced |-> FALSE]
       ELSE TakeReveal(k) /\ UNCHANGED file
    /\ Env /\ UNCHANGED <<sent, report, failures>>

WriteReveal(k) ==
    /\ Step(k, "write", "sync")
    /\ file' = [content |-> keeper[k].reveal, synced |-> FALSE]
    /\ Env /\ UNCHANGED <<sent, report, failures>>

SyncReveal(k) ==
    /\ Step(k, "sync", "prepare")
    /\ file' = [file EXCEPT !.synced = TRUE]
    /\ Env /\ UNCHANGED <<sent, report, failures>>

Send(kind, reveal) == sent' = sent \cup {[kind |-> kind, reveal |-> reveal]}

\* Open and bind a round that was missing when it was read; resume one that
\* holds this commitment, and refuse any other.
PrepareRound(k) ==
    /\ keeper[k].pc = "prepare"
    /\ IF ~keeper[k].seen.exists
       THEN Step(k, "prepare", "await_bind") /\ Send("prepare", keeper[k].reveal)
       ELSE /\ IF keeper[k].seen.commitment = keeper[k].reveal
               THEN Step(k, "prepare", "betting")
               ELSE Exits(k)
            /\ UNCHANGED sent
    /\ Env /\ UNCHANGED <<file, report, failures>>

SeeBound(k) ==
    /\ round.commitment = keeper[k].reveal
    /\ Step(k, "await_bind", "betting")
    /\ Env /\ UNCHANGED <<file, sent, report, failures>>

\* Betting is over: lock a round that is still pending.
LockEntropy(k) ==
    /\ keeper[k].pc = "betting"
    /\ waitForChainTimestamp(BETTING_ENDS_AT)
    /\ IF round.settled
       THEN Step(k, "betting", "report") /\ UNCHANGED sent
       ELSE IF round.randomness = "pending"
            THEN Step(k, "betting", "await_lock") /\ Send("lock", NoReveal)
            ELSE Step(k, "betting", "entropy") /\ UNCHANGED sent
    /\ Env /\ UNCHANGED <<file, report, failures>>

SeeLocked(k) ==
    /\ round.randomness # "pending"
    /\ Step(k, "await_lock", IF round.settled THEN "report" ELSE "entropy")
    /\ Env /\ UNCHANGED <<file, sent, report, failures>>

\* Poll SlotHashes; the refund time and an aged-out target end the process.
AwaitEntropy(k) ==
    /\ keeper[k].pc = "entropy"
    /\ IF slot >= REFUND_AT \/ agedOut(round.commit_slot)
       THEN Exits(k) /\ UNCHANGED sent
       ELSE /\ serverEntropyAvailable(round.commit_slot)
            /\ Step(k, "entropy", "await_settle")
            /\ Send("settle", keeper[k].reveal)
    /\ Env /\ UNCHANGED <<file, report, failures>>

SeeSettled(k) ==
    /\ round.settled
    /\ Step(k, "await_settle", "report_own")
    /\ Env /\ UNCHANGED <<file, sent, report, failures>>

\* The finalized block time of the settlement, or none after the last attempt.
finalizedTransactionTimeSeconds == {{round.settled_in}, {}}

\* That time decides; a keeper that cannot read it reports a miss.
Verdicts ==
    { IF \E t \in evidence : t < RESULT_DEADLINE THEN "met" ELSE "missed" :
        evidence \in finalizedTransactionTimeSeconds }

\* The settlement this process sent: its own signature is looked up.  Another
\* keeper's may have settled the round in its place, and the lookup of a
\* transaction that never landed finds no time at all.
ReportOwnSettlement(k) ==
    /\ Step(k, "report_own", "done")
    /\ report' \in Verdicts
    /\ Env /\ UNCHANGED <<file, sent, failures>>

\* A report by the time at which the keeper looks.
ReportWhenSeen(k) ==
    /\ Step(k, "report", "done")
    /\ report' = IF slot <= RESULT_DEADLINE THEN "met" ELSE "missed"
    /\ Env /\ UNCHANGED <<file, sent, failures>>

\* A settlement found settled, whoever sent it: the evidence is searched in
\* the round's own finalized history.
ReportSettlement(k) ==
    /\ Step(k, "report", "done")
    /\ report' \in Verdicts
    /\ Env /\ UNCHANGED <<file, sent, failures>>

\* A confirmation or the reads that follow it exhaust their time, or the
\* simulation fails, and the process ends; what was sent may still land.
TimeOut(k) ==
    /\ keeper[k].pc \in {"await_bind", "await_lock", "await_settle"}
    /\ Exits(k)
    /\ Env /\ UNCHANGED <<file, sent, report, failures>>

\* The process dies: out of memory, a watchdog's SIGKILL, an exception.
Die(k) ==
    /\ failures < MaxFailures
    /\ keeper[k].pc \notin {"off", "done", "missed"}
    /\ Exits(k)
    /\ failures' = failures + 1
    /\ Env /\ UNCHANGED <<file, sent, report>>

\* The machine dies: what was not synced may be lost, in whole or in part.
PowerFailure ==
    /\ failures < MaxFailures
    /\ keeper' = [k \in Keepers |-> Idle]
    /\ failures' = failures + 1
    /\ \E content \in IF file.synced THEN {file.content}
                      ELSE {file.content, "empty", "absent"} :
          file' = [content |-> content, synced |-> TRUE]
    /\ Env /\ UNCHANGED <<sent, report>>

KeeperStep(k) ==
    \/ StartKeeper(k) \/ ReadRound(k) \/ LoadReveal(k) \/ CreateReveal(k)
    \/ WriteReveal(k) \/ SyncReveal(k) \/ PrepareRound(k) \/ SeeBound(k)
    \/ LockEntropy(k) \/ SeeLocked(k) \/ AwaitEntropy(k) \/ SeeSettled(k)
    \/ ReportOwnSettlement(k) \/ ReportSettlement(k) \/ TimeOut(k)

Next ==
    \/ NextSlot
    \/ Delivery
    \/ LockByOther
    \/ \E k \in Keepers : KeeperStep(k) \/ Die(k)

Spec == Init /\ [][Next]_vars

\* The same on a machine that may lose its power.
NextOrPowerFailure == Next \/ PowerFailure

\* The host starts keepers again and a running keeper goes on (every wait of
\* its is bounded), slots are produced, and a transaction lands or is lost.
FairSpec ==
    /\ Init /\ [][NextOrPowerFailure]_vars
    /\ WF_vars(NextSlot)
    /\ WF_vars(Delivery)
    /\ \A k \in Keepers : WF_vars(KeeperStep(k))

-----------------------------------------------------------------------------
(* Properties                                                              *)

RoundType ==
    [ exists : BOOLEAN, commitment : Reveals \cup {NoReveal},
      randomness : {"unbound", "pending", "locked"}, commit_slot : Nat, locked_in : Nat,
      settled : BOOLEAN, entropy : Nat, settled_in : Nat ]

KeeperType ==
    [ pc : {"off", "start", "load", "create", "write", "sync", "prepare", "await_bind",
            "betting", "await_lock", "entropy", "await_settle", "report", "report_own",
            "done", "missed"},
      reveal : Reveals \cup {NoReveal}, seen : RoundType ]

\* Slots, account, file, transactions and processes keep their types.
TypeOK ==
    /\ slot \in FirstSlot .. MaxSlot /\ blocks \subseteq 0 .. slot - 1
    /\ round \in RoundType
    /\ file \in [content : Reveals \cup {"absent", "empty"}, synced : BOOLEAN]
    /\ sent \subseteq [kind : {"prepare", "lock", "settle"}, reveal : Reveals \cup {NoReveal}]
    /\ keeper \in [Keepers -> KeeperType]
    /\ report \in {"none", "met", "missed"}
    /\ failures \in 0 .. MaxFailures

\* server-randomness-policy.mjs: the preimage is persisted before its
\* commitment can reach the chain, so that a bound round stays settleable by
\* whichever keeper comes next.
PreimageKept == round.commitment # NoReveal => file.content = round.commitment

\* The outcome is not chosen: the entropy of a settled round is the first slot
\* produced at or after the locked target, whose hash did not exist when it
\* was locked, however late and by whomever the settlement is submitted.
EntropyFixedByLock ==
    round.settled =>
        /\ round.commit_slot > round.locked_in
        /\ round.entropy = Min({s \in blocks : s >= round.commit_slot})

\* The commit-reveal promise: a bound preimage is never lost, and what it is
\* mixed with was unknown when the round was locked.
CommitRevealSound == TypeOK /\ PreimageKept /\ EntropyFixedByLock

\* A settlement is never reported in time when its block was not: a restart
\* does not turn a missed winner interval into a success.
HonestReport == report = "met" => round.settled /\ round.settled_in < RESULT_DEADLINE

\* Whatever dies in between, the host learns of every settlement; neither is
\* ever taken back.
EverySettlementReported == []<>(round.settled => report # "none")
=============================================================================
