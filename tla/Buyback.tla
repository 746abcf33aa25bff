------------------------------- MODULE Buyback -------------------------------
(***************************************************************************)
(* The buyback keeper: it takes the oldest indexed allocation, journals a  *)
(* signed swap before it sends it, burns what the swap bought, writes the  *)
(* evidence and marks the round on chain.  A tick may die at any step; the *)
(* next one resumes from the journal.  Transactions land late or never,    *)
(* until their blockhash expires; a database lease keeps two replicas of   *)
(* the keeper apart.                                                       *)
(*                                                                         *)
(* Time is relative: a lease, a tick and a blockhash each have a number of *)
(* clock steps left.  Fees and the fee reserve are left out: the balance   *)
(* is the allocations received and not yet spent.  Only the keeper uses    *)
(* the MYNE account of its wallet.                                         *)
(***************************************************************************)
EXTENDS Integers, FiniteSets, FiniteSetsExt

CONSTANTS
    Keepers, NoKeeper,    \* lease holders: the replicas of the worker host
    Rounds, Allocation,   \* the funded rounds and the lamports of each
    Rates,                \* MYNE units one lamport may buy
    MAX_BUYBACK, MIN_BUYBACK,
    BLOCKHASH_VALIDITY, TICK_TIMEOUT, LEASE_TTL,
    Signatures, NoSignature,
    OrderedSettlement,    \* whether rounds settle in the order of their ids
    LandsBetweenReads,    \* whether a swap may land between two reads of one verdict
    MaxDeaths             \* bound: ticks that die or run out of time

ASSUME BuybackAssumption ==
    /\ NoKeeper \notin Keepers
    /\ Rounds \subseteq Nat /\ IsFiniteSet(Rounds)
    /\ Allocation \in [Rounds -> Nat \ {0}]
    /\ Rates \subseteq Nat \ {0} /\ IsFiniteSet(Rates)
    /\ MAX_BUYBACK \in Nat \ {0} /\ MIN_BUYBACK \in Nat \ {0}
    /\ BLOCKHASH_VALIDITY \in Nat /\ TICK_TIMEOUT \in Nat
    /\ LEASE_TTL \in Nat /\ TICK_TIMEOUT < LEASE_TTL
    /\ Signatures \subseteq Nat /\ NoSignature \notin Signatures
    /\ OrderedSettlement \in BOOLEAN /\ LandsBetweenReads \in BOOLEAN
    /\ MaxDeaths \in Nat

VARIABLES
    settled,    \* rounds settled and visible in the round index
    completed,  \* rounds whose buyback_completed flag is set on chain
    marks,      \* mark_buyback_completed transactions in flight, by round
    swapped,    \* lamports swapped for each round
    bought,     \* MYNE units those swaps returned
    burned,     \* MYNE units burned for each round
    tx,         \* the signed swap and burn transactions that still matter
    journal,    \* the state file: the cursor and an entry for each round
    evidence,   \* lamports with indexed evidence, mine_buyback_executions
    lease,      \* the row of mine_keeper_leases
    keeper,     \* the tick each replica is in
    deaths

chain == <<completed, marks, swapped, bought, burned>>
vars  == <<settled, chain, tx, journal, evidence, lease, keeper, deaths>>

NoRound == -1
NoTx    == [kind |-> "none", round |-> NoRound, amount |-> 0, status |-> "none", left |-> 0]
Idle    == [pc |-> "idle", round |-> NoRound, left |-> 0]

NoPending == [ phase |-> "none", spend |-> 0, before |-> 0,
               swap |-> NoSignature, burn |-> NoSignature ]

Init ==
    /\ settled = {} /\ completed = {} /\ marks = {}
    /\ swapped = [r \in Rounds |-> 0]
    /\ bought = [r \in Rounds |-> 0]
    /\ burned = [r \in Rounds |-> 0]
    /\ tx = [s \in Signatures |-> NoTx]
    /\ journal = [ nextRound |-> 0,
                   rounds |-> [r \in Rounds |-> [processed |-> 0, pending |-> NoPending]] ]
    /\ evidence = [r \in Rounds |-> 0]
    /\ lease = [holder |-> NoKeeper, left |-> 0]
    /\ keeper = [k \in Keepers |-> Idle]
    /\ deaths = 0

Total(f, S) == MapThenSumSet(LAMBDA r : f[r], S)

Balance     == Total(Allocation, settled) - Total(swapped, Rounds)
TokenAmount == Total(bought, Rounds) - Total(burned, Rounds)

-----------------------------------------------------------------------------
(* The chain, the index and the clock                                      *)

Working == {k \in Keepers : keeper[k].pc # "idle"}

\* A round settles and sends its allocation to the buyback wallet.
Settle(r) ==
    /\ r \notin settled
    /\ OrderedSettlement => \A q \in Rounds : q < r => q \in settled
    /\ settled' = settled \cup {r}
    /\ UNCHANGED <<chain, tx, journal, evidence, lease, keeper, deaths>>

CanLand(t) == t.status = "sent" /\ t.left > 0

Named(entries) ==
    UNION {{entries[r].pending.swap, entries[r].pending.burn} : r \in Rounds}

\* Transactions no entry names and that can no longer land are forgotten.
Remember(ts, entries) ==
    [s \in Signatures |-> IF s \in Named(entries) \/ CanLand(ts[s]) THEN ts[s] ELSE NoTx]

Less(n) == IF n = 0 THEN 0 ELSE n - 1

\* A tick past its timeout exits, so time never passes it by.
Clock ==
    /\ \A k \in Working : keeper[k].left > 0
    /\ lease' = [lease EXCEPT !.left = Less(lease.left)]
    /\ keeper' = [k \in Keepers |-> [keeper[k] EXCEPT !.left = Less(keeper[k].left)]]
    /\ tx' = Remember([s \in Signatures |-> [tx[s] EXCEPT !.left = Less(tx[s].left)]],
                      journal.rounds)
    /\ UNCHANGED <<settled, chain, journal, evidence, deaths>>

\* A swap fills within the slippage, or fails on chain; a burn of tokens held
\* succeeds.
Land(s) ==
    /\ CanLand(tx[s])
    /\ LandsBetweenReads \/ \A k \in Keepers : keeper[k].pc # "height"
    /\ LET t == tx[s]
           ends(status) == tx' = Remember([tx EXCEPT ![s].status = status], journal.rounds)
       IN \/ /\ t.kind = "swap" /\ t.amount <= Balance /\ ends("landed")
             /\ \E rate \in Rates :
                   bought' = [bought EXCEPT ![t.round] = bought[t.round] + t.amount * rate]
             /\ swapped' = [swapped EXCEPT ![t.round] = swapped[t.round] + t.amount]
             /\ UNCHANGED burned
          \/ /\ t.kind = "burn" /\ t.amount <= TokenAmount /\ ends("landed")
             /\ burned' = [burned EXCEPT ![t.round] = burned[t.round] + t.amount]
             /\ UNCHANGED <<swapped, bought>>
          \/ /\ t.kind = "swap" /\ ends("failed")
             /\ UNCHANGED <<swapped, bought, burned>>
    /\ UNCHANGED <<settled, completed, marks, journal, evidence, lease, keeper, deaths>>

mark_buyback_completed(r) ==
    /\ r \in marks
    /\ completed' = completed \cup {r}
    /\ marks' = marks \ {r}
    /\ UNCHANGED <<settled, swapped, bought, burned, tx, journal, evidence, lease, keeper, deaths>>

\* A completion expires or fails.
LoseMark(r) ==
    /\ r \in marks
    /\ marks' = marks \ {r}
    /\ UNCHANGED <<settled, completed, swapped, bought, burned, tx, journal, evidence, lease,
                   keeper, deaths>>

-----------------------------------------------------------------------------
(* The lease and the choice of a round                                     *)

\* An upsert without its WHERE clause.
LeaseForAnyone(k) == TRUE

\* on conflict do update where expires_at <= now() or holder = excluded.holder
LeaseAvailable(k) == lease.left = 0 \/ lease.holder = k

\* A tick begins: the lease is taken or renewed for a whole TTL.
Tick(k) ==
    /\ keeper[k].pc = "idle"
    /\ LeaseAvailable(k)
    /\ lease' = [holder |-> k, left |-> LEASE_TTL]
    /\ keeper' = [keeper EXCEPT ![k] = [pc |-> "select", round |-> NoRound, left |-> TICK_TIMEOUT]]
    /\ UNCHANGED <<settled, chain, tx, journal, evidence, deaths>>

EndTick(k)   == keeper' = [keeper EXCEPT ![k] = Idle]
GoTo(k, pc)  == keeper' = [keeper EXCEPT ![k].pc = pc]
Entry(k)     == journal.rounds[keeper[k].round]
Pending(k)   == Entry(k).pending

OpenRows(rows) == {r \in rows : r >= journal.nextRound}

\* The oldest row at or above the cursor, if there is one.
selectIndexedBuybackRound(rows) == {r \in OpenRows(rows) : \A q \in OpenRows(rows) : r <= q}

\* The rows may still show a completed round as open; the flag on chain decides.
Select(k) ==
    /\ keeper[k].pc = "select"
    /\ \E stale \in SUBSET completed :
         LET rows == (settled \ completed) \cup stale
         IN \/ selectIndexedBuybackRound(rows) = {} /\ EndTick(k) /\ UNCHANGED journal
            \/ \E r \in selectIndexedBuybackRound(rows) :
                  \/ /\ r \in completed /\ EndTick(k)
                     /\ journal' = [journal EXCEPT !.nextRound = r + 1]
                  \/ /\ r \notin completed /\ UNCHANGED journal
                     /\ keeper' = [keeper EXCEPT ![k] = [keeper[k] EXCEPT !.round = r, !.pc =
                           IF journal.rounds[r].pending.phase = "none" THEN "plan" ELSE "recover"]]
    /\ UNCHANGED <<settled, chain, tx, evidence, lease, deaths>>

-----------------------------------------------------------------------------
(* A swap                                                                  *)

\* The entry of the round is saved, together with a change to the signed
\* transactions it names.
Save(k, entry, ts) ==
    /\ journal' = [journal EXCEPT !.rounds[keeper[k].round] = entry]
    /\ tx' = Remember(ts, journal'.rounds)

SavePending(k, pending, ts) == Save(k, [Entry(k) EXCEPT !.pending = pending], ts)

Fresh == Min({s \in Signatures : tx[s] = NoTx})

Signed(k, kind, amount) ==
    [tx EXCEPT ![Fresh] = [ kind |-> kind, round |-> keeper[k].round, amount |-> amount,
                            status |-> "signed", left |-> BLOCKHASH_VALIDITY ]]

Remaining(k) == Allocation[keeper[k].round] - Entry(k).processed

calculateSpend(k) == Min({MAX_BUYBACK, Remaining(k), Balance})

\* The journaled executions are indexed, then the next part of the allocation
\* is quoted, signed and journaled, or a round that is done is marked.
PlanSwap(k) ==
    /\ keeper[k].pc = "plan"
    /\ evidence' = [evidence EXCEPT ![keeper[k].round] = Entry(k).processed]
    /\ IF Remaining(k) = 0
       THEN GoTo(k, "mark") /\ UNCHANGED <<journal, tx>>
       ELSE IF calculateSpend(k) < MIN_BUYBACK
       THEN EndTick(k) /\ UNCHANGED <<journal, tx>>
       ELSE /\ SavePending(k, [ phase |-> "swap-ready", spend |-> calculateSpend(k),
                                before |-> TokenAmount, swap |-> Fresh, burn |-> NoSignature ],
                           Signed(k, "swap", calculateSpend(k)))
            /\ GoTo(k, "recover")
    /\ UNCHANGED <<settled, chain, lease, deaths>>

OutputSeen(k) == TokenAmount > Pending(k).before

SaveSwapped(k) ==
    /\ SavePending(k, [Pending(k) EXCEPT !.phase = "swapped"], tx)
    /\ GoTo(k, "output")

Recover(k) ==
    /\ keeper[k].pc = "recover"
    /\ IF Pending(k).phase # "swap-ready"
       THEN GoTo(k, "output") /\ UNCHANGED <<journal, tx>>
       ELSE IF OutputSeen(k)
       THEN SaveSwapped(k)
       ELSE GoTo(k, "send_swap") /\ UNCHANGED <<journal, tx>>
    /\ UNCHANGED <<settled, chain, evidence, lease, deaths>>

\* The exact saved bytes go out, or do not: the call may fail before or after
\* it has broadcast them.
Submit(s) ==
    \/ UNCHANGED tx
    \/ /\ tx[s].status = "signed" /\ tx[s].left > 0
       /\ tx' = [tx EXCEPT ![s].status = "sent"]

SendSwap(k) ==
    /\ keeper[k].pc = "send_swap"
    /\ Submit(Pending(k).swap)
    /\ GoTo(k, "confirm_swap") \/ GoTo(k, "verdict")
    /\ UNCHANGED <<settled, chain, journal, evidence, lease, deaths>>

ConfirmSwap(k) ==
    /\ keeper[k].pc = "confirm_swap"
    /\ \/ tx[Pending(k).swap].status = "landed" /\ SaveSwapped(k)
       \/ GoTo(k, "verdict") /\ UNCHANGED <<journal, tx>>
    /\ UNCHANGED <<settled, chain, evidence, lease, deaths>>

Abandon(k) == SavePending(k, NoPending, tx) /\ EndTick(k)

\* The submission failed: the balance, then the signature's status.
ReadStatus(k) ==
    /\ keeper[k].pc = "verdict"
    /\ IF OutputSeen(k) THEN SaveSwapped(k)
       ELSE IF tx[Pending(k).swap].status = "failed" THEN Abandon(k)
       ELSE /\ IF tx[Pending(k).swap].status = "landed" THEN EndTick(k) ELSE GoTo(k, "height")
            /\ UNCHANGED <<journal, tx>>
    /\ UNCHANGED <<settled, chain, evidence, lease, deaths>>

\* Waiting for a status that never comes.
WaitsForStatus(k) == FALSE

pendingSwapIsProvablyExpired(k) == tx[Pending(k).swap].left = 0

\* No status: the block height.  An ambiguous swap is left for a later tick.
ReadHeight(k) ==
    /\ keeper[k].pc = "height"
    /\ IF pendingSwapIsProvablyExpired(k)
       THEN Abandon(k)
       ELSE EndTick(k) /\ UNCHANGED <<journal, tx>>
    /\ UNCHANGED <<settled, chain, evidence, lease, deaths>>

-----------------------------------------------------------------------------
(* A burn                                                                  *)

BurnAmount(k) == TokenAmount - Pending(k).before

AwaitOutput(k) ==
    /\ keeper[k].pc = "output"
    /\ IF ~OutputSeen(k)
       THEN EndTick(k) /\ UNCHANGED <<journal, tx>>
       ELSE /\ IF Pending(k).burn = NoSignature
               THEN SavePending(k, [Pending(k) EXCEPT !.phase = "burn-ready", !.burn = Fresh],
                                Signed(k, "burn", BurnAmount(k)))
               ELSE UNCHANGED <<journal, tx>>
            /\ GoTo(k, "send_burn")
    /\ UNCHANGED <<settled, chain, evidence, lease, deaths>>

SendBurn(k) ==
    /\ keeper[k].pc = "send_burn"
    /\ Submit(Pending(k).burn)
    /\ GoTo(k, "confirm_burn")
    /\ UNCHANGED <<settled, chain, journal, evidence, lease, deaths>>

\* A burn counted once it was sent.
BurnPresumed(k) == TRUE

BurnProved(k) == ~OutputSeen(k)

\* Only the balance proves the burn; the execution is then journaled.
RecordExecution(k) ==
    /\ keeper[k].pc = "confirm_burn"
    /\ IF BurnProved(k)
       THEN /\ Save(k, [ processed |-> Entry(k).processed + Pending(k).spend,
                         pending |-> NoPending ], tx)
            /\ GoTo(k, "evidence")
       ELSE EndTick(k) /\ UNCHANGED <<journal, tx>>
    /\ UNCHANGED <<settled, chain, evidence, lease, deaths>>

-----------------------------------------------------------------------------
(* Evidence and completion                                                 *)

upsertBuybackEvidence(k) ==
    /\ keeper[k].pc = "evidence"
    /\ evidence' = [evidence EXCEPT ![keeper[k].round] = Entry(k).processed]
    /\ IF Remaining(k) <= 0 THEN GoTo(k, "mark") ELSE EndTick(k)
    /\ UNCHANGED <<settled, chain, tx, journal, lease, deaths>>

\* The simulation refuses a round that an earlier completion has marked.
SendMark(k) ==
    /\ keeper[k].pc = "mark"
    /\ IF keeper[k].round \in completed
       THEN EndTick(k) /\ UNCHANGED marks
       ELSE GoTo(k, "confirm_mark") /\ marks' = marks \cup {keeper[k].round}
    /\ UNCHANGED <<settled, completed, swapped, bought, burned, tx, journal, evidence, lease, deaths>>

\* Confirmed, the cursor moves on; otherwise the tick throws.
ConfirmMark(k) ==
    /\ keeper[k].pc = "confirm_mark"
    /\ \/ /\ keeper[k].round \in completed
          /\ journal' = [journal EXCEPT !.nextRound = keeper[k].round + 1]
       \/ UNCHANGED journal
    /\ EndTick(k)
    /\ UNCHANGED <<settled, chain, tx, evidence, lease, deaths>>

\* A call throws, the tick's timer ends the process, or it is killed: the
\* supervisor starts it again, with the same lease holder.
Die(k) ==
    /\ k \in Working
    /\ deaths < MaxDeaths
    /\ deaths' = deaths + 1
    /\ EndTick(k)
    /\ UNCHANGED <<settled, chain, tx, journal, evidence, lease>>

KeeperStep(k) ==
    \/ Tick(k) \/ Select(k) \/ PlanSwap(k) \/ Recover(k) \/ SendSwap(k) \/ ConfirmSwap(k)
    \/ ReadStatus(k) \/ ReadHeight(k) \/ AwaitOutput(k) \/ SendBurn(k) \/ RecordExecution(k)
    \/ upsertBuybackEvidence(k) \/ SendMark(k) \/ ConfirmMark(k)

Next ==
    \/ Clock
    \/ \E r \in Rounds : Settle(r) \/ mark_buyback_completed(r) \/ LoseMark(r)
    \/ \E s \in Signatures : Land(s)
    \/ \E k \in Keepers : KeeperStep(k) \/ Die(k)

Spec == Init /\ [][Next]_vars

\* Time passes, and a keeper that is not killed goes on: every call of a tick
\* has its deadline, and the loop starts the next tick.
FairSpec == Spec /\ WF_vars(Clock) /\ \A k \in Keepers : WF_vars(KeeperStep(k))

-----------------------------------------------------------------------------
(* Properties                                                              *)

TxType ==
    [ kind : {"none", "swap", "burn"}, round : Rounds \cup {NoRound}, amount : Nat,
      status : {"none", "signed", "sent", "landed", "failed"}, left : 0 .. BLOCKHASH_VALIDITY ]

PendingType ==
    [ phase : {"none", "swap-ready", "swapped", "burn-ready"}, spend : Nat, before : Nat,
      swap : Signatures \cup {NoSignature}, burn : Signatures \cup {NoSignature} ]

EntryType == [processed : Nat, pending : PendingType]

PCs == {"idle", "select", "plan", "recover", "send_swap", "confirm_swap", "verdict", "height",
        "output", "send_burn", "confirm_burn", "evidence", "mark", "confirm_mark"}

\* Accounts, journal, lease and ticks keep their types.
TypeOK ==
    /\ settled \subseteq Rounds /\ completed \subseteq settled /\ marks \subseteq settled
    /\ swapped \in [Rounds -> Nat] /\ bought \in [Rounds -> Nat] /\ burned \in [Rounds -> Nat]
    /\ tx \in [Signatures -> TxType]
    /\ journal \in [nextRound : Nat, rounds : [Rounds -> EntryType]]
    /\ evidence \in [Rounds -> Nat]
    /\ lease \in [holder : Keepers \cup {NoKeeper}, left : 0 .. LEASE_TTL]
    /\ keeper \in [Keepers -> [pc : PCs, round : Rounds \cup {NoRound}, left : 0 .. TICK_TIMEOUT]]
    /\ deaths \in 0 .. MaxDeaths

\* keeper_leases.sql: the lease fences the swap and the burn, which no PDA makes
\* idempotent: two replicas are never inside a tick together, however long the
\* slower one takes.
OneKeeperAtWork == \A j, k \in Working : j = k

\* buyback-policy.mjs: abandoning a pending swap cannot double spend.  The
\* swaps that landed for a round never exceed its allocation, whatever dies,
\* fails or lands late.
SpentWithinAllocation == \A r \in Rounds : swapped[r] <= Allocation[r]

\* lib.rs, mark_buyback_completed: completion is recorded only after the swap
\* and the burn: a marked round, which may be archived, has spent its whole
\* allocation, burned all it bought, and has its evidence indexed.
MarkedMeansBurned ==
    \A r \in completed :
        /\ swapped[r] = Allocation[r]
        /\ burned[r] = bought[r]
        /\ evidence[r] = Allocation[r]

\* Whatever a swap bought is burned or still the business of a journal entry:
\* no restart forgets tokens in the keeper's account.
NoTokensForgotten ==
    (\A r \in Rounds : journal.rounds[r].pending.phase = "none") => TokenAmount = 0

\* The cursor never passes an allocation that still needs its buyback.
NoneSkipped == \A r \in settled : r < journal.nextRound => r \in completed

\* The books of the buyback as one invariant: allocations, marks, tokens and
\* the cursor agree, whatever dies, fails or lands late.
BuybackBooksSound ==
    TypeOK /\ SpentWithinAllocation /\ MarkedMeansBurned /\ NoTokensForgotten /\ NoneSkipped

\* buyback-keeper.mjs, recoverPendingBuyback: a journaled swap does not stay
\* undecided: it is found landed, or failed, or expired.
SwapDecided ==
    \A r \in Rounds : []<>(journal.rounds[r].pending.phase # "swap-ready")

\* buyback-keeper.mjs: a crash after the exact burn landed and before the
\* journal was updated is recovered: the execution is recorded.
LandedBurnRecorded ==
    \A r \in Rounds :
        (/\ journal.rounds[r].pending.phase = "burn-ready"
         /\ tx[journal.rounds[r].pending.burn].status = "landed")
            ~> (journal.rounds[r].pending.phase = "none")
=============================================================================
