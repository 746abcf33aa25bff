--------------------------- MODULE WalletRewards ---------------------------
(***************************************************************************)
(* What a wallet is told about its unclaimed rewards and what its claims   *)
(* report: loadRoundHistory of rounds-page.js and claimManyRounds of       *)
(* lottery.js, while rounds settle, the lifecycle keeper processes and     *)
(* closes the same receipts, RPC reads fail or are served from the receipt *)
(* cache, and wallet prompts are rejected.  Deployments to the rounds are  *)
(* over: the wallet's receipts are given.                                  *)
(***************************************************************************)
EXTENDS Naturals, Sequences, SequencesExt, FiniteSets, FiniteSetsExt

CONSTANTS
    LastRound,             \* rounds 0..LastRound have elapsed
    Receipts,              \* the wallet's receipts
    RoundOf,               \* RoundOf[p]: the round of receipt p
    RECENT_CHAIN_ROUNDS,   \* newest elapsed rounds read directly
    CHUNK_SIZE,            \* receipts per claim transaction
    MaxLoads               \* bound: history loads

\* What instances assume of the constants.
WalletAssumption == IsFiniteSet(Receipts) /\ CHUNK_SIZE \in Nat

VARIABLES
    settled,   \* rounds whose result is published
    winners,   \* receipts that win when their round settles
    st,        \* st[p]: "open", "claimed" or "closed" (account gone)
    load,      \* the history load in progress
    shown,     \* what the last finished load showed
    loads,
    claim,     \* the claim in progress
    report     \* what the last finished claim reported

vars == <<settled, winners, st, load, shown, loads, claim, report>>
chain == <<settled, winners, st>>
history == <<load, shown, loads>>

Rounds == 0..LastRound
OfRounds(ps, rs) == {p \in ps : RoundOf[p] \in rs}
RoundsOf(ps) == {RoundOf[p] : p \in ps}
Open == {p \in Receipts : st[p] = "open"}

NoLoad == [pc |-> "idle", before |-> {}, recent |-> {}, wallet |-> {}, known |-> TRUE, mine |-> {}]
NoClaim == [pc |-> "idle", requested |-> {}, claims |-> <<>>, confirmed |-> {}]

Init ==
    /\ settled = {} /\ winners \in SUBSET Receipts
    /\ st = [p \in Receipts |-> "open"]
    /\ load = NoLoad /\ shown = [unknown |-> 1, before |-> {}, claimable |-> {}] /\ loads = 0
    /\ claim = NoClaim /\ report = [status |-> "none", processed |-> {}, remaining |-> {}]

-----------------------------------------------------------------------------
(* The chain.                                                              *)

settleRound ==
    /\ \E r \in Rounds \ settled : settled' = settled \cup {r}
    /\ UNCHANGED <<winners, st, history, claim, report>>

\* The lifecycle keeper settles a receipt, and closes it later.
keeper ==
    /\ \E p \in OfRounds(Receipts, settled) :
        \/ st[p] = "open" /\ st' = [st EXCEPT ![p] = "claimed"]
        \/ st[p] = "claimed" /\ st' = [st EXCEPT ![p] = "closed"]
    /\ UNCHANGED <<settled, winners, history, claim, report>>

\* decodedReceipts: a cached scan, or one shared with another reader, may be a
\* few seconds old.  It then shows receipts as they were and never omits one
\* that is still open.
decodedReceipts ==
    {scan \in [Receipts -> {"open", "claimed", "closed"}] :
        \A p \in Receipts : scan[p] = st[p] \/ (st[p] # "open" /\ scan[p] = "open")}

-----------------------------------------------------------------------------
(* loadRoundHistory, where the index answers.                              *)

\* readRecentElapsedRounds, which a failing read leaves empty.
RecentRounds == {r \in Rounds : r > LastRound - RECENT_CHAIN_ROUNDS}
readRecent ==
    /\ load.pc = "idle" /\ loads < MaxLoads
    /\ \E recent \in {settled \cap RecentRounds, {}} :
        load' = [NoLoad EXCEPT !.pc = "wallet", !.before = settled, !.recent = recent]
    /\ loads' = loads + 1
    /\ UNCHANGED <<chain, shown, claim, report>>

\* readWalletReceiptRounds: the rounds of the receipts still open in the scan.
FailureMeansNoReceipts(ok) ==
    IF ok THEN \E scan \in decodedReceipts :
               load' = [load EXCEPT !.pc = "status",
                                    !.wallet = settled \cap RoundsOf({p \in Receipts : scan[p] = "open"})]
    ELSE load' = [load EXCEPT !.pc = "status"]
WalletScan(ok) ==
    IF ok THEN \E scan \in decodedReceipts :
               load' = [load EXCEPT !.pc = "status",
                                    !.wallet = settled \cap RoundsOf({p \in Receipts : scan[p] = "open"})]
    ELSE load' = [load EXCEPT !.pc = "status", !.known = FALSE]
readWalletReceiptRounds ==
    /\ load.pc = "wallet"
    /\ \E ok \in BOOLEAN : WalletScan(ok)
    /\ UNCHANGED <<chain, shown, loads, claim, report>>

\* mergeSettledClaimRounds and readMyClaimStatus: rounds in which the wallet
\* has a winning receipt not yet claimed.
mergeSettledClaimRounds == load.recent \cup load.wallet
Actionable(scan, r) ==
    \E p \in OfRounds(winners, {r}) : scan[p] = "open"
readMyClaimStatus ==
    /\ load.pc = "status"
    /\ \/ /\ load.known
          /\ \E scan \in decodedReceipts :
                load' = [load EXCEPT !.pc = "build",
                                     !.mine = {r \in mergeSettledClaimRounds : Actionable(scan, r)}]
       \/ ~load.known /\ load' = [load EXCEPT !.pc = "build"]
    /\ UNCHANGED <<chain, shown, loads, claim, report>>

\* buildClaimable; a status that could not be read counts as unknown.
buildClaimable ==
    /\ load.pc = "build" /\ load' = NoLoad
    /\ shown' = [unknown |-> IF load.known THEN 0 ELSE 1, before |-> load.before, claimable |-> load.mine]
    /\ UNCHANGED <<chain, loads, claim, report>>

\* A read that fails later on ends the load: the page keeps what it showed.
loadFails ==
    /\ load.pc \in {"status", "build"} /\ load' = NoLoad
    /\ UNCHANGED <<chain, shown, loads, claim, report>>

-----------------------------------------------------------------------------
(* claimManyRounds and executeClaimChunks.                                 *)

\* Claim All asks for the rounds shown, a single claim for one of them.
claimManyRounds ==
    /\ claim.pc = "idle" /\ report.status = "none" /\ shown.claimable # {}
    /\ \E rs \in {shown.claimable} \cup {{r} : r \in shown.claimable} : \E scan \in decodedReceipts :
        LET rows == OfRounds({p \in Receipts : scan[p] = "open"}, rs)
        IN  /\ rows # {}
            /\ claim' = [NoClaim EXCEPT !.pc = "send", !.requested = rs, !.claims = SetToSeq(rows)]
    /\ UNCHANGED <<chain, history, report>>

Chunk == SubSeq(claim.claims, Cardinality(claim.confirmed) + 1,
                Min({Cardinality(claim.confirmed) + CHUNK_SIZE, Len(claim.claims)}))

\* One transaction claims every receipt of the chunk or none.
Lands == \A p \in ToSet(Chunk) : st[p] = "open" /\ RoundOf[p] \in settled
Claimed == st' = [p \in Receipts |-> IF p \in ToSet(Chunk) THEN "claimed" ELSE st[p]]

sendChunk ==
    /\ claim.pc = "send" /\ Cardinality(claim.confirmed) < Len(claim.claims)
    /\ \/ Lands /\ Claimed /\ claim' = [claim EXCEPT !.confirmed = @ \cup ToSet(Chunk)]
       \/ Lands /\ Claimed /\ claim' = [claim EXCEPT !.pc = "reconcile"]    \* confirmation not seen
       \/ claim' = [claim EXCEPT !.pc = "reconcile"] /\ UNCHANGED st        \* rejected or failed
    /\ UNCHANGED <<settled, winners, history, report>>

Report(status, processed) ==
    /\ report' = [status |-> status, processed |-> processed, remaining |-> claim.requested \ processed]
    /\ claim' = NoClaim

allChunksConfirmed ==
    /\ claim.pc = "send" /\ Cardinality(claim.confirmed) = Len(claim.claims)
    /\ Report("complete", claim.requested)
    /\ UNCHANGED <<chain, history>>

\* The rescan, made after the cache is cleared, says which rounds remain.
reconcileRemaining ==
    /\ claim.pc = "reconcile"
    /\ LET processed == claim.requested \ RoundsOf(Open)
       IN  Report(IF processed = claim.requested THEN "complete" ELSE IF processed = {} THEN "failed" ELSE "partial",
                  processed)
    /\ UNCHANGED <<chain, history>>

\* Without a rescan only rounds all of whose claims were confirmed count.
AnyChunkProves(r) == OfRounds(claim.confirmed, {r}) # {}
ProvenByChunks(r) == OfRounds(ToSet(claim.claims), {r}) \subseteq claim.confirmed
rescanFails ==
    /\ claim.pc = "reconcile"
    /\ Report("unverified", {r \in claim.requested : ProvenByChunks(r)})
    /\ UNCHANGED <<chain, history>>

Next ==
    \/ settleRound \/ keeper
    \/ readRecent \/ readWalletReceiptRounds \/ readMyClaimStatus \/ buildClaimable \/ loadFails
    \/ claimManyRounds \/ sendChunk \/ allChunksConfirmed \/ reconcileRemaining \/ rescanFails

Spec == Init /\ [][Next]_vars

-----------------------------------------------------------------------------
(* A load that does not admit to missing claim status lists every round,   *)
(* however old, that was settled when the load began and in which the      *)
(* wallet still has a winning receipt to claim, whatever reads failed.     *)
NoHiddenWin ==
    shown.unknown = 0 =>
        \A r \in shown.before : (\E p \in OfRounds(winners, {r}) : st[p] = "open") => r \in shown.claimable

(* A round reported as processed has no open receipt of the wallet left,   *)
(* whichever chunk failed, landed unseen or was overtaken by the keeper.   *)
ClaimReportSound ==
    OfRounds(Open, report.processed) = {}
=============================================================================
