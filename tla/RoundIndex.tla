----------------------------- MODULE RoundIndex -----------------------------
(***************************************************************************)
(* The public record of one round: the indexer that copies the finalized   *)
(* history of the program into the tables of the read model, repairs them, *)
(* attests their snapshot on chain and keeps them true after the round     *)
(* account is gone, together with the lifecycle keeper that pays, refunds  *)
(* and closes what the round still holds.                                  *)
(*                                                                         *)
(* The chain side keeps what the two workers read of it: the Round account *)
(* and the finalized transactions that name it.  A transaction is a        *)
(* sequence of events; its place in the history is its signature and slot. *)
(* One await of a worker that changes a table or the chain is one step, so *)
(* the chain moves, and the process dies, between any two of them.         *)
(***************************************************************************)
EXTENDS Naturals, Sequences, FiniteSets, SequencesExt

CONSTANTS
    Receipts,       \* receipt accounts of the round
    Tiles,          \* tiles of the board
    Layout,         \* the tiles each receipt wagers on, one lamport on each
    NoSnapshot,     \* no archive
    SETTLE_BATCH,   \* receipts one lifecycle transaction pays or closes
    MaxFaults       \* bound: process deaths, transactions not served, and
                    \* events an earlier release projected wrongly

ASSUME RoundIndexAssumption ==
    /\ IsFiniteSet(Receipts) /\ IsFiniteSet(Tiles)
    /\ Layout \in [Receipts -> (SUBSET Tiles) \ {{}}]
    /\ SETTLE_BATCH \in Nat \ {0} /\ MaxFaults \in Nat

VARIABLES
    chain,      \* the Round account
    log,        \* finalized transactions of the round
    db,         \* mine_rounds row, mine_round_bets, mine_receipt_settlements
    proof,      \* mine_round_proofs row
    cursor,     \* mine_indexer_state: newest transaction projected
    legacy,     \* an earlier release of the indexer is still deployed
    ix,         \* the indexer process
    faults

chainVars == <<chain, log>>
vars == <<chain, log, db, proof, cursor, legacy, ix, faults>>

Event(k, r) == [kind |-> k, who |-> r]
Plain(k) == Event(k, NoSnapshot)
Processing == {"Accrued", "Refunded"}
ReceiptKinds == Processing \cup {"Closed"}

-----------------------------------------------------------------------------
(* The Round account and its finalized history.                            *)

EmptyAccount ==
    [live |-> TRUE, settled |-> FALSE, expired |-> FALSE, locked |-> FALSE,
     deployed |-> {}, processed |-> {}, closed |-> {},
     buyback |-> FALSE, archived |-> NoSnapshot]

ProcessedAll(c) == c.processed = c.deployed
TileReceipts(c, t) == Cardinality({r \in c.deployed : t \in Layout[r]})
\* A refund takes the wager out of its buckets; a payment leaves them.
TileLamports(c, t) ==
    Cardinality({r \in c.deployed \ (IF c.settled THEN {} ELSE c.processed) :
                    t \in Layout[r]})

Deploy(r) ==
    /\ ~chain.locked /\ ~chain.expired /\ r \notin chain.deployed
    /\ chain' = [chain EXCEPT !.deployed = @ \cup {r}]
    /\ log' = Append(log, <<Event("Deployment", r)>>)

LockEntropy ==
    /\ ~chain.locked /\ ~chain.expired
    /\ chain' = [chain EXCEPT !.locked = TRUE]
    /\ log' = Append(log, <<Plain("Locked")>>)

\* The reveal, the fee split and the result are one transaction.
Settle ==
    /\ chain.locked /\ ~chain.settled /\ ~chain.expired
    /\ chain' = [chain EXCEPT !.settled = TRUE]
    /\ log' = Append(log, <<Plain("Revealed"), Plain("Fees"), Plain("Settled")>>)

RefundTimePasses ==
    /\ ~chain.settled /\ ~chain.expired
    /\ chain' = [chain EXCEPT !.expired = TRUE]
    /\ UNCHANGED log

\* The buyback keeper writes its evidence rows before it marks the round.
CompleteBuyback ==
    /\ chain.live /\ chain.settled /\ ~chain.buyback
    /\ chain' = [chain EXCEPT !.buyback = TRUE]
    /\ log' = Append(log, <<Plain("Buyback")>>)

ChainStep ==
    /\ \/ \E r \in Receipts : Deploy(r)
       \/ LockEntropy \/ Settle \/ RefundTimePasses \/ CompleteBuyback
    /\ UNCHANGED <<db, proof, cursor, legacy, ix, faults>>

-----------------------------------------------------------------------------
(* What the indexer compares: the aggregate of the tables, the account.    *)

EmptyRow ==
    [exists |-> FALSE, resolved |-> FALSE, complete |-> FALSE, total |-> 0,
     processed |-> 0, closed |-> 0, buyback |-> FALSE, commitment |-> FALSE,
     lock |-> FALSE, reveal |-> FALSE, fees |-> FALSE, settlement |-> FALSE,
     hash |-> NoSnapshot, verified |-> FALSE, closedSignature |-> FALSE]

BetRows(r) == {<<r, t>> : t \in Layout[r]}
IndexedReceipts(d) == {b[1] : b \in d.bets}
FinalRows(d) == {s \in d.settlements : s.status # "closed"}

fetchProjectionDigest(d) ==
    [total |-> Cardinality(IndexedReceipts(d)),
     processed |-> Cardinality({s.receipt : s \in FinalRows(d)}),
     closed |-> Cardinality({s.receipt : s \in d.settlements \ FinalRows(d)}),
     tiles |-> [t \in Tiles |-> Cardinality({b \in d.bets : b[2] = t})]]

MatchesInTotalOnly(c, g) == g.total = Cardinality(c.deployed)
roundParticipantProjectionMatchesChain(c, g) ==
    /\ g.total = Cardinality(c.deployed)
    /\ \A t \in Tiles : g.tiles[t] = TileLamports(c, t) /\ g.tiles[t] = TileReceipts(c, t)

roundProjectionMatchesChain(c, g) ==
    /\ roundParticipantProjectionMatchesChain(c, g)
    /\ g.processed = Cardinality(c.processed) /\ g.closed = Cardinality(c.closed)

\* A fully refunded round has empty buckets: it is proved from its rows.
refundedRoundProjectionMatchesChain(c, g, d) ==
    /\ ~c.settled /\ c.expired /\ ProcessedAll(c) /\ c.closed = {}
    /\ g.total = Cardinality(c.deployed) /\ g.processed = g.total /\ g.closed = 0
    /\ \A t \in Tiles : g.tiles[t] = TileReceipts(c, t)
    /\ \A s \in FinalRows(d) :
          /\ s.status = "refunded" /\ s.receipt \in IndexedReceipts(d)
          /\ \A u \in FinalRows(d) : u.receipt = s.receipt => u = s
          /\ s.lamports = Cardinality({b \in d.bets : b[1] = s.receipt})
    /\ Cardinality(FinalRows(d)) = g.total

completeServerProof(w) == w.commitment /\ w.lock /\ w.reveal /\ w.settlement

roundNeedsCanonicalReplay(w, c, g) ==
    IF ~w.exists THEN c.settled
    ELSE \/ w.resolved # c.settled
         \/ /\ ~roundParticipantProjectionMatchesChain(c, g)
            /\ c.settled \/ ProcessedAll(c)
         \/ /\ roundParticipantProjectionMatchesChain(c, g)
            /\ \/ /\ ProcessedAll(c)
                  /\ g.processed # Cardinality(c.processed) \/ g.closed # Cardinality(c.closed)
               \/ c.settled /\ ~completeServerProof(w)

-----------------------------------------------------------------------------
(* Applying one event.                                                     *)

\* An event whose projection is two writes: a reader may see the first alone.
TwoWrites(e) == e.kind \in ReceiptKinds \cup {"Deployment"}

Status(k) == CASE k = "Accrued" -> "accrued" [] k = "Refunded" -> "refunded" [] k = "Closed" -> "closed"

\* The primary key is (round, receipt, status): a later write replaces it.
UpsertSettlement(d, r, status, slot) ==
    [d EXCEPT !.settlements =
        {s \in @ : ~(s.receipt = r /\ s.status = status)}
          \cup {[receipt |-> r, status |-> status, slot |-> slot,
                 lamports |-> Cardinality(Layout[r])]}]

\* Fees are audited, and the randomness of a result is derived again, from
\* the transactions indexed for the round.
requireRoundFeeAudit(w) == w.fees
requireRoundRandomnessProof(w) == w.commitment /\ w.lock /\ w.reveal

\* RoundSettled reads the live account and proves the randomness it indexed.
Applicable(e, d) ==
    e.kind = "Settled" => chain.live /\ requireRoundRandomnessProof(d.row)

projectRandomness(d, e) ==
    CASE e.kind = "Opened" -> [d EXCEPT !.row.exists = TRUE]
      [] e.kind = "Commitment" -> [d EXCEPT !.row.exists = TRUE, !.row.commitment = TRUE]
      [] e.kind = "Locked" -> [d EXCEPT !.row.exists = TRUE, !.row.lock = TRUE]
      [] e.kind = "Revealed" -> [d EXCEPT !.row.exists = TRUE, !.row.commitment = TRUE,
                                          !.row.reveal = TRUE]

\* A complete row becomes provisional before a newer wager is added to it.
invalidateCompleteness(d) == [d EXCEPT !.row.exists = TRUE, !.row.complete = FALSE]
projectDeployment(d, e) == [d EXCEPT !.row.exists = TRUE, !.bets = @ \cup BetRows(e.who)]

projectSettlement(d) ==
    [d EXCEPT !.row.resolved = TRUE, !.row.settlement = TRUE,
              !.row.total = Cardinality(chain.deployed),
              !.row.complete = roundProjectionMatchesChain(chain, fetchProjectionDigest(d))]

projectReceipt(d, e, slot) == UpsertSettlement(d, e.who, Status(e.kind), slot)
countReceipts(d, e) ==
    IF e.kind = "Closed"
    THEN [d EXCEPT !.row.closed = fetchProjectionDigest(d).closed]
    ELSE [d EXCEPT !.row.processed = fetchProjectionDigest(d).processed]

projectFees(d) == [d EXCEPT !.row.exists = TRUE, !.row.fees = TRUE]
projectOther(d, e) ==
    CASE e.kind = "Fees" -> projectFees(d)
      [] e.kind = "Settled" -> projectSettlement(d)
      [] e.kind = "Buyback" -> [d EXCEPT !.row.buyback = TRUE]
      [] e.kind = "Archived" -> [d EXCEPT !.row.hash = chain.archived]
      [] e.kind = "RoundClosed" -> [d EXCEPT !.row.closedSignature = TRUE]
      [] OTHER -> projectRandomness(d, e)

firstWrite(d, e, slot) ==
    CASE e.kind = "Deployment" -> invalidateCompleteness(d)
      [] e.kind \in ReceiptKinds -> projectReceipt(d, e, slot)
      [] OTHER -> projectOther(d, e)
secondWrite(d, e) ==
    IF e.kind = "Deployment" THEN projectDeployment(d, e) ELSE countReceipts(d, e)

\* A canonical replay does not invalidate: its caller withdrew the row.
processEvent(d, e, slot) ==
    CASE e.kind = "Deployment" -> projectDeployment(d, e)
      [] e.kind \in ReceiptKinds -> countReceipts(projectReceipt(d, e, slot), e)
      [] OTHER -> projectOther(d, e)

-----------------------------------------------------------------------------
(* The archive: a snapshot of the tables whose hash the chain attests.     *)
(* A hash determines its snapshot, so the snapshot stands for both.        *)

Facts(w) ==
    [resolved |-> w.resolved, total |-> w.total, processed |-> w.processed,
     commitment |-> w.commitment, lock |-> w.lock, reveal |-> w.reveal,
     fees |-> w.fees, settlement |-> w.settlement]

buildArchiveSnapshot(w, d) ==
    [facts |-> Facts(w), bets |-> d.bets, settlements |-> FinalRows(d)]

\* The facts a snapshot must hold before its round may be archived: those of
\* a settled round, none of them in a refunded one, the server's proof, and
\* the audits of fees and randomness.
requiredFacts(f) == f.resolved => f.fees /\ f.settlement
consistentFacts(f) == f.processed = f.total /\ (~f.resolved => ~f.fees)
serverProofFacts(f) == f.resolved => f.commitment /\ f.lock /\ f.reveal
archivedSnapshotRoundProjection(s) ==
    /\ requiredFacts(s.facts) /\ consistentFacts(s.facts) /\ serverProofFacts(s.facts)
    /\ s.facts.resolved => requireRoundFeeAudit(s.facts) /\ requireRoundRandomnessProof(s.facts)

\* Its participants: every receipt wagered, and got one final status.
archivedSnapshotProjectionDigest(s) ==
    LET wagered == {b[1] : b \in s.bets}
        final == {u.receipt : u \in s.settlements}
    IN /\ final \subseteq wagered
       /\ \A u, v \in s.settlements : u.receipt = v.receipt => u = v
       /\ s.facts.total = Cardinality(wagered) /\ s.facts.processed = Cardinality(final)
       /\ Cardinality(final) = Cardinality(wagered)

ValidSnapshot(s) == archivedSnapshotRoundProjection(s) /\ archivedSnapshotProjectionDigest(s)

verifiedArchivedRoundProjection(w, s) ==
    w.verified /\ s # NoSnapshot /\ w.hash = s /\ ValidSnapshot(s)

roundProjectionMatchesArchivedProof(w, s, g) ==
    /\ w.closedSignature /\ verifiedArchivedRoundProjection(w, s)
    /\ Facts(w) = s.facts /\ w.buyback = s.facts.resolved /\ w.closed = s.facts.total
    /\ g.total = s.facts.total /\ g.processed = s.facts.total /\ g.closed = s.facts.total
    /\ \A t \in Tiles : g.tiles[t] = Cardinality({b \in s.bets : b[2] = t})

closedRoundNeedsCanonicalReplay(w, matches) == w.verified /\ (~w.closedSignature \/ ~matches)

\* The receipt events a complete replay decoded, each with its transaction.
canonicalReceiptSettlements(n) ==
    UNION {{[receipt |-> e.who, status |-> Status(e.kind), slot |-> i] :
                e \in {x \in ToSet(log[i]) : x.kind \in ReceiptKinds}} :
           i \in 1..n}

\* A row is deleted only when its own transaction decodes to another status.
staleReceiptSettlementRows(d, canonical) ==
    {s \in d.settlements :
        /\ \A c \in canonical : c.receipt = s.receipt => c.status # s.status
        /\ \E c \in canonical : c.receipt = s.receipt /\ c.slot = s.slot}

-----------------------------------------------------------------------------
(* The indexer: lease, reconcile, index forward, archive.                  *)

Idle == [pc |-> "idle", account |-> EmptyAccount, row |-> EmptyRow,
         i |-> 0, j |-> 0, n |-> 0, whole |-> TRUE]

At(pc) == ix.pc = pc
Goto(pc) == ix' = [Idle EXCEPT !.pc = pc]
\* An error that leaves the tick: everything in memory is forgotten.
Throw == ix' = Idle

\* The batch read of reconcileCanonicalRounds: account and row, as of now.
readBatch == [Idle EXCEPT !.pc = "reconcile", !.account = chain, !.row = db.row]
\* The repair comes first: a cursor wedged at RoundSettled would never reach it.
ForwardFirst ==
    /\ At("idle") /\ ~legacy
    /\ ix' = IF cursor < Len(log) THEN [Idle EXCEPT !.pc = "index"] ELSE readBatch
    /\ UNCHANGED <<chain, log, db, proof, cursor, legacy, faults>>
indexerTick ==
    /\ At("idle") /\ ~legacy
    /\ ix' = readBatch
    /\ UNCHANGED <<chain, log, db, proof, cursor, legacy, faults>>

\* How many finalized signatures name the round, oldest first.
canonicalRoundSignatures == Len(log)

\* Withdraw the claim of completeness, then replay the history from its start.
BeginReplay ==
    /\ db' = [db EXCEPT !.row.complete = @ /\ ~ix.row.complete]
    /\ ix' = [ix EXCEPT !.pc = "replay", !.row.complete = FALSE,
                        !.i = 1, !.j = 0, !.n = canonicalRoundSignatures, !.whole = TRUE]

chainRoundProjection(c, complete) ==
    [exists |-> TRUE, resolved |-> c.settled, complete |-> complete,
     total |-> Cardinality(c.deployed), processed |-> Cardinality(c.processed),
     closed |-> Cardinality(c.closed), buyback |-> c.buyback]

\* Only fields that differ from the row as it was read are written.
changedRoundProjection(old, read, p) ==
    [f \in DOMAIN old |->
        IF f \in DOMAIN p /\ (~read.exists \/ p[f] # read[f]) THEN p[f] ELSE old[f]]

LiveComplete(c) ==
    LET g == fetchProjectionDigest(db)
    IN refundedRoundProjectionMatchesChain(c, g, db) \/ roundProjectionMatchesChain(c, g)

WriteLiveProjection ==
    /\ db' = [db EXCEPT !.row = changedRoundProjection(@, ix.row,
                                    chainRoundProjection(ix.account, LiveComplete(ix.account)))]
    /\ Goto("index")

reconcileLiveRound ==
    LET g == fetchProjectionDigest(db) IN
    /\ At("reconcile") /\ ix.account.live
    /\ IF /\ ~refundedRoundProjectionMatchesChain(ix.account, g, db)
          /\ roundNeedsCanonicalReplay(ix.row, ix.account, g)
       THEN BeginReplay
       ELSE WriteLiveProjection
    /\ UNCHANGED <<chain, log, proof, cursor, legacy, faults>>

\* Absence of the account proves nothing: only a verified archive is replayed.
reconcileClosedRound ==
    LET matches == roundProjectionMatchesArchivedProof(ix.row, proof, fetchProjectionDigest(db)) IN
    /\ At("reconcile") /\ ~ix.account.live
    /\ CASE ~ix.row.verified /\ ~ix.row.closedSignature -> Goto("index") /\ UNCHANGED db
         [] closedRoundNeedsCanonicalReplay(ix.row, matches) -> BeginReplay
         [] OTHER -> /\ db' = [db EXCEPT !.row.complete = matches]
                     /\ Goto("index")
    /\ UNCHANGED <<chain, log, proof, cursor, legacy, faults>>

\* A closed account cannot serve RoundSettled; its archive holds those facts.
Skipped(e) == e.kind = "Settled" /\ ~ix.account.live
replayEvent(d, e, slot) == IF Skipped(e) THEN d ELSE processEvent(d, e, slot)

\* The tables after the first k events of transaction i.
AfterEvents(d, i) ==
    LET f[k \in 0..Len(log[i])] ==
            IF k = 0 THEN d ELSE replayEvent(f[k - 1], log[i][k], i)
    IN f

\* Replayed writes are idempotent and the row is withdrawn meanwhile, so a
\* transaction is replayed in one step.  An error is caught: the round failed.
replayCanonicalRoundHistory ==
    /\ At("replay") /\ ix.i <= ix.n
    /\ LET events == log[ix.i]
           after == AfterEvents(db, ix.i)
           refused == {k \in DOMAIN events :
                          ~Skipped(events[k]) /\ ~Applicable(events[k], after[k - 1])}
       IN IF refused = {}
          THEN db' = after[Len(events)] /\ ix' = [ix EXCEPT !.i = @ + 1]
          ELSE db' = after[(CHOOSE k \in refused : \A l \in refused : k <= l) - 1] /\ Goto("index")
    /\ UNCHANGED <<chain, log, proof, cursor, legacy, faults>>

\* The logs of a transaction are not served: the replay is not whole.
SkipUnavailable ==
    /\ At("replay") /\ ix.i <= ix.n /\ faults < MaxFaults
    /\ ix' = [ix EXCEPT !.i = @ + 1, !.whole = FALSE]
    /\ faults' = faults + 1
    /\ UNCHANGED <<chain, log, db, proof, cursor, legacy>>

pruneDisprovedSettlementRows ==
    /\ At("replay") /\ ix.i > ix.n
    /\ db' = IF ix.whole
             THEN [db EXCEPT !.settlements =
                      @ \ staleReceiptSettlementRows(db, canonicalReceiptSettlements(ix.n))]
             ELSE db
    /\ ix' = [ix EXCEPT !.pc = "repair"]
    /\ UNCHANGED <<chain, log, proof, cursor, legacy, faults>>

WriteClosedProjection ==
    LET g == fetchProjectionDigest(db)
        facts == [f \in DOMAIN db.row |->
                    CASE f \in DOMAIN proof.facts -> proof.facts[f]
                      [] f = "buyback" -> proof.facts.resolved
                      [] OTHER -> db.row[f]]
        repaired == [facts EXCEPT !.total = g.total, !.processed = g.processed, !.closed = g.closed]
        complete == ix.whole /\ roundProjectionMatchesArchivedProof(repaired, proof, g)
    IN /\ db' = IF verifiedArchivedRoundProjection(db.row, proof)
                THEN [db EXCEPT !.row = [(IF complete THEN repaired ELSE facts)
                                            EXCEPT !.complete = complete]]
                ELSE db
       /\ Goto("index")

finishReplay ==
    /\ At("repair")
    /\ IF ix.account.live THEN WriteLiveProjection ELSE WriteClosedProjection
    /\ UNCHANGED <<chain, log, proof, cursor, legacy, faults>>

\* The forward cursor: the signatures after it, oldest first, read once.
signaturesSince ==
    /\ At("index")
    /\ ix' = [ix EXCEPT !.pc = "forward", !.n = Len(log)]
    /\ UNCHANGED <<chain, log, db, proof, cursor, legacy, faults>>

\* Write j of a transaction, in half events: the cursor moves only past its last.
indexTransactions ==
    LET tx == log[cursor + 1]
        e == tx[ix.j \div 2 + 1]
    IN
    /\ At("forward") /\ cursor < ix.n
    /\ IF ix.j = 2 * Len(tx)
       THEN /\ cursor' = cursor + 1 /\ ix' = [ix EXCEPT !.j = 0] /\ UNCHANGED db
       ELSE /\ UNCHANGED cursor
            /\ IF ~Applicable(e, db)
               THEN Throw /\ UNCHANGED db
               ELSE IF ix.j % 2 = 0
               THEN /\ db' = firstWrite(db, e, cursor + 1)
                    /\ ix' = [ix EXCEPT !.j = @ + (IF TwoWrites(e) THEN 1 ELSE 2)]
               ELSE /\ db' = secondWrite(db, e)
                    /\ ix' = [ix EXCEPT !.j = @ + 1]
    /\ UNCHANGED <<chain, log, proof, legacy, faults>>

forwardDone ==
    /\ At("forward") /\ cursor >= ix.n
    /\ Goto("archive")
    /\ UNCHANGED <<chain, log, db, proof, cursor, legacy, faults>>

\* The row as the archive publishes it: the account's facts over the index.
ArchivedRow(c) == changedRoundProjection(db.row, db.row, chainRoundProjection(c, TRUE))

\* The rows the two candidate queries return, and the accounts that are final.
ArchiveCandidate(w) ==
    w.exists /\ ~w.verified /\ ~w.closedSignature /\ (w.resolved => w.buyback)
Final(c) ==
    /\ c.live /\ (c.settled \/ c.expired) /\ ProcessedAll(c) /\ (c.settled => c.buyback)
\* The indexed result is the result of the finalized account.
requireRoundStateRandomnessEvidence(c, w) == c.settled /\ w.settlement

ReadyByCounts(c) ==
    /\ ArchiveCandidate(db.row) /\ Final(c)
    /\ fetchProjectionDigest(db).processed = Cardinality(c.deployed)
ArchiveReady(c) ==
    LET g == fetchProjectionDigest(db)
        w == ArchivedRow(c)
    IN /\ ArchiveCandidate(db.row) /\ Final(c)
       /\ g.processed = Cardinality(c.deployed)
       /\ IF c.settled
          THEN /\ roundProjectionMatchesChain(c, g) /\ requireRoundFeeAudit(w)
               /\ requireRoundStateRandomnessEvidence(c, w) /\ requireRoundRandomnessProof(w)
          ELSE refundedRoundProjectionMatchesChain(c, g, db)
       /\ ValidSnapshot(buildArchiveSnapshot(w, db))
       /\ proof \in {NoSnapshot, buildArchiveSnapshot(w, db)}

archiveReadyRounds ==
    /\ At("archive")
    /\ IF ArchiveReady(chain)
       THEN /\ db' = [db EXCEPT !.row = ArchivedRow(chain)]
            /\ ix' = [ix EXCEPT !.pc = "prove"]
       ELSE Throw /\ UNCHANGED db
    /\ UNCHANGED <<chain, log, proof, cursor, legacy, faults>>

upsertProof ==
    /\ At("prove")
    /\ proof' = buildArchiveSnapshot(db.row, db)
    /\ ix' = [ix EXCEPT !.pc = "attest"]
    /\ UNCHANGED <<chain, log, db, cursor, legacy, faults>>

\* archive_round is sent once; its answer may be lost after it landed.
sendArchive ==
    /\ At("attest") /\ chain.live
    /\ IF chain.archived # NoSnapshot
       THEN UNCHANGED chainVars
       ELSE /\ chain' = [chain EXCEPT !.archived = proof]
            /\ log' = Append(log, <<Plain("Archived")>>)
    /\ \/ ix' = [ix EXCEPT !.pc = "verify"] /\ UNCHANGED faults
       \/ faults < MaxFaults /\ faults' = faults + 1 /\ Throw
    /\ UNCHANGED <<db, proof, cursor, legacy>>

verifyArchive ==
    /\ At("verify")
    /\ db' = IF chain.archived = proof
             THEN [db EXCEPT !.row.hash = proof, !.row.verified = TRUE,
                             !.row.buyback = chain.buyback]
             ELSE db
    /\ Throw
    /\ UNCHANGED <<chain, log, proof, cursor, legacy, faults>>

\* The process dies, or a request fails, between two awaits.
Abort ==
    /\ ~At("idle") /\ faults < MaxFaults
    /\ faults' = faults + 1 /\ Throw
    /\ UNCHANGED <<chain, log, db, proof, cursor, legacy>>

IndexerStep ==
    \/ indexerTick \/ reconcileLiveRound \/ reconcileClosedRound
    \/ replayCanonicalRoundHistory \/ pruneDisprovedSettlementRows \/ finishReplay
    \/ signaturesSince \/ indexTransactions \/ forwardDone
    \/ archiveReadyRounds \/ upsertProof \/ sendArchive \/ verifyArchive

-----------------------------------------------------------------------------
(* An earlier release projected some events wrongly and wrote no proof     *)
(* columns: the state the repair paths were written for.                   *)

LegacyEvent(d, e, slot, harm) ==
    CASE e.kind = "Opened" -> [d EXCEPT !.row.exists = TRUE]
      [] e.kind = "Deployment" -> [d EXCEPT !.bets = @ \cup
            (IF harm THEN {CHOOSE b \in BetRows(e.who) : TRUE} ELSE BetRows(e.who))]
      [] e.kind = "Fees" -> [d EXCEPT !.row.fees = TRUE]
      [] e.kind = "Settled" -> [d EXCEPT !.row.resolved = TRUE, !.row.settlement = TRUE]
      [] e.kind \in Processing -> UpsertSettlement(d, e.who,
            IF harm THEN "closed" ELSE Status(e.kind), slot)
      [] e.kind = "Buyback" -> [d EXCEPT !.row.buyback = TRUE]
      [] OTHER -> d

AfterLegacyEvents(d, i, harm) ==
    LET f[k \in 0..Len(log[i])] ==
            IF k = 0 THEN d ELSE LegacyEvent(f[k - 1], log[i][k], i, harm)
    IN f

LegacyIndex(harm) ==
    /\ legacy /\ cursor < Len(log)
    /\ harm => faults < MaxFaults
    /\ faults' = IF harm THEN faults + 1 ELSE faults
    /\ db' = AfterLegacyEvents(db, cursor + 1, harm)[Len(log[cursor + 1])]
    /\ cursor' = cursor + 1
    /\ UNCHANGED <<chain, log, proof, legacy, ix>>

Upgrade ==
    /\ legacy /\ legacy' = FALSE
    /\ UNCHANGED <<chain, log, db, proof, cursor, ix, faults>>

-----------------------------------------------------------------------------
(* The lifecycle keeper works on rounds the index lists, but takes every   *)
(* receipt from the chain when the index has fewer than the account.       *)

DiscoveredReceipts ==
    IF Cardinality(IndexedReceipts(db)) < Cardinality(chain.deployed)
    THEN chain.deployed \ chain.closed
    ELSE IndexedReceipts(db)

Queued == db.row.exists /\ ~db.row.closedSignature /\ chain.live
Batches(S) == {B \in SUBSET S : B # {} /\ Cardinality(B) <= SETTLE_BATCH}
BatchEvents(k, B) == SetToSeq({Event(k, r) : r \in B})

\* A keeper that pays the receipts of settled rounds and forgets the others.
SettleOnly ==
    /\ Queued /\ chain.settled
    /\ \E B \in Batches(DiscoveredReceipts \ chain.processed) :
          /\ chain' = [chain EXCEPT !.processed = @ \cup B]
          /\ log' = Append(log, BatchEvents("Accrued", B))
    /\ UNCHANGED <<db, proof, cursor, legacy, ix, faults>>

settleOrRefund ==
    /\ Queued /\ (chain.settled \/ chain.expired)
    /\ \E B \in Batches(DiscoveredReceipts \ chain.processed) :
          /\ chain' = [chain EXCEPT !.processed = @ \cup B]
          /\ log' = Append(log, BatchEvents(IF chain.settled THEN "Accrued" ELSE "Refunded", B))
    /\ UNCHANGED <<db, proof, cursor, legacy, ix, faults>>

closeReceipts ==
    /\ Queued /\ chain.archived # NoSnapshot /\ db.row.verified
    /\ \E B \in Batches(DiscoveredReceipts \ chain.closed) :
          /\ chain' = [chain EXCEPT !.closed = @ \cup B]
          /\ log' = Append(log, BatchEvents("Closed", B))
    /\ UNCHANGED <<db, proof, cursor, legacy, ix, faults>>

closeRound ==
    /\ Queued /\ chain.archived # NoSnapshot /\ db.row.verified
    /\ ProcessedAll(chain) /\ chain.closed = chain.deployed
    /\ chain.settled => chain.buyback
    /\ chain' = [chain EXCEPT !.live = FALSE]
    /\ log' = Append(log, <<Plain("RoundClosed")>>)
    /\ UNCHANGED <<db, proof, cursor, legacy, ix, faults>>

KeeperStep == settleOrRefund \/ closeReceipts \/ closeRound

-----------------------------------------------------------------------------
Init ==
    /\ chain = EmptyAccount
    /\ log = << <<Plain("Opened"), Plain("Commitment")>> >>
    /\ db = [row |-> EmptyRow, bets |-> {}, settlements |-> {}]
    /\ proof = NoSnapshot /\ cursor = 0 /\ legacy \in BOOLEAN
    /\ ix = Idle /\ faults = 0

Next ==
    \/ ChainStep \/ IndexerStep \/ KeeperStep
    \/ SkipUnavailable \/ Abort
    \/ \E harm \in BOOLEAN : LegacyIndex(harm)
    \/ Upgrade

Spec == Init /\ [][Next]_vars

\* The indexer loop and the keeper loop never stop, the older release is
\* replaced, and time passes; nothing else is promised.
FairSpec ==
    /\ Spec
    /\ WF_vars(IndexerStep) /\ WF_vars(KeeperStep) /\ WF_vars(Upgrade)
    /\ WF_vars(RefundTimePasses /\ UNCHANGED <<db, proof, cursor, legacy, ix, faults>>)

-----------------------------------------------------------------------------
\* Receipts are closed only once processed; index, cursor and indexer keep their types.
TypeOK ==
    /\ chain.closed \subseteq chain.processed /\ chain.processed \subseteq chain.deployed
    /\ cursor \in 0..Len(log)
    /\ db.bets \subseteq (Receipts \X Tiles)
    /\ ix.pc \in {"idle", "reconcile", "replay", "repair", "index", "forward",
                  "archive", "prove", "attest", "verify"}
    /\ legacy \in BOOLEAN /\ faults \in 0..MaxFaults

\* The deployments of the first n transactions.
RosterAfter(n) ==
    UNION {BetRows(e.who) : e \in {x \in UNION {ToSet(log[i]) : i \in 1..n} : x.kind = "Deployment"}}

\* A round published as complete (projection_complete) lists exactly the wagers
\* of a prefix of its history, and all of them once it is published as settled.
PublishedRosterExact ==
    TypeOK /\ (db.row.complete =>
        /\ \E n \in 0..Len(log) : db.bets = RosterAfter(n)
        /\ db.row.resolved => db.bets = RosterAfter(Len(log)))

\* The snapshot attested on chain holds every wager and one true final status
\* of every receipt; what the index calls verified is that snapshot.
ArchiveExact ==
    /\ chain.archived # NoSnapshot =>
          /\ chain.archived.facts.resolved = chain.settled
          /\ chain.archived.bets = RosterAfter(Len(log))
          /\ {<<s.receipt, s.status>> : s \in chain.archived.settlements}
                = {<<r, IF chain.settled THEN "accrued" ELSE "refunded">> : r \in chain.deployed}
    /\ db.row.verified => db.row.hash = chain.archived /\ proof = chain.archived

\* The index converges: the cursor ends past every finalized transaction, never
\* wedged behind one, and the record of a closed round ends complete.
IndexConverges ==
    <>[](/\ cursor = Len(log)
         /\ ~chain.live => db.row.complete /\ db.row.closedSignature)

\* Every wager is paid or refunded, whatever the index lost.
EveryReceiptProcessed == <>[]ProcessedAll(chain)
=============================================================================
