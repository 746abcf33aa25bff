-------------------------- MODULE RoundIndexProofs --------------------------
(***************************************************************************)
(* The public record of a round is true for every set of receipts, every   *)
(* layout of their wagers, every batch size and any number of failures: a  *)
(* roster published as complete is exact, and the archive attested on      *)
(* chain is exact.                                                         *)
(*                                                                         *)
(* The proof rests on three facts.  The tables hold nothing the chain does *)
(* not hold, whatever release wrote them; so a count per tile that agrees  *)
(* with the account leaves no wager out.  What the indexer read of the     *)
(* account is its past, and once the round is settled or expired also its  *)
(* present.  And nobody but the archiving pass moves between the snapshot  *)
(* and the attestation in a way that the snapshot would show.              *)
(***************************************************************************)
EXTENDS RoundIndex, LedgerLemmas

Kinds == {"Opened", "Commitment", "Deployment", "Locked", "Revealed", "Fees", "Settled",
          "Accrued", "Refunded", "Buyback", "Archived", "Closed", "RoundClosed"}
Statuses == {"accrued", "refunded", "closed"}
Pcs == {"idle", "reconcile", "replay", "repair", "index", "forward",
        "archive", "prove", "attest", "verify"}

EventType == [kind : Kinds, who : Receipts \cup {NoSnapshot}]
SettlementType == [receipt : Receipts, status : Statuses, slot : Nat, lamports : Nat]
FactsType ==
    [resolved : BOOLEAN, total : Nat, processed : Nat, commitment : BOOLEAN, lock : BOOLEAN,
     reveal : BOOLEAN, fees : BOOLEAN, settlement : BOOLEAN]
SnapshotType ==
    [facts : FactsType, bets : SUBSET (Receipts \X Tiles), settlements : SUBSET SettlementType]
ProofType == SnapshotType \cup {NoSnapshot}
RowType ==
    [exists : BOOLEAN, resolved : BOOLEAN, complete : BOOLEAN, total : Nat, processed : Nat,
     closed : Nat, buyback : BOOLEAN, commitment : BOOLEAN, lock : BOOLEAN, reveal : BOOLEAN,
     fees : BOOLEAN, settlement : BOOLEAN, hash : ProofType, verified : BOOLEAN,
     closedSignature : BOOLEAN]
TablesType ==
    [row : RowType, bets : SUBSET (Receipts \X Tiles), settlements : SUBSET SettlementType]
AccountType ==
    [live : BOOLEAN, settled : BOOLEAN, expired : BOOLEAN, locked : BOOLEAN,
     deployed : SUBSET Receipts, processed : SUBSET Receipts, closed : SUBSET Receipts,
     buyback : BOOLEAN, archived : ProofType]
IndexerType ==
    [pc : Pcs, account : AccountType, row : RowType, i : Nat, j : Nat, n : Nat, whole : BOOLEAN]

-----------------------------------------------------------------------------
(* The inductive invariant.                                                *)

\* The wagers of a set of receipts.
Bets(S) == {b \in Receipts \X Tiles : b[1] \in S /\ b[2] \in Layout[b[1]]}

\* The outcome of a round is decided once: it settles or it is refunded.
Decided(c) == c.settled \/ c.expired

\* A snapshot that says exactly what the chain holds.
FinalStatus(c) == IF c.settled THEN "accrued" ELSE "refunded"
Exact(c, s) ==
    /\ s.facts.resolved = c.settled
    /\ s.bets = Bets(c.deployed)
    /\ {<<u.receipt, u.status>> : u \in s.settlements}
         = {<<r, FinalStatus(c)>> : r \in c.deployed}

ChainSound ==
    /\ chain \in AccountType
    /\ chain.closed \subseteq chain.processed /\ chain.processed \subseteq chain.deployed
    /\ chain.settled => chain.locked /\ ~chain.expired
    /\ chain.processed # {} \/ ~chain.live => Decided(chain)
    /\ chain.archived # NoSnapshot =>
          Exact(chain, chain.archived) /\ Decided(chain) /\ ProcessedAll(chain)

\* An event says what the chain did.
Truthful(c, e) ==
    /\ e \in EventType
    /\ e.kind = "Deployment" => e.who \in c.deployed
    /\ e.kind = "Settled" => c.settled
    /\ e.kind = "Accrued" => e.who \in c.deployed /\ c.settled
    /\ e.kind = "Refunded" => e.who \in c.deployed /\ c.expired
    /\ e.kind = "Closed" => e.who \in c.deployed

LogSound ==
    /\ log \in Seq(Seq(EventType))
    /\ \A i \in DOMAIN log : \A k \in DOMAIN log[i] : Truthful(chain, log[i][k])
    /\ \A r \in chain.deployed : \E i \in DOMAIN log : \E k \in DOMAIN log[i] :
          log[i][k].kind = "Deployment" /\ log[i][k].who = r

\* The tables hold nothing the chain does not hold.
TablesSound(d) ==
    /\ d \in TablesType
    /\ d.bets \subseteq Bets(chain.deployed)
    /\ \A s \in d.settlements :
          /\ s.receipt \in chain.deployed
          /\ s.status = "accrued" => chain.settled
          /\ s.status = "refunded" => chain.expired
    /\ d.row.resolved => chain.settled
    /\ d.row.verified => d.row.hash = chain.archived /\ proof = chain.archived

\* A roster marked complete lacks no wager of a prefix of the history, and
\* none at all once the row is resolved.
RosterSound(d) ==
    d.row.complete =>
        /\ \E n \in 0..Len(log) : d.bets = RosterAfter(n)
        /\ d.row.resolved => d.bets = Bets(chain.deployed)

\* In a canonical replay only a row that lacks nothing is marked complete.
ReplayedSound(d) == d.row.complete => d.bets = Bets(chain.deployed)

\* An account that was read is the chain's past; a decided one is its present.
WasRead(a) ==
    /\ a \in AccountType
    /\ a.deployed \subseteq chain.deployed
    /\ a.processed \subseteq a.deployed /\ a.closed \subseteq a.processed
    /\ a.processed # {} \/ ~a.live => Decided(a)
    /\ a.settled => chain.settled
    /\ a.expired => chain.expired
    /\ Decided(a) => a.deployed = chain.deployed /\ a.settled = chain.settled
    /\ \E n \in 0..Len(log) : Bets(a.deployed) = RosterAfter(n)

ReconcileSound ==
    ix.pc = "reconcile" =>
        /\ ix.row = db.row
        /\ db.bets \subseteq Bets(ix.account.deployed)
        /\ \A s \in db.settlements : s.receipt \in ix.account.deployed
        /\ db.row.resolved => ix.account.settled

ReplaySound ==
    ix.pc \in {"replay", "repair"} =>
        /\ ReplayedSound(db)
        /\ Decided(ix.account)
        /\ ix.i \in 1..(ix.n + 1) /\ ix.n <= Len(log)

\* A wager is added to a provisional row only.
ForwardSound ==
    /\ ix.pc = "index" => ix.j = 0
    /\ ix.pc = "forward" =>
          /\ ix.n <= Len(log)
          /\ cursor < ix.n =>
                /\ ix.j \in 0..(2 * Len(log[cursor + 1]))
                /\ ix.j % 2 = 1 /\ log[cursor + 1][ix.j \div 2 + 1].kind = "Deployment"
                      => ~db.row.complete

ArchivingSound ==
    /\ ix.pc \in {"prove", "attest", "verify"} => ~db.row.verified
    /\ ix.pc \in {"prove", "attest"} => Decided(chain) /\ ProcessedAll(chain)
    /\ ix.pc = "prove" => Exact(chain, buildArchiveSnapshot(db.row, db))
    /\ ix.pc = "attest" => Exact(chain, proof)

LegacySound == legacy => ix.pc = "idle" /\ ~db.row.complete

IndexerSound ==
    /\ ix \in IndexerType /\ WasRead(ix.account)
    /\ ReconcileSound /\ ReplaySound /\ ForwardSound /\ ArchivingSound

RestSound ==
    /\ cursor \in 0..Len(log) /\ proof \in ProofType
    /\ legacy \in BOOLEAN /\ faults \in 0..MaxFaults /\ LegacySound

IInv ==
    /\ ChainSound /\ LogSound
    /\ TablesSound(db) /\ RosterSound(db)
    /\ IndexerSound /\ RestSound

-----------------------------------------------------------------------------
(* Recursion over the events of a transaction, sets of equal size.         *)

\* f steps from d, up to N.
Recurs(f, d, step, N) == \A k \in 0..N : f[k] = IF k = 0 THEN d ELSE step[<<f[k - 1], k>>]

\* A function defined by recursion over 0..N exists, and it stays in any set
\* that holds its first value and that its step does not leave.
LEMMA RecursionExists ==
    ASSUME NEW S, NEW d \in S, NEW N \in Nat, NEW step \in [S \X (1..N) -> S]
    PROVE  \E f \in [0..N -> S] : Recurs(f, d, step, N)
<1> DEFINE Solves(f, n) ==
               \A k \in 0..n : f[k] = IF k = 0 THEN d ELSE step[<<f[k - 1], k>>]
           Unsolved == {n \in 0..N : ~\E f \in [0..n -> S] : Solves(f, n)}
<1>1. Unsolved = {}
  <2> SUFFICES ASSUME Unsolved # {} PROVE FALSE
      OBVIOUS
  <2>1. PICK m \in Unsolved : \A n \in Unsolved : m <= n
    <3>1. Unsolved \subseteq Nat
        OBVIOUS
    <3> HIDE DEF Unsolved
    <3> QED BY <3>1, LeastNatural
  <2>2. m # 0
    <3>1. [k \in 0..0 |-> d] \in [0..0 -> S] /\ Solves([k \in 0..0 |-> d], 0)
        OBVIOUS
    <3>2. ~\E f \in [0..m -> S] : Solves(f, m)
        BY <2>1
    <3> HIDE DEF Solves
    <3>3. QED
        BY <3>1, <3>2
  <2>3. m - 1 \in 0..N /\ m - 1 \notin Unsolved
    <3>1. m \in 0..N
        BY <2>1
    <3> HIDE DEF Unsolved
    <3>2. QED
        BY <3>1, <2>1, <2>2
  <2>4. PICK g \in [0..(m - 1) -> S] : Solves(g, m - 1)
      BY <2>3
  <2> DEFINE h == [k \in 0..m |-> IF k = m THEN step[<<g[m - 1], m>>] ELSE g[k]]
  <2>5. m \in 1..N /\ g[m - 1] \in S
      BY <2>1, <2>2
  <2>6. h \in [0..m -> S]
    <3>1. step[<<g[m - 1], m>>] \in S
        BY <2>5
    <3>2. QED
        BY <3>1, <2>5
  <2>7. Solves(h, m)
    <3> SUFFICES ASSUME NEW k \in 0..m
                 PROVE  h[k] = IF k = 0 THEN d ELSE step[<<h[k - 1], k>>]
        OBVIOUS
    <3>1. CASE k = m
      <4>1. h[k] = step[<<g[m - 1], m>>] /\ h[k - 1] = g[k - 1] /\ k # 0
          BY <3>1, <2>5
      <4>2. QED
          BY <3>1, <4>1
    <3>2. CASE k # m
      <4>1. k \in 0..(m - 1) /\ (k # 0 => k - 1 \in 0..(m - 1))
          BY <3>2, <2>5
      <4>2. h[k] = g[k] /\ (k # 0 => h[k - 1] = g[k - 1])
          BY <4>1, <2>5
      <4>3. g[k] = IF k = 0 THEN d ELSE step[<<g[k - 1], k>>]
          BY <4>1, <2>4
      <4>4. QED
          BY <4>2, <4>3
    <3>3. QED
        BY <3>1, <3>2
  <2>8. QED
      BY <2>1, <2>6, <2>7
<1>2. QED
    BY <1>1 DEF Recurs

\* A sequence of values that never leaves a set in one step never leaves it.
LEMMA StaysWithin ==
    ASSUME NEW S, NEW N \in Nat, NEW f, f[0] \in S,
           \A k \in 1..N : f[k - 1] \in S => f[k] \in S
    PROVE  \A k \in 0..N : f[k] \in S
<1> DEFINE Bad == {k \in 0..N : f[k] \notin S}
<1> SUFFICES ASSUME Bad # {} PROVE FALSE
    OBVIOUS
<1>1. PICK m \in Bad : \A n \in Bad : m <= n
  <2>1. Bad \subseteq Nat
      OBVIOUS
  <2> HIDE DEF Bad
  <2> QED BY <2>1, LeastNatural
<1>2. m \in 1..N
    BY <1>1
<1>3. m - 1 \in 0..N /\ m - 1 \notin Bad
  <2>1. m - 1 \in 0..N /\ m - 1 < m /\ m \in Nat
      BY <1>2
  <2> HIDE DEF Bad
  <2>2. QED
      BY <1>1, <2>1
<1>4. f[m - 1] \in S
    BY <1>3
<1>5. QED
    BY <1>1, <1>2, <1>4

\* Equal sizes make a part the whole.
LEMMA SameSizeSame ==
    ASSUME NEW T, IsFiniteSet(T), NEW S, S \subseteq T, Cardinality(S) = Cardinality(T)
    PROVE  S = T
BY FS_Subset

\* The wagers on a tile are as many as the receipts that chose it.
LEMMA TileCount ==
    ASSUME NEW D, D \subseteq Receipts, NEW t \in Tiles
    PROVE  /\ IsFiniteSet({b \in Bets(D) : b[2] = t})
           /\ Cardinality({b \in Bets(D) : b[2] = t}) = Cardinality({r \in D : t \in Layout[r]})
<1> DEFINE R == {r \in D : t \in Layout[r]}
           B == {b \in Bets(D) : b[2] = t}
           f == [r \in R |-> <<r, t>>]
<1>1. IsFiniteSet(R)
    BY FS_Subset, RoundIndexAssumption
<1>2. \A r \in R : <<r, t>> \in B
    BY DEF Bets
<1>3. f \in [R -> B]
    BY <1>2
<1>4. \A b \in B : b[1] \in R /\ b = <<b[1], t>>
    BY DEF Bets
<1>5. \A b \in B : \E r \in R : f[r] = b
    BY <1>4
<1>6. \A x, y \in R : f[x] = f[y] => x = y
    OBVIOUS
<1>7. f \in Bijection(R, B)
  <2> HIDE DEF R, B
  <2>1. DOMAIN f = R
      OBVIOUS
  <2> HIDE DEF f
  <2> QED BY <1>3, <1>5, <1>6, <2>1 DEF Bijection, Injection, Surjection, IsInjective
<1>8. ExistsBijection(R, B)
    BY <1>7 DEF ExistsBijection
<1>9. IsFiniteSet(B) /\ Cardinality(B) = Cardinality(R)
  <2> HIDE DEF R, B
  <2> QED BY <1>1, <1>8, FS_Bijection
<1>10. QED
    BY <1>9

\* What the tables hold of a tile is what the account counts there: if no
\* wager of the tables is unknown to the account, none is missing.
LEMMA AllTilesFull ==
    ASSUME NEW D, D \subseteq Receipts, NEW B, B \subseteq Bets(D),
           \A t \in Tiles : Cardinality({b \in B : b[2] = t})
                               = Cardinality({r \in D : t \in Layout[r]})
    PROVE  B = Bets(D)
<1>1. SUFFICES ASSUME NEW b \in Bets(D) PROVE b \in B
    OBVIOUS
<1>2. PICK t \in Tiles : b[2] = t
    BY DEF Bets
<1> DEFINE Some == {x \in B : x[2] = t}
           All  == {x \in Bets(D) : x[2] = t}
<1>3. IsFiniteSet(All) /\ Cardinality(Some) = Cardinality(All)
    BY TileCount
<1>4. Some \subseteq All /\ b \in All
    BY <1>1, <1>2
<1>5. Some = All
  <2> HIDE DEF Some, All
  <2> QED BY <1>3, <1>4, SameSizeSame
<1>6. QED
    BY <1>4, <1>5

LEMMA MatchMeansFull ==
    ASSUME NEW c, c.deployed \subseteq Receipts, NEW d, d.bets \subseteq Bets(c.deployed),
           \/ roundParticipantProjectionMatchesChain(c, fetchProjectionDigest(d))
           \/ roundProjectionMatchesChain(c, fetchProjectionDigest(d))
           \/ refundedRoundProjectionMatchesChain(c, fetchProjectionDigest(d), d)
    PROVE  d.bets = Bets(c.deployed)
<1>1. \A t \in Tiles : fetchProjectionDigest(d).tiles[t] = TileReceipts(c, t)
    BY DEF roundParticipantProjectionMatchesChain, roundProjectionMatchesChain,
           refundedRoundProjectionMatchesChain
<1>2. \A t \in Tiles : Cardinality({b \in d.bets : b[2] = t})
                          = Cardinality({r \in c.deployed : t \in Layout[r]})
    BY <1>1 DEF fetchProjectionDigest, TileReceipts
<1>3. QED
    BY <1>2, AllTilesFull

\* The counts of the tables are numbers.
LEMMA CountsAreNumbers ==
    ASSUME NEW d \in TablesType, NEW S \in SUBSET Receipts
    PROVE  /\ Cardinality(S) \in Nat
           /\ fetchProjectionDigest(d).total \in Nat
           /\ fetchProjectionDigest(d).processed \in Nat
           /\ fetchProjectionDigest(d).closed \in Nat
<1>1. \A T \in SUBSET Receipts : Cardinality(T) \in Nat
    BY FS_Subset, FS_CardinalityType, RoundIndexAssumption
<1>2. /\ {s.receipt : s \in FinalRows(d)} \in SUBSET Receipts
      /\ {s.receipt : s \in d.settlements \ FinalRows(d)} \in SUBSET Receipts
      /\ IndexedReceipts(d) \in SUBSET Receipts
    BY DEF TablesType, SettlementType, FinalRows, IndexedReceipts
<1>3. QED
    BY <1>1, <1>2 DEF fetchProjectionDigest

\* The roster of the history is the wagers of its deployments.
LEMMA RosterOfDeployed ==
    ASSUME LogSound, chain.deployed \subseteq Receipts
    PROVE  RosterAfter(Len(log)) = Bets(chain.deployed)
<1>1. DOMAIN log = 1..Len(log) /\ \A i \in DOMAIN log : log[i] \in Seq(EventType)
    BY DEF LogSound
<1> DEFINE Past == UNION {ToSet(log[i]) : i \in 1..Len(log)}
           Deployments == {x \in Past : x.kind = "Deployment"}
<1>2. \A x \in Deployments : x.who \in chain.deployed
    BY <1>1 DEF LogSound, Truthful, ToSet
<1>3. \A r \in chain.deployed : \E x \in Deployments : x.who = r
  <2> TAKE r \in chain.deployed
  <2>1. PICK i \in DOMAIN log : \E k \in DOMAIN log[i] :
            log[i][k].kind = "Deployment" /\ log[i][k].who = r
      BY DEF LogSound
  <2>2. PICK k \in DOMAIN log[i] : log[i][k].kind = "Deployment" /\ log[i][k].who = r
      BY <2>1
  <2>3. log[i][k] \in Past
      BY <1>1, <2>2 DEF ToSet
  <2>4. QED
      BY <2>2, <2>3
<1>4. \A r \in Receipts : BetRows(r) = Bets({r})
    BY RoundIndexAssumption DEF BetRows, Bets
<1>5. UNION {Bets({x.who}) : x \in Deployments} = Bets(chain.deployed)
  <2> HIDE DEF Deployments
  <2> QED BY <1>2, <1>3 DEF Bets
<1>6. RosterAfter(Len(log)) = UNION {BetRows(x.who) : x \in Deployments}
    BY DEF RosterAfter
<1>7. QED
  <2> HIDE DEF Deployments
  <2> QED BY <1>2, <1>4, <1>5, <1>6

-----------------------------------------------------------------------------
(* One event at a time: what each write of the indexer keeps.              *)


\* A write of the row that takes nothing from the roster and claims nothing new.
KeepsClaims(d, x) ==
    /\ x.bets = d.bets /\ x.settlements = d.settlements
    /\ x.row.complete => d.row.complete
    /\ x.row.resolved = d.row.resolved

LEMMA OtherKeeps ==
    ASSUME ChainSound, NEW d, TablesSound(d), NEW e, Truthful(chain, e),
           e.kind \notin {"Deployment", "Accrued", "Refunded", "Closed", "Settled"}
    PROVE  TablesSound(projectOther(d, e)) /\ KeepsClaims(d, projectOther(d, e))
<1>1. d \in TablesType /\ chain.archived \in ProofType /\ e.kind \in Kinds
    BY DEF TablesSound, ChainSound, AccountType, Truthful, EventType
<1>2. CASE e.kind = "Fees"
    BY <1>1, <1>2 DEF projectOther, projectFees, TablesSound, TablesType, RowType, KeepsClaims
<1>3. CASE e.kind = "Buyback"
    BY <1>1, <1>3 DEF projectOther, TablesSound, TablesType, RowType, KeepsClaims
<1>4. CASE e.kind = "Archived"
    BY <1>1, <1>4 DEF projectOther, TablesSound, TablesType, RowType, KeepsClaims
<1>5. CASE e.kind = "RoundClosed"
    BY <1>1, <1>5 DEF projectOther, TablesSound, TablesType, RowType, KeepsClaims
<1>6. CASE e.kind \in {"Opened", "Commitment", "Locked", "Revealed"}
  <2>1. CASE e.kind = "Opened"
      BY <1>1, <2>1 DEF projectOther, projectRandomness, TablesSound, TablesType, RowType, KeepsClaims
  <2>2. CASE e.kind = "Commitment"
      BY <1>1, <2>2 DEF projectOther, projectRandomness, TablesSound, TablesType, RowType, KeepsClaims
  <2>3. CASE e.kind = "Locked"
      BY <1>1, <2>3 DEF projectOther, projectRandomness, TablesSound, TablesType, RowType, KeepsClaims
  <2>4. CASE e.kind = "Revealed"
      BY <1>1, <2>4 DEF projectOther, projectRandomness, TablesSound, TablesType, RowType, KeepsClaims
  <2>5. QED
      BY <1>6, <2>1, <2>2, <2>3, <2>4
<1>7. QED
    BY <1>1, <1>2, <1>3, <1>4, <1>5, <1>6 DEF Kinds

\* A settlement marks a row complete only when its roster lacks nothing.
LEMMA SettlementKeeps ==
    ASSUME ChainSound, NEW d, TablesSound(d), chain.settled
    PROVE  LET x == projectSettlement(d)
           IN TablesSound(x) /\ ReplayedSound(x) /\ x.bets = d.bets
<1>1. d \in TablesType /\ chain \in AccountType
    BY DEF TablesSound, ChainSound
<1>2. Cardinality(chain.deployed) \in Nat
    BY <1>1, CountsAreNumbers DEF AccountType
<1> DEFINE match == roundProjectionMatchesChain(chain, fetchProjectionDigest(d))
           x == projectSettlement(d)
<1>3. match \in BOOLEAN
    BY DEF roundProjectionMatchesChain
<1>4. match => d.bets = Bets(chain.deployed)
    BY <1>1, MatchMeansFull DEF AccountType, TablesSound
<1>5. x = [d EXCEPT !.row.resolved = TRUE, !.row.settlement = TRUE,
                    !.row.total = Cardinality(chain.deployed), !.row.complete = match]
    BY DEF projectSettlement
<1> HIDE DEF x, match
<1>6. x \in TablesType /\ x.bets = d.bets /\ x.settlements = d.settlements
    BY <1>1, <1>2, <1>3, <1>5 DEF TablesType, RowType
<1>7. x.row.complete = match /\ x.row.verified = d.row.verified /\ x.row.hash = d.row.hash
    BY <1>1, <1>5 DEF TablesType, RowType
<1>8. TablesSound(x) /\ ReplayedSound(x)
    BY <1>4, <1>6, <1>7 DEF TablesSound, ReplayedSound
<1>9. QED
    BY <1>6, <1>8 DEF x

LEMMA DeploymentKeeps ==
    ASSUME ChainSound, NEW d, TablesSound(d), NEW e, Truthful(chain, e), e.kind = "Deployment"
    PROVE  LET x == projectDeployment(d, e) IN
           /\ TablesSound(x)
           /\ x.row.complete = d.row.complete /\ x.row.resolved = d.row.resolved
           /\ d.bets \subseteq x.bets /\ x.bets \subseteq Bets(chain.deployed)
<1>1. d \in TablesType /\ e.who \in chain.deployed /\ chain.deployed \subseteq Receipts
    BY DEF TablesSound, Truthful, ChainSound, AccountType
<1>2. BetRows(e.who) \subseteq Bets(chain.deployed)
    BY <1>1, RoundIndexAssumption DEF BetRows, Bets
<1>3. Bets(chain.deployed) \subseteq Receipts \X Tiles
    BY DEF Bets
<1>4. QED
    BY <1>1, <1>2, <1>3 DEF projectDeployment, TablesSound, TablesType, RowType

LEMMA InvalidationKeeps ==
    ASSUME NEW d, TablesSound(d)
    PROVE  TablesSound(invalidateCompleteness(d)) /\ ~invalidateCompleteness(d).row.complete
BY DEF invalidateCompleteness, TablesSound, TablesType, RowType

LEMMA ReceiptKeeps ==
    ASSUME ChainSound, NEW d, TablesSound(d), NEW r \in chain.deployed, NEW slot \in Nat,
           NEW status \in Statuses, status = "accrued" => chain.settled,
           status = "refunded" => chain.expired
    PROVE  LET x == UpsertSettlement(d, r, status, slot)
           IN TablesSound(x) /\ x.row = d.row /\ x.bets = d.bets
<1>1. d \in TablesType /\ r \in Receipts
    BY DEF TablesSound, ChainSound, AccountType
<1>2. Cardinality(Layout[r]) \in Nat
    BY <1>1, FS_Subset, FS_CardinalityType, RoundIndexAssumption
<1> DEFINE s == [receipt |-> r, status |-> status, slot |-> slot,
                 lamports |-> Cardinality(Layout[r])]
           rows == {u \in d.settlements : ~(u.receipt = r /\ u.status = status)} \cup {s}
<1>3. s \in SettlementType
    BY <1>1, <1>2 DEF SettlementType
<1>4. rows \subseteq SettlementType
    BY <1>1, <1>3 DEF TablesType
<1>5. UpsertSettlement(d, r, status, slot) = [d EXCEPT !.settlements = rows]
    BY <1>1 DEF UpsertSettlement, TablesType
<1>6. \A u \in rows : u \in d.settlements \/ u = s
    OBVIOUS
<1> HIDE DEF rows
<1>7. QED
    BY <1>1, <1>4, <1>5, <1>6 DEF TablesSound, TablesType

\* What a receipt event writes first, and the count it writes then.
LEMMA ReceiptEventKeeps ==
    ASSUME ChainSound, NEW d, TablesSound(d), NEW e, Truthful(chain, e), NEW slot \in Nat,
           e.kind \in {"Accrued", "Refunded", "Closed"}
    PROVE  LET x == projectReceipt(d, e, slot)
           IN TablesSound(x) /\ x.row = d.row /\ x.bets = d.bets
<1>1. /\ e.who \in chain.deployed /\ Status(e.kind) \in Statuses
      /\ Status(e.kind) = "accrued" => chain.settled
      /\ Status(e.kind) = "refunded" => chain.expired
    BY DEF Truthful, Status, Statuses
<1>2. QED
    BY <1>1, ReceiptKeeps DEF projectReceipt

LEMMA CountKeeps ==
    ASSUME NEW d, TablesSound(d), NEW e
    PROVE  TablesSound(countReceipts(d, e)) /\ KeepsClaims(d, countReceipts(d, e))
<1>1. d \in TablesType
    BY DEF TablesSound
<1>2. fetchProjectionDigest(d).processed \in Nat /\ fetchProjectionDigest(d).closed \in Nat
    BY <1>1, CountsAreNumbers
<1>3. QED
    BY <1>1, <1>2 DEF countReceipts, TablesSound, TablesType, RowType, KeepsClaims

\* An event replayed keeps the tables sound, and a complete roster whole.
LEMMA EventKeeps ==
    ASSUME ChainSound, NEW d, TablesSound(d), ReplayedSound(d), NEW e, Truthful(chain, e), NEW slot \in Nat
    PROVE  TablesSound(processEvent(d, e, slot)) /\ ReplayedSound(processEvent(d, e, slot))
<1>1. CASE e.kind = "Deployment"
  <2>1. processEvent(d, e, slot) = projectDeployment(d, e)
      BY <1>1 DEF processEvent, ReceiptKinds, Processing
  <2> DEFINE x == projectDeployment(d, e)
  <2>2. /\ TablesSound(x) /\ x.row.complete = d.row.complete
        /\ d.bets \subseteq x.bets /\ x.bets \subseteq Bets(chain.deployed)
      BY <1>1, DeploymentKeeps
  <2> HIDE DEF x
  <2>3. ReplayedSound(x)
      BY <2>2 DEF ReplayedSound
  <2>4. QED
      BY <2>1, <2>2, <2>3 DEF x
<1>2. CASE e.kind \in {"Accrued", "Refunded", "Closed"}
  <2> DEFINE x == projectReceipt(d, e, slot)
  <2>1. processEvent(d, e, slot) = countReceipts(x, e)
      BY <1>2 DEF processEvent, ReceiptKinds, Processing
  <2>2. TablesSound(x) /\ x.row = d.row /\ x.bets = d.bets
      BY <1>2, ReceiptEventKeeps
  <2> HIDE DEF x
  <2>3. TablesSound(countReceipts(x, e)) /\ KeepsClaims(x, countReceipts(x, e))
      BY <2>2, CountKeeps
  <2>4. QED
      BY <2>1, <2>2, <2>3 DEF ReplayedSound, KeepsClaims
<1>3. CASE e.kind = "Settled"
  <2>1. processEvent(d, e, slot) = projectSettlement(d) /\ chain.settled
      BY <1>3 DEF processEvent, ReceiptKinds, Processing, projectOther, Truthful
  <2>2. QED
      BY <2>1, SettlementKeeps
<1>4. CASE e.kind \notin {"Deployment", "Accrued", "Refunded", "Closed", "Settled"}
  <2>1. processEvent(d, e, slot) = projectOther(d, e)
      BY <1>4 DEF processEvent, ReceiptKinds, Processing
  <2>2. QED
      BY <2>1, <1>4, OtherKeeps DEF ReplayedSound, KeepsClaims
<1>5. QED
    BY <1>1, <1>2, <1>3, <1>4

\* The claims a write of the forward pass may add: completeness only with a
\* whole roster, a result only with the completeness that goes with it.
Advances(d, x) ==
    /\ x.bets = d.bets
    /\ \/ x.row.complete => d.row.complete /\ x.row.resolved = d.row.resolved
       \/ ReplayedSound(x)

LEMMA FirstWriteKeeps ==
    ASSUME ChainSound, NEW d, TablesSound(d), NEW e, Truthful(chain, e), NEW slot \in Nat
    PROVE  LET x == firstWrite(d, e, slot) IN
           /\ TablesSound(x) /\ Advances(d, x)
           /\ e.kind = "Deployment" => ~x.row.complete
<1>1. CASE e.kind = "Deployment"
  <2>1. firstWrite(d, e, slot) = invalidateCompleteness(d) /\ d \in TablesType
      BY <1>1 DEF firstWrite, TablesSound, ReceiptKinds, Processing
  <2>2. invalidateCompleteness(d).bets = d.bets
      BY <2>1 DEF invalidateCompleteness, TablesType
  <2>3. QED
      BY <2>1, <2>2, InvalidationKeeps DEF Advances
<1>2. CASE e.kind \in {"Accrued", "Refunded", "Closed"}
  <2>1. firstWrite(d, e, slot) = projectReceipt(d, e, slot)
      BY <1>2 DEF firstWrite, ReceiptKinds, Processing
  <2>2. QED
      BY <2>1, <1>2, ReceiptEventKeeps DEF Advances
<1>3. CASE e.kind = "Settled"
  <2>1. firstWrite(d, e, slot) = projectSettlement(d) /\ chain.settled
      BY <1>3 DEF firstWrite, ReceiptKinds, Processing, projectOther, Truthful
  <2>2. QED
      BY <2>1, <1>3, SettlementKeeps DEF Advances
<1>4. CASE e.kind \notin {"Deployment", "Accrued", "Refunded", "Closed", "Settled"}
  <2>1. firstWrite(d, e, slot) = projectOther(d, e)
      BY <1>4 DEF firstWrite, ReceiptKinds, Processing
  <2>2. QED
      BY <2>1, <1>4, OtherKeeps DEF KeepsClaims, Advances
<1>5. QED
    BY <1>1, <1>2, <1>3, <1>4

LEMMA SecondWriteKeeps ==
    ASSUME ChainSound, NEW d, TablesSound(d), NEW e, Truthful(chain, e),
           e.kind = "Deployment" => ~d.row.complete
    PROVE  LET x == secondWrite(d, e) IN
           /\ TablesSound(x)
           /\ Advances(d, x) \/ ~x.row.complete
<1>1. CASE e.kind = "Deployment"
  <2>1. secondWrite(d, e) = projectDeployment(d, e)
      BY <1>1 DEF secondWrite
  <2>2. QED
      BY <2>1, <1>1, DeploymentKeeps
<1>2. CASE e.kind # "Deployment"
  <2>1. secondWrite(d, e) = countReceipts(d, e)
      BY <1>2 DEF secondWrite
  <2>2. QED
      BY <2>1, CountKeeps DEF KeepsClaims, Advances
<1>3. QED
    BY <1>1, <1>2

\* An earlier release keeps the tables sound, whatever it gets wrong.
LEMMA LegacyEventKeeps ==
    ASSUME ChainSound, NEW d, TablesSound(d), ~d.row.complete, NEW e, Truthful(chain, e),
           NEW slot \in Nat, NEW harm \in BOOLEAN
    PROVE  LET x == LegacyEvent(d, e, slot, harm)
           IN TablesSound(x) /\ ~x.row.complete
<1>1. d \in TablesType
    BY DEF TablesSound
<1>2. CASE e.kind = "Deployment"
  <2> DEFINE new == IF harm THEN {CHOOSE b \in BetRows(e.who) : TRUE} ELSE BetRows(e.who)
  <2>1. e.who \in chain.deployed /\ chain.deployed \subseteq Receipts
      BY <1>2 DEF Truthful, ChainSound, AccountType
  <2>2. BetRows(e.who) \subseteq Bets(chain.deployed) /\ BetRows(e.who) # {}
    <3>1. Layout[e.who] \subseteq Tiles /\ Layout[e.who] # {}
        BY <2>1, RoundIndexAssumption
    <3>2. PICK t \in Layout[e.who] : <<e.who, t>> \in BetRows(e.who)
        BY <3>1 DEF BetRows
    <3>3. BetRows(e.who) \subseteq Bets(chain.deployed)
        BY <2>1, <3>1 DEF BetRows, Bets
    <3>4. QED
        BY <3>2, <3>3
  <2>3. (CHOOSE b \in BetRows(e.who) : TRUE) \in BetRows(e.who)
      BY <2>2
  <2>4. new \subseteq Bets(chain.deployed)
      BY <2>2, <2>3
  <2>5. LegacyEvent(d, e, slot, harm) = [d EXCEPT !.bets = @ \cup new]
      BY <1>2 DEF LegacyEvent, Processing
  <2>6. Bets(chain.deployed) \subseteq Receipts \X Tiles
      BY DEF Bets
  <2> HIDE DEF new
  <2>7. QED
      BY <1>1, <2>4, <2>5, <2>6 DEF TablesSound, TablesType
<1>3. CASE e.kind \in Processing
  <2> DEFINE status == IF harm THEN "closed" ELSE Status(e.kind)
  <2>1. /\ e.who \in chain.deployed /\ status \in Statuses
        /\ status = "accrued" => chain.settled
        /\ status = "refunded" => chain.expired
      BY <1>3 DEF Processing, Truthful, Status, Statuses
  <2>2. LegacyEvent(d, e, slot, harm) = UpsertSettlement(d, e.who, status, slot)
      BY <1>3 DEF LegacyEvent, Processing
  <2> HIDE DEF status
  <2>3. QED
      BY <2>1, <2>2, ReceiptKeeps
<1>4. CASE e.kind = "Settled"
  <2>1. chain.settled
      BY <1>4 DEF Truthful
  <2>2. QED
      BY <2>1, <1>1, <1>4 DEF LegacyEvent, Processing, TablesSound, TablesType, RowType
<1>5. CASE e.kind \in {"Opened", "Fees", "Buyback"}
    BY <1>1, <1>5 DEF LegacyEvent, Processing, TablesSound, TablesType, RowType
<1>6. CASE e.kind \notin {"Deployment", "Accrued", "Refunded", "Settled", "Opened", "Fees", "Buyback"}
    BY <1>6 DEF LegacyEvent, Processing
<1>7. QED
    BY <1>2, <1>3, <1>4, <1>5, <1>6 DEF Processing

-----------------------------------------------------------------------------
(* A whole transaction.                                                    *)

\* The first k events of a transaction, replayed, keep the tables sound.
LEMMA TransactionKeeps ==
    ASSUME ChainSound, LogSound, TablesSound(db), ReplayedSound(db), NEW i \in DOMAIN log
    PROVE  /\ Len(log[i]) \in Nat
           /\ \A k \in 0..Len(log[i]) :
                 TablesSound(AfterEvents(db, i)[k]) /\ ReplayedSound(AfterEvents(db, i)[k])
<1> DEFINE N == Len(log[i])
           Good == {d \in TablesType : TablesSound(d) /\ ReplayedSound(d)}
           step == [x \in Good \X (1..N) |-> replayEvent(x[1], log[i][x[2]], i)]
           Solution(f) == f = [k \in 0..N |-> IF k = 0 THEN db
                                              ELSE replayEvent(f[k - 1], log[i][k], i)]
           after == CHOOSE f : Solution(f)
<1>1. /\ log[i] \in Seq(EventType) /\ i \in Nat
      /\ \A k \in 1..Len(log[i]) : Truthful(chain, log[i][k])
    BY DEF LogSound
<1>2. N \in Nat
    BY <1>1
<1>3. db \in Good
    BY DEF TablesSound
<1>4. \A d \in Good, k \in 1..N : replayEvent(d, log[i][k], i) \in Good
  <2> TAKE d \in Good, k \in 1..N
  <2>1. Truthful(chain, log[i][k]) /\ TablesSound(d) /\ ReplayedSound(d)
      BY <1>1
  <2>2. /\ TablesSound(processEvent(d, log[i][k], i))
        /\ ReplayedSound(processEvent(d, log[i][k], i))
      BY <1>1, <2>1, EventKeeps
  <2>3. processEvent(d, log[i][k], i) \in TablesType
      BY <2>2 DEF TablesSound
  <2>4. QED
      BY <2>2, <2>3 DEF replayEvent
<1>5. step \in [Good \X (1..N) -> Good]
  <2> HIDE DEF Good, N
  <2> QED BY <1>4
<1>6. \E f : Solution(f)
  <2>1. PICK f \in [0..N -> Good] : Recurs(f, db, step, N)
    <3> HIDE DEF Good, step, N
    <3>1. QED
        BY <1>2, <1>3, <1>5, RecursionExists
  <2>2. \A k \in 0..N : f[k] = IF k = 0 THEN db ELSE replayEvent(f[k - 1], log[i][k], i)
    <3> TAKE k \in 0..N
    <3>1. CASE k = 0
        BY <2>1, <3>1 DEF Recurs
    <3>2. CASE k # 0
      <4>1. k \in 1..N /\ k - 1 \in 0..N
          BY <1>2, <3>2
      <4>2. f[k - 1] \in Good
          BY <4>1
      <4>3. step[<<f[k - 1], k>>] = replayEvent(f[k - 1], log[i][k], i)
        <5> HIDE DEF Good
        <5> QED BY <4>1, <4>2
      <4>4. f[k] = step[<<f[k - 1], k>>]
        <5> HIDE DEF step
        <5> QED BY <2>1, <3>2 DEF Recurs
      <4>5. QED
          BY <3>2, <4>3, <4>4
    <3>3. QED
        BY <3>1, <3>2
  <2>3. f = [k \in 0..N |-> f[k]]
      OBVIOUS
  <2>4. Solution(f)
      BY <2>2, <2>3
  <2>5. QED
      BY <2>4
<1>7. Solution(after)
  <2> HIDE DEF Solution
  <2> QED BY <1>6
<1>8. \A k \in 0..N : after[k] \in Good
  <2>1. after[0] = db /\ \A k \in 1..N : after[k] = replayEvent(after[k - 1], log[i][k], i)
    <3> HIDE DEF after
    <3> QED BY <1>2, <1>7
  <2> HIDE DEF after, Good, N
  <2>2. \A k \in 1..N : after[k - 1] \in Good => after[k] \in Good
      BY <1>4, <2>1
  <2>3. QED
      BY <1>2, <1>3, <2>1, <2>2, StaysWithin
<1>9. AfterEvents(db, i) = after
    BY DEF AfterEvents
<1>10. QED
  <2> HIDE DEF after
  <2> QED BY <1>2, <1>8, <1>9

\* So do those an earlier release projects, and no row of its is complete.
LEMMA LegacyTransactionKeeps ==
    ASSUME ChainSound, LogSound, TablesSound(db), ~db.row.complete, NEW i \in DOMAIN log,
           NEW harm \in BOOLEAN
    PROVE  /\ Len(log[i]) \in Nat
           /\ \A k \in 0..Len(log[i]) :
                 LET d == AfterLegacyEvents(db, i, harm)[k] IN TablesSound(d) /\ ~d.row.complete
<1> DEFINE N == Len(log[i])
           Good == {d \in TablesType : TablesSound(d) /\ ~d.row.complete}
           step == [x \in Good \X (1..N) |-> LegacyEvent(x[1], log[i][x[2]], i, harm)]
           Solution(f) == f = [k \in 0..N |-> IF k = 0 THEN db
                                              ELSE LegacyEvent(f[k - 1], log[i][k], i, harm)]
           after == CHOOSE f : Solution(f)
<1>1. /\ log[i] \in Seq(EventType) /\ i \in Nat
      /\ \A k \in 1..Len(log[i]) : Truthful(chain, log[i][k])
    BY DEF LogSound
<1>2. N \in Nat
    BY <1>1
<1>3. db \in Good
    BY DEF TablesSound
<1>4. \A d \in Good, k \in 1..N : LegacyEvent(d, log[i][k], i, harm) \in Good
  <2> TAKE d \in Good, k \in 1..N
  <2>1. Truthful(chain, log[i][k]) /\ TablesSound(d) /\ ~d.row.complete
      BY <1>1
  <2>2. /\ TablesSound(LegacyEvent(d, log[i][k], i, harm))
        /\ ~LegacyEvent(d, log[i][k], i, harm).row.complete
      BY <1>1, <2>1, LegacyEventKeeps
  <2>3. QED
      BY <2>2 DEF TablesSound
<1>5. step \in [Good \X (1..N) -> Good]
  <2> HIDE DEF Good, N
  <2> QED BY <1>4
<1>6. \E f : Solution(f)
  <2>1. PICK f \in [0..N -> Good] : Recurs(f, db, step, N)
    <3> HIDE DEF Good, step, N
    <3>1. QED
        BY <1>2, <1>3, <1>5, RecursionExists
  <2>2. \A k \in 0..N : f[k] = IF k = 0 THEN db ELSE LegacyEvent(f[k - 1], log[i][k], i, harm)
    <3> TAKE k \in 0..N
    <3>1. CASE k = 0
        BY <2>1, <3>1 DEF Recurs
    <3>2. CASE k # 0
      <4>1. k \in 1..N /\ k - 1 \in 0..N
          BY <1>2, <3>2
      <4>2. f[k - 1] \in Good
          BY <4>1
      <4>3. step[<<f[k - 1], k>>] = LegacyEvent(f[k - 1], log[i][k], i, harm)
        <5> HIDE DEF Good
        <5> QED BY <4>1, <4>2
      <4>4. f[k] = step[<<f[k - 1], k>>]
        <5> HIDE DEF step
        <5> QED BY <2>1, <3>2 DEF Recurs
      <4>5. QED
          BY <3>2, <4>3, <4>4
    <3>3. QED
        BY <3>1, <3>2
  <2>3. f = [k \in 0..N |-> f[k]]
      OBVIOUS
  <2>4. Solution(f)
      BY <2>2, <2>3
  <2>5. QED
      BY <2>4
<1>7. Solution(after)
  <2> HIDE DEF Solution
  <2> QED BY <1>6
<1>8. \A k \in 0..N : after[k] \in Good
  <2>1. after[0] = db /\ \A k \in 1..N : after[k] = LegacyEvent(after[k - 1], log[i][k], i, harm)
    <3> HIDE DEF after
    <3> QED BY <1>2, <1>7
  <2> HIDE DEF after, Good, N
  <2>2. \A k \in 1..N : after[k - 1] \in Good => after[k] \in Good
      BY <1>4, <2>1
  <2>3. QED
      BY <1>2, <1>3, <2>1, <2>2, StaysWithin
<1>9. AfterLegacyEvents(db, i, harm) = after
    BY DEF AfterLegacyEvents
<1>10. QED
  <2> HIDE DEF after
  <2> QED BY <1>2, <1>8, <1>9

-----------------------------------------------------------------------------
(* Steps of the chain.                                                     *)

\* What a step of the chain may do to the account of the round.
AccountMoves ==
    /\ chain' \in AccountType
    /\ chain'.closed \subseteq chain'.processed /\ chain'.processed \subseteq chain'.deployed
    /\ chain'.settled => chain'.locked /\ ~chain'.expired
    /\ chain'.processed # {} \/ ~chain'.live => Decided(chain')
    /\ chain.deployed \subseteq chain'.deployed /\ chain.processed \subseteq chain'.processed
    /\ chain.settled => chain'.settled
    /\ chain.expired => chain'.expired
    /\ Decided(chain) => chain'.deployed = chain.deployed /\ chain'.settled = chain.settled
    /\ \/ chain'.archived = chain.archived
       \/ ~db.row.verified /\ Decided(chain) /\ ProcessedAll(chain) /\ Exact(chain, chain'.archived)

\* What it may write to the log: the truth, and every new wager.
LogMoves ==
    \/ log' = log /\ chain'.deployed = chain.deployed
    \/ \E tx \in Seq(EventType) :
          /\ log' = Append(log, tx)
          /\ \A k \in DOMAIN tx : Truthful(chain', tx[k])
          /\ \A r \in chain'.deployed \ chain.deployed :
                \E k \in DOMAIN tx : tx[k].kind = "Deployment" /\ tx[k].who = r

\* The log only grows: a prefix of it is as it was.
LEMMA LogPrefix ==
    ASSUME LogSound, LogMoves
    PROVE  /\ Len(log) \in Nat /\ Len(log') \in Nat /\ Len(log) <= Len(log')
           /\ DOMAIN log = 1..Len(log) /\ DOMAIN log' = 1..Len(log')
           /\ \A i \in 1..Len(log) : log'[i] = log[i]
           /\ \A n \in 0..Len(log) : RosterAfter(n)' = RosterAfter(n)
<1>1. log \in Seq(Seq(EventType))
    BY DEF LogSound
<1>2. /\ Len(log) \in Nat /\ Len(log') \in Nat /\ Len(log) <= Len(log')
      /\ DOMAIN log = 1..Len(log) /\ DOMAIN log' = 1..Len(log')
      /\ \A i \in 1..Len(log) : log'[i] = log[i]
  <2>1. CASE log' = log
      BY <1>1, <2>1
  <2>2. CASE log' # log
    <3>1. PICK tx \in Seq(EventType) : log' = Append(log, tx)
        BY <2>2 DEF LogMoves
    <3>2. QED
        BY <1>1, <3>1
  <2>3. QED
      BY <2>1, <2>2
<1>3. ASSUME NEW n \in 0..Len(log)
      PROVE  RosterAfter(n)' = RosterAfter(n)
  <2>1. \A i \in 1..n : log'[i] = log[i]
      BY <1>2
  <2>2. {ToSet(log'[i]) : i \in 1..n} = {ToSet(log[i]) : i \in 1..n}
      BY <2>1
  <2>3. QED
      BY <2>2 DEF RosterAfter
<1>4. QED
    BY <1>2, <1>3

LEMMA LogKeeps ==
    ASSUME LogSound, AccountMoves, LogMoves
    PROVE  LogSound'
<1>1. \A e : Truthful(chain, e) => Truthful(chain', e)
    BY DEF Truthful, AccountMoves
<1>2. CASE log' = log /\ chain'.deployed = chain.deployed
    BY <1>1, <1>2 DEF LogSound
<1>3. CASE ~(log' = log /\ chain'.deployed = chain.deployed)
  <2>1. PICK tx \in Seq(EventType) :
          /\ log' = Append(log, tx)
          /\ \A k \in DOMAIN tx : Truthful(chain', tx[k])
          /\ \A r \in chain'.deployed \ chain.deployed :
                \E k \in DOMAIN tx : tx[k].kind = "Deployment" /\ tx[k].who = r
      BY <1>3 DEF LogMoves
  <2>2. /\ log \in Seq(Seq(EventType)) /\ Len(log) \in Nat
        /\ DOMAIN log = 1..Len(log) /\ DOMAIN log' = 1..(Len(log) + 1)
        /\ log' \in Seq(Seq(EventType)) /\ log'[Len(log) + 1] = tx
        /\ \A i \in 1..Len(log) : log'[i] = log[i]
      BY <2>1 DEF LogSound
  <2>3. \A i \in DOMAIN log' : \A k \in DOMAIN log'[i] : Truthful(chain', log'[i][k])
    <3> TAKE i \in DOMAIN log'
    <3>1. CASE i \in 1..Len(log)
      <4>1. log'[i] = log[i] /\ i \in DOMAIN log
          BY <2>2, <3>1
      <4>2. \A k \in DOMAIN log[i] : Truthful(chain, log[i][k])
          BY <4>1 DEF LogSound
      <4>3. QED
          BY <1>1, <4>1, <4>2
    <3>2. CASE i \notin 1..Len(log)
      <4>1. i = Len(log) + 1
          BY <2>2, <3>2
      <4>2. QED
          BY <2>1, <2>2, <4>1
    <3>3. QED
        BY <3>1, <3>2
  <2>4. \A r \in chain'.deployed : \E i \in DOMAIN log' : \E k \in DOMAIN log'[i] :
          log'[i][k].kind = "Deployment" /\ log'[i][k].who = r
    <3> TAKE r \in chain'.deployed
    <3>1. CASE r \in chain.deployed
      <4>1. PICK i \in DOMAIN log : \E k \in DOMAIN log[i] :
              log[i][k].kind = "Deployment" /\ log[i][k].who = r
          BY <3>1 DEF LogSound
      <4>2. i \in DOMAIN log' /\ log'[i] = log[i]
          BY <2>2, <4>1
      <4>3. QED
          BY <4>1, <4>2
    <3>2. CASE r \notin chain.deployed
      <4>1. Len(log) + 1 \in DOMAIN log'
          BY <2>2
      <4>2. QED
          BY <2>1, <2>2, <3>2, <4>1
    <3>3. QED
        BY <3>1, <3>2
  <2>5. QED
      BY <2>2, <2>3, <2>4 DEF LogSound
<1>4. QED
    BY <1>2, <1>3

\* What was exact when the round was decided stays exact.
LEMMA ExactKeeps ==
    ASSUME Decided(chain), AccountMoves, NEW s, Exact(chain, s)
    PROVE  Exact(chain', s)
BY DEF AccountMoves, Exact, FinalStatus

LEMMA ChainKeeps ==
    ASSUME ChainSound, AccountMoves
    PROVE  ChainSound'
<1>1. ASSUME chain'.archived # NoSnapshot
      PROVE  Exact(chain', chain'.archived) /\ Decided(chain') /\ ProcessedAll(chain')
  <2>1. PICK s : s = chain'.archived
      OBVIOUS
  <2>2. Exact(chain, s) /\ Decided(chain) /\ ProcessedAll(chain)
      BY <1>1, <2>1 DEF ChainSound, AccountMoves
  <2>3. Exact(chain', s)
      BY <2>2, ExactKeeps
  <2>4. QED
      BY <2>1, <2>2, <2>3 DEF AccountMoves, Decided, ProcessedAll
<1>2. QED
    BY <1>1 DEF ChainSound, AccountMoves

\* The account moves, and nobody else: the invariant holds on.
ChainMoves ==
    AccountMoves /\ LogMoves /\ UNCHANGED <<db, proof, cursor, legacy, ix, faults>>

\* What a move of the account leaves true of the tables and of what was read.
LEMMA TablesRemain ==
    ASSUME IInv, AccountMoves, LogMoves, UNCHANGED <<db, proof>>
    PROVE  /\ ChainSound' /\ LogSound'
           /\ TablesSound(db)' /\ RosterSound(db)'
           /\ \A a : WasRead(a) => WasRead(a)'
<1>1. ChainSound' /\ LogSound'
    BY ChainKeeps, LogKeeps DEF IInv
<1>2. /\ Len(log) \in Nat /\ Len(log') \in Nat /\ Len(log) <= Len(log')
      /\ \A i \in 1..Len(log) : log'[i] = log[i]
      /\ \A n \in 0..Len(log) : RosterAfter(n)' = RosterAfter(n)
    BY LogPrefix DEF IInv
<1>3. Bets(chain.deployed) \subseteq Bets(chain'.deployed)
    BY DEF AccountMoves, Bets
<1>4. TablesSound(db)'
    BY <1>3 DEF IInv, TablesSound, AccountMoves
<1>5. 0..Len(log) \subseteq 0..Len(log')
    BY <1>2
<1>6. RosterSound(db)'
  <2> SUFFICES ASSUME db.row.complete
               PROVE  /\ \E n \in 0..Len(log') : db.bets = RosterAfter(n)'
                      /\ db.row.resolved => db.bets = Bets(chain'.deployed)
      BY DEF RosterSound
  <2>1. PICK n \in 0..Len(log) : db.bets = RosterAfter(n)
      BY DEF IInv, RosterSound
  <2>2. db.bets = RosterAfter(n)' /\ n \in 0..Len(log')
      BY <1>2, <1>5, <2>1
  <2>3. ASSUME db.row.resolved PROVE db.bets = Bets(chain'.deployed)
    <3>1. Decided(chain) /\ db.bets = Bets(chain.deployed)
        BY <2>3 DEF IInv, TablesSound, RosterSound, Decided
    <3>2. QED
        BY <3>1 DEF AccountMoves
  <2>4. QED
      BY <2>2, <2>3
<1>7. ASSUME NEW a, WasRead(a)
      PROVE  WasRead(a)'
  <2>1. PICK n \in 0..Len(log) : Bets(a.deployed) = RosterAfter(n)
      BY <1>7 DEF WasRead
  <2>2. Bets(a.deployed) = RosterAfter(n)' /\ n \in 0..Len(log')
      BY <1>2, <1>5, <2>1
  <2>3. ASSUME Decided(a)
        PROVE  a.deployed = chain'.deployed /\ a.settled = chain'.settled
    <3>1. a.deployed = chain.deployed /\ a.settled = chain.settled
        BY <1>7, <2>3 DEF WasRead
    <3>2. Decided(chain)
        BY <1>7, <2>3 DEF WasRead, Decided
    <3>3. QED
        BY <3>1, <3>2 DEF AccountMoves
  <2>4. QED
      BY <1>7, <2>2, <2>3 DEF WasRead, AccountMoves
<1>8. QED
    BY <1>1, <1>4, <1>6, <1>7

LEMMA ChainMovesKeep ==
    ASSUME IInv, ChainMoves
    PROVE  IInv'
<1> USE DEF ChainMoves
<1>1. ChainSound' /\ LogSound' /\ TablesSound(db)' /\ RosterSound(db)'
    BY TablesRemain
<1>2. /\ Len(log) \in Nat /\ Len(log') \in Nat /\ Len(log) <= Len(log')
      /\ \A i \in 1..Len(log) : log'[i] = log[i]
    BY LogPrefix DEF IInv
<1>3. 0..Len(log) \subseteq 0..Len(log')
    BY <1>2
<1>4. WasRead(ix.account)'
  <2>1. PICK a : a = ix.account
      OBVIOUS
  <2>2. WasRead(a)'
      BY <2>1, TablesRemain DEF IInv, IndexerSound
  <2>3. QED
      BY <2>1, <2>2 DEF WasRead
<1>5. ReconcileSound'
    BY DEF IInv, IndexerSound, ReconcileSound
<1>6. ReplaySound'
  <2> SUFFICES ASSUME ix.pc \in {"replay", "repair"}
               PROVE  /\ ReplayedSound(db)'
                      /\ Decided(ix.account)
                      /\ ix.i \in 1..(ix.n + 1) /\ ix.n <= Len(log')
      BY DEF ReplaySound
  <2>1. /\ ReplayedSound(db) /\ RosterSound(db) /\ TablesSound(db)
        /\ Decided(ix.account) /\ WasRead(ix.account)
        /\ ix.i \in 1..(ix.n + 1) /\ ix.n <= Len(log) /\ ix.n \in Nat
      BY DEF IInv, IndexerSound, ReplaySound, IndexerType
  <2>2. ReplayedSound(db)'
      BY <2>1 DEF ReplayedSound, AccountMoves, WasRead, Decided
  <2>3. QED
      BY <1>2, <2>1, <2>2
<1>7. ForwardSound'
  <2> SUFFICES ASSUME ix.pc = "forward"
               PROVE  ForwardSound'
      BY DEF ForwardSound, IInv, IndexerSound
  <2>1. ForwardSound /\ ix.n \in Nat /\ cursor \in 0..Len(log)
      BY DEF IInv, IndexerSound, IndexerType, RestSound
  <2>2. ix.n <= Len(log) /\ ix.n <= Len(log')
      BY <1>2, <2>1 DEF ForwardSound
  <2>3. cursor < ix.n => log'[cursor + 1] = log[cursor + 1]
      BY <1>2, <2>1, <2>2
  <2>4. QED
      BY <2>1, <2>2, <2>3 DEF ForwardSound
<1>8. ArchivingSound'
  <2>1. ArchivingSound
      BY DEF IInv, IndexerSound
  <2>2. ASSUME ix.pc \in {"prove", "attest"}
        PROVE  Decided(chain') /\ ProcessedAll(chain')
      BY <2>1, <2>2 DEF ArchivingSound, AccountMoves, Decided, ProcessedAll
  <2>3. ASSUME ix.pc = "prove"
        PROVE  Exact(chain', buildArchiveSnapshot(db.row, db))
    <3>1. PICK s : s = buildArchiveSnapshot(db.row, db)
        OBVIOUS
    <3>2. Decided(chain) /\ Exact(chain, s)
        BY <2>1, <2>3, <3>1 DEF ArchivingSound
    <3>3. QED
        BY <3>1, <3>2, ExactKeeps
  <2>4. ASSUME ix.pc = "attest"
        PROVE  Exact(chain', proof)
    <3>1. PICK s : s = proof
        OBVIOUS
    <3>2. Decided(chain) /\ Exact(chain, s)
        BY <2>1, <2>4, <3>1 DEF ArchivingSound
    <3>3. QED
        BY <3>1, <3>2, ExactKeeps
  <2>5. buildArchiveSnapshot(db.row, db)' = buildArchiveSnapshot(db.row, db)
      BY DEF buildArchiveSnapshot, Facts, FinalRows
  <2>6. QED
      BY <2>1, <2>2, <2>3, <2>4, <2>5 DEF ArchivingSound
<1>9. ix' \in IndexerType
    BY DEF IInv, IndexerSound
<1>10. RestSound'
    BY <1>2, <1>3 DEF IInv, RestSound, LegacySound
<1>11. QED
    BY <1>1, <1>4, <1>5, <1>6, <1>7, <1>8, <1>9, <1>10 DEF IInv, IndexerSound

\* The events of a batch are one for each of its receipts, in some order.
LEMMA BatchList ==
    ASSUME NEW k \in Kinds, NEW B \in SUBSET Receipts
    PROVE  /\ BatchEvents(k, B) \in Seq(EventType)
           /\ \A j \in DOMAIN BatchEvents(k, B) : \E r \in B : BatchEvents(k, B)[j] = Event(k, r)
<1> DEFINE S == {Event(k, r) : r \in B}
           N == Cardinality(S)
           Listed(f) == f \in [1..N -> S] /\ IsInjective(f)
<1>1. S \subseteq EventType
    BY DEF Event, EventType
<1>2. IsFiniteSet(S)
  <2>1. IsFiniteSet(B)
      BY FS_Subset, RoundIndexAssumption
  <2> DEFINE image == [r \in B |-> Event(k, r)]
  <2>2. image \in Surjection(B, S)
      BY DEF Surjection
  <2>3. QED
    <3> HIDE DEF image, S
    <3> QED BY <2>1, <2>2, FS_Surjection
<1>3. N \in Nat /\ \E f : Listed(f)
  <2>1. N \in Nat /\ ExistsBijection(1..N, S)
    <3> HIDE DEF S
    <3> QED BY <1>2, FS_CardinalityType
  <2> HIDE DEF S, N
  <2>2. QED
      BY <2>1 DEF ExistsBijection, Bijection, Injection
<1>4. BatchEvents(k, B) = CHOOSE f : Listed(f)
    BY DEF BatchEvents, SetToSeq
<1>5. Listed(BatchEvents(k, B))
  <2> HIDE DEF Listed
  <2> QED BY <1>3, <1>4
<1> DEFINE tx == BatchEvents(k, B)
<1>6. tx \in Seq(S) /\ DOMAIN tx = 1..N /\ \A j \in DOMAIN tx : tx[j] \in S
  <2> HIDE DEF S, N, tx
  <2> QED BY <1>3, <1>5 DEF tx
<1>7. tx \in Seq(EventType)
  <2> HIDE DEF S, tx
  <2> QED BY <1>1, <1>6
<1>8. QED
    BY <1>6, <1>7

LEMMA DiscoveredAreDeployed ==
    ASSUME ChainSound, TablesSound(db)
    PROVE  DiscoveredReceipts \subseteq chain.deployed
<1>1. IndexedReceipts(db) \subseteq chain.deployed
    BY DEF TablesSound, IndexedReceipts, Bets
<1>2. QED
    BY <1>1 DEF DiscoveredReceipts

Unread == <<db, proof, cursor, legacy, ix, faults>>

LEMMA DeployKeeps ==
    ASSUME IInv, NEW r \in Receipts, Deploy(r), UNCHANGED Unread
    PROVE  ChainMoves
<1>1. chain \in AccountType /\ ~chain.settled /\ ~chain.expired /\ ChainSound
    BY DEF IInv, ChainSound, Deploy
<1>2. chain' = [chain EXCEPT !.deployed = chain.deployed \cup {r}]
    BY DEF Deploy
<1>3. AccountMoves
    BY <1>1, <1>2 DEF AccountMoves, AccountType, ChainSound, Decided
<1> DEFINE tx == <<Event("Deployment", r)>>
<1>4. tx \in Seq(EventType) /\ DOMAIN tx = {1} /\ tx[1] = Event("Deployment", r)
    BY DEF Event, EventType, Kinds
<1>5. Truthful(chain', Event("Deployment", r))
    BY <1>1, <1>2 DEF Truthful, Event, EventType, Kinds, AccountType
<1>6. chain'.deployed \ chain.deployed \subseteq {r}
    BY <1>1, <1>2 DEF AccountType
<1>7. LogMoves
  <2>1. log' = Append(log, tx)
      BY DEF Deploy
  <2>2. Event("Deployment", r).kind = "Deployment" /\ Event("Deployment", r).who = r
      BY DEF Event
  <2> HIDE DEF tx
  <2>3. QED
      BY <1>4, <1>5, <1>6, <2>1, <2>2 DEF LogMoves
<1>8. QED
    BY <1>3, <1>7 DEF ChainMoves, Unread

\* A transaction that deploys nothing and says nothing of receipts.
LEMMA PlainMoves ==
    ASSUME NEW tx, tx \in Seq(EventType), log' = Append(log, tx),
           chain'.deployed = chain.deployed, chain'.settled \in BOOLEAN,
           \A k \in DOMAIN tx :
               tx[k].kind \notin {"Deployment", "Accrued", "Refunded", "Closed"},
           (\E k \in DOMAIN tx : tx[k].kind = "Settled") => chain'.settled
    PROVE  LogMoves
<1>1. \A k \in DOMAIN tx : tx[k] \in EventType
    OBVIOUS
<1>2. \A k \in DOMAIN tx : Truthful(chain', tx[k])
    BY <1>1 DEF Truthful
<1>3. QED
    BY <1>2 DEF LogMoves

LEMMA PlainEvents ==
    ASSUME NEW k \in Kinds
    PROVE  /\ <<Plain(k)>> \in Seq(EventType)
           /\ DOMAIN <<Plain(k)>> = {1} /\ <<Plain(k)>>[1].kind = k
BY DEF Plain, Event, EventType

LEMMA LockKeeps ==
    ASSUME IInv, LockEntropy, UNCHANGED Unread
    PROVE  ChainMoves
<1>1. AccountMoves
    BY DEF IInv, ChainSound, AccountMoves, AccountType, Decided, LockEntropy
<1>2. LogMoves
  <2>1. log' = Append(log, <<Plain("Locked")>>) /\ chain'.deployed = chain.deployed
      BY DEF LockEntropy, IInv, ChainSound, AccountType
  <2>2. "Locked" \in Kinds
      BY DEF Kinds
  <2>3. chain'.settled \in BOOLEAN
      BY <1>1 DEF AccountMoves, AccountType
  <2>4. QED
      BY <2>1, <2>2, <2>3, PlainEvents, PlainMoves
<1>3. QED
    BY <1>1, <1>2 DEF ChainMoves, Unread

LEMMA SettleKeeps ==
    ASSUME IInv, Settle, UNCHANGED Unread
    PROVE  ChainMoves
<1>1. AccountMoves /\ chain'.settled = TRUE
    BY DEF IInv, ChainSound, AccountMoves, AccountType, Decided, Settle
<1>2. LogMoves
  <2> DEFINE tx == <<Plain("Revealed"), Plain("Fees"), Plain("Settled")>>
  <2>1. log' = Append(log, tx) /\ chain'.deployed = chain.deployed
      BY DEF Settle, IInv, ChainSound, AccountType
  <2>2. tx \in Seq(EventType) /\ DOMAIN tx = 1..3
      BY DEF Plain, Event, EventType, Kinds
  <2>3. tx[1].kind = "Revealed" /\ tx[2].kind = "Fees" /\ tx[3].kind = "Settled"
      BY DEF Plain, Event
  <2>4. \A k \in 1..3 : k = 1 \/ k = 2 \/ k = 3
      OBVIOUS
  <2> HIDE DEF tx
  <2>5. \A k \in DOMAIN tx : tx[k].kind \notin {"Deployment", "Accrued", "Refunded", "Closed"}
      BY <2>2, <2>3, <2>4
  <2>6. QED
      BY <1>1, <2>1, <2>2, <2>5, PlainMoves
<1>3. QED
    BY <1>1, <1>2 DEF ChainMoves, Unread

LEMMA RefundTimeKeeps ==
    ASSUME IInv, RefundTimePasses, UNCHANGED Unread
    PROVE  ChainMoves
<1>1. AccountMoves /\ chain'.deployed = chain.deployed
    BY DEF IInv, ChainSound, AccountMoves, AccountType, Decided, RefundTimePasses
<1>2. LogMoves
    BY <1>1 DEF LogMoves, RefundTimePasses
<1>3. QED
    BY <1>1, <1>2 DEF ChainMoves, Unread

LEMMA BuybackKeeps ==
    ASSUME IInv, CompleteBuyback, UNCHANGED Unread
    PROVE  ChainMoves
<1>1. AccountMoves /\ chain'.deployed = chain.deployed
    BY DEF IInv, ChainSound, AccountMoves, AccountType, Decided, CompleteBuyback
<1>2. log' = Append(log, <<Plain("Buyback")>>) /\ "Buyback" \in Kinds /\ chain'.settled \in BOOLEAN
    BY <1>1 DEF CompleteBuyback, Kinds, AccountMoves, AccountType
<1>3. LogMoves
    BY <1>1, <1>2, PlainEvents, PlainMoves
<1>4. QED
    BY <1>1, <1>3 DEF ChainMoves, Unread

\* A batch of receipts, named in the events of its transaction.
LEMMA BatchMoves ==
    ASSUME NEW k \in Kinds, NEW B \in SUBSET Receipts, log' = Append(log, BatchEvents(k, B)),
           chain'.deployed = chain.deployed, chain'.settled \in BOOLEAN,
           k # "Deployment", k # "Settled",
           \A r \in B : Truthful(chain', Event(k, r))
    PROVE  LogMoves
<1>1. PICK tx : tx = BatchEvents(k, B)
    OBVIOUS
<1>2. tx \in Seq(EventType) /\ \A j \in DOMAIN tx : \E r \in B : tx[j] = Event(k, r)
    BY <1>1, BatchList
<1>3. \A j \in DOMAIN tx : Truthful(chain', tx[j])
    BY <1>2
<1>4. QED
    BY <1>1, <1>2, <1>3 DEF LogMoves

LEMMA SettleOrRefundKeeps ==
    ASSUME IInv, settleOrRefund
    PROVE  ChainMoves
<1>1. /\ chain \in AccountType /\ DiscoveredReceipts \subseteq chain.deployed
      /\ chain.deployed \subseteq Receipts /\ Decided(chain)
    BY DiscoveredAreDeployed DEF IInv, ChainSound, AccountType, settleOrRefund, Decided
<1> DEFINE kind == IF chain.settled THEN "Accrued" ELSE "Refunded"
<1>2. PICK B \in Batches(DiscoveredReceipts \ chain.processed) :
          /\ chain' = [chain EXCEPT !.processed = @ \cup B]
          /\ log' = Append(log, BatchEvents(kind, B))
    BY DEF settleOrRefund
<1>3. B \subseteq chain.deployed /\ B \in SUBSET Receipts
    BY <1>1 DEF Batches
<1>4. /\ AccountMoves /\ chain'.deployed = chain.deployed /\ chain'.settled = chain.settled
      /\ chain'.expired = chain.expired
    BY <1>1, <1>2, <1>3 DEF IInv, ChainSound, AccountMoves, AccountType, Decided
<1>5. \A r \in B : Truthful(chain', Event(kind, r))
    BY <1>1, <1>3, <1>4 DEF Truthful, Event, EventType, Kinds, Decided
<1>6. kind \in Kinds /\ kind # "Deployment" /\ kind # "Settled" /\ chain'.settled \in BOOLEAN
    BY <1>1, <1>4 DEF Kinds, AccountType
<1>7. LogMoves
  <2> HIDE DEF kind
  <2>1. QED
      BY <1>2, <1>3, <1>4, <1>5, <1>6, BatchMoves
<1>8. QED
    BY <1>4, <1>7 DEF ChainMoves, settleOrRefund

LEMMA CloseReceiptsKeeps ==
    ASSUME IInv, closeReceipts
    PROVE  ChainMoves
<1>1. /\ chain \in AccountType /\ DiscoveredReceipts \subseteq chain.deployed
      /\ chain.deployed \subseteq Receipts /\ chain.processed = chain.deployed
    BY DiscoveredAreDeployed DEF IInv, ChainSound, AccountType, closeReceipts, ProcessedAll
<1>2. PICK B \in Batches(DiscoveredReceipts \ chain.closed) :
          /\ chain' = [chain EXCEPT !.closed = @ \cup B]
          /\ log' = Append(log, BatchEvents("Closed", B))
    BY DEF closeReceipts
<1>3. B \subseteq chain.deployed /\ B \in SUBSET Receipts
    BY <1>1 DEF Batches
<1>4. AccountMoves /\ chain'.deployed = chain.deployed /\ chain'.settled = chain.settled
    BY <1>1, <1>2, <1>3 DEF IInv, ChainSound, AccountMoves, AccountType, Decided
<1>5. \A r \in B : Truthful(chain', Event("Closed", r))
    BY <1>1, <1>3, <1>4 DEF Truthful, Event, EventType, Kinds
<1>6. "Closed" \in Kinds /\ chain'.settled \in BOOLEAN
    BY <1>1, <1>4 DEF Kinds, AccountType
<1>7. LogMoves
    BY <1>2, <1>3, <1>4, <1>5, <1>6, BatchMoves
<1>8. QED
    BY <1>4, <1>7 DEF ChainMoves, closeReceipts

LEMMA CloseRoundKeeps ==
    ASSUME IInv, closeRound
    PROVE  ChainMoves
<1>1. AccountMoves /\ chain'.deployed = chain.deployed
    BY DEF IInv, ChainSound, AccountMoves, AccountType, Decided, closeRound
<1>2. log' = Append(log, <<Plain("RoundClosed")>>) /\ "RoundClosed" \in Kinds /\ chain'.settled \in BOOLEAN
    BY <1>1 DEF closeRound, Kinds, AccountMoves, AccountType
<1>3. LogMoves
    BY <1>1, <1>2, PlainEvents, PlainMoves
<1>4. QED
    BY <1>1, <1>3 DEF ChainMoves, closeRound

-----------------------------------------------------------------------------
(* Steps of the indexer.                                                   *)

\* What any step that leaves the chain alone keeps of the chain.
Apart == chain' = chain /\ log' = log

LEMMA ApartKeeps ==
    ASSUME IInv, Apart
    PROVE  /\ ChainSound' /\ LogSound'
           /\ \A a : WasRead(a) => WasRead(a)'
           /\ \A n : RosterAfter(n)' = RosterAfter(n)
BY DEF IInv, Apart, ChainSound, LogSound, WasRead, RosterAfter, ProcessedAll

LEMMA EmptyRowType == EmptyRow \in RowType
BY DEF EmptyRow, RowType, ProofType

\* The indexer forgets everything and goes on at one of its starting points.
Restarts == Throw \/ \E pc \in {"idle", "index", "archive"} : Goto(pc)

\* An indexer with nothing in memory.
LEMMA IdleKeeps ==
    ASSUME LogSound', ChainSound', NEW pc \in {"idle", "index", "archive"},
           ix' = [pc |-> pc, account |-> EmptyAccount, row |-> EmptyRow,
                  i |-> 0, j |-> 0, n |-> 0, whole |-> TRUE]
    PROVE  IndexerSound'
<1>1. EmptyAccount \in AccountType /\ WasRead(EmptyAccount)'
  <2>1. EmptyAccount \in AccountType
      BY DEF EmptyAccount, AccountType, ProofType
  <2>2. RosterAfter(0)' = {} /\ Bets({}) = {}
      BY DEF RosterAfter, Bets
  <2>3. 0 \in 0..Len(log')
      BY DEF LogSound
  <2>4. QED
      BY <2>1, <2>2, <2>3 DEF WasRead, EmptyAccount, Decided
<1>2. ix' \in IndexerType
    BY <1>1, EmptyRowType DEF IndexerType, Pcs
<1>3. ix'.account = EmptyAccount /\ ix'.pc = pc /\ ix'.j = 0
    OBVIOUS
<1>4. ReconcileSound' /\ ReplaySound' /\ ForwardSound' /\ ArchivingSound'
    BY <1>3 DEF ReconcileSound, ReplaySound, ForwardSound, ArchivingSound
<1>5. WasRead(ix.account)'
    BY <1>1, <1>3 DEF WasRead
<1>6. QED
    BY <1>2, <1>4, <1>5 DEF IndexerSound

LEMMA RestartKeeps ==
    ASSUME LogSound', ChainSound', Restarts
    PROVE  IndexerSound'
<1>1. CASE Throw
    BY <1>1, IdleKeeps DEF Throw, Idle
<1>2. CASE \E pc \in {"idle", "index", "archive"} : Goto(pc)
  <2>1. PICK pc \in {"idle", "index", "archive"} : Goto(pc)
      BY <1>2
  <2>2. QED
      BY <2>1, IdleKeeps DEF Goto, Idle
<1>3. QED
    BY <1>1, <1>2 DEF Restarts

\* What a step of the indexer leaves alone.
IndexerMoves == Apart /\ UNCHANGED <<proof, cursor, legacy, faults>> /\ ~legacy

LEMMA IndexerMovesKeep ==
    ASSUME IInv, IndexerMoves, TablesSound(db'), RosterSound(db'), IndexerSound'
    PROVE  IInv'
<1>1. ChainSound' /\ LogSound'
    BY ApartKeeps DEF IndexerMoves
<1>2. TablesSound(db)'
    BY DEF IndexerMoves, Apart, TablesSound
<1>3. RosterSound(db)'
    BY DEF IndexerMoves, Apart, RosterSound, RosterAfter
<1>4. RestSound'
    BY DEF IInv, IndexerMoves, Apart, RestSound, LegacySound
<1>5. QED
    BY <1>1, <1>2, <1>3, <1>4 DEF IInv

LEMMA NotLegacy ==
    ASSUME IInv, ix.pc # "idle"
    PROVE  ~legacy
BY DEF IInv, RestSound, LegacySound

LEMMA TickKeeps ==
    ASSUME IInv, indexerTick
    PROVE  IInv'
<1>1. ix' = [pc |-> "reconcile", account |-> chain, row |-> db.row,
             i |-> 0, j |-> 0, n |-> 0, whole |-> TRUE]
    BY DEF indexerTick, readBatch, Idle
<1>2. IndexerMoves /\ db' = db /\ db \in TablesType /\ chain \in AccountType
    BY DEF indexerTick, IndexerMoves, Apart, IInv, TablesSound, ChainSound
<1>3. ix' \in IndexerType
    BY <1>1, <1>2 DEF IndexerType, Pcs, TablesType
<1>4. WasRead(chain)
  <2>1. Len(log) \in 0..Len(log) /\ RosterAfter(Len(log)) = Bets(chain.deployed)
      BY <1>2, RosterOfDeployed DEF IInv, LogSound, AccountType
  <2>2. QED
      BY <2>1, <1>2 DEF IInv, ChainSound, WasRead
<1>5. WasRead(ix.account)'
    BY <1>1, <1>2, <1>4 DEF IndexerMoves, Apart, WasRead, RosterAfter
<1>6. ReconcileSound' /\ ReplaySound' /\ ForwardSound' /\ ArchivingSound'
  <2>1. ix'.pc = "reconcile" /\ ix'.row = db'.row /\ ix'.account = chain
      BY <1>1, <1>2
  <2>2. QED
      BY <2>1, <1>2 DEF IInv, TablesSound, ReconcileSound, ReplaySound, ForwardSound, ArchivingSound
<1>7. IndexerSound'
    BY <1>3, <1>5, <1>6 DEF IndexerSound
<1>8. QED
    BY <1>2, <1>7, IndexerMovesKeep DEF IInv

ProjectionType ==
    [exists : BOOLEAN, resolved : BOOLEAN, complete : BOOLEAN, total : Nat, processed : Nat,
     closed : Nat, buyback : BOOLEAN]

\* A field is the projection's when it differs from what was read, else the row's.
LEMMA ChangedFields ==
    ASSUME NEW old \in RowType, NEW read \in RowType, NEW p \in ProjectionType
    PROVE  LET x == changedRoundProjection(old, read, p) IN
           /\ x \in RowType
           /\ x.hash = old.hash /\ x.verified = old.verified
           /\ x.complete = IF ~read.exists \/ p.complete # read.complete THEN p.complete ELSE old.complete
           /\ x.resolved = IF ~read.exists \/ p.resolved # read.resolved THEN p.resolved ELSE old.resolved
<1> DEFINE New(f) == f \in DOMAIN p /\ (~read.exists \/ p[f] # read[f])
           x == changedRoundProjection(old, read, p)
           y == [exists |-> IF New("exists") THEN p.exists ELSE old.exists,
                 resolved |-> IF New("resolved") THEN p.resolved ELSE old.resolved,
                 complete |-> IF New("complete") THEN p.complete ELSE old.complete,
                 total |-> IF New("total") THEN p.total ELSE old.total,
                 processed |-> IF New("processed") THEN p.processed ELSE old.processed,
                 closed |-> IF New("closed") THEN p.closed ELSE old.closed,
                 buyback |-> IF New("buyback") THEN p.buyback ELSE old.buyback,
                 commitment |-> old.commitment, lock |-> old.lock, reveal |-> old.reveal,
                 fees |-> old.fees, settlement |-> old.settlement, hash |-> old.hash,
                 verified |-> old.verified, closedSignature |-> old.closedSignature]
<1>1. /\ DOMAIN old = {"exists", "resolved", "complete", "total", "processed", "closed", "buyback",
                       "commitment", "lock", "reveal", "fees", "settlement", "hash", "verified",
                       "closedSignature"}
      /\ DOMAIN p = {"exists", "resolved", "complete", "total", "processed", "closed", "buyback"}
    BY DEF RowType, ProjectionType
<1>2. x = [f \in DOMAIN old |-> IF New(f) THEN p[f] ELSE old[f]]
    BY DEF changedRoundProjection
<1>3. DOMAIN x = DOMAIN old /\ DOMAIN y = DOMAIN old
    BY <1>1, <1>2
<1>4. \A f \in DOMAIN old : x[f] = IF New(f) THEN p[f] ELSE old[f]
    BY <1>2
<1>5. \A f \in DOMAIN old : y[f] = IF New(f) THEN p[f] ELSE old[f]
  <2> HIDE DEF x
  <2> SUFFICES ASSUME NEW f \in DOMAIN old
               PROVE  y[f] = IF New(f) THEN p[f] ELSE old[f]
      OBVIOUS
  <2>1. CASE f \in DOMAIN p
    <3> HIDE DEF New
    <3> QED BY <2>1, <1>1
  <2>2. CASE f \notin DOMAIN p
      BY <2>2, <1>1
  <2>3. QED
      BY <2>1, <2>2
<1>6. y \in RowType
    BY DEF RowType, ProjectionType
<1>7. x = y
  <2>1. x = [f \in DOMAIN old |-> x[f]] /\ y = [f \in DOMAIN old |-> y[f]]
      BY <1>2, <1>3
  <2> HIDE DEF x, y, New
  <2>2. QED
      BY <1>4, <1>5, <2>1
<1>8. /\ y.hash = old.hash /\ y.verified = old.verified
      /\ y.complete = IF ~read.exists \/ p.complete # read.complete THEN p.complete ELSE old.complete
      /\ y.resolved = IF ~read.exists \/ p.resolved # read.resolved THEN p.resolved ELSE old.resolved
    BY <1>1
<1>9. QED
  <2> HIDE DEF x, y
  <2>1. /\ x \in RowType /\ x.hash = old.hash /\ x.verified = old.verified
        /\ x.complete = IF ~read.exists \/ p.complete # read.complete THEN p.complete ELSE old.complete
        /\ x.resolved = IF ~read.exists \/ p.resolved # read.resolved THEN p.resolved ELSE old.resolved
      BY <1>6, <1>7, <1>8
  <2>2. QED
      BY <2>1 DEF x

\* What the account of an undecided round shows, the tables never exceed: it
\* needs no replay.
LEMMA ReplayMeansDecided ==
    ASSUME IInv, ix.pc = "reconcile",
           roundNeedsCanonicalReplay(ix.row, ix.account, fetchProjectionDigest(db))
    PROVE  Decided(ix.account)
<1> DEFINE c == ix.account
           g == fetchProjectionDigest(db)
<1> SUFFICES ASSUME ~Decided(c) PROVE FALSE
    OBVIOUS
<1>1. /\ c \in AccountType /\ ~c.settled /\ c.processed = {} /\ c.closed = {}
      /\ db \in TablesType /\ db.bets \subseteq Bets(c.deployed)
      /\ \A s \in db.settlements : s.receipt \in c.deployed
      /\ ix.row = db.row /\ ~db.row.resolved /\ ix.row.resolved \in BOOLEAN
    BY DEF IInv, IndexerSound, WasRead, ReconcileSound, Decided, TablesSound, TablesType, RowType
<1>2. ix.row.resolved = c.settled
    BY <1>1 DEF AccountType
<1>3. ~ProcessedAll(c)
  <2> SUFFICES ASSUME ProcessedAll(c) PROVE FALSE
      OBVIOUS
  <2>1. c.deployed = {}
      BY <1>1 DEF ProcessedAll
  <2>2. db.bets = {} /\ db.settlements = {}
      BY <1>1, <2>1 DEF Bets
  <2>3. IndexedReceipts(db) = {} /\ FinalRows(db) = {}
      BY <2>2 DEF IndexedReceipts, FinalRows
  <2>4. /\ g.total = Cardinality({}) /\ g.processed = Cardinality({}) /\ g.closed = Cardinality({})
        /\ \A t \in Tiles : g.tiles[t] = Cardinality({})
    <3>1. {s.receipt : s \in FinalRows(db)} = {} /\ {s.receipt : s \in db.settlements \ FinalRows(db)} = {}
        BY <2>2, <2>3
    <3>2. \A t \in Tiles : {b \in db.bets : b[2] = t} = {}
        BY <2>2
    <3>3. QED
        BY <2>3, <3>1, <3>2 DEF fetchProjectionDigest
  <2>5. \A t \in Tiles : TileLamports(c, t) = Cardinality({}) /\ TileReceipts(c, t) = Cardinality({})
    <3>1. \A t \in Tiles : /\ {r \in c.deployed : t \in Layout[r]} = {}
                           /\ {r \in c.deployed \ (IF c.settled THEN {} ELSE c.processed) :
                                 t \in Layout[r]} = {}
        BY <2>1
    <3>2. QED
        BY <3>1 DEF TileLamports, TileReceipts
  <2> HIDE DEF c, g
  <2>6. roundParticipantProjectionMatchesChain(c, g)
      BY <2>1, <2>4, <2>5 DEF roundParticipantProjectionMatchesChain
  <2>7. roundNeedsCanonicalReplay(ix.row, c, g)
      BY DEF c, g
  <2>8. QED
      BY <1>1, <1>2, <2>1, <2>4, <2>6, <2>7 DEF roundNeedsCanonicalReplay
<1>4. roundNeedsCanonicalReplay(ix.row, c, g)
    OBVIOUS
<1> HIDE DEF c, g
<1>5. QED
    BY <1>1, <1>2, <1>3, <1>4 DEF roundNeedsCanonicalReplay

\* The projection of a live account claims what the account shows, and claims
\* a complete roster only when the tables hold it.
LEMMA LiveWriteKeeps ==
    ASSUME IInv, ix.pc \in {"reconcile", "repair"}, WriteLiveProjection
    PROVE  TablesSound(db') /\ RosterSound(db') /\ Restarts
<1> DEFINE c == ix.account
           full == LiveComplete(c)
           p == chainRoundProjection(c, full)
           w == changedRoundProjection(db.row, ix.row, p)
<1>1. /\ db' = [db EXCEPT !.row = w] /\ Restarts
    BY DEF WriteLiveProjection, Goto, Restarts
<1>2. /\ TablesSound(db) /\ RosterSound(db) /\ WasRead(c) /\ ix.row \in RowType
      /\ db.row \in RowType /\ c \in AccountType /\ db \in TablesType
      /\ chain.deployed \subseteq Receipts /\ c.deployed \subseteq Receipts
    BY DEF IInv, IndexerSound, IndexerType, TablesSound, TablesType, ChainSound, AccountType
<1>3. full \in BOOLEAN
    BY DEF LiveComplete
<1>4. p \in ProjectionType /\ p.resolved = c.settled /\ p.complete = full
  <2>1. /\ Cardinality(c.deployed) \in Nat /\ Cardinality(c.processed) \in Nat
        /\ Cardinality(c.closed) \in Nat
      BY <1>2, CountsAreNumbers DEF AccountType
  <2> HIDE DEF full
  <2>2. QED
      BY <1>2, <1>3, <2>1 DEF chainRoundProjection, ProjectionType, AccountType
<1> HIDE DEF full, p
<1>5. /\ w \in RowType /\ w.hash = db.row.hash /\ w.verified = db.row.verified
      /\ w.complete = IF ~ix.row.exists \/ full # ix.row.complete THEN full ELSE db.row.complete
      /\ w.resolved = IF ~ix.row.exists \/ c.settled # ix.row.resolved THEN c.settled
                      ELSE db.row.resolved
  <2>1. PICK old, read, q : old = db.row /\ read = ix.row /\ q = p
      OBVIOUS
  <2>2. old \in RowType /\ read \in RowType /\ q \in ProjectionType
      BY <1>2, <1>4, <2>1
  <2> DEFINE x == changedRoundProjection(old, read, q)
  <2>3. /\ x \in RowType /\ x.hash = old.hash /\ x.verified = old.verified
        /\ x.complete = IF ~read.exists \/ q.complete # read.complete THEN q.complete ELSE old.complete
        /\ x.resolved = IF ~read.exists \/ q.resolved # read.resolved THEN q.resolved ELSE old.resolved
      BY <2>2, ChangedFields
  <2>4. x = w
      BY <2>1
  <2> HIDE DEF x, w
  <2>5. QED
      BY <1>4, <2>1, <2>3, <2>4
<1> HIDE DEF c, w
<1>6. /\ db' \in TablesType /\ db'.bets = db.bets /\ db'.settlements = db.settlements /\ db'.row = w
    BY <1>1, <1>2, <1>5 DEF TablesType
<1>7. TablesSound(db')
    BY <1>2, <1>5, <1>6 DEF TablesSound, WasRead
<1>8. RosterAfter(Len(log)) = Bets(chain.deployed) /\ Len(log) \in 0..Len(log)
    BY <1>2, RosterOfDeployed DEF IInv, LogSound
<1>9. CASE ix.pc = "reconcile"
  <2>1. ix.row = db.row /\ db.bets \subseteq Bets(c.deployed)
      BY <1>9 DEF IInv, IndexerSound, ReconcileSound, c
  <2>2. full => db.bets = Bets(c.deployed)
      BY <1>2, <2>1, MatchMeansFull DEF LiveComplete, full
  <2>3. (w.complete => full) /\ (w.resolved => c.settled)
      BY <1>2, <1>3, <1>5, <2>1 DEF RowType, AccountType
  <2>4. ASSUME full
        PROVE  \E n \in 0..Len(log) : db.bets = RosterAfter(n)
      BY <1>2, <2>2, <2>4 DEF WasRead
  <2>5. c.settled => c.deployed = chain.deployed
      BY <1>2 DEF WasRead, Decided
  <2>6. RosterSound(db')
      BY <1>6, <2>2, <2>3, <2>4, <2>5 DEF RosterSound
  <2>7. QED
      BY <1>1, <1>7, <2>6
<1>10. CASE ix.pc = "repair"
  <2>1. ReplayedSound(db) /\ Decided(c)
      BY <1>10 DEF IInv, IndexerSound, ReplaySound, c
  <2>2. c.deployed = chain.deployed
      BY <1>2, <2>1 DEF WasRead
  <2>3. full => db.bets = Bets(chain.deployed)
      BY <1>2, <2>2, MatchMeansFull DEF LiveComplete, full, TablesSound
  <2>4. w.complete => db.bets = Bets(chain.deployed)
      BY <1>3, <1>5, <2>1, <2>3 DEF ReplayedSound
  <2>5. RosterSound(db')
      BY <1>6, <1>8, <2>4 DEF RosterSound
  <2>6. QED
      BY <1>1, <1>7, <2>5
<1>11. QED
    BY <1>9, <1>10

LEMMA BeginReplayKeeps ==
    ASSUME IInv, IndexerMoves, ix.pc = "reconcile", Decided(ix.account), BeginReplay
    PROVE  IInv'
<1>1. /\ db' = [db EXCEPT !.row.complete = db.row.complete /\ ~ix.row.complete]
      /\ ix' = [ix EXCEPT !.pc = "replay", !.row.complete = FALSE,
                          !.i = 1, !.j = 0, !.n = Len(log), !.whole = TRUE]
    BY DEF BeginReplay, canonicalRoundSignatures
<1>2. /\ TablesSound(db) /\ RosterSound(db) /\ ix.row = db.row /\ db \in TablesType
      /\ ix \in IndexerType /\ Len(log) \in Nat /\ db.row.complete \in BOOLEAN
    BY DEF IInv, IndexerSound, ReconcileSound, TablesSound, TablesType, RowType, LogSound
<1>3. /\ db' \in TablesType /\ db'.bets = db.bets /\ db'.settlements = db.settlements
      /\ db'.row.complete = FALSE /\ db'.row.resolved = db.row.resolved
      /\ db'.row.verified = db.row.verified /\ db'.row.hash = db.row.hash
  <2>1. (db.row.complete /\ ~ix.row.complete) = FALSE
      BY <1>2
  <2>2. db' = [db EXCEPT !.row.complete = FALSE]
      BY <1>1, <2>1
  <2>3. QED
      BY <1>2, <2>2 DEF TablesType, RowType
<1>4. TablesSound(db') /\ RosterSound(db') /\ ReplayedSound(db')
    BY <1>2, <1>3 DEF TablesSound, RosterSound, ReplayedSound
<1>5. ix' \in IndexerType
  <2>1. PICK w : w = [ix.row EXCEPT !.complete = FALSE]
      OBVIOUS
  <2>2. w \in RowType
      BY <1>2, <2>1 DEF IndexerType, RowType
  <2>3. ix' = [ix EXCEPT !.pc = "replay", !.row = w,
                         !.i = 1, !.j = 0, !.n = Len(log), !.whole = TRUE]
      BY <1>1, <2>1
  <2>4. QED
      BY <1>2, <2>2, <2>3 DEF IndexerType, Pcs
<1>6. ix'.pc = "replay" /\ ix'.account = ix.account /\ ix'.i = 1 /\ ix'.n = Len(log)
    BY <1>1, <1>2 DEF IndexerType
<1>7. WasRead(ix.account)'
    BY <1>6, ApartKeeps DEF IInv, IndexerSound, IndexerMoves, Apart, WasRead, RosterAfter
<1>8. ReplaySound'
    BY <1>2, <1>4, <1>6 DEF ReplaySound, ReplayedSound, IndexerMoves, Apart
<1>9. ReconcileSound' /\ ForwardSound' /\ ArchivingSound'
    BY <1>6 DEF ReconcileSound, ForwardSound, ArchivingSound
<1>10. IndexerSound'
    BY <1>5, <1>7, <1>8, <1>9 DEF IndexerSound
<1>11. QED
    BY <1>4, <1>10, IndexerMovesKeep

LEMMA ReconcileLiveKeeps ==
    ASSUME IInv, reconcileLiveRound
    PROVE  IInv'
<1>1. IndexerMoves /\ ix.pc = "reconcile"
    BY NotLegacy DEF reconcileLiveRound, At, IndexerMoves, Apart
<1>2. CASE BeginReplay /\ roundNeedsCanonicalReplay(ix.row, ix.account, fetchProjectionDigest(db))
    BY <1>1, <1>2, ReplayMeansDecided, BeginReplayKeeps
<1>3. CASE WriteLiveProjection
  <2>1. TablesSound(db') /\ RosterSound(db') /\ Restarts
      BY <1>1, <1>3, LiveWriteKeeps
  <2>2. IndexerSound'
      BY <1>1, <2>1, RestartKeeps, ApartKeeps DEF IndexerMoves
  <2>3. QED
      BY <1>1, <2>1, <2>2, IndexerMovesKeep
<1>4. QED
    BY <1>2, <1>3 DEF reconcileLiveRound

\* What agrees with the attested archive lacks no wager of it.
LEMMA ArchivedMatchMeansFull ==
    ASSUME IInv, db.row.verified, NEW w, NEW s, s = proof,
           roundProjectionMatchesArchivedProof(w, s, fetchProjectionDigest(db))
    PROVE  db.bets = Bets(chain.deployed)
<1>1. s # NoSnapshot /\ s = chain.archived
    BY DEF roundProjectionMatchesArchivedProof, verifiedArchivedRoundProjection, IInv, TablesSound
<1>2. s.bets = Bets(chain.deployed) /\ chain.deployed \subseteq Receipts
    BY <1>1 DEF IInv, ChainSound, Exact, AccountType
<1>3. \A t \in Tiles : fetchProjectionDigest(db).tiles[t] = Cardinality({b \in s.bets : b[2] = t})
    BY DEF roundProjectionMatchesArchivedProof
<1>4. \A t \in Tiles : Cardinality({b \in db.bets : b[2] = t})
                          = Cardinality({r \in chain.deployed : t \in Layout[r]})
  <2> TAKE t \in Tiles
  <2>1. Cardinality({b \in db.bets : b[2] = t}) = Cardinality({b \in s.bets : b[2] = t})
      BY <1>3 DEF fetchProjectionDigest
  <2>2. {b \in s.bets : b[2] = t} = {b \in Bets(chain.deployed) : b[2] = t}
      BY <1>2
  <2>3. Cardinality({b \in Bets(chain.deployed) : b[2] = t})
           = Cardinality({r \in chain.deployed : t \in Layout[r]})
      BY <1>2, TileCount
  <2>4. QED
      BY <2>1, <2>2, <2>3
<1>5. QED
    BY <1>2, <1>4, AllTilesFull DEF IInv, TablesSound

\* A complete roster that lacks nothing is the roster of the whole history.
LEMMA FullRosterSound ==
    ASSUME IInv, NEW d, d.row.complete => d.bets = Bets(chain.deployed)
    PROVE  RosterSound(d)
<1>1. RosterAfter(Len(log)) = Bets(chain.deployed) /\ Len(log) \in 0..Len(log)
    BY RosterOfDeployed DEF IInv, LogSound, ChainSound, AccountType
<1>2. QED
    BY <1>1 DEF RosterSound

LEMMA ReconcileClosedKeeps ==
    ASSUME IInv, reconcileClosedRound
    PROVE  IInv'
<1> DEFINE matches == roundProjectionMatchesArchivedProof(ix.row, proof, fetchProjectionDigest(db))
<1>1. IndexerMoves /\ ix.pc = "reconcile"
    BY NotLegacy DEF reconcileClosedRound, At, IndexerMoves, Apart
<1>2. Decided(ix.account) /\ ix.row = db.row /\ TablesSound(db) /\ RosterSound(db) /\ db \in TablesType
    BY <1>1 DEF IInv, IndexerSound, WasRead, ReconcileSound, reconcileClosedRound, TablesSound
<1>3. CASE Goto("index") /\ UNCHANGED db
  <2>1. TablesSound(db') /\ RosterSound(db') /\ Restarts
      BY <1>2, <1>3 DEF Restarts
  <2>2. IndexerSound'
      BY <1>1, <2>1, RestartKeeps, ApartKeeps DEF IndexerMoves
  <2>3. QED
      BY <1>1, <2>1, <2>2, IndexerMovesKeep
<1>4. CASE BeginReplay
    BY <1>1, <1>2, <1>4, BeginReplayKeeps
<1>5. CASE db' = [db EXCEPT !.row.complete = matches] /\ Goto("index")
  <2>1. matches \in BOOLEAN
      BY DEF roundProjectionMatchesArchivedProof
  <2>2. matches => db.bets = Bets(chain.deployed)
    <3>1. matches => db.row.verified
        BY <1>2 DEF roundProjectionMatchesArchivedProof, verifiedArchivedRoundProjection
    <3>2. QED
        BY <3>1, ArchivedMatchMeansFull
  <2> HIDE DEF matches
  <2>3. /\ db' \in TablesType /\ db'.bets = db.bets /\ db'.settlements = db.settlements
        /\ db'.row.complete = matches /\ db'.row.resolved = db.row.resolved
        /\ db'.row.verified = db.row.verified /\ db'.row.hash = db.row.hash
      BY <1>2, <1>5, <2>1 DEF TablesType, RowType
  <2>4. TablesSound(db')
      BY <1>2, <2>3 DEF TablesSound
  <2>5. RosterSound(db')
      BY <2>2, <2>3, FullRosterSound
  <2>6. IndexerSound'
      BY <1>1, <1>5, RestartKeeps, ApartKeeps DEF IndexerMoves, Restarts
  <2>7. QED
      BY <1>1, <2>4, <2>5, <2>6, IndexerMovesKeep
<1>6. QED
    BY <1>3, <1>4, <1>5 DEF reconcileClosedRound

\* A step of the replay: the tables stay sound, a complete roster whole.
LEMMA StillReplaying ==
    ASSUME IInv, Apart, UNCHANGED <<proof, cursor, legacy>>, faults' \in 0..MaxFaults,
           ix.pc = "replay", TablesSound(db'), ReplayedSound(db'),
           ix' \in IndexerType, ix'.account = ix.account, ix'.n = ix.n,
           ix'.pc \in {"replay", "repair"}, ix'.i \in 1..(ix.n + 1)
    PROVE  IInv'
<1>1. RosterSound(db')
    BY FullRosterSound DEF ReplayedSound
<1>2. WasRead(ix.account)'
    BY DEF IInv, IndexerSound, Apart, WasRead, RosterAfter
<1>3. ReplaySound'
    BY DEF IInv, IndexerSound, ReplaySound, ReplayedSound, Apart
<1>4. ReconcileSound' /\ ForwardSound' /\ ArchivingSound'
    BY DEF ReconcileSound, ForwardSound, ArchivingSound
<1>5. IndexerSound'
    BY <1>2, <1>3, <1>4 DEF IndexerSound
<1>6. ChainSound' /\ LogSound'
    BY ApartKeeps
<1>7. TablesSound(db)' /\ RosterSound(db)'
    BY <1>1 DEF Apart, TablesSound, RosterSound, RosterAfter
<1>8. RestSound'
    BY NotLegacy DEF IInv, Apart, RestSound, LegacySound
<1>9. QED
    BY <1>5, <1>6, <1>7, <1>8 DEF IInv

LEMMA ReplayKeeps ==
    ASSUME IInv, replayCanonicalRoundHistory
    PROVE  IInv'
<1> DEFINE events == log[ix.i]
           after == AfterEvents(db, ix.i)
           refused == {k \in DOMAIN events :
                          ~Skipped(events[k]) /\ ~Applicable(events[k], after[k - 1])}
           first == CHOOSE k \in refused : \A l \in refused : k <= l
<1>1. IndexerMoves /\ ix.pc = "replay" /\ ix.i <= ix.n /\ ix \in IndexerType
    BY NotLegacy DEF replayCanonicalRoundHistory, At, IndexerMoves, Apart, IInv, IndexerSound
<1>2. ix.i \in DOMAIN log /\ ReplayedSound(db) /\ ix.i \in 1..ix.n
    BY <1>1 DEF IInv, IndexerSound, ReplaySound, IndexerType, LogSound
<1>3. /\ Len(events) \in Nat /\ DOMAIN events = 1..Len(events)
      /\ \A k \in 0..Len(events) : TablesSound(after[k]) /\ ReplayedSound(after[k])
  <2>1. events \in Seq(EventType)
      BY <1>2 DEF IInv, LogSound
  <2>2. QED
      BY <1>2, <2>1, TransactionKeeps DEF IInv
<1> HIDE DEF events, after
<1>4. CASE db' = after[Len(events)] /\ ix' = [ix EXCEPT !.i = ix.i + 1]
  <2>1. TablesSound(db') /\ ReplayedSound(db')
      BY <1>3, <1>4
  <2>2. /\ ix' \in IndexerType /\ ix'.account = ix.account /\ ix'.n = ix.n
        /\ ix'.pc = "replay" /\ ix'.i \in 1..(ix.n + 1)
      BY <1>1, <1>2, <1>4 DEF IndexerType
  <2>3. faults' \in 0..MaxFaults
      BY <1>1 DEF IInv, RestSound, IndexerMoves
  <2>4. QED
      BY <1>1, <2>1, <2>2, <2>3, StillReplaying DEF IndexerMoves
<1>5. CASE refused # {} /\ db' = after[first - 1] /\ Goto("index")
  <2>1. first \in refused
    <3>1. refused \subseteq Nat
        BY <1>3
    <3> HIDE DEF refused
    <3>2. \E k \in refused : \A l \in refused : k <= l
        BY <1>5, <3>1, LeastNatural
    <3>3. QED
        BY <3>2
  <2>2. first - 1 \in 0..Len(events)
      BY <1>3, <2>1
  <2> HIDE DEF first
  <2>3. TablesSound(db') /\ ReplayedSound(db')
      BY <1>3, <1>5, <2>2
  <2>4. RosterSound(db')
      BY <2>3, FullRosterSound DEF ReplayedSound
  <2>5. IndexerSound'
      BY <1>1, <1>5, RestartKeeps, ApartKeeps DEF IndexerMoves, Restarts
  <2>6. QED
      BY <1>1, <2>3, <2>4, <2>5, IndexerMovesKeep
<1>6. QED
    BY <1>4, <1>5 DEF replayCanonicalRoundHistory, events, after

LEMMA SkipKeeps ==
    ASSUME IInv, SkipUnavailable
    PROVE  IInv'
<1>1. /\ ix.pc = "replay" /\ ix.i <= ix.n /\ ix \in IndexerType /\ ix.i \in 1..ix.n
      /\ TablesSound(db) /\ ReplayedSound(db) /\ db' = db
    BY DEF SkipUnavailable, At, IInv, IndexerSound, ReplaySound, IndexerType
<1>2. ix' = [ix EXCEPT !.i = ix.i + 1, !.whole = FALSE]
    BY DEF SkipUnavailable
<1>3. /\ ix' \in IndexerType /\ ix'.account = ix.account /\ ix'.n = ix.n
      /\ ix'.pc = "replay" /\ ix'.i \in 1..(ix.n + 1)
  <2>1. ix.i \in Nat /\ ix.n \in Nat /\ ix.i + 1 \in Nat /\ ix.i + 1 \in 1..(ix.n + 1)
      BY <1>1 DEF IndexerType
  <2>2. /\ ix' \in IndexerType /\ ix'.account = ix.account /\ ix'.n = ix.n
        /\ ix'.pc = ix.pc /\ ix'.i = ix.i + 1
      BY <1>1, <1>2, <2>1 DEF IndexerType
  <2>3. QED
      BY <1>1, <2>1, <2>2
<1>4. faults' \in 0..MaxFaults /\ Apart /\ UNCHANGED <<proof, cursor, legacy>>
    BY RoundIndexAssumption DEF IInv, RestSound, SkipUnavailable, Apart
<1>5. QED
    BY <1>1, <1>3, <1>4, StillReplaying

LEMMA PruneKeeps ==
    ASSUME IInv, pruneDisprovedSettlementRows
    PROVE  IInv'
<1>1. /\ IndexerMoves /\ ix.pc = "replay" /\ ix \in IndexerType /\ ix.i \in 1..(ix.n + 1)
      /\ TablesSound(db) /\ ReplayedSound(db) /\ db \in TablesType
    BY NotLegacy DEF pruneDisprovedSettlementRows, At, IndexerMoves, Apart, IInv, IndexerSound,
                     ReplaySound, TablesSound
<1>2. \E S : db' = [db EXCEPT !.settlements = db.settlements \ S]
  <2>1. CASE ix.whole
      BY <2>1 DEF pruneDisprovedSettlementRows
  <2>2. CASE ~ix.whole
    <3>1. db' = db
        BY <2>2 DEF pruneDisprovedSettlementRows
    <3>2. db' = [db EXCEPT !.settlements = db.settlements \ {}]
        BY <1>1, <3>1 DEF TablesType
    <3>3. QED
        BY <3>2
  <2>3. QED
      BY <2>1, <2>2
<1>3. TablesSound(db') /\ ReplayedSound(db')
    BY <1>1, <1>2 DEF TablesSound, TablesType, ReplayedSound
<1>4. ix' = [ix EXCEPT !.pc = "repair"]
    BY DEF pruneDisprovedSettlementRows
<1>5. /\ ix' \in IndexerType /\ ix'.account = ix.account /\ ix'.n = ix.n
      /\ ix'.pc = "repair" /\ ix'.i \in 1..(ix.n + 1)
    BY <1>1, <1>4 DEF IndexerType, Pcs
<1>6. faults' \in 0..MaxFaults
    BY <1>1 DEF IInv, RestSound, IndexerMoves
<1>7. QED
    BY <1>1, <1>3, <1>5, <1>6, StillReplaying DEF IndexerMoves

\* The facts of an archive, written over a row, keep its type.
LEMMA ArchivedFacts ==
    ASSUME NEW old \in RowType, NEW f \in FactsType
    PROVE  LET x == [k \in DOMAIN old |-> CASE k \in DOMAIN f -> f[k]
                                            [] k = "buyback" -> f.resolved
                                            [] OTHER -> old[k]]
           IN /\ x \in RowType /\ x.hash = old.hash /\ x.verified = old.verified
              /\ x.resolved = f.resolved
<1> DEFINE v(k) == CASE k \in DOMAIN f -> f[k] [] k = "buyback" -> f.resolved [] OTHER -> old[k]
           x == [k \in DOMAIN old |-> v(k)]
           y == [exists |-> old.exists, resolved |-> f.resolved, complete |-> old.complete,
                 total |-> f.total, processed |-> f.processed, closed |-> old.closed,
                 buyback |-> f.resolved, commitment |-> f.commitment, lock |-> f.lock,
                 reveal |-> f.reveal, fees |-> f.fees, settlement |-> f.settlement,
                 hash |-> old.hash, verified |-> old.verified,
                 closedSignature |-> old.closedSignature]
<1>1. /\ DOMAIN old = {"exists", "resolved", "complete", "total", "processed", "closed", "buyback",
                       "commitment", "lock", "reveal", "fees", "settlement", "hash", "verified",
                       "closedSignature"}
      /\ DOMAIN f = {"resolved", "total", "processed", "commitment", "lock", "reveal", "fees",
                     "settlement"}
    BY DEF RowType, FactsType
<1>2. \A k \in DOMAIN old : v(k) = y[k]
    BY <1>1
<1>3. y = [k \in DOMAIN old |-> y[k]]
    BY <1>1
<1>4. y \in RowType
    BY DEF RowType, FactsType
<1>5. x = y
  <2> HIDE DEF v, y
  <2> QED BY <1>2, <1>3
<1>6. y.hash = old.hash /\ y.verified = old.verified /\ y.resolved = f.resolved
    OBVIOUS
<1>7. x \in RowType /\ x.hash = old.hash /\ x.verified = old.verified /\ x.resolved = f.resolved
  <2> HIDE DEF x, y
  <2> QED BY <1>4, <1>5, <1>6
<1>8. QED
    BY <1>7

\* A closed round is repaired from its attested archive alone.
LEMMA ClosedWriteKeeps ==
    ASSUME IInv, ix.pc = "repair", WriteClosedProjection
    PROVE  TablesSound(db') /\ RosterSound(db') /\ Restarts
<1> DEFINE g == fetchProjectionDigest(db)
           facts == [f \in DOMAIN db.row |->
                    CASE f \in DOMAIN proof.facts -> proof.facts[f]
                      [] f = "buyback" -> proof.facts.resolved
                      [] OTHER -> db.row[f]]
           repaired == [facts EXCEPT !.total = g.total, !.processed = g.processed, !.closed = g.closed]
           complete == ix.whole /\ roundProjectionMatchesArchivedProof(repaired, proof, g)
           w == [(IF complete THEN repaired ELSE facts) EXCEPT !.complete = complete]
<1>1. Restarts
    BY DEF WriteClosedProjection, Restarts
<1>2. TablesSound(db) /\ RosterSound(db) /\ db \in TablesType /\ db.row \in RowType
    BY DEF IInv, TablesSound, TablesType
<1>3. CASE ~verifiedArchivedRoundProjection(db.row, proof)
    BY <1>1, <1>2, <1>3 DEF WriteClosedProjection
<1>4. CASE verifiedArchivedRoundProjection(db.row, proof)
  <2>1. /\ db.row.verified /\ proof # NoSnapshot /\ proof = chain.archived /\ proof \in SnapshotType
        /\ db.row.hash = chain.archived
      BY <1>2, <1>4 DEF verifiedArchivedRoundProjection, TablesSound, IInv, RestSound, ProofType
  <2>2. proof.facts \in FactsType /\ proof.facts.resolved = chain.settled
      BY <2>1 DEF SnapshotType, IInv, ChainSound, Exact
  <2>3. db' = [db EXCEPT !.row = w]
      BY <1>4 DEF WriteClosedProjection
  <2>4. /\ facts \in RowType /\ facts.hash = db.row.hash /\ facts.verified = db.row.verified
        /\ facts.resolved = chain.settled
    <3>1. PICK old, f : old = db.row /\ f = proof.facts
        OBVIOUS
    <3>2. old \in RowType /\ f \in FactsType
        BY <1>2, <2>2, <3>1
    <3> DEFINE x == [k \in DOMAIN old |-> CASE k \in DOMAIN f -> f[k]
                                            [] k = "buyback" -> f.resolved
                                            [] OTHER -> old[k]]
    <3>3. /\ x \in RowType /\ x.hash = old.hash /\ x.verified = old.verified
          /\ x.resolved = f.resolved
        BY <3>2, ArchivedFacts
    <3>4. x = facts
        BY <3>1
    <3> HIDE DEF x, facts
    <3>5. QED
        BY <2>2, <3>1, <3>3, <3>4
  <2>5. g.total \in Nat /\ g.processed \in Nat /\ g.closed \in Nat
      BY <1>2, CountsAreNumbers
  <2> HIDE DEF facts, g
  <2>6. /\ repaired \in RowType /\ repaired.hash = db.row.hash
        /\ repaired.verified = db.row.verified /\ repaired.resolved = chain.settled
      BY <2>4, <2>5 DEF RowType
  <2>7. complete \in BOOLEAN /\ (complete => db.bets = Bets(chain.deployed))
    <3>1. ix.whole \in BOOLEAN
        BY DEF IInv, IndexerSound, IndexerType
    <3>2. ASSUME complete PROVE db.bets = Bets(chain.deployed)
      <4>1. roundProjectionMatchesArchivedProof(repaired, proof, fetchProjectionDigest(db))
          BY <3>2 DEF g
      <4> HIDE DEF repaired, complete
      <4>2. QED
          BY <2>1, <4>1, ArchivedMatchMeansFull
    <3>3. complete \in BOOLEAN
        BY <3>1 DEF roundProjectionMatchesArchivedProof
    <3>4. QED
        BY <3>2, <3>3
  <2> HIDE DEF repaired, complete
  <2>8. /\ w \in RowType /\ w.hash = db.row.hash /\ w.verified = db.row.verified
        /\ w.resolved = chain.settled /\ w.complete = complete
      BY <2>4, <2>6, <2>7 DEF RowType
  <2> HIDE DEF w
  <2>9. db' \in TablesType /\ db'.bets = db.bets /\ db'.settlements = db.settlements /\ db'.row = w
      BY <1>2, <2>3, <2>8 DEF TablesType
  <2>10. TablesSound(db')
      BY <1>2, <2>1, <2>8, <2>9 DEF TablesSound
  <2>11. RosterSound(db')
      BY <2>7, <2>8, <2>9, FullRosterSound
  <2>12. QED
      BY <1>1, <2>10, <2>11
<1>5. QED
    BY <1>3, <1>4

LEMMA FinishKeeps ==
    ASSUME IInv, finishReplay
    PROVE  IInv'
<1>1. IndexerMoves /\ ix.pc = "repair"
    BY NotLegacy DEF finishReplay, At, IndexerMoves, Apart
<1>2. TablesSound(db') /\ RosterSound(db') /\ Restarts
    BY <1>1, LiveWriteKeeps, ClosedWriteKeeps DEF finishReplay
<1>3. IndexerSound'
    BY <1>1, <1>2, RestartKeeps, ApartKeeps DEF IndexerMoves
<1>4. QED
    BY <1>1, <1>2, <1>3, IndexerMovesKeep

LEMMA SignaturesKeep ==
    ASSUME IInv, signaturesSince
    PROVE  IInv'
<1>1. /\ IndexerMoves /\ ix.pc = "index" /\ ix.j = 0 /\ ix \in IndexerType /\ db' = db
      /\ Len(log) \in Nat
    BY NotLegacy DEF signaturesSince, At, IndexerMoves, Apart, IInv, IndexerSound, ForwardSound, LogSound
<1>2. ix' = [ix EXCEPT !.pc = "forward", !.n = Len(log)]
    BY DEF signaturesSince
<1>3. /\ ix' \in IndexerType /\ ix'.account = ix.account /\ ix'.n = Len(log)
      /\ ix'.pc = "forward" /\ ix'.j = 0
    BY <1>1, <1>2 DEF IndexerType, Pcs
<1>4. WasRead(ix.account)'
    BY <1>1, <1>3 DEF IInv, IndexerSound, IndexerMoves, Apart, WasRead, RosterAfter
<1>5. ForwardSound'
  <2>1. ASSUME cursor < Len(log) PROVE Len(log[cursor + 1]) \in Nat
    <3>1. cursor + 1 \in DOMAIN log
        BY <1>1, <2>1 DEF IInv, RestSound, LogSound
    <3>2. log[cursor + 1] \in Seq(EventType)
        BY <3>1 DEF IInv, LogSound
    <3>3. QED
        BY <3>2
  <2>2. QED
      BY <1>1, <1>3, <2>1 DEF ForwardSound, IndexerMoves, Apart
<1>6. ReconcileSound' /\ ReplaySound' /\ ArchivingSound'
    BY <1>3 DEF ReconcileSound, ReplaySound, ArchivingSound
<1>7. IndexerSound'
    BY <1>3, <1>4, <1>5, <1>6 DEF IndexerSound
<1>8. QED
    BY <1>1, <1>7, IndexerMovesKeep DEF IInv

LEMMA AdvancesKeep ==
    ASSUME IInv, NEW x, Advances(db, x) \/ ~x.row.complete
    PROVE  RosterSound(x)
<1>1. RosterSound(db)
    BY DEF IInv
<1>2. CASE ReplayedSound(x) \/ ~x.row.complete
    BY <1>2, FullRosterSound DEF ReplayedSound
<1>3. CASE x.bets = db.bets /\ (x.row.complete => db.row.complete /\ x.row.resolved = db.row.resolved)
    BY <1>1, <1>3 DEF RosterSound
<1>4. QED
    BY <1>2, <1>3 DEF Advances

\* The write of half an event, with its place in the transaction.
LEMMA WriteKeeps ==
    ASSUME IInv, Apart, UNCHANGED <<proof, cursor, legacy, faults>>, ix.pc = "forward",
           cursor < ix.n, TablesSound(db'), Advances(db, db') \/ ~db'.row.complete,
           NEW k \in 1..2, ix' = [ix EXCEPT !.j = ix.j + k],
           ix.j + k <= 2 * Len(log[cursor + 1]),
           (ix.j + k) % 2 = 1 /\ log[cursor + 1][(ix.j + k) \div 2 + 1].kind = "Deployment"
              => ~db'.row.complete
    PROVE  IInv'
<1>1. IndexerMoves /\ ix \in IndexerType
    BY NotLegacy DEF IndexerMoves, IInv, IndexerSound
<1>2. /\ ix' \in IndexerType /\ ix'.account = ix.account /\ ix'.n = ix.n
      /\ ix'.pc = "forward" /\ ix'.j = ix.j + k
    BY <1>1 DEF IndexerType
<1>3. WasRead(ix.account)'
    BY <1>1, <1>2 DEF IInv, IndexerSound, IndexerMoves, Apart, WasRead, RosterAfter
<1>4. ForwardSound'
  <2>1. ix.n <= Len(log) /\ Len(log[cursor + 1]) \in Nat /\ ix.j \in Nat
    <3>1. ix.n <= Len(log)
        BY DEF IInv, IndexerSound, ForwardSound
    <3>2. cursor + 1 \in DOMAIN log
        BY <1>1, <3>1 DEF IInv, RestSound, LogSound, IndexerType
    <3>3. log[cursor + 1] \in Seq(EventType)
        BY <3>2 DEF IInv, LogSound
    <3>4. QED
        BY <1>1, <3>1, <3>3 DEF IndexerType
  <2>2. ix.j + k \in 0..(2 * Len(log[cursor + 1]))
      BY <2>1
  <2>3. QED
      BY <1>1, <1>2, <2>1, <2>2 DEF ForwardSound, IndexerMoves, Apart
<1>5. ReconcileSound' /\ ReplaySound' /\ ArchivingSound'
    BY <1>2 DEF ReconcileSound, ReplaySound, ArchivingSound
<1>6. IndexerSound'
    BY <1>2, <1>3, <1>4, <1>5 DEF IndexerSound
<1>7. RosterSound(db')
    BY AdvancesKeep
<1>8. QED
    BY <1>1, <1>6, <1>7, IndexerMovesKeep

\* Write j of a transaction of L events belongs to one of them.
LEMMA HalfEvents ==
    ASSUME NEW L \in Nat, NEW j \in 0..(2 * L), j # 2 * L
    PROVE  /\ j \div 2 + 1 \in 1..L
           /\ j % 2 = 0 => j + 2 <= 2 * L
           /\ j % 2 # 0 => j + 1 <= 2 * L /\ j % 2 = 1 /\ (j + 1) % 2 = 0
<1>1. /\ j \in Nat /\ j \div 2 \in Nat /\ j % 2 \in 0..1
      /\ j = 2 * (j \div 2) + (j % 2)
    OBVIOUS
<1>2. PICK q, r : q = j \div 2 /\ r = j % 2
    OBVIOUS
<1>3. q \in Nat /\ (r = 0 \/ r = 1) /\ j = 2 * q + r /\ j < 2 * L
    BY <1>1, <1>2
<1>4. q < L
    BY <1>3
<1>5. q + 1 \in 1..L /\ (r = 0 => j + 2 <= 2 * L) /\ (r # 0 => j + 1 <= 2 * L /\ r = 1)
    BY <1>3, <1>4
<1>6. j % 2 # 0 => (j + 1) % 2 = 0
    OBVIOUS
<1>7. QED
    BY <1>2, <1>5, <1>6

LEMMA IndexKeeps ==
    ASSUME IInv, indexTransactions
    PROVE  IInv'
<1> DEFINE tx == log[cursor + 1]
           e == tx[ix.j \div 2 + 1]
<1>1. /\ ix.pc = "forward" /\ cursor < ix.n /\ ix \in IndexerType /\ ~legacy
      /\ Apart /\ UNCHANGED <<proof, legacy, faults>>
    BY NotLegacy DEF indexTransactions, At, Apart, IInv, IndexerSound
<1>2. /\ cursor \in Nat /\ ix.n <= Len(log) /\ Len(log) \in Nat /\ ix.j \in 0..(2 * Len(tx))
      /\ ix.j % 2 = 1 /\ e.kind = "Deployment" => ~db.row.complete
    BY <1>1 DEF IInv, IndexerSound, ForwardSound, RestSound, LogSound, IndexerType
<1>3. /\ tx \in Seq(EventType) /\ Len(tx) \in Nat /\ ix.j \in Nat
      /\ \A k \in 1..Len(tx) : Truthful(chain, tx[k])
  <2>1. cursor + 1 \in DOMAIN log
      BY <1>1, <1>2 DEF IInv, LogSound, IndexerType
  <2>2. tx \in Seq(EventType)
      BY <2>1 DEF IInv, LogSound
  <2>3. QED
      BY <1>1, <2>1, <2>2 DEF IInv, LogSound, IndexerType
<1>4. ChainSound /\ TablesSound(db) /\ RosterSound(db) /\ cursor + 1 \in Nat
    BY <1>2 DEF IInv
<1>5. CASE ix.j = 2 * Len(tx) /\ cursor' = cursor + 1 /\ ix' = [ix EXCEPT !.j = 0] /\ UNCHANGED db
  <2>1. /\ ix' \in IndexerType /\ ix'.account = ix.account /\ ix'.n = ix.n
        /\ ix'.pc = "forward" /\ ix'.j = 0
      BY <1>1, <1>5 DEF IndexerType
  <2>2. ForwardSound'
    <3>1. ASSUME cursor + 1 < ix.n PROVE Len(log[cursor + 1 + 1]) \in Nat
      <4>1. cursor + 1 + 1 \in DOMAIN log
          BY <1>1, <1>2, <3>1 DEF IInv, LogSound, IndexerType
      <4>2. log[cursor + 1 + 1] \in Seq(EventType)
          BY <4>1 DEF IInv, LogSound
      <4>3. QED
          BY <4>2
    <3>2. QED
        BY <1>1, <1>2, <1>5, <2>1, <3>1 DEF ForwardSound, Apart
  <2>3. WasRead(ix.account)'
      BY <1>1, <2>1 DEF IInv, IndexerSound, Apart, WasRead, RosterAfter
  <2>4. ReconcileSound' /\ ReplaySound' /\ ArchivingSound'
      BY <2>1 DEF ReconcileSound, ReplaySound, ArchivingSound
  <2>5. IndexerSound'
      BY <2>1, <2>2, <2>3, <2>4 DEF IndexerSound
  <2>6. cursor' \in 0..Len(log')
      BY <1>1, <1>2, <1>5 DEF Apart, IndexerType
  <2>7. RestSound'
      BY <1>1, <1>5, <2>6 DEF IInv, RestSound, LegacySound
  <2>8. ChainSound' /\ LogSound' /\ TablesSound(db)' /\ RosterSound(db)'
      BY <1>1, <1>4, <1>5, ApartKeeps DEF Apart, TablesSound, RosterSound, RosterAfter
  <2>9. QED
      BY <2>5, <2>7, <2>8 DEF IInv
<1>6. CASE Throw /\ UNCHANGED db /\ UNCHANGED cursor
  <2>1. IndexerSound'
      BY <1>1, <1>6, RestartKeeps, ApartKeeps DEF Restarts
  <2>2. QED
      BY <1>1, <1>4, <1>6, <2>1, IndexerMovesKeep DEF IndexerMoves
<1>7. CASE /\ ix.j # 2 * Len(tx) /\ ix.j % 2 = 0 /\ UNCHANGED cursor
           /\ db' = firstWrite(db, e, cursor + 1)
           /\ ix' = [ix EXCEPT !.j = ix.j + (IF TwoWrites(e) THEN 1 ELSE 2)]
  <2>1. ix.j \div 2 + 1 \in 1..Len(tx) /\ ix.j + 2 <= 2 * Len(tx)
    <3>1. PICK j, L : j = ix.j /\ L = Len(tx)
        OBVIOUS
    <3>2. L \in Nat /\ j \in 0..(2 * L) /\ j # 2 * L /\ j % 2 = 0
        BY <1>2, <1>3, <1>7, <3>1
    <3>3. j \div 2 + 1 \in 1..L /\ j + 2 <= 2 * L
        BY <3>2, HalfEvents
    <3>4. QED
        BY <3>1, <3>3
  <2>2. Truthful(chain, e)
      BY <1>3, <2>1
  <2>3. (ix.j + 1) \div 2 + 1 = ix.j \div 2 + 1 /\ (ix.j + 2) % 2 = 0
      BY <1>3, <1>7
  <2> HIDE DEF e
  <2>4. /\ TablesSound(db') /\ Advances(db, db')
        /\ e.kind = "Deployment" => ~db'.row.complete
      BY <1>4, <1>7, <2>2, FirstWriteKeeps
  <2>5. PICK k \in 1..2 : k = IF TwoWrites(e) THEN 1 ELSE 2
      OBVIOUS
  <2>6. (ix.j + k) % 2 = 1 /\ tx[(ix.j + k) \div 2 + 1].kind = "Deployment" => ~db'.row.complete
    <3>1. CASE k = 1
        BY <2>3, <2>4, <3>1 DEF e
    <3>2. CASE k = 2
        BY <2>3, <3>2
    <3>3. QED
        BY <3>1, <3>2
  <2>7. ix.j + k <= 2 * Len(tx)
      BY <1>3, <2>1
  <2>8. ix' = [ix EXCEPT !.j = ix.j + k] /\ cursor' = cursor
      BY <1>7, <2>5
  <2>9. QED
      BY <1>1, <2>4, <2>6, <2>7, <2>8, WriteKeeps
<1>8. CASE /\ ix.j # 2 * Len(tx) /\ ix.j % 2 # 0 /\ UNCHANGED cursor
           /\ db' = secondWrite(db, e)
           /\ ix' = [ix EXCEPT !.j = ix.j + 1]
  <2>1. ix.j \div 2 + 1 \in 1..Len(tx) /\ ix.j + 1 <= 2 * Len(tx) /\ ix.j % 2 = 1 /\ (ix.j + 1) % 2 = 0
    <3>1. PICK j, L : j = ix.j /\ L = Len(tx)
        OBVIOUS
    <3>2. L \in Nat /\ j \in 0..(2 * L) /\ j # 2 * L /\ j % 2 # 0
        BY <1>2, <1>3, <1>8, <3>1
    <3>3. j \div 2 + 1 \in 1..L /\ j + 1 <= 2 * L /\ j % 2 = 1 /\ (j + 1) % 2 = 0
        BY <3>2, HalfEvents
    <3>4. QED
        BY <3>1, <3>3
  <2>2. Truthful(chain, e)
      BY <1>3, <2>1
  <2>3. e.kind = "Deployment" => ~db.row.complete
      BY <1>2, <2>1
  <2> HIDE DEF e
  <2>4. TablesSound(db') /\ (Advances(db, db') \/ ~db'.row.complete)
      BY <1>4, <1>8, <2>2, <2>3, SecondWriteKeeps
  <2>5. 1 \in 1..2
      OBVIOUS
  <2>6. QED
      BY <1>1, <1>8, <2>1, <2>4, <2>5, WriteKeeps
<1>9. QED
    BY <1>5, <1>6, <1>7, <1>8 DEF indexTransactions

LEMMA ForwardDoneKeeps ==
    ASSUME IInv, forwardDone
    PROVE  IInv'
<1>1. IndexerMoves /\ db' = db
    BY NotLegacy DEF forwardDone, At, IndexerMoves, Apart
<1>2. IndexerSound'
    BY <1>1, RestartKeeps, ApartKeeps DEF IndexerMoves, forwardDone, Restarts
<1>3. QED
    BY <1>1, <1>2, IndexerMovesKeep DEF IInv

-----------------------------------------------------------------------------
(* The archive.                                                            *)

\* As many final rows as receipts, and every receipt has its one final status.
LEMMA EveryReceiptFinal ==
    ASSUME ChainSound, TablesSound(db), Final(chain),
           fetchProjectionDigest(db).processed = Cardinality(chain.deployed)
    PROVE  {<<u.receipt, u.status>> : u \in FinalRows(db)}
             = {<<r, FinalStatus(chain)>> : r \in chain.deployed}
<1> DEFINE R == {s.receipt : s \in FinalRows(db)}
<1>1. chain.deployed \subseteq Receipts /\ IsFiniteSet(chain.deployed) /\ chain.settled \in BOOLEAN
    BY FS_Subset, RoundIndexAssumption DEF ChainSound, AccountType
<1>2. R \subseteq chain.deployed
    BY DEF TablesSound, FinalRows
<1>3. R = chain.deployed
  <2>1. Cardinality(R) = Cardinality(chain.deployed)
      BY DEF fetchProjectionDigest
  <2> HIDE DEF R
  <2>2. QED
      BY <1>1, <1>2, <2>1, SameSizeSame
<1>4. \A s \in FinalRows(db) : s.status = FinalStatus(chain)
  <2> TAKE s \in FinalRows(db)
  <2>1. s \in db.settlements /\ s.status \in {"accrued", "refunded"}
      BY DEF FinalRows, TablesSound, TablesType, SettlementType, Statuses
  <2>2. /\ s.status = "accrued" => chain.settled
        /\ s.status = "refunded" => chain.expired
      BY <2>1 DEF TablesSound
  <2>3. chain.settled => ~chain.expired
      BY DEF ChainSound
  <2>4. QED
      BY <2>1, <2>2, <2>3 DEF FinalStatus
<1>5. QED
    BY <1>3, <1>4

\* The row of the archive carries the result of the account.
LEMMA ArchivedRowType ==
    ASSUME ChainSound, TablesSound(db)
    PROVE  /\ ArchivedRow(chain) \in RowType
           /\ ArchivedRow(chain).verified = db.row.verified
           /\ ArchivedRow(chain).hash = db.row.hash
           /\ ArchivedRow(chain).resolved = chain.settled
<1>1. PICK old, p : old = db.row /\ p = chainRoundProjection(chain, TRUE)
    OBVIOUS
<1>2. chain \in AccountType /\ old \in RowType
    BY <1>1 DEF ChainSound, TablesSound, TablesType
<1>3. p \in ProjectionType /\ p.resolved = chain.settled
  <2>1. /\ Cardinality(chain.deployed) \in Nat /\ Cardinality(chain.processed) \in Nat
        /\ Cardinality(chain.closed) \in Nat
      BY <1>2, CountsAreNumbers DEF AccountType, TablesSound
  <2>2. QED
      BY <1>1, <1>2, <2>1 DEF chainRoundProjection, ProjectionType, AccountType
<1> DEFINE x == changedRoundProjection(old, old, p)
<1>4. /\ x \in RowType /\ x.hash = old.hash /\ x.verified = old.verified
      /\ x.resolved = IF ~old.exists \/ p.resolved # old.resolved THEN p.resolved ELSE old.resolved
    BY <1>2, <1>3, ChangedFields
<1>5. x = ArchivedRow(chain)
    BY <1>1 DEF ArchivedRow
<1> HIDE DEF x
<1>6. x.resolved = chain.settled
    BY <1>3, <1>4
<1>7. QED
    BY <1>1, <1>4, <1>5, <1>6

\* The indexer goes on with its archive, and forgets nothing.
LEMMA GoesOn ==
    ASSUME ix \in IndexerType, WasRead(ix.account)', NEW pc \in {"prove", "attest", "verify"},
           ix' = [ix EXCEPT !.pc = pc],
           ~db'.row.verified,
           pc \in {"prove", "attest"} => Decided(chain') /\ ProcessedAll(chain'),
           pc = "prove" => Exact(chain', buildArchiveSnapshot(db'.row, db')),
           pc = "attest" => Exact(chain', proof')
    PROVE  IndexerSound'
<1>1. ix' \in IndexerType /\ ix'.account = ix.account /\ ix'.pc = pc
    BY DEF IndexerType, Pcs
<1>2. WasRead(ix.account)'
    BY <1>1 DEF WasRead
<1>3. ReconcileSound' /\ ReplaySound' /\ ForwardSound'
    BY <1>1 DEF ReconcileSound, ReplaySound, ForwardSound
<1>4. ArchivingSound'
    BY <1>1 DEF ArchivingSound
<1>5. QED
    BY <1>1, <1>2, <1>3, <1>4 DEF IndexerSound

\* What a step that leaves the account and the log alone has to show.
LEMMA StepKeeps ==
    ASSUME IInv, Apart, TablesSound(db)', RosterSound(db'), IndexerSound', RestSound'
    PROVE  IInv'
<1>1. ChainSound' /\ LogSound'
    BY ApartKeeps
<1>2. RosterSound(db)'
    BY DEF Apart, RosterSound, RosterAfter
<1>3. QED
    BY <1>1, <1>2 DEF IInv

LEMMA ArchiveReadyKeeps ==
    ASSUME IInv, archiveReadyRounds
    PROVE  IInv'
<1>1. IndexerMoves /\ ix \in IndexerType /\ TablesSound(db) /\ RosterSound(db) /\ ChainSound
    BY NotLegacy DEF archiveReadyRounds, At, IndexerMoves, Apart, IInv, IndexerSound
<1>2. CASE Throw /\ UNCHANGED db
  <2>1. IndexerSound'
      BY <1>1, <1>2, RestartKeeps, ApartKeeps DEF IndexerMoves, Restarts
  <2>2. QED
      BY <1>1, <1>2, <2>1, IndexerMovesKeep
<1>3. CASE ArchiveReady(chain) /\ db' = [db EXCEPT !.row = ArchivedRow(chain)]
           /\ ix' = [ix EXCEPT !.pc = "prove"]
  <2>1. /\ ArchiveCandidate(db.row) /\ Final(chain)
        /\ fetchProjectionDigest(db).processed = Cardinality(chain.deployed)
        /\ \/ roundProjectionMatchesChain(chain, fetchProjectionDigest(db))
           \/ refundedRoundProjectionMatchesChain(chain, fetchProjectionDigest(db), db)
      BY <1>3 DEF ArchiveReady
  <2>2. db.bets = Bets(chain.deployed)
      BY <1>1, <2>1, MatchMeansFull DEF ChainSound, AccountType, TablesSound
  <2>3. PICK w : w = ArchivedRow(chain)
      OBVIOUS
  <2>4. /\ w \in RowType /\ w.verified = db.row.verified /\ w.hash = db.row.hash
        /\ w.resolved = chain.settled
      BY <1>1, <2>3, ArchivedRowType
  <2>5. /\ db' \in TablesType /\ db'.row = w /\ db'.bets = db.bets
        /\ db'.settlements = db.settlements
      BY <1>1, <1>3, <2>3, <2>4 DEF TablesSound, TablesType
  <2>6. TablesSound(db')
      BY <1>1, <2>4, <2>5 DEF TablesSound
  <2>7. RosterSound(db')
      BY <2>2, <2>5, FullRosterSound
  <2>8. ~w.verified /\ Decided(chain) /\ ProcessedAll(chain)
      BY <2>1, <2>4 DEF ArchiveCandidate, Final, Decided
  <2>9. Exact(chain, buildArchiveSnapshot(w, db'))
    <3>1. {<<u.receipt, u.status>> : u \in FinalRows(db')}
             = {<<r, FinalStatus(chain)>> : r \in chain.deployed}
      <4>1. FinalRows(db') = FinalRows(db)
          BY <2>5 DEF FinalRows
      <4>2. QED
          BY <1>1, <2>1, <4>1, EveryReceiptFinal
    <3>2. QED
        BY <2>2, <2>4, <2>5, <3>1 DEF Exact, buildArchiveSnapshot, Facts
  <2>10. WasRead(ix.account)'
    <3>1. ix'.account = ix.account
        BY <1>1, <1>3 DEF IndexerType
    <3>2. QED
        BY <1>1, <3>1 DEF IInv, IndexerSound, IndexerMoves, Apart, WasRead, RosterAfter
  <2>11. chain' = chain
      BY <1>1 DEF IndexerMoves, Apart
  <2>12. IndexerSound'
      BY <1>1, <1>3, <2>5, <2>8, <2>9, <2>10, <2>11, GoesOn DEF ProcessedAll
  <2>13. QED
      BY <1>1, <2>6, <2>7, <2>12, IndexerMovesKeep
<1>4. QED
    BY <1>2, <1>3 DEF archiveReadyRounds

LEMMA ProofKeeps ==
    ASSUME IInv, upsertProof
    PROVE  IInv'
<1>1. /\ ix.pc = "prove" /\ ix \in IndexerType /\ Apart /\ UNCHANGED <<db, cursor, legacy, faults>>
      /\ proof' = buildArchiveSnapshot(db.row, db) /\ ix' = [ix EXCEPT !.pc = "attest"]
      /\ TablesSound(db) /\ RosterSound(db)
    BY DEF upsertProof, At, Apart, IInv, IndexerSound
<1>2. /\ ~db.row.verified /\ Decided(chain) /\ ProcessedAll(chain)
      /\ Exact(chain, buildArchiveSnapshot(db.row, db))
    BY <1>1 DEF IInv, IndexerSound, ArchivingSound
<1>3. proof' \in ProofType
    BY <1>1 DEF buildArchiveSnapshot, Facts, FinalRows, ProofType, SnapshotType, FactsType,
                TablesSound, TablesType, RowType
<1>4. TablesSound(db)'
    BY <1>1, <1>2 DEF Apart, TablesSound
<1>5. WasRead(ix.account)'
    BY <1>1 DEF IInv, IndexerSound, Apart, WasRead, RosterAfter
<1>6. IndexerSound'
    BY <1>1, <1>2, <1>5, GoesOn DEF Apart, ProcessedAll
<1>7. RestSound'
    BY <1>1, <1>3, NotLegacy DEF Apart, IInv, RestSound, LegacySound
<1>8. QED
    BY <1>1, <1>4, <1>6, <1>7, StepKeeps

LEMMA SendKeeps ==
    ASSUME IInv, sendArchive
    PROVE  IInv'
<1>1. /\ ix.pc = "attest" /\ ix \in IndexerType /\ UNCHANGED <<db, proof, cursor, legacy>>
      /\ ~legacy /\ faults' \in 0..MaxFaults
      /\ (ix' = [ix EXCEPT !.pc = "verify"]) \/ Throw
    BY NotLegacy, RoundIndexAssumption DEF sendArchive, At, IInv, IndexerSound, RestSound
<1>2. ~db.row.verified /\ Decided(chain) /\ ProcessedAll(chain) /\ Exact(chain, proof)
    BY <1>1 DEF IInv, IndexerSound, ArchivingSound
<1>3. AccountMoves /\ LogMoves
  <2>1. CASE UNCHANGED <<chain, log>>
      BY <2>1 DEF IInv, ChainSound, AccountMoves, LogMoves
  <2>2. CASE chain' = [chain EXCEPT !.archived = proof] /\ log' = Append(log, <<Plain("Archived")>>)
    <3>1. PICK s : s = proof
        OBVIOUS
    <3>2. s \in ProofType /\ chain' = [chain EXCEPT !.archived = s] /\ Exact(chain, s)
        BY <1>2, <2>2, <3>1 DEF IInv, RestSound
    <3>3. chain \in AccountType
        BY DEF IInv, ChainSound
    <3>4. chain' \in AccountType /\ chain'.archived = s
        BY <3>2, <3>3 DEF AccountType
    <3>5. /\ chain'.deployed = chain.deployed /\ chain'.processed = chain.processed
          /\ chain'.closed = chain.closed /\ chain'.settled = chain.settled
          /\ chain'.expired = chain.expired /\ chain'.locked = chain.locked
          /\ chain'.live = chain.live
        BY <3>2, <3>3 DEF AccountType
    <3>6. AccountMoves
        BY <1>2, <3>2, <3>4, <3>5 DEF IInv, ChainSound, AccountMoves, Decided
    <3>7. chain'.settled \in BOOLEAN /\ "Archived" \in Kinds
        BY <3>4 DEF AccountType, Kinds
    <3>8. LogMoves
        BY <2>2, <3>5, <3>7, PlainEvents, PlainMoves
    <3>9. QED
        BY <3>6, <3>8
  <2>3. QED
      BY <2>1, <2>2 DEF sendArchive, chainVars
<1>4. /\ ChainSound' /\ LogSound' /\ TablesSound(db)' /\ RosterSound(db)'
      /\ \A a : WasRead(a) => WasRead(a)'
    BY <1>1, <1>3, TablesRemain
<1>5. IndexerSound'
  <2>1. CASE Throw
      BY <1>4, <2>1, RestartKeeps DEF Restarts
  <2>2. CASE ix' = [ix EXCEPT !.pc = "verify"]
    <3>1. PICK a : a = ix.account
        OBVIOUS
    <3>2. WasRead(a)'
        BY <1>4, <3>1 DEF IInv, IndexerSound
    <3>3. ix'.account = a
        BY <1>1, <2>2, <3>1 DEF IndexerType
    <3>4. WasRead(ix.account)'
        BY <3>2, <3>3 DEF WasRead
    <3>5. QED
        BY <1>1, <1>2, <2>2, <3>4, GoesOn
  <2>3. QED
      BY <1>1, <2>1, <2>2
<1>6. cursor' \in 0..Len(log')
    BY <1>1, <1>3, LogPrefix DEF IInv, RestSound
<1>7. RestSound'
    BY <1>1, <1>6 DEF IInv, RestSound, LegacySound
<1>8. QED
    BY <1>4, <1>5, <1>7 DEF IInv

LEMMA VerifyKeeps ==
    ASSUME IInv, verifyArchive
    PROVE  IInv'
<1>1. /\ IndexerMoves /\ Throw /\ TablesSound(db) /\ RosterSound(db)
      /\ chain.buyback \in BOOLEAN /\ proof \in ProofType
    BY NotLegacy DEF verifyArchive, At, IndexerMoves, Apart, IInv, ChainSound, AccountType, RestSound
<1>2. IndexerSound'
    BY <1>1, RestartKeeps, ApartKeeps DEF IndexerMoves, Restarts
<1>3. TablesSound(db') /\ RosterSound(db')
  <2>1. CASE db' = db
      BY <1>1, <2>1
  <2>2. CASE /\ chain.archived = proof
             /\ db' = [db EXCEPT !.row.hash = proof, !.row.verified = TRUE,
                                 !.row.buyback = chain.buyback]
    <3>1. PICK s, b : s = proof /\ b = chain.buyback
        OBVIOUS
    <3>2. s \in ProofType /\ b \in BOOLEAN /\ db \in TablesType
        BY <1>1, <3>1 DEF TablesSound
    <3>3. db' = [db EXCEPT !.row.hash = s, !.row.verified = TRUE, !.row.buyback = b]
        BY <2>2, <3>1
    <3>4. /\ db' \in TablesType /\ db'.bets = db.bets /\ db'.settlements = db.settlements
          /\ db'.row.hash = s /\ db'.row.verified = TRUE
          /\ db'.row.complete = db.row.complete /\ db'.row.resolved = db.row.resolved
        BY <3>2, <3>3 DEF TablesType, RowType
    <3>5. TablesSound(db')
        BY <1>1, <2>2, <3>1, <3>4 DEF TablesSound
    <3>6. RosterSound(db')
        BY <1>1, <3>4 DEF RosterSound
    <3>7. QED
        BY <3>5, <3>6
  <2>3. QED
      BY <2>1, <2>2 DEF verifyArchive
<1>4. QED
    BY <1>1, <1>2, <1>3, IndexerMovesKeep

\* The process may die between any two awaits.
LEMMA AbortKeeps ==
    ASSUME IInv, Abort
    PROVE  IInv'
<1>1. /\ Apart /\ UNCHANGED <<db, proof, cursor, legacy>> /\ Throw /\ ix.pc # "idle"
      /\ faults' \in 0..MaxFaults /\ ~legacy
    BY NotLegacy, RoundIndexAssumption DEF Abort, At, Apart, IInv, RestSound
<1>2. IndexerSound'
    BY <1>1, RestartKeeps, ApartKeeps DEF Restarts
<1>3. TablesSound(db)' /\ RosterSound(db')
    BY <1>1 DEF IInv, Apart, TablesSound, RosterSound
<1>4. RestSound'
    BY <1>1 DEF IInv, Apart, RestSound, LegacySound
<1>5. QED
    BY <1>1, <1>2, <1>3, <1>4, StepKeeps

\* While the earlier release runs, no row is marked complete.
LEMMA LegacyKeeps ==
    ASSUME IInv, NEW harm \in BOOLEAN, LegacyIndex(harm)
    PROVE  IInv'
<1> DEFINE d == AfterLegacyEvents(db, cursor + 1, harm)[Len(log[cursor + 1])]
<1>1. /\ legacy /\ cursor < Len(log) /\ Apart /\ UNCHANGED <<proof, legacy, ix>>
      /\ db' = d /\ cursor' = cursor + 1
      /\ cursor \in Nat /\ Len(log) \in Nat /\ ~db.row.complete
    BY DEF LegacyIndex, Apart, IInv, RestSound, LegacySound, LogSound
<1>2. cursor + 1 \in DOMAIN log
    BY <1>1 DEF IInv, LogSound
<1>3. TablesSound(d) /\ ~d.row.complete
  <2>1. PICK i : i = cursor + 1
      OBVIOUS
  <2>2. /\ Len(log[i]) \in Nat
        /\ \A k \in 0..Len(log[i]) :
              TablesSound(AfterLegacyEvents(db, i, harm)[k])
              /\ ~AfterLegacyEvents(db, i, harm)[k].row.complete
      BY <1>1, <1>2, <2>1, LegacyTransactionKeeps DEF IInv
  <2>3. Len(log[i]) \in 0..Len(log[i])
      BY <2>2
  <2>4. QED
      BY <2>1, <2>2, <2>3
<1> HIDE DEF d
<1>4. TablesSound(db)' /\ RosterSound(db')
    BY <1>1, <1>3 DEF Apart, TablesSound, RosterSound
<1>5. IndexerSound'
  <2>1. ix.pc = "idle" /\ ix \in IndexerType /\ WasRead(ix.account)
      BY <1>1 DEF IInv, RestSound, LegacySound, IndexerSound
  <2>2. WasRead(ix.account)'
      BY <1>1, <2>1 DEF Apart, WasRead, RosterAfter
  <2>3. QED
      BY <1>1, <2>1, <2>2
      DEF IndexerSound, ReconcileSound, ReplaySound, ForwardSound, ArchivingSound
<1>6. faults' \in 0..MaxFaults
    BY RoundIndexAssumption DEF LegacyIndex, IInv, RestSound
<1>7. RestSound'
  <2>1. cursor' \in 0..Len(log')
      BY <1>1 DEF Apart
  <2>2. QED
      BY <1>1, <1>3, <1>6, <2>1 DEF IInv, RestSound, LegacySound
<1>8. QED
    BY <1>1, <1>4, <1>5, <1>7, StepKeeps

LEMMA UpgradeKeeps ==
    ASSUME IInv, Upgrade
    PROVE  IInv'
<1>1. Apart /\ UNCHANGED <<db, proof, cursor, ix, faults>> /\ legacy' = FALSE
    BY DEF Upgrade, Apart
<1>2. ChainSound' /\ LogSound'
    BY <1>1, ApartKeeps
<1>3. TablesSound(db)' /\ RosterSound(db')
    BY <1>1 DEF IInv, Apart, TablesSound, RosterSound
<1>4. IndexerSound'
    BY <1>1 DEF IInv, Apart, IndexerSound, WasRead, RosterAfter, ReconcileSound, ReplaySound,
                ReplayedSound, ForwardSound, ArchivingSound, ProcessedAll
<1>5. RestSound'
    BY <1>1 DEF IInv, Apart, RestSound, LegacySound
<1>6. QED
    BY <1>1, <1>3, <1>4, <1>5, StepKeeps

LEMMA StutterKeeps ==
    ASSUME IInv, UNCHANGED vars
    PROVE  IInv'
<1>1. Apart /\ UNCHANGED <<db, proof, cursor, legacy, ix, faults>>
    BY DEF vars, Apart
<1>2. AccountMoves /\ LogMoves
    BY <1>1 DEF IInv, ChainSound, Apart, AccountMoves, LogMoves
<1>3. QED
    BY <1>1, <1>2, ChainMovesKeep DEF ChainMoves

\* The log opens with the round and says nothing of receipts.
LEMMA InitSound ==
    ASSUME Init
    PROVE  IInv
<1> DEFINE tx == <<Plain("Opened"), Plain("Commitment")>>
<1>1. EmptyAccount \in AccountType /\ EmptyRow \in RowType
    BY EmptyRowType DEF EmptyAccount, AccountType, ProofType
<1>2. ChainSound
    BY <1>1 DEF Init, ChainSound, EmptyAccount, Decided
<1>3. /\ tx \in Seq(EventType) /\ DOMAIN tx = 1..2
      /\ tx[1] \in EventType /\ tx[2] \in EventType
      /\ tx[1].kind = "Opened" /\ tx[2].kind = "Commitment"
    BY DEF Plain, Event, EventType, Kinds
<1>4. log = <<tx>>
    BY DEF Init
<1> HIDE DEF tx
<1>5. log \in Seq(Seq(EventType)) /\ DOMAIN log = {1} /\ Len(log) = 1 /\ log[1] = tx
    BY <1>3, <1>4
<1>6. LogSound
  <2>1. \A k \in 1..2 : k = 1 \/ k = 2
      OBVIOUS
  <2>2. \A k \in DOMAIN tx : tx[k] \in EventType
      BY <1>3, <2>1
  <2>3. \A k \in DOMAIN tx : Truthful(chain, tx[k])
      BY <1>3, <2>1, <2>2 DEF Truthful
  <2>4. chain.deployed = {}
      BY DEF Init, EmptyAccount
  <2>5. QED
      BY <1>5, <2>3, <2>4 DEF LogSound
<1>7. TablesSound(db) /\ RosterSound(db)
  <2>1. db.row = EmptyRow /\ db.bets = {} /\ db.settlements = {} /\ db \in TablesType
      BY <1>1 DEF Init, TablesType
  <2>2. ~db.row.complete /\ ~db.row.resolved /\ ~db.row.verified
      BY <2>1 DEF EmptyRow
  <2>3. QED
      BY <2>1, <2>2 DEF TablesSound, RosterSound
<1>8. IndexerSound
  <2>1. ix = [pc |-> "idle", account |-> EmptyAccount, row |-> EmptyRow,
              i |-> 0, j |-> 0, n |-> 0, whole |-> TRUE]
      BY DEF Init, Idle
  <2>2. ix \in IndexerType /\ ix.pc = "idle" /\ ix.account = EmptyAccount
      BY <1>1, <2>1 DEF IndexerType, Pcs
  <2>3. WasRead(EmptyAccount)
    <3>1. RosterAfter(0) = {} /\ Bets({}) = {} /\ 0 \in 0..Len(log)
        BY <1>5 DEF RosterAfter, Bets
    <3>2. QED
        BY <1>1, <3>1 DEF WasRead, EmptyAccount, Decided
  <2>4. QED
      BY <2>2, <2>3 DEF IndexerSound, ReconcileSound, ReplaySound, ForwardSound, ArchivingSound
<1>9. RestSound
    BY <1>5, <1>7, RoundIndexAssumption
    DEF Init, RestSound, LegacySound, ProofType, Idle, EmptyRow
<1>10. QED
    BY <1>2, <1>6, <1>7, <1>8, <1>9 DEF IInv

LEMMA NextKeeps ==
    ASSUME IInv, [Next]_vars
    PROVE  IInv'
<1>1. CASE ChainStep
  <2>1. UNCHANGED Unread
      BY <1>1 DEF ChainStep, Unread
  <2>2. ChainMoves
      BY <1>1, <2>1, DeployKeeps, LockKeeps, SettleKeeps, RefundTimeKeeps, BuybackKeeps
      DEF ChainStep
  <2>3. QED
      BY <2>2, ChainMovesKeep
<1>2. CASE IndexerStep
    BY <1>2, TickKeeps, ReconcileLiveKeeps, ReconcileClosedKeeps, ReplayKeeps, PruneKeeps,
       FinishKeeps, SignaturesKeep, IndexKeeps, ForwardDoneKeeps, ArchiveReadyKeeps,
       ProofKeeps, SendKeeps, VerifyKeeps
    DEF IndexerStep
<1>3. CASE KeeperStep
    BY <1>3, SettleOrRefundKeeps, CloseReceiptsKeeps, CloseRoundKeeps, ChainMovesKeep
    DEF KeeperStep
<1>4. CASE SkipUnavailable \/ Abort \/ Upgrade
    BY <1>4, SkipKeeps, AbortKeeps, UpgradeKeeps
<1>5. CASE \E harm \in BOOLEAN : LegacyIndex(harm)
    BY <1>5, LegacyKeeps
<1>6. CASE UNCHANGED vars
    BY <1>6, StutterKeeps
<1>7. QED
    BY <1>1, <1>2, <1>3, <1>4, <1>5, <1>6 DEF Next

LEMMA Inductive == Spec => []IInv
<1>1. Init => IInv
    BY InitSound
<1>2. IInv /\ [Next]_vars => IInv'
    BY NextKeeps
<1>3. QED
    BY <1>1, <1>2, PTL DEF Spec

-----------------------------------------------------------------------------
(* What a reader of the public record may rely on.                         *)

\* projection_complete is true only of a roster that some prefix of the
\* history deployed, and of all of it once the round is shown as settled: in
\* every table an earlier release may have left, after any failure.
THEOREM PublishedRosterIsExact == Spec => []PublishedRosterExact
<1>1. IInv => PublishedRosterExact
  <2> SUFFICES ASSUME IInv PROVE PublishedRosterExact
      OBVIOUS
  <2>1. TypeOK
      BY DEF IInv, ChainSound, RestSound, TablesSound, TablesType, IndexerSound, IndexerType,
             Pcs, TypeOK
  <2>2. RosterAfter(Len(log)) = Bets(chain.deployed)
      BY RosterOfDeployed DEF IInv, LogSound, ChainSound, AccountType
  <2>3. QED
      BY <2>1, <2>2 DEF IInv, RosterSound, PublishedRosterExact
<1>2. QED
    BY <1>1, Inductive, PTL

\* The archive that outlives the round account (archive_round, then the
\* mine_round_proofs row) holds every wager and the one true final status of
\* every receipt, and the index calls no other archive verified.
THEOREM AttestedArchiveIsExact == Spec => []ArchiveExact
<1>1. IInv => ArchiveExact
  <2> SUFFICES ASSUME IInv PROVE ArchiveExact
      OBVIOUS
  <2>1. RosterAfter(Len(log)) = Bets(chain.deployed)
      BY RosterOfDeployed DEF IInv, LogSound, ChainSound, AccountType
  <2>2. chain.archived # NoSnapshot => Exact(chain, chain.archived)
      BY DEF IInv, ChainSound
  <2>3. db.row.verified => db.row.hash = chain.archived /\ proof = chain.archived
      BY DEF IInv, TablesSound
  <2>4. QED
      BY <2>1, <2>2, <2>3 DEF ArchiveExact, Exact, FinalStatus
<1>2. QED
    BY <1>1, Inductive, PTL
=============================================================================
