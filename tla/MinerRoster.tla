---------------------------- MODULE MinerRoster ----------------------------
(***************************************************************************)
(* Who mined a settled round, as the pages show it: the card of the latest *)
(* played round (main.js), the winner counts and wallet positions of the   *)
(* history rows (rounds-page.js) and the panel of a row.  They read the    *)
(* Round account, the receipts while these are open, and the public index, *)
(* each at its own moment.  The index follows the finalized chain: a row   *)
(* called complete lists a prefix of the wagers, and all of them once it   *)
(* is resolved (PublishedRosterExact of RoundIndex).                       *)
(***************************************************************************)
EXTENDS Integers, Sequences, FiniteSetsExt

CONSTANTS
    LastRound,
    Receipts, RoundOf, MinerOf,
    Tiles, Stake,            \* Stake[p][t]: lamports of receipt p on tile t
    Prize, Emission,         \* pools of a settled round
    Results,                 \* Results[r]: winning tile, mode and sample a round may draw
    MAX_ATTEMPTS,            \* direct reads of one roster before the page gives up
    Unknown,                 \* null
    MaxReloads               \* bound: reloads of the page

Rounds == 0..LastRound
Modes == {"split", "solo", "motherlode"}

\* A result is a tile, a mode and a sample; instances assume it.
RosterAssumption ==
    /\ LastRound \in Nat /\ MAX_ATTEMPTS \in Nat /\ Tiles # {}
    /\ \A r \in Rounds : Results[r] \subseteq [tile : Tiles, mode : Modes, sample : Nat]

VARIABLES
    route,     \* the open route: its readers share nothing with the other's
    chain,     \* per round: the Round account and its receipts
    index,     \* per round: the mine_rounds row and the wagers indexed
    known,     \* newest settled round of the page's state, newest played one
    card,      \* the round on the card and its roster
    stored,    \* localStorage 'myne-previous-miners'
    direct,    \* the direct read of the card
    refresh,   \* the newest indexed refresh of the card
    history,   \* a history row on its way
    shown,     \* the history rows: count of winners, position of the wallet
    panel,     \* minersCache
    reloads

cardVars == <<known, card, stored, direct, refresh, reloads>>
rowVars == <<history, shown, panel>>
vars == <<route, chain, index, known, card, stored, direct, refresh, history, shown, panel, reloads>>

\* A history row depends on its own round alone; the card on all of them.
Watched == IF route = "rounds" THEN {0} ELSE Rounds
NoRound == -1
me == MinerOf[CHOOSE p \in Receipts : RoundOf[p] = 0]

-----------------------------------------------------------------------------
(* Rosters.                                                                *)

Deployed(r) == Range(chain[r].deployed)
Indexed(r) == {chain[r].deployed[i] : i \in 1..index[r].wagers}
Sum(f(_), S) == MapThenSumSet(f, S)

\* What the settled Round account and its receipts say of a round.
Outcome(r) ==
    [deployed |-> chain[r].deployed, tile |-> chain[r].tile, mode |-> chain[r].mode, sample |-> chain[r].sample]

Place(o, p) == CHOOSE i \in DOMAIN o.deployed : o.deployed[i] = p
\* cumulative_starts[t] of a receipt: what lay on the tile before it.
Start(o, p, t) ==
    Sum(LAMBDA q : Stake[q][t], {q \in Range(o.deployed) : Place(o, q) < Place(o, p)})
WinnerTotal(o) == Sum(LAMBDA p : Stake[p][o.tile], Range(o.deployed))

intervalReward(pool, start, amount, total) ==
    IF amount <= 0 \/ total <= 0 \/ start + amount > total THEN 0
    ELSE (pool * (start + amount)) \div total - (pool * start) \div total

Reward(pool, o, p) ==
    intervalReward(pool, Start(o, p, o.tile), Stake[p][o.tile], WinnerTotal(o))

\* The receipt whose interval holds the sample.
soloReceipt(o, P) ==
    {p \in P : o.sample \in Start(o, p, o.tile) .. (Start(o, p, o.tile) + Stake[p][o.tile] - 1)}

\* indexedMinerRoster and readRoundWinners: one entry for each miner of the
\* receipts P.  The shared pools of a motherlode are not part of it.
MinerEntry(o, P, m) ==
    LET mine == {p \in P : MinerOf[p] = m}
        stake == Sum(LAMBDA p : Stake[p][o.tile], mine)
        solo == soloReceipt(o, P) \cap mine # {}
    IN  [deployed |-> Sum(LAMBDA p : Sum(LAMBDA t : Stake[p][t], Tiles), mine),
         stake |-> stake,
         won |-> o.mode = "motherlode" \/ stake > 0,
         sol |-> Sum(LAMBDA p : Reward(Prize, o, p), mine),
         myne |-> IF o.mode = "solo" THEN IF solo THEN Emission ELSE 0
                  ELSE Sum(LAMBDA p : Reward(Emission, o, p), mine)]
readRoundWinners(o, P) == [m \in {MinerOf[p] : p \in P} |-> MinerEntry(o, P, m)]

\* Wallets that count as winners of a settled round.
winnerCountsFromIndexedBets(o, P) ==
    Cardinality({MinerOf[p] : p \in {q \in P : o.mode = "motherlode" \/ Stake[q][o.tile] > 0}})

Position(o, P) ==
    Sum(LAMBDA p : IF o.mode = "motherlode" THEN Sum(LAMBDA t : Stake[p][t], Tiles) ELSE Stake[p][o.tile],
        {p \in P : MinerOf[p] = me})

-----------------------------------------------------------------------------
(* The chain and the index.                                                *)

deploy ==
    /\ \E p \in Receipts : LET r == RoundOf[p] IN
          /\ r \in Watched /\ ~chain[r].settled /\ p \notin Deployed(r)
          /\ r > 0 => chain[r - 1].settled
          /\ chain' = [chain EXCEPT ![r].deployed = Append(@, p), ![r].open = @ \cup {p}]
    /\ UNCHANGED <<index, cardVars, rowVars>>

Drawn(c, d) == [c EXCEPT !.settled = TRUE, !.tile = d.tile, !.mode = d.mode, !.sample = d.sample]

settleRound ==
    /\ \E r \in Watched : \E d \in Results[r] :
          /\ ~chain[r].settled /\ (r > 0 => chain[r - 1].settled)
          /\ chain' = [chain EXCEPT ![r] = Drawn(@, d)]
    /\ UNCHANGED <<index, cardVars, rowVars>>

\* Receipts and round accounts are closed once their archive is verified.
closeAccounts ==
    /\ \E r \in Watched :
          /\ chain[r].live /\ index[r].resolved /\ index[r].wagers = Len(chain[r].deployed)
          /\ \/ \E p \in chain[r].open : chain' = [chain EXCEPT ![r].open = @ \ {p}]
             \/ chain[r].open = {} /\ chain' = [chain EXCEPT ![r].live = FALSE]
    /\ UNCHANGED <<index, cardVars, rowVars>>

\* A newer finalized deployment makes the row provisional before it is added.
indexDeployment ==
    /\ \E r \in Watched :
          /\ index[r].wagers < Len(chain[r].deployed)
          /\ index' = [index EXCEPT ![r].wagers = @ + 1, ![r].complete = FALSE]
    /\ UNCHANGED <<chain, cardVars, rowVars>>

\* The row is compared with the finalized account, which may still be unsettled
\* and hold no more wagers than the index.
publishRow ==
    /\ \E r \in Watched :
          \/ /\ ~index[r].resolved
             /\ index' = [index EXCEPT ![r].complete = TRUE]
          \/ /\ chain[r].settled
             /\ index' = [index EXCEPT ![r].resolved = TRUE,
                              ![r].complete = (index[r].wagers = Len(chain[r].deployed))]
    /\ UNCHANGED <<chain, cardVars, rowVars>>

\* A repair withdraws the row first.
withdrawRow ==
    /\ \E r \in Rounds : index[r].complete /\ index' = [index EXCEPT ![r].complete = FALSE]
    /\ UNCHANGED <<chain, cardVars, rowVars>>

-----------------------------------------------------------------------------
(* The card.                                                               *)

NoDirect == [request |-> NoRound, retry |-> NoRound, attempt |-> 0, timer |-> NoRound, reads |-> {}]
NoRefresh == [pc |-> "off", round |-> NoRound]
NoCard == [key |-> NoRound, rows |-> <<>>]

Played(r) == chain[r].deployed # <<>>
Newer(a, b) == IF a > b THEN a ELSE b

\* publishResolvedRound, from the account or from the index.
publishResolvedRound ==
    /\ \E r \in Rounds :
          /\ chain[r].settled /\ (chain[r].live \/ index[r].resolved)
          /\ known' = [last |-> Newer(known.last, r),
                       played |-> IF Played(r) THEN Newer(known.played, r) ELSE known.played]
    /\ UNCHANGED <<chain, index, card, stored, direct, refresh, rowVars, reloads>>

confirmedMinerSource == IF known.played # NoRound THEN known.played ELSE known.last

shouldRefreshConfirmedMiners(s) == s # NoRound /\ s # direct.request /\ s > card.key

\* A roster on the card is kept for the next visit.
renderConfirmedMiners(r, rows) ==
    card' = [key |-> r, rows |-> rows] /\ stored' = card'

scheduleRoundMinersRefresh ==
    LET s == confirmedMinerSource
        n == IF direct.retry = s THEN direct.attempt ELSE 0
    IN  /\ shouldRefreshConfirmedMiners(s) /\ n < MAX_ATTEMPTS
        /\ direct' = [direct EXCEPT !.request = s, !.retry = s, !.attempt = n, !.timer = s]
        /\ UNCHANGED <<chain, index, known, card, stored, refresh, rowVars, reloads>>

Released(d, s) == [d EXCEPT !.request = IF @ = s THEN NoRound ELSE @]

fetchConfirmedMiners ==
    /\ direct.timer # NoRound
    /\ direct' = IF confirmedMinerSource = direct.timer
                 THEN [direct EXCEPT !.timer = NoRound, !.reads = @ \cup {direct.timer}]
                 ELSE Released([direct EXCEPT !.timer = NoRound], direct.timer)
    /\ UNCHANGED <<chain, index, known, card, stored, refresh, rowVars, reloads>>

\* The receipts of a round by one filtered scan, or looked up one by one from
\* the index while that calls itself complete.
scanReceipts(r) == chain[r].open
loadReceiptIndex(r) == IF index[r].complete THEN Indexed(r) \cap chain[r].open ELSE scanReceipts(r)

\* Either counts only if it is as many as the account says; a missing account
\* says none.
decodedReceipts(r) ==
    {P \in {scanReceipts(r), loadReceiptIndex(r)} :
        Cardinality(P) = IF chain[r].live THEN Len(chain[r].deployed) ELSE 0}

isConfirmedEmptyRound(r) == ~Played(r)

\* A newer round was published meanwhile.  That such a read, if it fails, also
\* starts a refresh and holds back the newer round's is left out: a refresh may
\* start at any time, and a read never has to.
supersededRead(s) ==
    /\ confirmedMinerSource # s
    /\ direct' = Released([direct EXCEPT !.reads = @ \ {s}], s)
    /\ UNCHANGED <<card, stored, refresh>>

\* The RPC refuses, or not every receipt is open.
retryLater(s) ==
    LET d == Released([direct EXCEPT !.reads = @ \ {s}, !.attempt = @ + 1], s)
    IN  /\ confirmedMinerSource = s
        /\ direct' = d /\ UNCHANGED <<card, stored>>
        /\ refresh' = IF d.attempt >= MAX_ATTEMPTS THEN [NoRefresh EXCEPT !.pc = "row"] ELSE refresh

rosterRead(s) ==
    /\ confirmedMinerSource = s
    /\ \E P \in decodedReceipts(s) :
          /\ P # {} \/ isConfirmedEmptyRound(s)
          /\ renderConfirmedMiners(s, readRoundWinners(Outcome(s), P))
    /\ direct' = Released([direct EXCEPT !.reads = @ \ {s}, !.attempt = 0], s)
    /\ UNCHANGED refresh

confirmedMinersArrive ==
    /\ \E s \in direct.reads : supersededRead(s) \/ retryLater(s) \/ rosterRead(s)
    /\ UNCHANGED <<chain, index, known, rowVars, reloads>>

\* A poll, a Realtime notice or the route starts a refresh; an older one ends.
refreshIndexedConfirmedMiners ==
    /\ refresh' = [NoRefresh EXCEPT !.pc = "row"]
    /\ UNCHANGED <<chain, index, known, card, stored, direct, rowVars, reloads>>

ResolvedAndPlayed == {r \in Rounds : index[r].resolved /\ Played(r)}
loadLatestPlayedSettledRound ==
    /\ refresh.pc = "row"
    /\ refresh' = IF ResolvedAndPlayed = {} THEN NoRefresh
                  ELSE LET s == Max(ResolvedAndPlayed)
                       IN IF s > card.key /\ index[s].complete
                          THEN [pc |-> "wagers", round |-> s] ELSE NoRefresh
    /\ UNCHANGED <<chain, index, known, card, stored, direct, rowVars, reloads>>

loadIndexedMinerRoster ==
    /\ refresh.pc = "wagers"
    /\ renderConfirmedMiners(refresh.round, readRoundWinners(Outcome(refresh.round), Indexed(refresh.round)))
    /\ direct' = Released(direct, refresh.round)
    /\ refresh' = NoRefresh
    /\ UNCHANGED <<chain, index, known, rowVars, reloads>>

requestFails ==
    /\ refresh.pc # "off" /\ refresh' = NoRefresh
    /\ UNCHANGED <<chain, index, known, card, stored, direct, rowVars, reloads>>

reload ==
    /\ reloads < MaxReloads /\ reloads' = reloads + 1
    /\ known' = [last |-> NoRound, played |-> NoRound] /\ card' = stored
    /\ direct' = NoDirect /\ refresh' = NoRefresh
    /\ UNCHANGED <<chain, index, stored, rowVars>>

-----------------------------------------------------------------------------
(* The history rows and their panels.                                      *)

NoHistory == [pc |-> "idle", round |-> NoRound, complete |-> FALSE]
NoRow == [listed |-> FALSE, winners |-> Unknown, position |-> Unknown]

\* A settled row comes from the account, read first, or from the page of the
\* index, which brings the health flag with it.
loadRoundHistory ==
    /\ history.pc = "idle"
    /\ \E r \in Rounds :
          \/ /\ chain[r].live /\ chain[r].settled
             /\ history' = [pc |-> "projection", round |-> r, complete |-> FALSE]
          \/ /\ index[r].resolved
             /\ history' = [pc |-> "counts", round |-> r, complete |-> index[r].complete]
    /\ UNCHANGED <<chain, index, cardVars, shown, panel>>

\* The health flag of an indexed row that is not yet settled is not carried over.
HealthOfAnyRow(row) == row.complete
mergedProjectionComplete(row) == row.complete /\ row.resolved

loadIndexedRoundProjectionRows ==
    /\ history.pc = "projection"
    /\ history' = [history EXCEPT !.pc = "counts",
                                  !.complete = mergedProjectionComplete(index[history.round])]
    /\ UNCHANGED <<chain, index, cardVars, shown, panel>>

\* mine_wallet_round_history_v1 answers for rows that are complete when it runs.
walletRoundHistory(r) ==
    IF index[r].resolved /\ index[r].complete THEN Position(Outcome(r), Indexed(r)) ELSE 0

\* Asked only with a session of the wallet, and for rows read as complete.
loadIndexedWalletRoundHistory(r, complete, session) ==
    IF complete /\ session THEN walletRoundHistory(r) ELSE Unknown

selectWalletRoundDecoration(r, complete, session) ==
    IF Position(Outcome(r), chain[r].open) > 0 THEN Position(Outcome(r), chain[r].open)
    ELSE loadIndexedWalletRoundHistory(r, complete, session)

loadIndexedWinnerCounts(r, complete, answered) ==
    IF complete /\ answered THEN winnerCountsFromIndexedBets(Outcome(r), Indexed(r)) ELSE Unknown

decorateRow ==
    LET r == history.round IN
    /\ history.pc = "counts"
    /\ \E session, answered \in BOOLEAN :
          shown' = [shown EXCEPT ![r] =
              [listed |-> TRUE,
               winners |-> loadIndexedWinnerCounts(r, history.complete, answered),
               position |-> selectWalletRoundDecoration(r, history.complete, session)]]
    /\ history' = NoHistory
    /\ UNCHANGED <<chain, index, cardVars, panel>>

\* loadRoundBets: the health flag, then the wagers; the answer is cached, a
\* missing one too.
Unread == [pc |-> "unread", rows |-> <<>>]
NotCached == [pc |-> "none", rows |-> <<>>]
loadMiners ==
    /\ \E r \in Rounds :
          /\ shown[r].listed /\ panel[r].pc = "unread"
          /\ panel' = [panel EXCEPT ![r] = IF index[r].complete THEN [@ EXCEPT !.pc = "wagers"]
                                           ELSE NotCached]
    /\ UNCHANGED <<chain, index, cardVars, history, shown>>

MinersOnSquare(o, P) ==
    LET on == {MinerOf[p] : p \in {q \in P : Stake[q][o.tile] > 0}}
    IN  [m \in on |-> [deployed |-> MinerEntry(o, P, m).deployed, stake |-> MinerEntry(o, P, m).stake]]

loadRoundBets ==
    /\ \E r \in Rounds :
          /\ panel[r].pc = "wagers"
          /\ \/ panel' = [panel EXCEPT ![r] = [pc |-> "rows", rows |-> MinersOnSquare(Outcome(r), Indexed(r))]]
             \/ panel' = [panel EXCEPT ![r] = NotCached]
    /\ UNCHANGED <<chain, index, cardVars, history, shown>>

-----------------------------------------------------------------------------
Init ==
    /\ route \in {"mine", "rounds"}
    /\ chain = [r \in Rounds |-> [deployed |-> <<>>, open |-> {}, settled |-> FALSE, live |-> TRUE,
                                  tile |-> CHOOSE t \in Tiles : TRUE, mode |-> "split", sample |-> 0]]
    /\ index = [r \in Rounds |-> [wagers |-> 0, resolved |-> FALSE, complete |-> FALSE]]
    /\ known = [last |-> NoRound, played |-> NoRound]
    /\ card = NoCard /\ stored = NoCard /\ direct = NoDirect /\ refresh = NoRefresh
    /\ history = NoHistory /\ shown = [r \in Rounds |-> NoRow]
    /\ panel = [r \in Rounds |-> Unread] /\ reloads = 0

ChainStep == deploy \/ settleRound \/ closeAccounts \/ indexDeployment \/ publishRow \/ withdrawRow
CardStep ==
    \/ publishResolvedRound \/ scheduleRoundMinersRefresh \/ fetchConfirmedMiners \/ confirmedMinersArrive
    \/ refreshIndexedConfirmedMiners \/ loadLatestPlayedSettledRound \/ loadIndexedMinerRoster
    \/ requestFails \/ reload
RowStep ==
    \/ loadRoundHistory \/ loadIndexedRoundProjectionRows \/ decorateRow
    \/ loadMiners \/ loadRoundBets

Next ==
    \/ ChainStep /\ UNCHANGED route
    \/ route = "mine" /\ CardStep /\ UNCHANGED route
    \/ route = "rounds" /\ RowStep /\ UNCHANGED route
Spec == Init /\ [][Next]_vars

-----------------------------------------------------------------------------
\* The published card, the stored card and the direct reads stay among the rounds.
TypeOK ==
    /\ card.key \in Rounds \cup {NoRound} /\ stored.key \in Rounds \cup {NoRound}
    /\ direct.reads \subseteq Rounds /\ direct.attempt \in 0..MAX_ATTEMPTS

\* What the pages publish about a settled round is exact or absent: the card
\* lists every miner with the rewards the program pays, and a history row
\* counts every winner, at whatever moments row, health flag, receipts and
\* wagers were read.
RosterExact ==
    /\ card.key # NoRound => card.rows = readRoundWinners(Outcome(card.key), Deployed(card.key))
    /\ \A r \in Rounds : shown[r].winners # Unknown =>
            shown[r].winners = winnerCountsFromIndexedBets(Outcome(r), Deployed(r))

\* "No reader can cache a partial roster as complete": the panel of a settled
\* row lists every miner on the winning square with all they deployed.
NoPartialRosterCached ==
    \A r \in Rounds : panel[r].pc = "rows" => panel[r].rows = MinersOnSquare(Outcome(r), Deployed(r))
=============================================================================
