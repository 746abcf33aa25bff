----------------------------- MODULE MineBoard -----------------------------
(***************************************************************************)
(* The Mine page of one browser (mine-page.js): the board of the current   *)
(* round, the latest results and the connected wallet's own tiles.  They   *)
(* are written by HTTP reads of the Round account, by websocket notices of *)
(* the current and the previous round, by reads of the wallet's receipts   *)
(* and by the confirmation of the page's own bids, all of which arrive in  *)
(* any order while rounds roll over and the user switches wallets.  The    *)
(* tiles are abstracted to one: every comparison and merge of the code is  *)
(* made tile by tile.                                                      *)
(***************************************************************************)
EXTENDS Integers, FiniteSets, FiniteSetsExt

CONSTANTS
    LastRound,     \* bound: rounds 0..LastRound
    Wallets,
    NoWallet,      \* state.account = null
    MaxBids,       \* bound: bids that land in a round
    MaxSwitches,   \* bound: account and route changes
    MaxNotices     \* bound: websocket notices on their way, later ones are lost

VARIABLES
    wager,         \* wager[r]: Round.totalWager, in bids
    bets,          \* bets[r][w]: what the open receipts of w hold
    resolved,      \* resolved[r]: the round is settled
    slot,          \* confirmed slot: one per change of an account
    notices,       \* websocket notices on their way
    roundReads,    \* HTTP reads of a Round account on their way
    walletReads,   \* reads of the wallet's receipts on their way
    bid,           \* the transaction of mine()
    roundId, account, live,
    currentRound,  \* the board shown, or NoBoard
    lastResolved, lastPlayed,   \* latest result, latest result with a wager; -1 for none
    myBets,
    confirmed,     \* confirmedTileBets
    stored,        \* stored[r][w]: its copy in localStorage, 0 for none
    switches

chain == <<wager, bets, resolved, slot>>
wire == <<notices, roundReads, walletReads>>
results == <<lastResolved, lastPlayed>>
vars == <<chain, wire, bid, roundId, account, live, currentRound, results, myBets, confirmed, stored, switches>>

Rounds == 0..LastRound
NoBoard == [round |-> -1, wager |-> 0, resolved |-> FALSE, slot |-> 0]
NoBid == [stage |-> "none", round |-> 0, account |-> NoWallet]
Nothing == [round |-> -1, account |-> NoWallet, amount |-> 0]

Init ==
    /\ wager = [r \in Rounds |-> 0] /\ bets = [r \in Rounds |-> [w \in Wallets |-> 0]]
    /\ resolved = [r \in Rounds |-> FALSE] /\ slot = 1
    /\ notices = {} /\ roundReads = {} /\ walletReads = {} /\ bid = NoBid
    /\ roundId = 0 /\ account = NoWallet /\ live = TRUE
    /\ currentRound = NoBoard /\ lastResolved = -1 /\ lastPlayed = -1
    /\ myBets = 0 /\ confirmed = Nothing
    /\ stored = [r \in Rounds |-> [w \in Wallets |-> 0]] /\ switches = 0

-----------------------------------------------------------------------------
(* The board.                                                              *)

\* publishResolvedRound: results only move forward.
publishResolvedRound(snap) ==
    LET shows == snap.resolved /\ snap.round <= roundId
    IN  /\ lastResolved' = IF shows THEN Max({lastResolved, snap.round}) ELSE lastResolved
        /\ lastPlayed' = IF shows /\ snap.wager > 0 THEN Max({lastPlayed, snap.round}) ELSE lastPlayed

\* applyRoundSnapshot refuses an answer for another round or one that is
\* older than the board shown.
Acceptable(snap) ==
    /\ snap.round = roundId
    /\ currentRound # NoBoard =>
        /\ snap.slot >= currentRound.slot
        /\ currentRound.resolved => snap.resolved
        /\ snap.wager >= currentRound.wager

applyRoundSnapshot(snap) ==
    IF Acceptable(snap) THEN currentRound' = snap /\ publishResolvedRound(snap)
    ELSE UNCHANGED <<currentRound, results>>

\* readRoundWithContext, answered as of now; refreshRound shares a read of
\* the same round that is still on its way.
Snapshot(r) == [round |-> r, wager |-> wager[r], resolved |-> resolved[r], slot |-> slot]
RoundReadStarted(r) ==
    roundReads \cup {x \in {Snapshot(r)} : \A y \in roundReads : y.round # r}

-----------------------------------------------------------------------------
(* The wallet's own tiles.                                                 *)

\* refreshWalletBets: shared per round and wallet; a new key supersedes the
\* request before it, whose answer is still used if round and wallet match.
WalletReadStarted ==
    IF \E x \in walletReads : x.current /\ x.round = roundId /\ x.account = account THEN walletReads
    ELSE {[x EXCEPT !.current = FALSE] : x \in walletReads}
         \cup {[round |-> roundId, account |-> account, amount |-> bets[roundId][account], current |-> TRUE]}

Remembers(r, w) == confirmed.round = r /\ confirmed.account = w
mergeConfirmedTileBets(onChain, local) == Max({onChain, local})

\* reconcileConfirmedTileBets: what was confirmed here wins over an older
\* read, and is forgotten once a read has caught up with it.
ReplaceByRead(onChain) == myBets' = onChain /\ UNCHANGED <<confirmed, stored>>
reconcileConfirmedTileBets(onChain) ==
    LET local == IF Remembers(roundId, account) THEN confirmed.amount ELSE stored[roundId][account]
        restored == Remembers(roundId, account) \/ local > 0
    IN  IF ~restored THEN myBets' = onChain /\ UNCHANGED <<confirmed, stored>>
        ELSE /\ myBets' = mergeConfirmedTileBets(onChain, local)
             /\ confirmed' = IF onChain >= local THEN Nothing
                             ELSE [round |-> roundId, account |-> account, amount |-> local]
             /\ stored' = [stored EXCEPT ![roundId][account] = IF onChain >= local THEN 0 ELSE local]

\* rememberConfirmedTileBets adds the bid to what the page shows already.
rememberConfirmedTileBets ==
    LET before == IF Remembers(roundId, account) THEN confirmed.amount ELSE 0
        amount == Max({before, myBets}) + 1
    IN  /\ confirmed' = [round |-> roundId, account |-> account, amount |-> amount]
        /\ stored' = [stored EXCEPT ![roundId][account] = amount]
        /\ myBets' = mergeConfirmedTileBets(myBets, amount)

clearStored ==
    IF confirmed = Nothing THEN stored ELSE [stored EXCEPT ![confirmed.round][confirmed.account] = 0]

-----------------------------------------------------------------------------
(* The chain: bids of this wallet from elsewhere (a plan, another device), *)
(* bids of the page, settlements.  Each notifies the subscribed page.      *)

Notify(r) ==
    notices' = IF r \in {roundId, roundId - 1} /\ live /\ Cardinality(notices) < MaxNotices
               THEN notices \cup {[Snapshot(r) EXCEPT !.wager = wager'[r], !.resolved = resolved'[r], !.slot = slot + 1]}
               ELSE notices

Deploy(r, w) ==
    /\ ~resolved[r] /\ wager[r] < MaxBids
    /\ wager' = [wager EXCEPT ![r] = @ + 1] /\ bets' = [bets EXCEPT ![r][w] = @ + 1]
    /\ slot' = slot + 1 /\ UNCHANGED resolved /\ Notify(r)

deployElsewhere ==
    /\ \E w \in Wallets : Deploy(roundId, w)
    /\ UNCHANGED <<roundReads, walletReads, bid, roundId, account, live, currentRound, results, myBets, confirmed,
                   stored, switches>>

settle ==
    /\ \E r \in 0..roundId :
        /\ ~resolved[r] /\ resolved' = [resolved EXCEPT ![r] = TRUE]
        /\ slot' = slot + 1 /\ UNCHANGED <<wager, bets>> /\ Notify(r)
    /\ UNCHANGED <<roundReads, walletReads, bid, roundId, account, live, currentRound, results, myBets, confirmed,
                   stored, switches>>

\* mine() and runTx: sent, landed, confirmed to the page (or failed).
mine ==
    /\ account # NoWallet /\ bid = NoBid
    /\ bid' = [stage |-> "sent", round |-> roundId, account |-> account]
    /\ UNCHANGED <<chain, wire, roundId, account, live, currentRound, results, myBets, confirmed, stored, switches>>

bidLands ==
    /\ bid.stage = "sent" /\ bid.round = roundId /\ Deploy(bid.round, bid.account)
    /\ bid' = [bid EXCEPT !.stage = "landed"]
    /\ UNCHANGED <<roundReads, walletReads, roundId, account, live, currentRound, results, myBets, confirmed, stored,
                   switches>>

bidFails ==
    /\ bid.stage = "sent" /\ bid' = NoBid
    /\ UNCHANGED <<chain, wire, roundId, account, live, currentRound, results, myBets, confirmed, stored, switches>>

\* The onDone callback of mine().
bidConfirmed ==
    /\ bid.stage = "landed" /\ bid' = NoBid
    /\ IF bid.round = roundId /\ bid.account = account
       THEN rememberConfirmedTileBets
       ELSE UNCHANGED <<myBets, confirmed, stored>>
    /\ roundReads' = RoundReadStarted(roundId)
    /\ UNCHANGED <<chain, notices, walletReads, roundId, account, live, currentRound, results, switches>>

-----------------------------------------------------------------------------
(* The page.                                                               *)

\* The five-second poll and the faster poll of the result window.
refreshRound ==
    /\ live /\ roundReads' = RoundReadStarted(roundId) /\ roundReads' # roundReads
    /\ UNCHANGED <<chain, notices, walletReads, bid, roundId, account, live, currentRound, results, myBets, confirmed,
                   stored, switches>>

\* The answer of a round read: the public board first, then a detached read
\* of the wallet's receipts.
roundReadArrives ==
    /\ \E x \in roundReads :
        /\ roundReads' = roundReads \ {x}
        /\ applyRoundSnapshot(x)
        /\ walletReads' = IF Acceptable(x) /\ account # NoWallet THEN WalletReadStarted ELSE walletReads
        /\ myBets' = IF Acceptable(x) /\ account = NoWallet THEN 0 ELSE myBets
    /\ UNCHANGED <<chain, notices, bid, roundId, account, live, confirmed, stored, switches>>

roundReadFails ==
    /\ \E x \in roundReads : roundReads' = roundReads \ {x}
    /\ UNCHANGED <<chain, notices, walletReads, bid, roundId, account, live, currentRound, results, myBets, confirmed,
                   stored, switches>>

\* The answer of a receipt read, or its timeout.
walletReadArrives ==
    /\ \E x \in walletReads :
        /\ walletReads' = walletReads \ {x}
        /\ \/ x.round = roundId /\ x.account = account /\ reconcileConfirmedTileBets(x.amount)
           \/ UNCHANGED <<myBets, confirmed, stored>>
    /\ UNCHANGED <<chain, notices, roundReads, bid, roundId, account, live, currentRound, results, switches>>

\* A notice of the current round goes to the board, one of the round before
\* to the results; the page ignores it off its route.
onRoundActivity ==
    /\ \E x \in notices :
        /\ notices' = notices \ {x}
        /\ \/ live /\ x.round = roundId /\ applyRoundSnapshot(x)
           \/ live /\ x.round # roundId /\ publishResolvedRound(x) /\ UNCHANGED currentRound
           \/ ~live /\ UNCHANGED <<currentRound, results>>
    /\ UNCHANGED <<chain, roundReads, walletReads, bid, roundId, account, live, myBets, confirmed, stored, switches>>

\* tick() at a rollover; loadResolved reads the previous round's account, or
\* what the index holds, until it finds a result or gives up.
tick ==
    /\ roundId < LastRound /\ roundId' = roundId + 1
    /\ confirmed' = Nothing /\ stored' = clearStored
    /\ currentRound' = NoBoard /\ myBets' = 0
    /\ roundReads' = IF live THEN roundReads \cup {Snapshot(roundId + 1)} ELSE roundReads
    /\ UNCHANGED <<chain, notices, walletReads, bid, account, live, results, switches>>

loadResolved ==
    /\ live /\ \E r \in 0..(roundId - 1) : publishResolvedRound(Snapshot(r))
    /\ UNCHANGED <<chain, wire, bid, roundId, account, live, currentRound, myBets, confirmed, stored, switches>>

\* onAccountChange: local amounts are dropped from memory, not from storage.
onAccountChange ==
    /\ switches < MaxSwitches /\ switches' = switches + 1
    /\ account' \in (Wallets \cup {NoWallet}) \ {account}
    /\ confirmed' = Nothing /\ myBets' = 0
    /\ roundReads' = IF account' # NoWallet /\ live THEN RoundReadStarted(roundId) ELSE roundReads
    /\ UNCHANGED <<chain, notices, walletReads, bid, roundId, live, currentRound, results, stored>>

setLive ==
    /\ switches < MaxSwitches /\ switches' = switches + 1
    /\ live' = ~live
    /\ roundReads' = IF live' THEN RoundReadStarted(roundId) ELSE roundReads
    /\ UNCHANGED <<chain, notices, walletReads, bid, roundId, account, currentRound, results, myBets, confirmed, stored>>

Next ==
    \/ deployElsewhere \/ settle \/ mine \/ bidLands \/ bidFails \/ bidConfirmed
    \/ refreshRound \/ roundReadArrives \/ roundReadFails \/ walletReadArrives \/ onRoundActivity
    \/ tick \/ loadResolved \/ onAccountChange \/ setLive

Spec == Init /\ [][Next]_vars

-----------------------------------------------------------------------------
(* The board and the results never step back: while a round is current, no *)
(* late answer or notice takes a bid or the settlement off its board, and  *)
(* the latest results only move to later rounds.                           *)
StepsForward ==
    /\ roundId' = roundId /\ currentRound # NoBoard =>
         /\ currentRound'.round = roundId
         /\ currentRound'.wager >= currentRound.wager
         /\ currentRound.resolved => currentRound'.resolved
    /\ lastResolved' >= lastResolved /\ lastPlayed' >= lastPlayed

(* While a wallet stays connected in a round, a tile it has paid for stays *)
(* locked: no read of its receipts taken before the payment, whenever it   *)
(* arrives, takes the tile back.  The one exception is the answer of a     *)
(* request that was superseded when the user switched wallets and back.    *)
KeepsPaidTiles ==
    /\ roundId' = roundId /\ account' = account /\ account # NoWallet
    /\ \A x \in walletReads \ walletReads' : x.current
    => myBets' >= myBets
=============================================================================
