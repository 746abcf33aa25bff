------------------------------- MODULE Clients -------------------------------
(***************************************************************************)
(* What a player is owed in MYNE, sees and sends, and the keeper that      *)
(* draws with Switchboard: the pool of unclaimed MYNE, chat sign-in and    *)
(* posting, the wallet's history and claims, and the rosters of miners.    *)
(* They interact through the chain and the database, which each models on  *)
(* its own, so a behaviour is a behaviour of one of them (focus) and the   *)
(* others have no state.                                                   *)
(***************************************************************************)
EXTENDS MiningPool

CONSTANTS
    Unknown, NoWallet, NoAccount, NoOracle,
    Wallets, Clicks, MaxChallenges, MaxChatFaults,
    LastRound, Receipts, RoundOf, RECENT_CHAIN_ROUNDS, CHUNK_SIZE, MaxLoads,
    MinerOf, Tiles, Stake, Prize, Emission, Results, MAX_ATTEMPTS, MaxReloads,
    OPENED_AT, BETTING_ENDS_AT, SETTLES_AT, REFUND_AT, Oracles, Accounts, MaxDrawFaults

VARIABLES
    focus,
    account, lastAccount, session, task, req, challenges, expired, epoch, banned, chat_feed,
    chat_faults,
    settled, winners, st, load, told, loads, claim, report,
    route, chain, index, known, card, stored, direct, refresh, history, shown, panel, reloads,
    slot, round, past, randomness, game_paused, healthy, indexed, sent, keeper, draw_faults, hindered

chatVars == <<account, lastAccount, session, task, req, challenges, expired, epoch, banned,
              chat_feed, chat_faults>>
walletVars == <<settled, winners, st, load, told, loads, claim, report>>
rosterVars == <<route, chain, index, known, card, stored, direct, refresh, history, shown,
                panel, reloads>>
drawVars == <<slot, round, past, randomness, game_paused, healthy, indexed, sent, keeper,
              draw_faults, hindered>>
clientVars == <<focus, vars, chatVars, walletVars, rosterVars, drawVars>>

Chat == INSTANCE ChatSession WITH
    feed <- chat_feed, faults <- chat_faults, MaxFaults <- MaxChatFaults

Wallet == INSTANCE WalletRewards WITH shown <- told

Roster == INSTANCE MinerRoster

Switchboard == INSTANCE SwitchboardRound WITH
    feed <- randomness, paused <- game_paused, faults <- draw_faults, MaxFaults <- MaxDrawFaults

ASSUME ClientInstances ==
    /\ MiningPoolAssumption /\ Wallet!WalletAssumption /\ Roster!RosterAssumption
    /\ Switchboard!SwitchboardAssumption

\* A component that is not in focus has no state.
ChatOff ==
    /\ account = 0 /\ lastAccount = 0 /\ session = 0 /\ task = 0 /\ req = 0 /\ challenges = 0
    /\ expired = 0 /\ epoch = 0 /\ banned = 0 /\ chat_feed = 0 /\ chat_faults = 0
WalletOff ==
    /\ settled = 0 /\ winners = 0 /\ st = 0 /\ load = 0 /\ told = 0 /\ loads = 0 /\ claim = 0
    /\ report = 0
RosterOff ==
    /\ route = 0 /\ chain = 0 /\ index = 0 /\ known = 0 /\ card = 0 /\ stored = 0 /\ direct = 0
    /\ refresh = 0 /\ history = 0 /\ shown = 0 /\ panel = 0 /\ reloads = 0
SwitchboardOff ==
    /\ slot = 0 /\ round = 0 /\ past = 0 /\ randomness = 0 /\ game_paused = 0 /\ healthy = 0
    /\ indexed = 0 /\ sent = 0 /\ keeper = 0 /\ draw_faults = 0 /\ hindered = 0

ClientsInit ==
    /\ focus \in {"mining", "chat", "wallet", "roster", "switchboard"}
    /\ Init
    /\ IF focus = "chat" THEN Chat!Init ELSE ChatOff
    /\ IF focus = "wallet" THEN Wallet!Init ELSE WalletOff
    /\ IF focus = "roster" THEN Roster!Init ELSE RosterOff
    /\ IF focus = "switchboard" THEN Switchboard!Init ELSE SwitchboardOff

ClientsNext ==
    \/ /\ focus = "mining" /\ Next
       /\ UNCHANGED <<focus, chatVars, walletVars, rosterVars, drawVars>>
    \/ /\ focus = "chat" /\ Chat!Next
       /\ UNCHANGED <<focus, vars, walletVars, rosterVars, drawVars>>
    \/ /\ focus = "wallet" /\ Wallet!Next
       /\ UNCHANGED <<focus, vars, chatVars, rosterVars, drawVars>>
    \/ /\ focus = "roster" /\ Roster!Next
       /\ UNCHANGED <<focus, vars, chatVars, walletVars, drawVars>>
    \/ /\ focus = "switchboard" /\ Switchboard!Next
       /\ UNCHANGED <<focus, vars, chatVars, walletVars, rosterVars>>

ClientsSpec == ClientsInit /\ [][ClientsNext]_clientVars

-----------------------------------------------------------------------------
(* Properties of the components                                            *)

\* chat-send and performTimedSend: a press of Send stores at most one message.
SentOnce == focus = "chat" => Chat!SentOnce

\* getSession: a message is stored under the wallet that was connected and
\* that signed the challenge of its session.
PostedAsConnected == focus = "chat" => Chat!PostedAsConnected

\* loadWalletHistory: a load that admits no missing claim status hides no
\* winning receipt that is still to be claimed.
NoHiddenWin == focus = "wallet" => Wallet!NoHiddenWin

\* claimWalletRounds: a round reported as processed has no open receipt left.
ClaimReportSound == focus = "wallet" => Wallet!ClaimReportSound

\* previous-miners.js and round-winners: a roster or a winner count that is
\* shown is the one the round's receipts give.
RosterExact == focus = "roster" => Roster!TypeOK /\ Roster!RosterExact

\* The Switchboard keeper: nobody could bet once the seed was fixed, no value
\* seen is thrown away, and faults alone never cost the players their round.
OracleDrawSound ==
    focus = "switchboard" => Switchboard!FairDraw /\ Switchboard!SettledDespiteFaults
=============================================================================
