------------------------------ MODULE MCClients ------------------------------
(***************************************************************************)
(* Bounded instances of the clients, of the chat pane and of the pages of  *)
(* rounds.  The pane and the pages too are alone in a behaviour.           *)
(*                                                                         *)
(* The share scale of the pool is small, so that passive fees make shares  *)
(* scarce.                                                                 *)
(***************************************************************************)
EXTENDS Clients, TLC

CONSTANTS p1, p2, p3, m1, m2, t1, t2

\* Two receipts of round 0 and one of the next.
RoundOfReceipt == p1 :> 0 @@ p2 :> 0 @@ p3 :> 1
MinerOfReceipt == p1 :> m1 @@ p2 :> m2 @@ p3 :> m1

\* p1 plays both tiles of round 0, p2 one of them, p3 the other tile of round 1.
StakeOf ==
    p1 :> (t1 :> 1 @@ t2 :> 1) @@ p2 :> (t1 :> 1 @@ t2 :> 0) @@ p3 :> (t1 :> 0 @@ t2 :> 1)

\* Round 0 is drawn for one of its miners, round 1 hits the motherlode.
Draw(t, m, s) == [tile |-> t, mode |-> m, sample |-> s]
Draws == 0 :> {Draw(t1, "solo", 1)} @@ 1 :> {Draw(t2, "motherlode", 0)}

VARIABLES
    inserted, lastId, wire, answers, loading, queried, view, seen,
    current, status, closed, rows

feedVars == <<inserted, lastId, wire, answers, loading, queried, view, seen>>
pagesVars == <<current, status, closed, rows>>
all == <<clientVars, feedVars, pagesVars>>

Feed == INSTANCE ChatFeed WITH
    stored <- inserted, history <- queried, HISTORY_LIMIT <- 2, MaxMessages <- 3

Pages == INSTANCE RoundPages WITH
    index <- rows, ROUND_PAGE_SIZE <- 2, MaxRound <- 3

FeedOff ==
    /\ inserted = 0 /\ lastId = 0 /\ wire = 0 /\ answers = 0 /\ loading = 0 /\ queried = 0
    /\ view = 0 /\ seen = 0
PagesOff ==
    /\ current = 0 /\ status = 0 /\ closed = 0 /\ rows = 0
ClientsOff == Init /\ ChatOff /\ WalletOff /\ RosterOff /\ SwitchboardOff

MCInit ==
    \/ ClientsInit /\ FeedOff /\ PagesOff
    \/ focus = "feed" /\ Feed!Init /\ ClientsOff /\ PagesOff
    \/ focus = "pages" /\ Pages!Init /\ ClientsOff /\ FeedOff

MCNext ==
    \/ ClientsNext /\ UNCHANGED <<feedVars, pagesVars>>
    \/ focus = "feed" /\ Feed!Next /\ UNCHANGED <<clientVars, pagesVars>>
    \/ focus = "pages" /\ Pages!Next /\ UNCHANGED <<clientVars, feedVars>>

MCSpec == MCInit /\ [][MCNext]_all

-----------------------------------------------------------------------------
(* Properties of the pane and of the pages                                 *)

\* appendChatMessage and trimChatToLimit: no message is shown twice, and the
\* pane remembers exactly what it shows.
ShownOnce == focus = "feed" => Feed!ShownOnce

\* loadFromIndex: the pages of every filter list each played round exactly once.
PagesPartition == focus = "pages" => Pages!PagesPartition

Symmetry == Permutations(Miners)
=============================================================================
