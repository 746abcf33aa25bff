--------------------------- MODULE RoundSelection ---------------------------
(***************************************************************************)
(* Which rounds the two workers of the public record look at in a tick.    *)
(* The indexer reconciles a recent window, the stale rows and a slice of a *)
(* persistent walk over all older ids.  The lifecycle keeper merges four   *)
(* bounded queries and takes a fair slice of them; its walk over history   *)
(* is a cursor in memory.                                                  *)
(***************************************************************************)
EXTENDS Integers, Sequences, FiniteSets

CONSTANTS
    MaxRound,       \* bound: the newest round id
    RECENT_DEPTH,   \* recent ids reconciled in every tick
    GAP_BATCH,      \* older ids reconciled in a tick
    WINDOW_SIZE,    \* rows of one lifecycle query
    ROUND_BATCH,    \* rounds one lifecycle tick processes
    MaxRestarts,    \* bound: restarts of the lifecycle keeper
    NoCursor        \* the lifecycle walk starts at the newest round

VARIABLES
    current,        \* id of the newest round
    absent,         \* older rounds the index has no row for
    gap,            \* mine_indexer_state of the historical walk
    blocked,        \* unclosed rounds that wait for a buyback or an archive
    unclosed,       \* indexed rounds whose account is not closed
    unpaid,         \* of these, rounds none of whose receipts is processed
    cursor,         \* historicalRoundCursor
    visited,        \* rounds the last lifecycle tick processed
    restarts

vars == <<current, absent, gap, blocked, unclosed, unpaid, cursor, visited, restarts>>
indexerVars == <<absent, gap>>
keeperVars == <<unclosed, unpaid, cursor, visited, restarts>>

-----------------------------------------------------------------------------
(* The indexer.                                                            *)

recentScheduledRoundIds(now) == {i \in 0..now : i > now - RECENT_DEPTH}

GapWalkSkipsOne(now, next) ==
    LET high == now - RECENT_DEPTH
        start == IF next \in 0..high THEN next ELSE 0
    IN [ids |-> {i \in 0..high : i >= start /\ i < start + GAP_BATCH},
        next |-> IF start + GAP_BATCH < high THEN start + GAP_BATCH + 1 ELSE 0]
historicalRoundGapBatch(now, next) ==
    LET high == now - RECENT_DEPTH
        start == IF next \in 0..high THEN next ELSE 0
        ids == {i \in 0..high : i >= start /\ i < start + GAP_BATCH}
    IN IF high < 0
       THEN [ids |-> {}, next |-> 0]
       ELSE [ids |-> ids,
             next |-> IF start + GAP_BATCH <= high THEN start + GAP_BATCH ELSE 0]

\* Reconciling a round restores its row; the walk moves at the end of the pass.
reconcileBatch ==
    LET plan == historicalRoundGapBatch(current, gap)
    IN /\ absent' = absent \ (recentScheduledRoundIds(current) \cup plan.ids)
       /\ gap' = plan.next
       /\ UNCHANGED <<current, blocked, keeperVars>>

-----------------------------------------------------------------------------
(* The lifecycle keeper.                                                   *)

Descending(S) ==
    [k \in 1..Cardinality(S) |-> CHOOSE r \in S : Cardinality({x \in S : x > r}) = k - 1]
Ascending(S) ==
    [k \in 1..Cardinality(S) |-> CHOOSE r \in S : Cardinality({x \in S : x < r}) = k - 1]
Window(q) == SubSeq(q, 1, IF Len(q) < WINDOW_SIZE THEN Len(q) ELSE WINDOW_SIZE)

historicalLifecycleQuery(c) ==
    Window(Descending({r \in unclosed : c = NoCursor \/ r < c}))

nextHistoricalLifecycleCursor(rows) ==
    IF rows = <<>> THEN NoCursor ELSE rows[Len(rows)]

\* The queues take turns; each offers its first round not yet selected.
selectLifecycleRoundBatch(limit, queues) ==
    LET open(q, taken) == {k \in 1..Len(q) : q[k] \notin taken}
        add(q, taken) ==
            IF Cardinality(taken) = limit \/ open(q, taken) = {} THEN taken
            ELSE taken \cup {q[CHOOSE k \in open(q, taken) : \A l \in open(q, taken) : k <= l]}
        selected[k \in 0..(limit * Len(queues))] ==
            IF k = 0 THEN {}
            ELSE UNION {add(queues[1 + ((k - 1) % Len(queues))], t) : t \in {selected[k - 1]}}
    IN selected[limit * Len(queues)]

\* One round that fails does not stop the others of the batch.
processLifecycleRoundQueue(batch) == [paid |-> batch, closed |-> batch \ blocked]

\* A visit pays what is unpaid and closes a round that waits for nothing.
\* The fourth queue, randomness accounts to close, is empty for server rounds.
lifecycleQueues ==
    <<Window(Descending(unclosed)), Window(Ascending(unpaid)), historicalLifecycleQuery(cursor)>>

lifecycleTick ==
    \E historical \in {historicalLifecycleQuery(cursor)} :
    \E batch \in {selectLifecycleRoundBatch(ROUND_BATCH, lifecycleQueues)} :
       /\ visited' = batch
       /\ unpaid' = unpaid \ processLifecycleRoundQueue(batch).paid
       /\ unclosed' = unclosed \ processLifecycleRoundQueue(batch).closed
       /\ cursor' = nextHistoricalLifecycleCursor(historical)
       /\ UNCHANGED <<current, blocked, restarts, indexerVars>>

\* The walk is in memory: a restart begins it again.
KeeperRestart ==
    /\ cursor # NoCursor /\ restarts < MaxRestarts
    /\ cursor' = NoCursor /\ restarts' = restarts + 1
    /\ UNCHANGED <<current, blocked, unclosed, unpaid, visited, indexerVars>>

-----------------------------------------------------------------------------
OpenRound ==
    /\ current < MaxRound
    /\ current' = current + 1
    /\ unclosed' = unclosed \cup {current + 1}
    /\ unpaid' = unpaid \cup {current + 1}
    /\ \E wait \in BOOLEAN :
          blocked' = IF wait THEN blocked \cup {current + 1} ELSE blocked
    /\ UNCHANGED <<indexerVars, cursor, visited, restarts>>

\* Any older round may be missing from the index, or wait, at the start.
Init ==
    /\ current = MaxRound - 1
    /\ absent \in SUBSET (0..current) /\ gap \in {0, MaxRound}
    /\ unclosed = 0..current /\ unpaid \in {{}, unclosed}
    /\ blocked \in {{}, unclosed}
    /\ cursor = NoCursor /\ visited = {} /\ restarts = 0

Next == reconcileBatch \/ lifecycleTick \/ OpenRound \/ KeeperRestart

Spec == Init /\ [][Next]_vars

\* Both workers run in a loop of their own.
FairSpec == Spec /\ WF_vars(reconcileBatch) /\ WF_vars(lifecycleTick)

-----------------------------------------------------------------------------
\* The cursors of indexer and lifecycle keeper stay among the rounds.
TypeOK ==
    /\ current \in 0..MaxRound /\ gap \in 0..MaxRound
    /\ absent \subseteq 0..MaxRound /\ unclosed \subseteq 0..MaxRound
    /\ cursor \in (0..MaxRound) \cup {NoCursor}

\* Every row the index lost is found again, however old the round is.
EveryGapFound == <>[](absent = {})

\* No round waits for its payment behind rounds that wait for something else.
EveryRoundPaid == <>[](unpaid = {})

\* "A descending keyset walk eventually visits every unclosed round": the
\* comment of historicalLifecycleQuery.
EveryUnclosedRoundVisited ==
    \A r \in 0..MaxRound : (r \in unclosed) ~> (r \in visited)
=============================================================================
