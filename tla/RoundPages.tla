----------------------------- MODULE RoundPages -----------------------------
(***************************************************************************)
(* The paged history of rounds-page.js: pages of the index, which lags     *)
(* behind the chain, overlaid with direct reads of the newest rounds.      *)
(* Rounds open, settle and are closed on the chain and are indexed at any  *)
(* later time; a page is computed from one state of both.                  *)
(***************************************************************************)
EXTENDS Naturals, Sequences, SequencesExt, FiniteSets, FiniteSetsExt

CONSTANTS
    RECENT_CHAIN_ROUNDS,   \* elapsed rounds read directly
    ROUND_PAGE_SIZE,
    MaxRound               \* bound: scheduled round ids

VARIABLES
    current,   \* roundIdAt(): id of the scheduled round
    status,    \* status[r]: what the Round account says; "absent" before it opens
    closed,    \* rounds whose account has been closed
    index      \* index[r]: status of the row in mine_rounds

vars == <<current, status, closed, index>>

Rounds == 0..MaxRound
Outcomes == {"empty", "split", "solo"}     \* modes of a settled round
Filters == {"all", "mined", "split", "solo"}

Init ==
    /\ current = 0 /\ closed = {}
    /\ status = [r \in Rounds |-> "absent"] /\ index = [r \in Rounds |-> "absent"]

-----------------------------------------------------------------------------
(* The chain and the indexer.                                              *)

clock ==
    /\ current < MaxRound /\ current' = current + 1
    /\ UNCHANGED <<status, closed, index>>

\* A keeper may open the round ahead of its schedule, or not at all.
openRound ==
    /\ \E r \in {current, current + 1} \cap Rounds :
        status[r] = "absent" /\ status' = [status EXCEPT ![r] = "open"]
    /\ UNCHANGED <<current, closed, index>>

settleRound ==
    /\ \E r \in Rounds, o \in Outcomes :
        r < current /\ status[r] = "open" /\ status' = [status EXCEPT ![r] = o]
    /\ UNCHANGED <<current, closed, index>>

\* An account is closed only once its result is in the index.
closeRound ==
    /\ \E r \in Rounds \ closed : index[r] \in Outcomes /\ closed' = closed \cup {r}
    /\ UNCHANGED <<current, status, index>>

indexRound ==
    /\ \E r \in Rounds : index[r] # status[r] /\ index' = [index EXCEPT ![r] = status[r]]
    /\ UNCHANGED <<current, status, closed>>

Next == clock \/ openRound \/ settleRound \/ closeRound \/ indexRound
Spec == Init /\ [][Next]_vars

-----------------------------------------------------------------------------
(* One page.  A row is a record of a round id and the status it shows.     *)

Row(r, s) == [id |-> r, status |-> s]
Newest(rows) == SetToSortSeq(rows, LAMBDA a, b : a.id > b.id)

\* matchesFilter, and applyFilter of the SQL query.
matchesFilter(s, filter) ==
    filter = "all" \/ (filter = "mined" /\ s \in Outcomes \ {"empty"}) \/ s = filter

\* readRecentElapsedRounds and readCurrentRoundEntry: accounts that exist.
Exists(r) == r \in Rounds /\ status[r] # "absent" /\ r \notin closed
recentChainRows == {Row(r, status[r]) : r \in {x \in Rounds : x < current /\ x + RECENT_CHAIN_ROUNDS >= current /\ Exists(x)}}
liveRound(filter) == IF filter = "all" /\ Exists(current) THEN {Row(current, "live")} ELSE {}
authoritativeRows(filter) == recentChainRows \cup liveRound(filter)

\* loadIndexedRounds: the rows of the bounded, filtered query without the
\* rounds read directly, from an offset on.
Excluded(filter) == {current} \cup {row.id : row \in authoritativeRows(filter)}
IndexedRows(filter) ==
    Newest({Row(r, index[r]) : r \in {x \in 0..current \ Excluded(filter) :
                                        index[x] # "absent" /\ matchesFilter(index[x], filter)}})
loadIndexedRounds(filter, offset, size) ==
    LET rows == IndexedRows(filter) IN SubSeq(rows, offset + 1, Min({offset + size, Len(rows)}))

\* The direct rows are a prefix of the virtual list: later pages shift by it.
WindowWithoutShift(page, prefix) ==
    LET start == page * ROUND_PAGE_SIZE
    IN  [offset |-> start,
         size |-> ROUND_PAGE_SIZE - Max({0, Min({prefix, start + ROUND_PAGE_SIZE}) - start})]
roundHistoryPageWindow(page, prefix) ==
    LET start == page * ROUND_PAGE_SIZE
        onPage == Max({0, Min({prefix, start + ROUND_PAGE_SIZE}) - start})
    IN  [offset |-> Max({0, start - prefix}), size |-> ROUND_PAGE_SIZE - onPage]

Matching(filter) == {row \in authoritativeRows(filter) : matchesFilter(row.status, filter)}

\* Direct rows replace indexed ones; newest first, one page long.
mergeAuthoritativeRecentRounds(indexed, filter) ==
    LET rows == Newest(ToSet(indexed) \cup Matching(filter))
    IN  SubSeq(rows, 1, Min({ROUND_PAGE_SIZE, Len(rows)}))

Pages(filter) ==
    Max({1, (Len(IndexedRows(filter)) + Cardinality(Matching(filter)) + ROUND_PAGE_SIZE - 1) \div ROUND_PAGE_SIZE})
loadFromIndex(page, filter) ==
    LET window == roundHistoryPageWindow(page, Cardinality(Matching(filter)))
        rows == loadIndexedRounds(filter, window.offset, window.size)
    IN  IF page = 0 THEN mergeAuthoritativeRecentRounds(rows, filter) ELSE rows

\* mine_round_stats corrected by what the direct rows know better.
Played(s) == IF s \in Outcomes \ {"empty"} THEN 1 ELSE 0
mergeAuthoritativeRoundSummary(filter) ==
    Cardinality({r \in Rounds : Played(index[r]) = 1})
    + Cardinality({row \in authoritativeRows(filter) : Played(row.status) = 1})
    - Cardinality({row \in authoritativeRows(filter) : Played(index[row.id]) = 1})

-----------------------------------------------------------------------------
(* What a round shows when the newest accounts win over the index.         *)
Shown(r) ==
    IF r = current THEN IF Exists(r) THEN "live" ELSE "absent"
    ELSE IF r + RECENT_CHAIN_ROUNDS >= current /\ Exists(r) THEN status[r]
    ELSE index[r]

(* The pages of a filter, one after the other, list every known round that *)
(* matches the filter exactly once, newest first, with the status the      *)
(* chain has for the newest rounds however far the index lags, and the     *)
(* count of mined rounds in the summary agrees with them.                  *)
PagesPartition ==
    \A filter \in Filters :
        LET all == FlattenSeq([p \in 1..Pages(filter) |-> loadFromIndex(p - 1, filter)])
        IN  /\ all = Newest({Row(r, Shown(r)) : r \in {x \in 0..current :
                              Shown(x) # "absent" /\ (x = current => filter = "all") /\ matchesFilter(Shown(x), filter)}})
            /\ mergeAuthoritativeRoundSummary(filter) = Cardinality({r \in 0..current : Played(Shown(r)) = 1})
=============================================================================
