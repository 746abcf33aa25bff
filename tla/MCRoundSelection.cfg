SPECIFICATION FairSpec
CONSTANTS
    MaxRound = 3
    RECENT_DEPTH = 1
    GAP_BATCH = 2
    WINDOW_SIZE = 3
    ROUND_BATCH = 2
    MaxRestarts = 0
    NoCursor = NoCursor
CHECK_DEADLOCK FALSE
PROPERTY EveryUnclosedRoundVisited
