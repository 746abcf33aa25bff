SPECIFICATION Spec
CONSTANTS
    k1 = k1
    k2 = k2
    r1 = r1
    r2 = r2
    Keepers = {k1, k2}
    Reveals = {r1, r2}
    NoReveal = NoReveal
    FirstSlot = 1
    OPENED_AT = 2
    BETTING_ENDS_AT = 3
    RESULT_DEADLINE = 6
    REFUND_AT = 8
    PREPARATION_LEAD = 1
    SERVER_ENTROPY_DELAY_SLOTS = 1
    SLOT_HASHES_MAX_ENTRIES = 2
    MaxSlot = 8
    MaxFailures = 2
CHECK_DEADLOCK FALSE
INVARIANTS CommitRevealSound HonestReport
SYMMETRY Symmetry
