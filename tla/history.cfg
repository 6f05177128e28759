\* SQLite: two senders, three ids, pages of two messages, a bucket of two messages that
\* grow in two ticks each. Clock and ids are bounded, so the system may stop.
SPECIFICATION FairSpec
CONSTANTS
    c1 = c1  c2 = c2
    Conn = {c1, c2}
    Limited = c1
    COST = 2
    CAPACITY = 2
    MaxTime = 4
    LIMIT = 2
    OneWriter = TRUE
    MaxId = 3
    None = None
INVARIANTS TypeOK BurstBound PatienceAdmits
PROPERTY CatchesUp
CHECK_DEADLOCK FALSE
