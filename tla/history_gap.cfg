\* MySQL or Postgres: two senders, three ids, pages of two messages, a bucket of two messages that
\* grow in two ticks each. Clock and ids are bounded, so the system may stop.
SPECIFICATION Spec
CONSTANTS
    c1 = c1  c2 = c2
    Conn = {c1, c2}
    Limited = c1
    COST = 2
    CAPACITY = 2
    MaxTime = 4
    LIMIT = 2
    OneWriter = FALSE
    MaxId = 3
    None = None
INVARIANT NoSkip
CHECK_DEADLOCK FALSE
