\* Two requests, one of which fails between INCR and EXPIRE.
SPECIFICATION Spec
CONSTANTS
    r1 = r1  r2 = r2  r3 = r3
    Request = {r1, r2}
    LIMIT = 2
    WINDOW = 2
INVARIANT CounterExpires
