\* Three requests at once, one admitted per window of two ticks, a lock of one tick.
SPECIFICATION GateSpec
CONSTANTS
    r1 = r1  r2 = r2  r3 = r3
    Request = {r1, r2, r3}
    LIMIT = 1
    WINDOW = 2
    TTL = 1
    Nobody = Nobody
INVARIANTS GateTypeOK WindowCap LeaseExclusion NoneMeansBroken
PROPERTIES WindowNotProlonged WindowEnds SettledForLife KeyEnds
