\* Two overlapping bookings, that require approval or do not; one thread runs all requests and sweeps; Redis fails.
SPECIFICATION Spec
CONSTANTS
    b1 = b1  b2 = b2  b3 = b3  b4 = b4  p1 = p1  p2 = p2  h1 = h1  h2 = h2  s1 = s1
    Booking = {b1, b2, b3, b4}
    Property = {p1, p2}
    PropertyOf <- AtProperty
    StartDate <- Starts
    EndDate <- Ends
    RequiresApproval = {p1}
    Handler = {h1}
    Sweeper = {h1}
    None = None
    HOLD = 1
    LockFaults = TRUE
    MaxTime = 2
    MaxVersion = 3
CONSTRAINT OneProperty
\* The clock is bounded and a booking is created once, so runs end.
CHECK_DEADLOCK FALSE
INVARIANTS NoDoubleBooking OneOpenIntent PaidIntentOnFile
PROPERTY FollowsLifecycle
