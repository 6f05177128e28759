\* Two decisions on one request.
SPECIFICATION Spec
CONSTANTS
    b1 = b1  b2 = b2  b3 = b3  b4 = b4  p1 = p1  p2 = p2  h1 = h1  h2 = h2  s1 = s1
    Booking = {b1}
    Property = {p1}
    PropertyOf <- AtProperty
    StartDate <- Starts
    EndDate <- Ends
    RequiresApproval = {p1}
    Handler = {h1, h2}
    Sweeper = {}
    None = None
    HOLD = 1
    LockFaults = FALSE
    MaxTime = 1
    MaxVersion = 1
\* The clock is bounded and a booking is created once, so runs end.
CHECK_DEADLOCK FALSE
PROPERTY ApproveOnlyRequested
