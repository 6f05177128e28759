\* One booking, at a property that requires approval or at one that does not; two handlers and the sweeper, under the fairness of the sweeper loop.
SPECIFICATION FairSpec
CONSTANTS
    b1 = b1  b2 = b2  b3 = b3  b4 = b4  p1 = p1  p2 = p2  h1 = h1  h2 = h2  s1 = s1
    Booking = {b1, b3}
    Property = {p1, p2}
    PropertyOf <- AtProperty
    StartDate <- Starts
    EndDate <- Ends
    RequiresApproval = {p1}
    Handler = {h1, h2}
    Sweeper = {s1}
    None = None
    HOLD = 1
    LockFaults = FALSE
    MaxTime = 2
    MaxVersion = 3
CONSTRAINT OneProperty
\* The clock is bounded and a booking is created once, so runs end.
CHECK_DEADLOCK FALSE
INVARIANTS TypeOK HoldHasDeadline RetriesShareIntent ConfirmedIsPaid ApprovalPrecedesPayment LockExclusion
PROPERTIES ClosedStaysUnconfirmed HoldsAreReleased
