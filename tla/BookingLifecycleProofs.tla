----------------------- MODULE BookingLifecycleProofs -----------------------
(***************************************************************************)
(* Theorems about the abstract workflow.                                   *)
(***************************************************************************)
EXTENDS BookingLifecycle, StayDatesProofs

\* Two bookings that share a night stand in each other's way, whichever of
\* them one asks about first.
LEMMA ShareNightConflict ==
    ASSUME NEW b \in Booking, NEW c \in Booking, ShareNight(c, b)
    PROVE  Conflict(b, c) /\ Conflict(c, b)
  <1>1. /\ StartDate[b] \in Int /\ EndDate[b] \in Int
        /\ StartDate[c] \in Int /\ EndDate[c] \in Int
        /\ ValidStay(StartDate[b], EndDate[b])
        /\ ValidStay(StartDate[c], EndDate[c])
    BY BookingDataAssumption
  <1>2. Overlaps(StartDate[b], EndDate[b], StartDate[c], EndDate[c])
    BY <1>1, OverlapMeansSharedNight DEF ShareNight
  <1>3. Overlaps(StartDate[c], EndDate[c], StartDate[b], EndDate[b])
    BY <1>1, OverlapMeansSharedNight DEF ShareNight
  <1> QED
    BY <1>2, <1>3 DEF Conflict, ShareNight

\* A status function is what the workflow keeps.
StatusOK == status \in [Booking -> Status]

\* One step changes one status, or releases some holds.
LEMMA OneMove ==
    ASSUME StatusOK, [Next]_status, NEW b \in Booking, status'[b] = "confirmed"
    PROVE  \/ status[b] = "confirmed"
           \/ Free(b) /\ \A c \in Booking \ {b} : status'[c] = status[c]
  <1>1. CASE status' = status
    BY <1>1
  <1>2. CASE \E S \in SUBSET Booking : Expire(S)
    BY <1>2 DEF Expire
  <1>3. ASSUME NEW c \in Booking,
               Create(c) \/ Approve(c) \/ Decline(c) \/ Confirm(c) \/ Cancel(c)
        PROVE  \/ status[b] = "confirmed"
               \/ Free(b) /\ \A d \in Booking \ {b} : status'[d] = status[d]
    BY <1>3 DEF Create, Approve, Decline, Confirm, Cancel, Move, InitialStatus,
                StatusOK
  <1> QED
    BY <1>1, <1>2, <1>3 DEF Next

\* Every booking always has one of the statuses.
LEMMA StatusTyped == Spec => []StatusOK
  <1>1. Init => StatusOK
    BY DEF Init, StatusOK, Status
  <1>2. StatusOK /\ [Next]_status => StatusOK'
    <2> SUFFICES ASSUME StatusOK, [Next]_status PROVE StatusOK'
      OBVIOUS
    <2>1. ASSUME NEW b \in Booking,
                 Create(b) \/ Approve(b) \/ Decline(b) \/ Confirm(b) \/ Cancel(b)
          PROVE  StatusOK'
      BY <2>1 DEF Create, Approve, Decline, Confirm, Cancel, Move, InitialStatus,
                  StatusOK, Status
    <2>2. CASE \E S \in SUBSET Booking : Expire(S)
      BY <2>2 DEF Expire, StatusOK, Status
    <2>3. CASE status' = status
      BY <2>3 DEF StatusOK
    <2> QED
      BY <2>1, <2>2, <2>3 DEF Next
  <1> QED
    BY <1>1, <1>2, PTL DEF Spec

\* The workflow never grants one night twice.
THEOREM LifecycleGrantsOnce == Spec => []NoDoubleBooking
  <1>1. Init => NoDoubleBooking
    BY DEF Init, NoDoubleBooking
  <1>2. StatusOK /\ NoDoubleBooking /\ [Next]_status => NoDoubleBooking'
    <2> SUFFICES ASSUME StatusOK, NoDoubleBooking, [Next]_status,
                        NEW b \in Booking, NEW c \in Booking, b # c,
                        ShareNight(c, b),
                        status'[b] = "confirmed", status'[c] = "confirmed"
                 PROVE  FALSE
      BY DEF NoDoubleBooking, ShareNight
    <2>1. Conflict(b, c) /\ Conflict(c, b)
      BY ShareNightConflict
    <2>2. CASE status[b] = "confirmed" /\ status[c] = "confirmed"
      BY <2>2 DEF NoDoubleBooking
    <2>3. CASE status[b] # "confirmed"
      BY <2>1, <2>3, OneMove DEF Free
    <2>4. CASE status[c] # "confirmed"
      BY <2>1, <2>4, OneMove DEF Free
    <2> QED
      BY <2>2, <2>3, <2>4
  <1> QED
    BY <1>1, <1>2, StatusTyped, PTL DEF Spec
=============================================================================
